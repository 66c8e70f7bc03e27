-------------------------------- MODULE Conn --------------------------------
(***************************************************************************)
(* The connection of package xproto: goroutines that issue requests under  *)
(* c.mu, the reader goroutine that dispatches replies, errors and events,  *)
(* the pend table that correlates a 16-bit sequence number with a waiting  *)
(* SendReply, the bounded events and errs channels, and Close.  The state  *)
(* starts where Dial returns: the handshake is done, the reader runs.      *)
(*                                                                         *)
(* A request is named by its absolute number 1, 2, ...: the code sees only *)
(* that number modulo SeqMod, the model keeps the rest as history.         *)
(*                                                                         *)
(* A definition X_Y stands before X and is X with a plausible mistake Y;   *)
(* nothing uses it: it shows that the properties would notice.             *)
(***************************************************************************)
EXTENDS Naturals, Sequences

CONSTANTS
  Callers,    (* goroutines that call Send and SendReply                   *)
  Consumers,  (* goroutines that receive from Events() and Errs()          *)
  Closers,    (* goroutines that call Close                                *)
  SeqMod,     (* sequence numbers are uint16: 65536 in the code            *)
  EventCap,   (* capacity of c.events: 64 in the code                      *)
  ErrCap,     (* capacity of c.errs: 8 in the code                         *)
  SockCap,    (* requests the socket buffer takes before Write blocks      *)
  MaxReqs,    (* bound: requests issued                                    *)
  MaxEvents,  (* bound: events the server emits                            *)
  MayHangUp,  (* whether the server may go away                            *)
  Nobody      (* c.mu is free                                              *)

Procs == Callers \cup Consumers \cup Closers
Calls == 1 .. MaxReqs

ASSUME ConnAssumption ==
  /\ SeqMod \in Nat \ {0}
  /\ SockCap \in Nat \ {0}
  /\ EventCap \in Nat /\ ErrCap \in Nat
  /\ MaxReqs \in Nat /\ MaxEvents \in Nat
  /\ MayHangUp \in BOOLEAN
  /\ Nobody \notin Procs

VARIABLES
  mu,        (* the holder of c.mu, or Nobody                              *)
  seq,       (* c.seq                                                      *)
  pend,      (* c.pend: the call waiting on a sequence number, 0 if none   *)
  events,    (* the buffer of c.events: event ids                          *)
  errs,      (* the buffer of c.errs: request numbers, 0 an I/O error      *)
  done,      (* c.done is closed                                           *)
  pc, call,  (* where each goroutine stands, and the call it works on      *)
  ch,        (* the one-slot channel each SendReply made                   *)
  rst,       (* the reader: "read", "handoff", "emit" or "dead"            *)
  rmsg, rto, (* the message in its hands, and the call it hands it to      *)
  panicked,  (* close of a closed channel: the process is gone             *)
  sockOpen,  (* c.c is not closed on this side                             *)
  peerUp,    (* the server has not gone away                               *)
  toServer,  (* requests written and not yet served                        *)
  toClient,  (* messages sent by the server and not yet read               *)
  served,    (* the server's own count of the requests it has read         *)
  (* histories *)
  issued, op,  (* requests numbered so far, and what each one is           *)
  ret,         (* what each SendReply returned                             *)
  evlog,       (* the events emitted, each with served at that time        *)
  seen,        (* event ids the application received, in order             *)
  raised,      (* requests the server answered with an error               *)
  surfaced,    (* errors pushed to c.errs                                  *)
  lost,        (* errors dropped because c.errs was full                   *)
  raced,       (* two calls of Close found c.done open at the same time    *)
  overrun      (* a number was reused while its last holder was in flight  *)

connVars == <<mu, seq, pend, events, errs, done>>
procVars == <<pc, call, ch, panicked, raced>>
readerVars == <<rst, rmsg, rto>>
wireVars == <<sockOpen, peerUp, toServer, toClient, served>>
reqVars == <<issued, op, overrun>>
errVars == <<surfaced, lost>>
vars == <<connVars, procVars, readerVars, wireVars, reqVars, errVars,
          ret, evlog, seen, raised>>

NoMsg == [kind |-> "none", seq |-> 0, re |-> 0]
NoAnswer == [kind |-> "none", re |-> 0]

-----------------------------------------------------------------------------
(* Initial state: Dial has returned.                                       *)

Init ==
  /\ mu = Nobody /\ seq = 0 /\ pend = [s \in 0 .. SeqMod - 1 |-> 0]
  /\ events = <<>> /\ errs = <<>> /\ done = FALSE
  /\ pc = [g \in Procs |-> "idle"] /\ call = [g \in Procs |-> 0]
  /\ ch = [n \in Calls |-> NoAnswer] /\ panicked = FALSE /\ raced = FALSE
  /\ rst = "read" /\ rmsg = NoMsg /\ rto = 0
  /\ sockOpen = TRUE /\ peerUp = TRUE
  /\ toServer = <<>> /\ toClient = <<>> /\ served = 0
  /\ issued = 0 /\ op = [n \in Calls |-> "none"] /\ overrun = FALSE
  /\ surfaced = {} /\ lost = {}
  /\ ret = [n \in Calls |-> NoAnswer]
  /\ evlog = <<>> /\ seen = <<>> /\ raised = {}

-----------------------------------------------------------------------------
(* Requests.  The critical section of c.mu is cut where the reader can see *)
(* a difference: before and after the Write.                               *)

IsAnswer(m) == m.kind \in {"reply", "error"}

(* Requests the server has still to read, or whose answer is still unread. *)
InFlight ==
  {toServer[i] : i \in DOMAIN toServer}
    \cup {toClient[i].re : i \in {j \in DOMAIN toClient : IsAnswer(toClient[j])}}

Lock_Skipped(g) == mu' = g
Lock(g) == mu = Nobody /\ mu' = g

Register_Never(s, n) == UNCHANGED pend
Register_Stale(s, n) == pend' = [pend EXCEPT ![seq] = n]
Register(s, n) == pend' = [pend EXCEPT ![s] = n]

(* Take c.mu and a sequence number.                                        *)
Begin(g, kind, at) ==
  /\ pc[g] = "idle" /\ issued < MaxReqs
  /\ Lock(g)
  /\ seq' = (seq + 1) % SeqMod
  /\ issued' = issued + 1
  /\ op' = [op EXCEPT ![issued + 1] = kind]
  /\ call' = [call EXCEPT ![g] = issued + 1]
  /\ pc' = [pc EXCEPT ![g] = at]
  /\ overrun' = (overrun \/ \E n \in InFlight : issued + 1 - n >= SeqMod)
  /\ UNCHANGED <<events, errs, done, ch, panicked, raced, readerVars, wireVars,
                 errVars, ret, evlog, seen, raised>>

Send_Registers(g) ==
  Begin(g, "void", "sending") /\ Register((seq + 1) % SeqMod, issued + 1)
Send(g) == Begin(g, "void", "sending") /\ UNCHANGED pend

(* SendReply registers its channel before it writes.                       *)
SendReply(g) ==
  Begin(g, "reply", "asking") /\ Register((seq + 1) % SeqMod, issued + 1)

ErrRoom_OneMore == Len(errs) <= ErrCap
ErrRoom == Len(errs) < ErrCap

(* A non-blocking send on c.errs.                                          *)
PushErr(e) ==
  LET who == {e} \ {0} IN
  \/ /\ ErrRoom
     /\ errs' = Append(errs, e) /\ surfaced' = surfaced \cup who /\ UNCHANGED lost
  \/ /\ ~ErrRoom
     /\ lost' = lost \cup who /\ UNCHANGED <<errs, surfaced>>

Broken_Deadline == TRUE
Broken == ~sockOpen \/ ~peerUp

(* The Write succeeds and c.mu is released.  Towards a server that has     *)
(* gone the bytes may vanish.                                              *)
WriteOK(g) ==
  /\ pc[g] \in {"sending", "asking"} /\ sockOpen
  /\ \/ peerUp /\ Len(toServer) < SockCap /\ toServer' = Append(toServer, call[g])
     \/ ~peerUp /\ UNCHANGED toServer
  /\ mu' = Nobody
  /\ pc' = [pc EXCEPT ![g] = IF @ = "asking" THEN "waiting" ELSE "idle"]
  /\ UNCHANGED <<seq, pend, events, errs, done, call, ch, panicked, raced, readerVars,
                 sockOpen, peerUp, toClient, served, reqVars, errVars, ret,
                 evlog, seen, raised>>

(* The Write fails.  Send reports it on c.errs, SendReply returns it and   *)
(* leaves its entry in pend.                                               *)
WriteFail(g) ==
  /\ pc[g] \in {"sending", "asking"} /\ Broken
  /\ \/ pc[g] = "sending" /\ PushErr(0) /\ UNCHANGED ret
     \/ /\ pc[g] = "asking"
        /\ ret' = [ret EXCEPT ![call[g]] = [kind |-> "werr", re |-> call[g]]]
        /\ UNCHANGED <<errs, errVars>>
  /\ mu' = Nobody
  /\ pc' = [pc EXCEPT ![g] = "idle"]
  /\ UNCHANGED <<seq, pend, events, done, call, ch, panicked, raced, readerVars,
                 wireVars, reqVars, evlog, seen, raised>>

(* SendReply receives from its channel and returns.                        *)
Wake(g) ==
  LET n == call[g] IN
  /\ pc[g] = "waiting" /\ ch[n] # NoAnswer
  /\ ret' = [ret EXCEPT ![n] = ch[n]]
  /\ ch' = [ch EXCEPT ![n] = NoAnswer]
  /\ pc' = [pc EXCEPT ![g] = "idle"]
  /\ UNCHANGED <<connVars, call, panicked, raced, readerVars, wireVars, reqVars,
                 errVars, evlog, seen, raised>>

-----------------------------------------------------------------------------
(* The application's side of the channels, and Close.                      *)

RecvEvent(g) ==
  /\ pc[g] = "idle" /\ events # <<>>
  /\ seen' = Append(seen, Head(events))
  /\ events' = Tail(events)
  /\ UNCHANGED <<mu, seq, pend, errs, done, procVars, readerVars, wireVars,
                 reqVars, errVars, ret, evlog, raised>>

RecvErr(g) ==
  /\ pc[g] = "idle" /\ errs # <<>>
  /\ errs' = Tail(errs)
  /\ UNCHANGED <<mu, seq, pend, events, done, procVars, readerVars, wireVars,
                 reqVars, errVars, ret, evlog, seen, raised>>

Stopped == done   (* a select finds c.done closed *)

(* Close: the select on c.done, the close of c.done, the close of c.c.     *)
CloseCheck(g) ==
  /\ pc[g] = "idle"
  /\ pc' = [pc EXCEPT ![g] = IF Stopped THEN "closing" ELSE "checked"]
  /\ raced' = (raced \/ (~done /\ \E h \in Closers : pc[h] = "checked"))
  /\ UNCHANGED <<connVars, call, ch, panicked, readerVars, wireVars, reqVars,
                 errVars, ret, evlog, seen, raised>>

CloseDone(g) ==
  /\ pc[g] = "checked"
  /\ panicked' = done
  /\ done' = TRUE
  /\ pc' = [pc EXCEPT ![g] = "closing"]
  /\ UNCHANGED <<mu, seq, pend, events, errs, call, ch, raced, readerVars,
                 wireVars, reqVars, errVars, ret, evlog, seen, raised>>

CloseSock(g) ==
  /\ pc[g] = "closing"
  /\ sockOpen' = FALSE
  /\ pc' = [pc EXCEPT ![g] = "idle"]
  /\ UNCHANGED <<connVars, call, ch, panicked, raced, readerVars, peerUp, toServer,
                 toClient, served, reqVars, errVars, ret, evlog, seen, raised>>

-----------------------------------------------------------------------------
(* The reader goroutine.                                                   *)

Unregister_Never(s) == UNCHANGED pend
Unregister(s) == pend' = [pend EXCEPT ![s] = 0]

(* A reply or an error for a registered call: the entry leaves pend under  *)
(* c.pmu, the channel is written after.                                    *)
ReadMatched ==
  LET m == Head(toClient) IN
  /\ rst = "read" /\ toClient # <<>> /\ IsAnswer(m) /\ pend[m.seq] # 0
  /\ toClient' = Tail(toClient)
  /\ Unregister(m.seq)
  /\ rst' = "handoff" /\ rmsg' = m /\ rto' = pend[m.seq]
  /\ UNCHANGED <<mu, seq, events, errs, done, procVars, sockOpen, peerUp,
                 toServer, served, reqVars, errVars, ret, evlog, seen, raised>>

Surface_Never(m) == UNCHANGED <<errs, errVars>>
Surface(m) ==
  \/ m.kind = "error" /\ PushErr(m.re)
  \/ m.kind # "error" /\ UNCHANGED <<errs, errVars>>

(* Nobody registered: an error goes to c.errs, a reply is dropped.         *)
ReadUnmatched ==
  LET m == Head(toClient) IN
  /\ rst = "read" /\ toClient # <<>> /\ IsAnswer(m) /\ pend[m.seq] = 0
  /\ toClient' = Tail(toClient)
  /\ Surface(m)
  /\ UNCHANGED <<mu, seq, pend, events, done, procVars, readerVars, sockOpen,
                 peerUp, toServer, served, reqVars, ret, evlog, seen, raised>>

(* ch <- replyOrErr: blocks while the one slot is taken.                   *)
Handoff ==
  /\ rst = "handoff" /\ ch[rto] = NoAnswer
  /\ ch' = [ch EXCEPT ![rto] = [kind |-> rmsg.kind, re |-> rmsg.re]]
  /\ rst' = "read" /\ rmsg' = NoMsg /\ rto' = 0
  /\ UNCHANGED <<connVars, pc, call, panicked, raced, wireVars, reqVars, errVars, ret,
                 evlog, seen, raised>>

(* decodeEvent drops a key release and keeps everything else.              *)
decodeEvent(m) == m.kind # "release"

ReadEvent ==
  LET m == Head(toClient) IN
  /\ rst = "read" /\ toClient # <<>> /\ ~IsAnswer(m)
  /\ toClient' = Tail(toClient)
  /\ IF decodeEvent(m) THEN rst' = "emit" /\ rmsg' = m
                       ELSE UNCHANGED <<rst, rmsg>>
  /\ UNCHANGED <<connVars, procVars, rto, sockOpen, peerUp, toServer, served,
                 reqVars, errVars, ret, evlog, seen, raised>>

Push_OrDrop(e) == events' = IF Len(events) < EventCap THEN Append(events, e) ELSE events
Push(e) == Len(events) < EventCap /\ events' = Append(events, e)

(* The select of the reader: room in c.events, or c.done closed.           *)
Emit ==
  /\ rst = "emit" /\ Push(rmsg.re)
  /\ rst' = "read" /\ rmsg' = NoMsg
  /\ UNCHANGED <<mu, seq, pend, errs, done, procVars, rto, wireVars, reqVars,
                 errVars, ret, evlog, seen, raised>>

EmitDone_Never == FALSE
EmitDone ==
  /\ rst = "emit" /\ Stopped
  /\ rst' = "dead" /\ rmsg' = NoMsg
  /\ UNCHANGED <<connVars, procVars, rto, wireVars, reqVars, errVars, ret,
                 evlog, seen, raised>>

(* A read fails and the reader returns, which closes c.events.  What bufio *)
(* already holds may still be read first, so this is a choice.             *)
ReadFail ==
  /\ rst = "read" /\ Broken
  /\ PushErr(0)
  /\ rst' = "dead"
  /\ UNCHANGED <<mu, seq, pend, events, done, procVars, rmsg, rto, wireVars,
                 reqVars, ret, evlog, seen, raised>>

Reader ==
  \/ ReadMatched \/ ReadUnmatched \/ Handoff
  \/ ReadEvent \/ Emit \/ EmitDone \/ ReadFail

-----------------------------------------------------------------------------
(* The X server.  It numbers what it reads and answers in that order; a    *)
(* request without a reply is answered only when it fails.                 *)

Verdicts(n) == {"error", IF op[n] = "reply" THEN "reply" ELSE "none"}

Serve ==
  /\ peerUp /\ sockOpen /\ toServer # <<>>
  /\ toServer' = Tail(toServer)
  /\ served' = served + 1
  /\ \E v \in Verdicts(Head(toServer)) :
       LET m == [kind |-> v, seq |-> served' % SeqMod, re |-> Head(toServer)] IN
       /\ toClient' = IF v = "none" THEN toClient ELSE Append(toClient, m)
       /\ raised' = IF v = "error" THEN raised \cup {m.re} ELSE raised
  /\ UNCHANGED <<connVars, procVars, readerVars, sockOpen, peerUp, reqVars,
                 errVars, ret, evlog, seen>>

SendEvent ==
  /\ peerUp /\ sockOpen /\ Len(evlog) < MaxEvents
  /\ \E k \in {"event", "release"} :
       /\ toClient' = Append(toClient, [kind |-> k, seq |-> served % SeqMod,
                                        re |-> Len(evlog) + 1])
       /\ evlog' = Append(evlog, [kind |-> k, at |-> served])
  /\ UNCHANGED <<connVars, procVars, readerVars, sockOpen, peerUp, toServer,
                 served, reqVars, errVars, ret, seen, raised>>

HangUp ==
  /\ MayHangUp /\ peerUp
  /\ peerUp' = FALSE
  /\ UNCHANGED <<connVars, procVars, readerVars, sockOpen, toServer, toClient,
                 served, reqVars, errVars, ret, evlog, seen, raised>>

Server == Serve \/ SendEvent \/ HangUp

-----------------------------------------------------------------------------

Write(g) == WriteOK(g) \/ WriteFail(g)
Close(g) == CloseCheck(g) \/ CloseDone(g) \/ CloseSock(g)

Next ==
  /\ ~panicked
  /\ \/ \E g \in Callers : Send(g) \/ SendReply(g) \/ Write(g) \/ Wake(g)
     \/ \E g \in Consumers : RecvEvent(g) \/ RecvErr(g)
     \/ \E g \in Closers : Close(g)
     \/ Reader
     \/ Server

Spec == Init /\ [][Next]_vars

(* What a goroutine does once it has begun a call.                         *)
GoesOn(g) ==
  \/ g \in Callers /\ (Write(g) \/ Wake(g))
  \/ g \in Closers /\ (CloseDone(g) \/ CloseSock(g))

(* The Go scheduler runs every goroutine that can run; an X server reads   *)
(* and answers what it is sent; a consumer keeps receiving until c is      *)
(* closed, and need not any more then.  Nobody is obliged to issue a       *)
(* request, to call Close, or to emit an event.                            *)
Fairness ==
  /\ WF_vars(Reader /\ ~panicked)
  /\ WF_vars(Serve /\ ~panicked)
  /\ \A g \in Callers \cup Closers : WF_vars(GoesOn(g) /\ ~panicked)
  /\ \A g \in Consumers : WF_vars(RecvEvent(g) /\ ~done /\ ~panicked)

FairSpec == Spec /\ Fairness

-----------------------------------------------------------------------------
(* Properties.                                                             *)

Message == [kind : {"none", "event", "release"}, seq : 0 .. SeqMod - 1, re : Nat]
             \cup [kind : {"reply", "error"}, seq : 0 .. SeqMod - 1, re : Calls]
Answer == [kind : {"none", "reply", "error", "werr"}, re : 0 .. MaxReqs]

(* Every variable holds a value of its kind.                               *)
ConnType ==
  /\ mu \in Procs \cup {Nobody}
  /\ seq \in 0 .. SeqMod - 1
  /\ pend \in [0 .. SeqMod - 1 -> 0 .. MaxReqs]
  /\ events \in Seq(Nat) /\ Len(events) <= EventCap
  /\ errs \in Seq(Nat) /\ Len(errs) <= ErrCap
  /\ done \in BOOLEAN
ProcType ==
  /\ pc \in [Procs -> {"idle", "sending", "asking", "waiting", "checked", "closing"}]
  /\ call \in [Procs -> 0 .. MaxReqs]
  /\ ch \in [Calls -> Answer]
  /\ panicked \in BOOLEAN /\ raced \in BOOLEAN
ReaderType ==
  /\ rst \in {"read", "handoff", "emit", "dead"}
  /\ rmsg \in Message
  /\ rto \in 0 .. MaxReqs
WireType ==
  /\ sockOpen \in BOOLEAN /\ peerUp \in BOOLEAN
  /\ toServer \in Seq(Calls) /\ Len(toServer) <= SockCap
  /\ toClient \in Seq(Message)
  /\ served \in Nat
HistoryType ==
  /\ issued \in 0 .. MaxReqs /\ overrun \in BOOLEAN
  /\ op \in [Calls -> {"none", "void", "reply"}]
  /\ ret \in [Calls -> Answer]
  /\ evlog \in Seq([kind : {"event", "release"}, at : Nat])
  /\ seen \in Seq(Nat)
  /\ raised \subseteq Calls /\ surfaced \subseteq Calls /\ lost \subseteq Calls
TypeOK == ConnType /\ ProcType /\ ReaderType /\ WireType /\ HistoryType

Answered(n) == ret[n].kind \in {"reply", "error"}

(* SendReply returns the server's answer to its own request, whatever the  *)
(* interleaving of callers, reader and server and however often the 16-bit *)
(* sequence number has wrapped, as long as no number was taken again while *)
(* the request SeqMod before it was in flight.                             *)
AnswerIsOwn ==
  ~overrun => \A n \in Calls : Answered(n) => op[n] = "reply" /\ ret[n].re = n

(* An error that answers a SendReply is never diverted to Errs(): what     *)
(* deliver finds unmatched belongs to a request without a reply.           *)
ErrsAreUnclaimed ==
  ~overrun => \A n \in surfaced \cup lost : op[n] = "void"

(* deliver never blocks on a caller's channel, even one whose SendReply    *)
(* has given up: the reader cannot be stopped by a slow or absent caller.  *)
HandoffNeverBlocks == rst = "handoff" => ch[rto] = NoAnswer

(* pend holds no entry of a call that has returned, except one whose Write *)
(* failed (SendReply does not take that one out).                          *)
PendHasOwner ==
  \A s \in DOMAIN pend : pend[s] # 0 =>
    \/ ret[pend[s]].kind = "werr"
    \/ \E g \in Callers : call[g] = pend[s] /\ pc[g] \in {"asking", "waiting"}

(* Close may be called again, and by any number of goroutines: it closes a *)
(* closed c.done, and panics, only when two of them overlapped, both past  *)
(* the select before either closed it.                                     *)
NoDoubleClose == panicked => raced

InHand == IF rst = "emit" THEN <<rmsg.re>> ELSE <<>>
Received == seen \o events \o InHand
Shown == {i \in DOMAIN evlog : evlog[i].kind = "event"}
OnWire == {toClient[i].re : i \in {j \in DOMAIN toClient : ~IsAnswer(toClient[j])}}

(* The application receives the events the server emitted, key releases    *)
(* left out, in their order, none lost and none twice: all that are not    *)
(* still on the wire, and once the reader has returned, the first of them. *)
EventStream ==
  LET got == {Received[i] : i \in DOMAIN Received}
  IN  /\ \A i, j \in DOMAIN Received : i < j => Received[i] < Received[j]
      /\ got \subseteq Shown
      /\ rst # "dead" => got = Shown \ OnWire
      /\ \A m \in got, l \in Shown : l < m => l \in got

(* When SendReply returns, every event the server emitted before the reply *)
(* is already in the application's hands or in Events(), and every error   *)
(* of an earlier request has reached Errs() or was dropped by a full one.  *)
ReplyBarrier ==
  \A n \in Calls : Answered(n) =>
    /\ \A i \in DOMAIN evlog : evlog[i].kind = "event" /\ evlog[i].at < ret[n].re =>
         \E k \in DOMAIN (seen \o events) : (seen \o events)[k] = i
    /\ ~overrun => \A m \in raised : m < n /\ op[m] = "void" => m \in surfaced \cup lost

(* Sync: "any pending errors surface": once the round trip has ended, the  *)
(* errors of earlier requests are in Errs().                               *)
SyncSurfacesErrors ==
  \A n \in Calls : Answered(n) =>
    \A m \in raised : m < n /\ op[m] = "void" => m \in surfaced

(* A waiting SendReply returns, unless the reader has returned before it   *)
(* or the process is gone.                                                 *)
ReplyOrDown ==
  \A g \in Callers :
    pc[g] = "waiting" ~> (pc[g] # "waiting" \/ rst = "dead" \/ panicked \/ overrun)

(* SendReply "blocks until the reply arrives": once the server has sent    *)
(* the answer, the call returns.                                           *)
ReplyArrives ==
  \A g \in Callers :
    (pc[g] = "waiting" /\ call[g] <= served) ~> pc[g] # "waiting"

(* After Close the reader returns and closes Events(), so that loops over  *)
(* it end, although nobody need receive any more: a reader blocked on a    *)
(* full c.events leaves by c.done.                                         *)
CloseStopsReader == ~sockOpen ~> (rst = "dead" \/ panicked)

(* "Close terminates the connection": it also ends the calls in progress.  *)
CloseReleasesCallers ==
  \A g \in Callers : ~sockOpen ~> pc[g] # "waiting"

-----------------------------------------------------------------------------
(* What a caller may rely on, whatever the goroutines and the wire do:     *)
(* the state of the calls that want a reply, seen through Rpc.             *)

Replies == {n \in Calls : op[n] = "reply"}
Outcome(n) ==
  IF ret[n].kind = "none" THEN "pending"
  ELSE IF ret[n].kind = "werr" THEN "failed"
  ELSE IF ret[n].re = n THEN "own" ELSE "foreign"

rpc == INSTANCE Rpc WITH
  asked     <- Replies,
  answered  <- {n \in Replies : n <= served},
  outcome   <- [n \in Calls |-> Outcome(n)],
  scrambled <- overrun

(* SendReply is a remote procedure call: the server answers the calls in   *)
(* the order they took their numbers, a call returns its own answer after  *)
(* the server gave it, and a call that reports a failed Write was never    *)
(* answered.                                                               *)
RefinesRpc == rpc!Spec

=============================================================================
