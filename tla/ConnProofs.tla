----------------------------- MODULE ConnProofs -----------------------------
(***************************************************************************)
(* Conn's safety, and that Conn implements Rpc, for any goroutines,        *)
(* capacities, bounds and size of the sequence number.                     *)
(***************************************************************************)
EXTENDS ConnInv, NatLemmas, SequenceTheorems

USE ConnAssumption

-----------------------------------------------------------------------------
(* Types.                                                                  *)

(* A message is a record of its three fields.                              *)
LEMMA MessageShape ==
  ASSUME NEW m \in Message
  PROVE  /\ m.kind \in {"none", "reply", "error", "event", "release"}
         /\ m.seq \in 0 .. SeqMod - 1 /\ m.re \in Nat
         /\ IsAnswer(m) => m.re \in Calls
BY DEF Message, IsAnswer, Calls

(* The empty message and the empty answer have their types.                *)
LEMMA Shapes == NoMsg \in Message /\ NoAnswer \in Answer
BY DEF NoMsg, Message, NoAnswer, Answer

(* TypeOK holds where Dial returns.                                        *)
LEMMA TypeInit == Init => TypeOK
<1> SUFFICES ASSUME Init PROVE TypeOK OBVIOUS
<1> USE DEF Init
<1>0. 0 \in 0 .. MaxReqs /\ Len(<< >>) = 0 OBVIOUS
<1>1. ConnType
  <2>1. pend \in [0 .. SeqMod - 1 -> 0 .. MaxReqs] BY <1>0
  <2>2. mu \in Procs \cup {Nobody} /\ done \in BOOLEAN BY Zenon
  <2>5. seq \in 0 .. SeqMod - 1 BY SMT
  <2>3. events \in Seq(Nat) /\ Len(events) <= EventCap BY <1>0
  <2>4. errs \in Seq(Nat) /\ Len(errs) <= ErrCap BY <1>0
  <2> QED BY <2>1, <2>2, <2>3, <2>4, <2>5 DEF ConnType
<1>2. ProcType BY <1>0, Shapes DEF ProcType
<1>3. ReaderType BY <1>0, Shapes DEF ReaderType
<1>4. WireType BY <1>0 DEF WireType
<1>5. HistoryType
  <2>1. issued \in 0 .. MaxReqs /\ overrun \in BOOLEAN BY <1>0
  <2>2. op \in [Calls -> {"none", "void", "reply"}] /\ ret \in [Calls -> Answer] BY Shapes
  <2>3. evlog \in Seq([kind : {"event", "release"}, at : Nat]) /\ seen \in Seq(Nat) OBVIOUS
  <2> QED BY <2>1, <2>2, <2>3 DEF HistoryType
<1> QED BY <1>1, <1>2, <1>3, <1>4, <1>5 DEF TypeOK

(* The non-blocking send on c.errs keeps the types of what it writes.      *)
LEMMA PushErrType ==
  ASSUME ConnType, HistoryType, NEW e \in Nat, e # 0 => e \in Calls, PushErr(e)
  PROVE  /\ errs' \in Seq(Nat) /\ Len(errs') <= ErrCap
         /\ surfaced' \subseteq Calls /\ lost' \subseteq Calls
<1>1. CASE ErrRoom
  <2>1. errs' = Append(errs, e) /\ surfaced' = surfaced \cup ({e} \ {0}) /\ lost' = lost
    BY <1>1 DEF PushErr
  <2>2. Len(errs') = Len(errs) + 1 /\ errs' \in Seq(Nat) BY <2>1 DEF ConnType
  <2> QED BY <1>1, <2>1, <2>2 DEF ErrRoom, ConnType, HistoryType
<1>2. CASE ~ErrRoom
  <2>1. errs' = errs /\ surfaced' = surfaced /\ lost' = lost \cup ({e} \ {0})
    BY <1>2 DEF PushErr
  <2> QED BY <2>1 DEF ConnType, HistoryType
<1> QED BY <1>1, <1>2

(* Every step keeps the types; what Writing and Handoff put into typed     *)
(* places, MutexInv and HandInv bound.                                     *)
LEMMA TypeStep ==
  ASSUME TypeOK, MutexInv, HandInv, [Next]_vars
  PROVE  TypeOK'
<1> USE DEF connVars, procVars, readerVars, wireVars, reqVars, errVars
<1>0. ConnType /\ ProcType /\ ReaderType /\ WireType /\ HistoryType BY DEF TypeOK
<1>p. Callers \subseteq Procs /\ Consumers \subseteq Procs /\ Closers \subseteq Procs
  BY DEF Procs
<1>c. ASSUME NEW g \in Procs, pc[g] \in {"sending", "asking", "waiting"}
      PROVE  call[g] \in Calls
  BY <1>c DEF MutexInv
<1> HIDE DEF Procs
<1>1. ASSUME NEW g \in Callers, Send(g) \/ SendReply(g) PROVE TypeOK'
  <2> DEFINE s == (seq + 1) % SeqMod
  <2>1. PICK kind \in {"void", "reply"}, at \in {"sending", "asking"} : Begin(g, kind, at)
    BY <1>1 DEF Send, SendReply
  <2>2. g \in Procs /\ issued + 1 \in Calls /\ s \in 0 .. SeqMod - 1
    BY <1>0, <1>p, <2>1, ModInRange DEF Begin, Calls, ConnType, HistoryType
  <2>3. pend' \in [0 .. SeqMod - 1 -> 0 .. MaxReqs]
    <3>1. CASE UNCHANGED pend BY <1>0, <3>1 DEF ConnType
    <3>2. CASE pend' = [pend EXCEPT ![s] = issued + 1]
      BY <1>0, <2>2, <3>2 DEF ConnType, Calls
    <3> QED BY <1>1, <3>1, <3>2 DEF Send, SendReply, Register
  <2>4. ConnType' BY <1>0, <2>1, <2>2, <2>3 DEF Begin, Lock, ConnType
  <2>5. ProcType' BY <1>0, <2>1, <2>2 DEF Begin, ProcType, Calls
  <2>6. ReaderType' /\ WireType' BY <1>0, <2>1 DEF Begin, ReaderType, WireType
  <2>7. HistoryType' BY <1>0, <2>1, <2>2 DEF Begin, HistoryType, Calls
  <2> QED BY <2>4, <2>5, <2>6, <2>7 DEF TypeOK
<1>2. ASSUME NEW g \in Callers, WriteOK(g) PROVE TypeOK'
  <2>1. g \in Procs /\ call[g] \in Calls BY <1>2, <1>p, <1>c DEF WriteOK
  <2>2. ConnType' BY <1>0, <1>2 DEF WriteOK, ConnType
  <2>3. ProcType' BY <1>0, <1>2, <2>1 DEF WriteOK, ProcType
  <2>4. WireType' BY <1>0, <1>2, <2>1 DEF WriteOK, WireType
  <2>5. ReaderType' /\ HistoryType' BY <1>0, <1>2 DEF WriteOK, ReaderType, HistoryType
  <2> QED BY <2>2, <2>3, <2>4, <2>5 DEF TypeOK
<1>3. ASSUME NEW g \in Callers, WriteFail(g) PROVE TypeOK'
  <2>1. g \in Procs /\ call[g] \in Calls BY <1>3, <1>p, <1>c DEF WriteFail
  <2>2. [kind |-> "werr", re |-> call[g]] \in Answer BY <2>1 DEF Answer, Calls
  <2>3. /\ errs' \in Seq(Nat) /\ Len(errs') <= ErrCap
        /\ surfaced' \subseteq Calls /\ lost' \subseteq Calls
        /\ ret' \in [Calls -> Answer]
    <3>1. CASE PushErr(0) /\ UNCHANGED ret
      BY <1>0, <3>1, PushErrType DEF HistoryType
    <3>2. CASE UNCHANGED <<errs, surfaced, lost>> /\ ret' = [ret EXCEPT ![call[g]] = [kind |-> "werr", re |-> call[g]]]
      BY <1>0, <3>2, <2>1, <2>2 DEF ConnType, HistoryType
    <3> QED BY <1>3, <3>1, <3>2 DEF WriteFail
  <2>4. ConnType' BY <1>0, <1>3, <2>3 DEF WriteFail, ConnType
  <2>5. ProcType' BY <1>0, <1>3, <2>1 DEF WriteFail, ProcType
  <2>6. ReaderType' /\ WireType' BY <1>0, <1>3 DEF WriteFail, ReaderType, WireType
  <2>7. HistoryType' BY <1>0, <1>3, <2>3 DEF WriteFail, HistoryType
  <2> QED BY <2>4, <2>5, <2>6, <2>7 DEF TypeOK
<1>4. ASSUME NEW g \in Callers, Wake(g) PROVE TypeOK'
  <2>1. g \in Procs /\ call[g] \in Calls BY <1>4, <1>p, <1>c DEF Wake
  <2>2. ConnType' /\ ReaderType' /\ WireType'
    BY <1>0, <1>4 DEF Wake, ConnType, ReaderType, WireType
  <2>3. ProcType' BY <1>0, <1>4, <2>1, Shapes DEF Wake, ProcType
  <2>4. HistoryType' BY <1>0, <1>4, <2>1 DEF Wake, ProcType, HistoryType
  <2> QED BY <2>2, <2>3, <2>4 DEF TypeOK
<1>5. ASSUME NEW g \in Consumers, RecvEvent(g) PROVE TypeOK'
  <2>1. Head(events) \in Nat /\ Tail(events) \in Seq(Nat) /\ Len(Tail(events)) <= EventCap
    BY <1>0, <1>5 DEF RecvEvent, ConnType
  <2>2. ConnType' BY <1>0, <1>5, <2>1 DEF RecvEvent, ConnType
  <2>3. HistoryType' BY <1>0, <1>5, <2>1 DEF RecvEvent, HistoryType
  <2>4. ProcType' /\ ReaderType' /\ WireType'
    BY <1>0, <1>5 DEF RecvEvent, ProcType, ReaderType, WireType
  <2> QED BY <2>2, <2>3, <2>4 DEF TypeOK
<1>6. ASSUME NEW g \in Consumers, RecvErr(g) PROVE TypeOK'
  <2>1. Tail(errs) \in Seq(Nat) /\ Len(Tail(errs)) <= ErrCap
    BY <1>0, <1>6 DEF RecvErr, ConnType
  <2>2. ConnType' BY <1>0, <1>6, <2>1 DEF RecvErr, ConnType
  <2>3. ProcType' /\ ReaderType' /\ WireType' /\ HistoryType'
    BY <1>0, <1>6 DEF RecvErr, ProcType, ReaderType, WireType, HistoryType
  <2> QED BY <2>2, <2>3 DEF TypeOK
<1>7. ASSUME NEW g \in Closers, Close(g) PROVE TypeOK'
  <2> USE DEF Close, CloseCheck, CloseDone, CloseSock
  <2>1. ConnType' BY <1>0, <1>7 DEF ConnType
  <2>2. ProcType' BY <1>0, <1>p, <1>7 DEF ProcType, ConnType
  <2>3. ReaderType' /\ HistoryType' BY <1>0, <1>7 DEF ReaderType, HistoryType
  <2>4. WireType' BY <1>0, <1>7 DEF WireType
  <2> QED BY <2>1, <2>2, <2>3, <2>4 DEF TypeOK
<1>8. CASE ReadMatched
  <2> DEFINE m == Head(toClient)
  <2>1. m \in Message /\ Tail(toClient) \in Seq(Message)
    BY <1>0, <1>8 DEF ReadMatched, WireType
  <2>2. m.seq \in 0 .. SeqMod - 1 /\ pend[m.seq] \in 0 .. MaxReqs
    BY <1>0, <2>1, MessageShape DEF ConnType
  <2>3. ConnType' BY <1>0, <1>8, <2>2 DEF ReadMatched, Unregister, ConnType
  <2>4. ReaderType' BY <1>0, <1>8, <2>1, <2>2 DEF ReadMatched, ReaderType
  <2>5. WireType' BY <1>0, <1>8, <2>1 DEF ReadMatched, WireType
  <2>6. ProcType' /\ HistoryType' BY <1>0, <1>8 DEF ReadMatched, ProcType, HistoryType
  <2> QED BY <2>3, <2>4, <2>5, <2>6 DEF TypeOK
<1>9. CASE ReadUnmatched
  <2> DEFINE m == Head(toClient)
  <2>1. m \in Message /\ Tail(toClient) \in Seq(Message)
    BY <1>0, <1>9 DEF ReadUnmatched, WireType
  <2>2. m.re \in Nat /\ m.re \in Calls BY <1>9, <2>1, MessageShape DEF ReadUnmatched
  <2>3. /\ errs' \in Seq(Nat) /\ Len(errs') <= ErrCap
        /\ surfaced' \subseteq Calls /\ lost' \subseteq Calls
    <3>1. CASE PushErr(m.re) BY <1>0, <2>2, <3>1, PushErrType
    <3>2. CASE UNCHANGED <<errs, errVars>> BY <1>0, <3>2 DEF ConnType, HistoryType
    <3> QED BY <1>9, <3>1, <3>2 DEF ReadUnmatched, Surface
  <2>4. ConnType' BY <1>0, <1>9, <2>3 DEF ReadUnmatched, ConnType
  <2>5. WireType' BY <1>0, <1>9, <2>1 DEF ReadUnmatched, WireType
  <2>6. ProcType' /\ ReaderType' BY <1>0, <1>9 DEF ReadUnmatched, ProcType, ReaderType
  <2>7. HistoryType' BY <1>0, <1>9, <2>3 DEF ReadUnmatched, HistoryType
  <2> QED BY <2>4, <2>5, <2>6, <2>7 DEF TypeOK
<1>10. CASE Handoff
  <2>1. [kind |-> rmsg.kind, re |-> rmsg.re] \in Answer
    BY <1>0, <1>10, MessageShape DEF Handoff, HandInv, IsAnswer, Answer, ReaderType, Calls
  <2>2. ProcType' BY <1>0, <1>10, <2>1 DEF Handoff, ProcType
  <2>3. ReaderType' BY <1>0, <1>10, Shapes DEF Handoff, ReaderType
  <2>4. ConnType' /\ WireType' /\ HistoryType'
    BY <1>0, <1>10 DEF Handoff, ConnType, WireType, HistoryType
  <2> QED BY <2>2, <2>3, <2>4 DEF TypeOK
<1>11. CASE ReadEvent
  <2>1. Head(toClient) \in Message /\ Tail(toClient) \in Seq(Message)
    BY <1>0, <1>11 DEF ReadEvent, WireType
  <2>2. ReaderType' BY <1>0, <1>11, <2>1 DEF ReadEvent, ReaderType
  <2>3. WireType' BY <1>0, <1>11, <2>1 DEF ReadEvent, WireType
  <2>4. ConnType' /\ ProcType' /\ HistoryType'
    BY <1>0, <1>11 DEF ReadEvent, ConnType, ProcType, HistoryType
  <2> QED BY <2>2, <2>3, <2>4 DEF TypeOK
<1>12. CASE Emit \/ EmitDone
  <2>1. rmsg.re \in Nat BY <1>0, MessageShape DEF ReaderType
  <2>2. events' \in Seq(Nat) /\ Len(events') <= EventCap
    <3>1. CASE events' = Append(events, rmsg.re) /\ Len(events) < EventCap
      <4>1. Len(events') = Len(events) + 1 /\ events' \in Seq(Nat)
        BY <1>0, <2>1, <3>1 DEF ConnType
      <4> QED BY <1>0, <3>1, <4>1 DEF ConnType
    <3>2. CASE UNCHANGED events BY <1>0, <3>2 DEF ConnType
    <3> QED BY <1>12, <3>1, <3>2 DEF Emit, EmitDone, Push, connVars
  <2>3. ConnType' BY <1>0, <1>12, <2>2 DEF Emit, EmitDone, ConnType
  <2>4. ReaderType' BY <1>0, <1>12, Shapes DEF Emit, EmitDone, ReaderType
  <2>5. ProcType' /\ WireType' /\ HistoryType'
    BY <1>0, <1>12 DEF Emit, EmitDone, ProcType, WireType, HistoryType
  <2> QED BY <2>3, <2>4, <2>5 DEF TypeOK
<1>13. CASE ReadFail
  <2>1. /\ errs' \in Seq(Nat) /\ Len(errs') <= ErrCap
        /\ surfaced' \subseteq Calls /\ lost' \subseteq Calls
    BY <1>0, <1>13, PushErrType DEF ReadFail
  <2>2. ConnType' BY <1>0, <1>13, <2>1 DEF ReadFail, ConnType
  <2>3. HistoryType' BY <1>0, <1>13, <2>1 DEF ReadFail, HistoryType
  <2>4. ProcType' /\ ReaderType' /\ WireType'
    BY <1>0, <1>13 DEF ReadFail, ProcType, ReaderType, WireType
  <2> QED BY <2>2, <2>3, <2>4 DEF TypeOK
<1>14. CASE Serve
  <2>1. Head(toServer) \in Calls /\ Tail(toServer) \in Seq(Calls) /\ Len(Tail(toServer)) <= SockCap
    BY <1>0, <1>14 DEF Serve, WireType
  <2>2. served' \in Nat /\ served' % SeqMod \in 0 .. SeqMod - 1
    <3>1. served' \in Nat BY <1>0, <1>14 DEF Serve, WireType
    <3> QED BY <3>1, ModInRange
  <2> DEFINE m(v) == [kind |-> v, seq |-> served' % SeqMod, re |-> Head(toServer)]
  <2>3. PICK v \in {"reply", "error", "none"} :
          /\ toClient' = IF v = "none" THEN toClient ELSE Append(toClient, m(v))
          /\ raised' = IF v = "error" THEN raised \cup {m(v).re} ELSE raised
    BY <1>14 DEF Serve, Verdicts
  <2>4. v # "none" => m(v) \in Message
    BY <2>1, <2>2 DEF Message
  <2>5. toClient' \in Seq(Message) BY <1>0, <2>3, <2>4 DEF WireType
  <2>6. raised' \subseteq Calls BY <1>0, <2>1, <2>3 DEF HistoryType
  <2>7. WireType' BY <1>0, <1>14, <2>1, <2>2, <2>5 DEF Serve, WireType
  <2>8. HistoryType' BY <1>0, <1>14, <2>6 DEF Serve, HistoryType
  <2>9. ConnType' /\ ProcType' /\ ReaderType'
    BY <1>0, <1>14 DEF Serve, ConnType, ProcType, ReaderType
  <2> QED BY <2>7, <2>8, <2>9 DEF TypeOK
<1>15. CASE SendEvent
  <2>1. served % SeqMod \in 0 .. SeqMod - 1 BY <1>0, ModInRange DEF WireType
  <2>2. PICK k \in {"event", "release"} :
          /\ toClient' = Append(toClient, [kind |-> k, seq |-> served % SeqMod,
                                           re |-> Len(evlog) + 1])
          /\ evlog' = Append(evlog, [kind |-> k, at |-> served])
    BY <1>15 DEF SendEvent
  <2>3. [kind |-> k, seq |-> served % SeqMod, re |-> Len(evlog) + 1] \in Message
    BY <1>0, <2>1 DEF Message, HistoryType
  <2>4. toClient' \in Seq(Message) BY <1>0, <2>2, <2>3 DEF WireType
  <2>5. evlog' \in Seq([kind : {"event", "release"}, at : Nat])
    BY <1>0, <2>2 DEF WireType, HistoryType
  <2>6. WireType' BY <1>0, <1>15, <2>4 DEF SendEvent, WireType
  <2>7. HistoryType' BY <1>0, <1>15, <2>5 DEF SendEvent, HistoryType
  <2>8. ConnType' /\ ProcType' /\ ReaderType'
    BY <1>0, <1>15 DEF SendEvent, ConnType, ProcType, ReaderType
  <2> QED BY <2>6, <2>7, <2>8 DEF TypeOK
<1>16. CASE HangUp \/ UNCHANGED vars
  <2>1. ConnType' /\ ProcType' /\ ReaderType'
    BY <1>0, <1>16 DEF HangUp, vars, ConnType, ProcType, ReaderType
  <2>2. WireType' /\ HistoryType'
    BY <1>0, <1>16 DEF HangUp, vars, WireType, HistoryType
  <2> QED BY <2>1, <2>2 DEF TypeOK
<1> QED
  BY <1>1, <1>2, <1>3, <1>4, <1>5, <1>6, <1>7, <1>8, <1>9, <1>10, <1>11, <1>12,
     <1>13, <1>14, <1>15, <1>16 DEF Next, Write, Reader, Server

-----------------------------------------------------------------------------
(* The mutex and the numbering.                                            *)

(* A step of Send or SendReply, and what a Begin does to the numbering.    *)
LEMMA BeginFacts ==
  ASSUME TypeOK, NumberInv, NEW g \in Callers, Send(g) \/ SendReply(g)
  PROVE  \E kind \in {"void", "reply"} :
           /\ g \in Procs /\ pc[g] = "idle" /\ mu = Nobody /\ mu' = g
           /\ issued + 1 \in Calls /\ issued' = issued + 1
           /\ issued + 1 \notin 1 .. issued /\ op[issued + 1] = "none"
           /\ op' = [op EXCEPT ![issued + 1] = kind]
           /\ call' = [call EXCEPT ![g] = issued + 1]
           /\ pc' = [pc EXCEPT ![g] = IF kind = "void" THEN "sending" ELSE "asking"]
           /\ seq' = (issued + 1) % SeqMod
           /\ pend' = IF kind = "void" THEN pend
                      ELSE [pend EXCEPT ![(issued + 1) % SeqMod] = issued + 1]
           /\ overrun' = (overrun \/ \E n \in InFlight : issued + 1 - n >= SeqMod)
           /\ UNCHANGED <<events, errs, done, ch, panicked, raced, readerVars,
                          wireVars, errVars, ret, evlog, seen, raised>>
<1>1. PICK kind \in {"void", "reply"} :
        /\ Begin(g, kind, IF kind = "void" THEN "sending" ELSE "asking")
        /\ pend' = IF kind = "void" THEN pend
                   ELSE [pend EXCEPT ![(seq + 1) % SeqMod] = issued + 1]
  <2>1. CASE Send(g) BY <2>1 DEF Send
  <2>2. CASE SendReply(g) BY <2>2 DEF SendReply, Register
  <2> QED BY <2>1, <2>2
<1>2. issued \in Nat /\ issued < MaxReqs BY <1>1 DEF Begin, TypeOK, HistoryType
<1>3. issued + 1 \in Calls /\ issued + 1 \notin 1 .. issued BY <1>2 DEF Calls
<1>4. op[issued + 1] = "none" BY <1>2, <1>3 DEF NumberInv
<1>5. (seq + 1) % SeqMod = (issued + 1) % SeqMod BY <1>2, ModSucc DEF NumberInv
<1> QED BY <1>1, <1>3, <1>4, <1>5 DEF Begin, Lock, Procs

(* The steps that leave the mutex and the numbering alone.                 *)
LEMMA StillFacts ==
  ASSUME \/ Reader \/ Server \/ UNCHANGED vars
         \/ \E g \in Consumers : RecvEvent(g) \/ RecvErr(g)
  PROVE  UNCHANGED <<mu, seq, pc, call, reqVars>>
<1> USE DEF connVars, procVars, vars
<1>1. CASE Reader
  BY <1>1 DEF Reader, ReadMatched, ReadUnmatched, Handoff, ReadEvent, Emit, EmitDone, ReadFail
<1>2. CASE Server BY <1>2 DEF Server, Serve, SendEvent, HangUp
<1> QED BY <1>1, <1>2 DEF RecvEvent, RecvErr

(* c.mu keeps excluding: every step preserves MutexInv.                    *)
LEMMA MutexStep ==
  ASSUME TypeOK, MutexInv, NumberInv, [Next]_vars
  PROVE  MutexInv'
<1>0. /\ pc \in [Procs -> {"idle", "sending", "asking", "waiting", "checked", "closing"}]
      /\ call \in [Procs -> 0 .. MaxReqs] /\ mu \in Procs \cup {Nobody}
      /\ issued \in Nat /\ op \in [Calls -> {"none", "void", "reply"}]
  BY DEF TypeOK, ConnType, ProcType, HistoryType
<1>1. ASSUME NEW g \in Callers, Send(g) \/ SendReply(g) PROVE MutexInv'
  <2>1. PICK kind \in {"void", "reply"} :
          /\ g \in Procs /\ pc[g] = "idle" /\ mu = Nobody /\ mu' = g
          /\ issued + 1 \in Calls /\ issued' = issued + 1 /\ op[issued + 1] = "none"
          /\ op' = [op EXCEPT ![issued + 1] = kind]
          /\ call' = [call EXCEPT ![g] = issued + 1]
          /\ pc' = [pc EXCEPT ![g] = IF kind = "void" THEN "sending" ELSE "asking"]
    BY <1>1, BeginFacts
  <2>2. \A h \in Procs : ~Writing(h) BY <2>1 DEF MutexInv, Procs
  <2>3. \A h \in Procs \ {g} : pc'[h] = pc[h] /\ call'[h] = call[h] BY <1>0, <2>1
  <2>4. call'[g] = issued + 1 /\ op'[issued + 1] = kind
        /\ pc'[g] = IF kind = "void" THEN "sending" ELSE "asking"
    BY <1>0, <2>1
  <2>5. \A n \in Calls \ {issued + 1} : op'[n] = op[n] BY <1>0, <2>1
  <2>6. \A h \in Procs : Writing(h)' => mu' = h /\ call'[h] = issued'
    BY <2>1, <2>2, <2>3, <2>4 DEF Writing
  <2>7. mu' # Nobody => Writing(mu)' BY <2>1, <2>4 DEF Writing
  <2>8. ASSUME NEW h \in Procs, pc'[h] \in {"sending", "asking", "waiting"}
        PROVE  /\ call'[h] \in Calls /\ call'[h] <= issued'
               /\ ((pc'[h] # "sending") <=> (op'[call'[h]] = "reply"))
    <3>1. CASE h = g BY <3>1, <2>1, <2>4, <1>0
    <3>2. CASE h # g
      <4>1. call[h] \in Calls /\ call[h] <= issued
            /\ ((pc[h] # "sending") <=> (op[call[h]] = "reply"))
        BY <3>2, <2>3, <2>8 DEF MutexInv
      <4>2. call[h] # issued + 1 BY <4>1, <1>0 DEF Calls
      <4> QED BY <3>2, <2>1, <2>3, <2>5, <4>1, <4>2, <1>0 DEF Calls
    <3> QED BY <3>1, <3>2
  <2> QED BY <2>6, <2>7, <2>8 DEF MutexInv
<1>2. ASSUME NEW g \in Callers, Write(g) PROVE MutexInv'
  <2>1. /\ g \in Procs /\ Writing(g) /\ mu' = Nobody
        /\ UNCHANGED <<call, issued, op>>
        /\ pc' = [pc EXCEPT ![g] = "idle"] \/ (pc[g] = "asking" /\ pc' = [pc EXCEPT ![g] = "waiting"])
    BY <1>2 DEF Write, WriteOK, WriteFail, Writing, Procs, reqVars
  <2>2. mu = g /\ \A h \in Procs \ {g} : ~Writing(h) BY <2>1 DEF MutexInv
  <2>3. \A h \in Procs \ {g} : pc'[h] = pc[h] BY <1>0, <2>1
  <2>4. pc'[g] = "idle" \/ (pc[g] = "asking" /\ pc'[g] = "waiting") BY <1>0, <2>1
  <2>5. \A h \in Procs : ~Writing(h)' BY <2>2, <2>3, <2>4 DEF Writing
  <2>6. \A h \in Procs : pc'[h] \in {"sending", "asking", "waiting"} =>
          /\ pc[h] \in {"sending", "asking", "waiting"}
          /\ ((pc'[h] # "sending") <=> (pc[h] # "sending"))
    BY <2>3, <2>4
  <2> QED BY <2>1, <2>5, <2>6 DEF MutexInv
<1>3. CASE (\E g \in Callers : Wake(g)) \/ (\E g \in Closers : Close(g))
  <2>1. PICK g \in Procs :
          /\ pc[g] \in {"waiting", "idle", "checked", "closing"}
          /\ \E q \in {"idle", "checked", "closing"} : pc' = [pc EXCEPT ![g] = q]
          /\ UNCHANGED <<mu, call, issued, op>>
    <3>1. ASSUME NEW g \in Callers, Wake(g)
          PROVE  /\ g \in Procs /\ pc[g] = "waiting" /\ pc' = [pc EXCEPT ![g] = "idle"]
                 /\ UNCHANGED <<mu, call, issued, op>>
      BY <3>1 DEF Wake, Procs, connVars, reqVars
    <3>2. ASSUME NEW g \in Closers, Close(g)
          PROVE  /\ g \in Procs /\ pc[g] \in {"idle", "checked", "closing"}
                 /\ \E q \in {"idle", "checked", "closing"} : pc' = [pc EXCEPT ![g] = q]
                 /\ UNCHANGED <<mu, call, issued, op>>
      BY <3>2 DEF Close, CloseCheck, CloseDone, CloseSock, Procs, connVars, reqVars
    <3> QED BY <1>3, <3>1, <3>2
  <2>2. ~Writing(g) /\ pc'[g] \in {"idle", "checked", "closing"} BY <1>0, <2>1 DEF Writing
  <2>3. \A h \in Procs \ {g} : pc'[h] = pc[h] BY <1>0, <2>1
  <2>4. \A h \in Procs : Writing(h)' => Writing(h) BY <2>2, <2>3 DEF Writing
  <2>5. mu # Nobody => mu \in Procs \ {g} BY <1>0, <2>2 DEF MutexInv
  <2>6. mu' # Nobody => Writing(mu)' BY <2>1, <2>3, <2>5 DEF MutexInv, Writing
  <2>7. \A h \in Procs : pc'[h] \in {"sending", "asking", "waiting"} => pc'[h] = pc[h]
    BY <2>2, <2>3
  <2> QED BY <2>1, <2>4, <2>6, <2>7 DEF MutexInv
<1>4. CASE \/ Reader \/ Server \/ UNCHANGED vars
           \/ \E g \in Consumers : RecvEvent(g) \/ RecvErr(g)
  BY <1>4, StillFacts DEF MutexInv, Writing, reqVars
<1> QED BY <1>1, <1>2, <1>3, <1>4 DEF Next

(* Every step keeps c.seq the count of requests, modulo SeqMod.            *)
LEMMA NumberStep ==
  ASSUME TypeOK, NumberInv, [Next]_vars
  PROVE  NumberInv'
<1>0. issued \in Nat /\ op \in [Calls -> {"none", "void", "reply"}]
  BY DEF TypeOK, HistoryType
<1>1. ASSUME NEW g \in Callers, Send(g) \/ SendReply(g) PROVE NumberInv'
  <2>1. PICK kind \in {"void", "reply"} :
          /\ issued + 1 \in Calls /\ issued' = issued + 1
          /\ op' = [op EXCEPT ![issued + 1] = kind] /\ seq' = (issued + 1) % SeqMod
    BY <1>1, BeginFacts
  <2>2. \A n \in Calls : op'[n] = IF n = issued + 1 THEN kind ELSE op[n] BY <1>0, <2>1
  <2>3. \A n \in Calls : (n <= issued + 1) <=> (n <= issued \/ n = issued + 1)
    BY <1>0 DEF Calls
  <2> QED BY <2>1, <2>2, <2>3 DEF NumberInv
<1>2. CASE \/ \E g \in Callers : Write(g) \/ Wake(g)
           \/ \E g \in Closers : Close(g)
  <2>1. UNCHANGED <<seq, issued, op>>
    BY <1>2 DEF Write, WriteOK, WriteFail, Wake, Close, CloseCheck, CloseDone, CloseSock,
                connVars, reqVars
  <2> QED BY <2>1 DEF NumberInv
<1>3. CASE \/ Reader \/ Server \/ UNCHANGED vars
           \/ \E g \in Consumers : RecvEvent(g) \/ RecvErr(g)
  BY <1>3, StillFacts DEF NumberInv, reqVars
<1> QED BY <1>1, <1>2, <1>3 DEF Next

-----------------------------------------------------------------------------
(* The table of pending calls, their channels and the reader's hands.      *)

(* The steps that leave pend, the channels and a hand-over alone.          *)
LEMMA QuietFacts ==
  ASSUME \/ \E g \in Callers : Write(g)
         \/ \E g \in Closers : Close(g)
         \/ \E g \in Consumers : RecvEvent(g) \/ RecvErr(g)
         \/ ReadUnmatched \/ ReadEvent \/ Emit \/ EmitDone \/ ReadFail
         \/ Server \/ UNCHANGED vars
  PROVE  /\ UNCHANGED <<pend, ch, rto, issued, op>>
         /\ ((rst' = "handoff") <=> (rst = "handoff"))
         /\ rst = "handoff" => UNCHANGED rmsg
<1> USE DEF connVars, procVars, readerVars, wireVars, reqVars, errVars, vars
<1>1. CASE \E g \in Callers : Write(g) BY <1>1 DEF Write, WriteOK, WriteFail
<1>2. CASE \E g \in Closers : Close(g) BY <1>2 DEF Close, CloseCheck, CloseDone, CloseSock
<1>3. CASE \E g \in Consumers : RecvEvent(g) \/ RecvErr(g) BY <1>3 DEF RecvEvent, RecvErr
<1>4. CASE ReadUnmatched \/ ReadEvent \/ Emit \/ EmitDone \/ ReadFail
  BY <1>4 DEF ReadUnmatched, ReadEvent, Emit, EmitDone, ReadFail
<1>5. CASE Server \/ UNCHANGED vars BY <1>5 DEF Server, Serve, SendEvent, HangUp
<1> QED BY <1>1, <1>2, <1>3, <1>4, <1>5

(* Every step preserves what the entries of pend and the reader hold.      *)
LEMMA PendStep ==
  ASSUME TypeOK, MutexInv, NumberInv, PendInv, HandInv, [Next]_vars
  PROVE  PendInv' /\ HandInv'
<1>0. /\ pend \in [0 .. SeqMod - 1 -> 0 .. MaxReqs] /\ ch \in [Calls -> Answer]
      /\ issued \in Nat /\ op \in [Calls -> {"none", "void", "reply"}]
      /\ rst \in {"read", "handoff", "emit", "dead"} /\ rto \in 0 .. MaxReqs
  BY DEF TypeOK, ConnType, ProcType, ReaderType, HistoryType
<1>e. \A s \in DOMAIN pend : pend[s] # 0 => pend[s] \in Calls BY <1>0 DEF Calls
<1> DEFINE Entry(s) == /\ s = pend[s] % SeqMod /\ pend[s] <= issued /\ op[pend[s]] = "reply"
                       /\ Unanswered(pend[s]) /\ pend[s] # rto
<1>1. ASSUME NEW g \in Callers, Send(g) \/ SendReply(g) PROVE PendInv' /\ HandInv'
  <2> DEFINE n == issued + 1  s == n % SeqMod
  <2>1. PICK kind \in {"void", "reply"} :
          /\ n \in Calls /\ issued' = n /\ op[n] = "none"
          /\ op' = [op EXCEPT ![n] = kind]
          /\ pend' = IF kind = "void" THEN pend ELSE [pend EXCEPT ![s] = n]
          /\ UNCHANGED <<ch, readerVars>>
    BY <1>1, BeginFacts, Zenon
  <2>2. s \in 0 .. SeqMod - 1 BY <1>0, ModInRange
  <2>3. \A m \in Calls \ {n} : op'[m] = op[m] BY <1>0, <2>1
  <2>4. op'[n] = kind /\ n > issued BY <1>0, <2>1
  <2> HIDE DEF n, s
  <2>5. UNCHANGED <<ch, rto, rst, rmsg>> BY <2>1 DEF readerVars
  <2>6. ASSUME NEW t \in DOMAIN pend', pend'[t] # 0
        PROVE  Entry(t)'
    <3>1. CASE kind = "reply" /\ t = s
      <4>1. pend'[t] = n BY <1>0, <2>1, <2>2, <3>1
      <4>2. Unanswered(n) BY <2>1, <2>4 DEF HandInv
      <4>3. n # rto BY <1>0, <2>4, <2>1 DEF HandInv, Calls
      <4> QED BY <1>0, <2>1, <2>4, <2>5, <3>1, <4>1, <4>2, <4>3 DEF Unanswered, s, Calls
    <3>2. CASE ~(kind = "reply" /\ t = s)
      <4>1. t \in DOMAIN pend /\ pend'[t] = pend[t] BY <1>0, <2>1, <2>2, <3>2
      <4>2. /\ t = pend[t] % SeqMod /\ pend[t] <= issued /\ op[pend[t]] = "reply"
            /\ Unanswered(pend[t]) /\ pend[t] # rto
        BY <2>6, <4>1 DEF PendInv
      <4>3. pend[t] \in Calls /\ pend[t] # n BY <1>e, <2>1, <2>6, <4>1, <4>2
      <4>4. pend[t] <= issued' BY <1>0, <2>1, <2>4, <4>2, <4>3 DEF Calls
      <4> QED BY <2>3, <2>5, <4>1, <4>2, <4>3, <4>4 DEF Unanswered
    <3> QED BY <3>1, <3>2
  <2>7. PendInv' BY <2>6 DEF PendInv
  <2>8. HandInv' BY <1>0, <2>1, <2>4, <2>5 DEF HandInv, Unanswered, Calls, IsAnswer
  <2> QED BY <2>7, <2>8
<1>2. ASSUME NEW g \in Callers, Wake(g) PROVE PendInv' /\ HandInv'
  <2>1. /\ ch' = [ch EXCEPT ![call[g]] = NoAnswer]
        /\ UNCHANGED <<pend, rto, rst, rmsg, issued, op>>
    BY <1>2 DEF Wake, connVars, readerVars, reqVars
  <2>2. \A n \in Calls : Unanswered(n) => Unanswered(n)' BY <1>0, <2>1 DEF Unanswered
  <2> QED BY <1>e, <2>1, <2>2 DEF PendInv, HandInv, IsAnswer
<1>3. CASE ReadMatched
  <2> DEFINE m == Head(toClient)  s == Head(toClient).seq
  <2>1. /\ pend[s] # 0 /\ pend' = [pend EXCEPT ![s] = 0] /\ IsAnswer(m)
        /\ rst' = "handoff" /\ rmsg' = m /\ rto' = pend[s]
        /\ UNCHANGED <<ch, issued, op>>
    BY <1>3 DEF ReadMatched, Unregister, procVars, reqVars
  <2>2. s \in DOMAIN pend
    <3>1. m \in Message BY <1>3 DEF ReadMatched, TypeOK, WireType
    <3> QED BY <1>0, <3>1, MessageShape
  <2>3. /\ s = pend[s] % SeqMod /\ pend[s] <= issued /\ Unanswered(pend[s]) /\ pend[s] \in Calls
    BY <1>e, <2>1, <2>2 DEF PendInv
  <2> HIDE DEF s, m
  <2>4. ASSUME NEW t \in DOMAIN pend', pend'[t] # 0
        PROVE  Entry(t)'
    <3>1. t \in DOMAIN pend /\ t # s /\ pend'[t] = pend[t] BY <1>0, <2>1, <2>2, <2>4
    <3>2. /\ t = pend[t] % SeqMod /\ pend[t] <= issued /\ op[pend[t]] = "reply"
          /\ Unanswered(pend[t])
      BY <2>4, <3>1 DEF PendInv
    <3>3. pend[t] # pend[s] BY <2>3, <3>1, <3>2
    <3> QED BY <2>1, <3>1, <3>2, <3>3 DEF Unanswered
  <2>5. PendInv' BY <2>4 DEF PendInv
  <2>6. HandInv' BY <2>1, <2>3 DEF HandInv, Unanswered, IsAnswer
  <2> QED BY <2>5, <2>6
<1>4. CASE Handoff
  <2>1. /\ rst = "handoff" /\ rst' = "read" /\ rto' = 0
        /\ ch' = [ch EXCEPT ![rto] = [kind |-> rmsg.kind, re |-> rmsg.re]]
        /\ UNCHANGED <<pend, issued, op>>
    BY <1>4 DEF Handoff, connVars, reqVars
  <2>2. \A n \in Calls \ {rto} : ch'[n] = ch[n] BY <1>0, <2>1
  <2>3. PendInv'
    <3> SUFFICES ASSUME NEW t \in DOMAIN pend, pend[t] # 0
                 PROVE  Entry(t)'
      BY <2>1 DEF PendInv
    <3>1. Entry(t) /\ pend[t] \in Calls BY <1>e DEF PendInv
    <3>2. ch'[pend[t]] = ch[pend[t]] BY <2>2, <3>1
    <3> QED BY <2>1, <3>1, <3>2 DEF Unanswered
  <2>4. HandInv'
    <3>1. rto <= issued BY <2>1 DEF HandInv
    <3>2. \A n \in Calls : n > issued => n # rto BY <1>0, <3>1 DEF Calls
    <3> QED BY <2>1, <2>2, <3>2 DEF HandInv, Unanswered
  <2> QED BY <2>3, <2>4
<1>5. CASE \/ \E g \in Callers : Write(g)
           \/ \E g \in Closers : Close(g)
           \/ \E g \in Consumers : RecvEvent(g) \/ RecvErr(g)
           \/ ReadUnmatched \/ ReadEvent \/ Emit \/ EmitDone \/ ReadFail
           \/ Server \/ UNCHANGED vars
  BY <1>5, QuietFacts DEF PendInv, HandInv, Unanswered, IsAnswer
<1> QED BY <1>1, <1>2, <1>3, <1>4, <1>5 DEF Next, Reader

(* Every step leaves an owner to every entry of pend.                      *)
LEMMA OwnerStep ==
  ASSUME TypeOK, MutexInv, NumberInv, PendInv, HandInv, PendHasOwner, [Next]_vars
  PROVE  PendHasOwner'
<1> DEFINE Held(n) == \/ ret[n].kind = "werr"
                      \/ \E g \in Callers : call[g] = n /\ pc[g] \in {"asking", "waiting"}
<1>0. /\ pend \in [0 .. SeqMod - 1 -> 0 .. MaxReqs] /\ issued \in Nat
      /\ pc \in [Procs -> {"idle", "sending", "asking", "waiting", "checked", "closing"}]
      /\ call \in [Procs -> 0 .. MaxReqs] /\ ret \in [Calls -> Answer]
      /\ Callers \subseteq Procs
  BY DEF TypeOK, ConnType, ProcType, HistoryType, Procs
<1>e. \A s \in DOMAIN pend : pend[s] # 0 =>
        pend[s] \in Calls /\ pend[s] <= issued /\ Unanswered(pend[s]) /\ Held(pend[s])
  BY <1>0 DEF Calls, PendInv, PendHasOwner
<1>s. SUFFICES ASSUME NEW t \in DOMAIN pend', pend'[t] # 0
               PROVE  Held(pend[t])'
  BY DEF PendHasOwner
<1>1. ASSUME NEW g \in Callers, Send(g) \/ SendReply(g) PROVE Held(pend[t])'
  <2> DEFINE n == issued + 1  s == n % SeqMod
  <2>1. PICK kind \in {"void", "reply"} :
          /\ pc[g] = "idle"
          /\ call' = [call EXCEPT ![g] = n]
          /\ pc' = [pc EXCEPT ![g] = IF kind = "void" THEN "sending" ELSE "asking"]
          /\ pend' = IF kind = "void" THEN pend ELSE [pend EXCEPT ![s] = n]
          /\ UNCHANGED ret
    BY <1>1, BeginFacts, Zenon
  <2>2. s \in DOMAIN pend BY <1>0, ModInRange
  <2> HIDE DEF n, s
  <2>3. CASE kind = "reply" /\ t = s
    <3>1. pend'[t] = n /\ call'[g] = n /\ pc'[g] = "asking" BY <1>0, <2>1, <2>2, <2>3
    <3> QED BY <3>1
  <2>4. CASE ~(kind = "reply" /\ t = s)
    <3>1. t \in DOMAIN pend /\ pend'[t] = pend[t] BY <1>0, <2>1, <2>2, <2>4
    <3>2. Held(pend[t]) BY <1>e, <1>s, <3>1
    <3>3. \A h \in Callers : h # g => call'[h] = call[h] /\ pc'[h] = pc[h] BY <1>0, <2>1
    <3> QED BY <2>1, <3>1, <3>2, <3>3
  <2> QED BY <2>3, <2>4
<1>2. ASSUME NEW g \in Callers, WriteOK(g) PROVE Held(pend[t])'
  <2>1. /\ pc' = [pc EXCEPT ![g] = IF @ = "asking" THEN "waiting" ELSE "idle"]
        /\ pc[g] \in {"sending", "asking"} /\ UNCHANGED <<pend, call, ret>>
    BY <1>2 DEF WriteOK
  <2>2. \A h \in Callers : pc[h] \in {"asking", "waiting"} => pc'[h] \in {"asking", "waiting"}
    BY <1>0, <2>1
  <2> QED BY <1>e, <1>s, <2>1, <2>2
<1>3. ASSUME NEW g \in Callers, WriteFail(g) PROVE Held(pend[t])'
  <2>1. /\ pc' = [pc EXCEPT ![g] = "idle"] /\ UNCHANGED <<pend, call>>
        /\ \/ pc[g] = "sending" /\ UNCHANGED ret
           \/ pc[g] = "asking" /\ ret' = [ret EXCEPT ![call[g]] = [kind |-> "werr", re |-> call[g]]]
    BY <1>3 DEF WriteFail
  <2>2. \A h \in Callers : h # g => pc'[h] = pc[h] BY <1>0, <2>1
  <2>3. pend[t] \in Calls /\ Held(pend[t]) BY <1>e, <1>s, <2>1
  <2>4. CASE ret[pend[t]].kind = "werr"
    <3>1. CASE pend[t] = call[g] /\ pc[g] = "asking" BY <1>0, <2>1, <2>3, <3>1
    <3>2. CASE ~(pend[t] = call[g] /\ pc[g] = "asking") BY <1>0, <2>1, <2>3, <2>4, <3>2
    <3> QED BY <3>1, <3>2
  <2>5. ASSUME NEW h \in Callers, call[h] = pend[t], pc[h] \in {"asking", "waiting"}
        PROVE  Held(pend[t])'
    <3>1. CASE h = g
      <4>1. ret'[pend[t]].kind = "werr" BY <1>0, <2>1, <2>3, <2>5, <3>1
      <4> QED BY <2>1, <4>1
    <3>2. CASE h # g BY <2>1, <2>2, <2>5, <3>2
    <3> QED BY <3>1, <3>2
  <2> QED BY <2>1, <2>3, <2>4, <2>5
<1>4. ASSUME NEW g \in Callers, Wake(g) PROVE Held(pend[t])'
  <2>1. /\ pc' = [pc EXCEPT ![g] = "idle"] /\ UNCHANGED <<pend, call>>
        /\ ret' = [ret EXCEPT ![call[g]] = ch[call[g]]] /\ ~Unanswered(call[g])
    BY <1>4 DEF Wake, connVars, Unanswered
  <2>2. pend[t] \in Calls /\ Unanswered(pend[t]) /\ Held(pend[t]) BY <1>e, <1>s, <2>1
  <2>3. pend[t] # call[g] BY <2>1, <2>2
  <2>4. ret'[pend[t]] = ret[pend[t]] BY <1>0, <2>1, <2>2, <2>3
  <2>5. \A h \in Callers : h # g => pc'[h] = pc[h] BY <1>0, <2>1
  <2> QED BY <2>1, <2>2, <2>3, <2>4, <2>5
<1>5. ASSUME NEW g \in Closers, Close(g) PROVE Held(pend[t])'
  <2>1. /\ pc[g] \in {"idle", "checked", "closing"} /\ UNCHANGED <<pend, call, ret>>
        /\ \E q \in {"idle", "checked", "closing"} : pc' = [pc EXCEPT ![g] = q]
    BY <1>5 DEF Close, CloseCheck, CloseDone, CloseSock, connVars
  <2>2. \A h \in Callers : pc[h] \in {"asking", "waiting"} => pc'[h] = pc[h] BY <1>0, <2>1
  <2> QED BY <1>e, <1>s, <2>1, <2>2
<1>6. CASE \/ Reader \/ Server \/ UNCHANGED vars
           \/ \E g \in Consumers : RecvEvent(g) \/ RecvErr(g)
  <2>1. UNCHANGED <<pc, call, ret>>
    BY <1>6 DEF Reader, ReadMatched, ReadUnmatched, Handoff, ReadEvent, Emit, EmitDone, ReadFail,
                Server, Serve, SendEvent, HangUp, RecvEvent, RecvErr, procVars, vars
  <2>2. t \in DOMAIN pend /\ pend[t] = pend'[t]
    <3>1. CASE ReadMatched BY <1>0, <1>s, <3>1 DEF ReadMatched, Unregister
    <3>2. CASE Handoff BY <1>s, <3>2 DEF Handoff, connVars
    <3> QED BY <1>s, <1>6, <3>1, <3>2, QuietFacts DEF Reader
  <2> QED BY <1>e, <1>s, <2>1, <2>2
<1> QED BY <1>1, <1>2, <1>3, <1>4, <1>5, <1>6 DEF Next, Write

-----------------------------------------------------------------------------
(* The wire.                                                               *)

(* What Tail leaves of a sequence, element by element.                     *)
LEMMA TailFacts ==
  ASSUME NEW S, NEW q \in Seq(S), q # <<>>
  PROVE  /\ Len(Tail(q)) = Len(q) - 1 /\ Len(q) \in Nat \ {0} /\ Head(q) = q[1]
         /\ 1 \in DOMAIN q
         /\ \A i \in DOMAIN Tail(q) : i \in Nat \ {0} /\ i + 1 \in DOMAIN q /\ Tail(q)[i] = q[i + 1]
         /\ \A i \in DOMAIN q : i = 1 \/ (i - 1 \in DOMAIN Tail(q) /\ Tail(q)[i - 1] = q[i])
OBVIOUS

(* What Append makes of a sequence, element by element.                    *)
LEMMA AppendFacts ==
  ASSUME NEW S, NEW q \in Seq(S), NEW x \in S
  PROVE  /\ Len(Append(q, x)) = Len(q) + 1 /\ Len(q) \in Nat
         /\ Append(q, x)[Len(q) + 1] = x /\ Len(q) + 1 \in DOMAIN Append(q, x)
         /\ \A i \in DOMAIN Append(q, x) :
              i = Len(q) + 1 \/ (i \in DOMAIN q /\ i <= Len(q) /\ Append(q, x)[i] = q[i])
         /\ \A i \in DOMAIN q : i \in Nat /\ i \in DOMAIN Append(q, x) /\ Append(q, x)[i] = q[i]
OBVIOUS

(* Every step keeps the requests on the wire in numerical order.           *)
LEMMA ServerStep ==
  ASSUME TypeOK, MutexInv, NumberInv, ServerInv, [Next]_vars
  PROVE  ServerInv'
<1>0. /\ toServer \in Seq(Calls) /\ Len(toServer) \in Nat /\ served \in Nat /\ issued \in Nat
      /\ Nobody \notin Procs
  BY DEF TypeOK, WireType, HistoryType
<1> USE DEF connVars, procVars, readerVars, wireVars, reqVars, errVars
<1>1. ASSUME NEW g \in Callers, Send(g) \/ SendReply(g) PROVE ServerInv'
  <2>1. g \in Procs /\ mu = Nobody /\ mu' = g /\ issued' = issued + 1 /\ UNCHANGED wireVars
    BY <1>1, BeginFacts
  <2> QED BY <1>0, <2>1 DEF ServerInv, Broken
<1>2. ASSUME NEW g \in Callers, WriteOK(g) PROVE ServerInv'
  <2>1. /\ sockOpen /\ mu' = Nobody /\ UNCHANGED <<sockOpen, peerUp, served, issued>>
        /\ \/ peerUp /\ toServer' = Append(toServer, call[g])
           \/ ~peerUp /\ UNCHANGED toServer
    BY <1>2 DEF WriteOK
  <2>2. mu # Nobody /\ call[g] = issued /\ call[g] \in Calls
    BY <1>0, <1>2 DEF WriteOK, MutexInv, Writing, Procs
  <2>3. CASE peerUp
    <3>1. issued = served + Len(toServer) + 1 BY <1>0, <2>1, <2>2, <2>3 DEF ServerInv, Broken
    <3>2. /\ Len(toServer') = Len(toServer) + 1
          /\ \A i \in DOMAIN toServer' :
               i = Len(toServer) + 1 \/ (i \in DOMAIN toServer /\ toServer'[i] = toServer[i])
          /\ toServer'[Len(toServer) + 1] = issued
      BY <1>0, <2>1, <2>2, <2>3, AppendFacts
    <3>3. \A i \in DOMAIN toServer' : toServer'[i] = served' + i
      BY <1>0, <2>1, <3>1, <3>2 DEF ServerInv
    <3> QED BY <1>0, <2>1, <3>1, <3>2, <3>3 DEF ServerInv
  <2>4. CASE ~peerUp BY <2>1, <2>4 DEF ServerInv, Broken
  <2> QED BY <2>3, <2>4
<1>3. ASSUME NEW g \in Callers, WriteFail(g) PROVE ServerInv'
  BY <1>3 DEF WriteFail, ServerInv, Broken
<1>4. CASE Serve
  <2>1. /\ toServer # <<>> /\ toServer' = Tail(toServer) /\ served' = served + 1
        /\ UNCHANGED <<sockOpen, peerUp, issued, mu>>
    BY <1>4 DEF Serve
  <2>2. /\ Len(toServer') = Len(toServer) - 1
        /\ \A i \in DOMAIN toServer' : i \in Nat /\ i + 1 \in DOMAIN toServer /\ toServer'[i] = toServer[i + 1]
    BY <1>0, <2>1, TailFacts
  <2>3. \A i \in DOMAIN toServer' : toServer'[i] = served' + i
    BY <1>0, <2>1, <2>2 DEF ServerInv
  <2>4. served' + Len(toServer') = served + Len(toServer) BY <1>0, <2>1, <2>2
  <2> QED BY <1>0, <2>1, <2>3, <2>4 DEF ServerInv, Broken
<1>5. CASE HangUp \/ \E g \in Closers : Close(g)
  <2>1. UNCHANGED <<toServer, served, issued, mu>>
    BY <1>5 DEF HangUp, Close, CloseCheck, CloseDone, CloseSock, Broken
  <2>2. Broken' \/ (UNCHANGED <<sockOpen, peerUp>>)
    BY <1>5 DEF HangUp, Close, CloseCheck, CloseDone, CloseSock, Broken
  <2> QED BY <2>1, <2>2 DEF ServerInv, Broken
<1>6. CASE \/ Reader \/ SendEvent \/ UNCHANGED vars
           \/ \E g \in Consumers : RecvEvent(g) \/ RecvErr(g)
           \/ \E g \in Callers : Wake(g)
  <2>1. UNCHANGED <<toServer, served, issued, mu, sockOpen, peerUp>>
    BY <1>6 DEF Reader, ReadMatched, ReadUnmatched, Handoff, ReadEvent, Emit, EmitDone, ReadFail,
                SendEvent, RecvEvent, RecvErr, Wake, vars
  <2> QED BY <2>1 DEF ServerInv, Broken
<1> QED BY <1>1, <1>2, <1>3, <1>4, <1>5, <1>6 DEF Next, Write, Server

(* Every step keeps the answers on the wire in the order of requests.      *)
LEMMA ClientStep ==
  ASSUME TypeOK, ServerInv, ClientInv, [Next]_vars
  PROVE  ClientInv'
<1>0. /\ toClient \in Seq(Message) /\ Len(toClient) \in Nat /\ served \in Nat
      /\ toServer \in Seq(Calls)
  BY DEF TypeOK, WireType
<1>m. \A i \in DOMAIN toClient : i \in Nat /\ toClient[i] \in Message BY <1>0
<1>r. \A i \in DOMAIN toClient : IsAnswer(toClient[i]) => toClient[i].re \in Nat
  BY <1>m, MessageShape
<1> USE DEF connVars, procVars, readerVars, wireVars, reqVars, errVars
<1>1. CASE ReadMatched \/ ReadUnmatched \/ ReadEvent
  <2>1. toClient # <<>> /\ toClient' = Tail(toClient) /\ served' = served
    BY <1>1 DEF ReadMatched, ReadUnmatched, ReadEvent
  <2>2. \A i \in DOMAIN toClient' :
          i \in Nat /\ i + 1 \in DOMAIN toClient /\ toClient'[i] = toClient[i + 1]
    BY <1>0, <2>1, TailFacts
  <2>3. ASSUME NEW i \in DOMAIN toClient', IsAnswer(toClient[i])',
               NEW j \in DOMAIN toClient', j > i, IsAnswer(toClient[j])'
        PROVE  toClient'[i].re < toClient'[j].re
    <3>1. /\ i + 1 \in DOMAIN toClient /\ toClient'[i] = toClient[i + 1]
          /\ j + 1 \in DOMAIN toClient /\ toClient'[j] = toClient[j + 1]
          /\ j + 1 > i + 1
      BY <2>2, <2>3
    <3> QED BY <2>3, <3>1 DEF ClientInv, IsAnswer
  <2>4. ASSUME NEW i \in DOMAIN toClient', IsAnswer(toClient[i])'
        PROVE  toClient'[i].re <= served' /\ toClient'[i].seq = toClient'[i].re % SeqMod
    BY <2>1, <2>2, <2>4 DEF ClientInv, IsAnswer
  <2> QED BY <2>3, <2>4 DEF ClientInv
<1>2. ASSUME NEW x \in Message, toClient' = Append(toClient, x),
             served' \in Nat, served <= served',
             IsAnswer(x) => x.re = served' /\ served < served' /\ x.seq = x.re % SeqMod
      PROVE  ClientInv'
  <2>1. \A i \in DOMAIN toClient' :
          \/ i = Len(toClient) + 1 /\ toClient'[i] = x
          \/ i \in DOMAIN toClient /\ i <= Len(toClient) /\ i \in Nat /\ toClient'[i] = toClient[i]
    BY <1>0, <1>2, AppendFacts
  <2>2. ASSUME NEW i \in DOMAIN toClient', IsAnswer(toClient[i])'
        PROVE  toClient'[i].re <= served' /\ toClient'[i].seq = toClient'[i].re % SeqMod
    <3>1. CASE toClient'[i] = x BY <1>2, <2>2, <3>1 DEF IsAnswer
    <3>2. CASE i \in DOMAIN toClient /\ toClient'[i] = toClient[i]
      BY <1>0, <1>2, <1>r, <2>2, <3>2 DEF ClientInv, IsAnswer
    <3> QED BY <2>1, <3>1, <3>2
  <2>3. ASSUME NEW i \in DOMAIN toClient', IsAnswer(toClient[i])',
               NEW j \in DOMAIN toClient', j > i, IsAnswer(toClient[j])'
        PROVE  toClient'[i].re < toClient'[j].re
    <3>1. i \in DOMAIN toClient /\ toClient'[i] = toClient[i] BY <1>0, <2>1, <2>3
    <3>2. toClient[i].re \in Nat /\ toClient[i].re <= served
      BY <1>r, <2>3, <3>1 DEF ClientInv, IsAnswer
    <3>3. CASE toClient'[j] = x
      BY <1>0, <1>2, <2>3, <3>1, <3>2, <3>3 DEF IsAnswer
    <3>4. CASE j \in DOMAIN toClient /\ toClient'[j] = toClient[j]
      BY <2>3, <3>1, <3>4 DEF ClientInv, IsAnswer
    <3> QED BY <2>1, <3>3, <3>4
  <2> QED BY <2>2, <2>3 DEF ClientInv
<1>3. CASE Serve
  <2> DEFINE h == Head(toServer)
             m(v) == [kind |-> v, seq |-> served' % SeqMod, re |-> h]
  <2>1. h \in Calls /\ h = served + 1 /\ served' = served + 1
    BY <1>0, <1>3, TailFacts DEF Serve, ServerInv
  <2>2. served' \in Nat /\ served' % SeqMod \in 0 .. SeqMod - 1
    <3>1. served' \in Nat BY <1>0, <2>1
    <3> QED BY <3>1, ModInRange
  <2>3. PICK v \in {"reply", "error", "none"} :
          toClient' = IF v = "none" THEN toClient ELSE Append(toClient, m(v))
    BY <1>3 DEF Serve, Verdicts
  <2>4. CASE v = "none"
    BY <1>0, <1>r, <2>1, <2>3, <2>4 DEF ClientInv, IsAnswer
  <2>5. CASE v # "none"
    <3>1. m(v) \in Message /\ toClient' = Append(toClient, m(v)) BY <2>1, <2>2, <2>3, <2>5 DEF Message
    <3>2. m(v).re = served' /\ served < served' /\ m(v).seq = m(v).re % SeqMod BY <1>0, <2>1
    <3> QED BY <1>0, <1>2, <2>2, <3>1, <3>2
  <2> QED BY <2>4, <2>5
<1>4. CASE SendEvent
  <2>1. PICK k \in {"event", "release"} :
          toClient' = Append(toClient, [kind |-> k, seq |-> served % SeqMod, re |-> Len(evlog) + 1])
    BY <1>4 DEF SendEvent
  <2> DEFINE x == [kind |-> k, seq |-> served % SeqMod, re |-> Len(evlog) + 1]
  <2>2. served % SeqMod \in 0 .. SeqMod - 1 /\ Len(evlog) + 1 \in Nat
    BY <1>0, ModInRange DEF TypeOK, HistoryType
  <2>3. x \in Message /\ ~IsAnswer(x) BY <2>2 DEF Message, IsAnswer
  <2>4. served' = served BY <1>4 DEF SendEvent
  <2> QED BY <1>0, <1>2, <2>1, <2>3, <2>4
<1>5. CASE \/ Handoff \/ Emit \/ EmitDone \/ ReadFail \/ HangUp \/ UNCHANGED vars
           \/ \E g \in Consumers : RecvEvent(g) \/ RecvErr(g)
           \/ \E g \in Callers : Send(g) \/ SendReply(g) \/ Write(g) \/ Wake(g)
           \/ \E g \in Closers : Close(g)
  <2>1. UNCHANGED <<toClient, served>>
    BY <1>5 DEF Handoff, Emit, EmitDone, ReadFail, HangUp, RecvEvent, RecvErr, Send, SendReply, Begin,
                Write, WriteOK, WriteFail, Wake, Close, CloseCheck, CloseDone, CloseSock, vars
  <2> QED BY <2>1 DEF ClientInv, IsAnswer
<1> QED BY <1>1, <1>3, <1>4, <1>5 DEF Next, Reader, Server

-----------------------------------------------------------------------------
(* What is in flight, and how a step changes it.                           *)

(* Membership in InFlight, without the comprehension.                      *)
LEMMA InFlightIs ==
  ASSUME NEW n
  PROVE  n \in InFlight <=>
           \/ \E i \in DOMAIN toServer : toServer[i] = n
           \/ \E j \in DOMAIN toClient : IsAnswer(toClient[j]) /\ toClient[j].re = n
BY DEF InFlight

(* What is in flight has been numbered.                                    *)
LEMMA InFlightBound ==
  ASSUME TypeOK, ServerInv, ClientInv, NEW n \in InFlight
  PROVE  /\ n \in Calls /\ n <= issued
         /\ ~Broken /\ mu # Nobody => n < issued
<1>0. /\ toClient \in Seq(Message) /\ served \in Nat /\ issued \in Nat
      /\ toServer \in Seq(Calls) /\ Len(toServer) \in Nat
  BY DEF TypeOK, WireType, HistoryType
<1>1. CASE \E i \in DOMAIN toServer : toServer[i] = n
  <2>1. PICK i \in DOMAIN toServer : toServer[i] = n BY <1>1
  <2>2. i \in 1 .. Len(toServer) /\ n \in Calls /\ n = served + i BY <1>0, <2>1 DEF ServerInv
  <2>3. n <= served + Len(toServer) BY <1>0, <2>2
  <2> QED BY <1>0, <2>2, <2>3 DEF ServerInv, Calls
<1>2. CASE \E j \in DOMAIN toClient : IsAnswer(toClient[j]) /\ toClient[j].re = n
  <2>1. PICK j \in DOMAIN toClient : IsAnswer(toClient[j]) /\ toClient[j].re = n BY <1>2
  <2>2. n \in Calls BY <1>0, <2>1, MessageShape
  <2>3. n <= served BY <2>1 DEF ClientInv
  <2> QED BY <1>0, <2>2, <2>3 DEF ServerInv, Calls
<1> QED BY <1>1, <1>2, InFlightIs

(* The reader takes a message: its request is in flight no longer.         *)
LEMMA InFlightRead ==
  ASSUME TypeOK, ServerInv, ClientInv,
         toClient # <<>>, toClient' = Tail(toClient), toServer' = toServer,
         IsAnswer(Head(toClient))
  PROVE  /\ Head(toClient).re \in InFlight
         /\ Head(toClient).seq = Head(toClient).re % SeqMod
         /\ \A n : n \in InFlight' <=> n \in InFlight /\ n # Head(toClient).re
<1> DEFINE m == Head(toClient)
<1>0. /\ toClient \in Seq(Message) /\ served \in Nat /\ toServer \in Seq(Calls)
  BY DEF TypeOK, WireType
<1>1. /\ m = toClient[1] /\ 1 \in DOMAIN toClient
      /\ \A i \in DOMAIN Tail(toClient) :
           i \in Nat \ {0} /\ i + 1 \in DOMAIN toClient /\ Tail(toClient)[i] = toClient[i + 1]
      /\ \A i \in DOMAIN toClient :
           i = 1 \/ (i - 1 \in DOMAIN Tail(toClient) /\ Tail(toClient)[i - 1] = toClient[i])
  BY <1>0, TailFacts
<1>2. m.re \in InFlight BY <1>1, InFlightIs
<1>3. m.seq = m.re % SeqMod /\ m.re <= served BY <1>1 DEF ClientInv
<1>4. m.re \in Nat
  <2>1. m \in Message BY <1>0, <1>1
  <2> QED BY <2>1, MessageShape
<1>5. ASSUME NEW n, n \in InFlight' PROVE n \in InFlight /\ n # m.re
  <2>1. CASE \E i \in DOMAIN toServer : toServer[i] = n
    <3>1. n \in InFlight BY <2>1, InFlightIs
    <3>2. PICK i \in DOMAIN toServer : toServer[i] = n BY <2>1
    <3>3. n = served + i /\ i \in Nat \ {0} BY <1>0, <3>2 DEF ServerInv
    <3> QED BY <1>0, <1>3, <1>4, <3>1, <3>3
  <2>2. CASE \E j \in DOMAIN Tail(toClient) : IsAnswer(Tail(toClient)[j]) /\ Tail(toClient)[j].re = n
    <3>1. PICK j \in DOMAIN Tail(toClient) : IsAnswer(Tail(toClient)[j]) /\ Tail(toClient)[j].re = n
      BY <2>2
    <3>2. j + 1 \in DOMAIN toClient /\ j + 1 > 1 /\ IsAnswer(toClient[j + 1]) /\ toClient[j + 1].re = n
      BY <1>1, <3>1
    <3>3. m.re < n BY <1>1, <3>2 DEF ClientInv
    <3> QED BY <1>4, <3>2, <3>3, InFlightIs
  <2> QED BY <1>5, <2>1, <2>2 DEF InFlight, IsAnswer
<1>6. ASSUME NEW n, n \in InFlight, n # m.re PROVE n \in InFlight'
  <2>1. CASE \E i \in DOMAIN toServer : toServer[i] = n BY <2>1 DEF InFlight
  <2>2. CASE \E j \in DOMAIN toClient : IsAnswer(toClient[j]) /\ toClient[j].re = n
    <3>1. PICK j \in DOMAIN toClient : IsAnswer(toClient[j]) /\ toClient[j].re = n BY <2>2
    <3>2. j - 1 \in DOMAIN Tail(toClient) /\ Tail(toClient)[j - 1] = toClient[j]
      BY <1>1, <1>6, <3>1
    <3> QED BY <3>1, <3>2 DEF InFlight, IsAnswer
  <2> QED BY <1>6, <2>1, <2>2, InFlightIs
<1> QED BY <1>2, <1>3, <1>5, <1>6

(* A step of the wire that moves no request in or out.                     *)
LEMMA InFlightSame ==
  ASSUME UNCHANGED <<toServer, toClient>>
  PROVE  InFlight' = InFlight
BY DEF InFlight, IsAnswer

(* An event sent by the server changes nothing in flight.                  *)
LEMMA InFlightEvent ==
  ASSUME TypeOK, ReadEvent \/ SendEvent
  PROVE  InFlight' = InFlight
<1>0. toClient \in Seq(Message) BY DEF TypeOK, WireType
<1>1. CASE ReadEvent
  <2>1. toClient # <<>> /\ toClient' = Tail(toClient) /\ toServer' = toServer /\ ~IsAnswer(Head(toClient))
    BY <1>1 DEF ReadEvent
  <2>2. \A n : (\E j \in DOMAIN toClient' : IsAnswer(toClient'[j]) /\ toClient'[j].re = n)
                 <=> (\E j \in DOMAIN toClient : IsAnswer(toClient[j]) /\ toClient[j].re = n)
    <3>1. /\ 1 \in DOMAIN toClient /\ ~IsAnswer(toClient[1])
          /\ \A i \in DOMAIN toClient' : i + 1 \in DOMAIN toClient /\ toClient'[i] = toClient[i + 1]
          /\ \A i \in DOMAIN toClient :
               i = 1 \/ (i - 1 \in DOMAIN toClient' /\ toClient'[i - 1] = toClient[i])
      BY <1>0, <2>1, TailFacts
    <3> QED BY <3>1
  <2>3. toServer' = toServer BY <2>1
  <2> QED BY <2>2, <2>3 DEF InFlight, IsAnswer
<1>2. CASE SendEvent
  <2>1. PICK x \in Message :
          toClient' = Append(toClient, x) /\ toServer' = toServer /\ ~IsAnswer(x)
    <3>1. served % SeqMod \in 0 .. SeqMod - 1 BY ModInRange DEF TypeOK, WireType
    <3>2. PICK k \in {"event", "release"} :
            toClient' = Append(toClient, [kind |-> k, seq |-> served % SeqMod, re |-> Len(evlog) + 1])
      BY <1>2 DEF SendEvent
    <3>3. Len(evlog) + 1 \in Nat BY DEF TypeOK, HistoryType
    <3>4. [kind |-> k, seq |-> served % SeqMod, re |-> Len(evlog) + 1] \in Message
      BY <3>1, <3>3 DEF Message
    <3> QED BY <1>2, <3>2, <3>4 DEF SendEvent, IsAnswer
  <2>2. \A n : (\E j \in DOMAIN toClient' : IsAnswer(toClient'[j]) /\ toClient'[j].re = n)
                 <=> (\E j \in DOMAIN toClient : IsAnswer(toClient[j]) /\ toClient[j].re = n)
    BY <1>0, <2>1, AppendFacts
  <2> QED BY <2>1, <2>2 DEF InFlight, IsAnswer
<1> QED BY <1>1, <1>2

(* The server takes a request: it stays in flight as an answer, or is one  *)
(* that wants none.                                                        *)
LEMMA InFlightServe ==
  ASSUME TypeOK, ServerInv, Serve
  PROVE  /\ InFlight' \subseteq InFlight
         /\ \A n \in InFlight : n \in InFlight' \/ op[n] # "reply"
<1> DEFINE h == Head(toServer)
<1>0. /\ toClient \in Seq(Message) /\ served \in Nat /\ toServer \in Seq(Calls)
  BY DEF TypeOK, WireType
<1>1. /\ toServer # <<>> /\ toServer' = Tail(toServer) /\ h \in Calls BY <1>0 DEF Serve
<1>2. /\ h = toServer[1] /\ 1 \in DOMAIN toServer
      /\ \A i \in DOMAIN Tail(toServer) : i + 1 \in DOMAIN toServer /\ Tail(toServer)[i] = toServer[i + 1]
      /\ \A i \in DOMAIN toServer :
           i = 1 \/ (i - 1 \in DOMAIN Tail(toServer) /\ Tail(toServer)[i - 1] = toServer[i])
  BY <1>0, <1>1, TailFacts
<1>3. h \in InFlight BY <1>2, InFlightIs
<1>4. served' % SeqMod \in 0 .. SeqMod - 1
  <2>1. served' \in Nat BY <1>0 DEF Serve
  <2> QED BY <2>1, ModInRange
<1> DEFINE m(v) == [kind |-> v, seq |-> served' % SeqMod, re |-> h]
<1>5. PICK v \in {"reply", "error", "none"} :
        /\ toClient' = IF v = "none" THEN toClient ELSE Append(toClient, m(v))
        /\ v = "none" => op[h] # "reply"
  BY DEF Serve, Verdicts
<1>6. v # "none" => m(v) \in Message /\ IsAnswer(m(v)) /\ m(v).re = h
  BY <1>1, <1>4, <1>5 DEF Message, IsAnswer
<1>7. \A n : (\E i \in DOMAIN toServer : toServer[i] = n)
               <=> n = h \/ (\E i \in DOMAIN toServer' : toServer'[i] = n)
  BY <1>1, <1>2
<1>8. \A n : (\E j \in DOMAIN toClient' : IsAnswer(toClient'[j]) /\ toClient'[j].re = n)
               <=> \/ v # "none" /\ n = h
                   \/ \E j \in DOMAIN toClient : IsAnswer(toClient[j]) /\ toClient[j].re = n
  <2>1. CASE v = "none" BY <1>5, <2>1
  <2>2. CASE v # "none" BY <1>0, <1>5, <1>6, <2>2, AppendFacts
  <2> QED BY <2>1, <2>2
<1>9. \A n : n \in InFlight' <=>
               \/ \E i \in DOMAIN toServer' : toServer'[i] = n
               \/ \E j \in DOMAIN toClient' : IsAnswer(toClient'[j]) /\ toClient'[j].re = n
  BY DEF InFlight, IsAnswer
<1> QED BY <1>3, <1>5, <1>7, <1>8, <1>9, InFlightIs

(* Write puts the request in mid-write in flight, or the bytes vanish.     *)
LEMMA InFlightWrite ==
  ASSUME TypeOK, MutexInv, NEW g \in Callers, WriteOK(g)
  PROVE  \/ ~Broken /\ mu # Nobody /\ \A n : n \in InFlight' <=> n \in InFlight \/ n = issued
         \/ Broken /\ InFlight' = InFlight
<1>0. toServer \in Seq(Calls) BY DEF TypeOK, WireType
<1>1. /\ sockOpen /\ toClient' = toClient
      /\ \/ peerUp /\ toServer' = Append(toServer, call[g])
         \/ ~peerUp /\ UNCHANGED toServer
  BY DEF WriteOK
<1>2. mu = g /\ mu # Nobody /\ call[g] = issued /\ issued \in Calls
  BY DEF WriteOK, MutexInv, Writing, Procs
<1>3. CASE peerUp
  <2>1. \A n : (\E i \in DOMAIN toServer' : toServer'[i] = n)
                 <=> n = issued \/ (\E i \in DOMAIN toServer : toServer[i] = n)
    BY <1>0, <1>1, <1>2, <1>3, AppendFacts
  <2> QED BY <1>1, <1>2, <1>3, <2>1 DEF InFlight, IsAnswer, Broken
<1>4. CASE ~peerUp BY <1>1, <1>4, InFlightSame DEF Broken
<1> QED BY <1>3, <1>4

-----------------------------------------------------------------------------
(* The window of numbers in flight, and delivery.                          *)

(* Every step that reuses no number in flight preserves WindowInv.         *)
LEMMA WindowStep ==
  ASSUME TypeOK, MutexInv, NumberInv, PendInv, ServerInv, ClientInv, WindowInv,
         ~overrun', [Next]_vars
  PROVE  WindowInv'
<1>0. /\ pend \in [0 .. SeqMod - 1 -> 0 .. MaxReqs] /\ issued \in Nat
      /\ op \in [Calls -> {"none", "void", "reply"}]
      /\ mu \in Procs \cup {Nobody} /\ Nobody \notin Procs
      /\ sockOpen \in BOOLEAN /\ peerUp \in BOOLEAN
  BY DEF TypeOK, ConnType, WireType, HistoryType
<1>f. \A n \in InFlight :
        /\ n \in Calls /\ n \in Nat /\ n <= issued /\ n % SeqMod \in 0 .. SeqMod - 1
        /\ issued < n + SeqMod /\ pend[n % SeqMod] = Wanted(n)
        /\ ~Broken /\ mu # Nobody => n < issued
  <2>1. SUFFICES ASSUME NEW n \in InFlight
                 PROVE  /\ n \in Calls /\ n \in Nat /\ n <= issued /\ n % SeqMod \in 0 .. SeqMod - 1
                        /\ issued < n + SeqMod /\ pend[n % SeqMod] = Wanted(n)
                        /\ ~Broken /\ mu # Nobody => n < issued
    OBVIOUS
  <2>2. n \in Calls /\ n \in Nat BY InFlightBound DEF Calls
  <2>3. n % SeqMod \in 0 .. SeqMod - 1 BY <2>2, ModInRange
  <2> QED BY <2>2, <2>3, InFlightBound DEF WindowInv
<1> USE DEF connVars, procVars, readerVars, wireVars, reqVars, errVars
<1>1. ASSUME NEW g \in Callers, Send(g) \/ SendReply(g) PROVE WindowInv'
  <2> DEFINE n == issued + 1  s == n % SeqMod
  <2>1. PICK kind \in {"void", "reply"} :
          /\ g \in Procs /\ mu = Nobody /\ mu' = g
          /\ n \in Calls /\ issued' = n /\ op' = [op EXCEPT ![n] = kind]
          /\ pend' = IF kind = "void" THEN pend ELSE [pend EXCEPT ![s] = n]
    BY <1>1, BeginFacts, Zenon
  <2>o. \A x \in InFlight : ~(issued + 1 - x >= SeqMod) BY <1>1, BeginFacts
  <2>w. UNCHANGED wireVars BY <1>1, BeginFacts
  <2>2. InFlight' = InFlight /\ Broken' = Broken BY <2>w, InFlightSame DEF Broken
  <2>3. \A x \in InFlight : x < n /\ n < x + SeqMod /\ x % SeqMod # s
    <3>1. ASSUME NEW x \in InFlight PROVE x < n /\ n < x + SeqMod /\ x % SeqMod # s
      <4>1. x \in Nat /\ x < n /\ n \in Nat BY <1>0, <1>f
      <4>2. n < x + SeqMod
        <5>1. ~(issued + 1 - x >= SeqMod) BY <2>o, Zenon
        <5> QED BY <1>0, <4>1, <5>1
      <4> QED BY <4>1, <4>2, ModClose
    <3> QED BY <3>1
  <2>4. s \in 0 .. SeqMod - 1 BY <1>0, ModInRange
  <2> HIDE DEF n, s
  <2>5. \A x \in InFlight : op'[x] = op[x] /\ pend'[x % SeqMod] = pend[x % SeqMod]
    <3>1. ASSUME NEW x \in InFlight PROVE op'[x] = op[x] /\ pend'[x % SeqMod] = pend[x % SeqMod]
      <4>1. x \in Nat /\ x < n /\ x \in Calls BY <1>f, <2>3
      <4>2. x # n BY <2>1, <4>1 DEF Calls
      <4>3. x % SeqMod \in 0 .. SeqMod - 1 /\ x % SeqMod # s BY <1>f, <2>3
      <4> QED BY <1>0, <2>1, <4>1, <4>2, <4>3
    <3> QED BY <3>1
  <2>6. \A x \in InFlight' : issued' < x + SeqMod /\ pend'[x % SeqMod] = Wanted(x)'
    BY <1>f, <2>1, <2>2, <2>3, <2>5 DEF Wanted
  <2>7. \A k : k \in InFlight => s # k % SeqMod BY <2>3
  <2>8. ASSUME ~Broken' PROVE pend'[issued' % SeqMod] = Wanted(issued)'
    <3>1. CASE kind = "reply" BY <1>0, <2>1, <2>4, <3>1 DEF Wanted, s
    <3>2. CASE kind = "void"
      <4>1. pend[s] = 0
        <5>1. ASSUME pend[s] # 0 PROVE FALSE
          <6>1. pend[s] \in InFlight BY <1>0, <2>1, <2>2, <2>4, <2>8, <5>1 DEF WindowInv
          <6>2. s = pend[s] % SeqMod BY <1>0, <2>4, <5>1 DEF PendInv
          <6> QED BY <2>7, <6>1, <6>2
        <5> QED BY <5>1
      <4> QED BY <1>0, <2>1, <3>2, <4>1 DEF Wanted, s
    <3> QED BY <3>1, <3>2
  <2>9. ASSUME NEW t \in DOMAIN pend', pend'[t] # 0
        PROVE  (Broken \/ pend[t] \in InFlight \/ (mu # Nobody /\ pend[t] = issued))'
    <3>1. CASE kind = "reply" /\ t = s
      BY <1>0, <2>1, <2>4, <3>1
    <3>2. CASE ~(kind = "reply" /\ t = s)
      <4>1. t \in DOMAIN pend /\ pend'[t] = pend[t] BY <1>0, <2>1, <2>4, <3>2
      <4> QED BY <2>1, <2>2, <2>9, <4>1 DEF WindowInv
    <3> QED BY <3>1, <3>2
  <2> QED BY <2>6, <2>8, <2>9 DEF WindowInv
<1>2. ASSUME NEW g \in Callers, WriteOK(g) PROVE WindowInv'
  <2>1. UNCHANGED <<pend, op, issued, sockOpen, peerUp>> /\ mu' = Nobody BY <1>2 DEF WriteOK
  <2>2. Broken' = Broken BY <2>1 DEF Broken
  <2>3. CASE ~Broken /\ mu # Nobody /\ \A n : n \in InFlight' <=> n \in InFlight \/ n = issued
    <3>1. issued < issued + SeqMod /\ pend[issued % SeqMod] = Wanted(issued)
      BY <1>0, <2>3 DEF WindowInv
    <3>2. \A n \in InFlight' : issued' < n + SeqMod /\ pend'[n % SeqMod] = Wanted(n)'
      BY <1>f, <2>1, <2>3, <3>1 DEF Wanted
    <3>3. \A t \in DOMAIN pend' : pend'[t] # 0 => pend'[t] \in InFlight'
      BY <2>1, <2>3 DEF WindowInv
    <3> QED BY <2>1, <3>2, <3>3 DEF WindowInv
  <2>4. CASE Broken /\ InFlight' = InFlight
    BY <1>f, <2>1, <2>2, <2>4 DEF WindowInv, Wanted
  <2> QED BY <1>2, <2>3, <2>4, InFlightWrite
<1>3. CASE (\E g \in Callers : WriteFail(g) \/ Wake(g)) \/ (\E g \in Closers : Close(g))
           \/ HangUp \/ Handoff \/ Emit \/ EmitDone \/ ReadFail \/ UNCHANGED vars
           \/ (\E g \in Consumers : RecvEvent(g) \/ RecvErr(g))
  <2>1. /\ UNCHANGED <<pend, op, issued, toServer, toClient>>
        /\ Broken => Broken'
        /\ mu' = mu \/ (mu' = Nobody /\ Broken')
    <3>1. CASE \E g \in Callers : WriteFail(g) BY <3>1 DEF WriteFail, Broken
    <3>2. CASE \E g \in Callers : Wake(g) BY <3>2 DEF Wake, Broken
    <3>3. CASE \E g \in Closers : Close(g)
      BY <3>3 DEF Close, CloseCheck, CloseDone, CloseSock, Broken
    <3>4. CASE HangUp \/ UNCHANGED vars BY <3>4 DEF HangUp, vars, Broken
    <3>5. CASE Handoff \/ Emit \/ EmitDone \/ ReadFail
      BY <3>5 DEF Handoff, Emit, EmitDone, ReadFail, Broken
    <3>6. CASE \E g \in Consumers : RecvEvent(g) \/ RecvErr(g)
      BY <3>6 DEF RecvEvent, RecvErr, Broken
    <3> QED BY <1>3, <3>1, <3>2, <3>3, <3>4, <3>5, <3>6
  <2>2. InFlight' = InFlight BY <2>1, InFlightSame
  <2>3. \A n \in InFlight' : issued' < n + SeqMod /\ pend'[n % SeqMod] = Wanted(n)'
    BY <1>f, <2>1, <2>2 DEF Wanted
  <2>4. ~Broken' /\ mu' # Nobody => pend'[issued' % SeqMod] = Wanted(issued)'
    BY <2>1 DEF WindowInv, Wanted
  <2>5. \A t \in DOMAIN pend' : pend'[t] # 0 =>
          Broken' \/ pend'[t] \in InFlight' \/ (mu' # Nobody /\ pend'[t] = issued')
    BY <2>1, <2>2 DEF WindowInv
  <2> QED BY <2>3, <2>4, <2>5 DEF WindowInv
<1>4. CASE ReadMatched \/ ReadUnmatched
  <2> DEFINE m == Head(toClient)  r == m.re
  <2>1. /\ toClient # <<>> /\ toClient' = Tail(toClient) /\ IsAnswer(m)
        /\ UNCHANGED <<toServer, mu, op, issued, sockOpen, peerUp>>
    BY <1>4 DEF ReadMatched, ReadUnmatched
  <2>2. /\ r \in InFlight /\ m.seq = r % SeqMod
        /\ \A n : n \in InFlight' <=> n \in InFlight /\ n # r
    BY <2>1, InFlightRead
  <2>3. Broken' = Broken BY <2>1 DEF Broken
  <2> HIDE DEF m, r
  <2>4. CASE ReadUnmatched
    <3>1. pend[r % SeqMod] = 0 /\ pend' = pend BY <2>2, <2>4 DEF ReadUnmatched, m, r
    <3>2. \A t \in DOMAIN pend : pend[t] # 0 => pend[t] # r BY <3>1 DEF PendInv
    <3>3. \A n \in InFlight' : issued' < n + SeqMod /\ pend'[n % SeqMod] = Wanted(n)'
      BY <1>f, <2>1, <2>2, <3>1 DEF Wanted
    <3>4. ~Broken' /\ mu' # Nobody => pend'[issued' % SeqMod] = Wanted(issued)'
      BY <2>1, <2>3, <3>1 DEF WindowInv, Wanted
    <3>5. \A t \in DOMAIN pend' : pend'[t] # 0 =>
            Broken' \/ pend'[t] \in InFlight' \/ (mu' # Nobody /\ pend'[t] = issued')
      BY <2>1, <2>2, <2>3, <3>1, <3>2 DEF WindowInv
    <3> QED BY <3>3, <3>4, <3>5 DEF WindowInv
  <2>5. CASE ReadMatched
    <3>1. pend' = [pend EXCEPT ![r % SeqMod] = 0] BY <2>2, <2>5 DEF ReadMatched, Unregister, m, r
    <3>2. /\ r \in Nat /\ r <= issued /\ issued < r + SeqMod /\ r % SeqMod \in 0 .. SeqMod - 1
          /\ ~Broken /\ mu # Nobody => r < issued
      BY <1>f, <2>2
    <3>3. ASSUME NEW n \in InFlight'
          PROVE  issued' < n + SeqMod /\ pend'[n % SeqMod] = Wanted(n)'
      <4>1. n \in InFlight /\ n # r BY <2>2
      <4>2. n % SeqMod # r % SeqMod BY <1>0, <1>f, <3>2, <4>1, ModWindow
      <4>3. pend'[n % SeqMod] = pend[n % SeqMod] BY <1>0, <1>f, <3>1, <4>1, <4>2
      <4> QED BY <1>f, <2>1, <4>1, <4>3 DEF Wanted
    <3>4. ASSUME ~Broken', mu' # Nobody PROVE pend'[issued' % SeqMod] = Wanted(issued)'
      <4>1. r < issued /\ issued % SeqMod \in 0 .. SeqMod - 1
        BY <1>0, <2>1, <2>3, <3>2, <3>4, ModInRange
      <4>2. issued % SeqMod # r % SeqMod BY <1>0, <3>2, <4>1, ModClose
      <4>3. pend'[issued % SeqMod] = pend[issued % SeqMod] BY <1>0, <3>1, <4>1, <4>2
      <4> QED BY <2>1, <2>3, <3>4, <4>3 DEF WindowInv, Wanted
    <3>5. ASSUME NEW t \in DOMAIN pend', pend'[t] # 0
          PROVE  (Broken \/ pend[t] \in InFlight \/ (mu # Nobody /\ pend[t] = issued))'
      <4>1. t \in DOMAIN pend /\ t # r % SeqMod /\ pend'[t] = pend[t] BY <1>0, <3>1, <3>2, <3>5
      <4>2. pend[t] # r BY <3>5, <4>1 DEF PendInv
      <4> QED BY <2>1, <2>2, <2>3, <3>5, <4>1, <4>2 DEF WindowInv
    <3> QED BY <3>3, <3>4, <3>5 DEF WindowInv
  <2> QED BY <1>4, <2>4, <2>5
<1>5. CASE ReadEvent \/ SendEvent
  <2>1. UNCHANGED <<pend, op, issued, mu, sockOpen, peerUp>> BY <1>5 DEF ReadEvent, SendEvent
  <2>2. InFlight' = InFlight /\ Broken' = Broken BY <1>5, <2>1, InFlightEvent DEF Broken
  <2> QED BY <2>1, <2>2 DEF WindowInv, Wanted
<1>6. CASE Serve
  <2>1. UNCHANGED <<pend, op, issued, mu, sockOpen, peerUp>> BY <1>6 DEF Serve
  <2>2. /\ InFlight' \subseteq InFlight
        /\ \A n \in InFlight : n \in InFlight' \/ op[n] # "reply"
    BY <1>6, InFlightServe
  <2>3. Broken' = Broken BY <2>1 DEF Broken
  <2>4. \A n \in InFlight' : issued' < n + SeqMod /\ pend'[n % SeqMod] = Wanted(n)'
    BY <1>f, <2>1, <2>2 DEF Wanted
  <2>5. ~Broken' /\ mu' # Nobody => pend'[issued' % SeqMod] = Wanted(issued)'
    BY <2>1, <2>3 DEF WindowInv, Wanted
  <2>6. \A t \in DOMAIN pend' : pend'[t] # 0 =>
          Broken' \/ pend'[t] \in InFlight' \/ (mu' # Nobody /\ pend'[t] = issued')
    BY <2>1, <2>2, <2>3 DEF WindowInv, PendInv
  <2> QED BY <2>4, <2>5, <2>6 DEF WindowInv
<1> QED BY <1>1, <1>2, <1>3, <1>4, <1>5, <1>6 DEF Next, Reader, Server, Write

(* Every step that reuses no number in flight preserves DeliveryInv.       *)
LEMMA DeliveryStep ==
  ASSUME TypeOK, MutexInv, NumberInv, PendInv, HandInv, ServerInv, ClientInv,
         WindowInv, DeliveryInv, [Next]_vars
  PROVE  DeliveryInv'
<1>0. /\ ch \in [Calls -> Answer] /\ ret \in [Calls -> Answer] /\ issued \in Nat
      /\ op \in [Calls -> {"none", "void", "reply"}]
      /\ surfaced \subseteq Calls /\ lost \subseteq Calls /\ 0 \notin Calls
  BY DEF TypeOK, ProcType, HistoryType, Calls
<1> USE DEF connVars, procVars, readerVars, wireVars, reqVars, errVars
<1>1. ASSUME NEW g \in Callers, Send(g) \/ SendReply(g) PROVE DeliveryInv'
  <2>1. PICK kind \in {"void", "reply"} :
          op[issued + 1] = "none" /\ op' = [op EXCEPT ![issued + 1] = kind]
    BY <1>1, BeginFacts, Zenon
  <2>2. UNCHANGED <<rst, rmsg, rto, ch, ret, surfaced, lost>> BY <1>1, BeginFacts
  <2>3. \A n \in Calls : op[n] # "none" => op'[n] = op[n] BY <1>0, <2>1
  <2>4. rst = "handoff" => rto \in Calls BY DEF HandInv
  <2> QED BY <1>0, <2>2, <2>3, <2>4 DEF DeliveryInv, Unanswered, Answered
<1>2. ASSUME NEW g \in Callers, WriteFail(g) PROVE DeliveryInv'
  <2>1. UNCHANGED <<rst, rmsg, rto, ch, op>> BY <1>2 DEF WriteFail
  <2>2. surfaced' = surfaced /\ lost' = lost BY <1>2 DEF WriteFail, PushErr
  <2>3. \/ ret' = ret
        \/ ret' = [ret EXCEPT ![call[g]] = [kind |-> "werr", re |-> call[g]]]
    BY <1>2 DEF WriteFail
  <2>4. \A n \in Calls : Answered(n)' => ret'[n] = ret[n] /\ Answered(n)
    BY <1>0, <2>3 DEF Answered
  <2> QED BY <2>1, <2>2, <2>4 DEF DeliveryInv, Unanswered
<1>3. ASSUME NEW g \in Callers, Wake(g) PROVE DeliveryInv'
  <2> DEFINE n == call[g]
  <2>1. /\ ~Unanswered(n) /\ ret' = [ret EXCEPT ![n] = ch[n]] /\ ch' = [ch EXCEPT ![n] = NoAnswer]
        /\ UNCHANGED <<rst, rmsg, rto, op, surfaced, lost>>
    BY <1>3 DEF Wake, Unanswered
  <2>2. n \in Calls BY <1>3 DEF Wake, MutexInv, Procs
  <2> HIDE DEF n
  <2>3. ch[n].re = n /\ op[n] = "reply" BY <2>1, <2>2 DEF DeliveryInv
  <2>4. \A k \in Calls : k # n => ret'[k] = ret[k] /\ ch'[k] = ch[k] BY <1>0, <2>1
  <2>5. ret'[n] = ch[n] /\ ch'[n] = NoAnswer BY <1>0, <2>1, <2>2
  <2> QED BY <2>1, <2>3, <2>4, <2>5 DEF DeliveryInv, Unanswered, Answered
<1>4. CASE ReadMatched \/ ReadUnmatched
  <2> DEFINE m == Head(toClient)  r == m.re
  <2>1. /\ toClient # <<>> /\ toClient' = Tail(toClient) /\ IsAnswer(m)
        /\ toServer' = toServer
    BY <1>4 DEF ReadMatched, ReadUnmatched
  <2>2. r \in InFlight /\ m.seq = r % SeqMod BY <2>1, InFlightRead
  <2>3. r \in Calls /\ r <= issued /\ pend[m.seq] = Wanted(r)
    BY <2>2, InFlightBound DEF WindowInv
  <2>4. CASE ReadMatched
    <3>1. /\ rmsg' = m /\ rto' = pend[m.seq] /\ pend[m.seq] # 0
          /\ UNCHANGED <<ch, ret, op, surfaced, lost>>
      BY <2>4 DEF ReadMatched
    <3>2. rto' = rmsg'.re /\ op'[rto'] = "reply" BY <1>0, <2>3, <3>1 DEF Wanted
    <3> QED BY <3>1, <3>2 DEF DeliveryInv, Unanswered, Answered
  <2>5. CASE ReadUnmatched
    <3>1. /\ pend[m.seq] = 0 /\ rst = "read" /\ UNCHANGED <<rst, rmsg, rto, ch, ret, op>>
          /\ Surface(m)
      BY <2>5 DEF ReadUnmatched
    <3>2. op[r] = "void" BY <1>0, <2>3, <3>1 DEF Wanted, NumberInv
    <3>3. surfaced' \cup lost' \subseteq surfaced \cup lost \cup {r}
      BY <3>1 DEF Surface, PushErr
    <3> QED BY <3>1, <3>2, <3>3 DEF DeliveryInv, Unanswered, Answered
  <2> QED BY <1>4, <2>4, <2>5
<1>5. CASE Handoff
  <2>1. /\ rst = "handoff" /\ rst' = "read" /\ UNCHANGED <<ret, op, surfaced, lost>>
        /\ ch' = [ch EXCEPT ![rto] = [kind |-> rmsg.kind, re |-> rmsg.re]]
    BY <1>5 DEF Handoff
  <2>2. rto = rmsg.re /\ op[rto] = "reply" /\ rto \in Calls BY <2>1 DEF DeliveryInv, HandInv
  <2>3. \A k \in Calls : ch'[k] = IF k = rto THEN [kind |-> rmsg.kind, re |-> rmsg.re] ELSE ch[k]
    BY <1>0, <2>1
  <2> QED BY <2>1, <2>2, <2>3 DEF DeliveryInv, Unanswered, Answered
<1>6. CASE ReadFail
  <2>1. rst' = "dead" /\ UNCHANGED <<ch, ret, op>> BY <1>6 DEF ReadFail
  <2>2. surfaced' = surfaced /\ lost' = lost BY <1>6 DEF ReadFail, PushErr
  <2> QED BY <2>1, <2>2 DEF DeliveryInv, Unanswered, Answered
<1>7. CASE \/ ReadEvent \/ Emit \/ EmitDone \/ Server \/ UNCHANGED vars
           \/ \E g \in Callers : WriteOK(g)
           \/ \E g \in Closers : Close(g)
           \/ \E g \in Consumers : RecvEvent(g) \/ RecvErr(g)
  <2>1. UNCHANGED <<ch, ret, op, surfaced, lost>>
    <3>1. CASE ReadEvent \/ Emit \/ EmitDone BY <3>1 DEF ReadEvent, Emit, EmitDone
    <3>2. CASE Server \/ UNCHANGED vars BY <3>2 DEF Server, Serve, SendEvent, HangUp, vars
    <3>3. CASE \E g \in Callers : WriteOK(g) BY <3>3 DEF WriteOK
    <3>4. CASE \E g \in Closers : Close(g) BY <3>4 DEF Close, CloseCheck, CloseDone, CloseSock
    <3>5. CASE \E g \in Consumers : RecvEvent(g) \/ RecvErr(g) BY <3>5 DEF RecvEvent, RecvErr
    <3> QED BY <1>7, <3>1, <3>2, <3>3, <3>4, <3>5
  <2>2. rst' = "handoff" => rst = "handoff" /\ UNCHANGED <<rto, rmsg>>
    BY <1>7, QuietFacts DEF Write
  <2> QED BY <2>1, <2>2 DEF DeliveryInv, Unanswered, Answered
<1> QED BY <1>1, <1>2, <1>3, <1>4, <1>5, <1>6, <1>7 DEF Next, Write, Reader

-----------------------------------------------------------------------------
(* The invariant and what follows from it.                                 *)

(* The history overrun is never reset.                                     *)
LEMMA OverrunStays ==
  ASSUME TypeOK, NumberInv, [Next]_vars, overrun
  PROVE  overrun'
<1>0. overrun \in BOOLEAN BY DEF TypeOK, HistoryType
<1>1. ASSUME NEW g \in Callers, Send(g) \/ SendReply(g) PROVE overrun'
  BY <1>1, BeginFacts
<1>2. CASE \/ \E g \in Callers : Write(g) \/ Wake(g)
           \/ \E g \in Closers : Close(g)
  BY <1>2 DEF Write, WriteOK, WriteFail, Wake, Close, CloseCheck, CloseDone, CloseSock, reqVars
<1>3. CASE \/ Reader \/ Server \/ UNCHANGED vars
           \/ \E g \in Consumers : RecvEvent(g) \/ RecvErr(g)
  BY <1>3, StillFacts DEF reqVars
<1> QED BY <1>1, <1>2, <1>3 DEF Next

(* The inductive invariant holds where Dial returns.                       *)
LEMMA InvInit == Init => IInv
<1> SUFFICES ASSUME Init PROVE IInv OBVIOUS
<1> USE DEF Init
<1>1. TypeOK BY TypeInit
<1>2. MutexInv BY DEF MutexInv, Writing
<1>3. NumberInv
  <2>1. 0 = SeqMod * 0 + 0 /\ SeqMod * 0 + 0 \in Nat /\ 0 \in 0 .. SeqMod - 1 /\ 0 \in Int
    OBVIOUS
  <2>2. (SeqMod * 0 + 0) % SeqMod = 0 BY <2>1, ModIs, Zenon
  <2>3. \A n \in Calls : ~(n <= 0) BY DEF Calls
  <2> QED BY <2>1, <2>2, <2>3 DEF NumberInv
<1>4. PendInv /\ PendHasOwner BY DEF PendInv, PendHasOwner
<1>5. HandInv BY DEF HandInv, Unanswered
<1>6. ServerInv BY DEF ServerInv
<1>7. ClientInv BY DEF ClientInv
<1>8. WindowInv
  <2>1. InFlight = {} BY DEF InFlight
  <2> QED BY <2>1 DEF WindowInv
<1>9. DeliveryInv BY DEF DeliveryInv, Unanswered, Answered, NoAnswer
<1> QED BY <1>1, <1>2, <1>3, <1>4, <1>5, <1>6, <1>7, <1>8, <1>9 DEF IInv

(* Every step preserves the inductive invariant.                           *)
LEMMA InvStep == IInv /\ [Next]_vars => IInv'
<1> SUFFICES ASSUME IInv, [Next]_vars PROVE IInv' OBVIOUS
<1>0. /\ TypeOK /\ MutexInv /\ NumberInv /\ PendInv /\ HandInv /\ PendHasOwner
      /\ ServerInv /\ ClientInv /\ (~overrun => WindowInv /\ DeliveryInv)
  BY DEF IInv
<1>1. TypeOK' BY <1>0, TypeStep
<1>2. MutexInv' BY <1>0, MutexStep
<1>3. NumberInv' BY <1>0, NumberStep
<1>4. PendInv' /\ HandInv' BY <1>0, PendStep
<1>5. PendHasOwner' BY <1>0, OwnerStep
<1>6. ServerInv' BY <1>0, ServerStep
<1>7. ClientInv' BY <1>0, ClientStep
<1>8. ASSUME ~overrun' PROVE WindowInv' /\ DeliveryInv'
  <2>1. ~overrun BY <1>0, <1>8, OverrunStays
  <2>2. WindowInv /\ DeliveryInv BY <1>0, <2>1
  <2> QED BY <1>0, <1>8, <2>2, WindowStep, DeliveryStep
<1> QED BY <1>1, <1>2, <1>3, <1>4, <1>5, <1>6, <1>7, <1>8 DEF IInv

(* The invariant holds throughout, for any goroutines, buffer sizes, wire  *)
(* and sequence-number width.                                              *)
THEOREM Correlation == Spec => []IInv
<1>1. Init => IInv BY InvInit
<1>2. IInv /\ [Next]_vars => IInv' BY InvStep
<1> QED BY <1>1, <1>2, PTL DEF Spec

(* Every variable of the connection keeps its type: no channel holds more  *)
(* than its capacity, no number leaves its range.                          *)
THEOREM TypeCorrect == Spec => []TypeOK
<1>1. IInv => TypeOK BY DEF IInv
<1> QED BY <1>1, Correlation, PTL

(* SendReply returns the server's answer to its own request, under every   *)
(* interleaving and any number of wraps of the sequence number, as long as *)
(* no number was reused in flight.                                         *)
THEOREM RepliesAreOwn == Spec => []AnswerIsOwn
<1>1. IInv => AnswerIsOwn BY DEF IInv, DeliveryInv, AnswerIsOwn
<1> QED BY <1>1, Correlation, PTL

(* An error that answers a SendReply never ends up in Errs().              *)
THEOREM ErrorsStayApart == Spec => []ErrsAreUnclaimed
<1>1. IInv => ErrsAreUnclaimed BY DEF IInv, DeliveryInv, ErrsAreUnclaimed
<1> QED BY <1>1, Correlation, PTL

(* deliver's send to a caller's channel always finds it empty, so the      *)
(* reader never waits for a caller; unconditionally, even when a sequence  *)
(* number was reused in flight.                                            *)
THEOREM ReaderNeverWaits == Spec => []HandoffNeverBlocks
<1>1. IInv => HandoffNeverBlocks BY DEF IInv, HandInv, Unanswered, HandoffNeverBlocks
<1> QED BY <1>1, Correlation, PTL

(* Every entry of pend belongs to a call still waiting, or to one whose    *)
(* Write failed.                                                           *)
THEOREM TableHasOwners == Spec => []PendHasOwner
<1>1. IInv => PendHasOwner BY DEF IInv
<1> QED BY <1>1, Correlation, PTL

-----------------------------------------------------------------------------
(* Close.                                                                  *)

(* Two calls of Close past the select at the same time have been noted,    *)
(* and so has one that stands there with c.done closed.                    *)
CloseInv ==
  /\ NoDoubleClose
  /\ \A g, h \in Closers : pc[g] = "checked" /\ pc[h] = "checked" => g = h \/ raced
  /\ \A g \in Closers : pc[g] = "checked" /\ done => raced

(* What the steps of Close do to the notes of the others.                  *)
LEMMA CloseStep ==
  ASSUME TypeOK, CloseInv, NEW h \in Closers, Close(h)
  PROVE  CloseInv'
<1> USE DEF connVars, CloseInv, NoDoubleClose
<1>1. pc \in [Procs -> {"idle", "sending", "asking", "waiting", "checked", "closing"}]
      /\ h \in Procs /\ Closers \subseteq Procs /\ done \in BOOLEAN /\ raced \in BOOLEAN
  BY DEF TypeOK, ProcType, ConnType, Procs
<1>2. CASE CloseCheck(h)
  <2>1. CASE done
    <3>1. pc' = [pc EXCEPT ![h] = "closing"] /\ raced' = raced
          /\ panicked' = panicked /\ done' = done
      BY <1>1, <1>2, <2>1 DEF CloseCheck, Stopped
    <3> QED BY <1>1, <3>1
  <2>2. CASE ~done
    <3>1. /\ pc' = [pc EXCEPT ![h] = "checked"] /\ panicked' = panicked /\ done' = done
          /\ raced' = (raced \/ \E g \in Closers : pc[g] = "checked")
      BY <1>1, <1>2, <2>2 DEF CloseCheck, Stopped
    <3> QED BY <1>1, <2>2, <3>1
  <2> QED BY <2>1, <2>2
<1>3. CASE CloseDone(h)
  <2>1. /\ pc[h] = "checked" /\ pc' = [pc EXCEPT ![h] = "closing"]
        /\ panicked' = done /\ done' = TRUE /\ raced' = raced
    BY <1>3 DEF CloseDone
  <2>2. \A g \in Closers : pc'[g] = "checked" => g # h /\ pc[g] = "checked" BY <1>1, <2>1
  <2> QED BY <1>1, <2>1, <2>2
<1>4. CASE CloseSock(h)
  <2>1. /\ pc' = [pc EXCEPT ![h] = "idle"]
        /\ panicked' = panicked /\ done' = done /\ raced' = raced
    BY <1>4 DEF CloseSock
  <2> QED BY <1>1, <2>1
<1> QED BY <1>2, <1>3, <1>4 DEF Close

(* No other step touches c.done, or brings a goroutine into Close.         *)
LEMMA CloseLeftAlone ==
  ASSUME TypeOK,
         \/ Reader \/ Server \/ UNCHANGED vars
         \/ \E g \in Consumers : RecvEvent(g) \/ RecvErr(g)
         \/ \E g \in Callers : Send(g) \/ SendReply(g) \/ Write(g) \/ Wake(g)
  PROVE  /\ UNCHANGED <<done, panicked, raced>>
         /\ \A g \in Closers : pc'[g] = "checked" => pc[g] = "checked"
<1> USE DEF connVars, procVars, readerVars, wireVars, reqVars, errVars
<1>1. pc \in [Procs -> {"idle", "sending", "asking", "waiting", "checked", "closing"}]
      /\ Closers \subseteq Procs
  BY DEF TypeOK, ProcType, Procs
<1>2. ASSUME NEW h \in Callers, Send(h) \/ SendReply(h) \/ Write(h) \/ Wake(h)
      PROVE  /\ UNCHANGED <<done, panicked, raced>>
             /\ \A g \in Closers : pc'[g] = "checked" => pc[g] = "checked"
  <2>1. /\ UNCHANGED <<done, panicked, raced>>
        /\ \E q \in {"idle", "sending", "asking", "waiting"} : pc' = [pc EXCEPT ![h] = q]
    <3>1. CASE Send(h) \/ SendReply(h) BY <3>1 DEF Send, SendReply, Begin
    <3>2. CASE WriteOK(h) BY <3>2 DEF WriteOK
    <3>3. CASE WriteFail(h) \/ Wake(h) BY <3>3 DEF WriteFail, Wake
    <3> QED BY <1>2, <3>1, <3>2, <3>3 DEF Write
  <2> QED BY <1>1, <2>1
<1>3. CASE \/ Reader \/ Server \/ UNCHANGED vars
           \/ \E g \in Consumers : RecvEvent(g) \/ RecvErr(g)
  <2>1. UNCHANGED <<pc, done, panicked, raced>>
    BY <1>3 DEF Reader, ReadMatched, ReadUnmatched, Handoff, ReadEvent, Emit, EmitDone, ReadFail,
                Server, Serve, SendEvent, HangUp, RecvEvent, RecvErr, vars
  <2> QED BY <2>1
<1> QED BY <1>2, <1>3

(* However many goroutines call Close, and however often, c.done is closed *)
(* a second time only if two of them overlapped.                           *)
THEOREM CloseOnce == Spec => []NoDoubleClose
<1>1. Init => CloseInv BY DEF Init, CloseInv, NoDoubleClose, Procs
<1>2. TypeOK /\ CloseInv /\ [Next]_vars => CloseInv'
  <2> SUFFICES ASSUME TypeOK, CloseInv, [Next]_vars PROVE CloseInv' OBVIOUS
  <2>1. CASE \E h \in Closers : Close(h) BY <2>1, CloseStep
  <2>2. ASSUME \/ Reader \/ Server \/ UNCHANGED vars
               \/ \E g \in Consumers : RecvEvent(g) \/ RecvErr(g)
               \/ \E g \in Callers : Send(g) \/ SendReply(g) \/ Write(g) \/ Wake(g)
        PROVE  CloseInv'
    <3>1. /\ UNCHANGED <<done, panicked, raced>>
          /\ \A g \in Closers : pc'[g] = "checked" => pc[g] = "checked"
      BY <2>2, CloseLeftAlone
    <3> QED BY <3>1 DEF CloseInv, NoDoubleClose
  <2> QED BY <2>1, <2>2 DEF Next
<1>3. CloseInv => NoDoubleClose BY DEF CloseInv
<1> QED BY <1>1, <1>2, <1>3, TypeCorrect, PTL DEF Spec

(* ... and so one goroutine that calls Close as often as it likes never    *)
(* makes the process panic.                                                *)
THEOREM LoneCloser ==
  ASSUME \A g, h \in Closers : g = h
  PROVE  Spec => []~panicked
<1>1. Init => ~raced BY DEF Init
<1>2. TypeOK /\ ~raced /\ [Next]_vars => ~raced'
  <2> SUFFICES ASSUME TypeOK, ~raced, [Next]_vars PROVE ~raced' OBVIOUS
  <2>1. ASSUME NEW h \in Closers, Close(h) PROVE ~raced'
    <3>1. \A g \in Closers : g = h OBVIOUS
    <3> QED BY <2>1, <3>1 DEF Close, CloseCheck, CloseDone, CloseSock
  <2>2. ASSUME \/ Reader \/ Server \/ UNCHANGED vars
               \/ \E g \in Consumers : RecvEvent(g) \/ RecvErr(g)
               \/ \E g \in Callers : Send(g) \/ SendReply(g) \/ Write(g) \/ Wake(g)
        PROVE  ~raced'
    BY <2>2, CloseLeftAlone
  <2> QED BY <2>1, <2>2 DEF Next
<1>3. ~raced /\ NoDoubleClose => ~panicked BY DEF NoDoubleClose
<1> QED BY <1>1, <1>2, <1>3, TypeCorrect, CloseOnce, PTL DEF Spec

-----------------------------------------------------------------------------
(* The answers that have arrived.                                          *)

(* The reader puts the head of the wire into its hands.                    *)
LEMMA ArrivedRead ==
  ASSUME TypeOK, ReadMatched
  PROVE  Arrived' \subseteq Arrived \cup {Head(toClient).re}
<1>1. UNCHANGED <<ch, ret>> /\ rmsg' = Head(toClient) BY DEF ReadMatched, procVars
<1> QED BY <1>1 DEF Arrived, Unanswered, Answered

(* In every other step an answer moves from the reader to its channel and  *)
(* from there to its caller, and none appears.                             *)
LEMMA ArrivedMove ==
  ASSUME TypeOK, MutexInv, HandInv, [Next]_vars, ~ReadMatched
  PROVE  Arrived' \subseteq Arrived
<1>0. /\ ch \in [Calls -> Answer] /\ ret \in [Calls -> Answer] /\ Callers \subseteq Procs
      /\ rst \in {"read", "handoff", "emit", "dead"}
  BY DEF TypeOK, ProcType, HistoryType, ReaderType, Procs
<1> USE DEF connVars, procVars, readerVars, wireVars, reqVars, errVars
<1>1. ASSUME NEW g \in Callers, Send(g) \/ SendReply(g) PROVE Arrived' \subseteq Arrived
  BY <1>1 DEF Send, SendReply, Begin, Arrived, Unanswered, Answered
<1>2. ASSUME NEW g \in Callers, WriteFail(g) PROVE Arrived' \subseteq Arrived
  <2>1. /\ UNCHANGED <<rst, rmsg, ch>>
        /\ ret' = ret \/ ret' = [ret EXCEPT ![call[g]] = [kind |-> "werr", re |-> call[g]]]
    BY <1>2 DEF WriteFail
  <2>2. \A n \in Calls : Answered(n)' => ret'[n] = ret[n] /\ Answered(n)
    BY <1>0, <2>1 DEF Answered
  <2> QED BY <2>1, <2>2 DEF Arrived, Unanswered
<1>3. ASSUME NEW g \in Callers, Wake(g) PROVE Arrived' \subseteq Arrived
  <2> DEFINE n == call[g]
  <2>1. /\ UNCHANGED <<rst, rmsg>> /\ ~Unanswered(n)
        /\ ret' = [ret EXCEPT ![n] = ch[n]] /\ ch' = [ch EXCEPT ![n] = NoAnswer]
    BY <1>3 DEF Wake, Unanswered
  <2>2. n \in Calls BY <1>0, <1>3 DEF Wake, MutexInv
  <2>3. \A k \in Calls : ret'[k] = IF k = n THEN ch[n] ELSE ret[k] BY <1>0, <2>1
  <2>4. \A k \in Calls : ~Unanswered(k)' => ~Unanswered(k) /\ ch'[k] = ch[k]
    BY <1>0, <2>1 DEF Unanswered
  <2> HIDE DEF n
  <2> QED BY <2>1, <2>2, <2>3, <2>4 DEF Arrived, Answered
<1>4. CASE Handoff
  <2>1. /\ rst = "handoff" /\ rst' = "read" /\ UNCHANGED ret
        /\ ch' = [ch EXCEPT ![rto] = [kind |-> rmsg.kind, re |-> rmsg.re]]
    BY <1>4 DEF Handoff
  <2>2. \A k \in Calls : k # rto => ch'[k] = ch[k] BY <1>0, <2>1
  <2>3. rto \in Calls /\ ch'[rto].re = rmsg.re BY <1>0, <2>1 DEF HandInv
  <2> QED BY <2>1, <2>2, <2>3 DEF Arrived, Unanswered, Answered
<1>5. CASE ReadUnmatched \/ ReadEvent \/ Emit \/ EmitDone \/ ReadFail
  <2>1. (UNCHANGED <<ch, ret>> /\ rst' # "handoff") \/ UNCHANGED <<ch, ret, rst, rmsg>>
    BY <1>5 DEF ReadUnmatched, ReadEvent, Emit, EmitDone, ReadFail
  <2> QED BY <2>1 DEF Arrived, Unanswered, Answered
<1>6. CASE \/ Server \/ UNCHANGED vars
           \/ \E g \in Callers : WriteOK(g)
           \/ \E g \in Closers : Close(g)
           \/ \E g \in Consumers : RecvEvent(g) \/ RecvErr(g)
  <2>1. UNCHANGED <<ch, ret, rst, rmsg>>
    <3>1. CASE Server \/ UNCHANGED vars BY <3>1 DEF Server, Serve, SendEvent, HangUp, vars
    <3>2. CASE \E g \in Callers : WriteOK(g) BY <3>2 DEF WriteOK
    <3>3. CASE \E g \in Closers : Close(g) BY <3>3 DEF Close, CloseCheck, CloseDone, CloseSock
    <3>4. CASE \E g \in Consumers : RecvEvent(g) \/ RecvErr(g) BY <3>4 DEF RecvEvent, RecvErr
    <3> QED BY <1>6, <3>1, <3>2, <3>3, <3>4
  <2> QED BY <2>1 DEF Arrived, Unanswered, Answered
<1> QED BY <1>1, <1>2, <1>3, <1>4, <1>5, <1>6 DEF Next, Write, Reader

-----------------------------------------------------------------------------
(* The calls.                                                              *)

(* Every step keeps apart the goroutines in a call, and leaves their calls *)
(* unreturned.                                                             *)
LEMMA OneEach ==
  ASSUME TypeOK, MutexInv, NumberInv, CallInv, [Next]_vars
  PROVE  /\ \A g, h \in Procs : InCall(g)' /\ InCall(h)' /\ call'[g] = call'[h] => g = h
         /\ \A g \in Procs : InCall(g)' => ret'[call'[g]].kind = "none"
         /\ \A n \in Calls : n > issued' => ret'[n].kind = "none"
<1> DEFINE Apart == /\ \A g, h \in Procs : InCall(g) /\ InCall(h) /\ call[g] = call[h] => g = h
                    /\ \A g \in Procs : InCall(g) => ret[call[g]].kind = "none"
                    /\ \A n \in Calls : n > issued => ret[n].kind = "none"
<1>a. Apart BY DEF CallInv
<1>0. /\ pc \in [Procs -> {"idle", "sending", "asking", "waiting", "checked", "closing"}]
      /\ call \in [Procs -> 0 .. MaxReqs] /\ ret \in [Calls -> Answer]
      /\ issued \in Nat /\ Callers \subseteq Procs
      /\ \A g \in Procs : InCall(g) => call[g] \in Calls /\ call[g] <= issued
      /\ Calls \subseteq Nat
  BY DEF TypeOK, ProcType, HistoryType, Procs, MutexInv, InCall, Calls
<1>s. SUFFICES Apart' OBVIOUS
<1> USE DEF connVars, procVars, readerVars, wireVars, reqVars, errVars
<1>1. ASSUME NEW g \in Callers, Send(g) \/ SendReply(g) PROVE Apart'
  <2>1. /\ issued + 1 \in Calls /\ issued' = issued + 1 /\ UNCHANGED ret
        /\ call' = [call EXCEPT ![g] = issued + 1]
        /\ \E at \in {"sending", "asking"} : pc' = [pc EXCEPT ![g] = at]
    BY <1>1, BeginFacts
  <2>2. \A h \in Procs : h # g => call'[h] = call[h] /\ InCall(h)' = InCall(h)
    BY <1>0, <2>1 DEF InCall
  <2>3. call'[g] = issued + 1 BY <1>0, <2>1
  <2>4. \A h \in Procs : InCall(h) => call[h] # issued + 1 BY <1>0
  <2> QED BY <1>a, <1>0, <2>1, <2>2, <2>3, <2>4
<1>2. ASSUME NEW g \in Callers, WriteOK(g) PROVE Apart'
  <2>1. /\ InCall(g) /\ UNCHANGED <<call, ret, issued>>
        /\ \E at \in {"waiting", "idle"} : pc' = [pc EXCEPT ![g] = at]
    BY <1>2 DEF WriteOK, InCall
  <2>2. \A h \in Procs : InCall(h)' => InCall(h) BY <1>0, <2>1 DEF InCall
  <2> QED BY <1>a, <2>1, <2>2
<1>3. ASSUME NEW g \in Callers, WriteFail(g) \/ Wake(g) PROVE Apart'
  <2>1. /\ InCall(g) /\ UNCHANGED <<call, issued>> /\ pc' = [pc EXCEPT ![g] = "idle"]
        /\ ret' = ret \/ \E a : ret' = [ret EXCEPT ![call[g]] = a]
    BY <1>3, Zenon DEF WriteFail, Wake, InCall, reqVars
  <2>2. \A h \in Procs : InCall(h)' => InCall(h) /\ h # g BY <1>0, <2>1 DEF InCall
  <2>3. \A n \in Calls : n # call[g] => ret'[n] = ret[n] BY <1>0, <2>1
  <2>4. call[g] \in Calls /\ call[g] <= issued BY <1>0, <2>1
  <2>5. \A h \in Procs : InCall(h)' => call[h] # call[g] BY <1>a, <2>1, <2>2, <1>0
  <2>6. \A n \in Calls : n > issued => n # call[g] BY <1>0, <2>4
  <2> QED BY <1>a, <1>0, <2>1, <2>2, <2>3, <2>5, <2>6
<1>4. ASSUME NEW g \in Closers, Close(g) PROVE Apart'
  <2>1. /\ UNCHANGED <<call, ret, issued>>
        /\ \E at \in {"idle", "checked", "closing"} : pc' = [pc EXCEPT ![g] = at]
    BY <1>4 DEF Close, CloseCheck, CloseDone, CloseSock
  <2>2. \A h \in Procs : InCall(h)' => InCall(h) BY <1>0, <2>1 DEF InCall
  <2> QED BY <1>a, <2>1, <2>2
<1>5. CASE \/ Reader \/ Server \/ UNCHANGED vars
           \/ \E g \in Consumers : RecvEvent(g) \/ RecvErr(g)
  <2>1. UNCHANGED <<pc, call, issued>> BY <1>5, StillFacts
  <2>2. UNCHANGED ret
    BY <1>5 DEF Reader, ReadMatched, ReadUnmatched, Handoff, ReadEvent, Emit, EmitDone, ReadFail,
                Server, Serve, SendEvent, HangUp, RecvEvent, RecvErr, vars
  <2> QED BY <1>a, <2>1, <2>2 DEF InCall
<1> QED BY <1>1, <1>2, <1>3, <1>4, <1>5 DEF Next, Write

(* Every step keeps the answers in the channels, and the failures of Write *)
(* the end of the connection.                                              *)
LEMMA AnswerKinds ==
  ASSUME TypeOK, MutexInv, HandInv, CallInv, [Next]_vars
  PROVE  /\ \A n \in Calls : Unanswered(n)' \/ ch'[n].kind \in {"reply", "error"}
         /\ \A n \in Calls : ret'[n].kind = "werr" => Broken'
<1> DEFINE Kinds == /\ \A n \in Calls : Unanswered(n) \/ ch[n].kind \in {"reply", "error"}
                    /\ \A n \in Calls : ret[n].kind = "werr" => Broken
<1>a. Kinds BY DEF CallInv
<1>0. ch \in [Calls -> Answer] /\ ret \in [Calls -> Answer] /\ Callers \subseteq Procs
  BY DEF TypeOK, ProcType, HistoryType, Procs
<1> SUFFICES Kinds' OBVIOUS
<1> USE DEF connVars, procVars, readerVars, wireVars, reqVars, errVars
<1>1. ASSUME NEW g \in Callers, WriteFail(g) PROVE Kinds'
  <2>1. UNCHANGED <<ch, sockOpen, peerUp>> /\ Broken BY <1>1 DEF WriteFail
  <2> QED BY <1>a, <2>1 DEF Unanswered, Broken
<1>2. ASSUME NEW g \in Callers, Wake(g) PROVE Kinds'
  <2>1. /\ UNCHANGED <<sockOpen, peerUp>> /\ ~Unanswered(call[g])
        /\ ret' = [ret EXCEPT ![call[g]] = ch[call[g]]]
        /\ ch' = [ch EXCEPT ![call[g]] = NoAnswer]
    BY <1>2 DEF Wake, Unanswered
  <2>2. call[g] \in Calls BY <1>0, <1>2 DEF Wake, MutexInv
  <2>3. ch[call[g]].kind # "werr" BY <1>a, <2>1, <2>2
  <2>4. \A n \in Calls : ret'[n] = IF n = call[g] THEN ch[n] ELSE ret[n] BY <1>0, <2>1
  <2>5. \A n \in Calls : ch'[n] = IF n = call[g] THEN NoAnswer ELSE ch[n] BY <1>0, <2>1
  <2> QED BY <1>a, <2>1, <2>3, <2>4, <2>5 DEF Unanswered, Broken
<1>3. CASE Handoff
  <2>1. /\ UNCHANGED <<ret, sockOpen, peerUp>> /\ rmsg.kind \in {"reply", "error"}
        /\ ch' = [ch EXCEPT ![rto] = [kind |-> rmsg.kind, re |-> rmsg.re]]
    BY <1>3 DEF Handoff, HandInv, IsAnswer
  <2>2. \A n \in Calls : ch'[n] = IF n = rto THEN [kind |-> rmsg.kind, re |-> rmsg.re] ELSE ch[n]
    BY <1>0, <2>1
  <2> QED BY <1>a, <2>1, <2>2 DEF Unanswered, Broken
<1>4. CASE \/ HangUp \/ \E g \in Closers : Close(g)
  <2>1. UNCHANGED <<ch, ret>> /\ (Broken => Broken')
    BY <1>4 DEF HangUp, Close, CloseCheck, CloseDone, CloseSock, Broken
  <2> QED BY <1>a, <2>1 DEF Unanswered
<1>5. CASE \/ \E g \in Callers : Send(g) \/ SendReply(g) \/ WriteOK(g)
           \/ ReadMatched \/ ReadUnmatched \/ ReadEvent \/ Emit \/ EmitDone \/ ReadFail
           \/ Serve \/ SendEvent \/ UNCHANGED vars
           \/ \E g \in Consumers : RecvEvent(g) \/ RecvErr(g)
  <2>1. UNCHANGED <<ch, ret, sockOpen, peerUp>>
    <3>1. CASE \E g \in Callers : Send(g) \/ SendReply(g) \/ WriteOK(g)
      BY <3>1 DEF Send, SendReply, Begin, WriteOK
    <3>2. CASE ReadMatched \/ ReadUnmatched \/ ReadEvent \/ Emit \/ EmitDone \/ ReadFail
      BY <3>2 DEF ReadMatched, ReadUnmatched, ReadEvent, Emit, EmitDone, ReadFail
    <3>3. CASE Serve \/ SendEvent \/ UNCHANGED vars BY <3>3 DEF Serve, SendEvent, vars
    <3>4. CASE \E g \in Consumers : RecvEvent(g) \/ RecvErr(g) BY <3>4 DEF RecvEvent, RecvErr
    <3> QED BY <1>5, <3>1, <3>2, <3>3, <3>4
  <2> QED BY <1>a, <2>1 DEF Unanswered, Broken
<1> QED BY <1>1, <1>2, <1>3, <1>4, <1>5 DEF Next, Write, Reader, Server

(* Every step leaves the request in mid-write out of the server's hands.   *)
LEMMA MidWrite ==
  ASSUME TypeOK, MutexInv, NumberInv, ServerInv, CallInv, [Next]_vars
  PROVE  mu' # Nobody => served' + Len(toServer') < issued'
<1>0. /\ toServer \in Seq(Calls) /\ Len(toServer) \in Nat /\ served \in Nat /\ issued \in Nat
      /\ mu # Nobody => served + Len(toServer) < issued
      /\ served + Len(toServer) <= issued
  BY DEF TypeOK, WireType, HistoryType, CallInv, ServerInv
<1> USE DEF connVars, procVars, readerVars, wireVars, reqVars, errVars
<1>1. ASSUME NEW g \in Callers, Send(g) \/ SendReply(g)
      PROVE  served' + Len(toServer') < issued'
  <2>1. issued' = issued + 1 /\ UNCHANGED <<served, toServer>>
    BY <1>1, BeginFacts
  <2> QED BY <1>0, <2>1
<1>2. ASSUME NEW g \in Callers, Write(g) PROVE mu' = Nobody
  BY <1>2 DEF Write, WriteOK, WriteFail
<1>3. CASE Serve
  <2>1. /\ toServer # <<>> /\ toServer' = Tail(toServer) /\ served' = served + 1
        /\ UNCHANGED <<mu, issued>>
    BY <1>3 DEF Serve
  <2>2. Len(toServer') = Len(toServer) - 1 BY <1>0, <2>1, TailFacts
  <2> QED BY <1>0, <2>1, <2>2
<1>4. CASE \/ Reader \/ SendEvent \/ HangUp \/ UNCHANGED vars
           \/ \E g \in Consumers : RecvEvent(g) \/ RecvErr(g)
           \/ \E g \in Callers : Wake(g)
           \/ \E g \in Closers : Close(g)
  <2>1. UNCHANGED <<toServer, served, issued, mu>>
    <3>1. CASE Reader
      BY <3>1 DEF Reader, ReadMatched, ReadUnmatched, Handoff, ReadEvent, Emit, EmitDone, ReadFail
    <3>2. CASE SendEvent \/ HangUp \/ UNCHANGED vars BY <3>2 DEF SendEvent, HangUp, vars
    <3>3. CASE \/ \E g \in Consumers : RecvEvent(g) \/ RecvErr(g)
               \/ \E g \in Callers : Wake(g)
      BY <3>3 DEF RecvEvent, RecvErr, Wake
    <3>4. CASE \E g \in Closers : Close(g) BY <3>4 DEF Close, CloseCheck, CloseDone, CloseSock
    <3> QED BY <1>4, <3>1, <3>2, <3>3, <3>4
  <2> QED BY <1>0, <2>1
<1> QED BY <1>1, <1>2, <1>3, <1>4 DEF Next, Server

(* No answer arrives before the server has read its request.               *)
LEMMA ArrivedServed ==
  ASSUME TypeOK, MutexInv, HandInv, ClientInv, CallInv, [Next]_vars
  PROVE  \A r \in Arrived' : r <= served'
<1>0. served \in Nat /\ toClient \in Seq(Message) /\ \A r \in Arrived : r <= served
  BY DEF TypeOK, WireType, CallInv
<1>1. CASE ReadMatched
  <2>1. /\ toClient # <<>> /\ IsAnswer(Head(toClient)) /\ UNCHANGED served
    BY <1>1 DEF ReadMatched
  <2>2. 1 \in DOMAIN toClient /\ Head(toClient) = toClient[1] BY <1>0, <2>1, TailFacts
  <2>3. Head(toClient).re <= served BY <2>1, <2>2 DEF ClientInv
  <2> QED BY <1>0, <1>1, <2>1, <2>3, ArrivedRead
<1>2. CASE ~ReadMatched
  <2>1. Arrived' \subseteq Arrived BY <1>2, ArrivedMove
  <2>2. UNCHANGED served \/ served' = served + 1
    <3>1. CASE Reader
      BY <3>1 DEF Reader, ReadMatched, ReadUnmatched, Handoff, ReadEvent, Emit, EmitDone, ReadFail,
                  wireVars
    <3>2. CASE Server \/ UNCHANGED vars
      BY <3>2 DEF Server, Serve, SendEvent, HangUp, vars, wireVars
    <3>3. CASE \E g \in Callers : Send(g) \/ SendReply(g) \/ Write(g) \/ Wake(g)
      BY <3>3 DEF Send, SendReply, Begin, Write, WriteOK, WriteFail, Wake, wireVars
    <3>4. CASE \/ \E g \in Consumers : RecvEvent(g) \/ RecvErr(g)
               \/ \E g \in Closers : Close(g)
      BY <3>4 DEF RecvEvent, RecvErr, Close, CloseCheck, CloseDone, CloseSock, wireVars
    <3> QED BY <3>1, <3>2, <3>3, <3>4 DEF Next
  <2>3. \A r \in Arrived : r \in Nat BY DEF Arrived
  <2> QED BY <1>0, <2>1, <2>2, <2>3
<1> QED BY <1>1, <1>2

(* The invariant of the calls holds where Dial returns.                    *)
LEMMA CallInit == Init => CallInv
<1> SUFFICES ASSUME Init PROVE CallInv OBVIOUS
<1>1. Arrived = {} BY DEF Init, Arrived, Unanswered, Answered, NoAnswer
<1> QED BY <1>1 DEF Init, CallInv, InCall, Unanswered, NoAnswer, Calls

(* Every step preserves it.                                                *)
LEMMA CallStep == IInv /\ CallInv /\ [Next]_vars => CallInv'
BY OneEach, AnswerKinds, MidWrite, ArrivedServed DEF IInv, CallInv

-----------------------------------------------------------------------------
(* The refinement.  A Begin asks, Serve answers, Wake returns, and a Write *)
(* that fails in SendReply fails the call; nothing else shows in Rpc.      *)

Served == {n \in Replies : n <= served}
Outcomes == [n \in Calls |-> Outcome(n)]

(* What a step leaves as it is, it leaves so in Rpc.                       *)
LEMMA SameCalls ==
  ASSUME UNCHANGED <<op, ret, served, overrun>>
  PROVE  UNCHANGED rpc!vars
BY DEF rpc!vars, Replies, Outcome

(* A new call is asked, and a new request without a reply may scramble.    *)
LEMMA BeginRefines ==
  ASSUME IInv, NEW g \in Callers, Send(g) \/ SendReply(g)
  PROVE  rpc!Next \/ UNCHANGED rpc!vars
<1>5. PICK n : n = issued + 1 OBVIOUS
<1>0. /\ op \in [Calls -> {"none", "void", "reply"}] /\ overrun \in BOOLEAN /\ issued \in Nat
      /\ served \in Nat /\ served <= issued /\ Calls \subseteq Nat
      /\ \A m \in Calls : op[m] # "none" => m <= issued
  BY DEF IInv, TypeOK, HistoryType, WireType, ServerInv, NumberInv, Calls
<1>1. PICK kind \in {"void", "reply"} :
        /\ n \in Calls /\ op[n] = "none" /\ op' = [op EXCEPT ![n] = kind]
        /\ overrun' = (overrun \/ \E m \in InFlight : issued + 1 - m >= SeqMod)
        /\ UNCHANGED <<served, ret>>
  <2>1. PICK kind \in {"void", "reply"} :
          /\ issued + 1 \in Calls /\ op[issued + 1] = "none"
          /\ op' = [op EXCEPT ![issued + 1] = kind]
          /\ overrun' = (overrun \/ \E m \in InFlight : issued + 1 - m >= SeqMod)
          /\ UNCHANGED <<wireVars, ret>>
    <3>1. TypeOK /\ NumberInv BY DEF IInv
    <3> QED BY <3>1, BeginFacts, Zenon
  <2>2. UNCHANGED <<served, ret>> BY <2>1 DEF wireVars
  <2>3. n \in Calls /\ op[n] = "none" /\ op' = [op EXCEPT ![n] = kind] BY <1>5, <2>1
  <2> QED BY <2>1, <2>2, <2>3, Zenon
<1>2. Outcomes' = Outcomes BY <1>1 DEF Outcomes, Outcome
<1>3. overrun' \in BOOLEAN /\ (overrun => overrun') BY <1>0, <1>1
<1>4. \A m \in Calls : op'[m] = IF m = n THEN kind ELSE op[m] BY <1>0, <1>1
<1>6. CASE kind = "reply"
  <2>1. Replies' = Replies \cup {n} BY <1>1, <1>4, <1>6 DEF Replies
  <2>2. \A m \in Replies : m < n BY <1>0, <1>5 DEF Replies
  <2>3. Served' = Served BY <1>0, <1>1, <1>5, <2>1 DEF Served
  <2>4. rpc!Ask(n) BY <1>2, <2>1, <2>2, <2>3 DEF rpc!Ask, Served, Outcomes
  <2>5. overrun' \in {overrun, TRUE} BY <1>0, <1>3
  <2> QED BY <1>1, <2>4, <2>5 DEF rpc!Next
<1>7. CASE kind = "void"
  <2>1. Replies' = Replies BY <1>1, <1>4, <1>7 DEF Replies
  <2>2. Served' = Served BY <1>1, <2>1 DEF Served
  <2>3. CASE overrun' = overrun BY <1>2, <2>1, <2>2, <2>3 DEF rpc!vars, Served, Outcomes
  <2>4. CASE overrun' # overrun
    <3>1. overrun' = TRUE BY <1>0, <1>3, <2>4
    <3> QED BY <1>2, <2>1, <2>2, <3>1 DEF rpc!Next, rpc!Reuse, Served, Outcomes
  <2> QED BY <2>3, <2>4
<1> QED BY <1>6, <1>7

(* The server answers the oldest call it has not answered, which has not   *)
(* ended before.                                                           *)
LEMMA ServeRefines ==
  ASSUME IInv, CallInv, Serve
  PROVE  rpc!Next \/ UNCHANGED rpc!vars
<1>n. PICK n : n = Head(toServer) OBVIOUS
<1>0. /\ toServer \in Seq(Calls) /\ served \in Nat /\ Calls \subseteq Nat
      /\ ret \in [Calls -> Answer]
  BY DEF IInv, TypeOK, WireType, HistoryType, Calls
<1>1. /\ toServer # <<>> /\ served' = served + 1 /\ ~Broken
      /\ UNCHANGED <<op, ret, overrun>>
  BY DEF Serve, Broken, reqVars
<1>2. n \in Calls /\ n = served + 1
  <2>1. 1 \in DOMAIN toServer /\ n = toServer[1] BY <1>n, <1>0, <1>1, TailFacts
  <2> QED BY <1>0, <2>1 DEF IInv, ServerInv
<1>3. Replies' = Replies /\ Outcomes' = Outcomes BY <1>1 DEF Replies, Outcomes, Outcome
<1>4. CASE n \in Replies
  <2>1. Served' = Served \cup {n} /\ n \notin Served
    BY <1>0, <1>1, <1>2, <1>3, <1>4 DEF Served, Replies
  <2>2. \A m \in Replies \ Served : n <= m BY <1>0, <1>2 DEF Served, Replies
  <2>3. Outcomes[n] \in {"pending", "foreign"}
    <3>1. ret[n].kind # "werr" BY <1>1, <1>2 DEF CallInv
    <3>2. ret[n].kind \in {"reply", "error"} => ret[n].re # n
      <4> SUFFICES ASSUME Answered(n), ret[n].re = n PROVE FALSE BY DEF Answered
      <4>1. n \in Arrived BY <1>2 DEF Arrived, Calls
      <4> QED BY <1>0, <1>2, <4>1 DEF CallInv
    <3>3. ret[n].kind \in {"none", "reply", "error", "werr"} BY <1>0, <1>2 DEF Answer
    <3>4. Outcomes[n] = Outcome(n) BY <1>2 DEF Outcomes
    <3> QED BY <3>1, <3>2, <3>3, <3>4 DEF Outcome
  <2>4. rpc!Answer(n)
    BY <1>1, <1>2, <1>3, <1>4, <2>1, <2>2, <2>3 DEF rpc!Answer, Served, Outcomes
  <2> QED BY <1>2, <2>4 DEF rpc!Next
<1>5. CASE n \notin Replies
  <2>1. \A m \in Replies : m \in Nat BY <1>0 DEF Replies
  <2>2. Served' = Served BY <1>0, <1>1, <1>2, <1>3, <1>5, <2>1 DEF Served
  <2> QED BY <1>1, <1>3, <2>2 DEF rpc!vars, Served, Outcomes
<1> QED BY <1>4, <1>5

(* A call that ends: pending before, and how it ends is all that changes.  *)
LEMMA EndRefines ==
  ASSUME NEW n \in Replies, NEW how, ret \in [Calls -> Answer], ret[n].kind = "none",
         UNCHANGED <<op, served, overrun>>,
         NEW a, ret' = [ret EXCEPT ![n] = a], Outcome(n)' = how
  PROVE  rpc!End(n, how)
<1>1. n \in Calls BY DEF Replies
<1>2. \A m \in Calls : m # n => Outcome(m)' = Outcome(m) BY DEF Outcome
<1>3. Outcomes' = [Outcomes EXCEPT ![n] = how] BY <1>1, <1>2 DEF Outcomes
<1>4. Outcomes[n] = "pending" BY <1>1 DEF Outcomes, Outcome
<1>5. Replies' = Replies /\ Served' = Served BY DEF Replies, Served
<1> QED BY <1>3, <1>4, <1>5 DEF rpc!End, Outcomes, Served

(* SendReply returns its own answer, which the server has given, or after  *)
(* an overrun a foreign one.                                               *)
LEMMA WakeRefines ==
  ASSUME IInv, CallInv, NEW g \in Callers, Wake(g)
  PROVE  rpc!Next
<1>n. PICK n : n = call[g] OBVIOUS
<1>0. /\ ret \in [Calls -> Answer] /\ ch \in [Calls -> Answer]
      /\ g \in Procs /\ served \in Nat /\ overrun \in BOOLEAN
  BY DEF IInv, TypeOK, HistoryType, ProcType, WireType, Procs
<1>1. /\ pc[g] = "waiting" /\ ~Unanswered(n) /\ ret' = [ret EXCEPT ![n] = ch[n]]
      /\ UNCHANGED <<op, served, overrun>>
  BY <1>n DEF Wake, Unanswered, wireVars, reqVars
<1>2. n \in Calls /\ op[n] = "reply" BY <1>n, <1>0, <1>1 DEF IInv, MutexInv
<1>3. ret[n].kind = "none" BY <1>n, <1>0, <1>1 DEF CallInv, InCall
<1>4. ch[n].kind \in {"reply", "error"} BY <1>1, <1>2 DEF CallInv
<1>5. n \in Replies BY <1>2 DEF Replies
<1>6. ret'[n] = ch[n] BY <1>0, <1>1, <1>2
<1>7. CASE ch[n].re = n
  <2>1. Outcome(n)' = "own" BY <1>4, <1>6, <1>7 DEF Outcome
  <2>2. n \in Arrived BY <1>1, <1>2, <1>7 DEF Arrived, Calls
  <2>3. n \in Served BY <1>5, <2>2 DEF CallInv, Served
  <2>4. rpc!End(n, "own") BY <1>0, <1>1, <1>3, <1>5, <2>1, EndRefines
  <2> QED BY <1>2, <2>3, <2>4 DEF rpc!Next, rpc!Return, Served
<1>8. CASE ch[n].re # n
  <2>1. Outcome(n)' = "foreign" BY <1>4, <1>6, <1>8 DEF Outcome
  <2>2. overrun BY <1>1, <1>2, <1>8 DEF IInv, DeliveryInv
  <2>3. rpc!End(n, "foreign") BY <1>0, <1>1, <1>3, <1>5, <2>1, EndRefines
  <2> QED BY <1>2, <2>2, <2>3 DEF rpc!Next, rpc!Foreign
<1> QED BY <1>7, <1>8

(* A SendReply whose Write fails was never answered; a Send is no call.    *)
LEMMA FailRefines ==
  ASSUME IInv, CallInv, NEW g \in Callers, WriteFail(g)
  PROVE  rpc!Next \/ UNCHANGED rpc!vars
<1>n. PICK n : n = call[g] OBVIOUS
<1>0. /\ ret \in [Calls -> Answer] /\ g \in Procs /\ served \in Nat /\ issued \in Nat
      /\ Len(toServer) \in Nat /\ Nobody \notin Procs
  BY ConnAssumption DEF IInv, TypeOK, HistoryType, WireType, Procs
<1>1. UNCHANGED <<op, served, overrun>> /\ Writing(g)
  BY DEF WriteFail, wireVars, reqVars, Writing
<1>2. CASE pc[g] = "sending"
  <2>1. UNCHANGED ret BY <1>2 DEF WriteFail
  <2> QED BY <1>1, <2>1, SameCalls
<1>3. CASE pc[g] = "asking"
  <2>1. ret' = [ret EXCEPT ![n] = [kind |-> "werr", re |-> n]] BY <1>n, <1>3 DEF WriteFail
  <2>2. n \in Calls /\ op[n] = "reply" BY <1>n, <1>0, <1>3 DEF IInv, MutexInv
  <2>3. ret[n].kind = "none" BY <1>n, <1>0, <1>3 DEF CallInv, InCall
  <2>4. n = issued /\ mu # Nobody BY <1>n, <1>0, <1>1 DEF IInv, MutexInv
  <2>5. served < n BY <1>0, <2>4 DEF CallInv
  <2>6. n \in Replies /\ n \notin Served BY <1>0, <2>2, <2>5 DEF Replies, Served, Calls
  <2>7. Outcome(n)' = "failed" BY <1>0, <2>1, <2>2 DEF Outcome
  <2>8. rpc!End(n, "failed") BY <1>0, <1>1, <2>1, <2>3, <2>6, <2>7, EndRefines
  <2> QED BY <2>2, <2>6, <2>8 DEF rpc!Next, rpc!Fail, Served
<1> QED BY <1>2, <1>3 DEF WriteFail

(* Every step of Conn is a step of Rpc or changes nothing there.           *)
LEMMA StepRefines ==
  ASSUME IInv, CallInv, [Next]_vars
  PROVE  [rpc!Next]_(rpc!vars)
<1> USE DEF connVars, procVars, readerVars, wireVars, reqVars, errVars
<1>1. ASSUME NEW g \in Callers, Send(g) \/ SendReply(g) \/ WriteFail(g) \/ Wake(g)
      PROVE  rpc!Next \/ UNCHANGED rpc!vars
  BY <1>1, BeginRefines, FailRefines, WakeRefines
<1>2. CASE Serve BY <1>2, ServeRefines
<1>3. CASE \/ Reader \/ SendEvent \/ HangUp \/ UNCHANGED vars
           \/ \E g \in Consumers : RecvEvent(g) \/ RecvErr(g)
           \/ \E g \in Callers : WriteOK(g)
           \/ \E g \in Closers : Close(g)
  <2>1. UNCHANGED <<op, ret, served, overrun>>
    <3>1. CASE Reader
      BY <3>1 DEF Reader, ReadMatched, ReadUnmatched, Handoff, ReadEvent, Emit, EmitDone, ReadFail
    <3>2. CASE SendEvent \/ HangUp \/ UNCHANGED vars BY <3>2 DEF SendEvent, HangUp, vars
    <3>3. CASE \/ \E g \in Consumers : RecvEvent(g) \/ RecvErr(g)
               \/ \E g \in Callers : WriteOK(g)
      BY <3>3 DEF RecvEvent, RecvErr, WriteOK
    <3>4. CASE \E g \in Closers : Close(g) BY <3>4 DEF Close, CloseCheck, CloseDone, CloseSock
    <3> QED BY <1>3, <3>1, <3>2, <3>3, <3>4
  <2> QED BY <2>1, SameCalls
<1> QED BY <1>1, <1>2, <1>3 DEF Next, Write, Server

(* SendReply is a remote procedure call, for any goroutines, capacities,   *)
(* bounds and width of the sequence number: every behaviour of Conn is one *)
(* of Rpc under the refinement mapping of Conn.                            *)
THEOREM Implements == Spec => RefinesRpc
<1>1. Init => rpc!Init
  <2> SUFFICES ASSUME Init PROVE rpc!Init OBVIOUS
  <2>1. Replies = {} BY DEF Init, Replies
  <2>2. Outcomes = [n \in Calls |-> "pending"] BY DEF Init, Outcomes, Outcome, NoAnswer
  <2> QED BY <2>1, <2>2 DEF Init, rpc!Init, Outcomes
<1>2. IInv /\ CallInv /\ [Next]_vars => [rpc!Next]_(rpc!vars) BY StepRefines
<1> QED BY <1>1, <1>2, CallInit, CallStep, Correlation, PTL DEF Spec, RefinesRpc, rpc!Spec

=============================================================================
