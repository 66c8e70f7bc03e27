------------------------------ MODULE ConnInv ------------------------------
(***************************************************************************)
(* Why Conn correlates replies correctly: the inductive invariant that     *)
(* ConnProofs proves and TLC checks.                                       *)
(***************************************************************************)
EXTENDS Conn

Writing(g) == pc[g] \in {"sending", "asking"}
Unanswered(n) == ch[n] = NoAnswer

(* c.mu is held by the one goroutine in mid-write, and what it writes is   *)
(* the last request numbered.                                              *)
MutexInv ==
  /\ \A g \in Procs : Writing(g) => mu = g /\ call[g] = issued
  /\ mu # Nobody => Writing(mu)
  /\ \A g \in Procs : pc[g] \in {"sending", "asking", "waiting"} =>
       /\ call[g] \in Calls /\ call[g] <= issued
       /\ ((pc[g] # "sending") <=> (op[call[g]] = "reply"))

(* seq is the count of requests, modulo SeqMod, and op remembers them.     *)
NumberInv ==
  /\ seq = issued % SeqMod
  /\ \A n \in Calls : (n <= issued) <=> (op[n] # "none")

(* An entry of pend is a call that wants a reply, under its own number,    *)
(* with its channel still empty and not the one in the reader's hands.     *)
PendInv ==
  \A s \in DOMAIN pend : pend[s] # 0 =>
    /\ s = pend[s] % SeqMod /\ pend[s] <= issued /\ op[pend[s]] = "reply"
    /\ Unanswered(pend[s]) /\ pend[s] # rto

HandInv ==
  /\ rst = "handoff" => rto \in Calls /\ rto <= issued /\ Unanswered(rto) /\ IsAnswer(rmsg)
  /\ rst # "handoff" => rto = 0
  /\ \A n \in Calls : n > issued => Unanswered(n)

(* Requests reach the server in the order of their numbers, and while the  *)
(* connection works none is missing but the one in mid-write.              *)
ServerInv ==
  /\ \A i \in DOMAIN toServer : toServer[i] = served + i
  /\ served + Len(toServer) <= issued
  /\ ~Broken => issued = served + Len(toServer) + (IF mu = Nobody THEN 0 ELSE 1)

(* Answers come back in the order of the requests, with their numbers.     *)
ClientInv ==
  \A i \in DOMAIN toClient : IsAnswer(toClient[i]) =>
    /\ toClient[i].re <= served /\ toClient[i].seq = toClient[i].re % SeqMod
    /\ \A j \in DOMAIN toClient :
         j > i /\ IsAnswer(toClient[j]) => toClient[i].re < toClient[j].re

Wanted(n) == IF op[n] = "reply" THEN n ELSE 0

(* No number reused in flight: then every request in flight finds in pend  *)
(* what it should, itself or nothing, and pend holds nothing else while    *)
(* the connection works.                                                   *)
WindowInv ==
  /\ \A n \in InFlight : issued < n + SeqMod /\ pend[n % SeqMod] = Wanted(n)
  /\ ~Broken /\ mu # Nobody => pend[issued % SeqMod] = Wanted(issued)
  /\ \A s \in DOMAIN pend : pend[s] # 0 =>
       Broken \/ pend[s] \in InFlight \/ (mu # Nobody /\ pend[s] = issued)

(* ... and so the answers that have come in went where they belong.        *)
DeliveryInv ==
  /\ rst = "handoff" => rto = rmsg.re /\ op[rto] = "reply"
  /\ \A n \in Calls : ~Unanswered(n) => ch[n].re = n /\ op[n] = "reply"
  /\ \A n \in Calls : Answered(n) => ret[n].re = n /\ op[n] = "reply"
  /\ \A n \in surfaced \cup lost : op[n] = "void"

(* The inductive invariant: everything deliver relies on when it takes a   *)
(* sequence number for a call.  Without overrun it is exact.               *)
IInv ==
  /\ TypeOK /\ MutexInv /\ NumberInv /\ PendInv /\ HandInv /\ PendHasOwner
  /\ ServerInv /\ ClientInv /\ (~overrun => WindowInv /\ DeliveryInv)

-----------------------------------------------------------------------------
(* Why the calls look like Rpc, and the events and errors like streams.    *)

InCall(g) == pc[g] \in {"sending", "asking", "waiting"}

(* The requests whose answers the reader has taken for a caller.           *)
Arrived ==
  {r \in 0 .. MaxReqs :
     \/ rst = "handoff" /\ rmsg.re = r
     \/ \E n \in Calls : ~Unanswered(n) /\ ch[n].re = r
     \/ \E n \in Calls : Answered(n) /\ ret[n].re = r}

(* A call has one goroutine and ends once; a failed Write is the last word *)
(* of a broken connection, and what is in mid-write has not been served.   *)
CallInv ==
  /\ \A g, h \in Procs : InCall(g) /\ InCall(h) /\ call[g] = call[h] => g = h
  /\ \A g \in Procs : InCall(g) => ret[call[g]].kind = "none"
  /\ \A n \in Calls : n > issued => ret[n].kind = "none"
  /\ \A n \in Calls : Unanswered(n) \/ ch[n].kind \in {"reply", "error"}
  /\ \A n \in Calls : ret[n].kind = "werr" => Broken
  /\ mu # Nobody => served + Len(toServer) < issued
  /\ \A r \in Arrived : r <= served

(* The events on the wire are the last ones emitted, in their order, and   *)
(* the application has the others.                                         *)
OrderInv ==
  \A i \in DOMAIN toClient : ~IsAnswer(toClient[i]) =>
    /\ toClient[i].re \in DOMAIN evlog /\ toClient[i].kind = evlog[toClient[i].re].kind
    /\ \A j \in DOMAIN toClient :
         j > i /\ ~IsAnswer(toClient[j]) => toClient[i].re < toClient[j].re
    /\ \A l \in DOMAIN evlog : l > toClient[i].re => l \in OnWire
StreamInv == OrderInv /\ EventStream

Delivered(l) == \E k \in DOMAIN (seen \o events) : (seen \o events)[k] = l
Settled(n) == n \in surfaced \cup lost

(* An answer stays behind the events emitted before it, on the wire and    *)
(* after, and behind the errors of earlier requests.                       *)
WireBarrier ==
  \A i, j \in DOMAIN toClient :
    ~IsAnswer(toClient[i]) /\ IsAnswer(toClient[j])
      /\ evlog[toClient[i].re].at < toClient[j].re => i < j
CallBarrier == \A r \in Arrived : \A l \in Shown : evlog[l].at < r => Delivered(l)
BarrierInv == WireBarrier /\ CallBarrier

(* What was raised is on the wire, or in Errs(), or was dropped there, and *)
(* no answer of a later request has overtaken it.                          *)
ErrorInv ==
  /\ \A n \in raised : n <= served
  /\ \A i \in DOMAIN toClient : IsAnswer(toClient[i]) =>
       (toClient[i].kind = "error" <=> toClient[i].re \in raised)
  /\ ~overrun => \A n \in raised : op[n] = "void" =>
       /\ Settled(n) \/ \E i \in DOMAIN toClient : IsAnswer(toClient[i]) /\ toClient[i].re = n
       /\ \A r \in Arrived : n < r => Settled(n)

(* The second invariant, inductive relative to the first.                  *)
JInv == CallInv /\ StreamInv /\ BarrierInv /\ ErrorInv

=============================================================================
