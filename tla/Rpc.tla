-------------------------------- MODULE Rpc ---------------------------------
(***************************************************************************)
(* What SendReply promises its callers, with no sequence numbers, no table *)
(* of pending calls and no goroutines: calls are asked in order, the       *)
(* server answers them in that order, and each call ends once, with its    *)
(* own answer or with the failure of its own Write.                        *)
(***************************************************************************)
EXTENDS Naturals

CONSTANT Calls   (* the calls, in the order they are numbered *)

VARIABLES
  asked,      (* calls begun                                               *)
  answered,   (* calls the server has answered                             *)
  outcome,    (* how each call has ended                                   *)
  scrambled   (* a sequence number was reused while in flight              *)

vars == <<asked, answered, outcome, scrambled>>

Init ==
  /\ asked = {} /\ answered = {} /\ scrambled = FALSE
  /\ outcome = [n \in Calls |-> "pending"]

(* A call begins; its number is above all earlier ones.                    *)
Ask(n) ==
  /\ \A m \in asked : m < n
  /\ asked' = asked \cup {n}
  /\ UNCHANGED <<answered, outcome>>

(* The server answers the oldest call it has not answered.                 *)
Answer(n) ==
  /\ n \in asked \ answered /\ outcome[n] \in {"pending", "foreign"}
  /\ \A m \in asked \ answered : n <= m
  /\ answered' = answered \cup {n}
  /\ UNCHANGED <<asked, outcome, scrambled>>

End(n, how) ==
  /\ n \in asked /\ outcome[n] = "pending"
  /\ outcome' = [outcome EXCEPT ![n] = how]
  /\ UNCHANGED <<asked, answered, scrambled>>

Return(n) == n \in answered /\ End(n, "own")
Fail(n) == n \notin answered /\ End(n, "failed")

(* Only after a number was reused in flight may a call end with the answer *)
(* of another request.                                                     *)
Foreign(n) == scrambled /\ End(n, "foreign")

(* A request that wants no reply may be the one that reuses a number.      *)
Reuse == scrambled' = TRUE /\ UNCHANGED <<asked, answered, outcome>>

Next ==
  \/ \E n \in Calls :
       \/ Ask(n) /\ scrambled' \in {scrambled, TRUE}
       \/ Answer(n) \/ Return(n) \/ Fail(n) \/ Foreign(n)
  \/ Reuse

Spec == Init /\ [][Next]_vars

=============================================================================
