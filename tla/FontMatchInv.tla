---------------------------- MODULE FontMatchInv ----------------------------
(***************************************************************************)
(* The inductive invariant of FontMatch: what the walk leaves behind, and  *)
(* what the sorting of the lists keeps of the answers given so far.        *)
(***************************************************************************)
EXTENDS FontMatch

(* The walk visits one file after another, and nothing is matched before   *)
(* its end.                                                                *)
Walked ==
  /\ \A f \in AllFiles : table[f] \in Tables[f]
  /\ Database \subseteq {Files[i] : i \in 1 .. at - 1}
  /\ last.font # NoFont => last.p \in Patterns
  /\ at <= Len(Files) => last.font = NoFont /\ \A p \in Patterns : answer[p] = NoFont

(* An answer that is remembered heads the list of its own family still,    *)
(* and no font of the list is closer to its style.                         *)
Settled ==
  \A p \in Patterns :
    LET list == byFam[lower[p.families[1]]] IN
    answer[p] # NoFont /\ list # <<>> =>
      /\ answer[p] = list[1]
      /\ \A i \in DOMAIN list :
           scoreStyle(list[1], ParsePattern(p)) <= scoreStyle(list[i], ParsePattern(p))

(* The inductive invariant.                                                *)
MInv == TypeOK /\ Walked /\ ListsWhole /\ Settled

=============================================================================
