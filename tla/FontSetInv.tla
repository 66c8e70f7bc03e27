----------------------------- MODULE FontSetInv -----------------------------
(***************************************************************************)
(* What a goroutine knows at each place of fontFor, and what the list and  *)
(* the cache say of a rune: the inductive invariant that FontSetProofs     *)
(* proves and TLC checks.                                                  *)
(***************************************************************************)
EXTENDS FontSet

(* A text in progress, and one goroutine that works on it.                 *)
Texts == [s : Seq(Runes) \ {<<>>}, inner : Nat,
          phase : {"measure", "dots", "clamp", "draw", "done"}, todo : Seq(Runes),
          pen : Nat, room : Nat, out : Seq(Runes)]
TextInv ==
  /\ text \in [Users -> Texts \cup {NoText}]
  /\ \A u \in Drawers : Busy(u) => Drawing(u)

(* What has r before place n of the database did not load; nor did the     *)
(* rest, or NewFace has refused what has it.                               *)
NoneBefore(r, n) == \A i \in DOMAIN DB : i < n /\ Has(DB[i], r) => DB[i] \in failed[r]
Refusal(r) == \E i \in DOMAIN DB : DB[i] \in NoFace \cap parsed /\ Has(DB[i], r)
Unserved(r) == NoneBefore(r, Len(DB) + 1) \/ Refusal(r)

(* What is known at place l of fontFor of rune r, with the search at n and *)
(* font f in hand.                                                         *)
Known(l, r, n, f) ==
  /\ l = "idle" => n = 1
  /\ l \notin {"idle", "search"} => ~Has(Primary, r)
  /\ NoneBefore(r, n)
  /\ l \in {"face", "put", "append", "store"} =>
       n \in DOMAIN DB /\ f = DB[n] /\ f \in parsed /\ Has(f, r)
  /\ l \in {"put", "append", "store"} => f \notin NoFace
  /\ l = "putnil" => Unserved(r)
KnownInv == \A u \in Users : Known(pc[u], rune[u], pos[u], font[u])

(* The cache says nil of a rune only when there was nothing to be had.     *)
CacheInv == \A r \in DOMAIN fb : ~Has(Primary, r) /\ (fb[r] = NoFont => Unserved(r))

(* While nobody interferes, the list stays as it was searched.             *)
AloneInv ==
  ~raced => \A u \in Users :
    /\ pc[u] \notin {"idle", "search"} => Having(rune[u]) = {}
    /\ pc[u] = "store" => old[u] = Fallback

(* What fontFor would answer for r without a search of the database.       *)
Answers(r) ==
  IF Has(Primary, r) THEN {Primary}
  ELSE IF Having(r) # {} THEN {Fallback[i] : i \in First(Having(r))}
  ELSE {f \in AllFonts : r \in DOMAIN fb /\ f = IF fb[r] = NoFont THEN Primary ELSE fb[r]}

Adding(u) == pc[u] \in {"append", "store"}

(* fontFor has given no other answer; a rune without a font keeps none;    *)
(* and one whose font is not yet in the list will find it there.           *)
Settled(r) ==
  /\ chosen[r] \subseteq Answers(r)
  /\ r \in DOMAIN fb /\ fb[r] = NoFont => Having(r) = {} /\ chosen[r] # {}
  /\ r \in DOMAIN fb /\ fb[r] # NoFont /\ Having(r) = {} =>
       \E u \in Users : Adding(u) /\ rune[u] = r /\ font[u] = fb[r]
  /\ \A u \in Users : Adding(u) /\ rune[u] = r => r \in DOMAIN fb /\ fb[r] = font[u]
SettledInv == ~raced /\ ~late => \A r \in Runes : Exempt(r) \/ Settled(r)

(* The inductive invariant: what has been answered is what the list and    *)
(* the cache hold.                                                         *)
SInv ==
  /\ TypeOK /\ TextInv /\ KnownInv /\ CacheInv
  /\ AloneInv /\ SettledInv /\ NoDuplicates

=============================================================================
