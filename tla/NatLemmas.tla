----------------------------- MODULE NatLemmas -----------------------------
(***************************************************************************)
(* What the proofs need of the natural numbers: remainders, of which Conn  *)
(* keeps its uint16 sequence number; least elements, which is all there is *)
(* of induction here; and loops, as functions of the number of rounds.     *)
(***************************************************************************)
EXTENDS Integers, FiniteSetTheorems, TLAPS

-----------------------------------------------------------------------------
(* Remainders.                                                             *)


(* A remainder lies below its modulus.                                     *)
LEMMA ModInRange ==
  ASSUME NEW k \in Nat \ {0}, NEW n \in Nat
  PROVE  n % k \in 0 .. k - 1
  BY SMT

(* Quotient and remainder make up the number.                              *)
LEMMA ModDiv ==
  ASSUME NEW k \in Nat \ {0}, NEW n \in Nat
  PROVE  n = k * (n \div k) + (n % k) /\ n \div k \in Int
  BY SMT

(* A multiple of k plus a rest below k has that rest as its remainder.     *)
LEMMA ModIs ==
  ASSUME NEW k \in Nat \ {0}, NEW q \in Int, NEW r \in 0 .. k - 1, k * q + r \in Nat
  PROVE  (k * q + r) % k = r
<1> DEFINE n == k * q + r
<1>0. n = k * (n \div k) + (n % k) /\ n \div k \in Int /\ n % k \in 0 .. k - 1
  <2>1. n \in Nat OBVIOUS
  <2> HIDE DEF n
  <2> QED BY <2>1, ModDiv, ModInRange
<1>1. PICK p \in Int, b \in 0 .. k - 1 : n = k * p + b /\ b = n % k
  BY <1>0, Zenon
<1>2. k * (q - p) = b - r
  <2>1. k * (q - p) = k * q - k * p BY SMT
  <2>2. k * q + r = k * p + b BY <1>1
  <2> QED BY <2>1, <2>2, SMT
<1>3. ~(q - p >= 1)
  <2>1. q - p >= 1 => k * (q - p) >= k BY SMT
  <2> QED BY <2>1, <1>2, SMT
<1>4. ~(q - p <= -1)
  <2>1. q - p <= -1 => k * (q - p) <= -k BY SMT
  <2> QED BY <2>1, <1>2, SMT
<1>5. q - p = 0 BY <1>3, <1>4, SMT
<1> QED BY <1>1, <1>2, <1>5, SMT

(* Two different numbers less than k apart differ modulo k.                *)
LEMMA ModClose ==
  ASSUME NEW k \in Nat \ {0}, NEW m \in Nat, NEW n \in Nat, n < m, m < n + k
  PROVE  m % k # n % k
<1> SUFFICES ASSUME m % k = n % k PROVE FALSE OBVIOUS
<1> DEFINE q == m \div k  p == n \div k
<1>1. m = k * q + (m % k) /\ n = k * p + (n % k) /\ q \in Int /\ p \in Int BY ModDiv
<1>2. m - n = k * q - k * p /\ m - n > 0 /\ m - n < k BY <1>1, SMT
<1>3. k * q - k * p = k * (q - p) BY <1>1, SMT
<1>4. q - p >= 1 \/ q - p <= 0 BY <1>1, SMT
<1>5. CASE q - p >= 1 
  <2>1. k * (q - p) >= k BY <1>5, <1>1, SMT
  <2> QED BY <2>1, <1>2, <1>3, <1>1, SMT
<1>6. CASE q - p <= 0
  <2>1. k * (q - p) <= 0 BY <1>6, <1>1, SMT
  <2> QED BY <2>1, <1>2, <1>3, <1>1, SMT
<1> QED BY <1>4, <1>5, <1>6

(* c.seq++ in 16 bits counts what the absolute count counts, modulo k.     *)
LEMMA ModSucc ==
  ASSUME NEW k \in Nat \ {0}, NEW n \in Nat
  PROVE  (n + 1) % k = ((n % k) + 1) % k
<1>0. n = k * (n \div k) + (n % k) /\ n \div k \in Int /\ n % k \in 0 .. k - 1
  BY ModDiv, ModInRange
<1>1. PICK p \in Int, b \in 0 .. k - 1 : n = k * p + b /\ b = n % k
  BY <1>0, Zenon
<1>2. CASE b + 1 < k
  <2>1. n + 1 = k * p + (b + 1) /\ b + 1 \in 0 .. k - 1 BY <1>1, <1>2, SMT
  <2>2. (k * p + (b + 1)) % k = b + 1
    <3>1. k * p + (b + 1) \in Nat BY <2>1
    <3> QED BY <2>1, <3>1, ModIs, Zenon
  <2>3. (b + 1) % k = b + 1 BY <1>2, SMT
  <2> QED BY <1>1, <2>1, <2>2, <2>3, Zenon
<1>3. CASE b + 1 = k
  <2>1. n + 1 = k * (p + 1) + 0 /\ 0 \in 0 .. k - 1 /\ p + 1 \in Int BY <1>1, <1>3, SMT
  <2>2. (k * (p + 1) + 0) % k = 0 
    <3>1. k * (p + 1) + 0 \in Nat BY <2>1
    <3> QED BY <2>1, <3>1, ModIs, Zenon
  <2>3. (b + 1) % k = 0 BY <1>3, SMT
  <2> QED BY <1>1, <2>1, <2>2, <2>3, Zenon
<1> QED BY <1>2, <1>3, SMT

(* Two numbers in one window of k differ modulo k.                          *)
LEMMA ModWindow ==
  ASSUME NEW k \in Nat \ {0}, NEW m \in Nat, NEW n \in Nat, NEW top \in Nat,
         m # n, m <= top, n <= top, top < m + k, top < n + k
  PROVE  m % k # n % k
<1>1. CASE m < n
  <2>1. n < m + k BY SMT
  <2> QED BY <1>1, <2>1, ModClose
<1>2. CASE n < m
  <2>1. m < n + k BY SMT
  <2> QED BY <1>2, <2>1, ModClose
<1> QED BY <1>1, <1>2, SMT

-----------------------------------------------------------------------------
(* Least elements, and loops.                                              *)

(* A set of natural numbers that is not empty has a least element.         *)
LEMMA Least ==
  ASSUME NEW T \in SUBSET Nat, T # {}
  PROVE  \E n \in T : \A m \in T : n <= m
<1> DEFINE W == {1 .. n : n \in T}
           R == StrictSubsetOrdering(Nat)
<1>1. \A n \in Nat : 1 .. n \in FiniteSubsetsOf(Nat)
  <2> TAKE n \in Nat
  <2>1. IsFiniteSet(1 .. n) BY FS_Interval
  <2> QED BY <2>1 DEF FiniteSubsetsOf
<1>2. W \subseteq FiniteSubsetsOf(Nat) /\ W # {} BY <1>1
<1>3. IsWellFoundedOn(R, FiniteSubsetsOf(Nat)) BY FS_StrictSubsetOrderingWellFounded
<1>4. PICK X \in W : \A Y \in W : ~(<<Y, X>> \in R)
  <2> HIDE DEF W, R
  <2> QED BY <1>2, <1>3, WFMin
<1>5. PICK n \in T : X = 1 .. n OBVIOUS
<1>6. ASSUME NEW m \in T, m < n PROVE FALSE
  <2>1. 1 .. m \subseteq 1 .. n /\ 1 .. m # 1 .. n
    <3>1. n \in 1 .. n /\ n \notin 1 .. m BY <1>6
    <3> QED BY <1>6, <3>1
  <2>2. <<1 .. m, 1 .. n>> \in R BY <2>1 DEF StrictSubsetOrdering
  <2> QED BY <1>4, <1>5, <2>2
<1> QED BY <1>6

(* f has the values of a loop over 1 .. N that starts from a and steps by  *)
(* s, by the number of rounds; there is always such an f.                  *)
IsLoop(f, N, a, s) == f[0] = a /\ \A n \in 1 .. N : f[n] = s[n][f[n - 1]]

LEMMA LoopExists ==
  ASSUME NEW N \in Nat, NEW S, NEW a \in S, NEW s \in [1 .. N -> [S -> S]]
  PROVE  \E f \in [0 .. N -> S] : IsLoop(f, N, a, s)
<1> USE DEF IsLoop
<1> DEFINE Upto(M) == \E f \in [0 .. M -> S] : f[0] = a /\ \A n \in 1 .. M : f[n] = s[n][f[n - 1]]
           T == {M \in 0 .. N : ~Upto(M)}
<1>1. CASE T = {}
  <2>1. N \in 0 .. N OBVIOUS
  <2>2. Upto(N) BY <1>1, <2>1
  <2> QED BY <2>2
<1>2. CASE T # {}
  <2>1. PICK M \in T : \A m \in T : M <= m
    <3>1. T \in SUBSET Nat OBVIOUS
    <3> HIDE DEF T
    <3> QED BY <1>2, <3>1, Least
  <2>2. M # 0
    <3>1. [n \in 0 .. 0 |-> a] \in [0 .. 0 -> S] OBVIOUS
    <3>2. Upto(0)
      <4>1. PICK f \in [0 .. 0 -> S] : f = [n \in 0 .. 0 |-> a] BY <3>1
      <4>2. f[0] = a BY <4>1
      <4> QED BY <4>2
    <3> QED BY <2>1, <3>2
  <2>3. M - 1 \in 0 .. N /\ M - 1 \notin T BY <2>1, <2>2
  <2>4. PICK f \in [0 .. M - 1 -> S] : f[0] = a /\ \A n \in 1 .. M - 1 : f[n] = s[n][f[n - 1]]
    BY <2>3
  <2> DEFINE g == [n \in 0 .. M |-> IF n = M THEN s[M][f[M - 1]] ELSE f[n]]
  <2>5. s[M][f[M - 1]] \in S
    <3>1. f[M - 1] \in S /\ M \in 1 .. N BY <2>2, <2>3
    <3> QED BY <3>1
  <2>6. g \in [0 .. M -> S] BY <2>5
  <2>7. g[0] = a BY <2>2, <2>4
  <2>8. ASSUME NEW n \in 1 .. M PROVE g[n] = s[n][g[n - 1]]
    <3>1. n - 1 \in 0 .. M - 1 /\ g[n - 1] = f[n - 1] BY <2>8
    <3>2. CASE n = M BY <3>1, <3>2
    <3>3. CASE n # M BY <2>4, <3>1, <3>3
    <3> QED BY <3>2, <3>3
  <2>9. Upto(M)
    <3> HIDE DEF g
    <3> QED BY <2>6, <2>7, <2>8
  <2> QED BY <2>1, <2>9
<1> QED BY <1>1, <1>2

=============================================================================
