--------------------------- MODULE FontMatchProofs ---------------------------
(***************************************************************************)
(* Proof that the choice of a font is what it promises, for any files and  *)
(* tables, any patterns, and any number of calls: names are the preferred  *)
(* ones, sorting loses no font, and the font that is chosen is a closest   *)
(* one of the first family there is.                                       *)
(***************************************************************************)
EXTENDS FontMatchInv, NatLemmas

-----------------------------------------------------------------------------
(* The loop of readNameTable.                                              *)

(* The best record among the first n, 0 if there is none that is usable.   *)
Foremost(t, id, n, b) ==
  IF b = 0 THEN \A m \in 1 .. n : ~Usable(t[m], id)
  ELSE /\ b \in 1 .. n /\ Usable(t[b], id)
       /\ \A m \in 1 .. n : Usable(t[m], id) =>
            Priority(t[b]) > Priority(t[m]) \/ (Priority(t[b]) = Priority(t[m]) /\ b <= m)

LEMMA PriorityType == ASSUME NEW r PROVE Priority(r) \in 0 .. 4
BY DEF Priority

(* One round keeps the best.                                               *)
LEMMA ForemostStep ==
  ASSUME NEW t, NEW id, NEW n \in Nat \ {0}, NEW b \in 0 .. n - 1, Foremost(t, id, n - 1, b)
  PROVE  Foremost(t, id, n, IF Usable(t[n], id) /\ (b = 0 \/ Better(t[n], Priority(t[b])))
                            THEN n ELSE b)
<1>1. \A m : Priority(t[m]) \in 0 .. 4 BY PriorityType
<1>2. \A m \in 1 .. n : m \in 1 .. n - 1 \/ m = n OBVIOUS
<1>3. n \in 1 .. n /\ b \in 0 .. n OBVIOUS
<1>4. CASE Usable(t[n], id) /\ (b = 0 \/ Better(t[n], Priority(t[b])))
  <2>1. n # 0 OBVIOUS
  <2>2. ASSUME NEW m \in 1 .. n, Usable(t[m], id)
        PROVE  Priority(t[n]) > Priority(t[m]) \/ (Priority(t[n]) = Priority(t[m]) /\ n <= m)
    <3>1. CASE m = n BY <1>1, <3>1
    <3>2. CASE m \in 1 .. n - 1 /\ b = 0 BY <2>2, <3>2 DEF Foremost
    <3>3. CASE m \in 1 .. n - 1 /\ b # 0
      <4>1. Priority(t[b]) >= Priority(t[m]) BY <1>1, <2>2, <3>3 DEF Foremost
      <4>2. Priority(t[n]) > Priority(t[b]) BY <1>4, <3>3 DEF Better
      <4> QED BY <1>1, <4>1, <4>2
    <3> QED BY <1>2, <3>1, <3>2, <3>3
  <2> QED BY <1>3, <1>4, <2>1, <2>2 DEF Foremost
<1>5. CASE ~(Usable(t[n], id) /\ (b = 0 \/ Better(t[n], Priority(t[b]))))
  <2>1. CASE b = 0 BY <1>2, <1>5, <2>1 DEF Foremost
  <2>2. CASE b # 0
    <3>1. Usable(t[n], id) => Priority(t[n]) <= Priority(t[b]) BY <1>1, <1>5, <2>2 DEF Better
    <3>2. b \in 1 .. n - 1 /\ Usable(t[b], id) BY <2>2 DEF Foremost
    <3>3. ASSUME NEW m \in 1 .. n, Usable(t[m], id)
          PROVE  Priority(t[b]) > Priority(t[m]) \/ (Priority(t[b]) = Priority(t[m]) /\ b <= m)
      <4>1. CASE m = n BY <1>1, <3>1, <3>2, <3>3, <4>1
      <4>2. CASE m \in 1 .. n - 1 BY <2>2, <3>3, <4>2 DEF Foremost
      <4> QED BY <1>2, <4>1, <4>2
    <3> QED BY <1>5, <2>2, <3>2, <3>3 DEF Foremost
  <2> QED BY <2>1, <2>2
<1> QED BY <1>4, <1>5

(* What the loop ends with is the best of all records.                     *)
LEMMA BestFacts ==
  ASSUME NEW S, NEW t \in Seq(S), NEW id
  PROVE  Best(t, id) \in 0 .. Len(t) /\ Foremost(t, id, Len(t), Best(t, id))
<1> DEFINE N == Len(t)
           pick(n, b) == IF Usable(t[n], id) /\ (b = 0 \/ Better(t[n], Priority(t[b]))) THEN n ELSE b
           s == [n \in 1 .. N |-> [b \in 0 .. N |-> pick(n, b)]]
           Rec(f) == f = [n \in 0 .. N |-> IF n = 0 THEN 0 ELSE pick(n, f[n - 1])]
<1>0. N \in Nat OBVIOUS
<1>1. s \in [1 .. N -> [0 .. N -> 0 .. N]] OBVIOUS
<1>2. \E f : Rec(f)
  <2>1. PICK f \in [0 .. N -> 0 .. N] : f[0] = 0 /\ \A n \in 1 .. N : f[n] = s[n][f[n - 1]]
    <3>1. 0 \in 0 .. N BY <1>0
    <3>2. PICK R : R = 0 .. N OBVIOUS
    <3>3. s \in [1 .. N -> [R -> R]] /\ 0 \in R BY <1>1, <3>1, <3>2
    <3>4. \E f \in [0 .. N -> R] : IsLoop(f, N, 0, s)
      <4> HIDE DEF s, N
      <4> QED BY <1>0, <3>3, LoopExists
    <3> QED BY <3>2, <3>4 DEF IsLoop
  <2>2. ASSUME NEW n \in 0 .. N PROVE f[n] = IF n = 0 THEN 0 ELSE pick(n, f[n - 1])
    <3>1. CASE n = 0 BY <2>1, <3>1
    <3>2. CASE n # 0
      <4>1. n \in 1 .. N /\ n - 1 \in 0 .. N BY <1>0, <3>2
      <4>2. f[n - 1] \in 0 .. N BY <4>1
      <4>3. s[n][f[n - 1]] = pick(n, f[n - 1]) BY <4>1, <4>2
      <4> HIDE DEF s, pick
      <4> QED BY <2>1, <3>2, <4>1, <4>3
    <3> QED BY <3>1, <3>2
  <2>3. Rec(f)
    <3> HIDE DEF pick, N
    <3> QED BY <2>2
  <2> QED BY <2>3
<1>3. PICK f : Rec(f) /\ Best(t, id) = f[N]
  <2>1. PICK f : f = CHOOSE g : Rec(g) OBVIOUS
  <2>2. Rec(f)
    <3> HIDE DEF Rec
    <3> QED BY <1>2, <2>1
  <2>3. Best(t, id) = f[N] BY <2>1 DEF Best
  <2> QED BY <2>2, <2>3
<1> DEFINE Good(n) == f[n] \in 0 .. n /\ Foremost(t, id, n, f[n])
           T == {n \in 0 .. N : ~Good(n)}
<1>4. CASE T = {}
  <2>1. Good(N) BY <1>0, <1>4
  <2> QED BY <1>3, <2>1
<1>5. CASE T # {}
  <2>1. PICK n \in T : \A m \in T : n <= m
    <3>1. T \in SUBSET Nat OBVIOUS
    <3> HIDE DEF T
    <3> QED BY <1>5, <3>1, Least
  <2>2. n \in 0 .. N /\ ~Good(n) OBVIOUS
  <2>3. CASE n = 0
    <3>1. f[0] = 0 BY <1>0, <1>3
    <3> QED BY <2>2, <2>3, <3>1 DEF Foremost
  <2>4. CASE n # 0
    <3>1. n - 1 \in 0 .. N /\ n - 1 \notin T BY <2>1, <2>2, <2>4
    <3>2. f[n - 1] \in 0 .. n - 1 /\ Foremost(t, id, n - 1, f[n - 1]) BY <3>1
    <3>3. f[n] = pick(n, f[n - 1]) BY <1>3, <2>2, <2>4
    <3>4. Foremost(t, id, n, pick(n, f[n - 1]))
      <4>1. n \in Nat \ {0} BY <2>2, <2>4
      <4> QED BY <3>2, <4>1, ForemostStep
    <3>5. f[n] \in 0 .. n
      <4>1. n \in Nat \ {0} BY <2>2, <2>4
      <4> QED BY <3>2, <3>3, <4>1
    <3>6. Foremost(t, id, n, f[n]) BY <3>3, <3>4
    <3> QED BY <2>2, <3>5, <3>6
  <2> QED BY <2>3, <2>4
<1> QED BY <1>4, <1>5

(* The text found for a family is that of the foremost record; a file that *)
(* is accepted has one.                                                    *)
LEMMA FamilyFacts ==
  ASSUME NEW f \in AllFiles, table[f] \in Tables[f], Accepted(f)
  PROVE  /\ Family(f) \in Names \ {""}
         /\ \E n \in DOMAIN table[f] :
              Family(f) = table[f][n].text /\ Foremost(table[f], 1, Len(table[f]), n)
<1> DEFINE t == table[f]
           b == Best(t, 1)
<1>1. t \in Seq({t[i] : i \in DOMAIN t}) /\ \A i \in DOMAIN t : t[i].name = 1 => t[i].text \in Names
  BY FontMatchAssumption
<1>2. b \in 0 .. Len(t) /\ Foremost(t, 1, Len(t), b)
  <2> HIDE DEF t
  <2> QED BY <1>1, BestFacts
<1>3. b # 0 /\ Family(f) = t[b].text BY DEF Accepted, Family, TextOf
<1>4. b \in DOMAIN t
  <2> HIDE DEF t, b
  <2> QED BY <1>1, <1>2, <1>3
<1>5. t[b].name = 1 BY <1>2, <1>3 DEF Foremost, Usable
<1> QED BY <1>1, <1>2, <1>3, <1>4, <1>5 DEF Accepted

-----------------------------------------------------------------------------
(* Sorting.                                                                *)

LEMMA ScoreType == ASSUME NEW f, NEW p PROVE scoreStyle(f, p) \in Nat
<1> DEFINE X == {s \in {"bold", "italic"} : (s \in Style(f)) # (s \in p.style)}
<1>1. IsFiniteSet({"bold", "italic"})
  <2>1. IsFiniteSet({"bold"}) BY FS_Singleton
  <2>2. IsFiniteSet({"bold"} \cup {"italic"}) BY <2>1, FS_AddElement
  <2>3. {"bold", "italic"} = {"bold"} \cup {"italic"} OBVIOUS
  <2> QED BY <2>2, <2>3
<1>2. X \subseteq {"bold", "italic"} OBVIOUS
<1>3. Cardinality(X) \in Nat
  <2> HIDE DEF X
  <2>1. IsFiniteSet(X) BY <1>1, <1>2, FS_Subset
  <2> QED BY <2>1, FS_CardinalityType
<1> QED BY <1>3 DEF scoreStyle

(* o sorts the first M of the numbers c, and is stable.                    *)
InOrder(c, i, j) == c[i] < c[j] \/ (c[i] = c[j] /\ i <= j)
Sorts(o, M, c) ==
  /\ o \in [1 .. M -> 1 .. M]
  /\ \A i, j \in 1 .. M : o[i] = o[j] => i = j
  /\ \A n \in 1 .. M : \E i \in 1 .. M : o[i] = n
  /\ \A i, j \in 1 .. M : i <= j => InOrder(c, o[i], o[j])

(* One more number goes in before the first that is greater.               *)
LEMMA SortsStep ==
  ASSUME NEW N \in Nat, NEW c \in [1 .. N -> Nat], NEW M \in 1 .. N, NEW o, Sorts(o, M - 1, c)
  PROVE  \E g : Sorts(g, M, c)
<1> DEFINE T == {i \in 1 .. M : i = M \/ c[o[i]] > c[M]}
<1>0. /\ M \in Nat /\ M >= 1 /\ \A i \in 1 .. M : c[i] \in Nat
      /\ \A i \in 1 .. M - 1 : o[i] \in 1 .. M - 1
  <2>1. M \in Nat /\ M >= 1 /\ \A i \in 1 .. M : i \in 1 .. N OBVIOUS
  <2>2. o \in [1 .. M - 1 -> 1 .. M - 1] BY Zenon DEF Sorts
  <2>3. \A i \in 1 .. M : c[i] \in Nat BY <2>1
  <2> QED BY <2>1, <2>2, <2>3
<1>1. PICK k \in T : \A i \in T : k <= i
  <2>0. M \in T BY <1>0
  <2>1. T # {} BY <2>0
  <2>2. T \in SUBSET Nat BY <1>0
  <2> HIDE DEF T
  <2> QED BY <2>1, <2>2, Least
<1>2. k \in 1 .. M OBVIOUS
<1> DEFINE g == [i \in 1 .. M |-> IF i < k THEN o[i] ELSE IF i = k THEN M ELSE o[i - 1]]
<1>3. \A i \in 1 .. M : /\ i < k => i \in 1 .. M - 1 /\ g[i] = o[i]
                        /\ i = k => g[i] = M
                        /\ i > k => i - 1 \in 1 .. M - 1 /\ i - 1 >= k /\ g[i] = o[i - 1]
  BY <1>0, <1>2
<1>4. \A i \in 1 .. M : g[i] \in 1 .. M
  BY <1>0, <1>2, <1>3
<1>5. g \in [1 .. M -> 1 .. M]
  <2>1. DOMAIN g = 1 .. M /\ g = [i \in 1 .. M |-> g[i]] OBVIOUS
  <2> HIDE DEF g
  <2> QED BY <1>4, <2>1
<1> HIDE DEF g
<1>6. ASSUME NEW i \in 1 .. M, NEW j \in 1 .. M, g[i] = g[j] PROVE i = j
  <2>1. i < k \/ i = k \/ i > k BY <1>2
  <2>2. j < k \/ j = k \/ j > k BY <1>2
  <2>3. \A a, b \in 1 .. M - 1 : o[a] = o[b] => a = b BY DEF Sorts
  <2>4. \A a \in 1 .. M - 1 : o[a] # M BY <1>0
  <2>5. CASE i = k \/ j = k BY <1>3, <1>6, <2>1, <2>2, <2>4, <2>5
  <2>6. CASE i < k /\ j > k
    <3>1. i = j - 1 BY <1>3, <1>6, <2>3, <2>6
    <3> QED BY <1>2, <1>3, <2>6, <3>1
  <2>7. CASE i > k /\ j < k
    <3>1. i - 1 = j BY <1>3, <1>6, <2>3, <2>7
    <3> QED BY <1>2, <1>3, <2>7, <3>1
  <2>8. CASE i < k /\ j < k BY <1>3, <1>6, <2>3, <2>8
  <2>9. CASE i > k /\ j > k
    <3>1. i - 1 = j - 1 BY <1>3, <1>6, <2>3, <2>9
    <3> QED BY <3>1
  <2> QED BY <2>1, <2>2, <2>5, <2>6, <2>7, <2>8, <2>9
<1>7. ASSUME NEW n \in 1 .. M PROVE \E i \in 1 .. M : g[i] = n
  <2>1. CASE n = M BY <1>2, <1>3, <2>1
  <2>2. CASE n # M
    <3>1. PICK i \in 1 .. M - 1 : o[i] = n
      <4>1. n \in 1 .. M - 1 BY <2>2
      <4> QED BY <4>1 DEF Sorts
    <3>2. CASE i < k
      <4>1. i \in 1 .. M /\ g[i] = o[i] BY <1>0, <1>3, <3>2
      <4> QED BY <3>1, <4>1
    <3>3. CASE ~(i < k)
      <4>1. i + 1 \in 1 .. M /\ i + 1 > k /\ (i + 1) - 1 = i BY <1>0, <1>2, <3>3
      <4>2. g[i + 1] = o[i] BY <1>3, <4>1
      <4> QED BY <3>1, <4>1, <4>2
    <3> QED BY <3>2, <3>3
  <2> QED BY <2>1, <2>2
<1>8. ASSUME NEW i \in 1 .. M, NEW j \in 1 .. M, i <= j PROVE InOrder(c, g[i], g[j])
  <2>0. \A a, b \in 1 .. M - 1 : a <= b => InOrder(c, o[a], o[b]) BY DEF Sorts
  <2>1. \A a \in 1 .. M - 1 : o[a] \in 1 .. M /\ c[o[a]] \in Nat /\ c[M] \in Nat
    BY <1>0
  <2>2. CASE i < k /\ j < k
    <3>1. InOrder(c, o[i], o[j]) BY <1>3, <1>8, <2>0, <2>2
    <3> QED BY <1>3, <2>2, <3>1
  <2>3. CASE i < k /\ j = k
    <3>1. i \notin T BY <1>1, <2>3
    <3>2. c[o[i]] <= c[M] /\ o[i] <= M BY <1>0, <1>3, <2>1, <2>3, <3>1
    <3>3. g[i] = o[i] /\ g[j] = M BY <1>3, <2>3
    <3> QED BY <1>3, <2>1, <2>3, <3>2, <3>3 DEF InOrder
  <2>4. CASE i < k /\ j > k
    <3>1. i <= j - 1 BY <1>2, <2>4
    <3>2. InOrder(c, o[i], o[j - 1]) BY <1>3, <2>0, <2>4, <3>1
    <3> QED BY <1>3, <2>4, <3>2
  <2>5. CASE i = k /\ j = k
    <3>1. g[i] = M /\ g[j] = M BY <1>3, <2>5
    <3> QED BY <1>0, <3>1 DEF InOrder
  <2>6. CASE i = k /\ j > k
    <3>1. k \in 1 .. M - 1 /\ j - 1 \in 1 .. M - 1 /\ k <= j - 1 BY <1>2, <1>3, <2>6
    <3>2. c[o[k]] > c[M] BY <3>1
    <3>3. InOrder(c, o[k], o[j - 1]) BY <2>0, <3>1
    <3>4. c[o[j - 1]] > c[M] BY <2>1, <3>1, <3>2, <3>3 DEF InOrder
    <3>5. g[i] = M /\ g[j] = o[j - 1] BY <1>3, <2>6
    <3> QED BY <2>1, <3>1, <3>4, <3>5 DEF InOrder
  <2>7. CASE i > k /\ j > k
    <3>1. i - 1 <= j - 1 BY <1>8
    <3>2. InOrder(c, o[i - 1], o[j - 1]) BY <1>3, <2>0, <2>7, <3>1
    <3> QED BY <1>3, <2>7, <3>2
  <2>8. i < k \/ i = k \/ i > k BY <1>2
  <2>9. j < k \/ j = k \/ j > k BY <1>2
  <2>10. ~(i > k /\ j = k) /\ ~(i > k /\ j < k) /\ ~(i = k /\ j < k) BY <1>2, <1>8
  <2> QED BY <2>2, <2>3, <2>4, <2>5, <2>6, <2>7, <2>8, <2>9, <2>10
<1>9. Sorts(g, M, c) BY <1>5, <1>6, <1>7, <1>8 DEF Sorts
<1> QED BY <1>9

LEMMA SortExists ==
  ASSUME NEW N \in Nat, NEW c \in [1 .. N -> Nat]
  PROVE  \E o : Sorts(o, N, c)
<1> DEFINE T == {M \in 0 .. N : ~\E o : Sorts(o, M, c)}
<1>1. CASE T = {}
  <2>1. N \in 0 .. N OBVIOUS
  <2> QED BY <1>1, <2>1
<1>2. CASE T # {}
  <2>1. PICK M \in T : \A m \in T : M <= m
    <3>1. T \in SUBSET Nat OBVIOUS
    <3> HIDE DEF T
    <3> QED BY <1>2, <3>1, Least
  <2>2. M \in 0 .. N /\ ~\E o : Sorts(o, M, c) OBVIOUS
  <2>3. CASE M = 0
    <3>1. Sorts([i \in 1 .. 0 |-> i], 0, c) BY DEF Sorts
    <3> QED BY <2>2, <2>3, <3>1
  <2>4. CASE M # 0
    <3>1. M - 1 \in 0 .. N /\ M - 1 \notin T /\ M \in 1 .. N BY <2>1, <2>2, <2>4
    <3>2. PICK o : Sorts(o, M - 1, c) BY <3>1
    <3> QED BY <2>2, <3>1, <3>2, SortsStep
  <2> QED BY <2>3, <2>4
<1> QED BY <1>1, <1>2

(* A sorted list is a rearrangement; the first of it is a closest one, and *)
(* the first of all the closest.                                           *)
SortOf(l, p, s) ==
  /\ s \in Seq(AllFiles) /\ Len(s) = Len(l)
  /\ {s[i] : i \in 1 .. Len(l)} = {l[i] : i \in 1 .. Len(l)}
  /\ (\A i, j \in 1 .. Len(l) : l[i] = l[j] => i = j)
       => \A i, j \in 1 .. Len(l) : s[i] = s[j] => i = j
  /\ \A i \in 1 .. Len(l) : scoreStyle(s[1], p) <= scoreStyle(l[i], p)
  /\ (l # <<>> /\ \A i \in 1 .. Len(l) : scoreStyle(l[1], p) <= scoreStyle(l[i], p))
       => s[1] = l[1]

LEMMA SortedFacts ==
  ASSUME NEW l \in Seq(AllFiles), NEW p
  PROVE  SortOf(l, p, Sorted(l, p))
<1> DEFINE N == Len(l)
           c == [i \in 1 .. N |-> scoreStyle(l[i], p)]
<1>1. N \in Nat /\ DOMAIN l = 1 .. N OBVIOUS
<1>2. c \in [1 .. N -> Nat] BY ScoreType
<1>3. PICK r : Sorts(r, N, c)
  <2> HIDE DEF c, N
  <2> QED BY <1>1, <1>2, SortExists
<1>4. r \in Bijection(DOMAIN l, DOMAIN l)
  BY <1>1, <1>3 DEF Sorts, Bijection, Injection, Surjection, IsInjective
<1>5. \A i \in 1 .. N : c[i] = scoreStyle(l[i], p) OBVIOUS
<1>6. Ordered(l, p, r)
  <2>1. \A i, j \in 1 .. N : i <= j => InOrder(c, r[i], r[j]) BY <1>3, Zenon DEF Sorts
  <2>2. \A i \in 1 .. N : r[i] \in 1 .. N
    <3>1. r \in [1 .. N -> 1 .. N] BY <1>3, Zenon DEF Sorts
    <3> QED BY <3>1
  <2> HIDE DEF c, N
  <2>3. \A i, j \in 1 .. N : i <= j => Before(l, p, r[i], r[j])
    <3> TAKE i, j \in 1 .. N
    <3> HAVE i <= j
    <3>1. InOrder(c, r[i], r[j]) BY <2>1
    <3>2. c[r[i]] = scoreStyle(l[r[i]], p) /\ c[r[j]] = scoreStyle(l[r[j]], p) BY <1>5, <2>2
    <3> QED BY <3>1, <3>2 DEF InOrder, Before
  <2> QED BY <1>1, <2>3 DEF Ordered
<1>7. PICK o \in Bijection(DOMAIN l, DOMAIN l) :
        Ordered(l, p, o) /\ Sorted(l, p) = [i \in DOMAIN l |-> l[o[i]]]
  BY <1>4, <1>6 DEF Sorted
<1>8. /\ o \in [1 .. N -> 1 .. N]
      /\ \A i, j \in 1 .. N : o[i] = o[j] => i = j
      /\ \A n \in 1 .. N : \E i \in 1 .. N : o[i] = n
  BY <1>1, <1>7 DEF Bijection, Injection, Surjection, IsInjective
<1> DEFINE s == Sorted(l, p)
<1>9. \A i \in 1 .. N : s[i] = l[o[i]] /\ o[i] \in 1 .. N BY <1>1, <1>7, <1>8
<1>10. s \in Seq(AllFiles) /\ Len(s) = N
  <2>1. s = [i \in 1 .. N |-> l[o[i]]] BY <1>1, <1>7
  <2>2. \A i \in 1 .. N : l[o[i]] \in AllFiles BY <1>1, <1>9
  <2> HIDE DEF s, N
  <2> QED BY <1>1, <2>1, <2>2
<1>11. \A i, j \in 1 .. N : i <= j => Before(l, p, o[i], o[j])
  BY <1>1, <1>7 DEF Ordered
<1> HIDE DEF s, N, c
<1>12. {s[i] : i \in 1 .. N} = {l[i] : i \in 1 .. N}
  <2>1. ASSUME NEW n \in 1 .. N PROVE \E i \in 1 .. N : l[n] = s[i]
    <3>1. PICK i \in 1 .. N : o[i] = n BY <1>8
    <3>2. s[i] = l[n] BY <1>9, <3>1
    <3> QED BY <3>2
  <2>2. ASSUME NEW i \in 1 .. N PROVE \E n \in 1 .. N : s[i] = l[n] BY <1>9
  <2>3. {l[i] : i \in 1 .. N} \subseteq {s[i] : i \in 1 .. N} BY <2>1, Zenon
  <2>4. {s[i] : i \in 1 .. N} \subseteq {l[i] : i \in 1 .. N} BY <2>2, Zenon
  <2> QED BY <2>3, <2>4, Zenon
<1>13. ASSUME \A i, j \in 1 .. N : l[i] = l[j] => i = j,
              NEW i \in 1 .. N, NEW j \in 1 .. N, s[i] = s[j]
       PROVE  i = j
  <2>1. l[o[i]] = l[o[j]] /\ o[i] \in 1 .. N /\ o[j] \in 1 .. N BY <1>9, <1>13
  <2>2. o[i] = o[j] BY <1>13, <2>1
  <2> QED BY <1>8, <2>2
<1>14. ASSUME NEW i \in 1 .. N PROVE scoreStyle(s[1], p) <= scoreStyle(l[i], p)
  <2>1. PICK n \in 1 .. N : o[n] = i BY <1>8
  <2>2. 1 \in 1 .. N /\ 1 <= n BY <1>1
  <2>3. Before(l, p, o[1], i) BY <1>11, <2>1, <2>2
  <2>4. s[1] = l[o[1]] BY <1>9, <2>2
  <2> QED BY <2>3, <2>4, ScoreType DEF Before
<1>15. ASSUME l # <<>>, \A i \in 1 .. N : scoreStyle(l[1], p) <= scoreStyle(l[i], p)
       PROVE  s[1] = l[1]
  <2>1. 1 \in 1 .. N BY <1>1, <1>15 DEF N
  <2>2. PICK n \in 1 .. N : o[n] = 1 BY <1>8, <2>1
  <2>3. 1 <= n /\ o[1] \in 1 .. N BY <1>9, <2>1
  <2>4. Before(l, p, o[1], 1) BY <1>11, <2>1, <2>2, <2>3
  <2>5. scoreStyle(l[1], p) <= scoreStyle(l[o[1]], p) BY <1>15, <2>3
  <2>6. o[1] <= 1
    <3>1. scoreStyle(l[1], p) \in Nat /\ scoreStyle(l[o[1]], p) \in Nat BY ScoreType
    <3> QED BY <2>4, <2>5, <3>1 DEF Before
  <2>7. o[1] = 1 BY <1>1, <2>3, <2>6
  <2> QED BY <1>9, <2>1, <2>7
<1> QED BY <1>10, <1>12, <1>13, <1>14, <1>15 DEF s, N, SortOf

-----------------------------------------------------------------------------
(* Patterns, lists and candidates.                                         *)

(* The families a pattern tries, and their keys.                           *)
Fams(s) == <<s.families[1]>> \o genericAliases[lower[s.families[1]]]

LEMMA TriedFacts ==
  ASSUME NEW s \in Patterns
  PROVE  /\ s.families[1] \in Names /\ lower[s.families[1]] \in Keys
         /\ Fams(s) \in Seq(Names) /\ 1 \in DOMAIN Fams(s) /\ Fams(s)[1] = s.families[1]
         /\ DOMAIN Tried(ParsePattern(s)) = DOMAIN Fams(s)
         /\ \A i \in DOMAIN Fams(s) :
              Tried(ParsePattern(s))[i] = lower[Fams(s)[i]] /\ lower[Fams(s)[i]] \in Keys
<1>1. s.families \in Seq(Names) /\ s.families # <<>> BY FontMatchAssumption
<1>2. s.families[1] \in Names BY <1>1
<1>3. \A n \in Names : lower[n] \in Keys BY DEF Keys
<1>4. genericAliases[lower[s.families[1]]] \in Seq(Names)
  <2>1. lower[s.families[1]] \in Keys BY <1>2, <1>3
  <2> QED BY <2>1, FontMatchAssumption
<1>5. Fams(s) \in Seq(Names) /\ 1 \in DOMAIN Fams(s) /\ Fams(s)[1] = s.families[1]
  BY <1>2, <1>4 DEF Fams
<1>6. ParsePattern(s).family = s.families[1] BY <1>1 DEF ParsePattern
<1>7. Tried(ParsePattern(s)) = [i \in DOMAIN Fams(s) |-> lower[Fams(s)[i]]]
  BY <1>6 DEF Tried, Fams
<1>8. \A i \in DOMAIN Fams(s) : Fams(s)[i] \in Names BY <1>5
<1> QED BY <1>2, <1>3, <1>5, <1>7, <1>8

(* What the options ask for, said in two ways.                             *)
LEMMA AsksIs == ASSUME NEW s PROVE Asks(s) = ParsePattern(s).style
BY DEF Asks, ParsePattern, saysBold, saysItalic

LEMMA DiffersIs ==
  ASSUME NEW f, NEW p, p.style \subseteq {"bold", "italic"}
  PROVE  Differs(f, p.style) = scoreStyle(f, p)
<1>1. (Style(f) \cup p.style) \ (Style(f) \cap p.style)
        = {s \in {"bold", "italic"} : (s \in Style(f)) # (s \in p.style)}
  <2>1. Style(f) \subseteq {"bold", "italic"} BY DEF Style
  <2> QED BY <2>1
<1> QED BY <1>1 DEF Differs, scoreStyle

LEMMA StyleType == ASSUME NEW s PROVE ParsePattern(s).style \subseteq {"bold", "italic"}
BY DEF ParsePattern

(* The lists have the candidates.                                          *)
LEMMA CandidatesAre ==
  ASSUME TypeOK, ListsWhole, NEW key \in Keys
  PROVE  /\ byFam[key] # <<>> => /\ key \in Like(key)
                                 /\ Candidates(key) = {byFam[key][i] : i \in DOMAIN byFam[key]}
         /\ byFam[key] = <<>> =>
              Candidates(key) = {f \in Database : lower[Family(f)] \in Like(key)}
         /\ (Like(key) = {}) = (Candidates(key) = {})
<1>1. \A k \in Keys : /\ byFam[k] \in Seq(AllFiles)
                      /\ {byFam[k][i] : i \in DOMAIN byFam[k]} = {f \in Database : lower[Family(f)] = k}
  BY DEF TypeOK, ListsWhole
<1>2. \A k \in Keys : (byFam[k] = <<>>) = ({f \in Database : lower[Family(f)] = k} = {})
  <2> TAKE k \in Keys
  <2>1. (byFam[k] = <<>>) = ({byFam[k][i] : i \in DOMAIN byFam[k]} = {})
    <3>1. CASE byFam[k] = <<>> BY <3>1
    <3>2. CASE byFam[k] # <<>>
      <4>1. 1 \in DOMAIN byFam[k] BY <1>1, <3>2
      <4> QED BY <3>2, <4>1
    <3> QED BY <3>1, <3>2
  <2> QED BY <1>1, <2>1
<1>3. byFam[key] # <<>> =>
        key \in Like(key) /\ Candidates(key) = {byFam[key][i] : i \in DOMAIN byFam[key]}
  BY <1>1, <1>2, FontMatchAssumption DEF Like, Candidates
<1>4. \A f \in Database : lower[Family(f)] \in Keys
  BY DEF TypeOK, Keys
<1>5. \A k \in Keys : (k \in Like(key)) = (byFam[k] # <<>> /\ <<k, key>> \in startsWith)
  BY DEF Like
<1>6. ASSUME byFam[key] = <<>>
      PROVE  Candidates(key) = {f \in Database : lower[Family(f)] \in Like(key)}
  <2>1. Candidates(key) = {f \in Database : <<lower[Family(f)], key>> \in startsWith}
    BY <1>2, <1>6 DEF Candidates
  <2>2. ASSUME NEW f \in Database
        PROVE  (lower[Family(f)] \in Like(key)) = (<<lower[Family(f)], key>> \in startsWith)
    <3>1. PICK k \in Keys : k = lower[Family(f)] BY <1>4
    <3>2. byFam[k] # <<>> BY <1>2, <3>1
    <3> QED BY <1>5, <3>1, <3>2
  <2> QED BY <2>1, <2>2
<1>7. (Like(key) = {}) = (Candidates(key) = {})
  <2>1. CASE byFam[key] # <<>>
    <3>1. 1 \in DOMAIN byFam[key] BY <1>1, <2>1
    <3> QED BY <1>3, <2>1, <3>1
  <2>2. CASE byFam[key] = <<>>
    <3>1. ASSUME Like(key) # {} PROVE Candidates(key) # {}
      <4>1. PICK k \in Like(key) : k \in Keys /\ byFam[k] # <<>> BY <3>1 DEF Like
      <4>2. PICK f \in Database : lower[Family(f)] = k BY <1>2, <4>1
      <4> QED BY <1>6, <2>2, <4>1, <4>2
    <3>2. ASSUME Like(key) = {} PROVE Candidates(key) = {} BY <1>6, <2>2, <3>2
    <3> QED BY <3>1, <3>2
  <2> QED BY <2>1, <2>2
<1> QED BY <1>3, <1>6, <1>7

-----------------------------------------------------------------------------
(* One call of Match.                                                      *)

(* f is what Match promises for s.                                         *)
Closest(s, f) ==
  \/ \A i \in DOMAIN Fams(s) : Candidates(lower[Fams(s)[i]]) = {}
  \/ \E i \in DOMAIN Fams(s) :
       LET C == Candidates(lower[Fams(s)[i]]) IN
       /\ \A j \in 1 .. i - 1 : Candidates(lower[Fams(s)[j]]) = {}
       /\ f \in C
       /\ \A g \in C : scoreStyle(f, ParsePattern(s)) <= scoreStyle(g, ParsePattern(s))

LEMMA ClosestIs ==
  MatchIsClosest <=> (last.font # NoFont => Closest(last.p, last.font))
<1>1. \A f : Differs(f, Asks(last.p)) = scoreStyle(f, ParsePattern(last.p))
  BY AsksIs, StyleType, DiffersIs
<1> QED BY <1>1 DEF MatchIsClosest, Closest, Fams

(* The list of key is sorted for p.                                        *)
Sorts1(key, p) ==
  key \in Keys /\ byFam[key] # <<>> /\ byFam' = [byFam EXCEPT ![key] = Sorted(@, p)]

(* The first family with candidates is found as the code finds it.         *)
LEMMA FirstIs ==
  ASSUME TypeOK, ListsWhole, NEW s \in Patterns, NEW i \in DOMAIN Fams(s)
  PROVE  IsFirst(i, ParsePattern(s)) =
           /\ Candidates(lower[Fams(s)[i]]) # {}
           /\ \A j \in 1 .. i - 1 : Candidates(lower[Fams(s)[j]]) = {}
<1>1. \A j \in DOMAIN Fams(s) :
        /\ Tried(ParsePattern(s))[j] = lower[Fams(s)[j]] /\ lower[Fams(s)[j]] \in Keys
        /\ (Like(lower[Fams(s)[j]]) = {}) = (Candidates(lower[Fams(s)[j]]) = {})
  BY TriedFacts, CandidatesAre
<1>2. \A j \in 1 .. i - 1 : j \in DOMAIN Fams(s)
  <2>1. Fams(s) \in Seq(Names) BY TriedFacts
  <2> QED BY <2>1
<1> QED BY <1>1, <1>2 DEF IsFirst

(* Match answers from the list it sorts, from a copy of some lists, or     *)
(* with any font, and keeps its promise.                                   *)
LEMMA MatchFacts ==
  ASSUME MInv, NEW s \in Patterns, Match(s)
  PROVE  \E f \in Database :
           /\ Answer(s, f) /\ Closest(s, f)
           /\ LET k == lower[s.families[1]] IN
              IF byFam[k] # <<>>
              THEN Sorts1(k, ParsePattern(s)) /\ f = Sorted(byFam[k], ParsePattern(s))[1]
              ELSE UNCHANGED byFam \/ \E key \in Keys : Sorts1(key, ParsePattern(s))
<1>0. TypeOK /\ ListsWhole /\ Walked BY DEF MInv
<1>1. PICK p : p = ParsePattern(s) OBVIOUS
<1> DEFINE k == lower[s.families[1]]
<1>2. k \in Keys /\ 1 \in DOMAIN Fams(s) /\ lower[Fams(s)[1]] = k BY TriedFacts
<1>3. byFam[k] # <<>> => Candidates(k) # {}
  <2>1. byFam[k] # <<>> => k \in Like(k) BY <1>0, <1>2, CandidatesAre
  <2> QED BY <1>0, <1>2, <2>1, CandidatesAre
<1>4. CASE \E i \in DOMAIN Tried(p) :
             LET key == Tried(p)[i] IN
             /\ IsFirst(i, p)
             /\ \/ Exact(p, key) /\ Answer(s, Head(byFam'[key]))
                \/ /\ byFam[key] = <<>> /\ UNCHANGED byFam
                   /\ \E f \in Fuzzy(p, key) : Answer(s, f)
  <2>1. PICK i \in DOMAIN Tried(p) :
             /\ IsFirst(i, p)
             /\ \/ Exact(p, Tried(p)[i]) /\ Answer(s, Head(byFam'[Tried(p)[i]]))
                \/ /\ byFam[Tried(p)[i]] = <<>> /\ UNCHANGED byFam
                   /\ \E f \in Fuzzy(p, Tried(p)[i]) : Answer(s, f)
    BY <1>4
  <2>2. PICK key \in Keys : i \in DOMAIN Fams(s) /\ key = lower[Fams(s)[i]] /\ key = Tried(p)[i]
    BY <1>1, TriedFacts
  <2>3. Candidates(key) # {} /\ \A j \in 1 .. i - 1 : Candidates(lower[Fams(s)[j]]) = {}
    BY <1>0, <1>1, <2>1, <2>2, FirstIs
  <2>4. byFam[k] # <<>> => key = k
    <3>1. ASSUME byFam[k] # <<>>, i # 1 PROVE FALSE
      <4>1. 1 \in 1 .. i - 1
        <5>1. Fams(s) \in Seq(Names) BY TriedFacts
        <5> QED BY <2>2, <3>1, <5>1
      <4> QED BY <1>2, <1>3, <2>3, <3>1, <4>1
    <3> QED BY <1>2, <2>2, <3>1
  <2>5. byFam[key] \in Seq(AllFiles) /\ byFam \in [Keys -> Seq(AllFiles)] BY <1>0 DEF TypeOK
  <2>6. CASE Exact(p, key) /\ Answer(s, Head(byFam'[key]))
    <3>1. PICK l : l = Sorted(byFam[key], p) OBVIOUS
    <3>2. byFam'[key] = l /\ Sorts1(key, p) BY <2>5, <2>6, <3>1 DEF Exact, Sorts1
    <3>3. byFam[key] # <<>> BY <2>6 DEF Exact
    <3>4. /\ l \in Seq(AllFiles) /\ Len(l) = Len(byFam[key])
          /\ {l[n] : n \in 1 .. Len(byFam[key])} = {byFam[key][n] : n \in 1 .. Len(byFam[key])}
          /\ \A n \in 1 .. Len(byFam[key]) : scoreStyle(l[1], p) <= scoreStyle(byFam[key][n], p)
      <4>1. SortOf(byFam[key], p, l) BY <2>5, <3>1, SortedFacts
      <4> QED BY <4>1 DEF SortOf
    <3>5. Head(l) = l[1] /\ 1 \in 1 .. Len(byFam[key]) BY <2>5, <3>3, <3>4
    <3>6. Candidates(key) = {byFam[key][n] : n \in 1 .. Len(byFam[key])}
      <4>1. DOMAIN byFam[key] = 1 .. Len(byFam[key]) BY <2>5
      <4> QED BY <1>0, <3>3, <4>1, CandidatesAre
    <3>7. l[1] \in Candidates(key) /\ \A g \in Candidates(key) : scoreStyle(l[1], p) <= scoreStyle(g, p)
      BY <3>4, <3>5, <3>6
    <3>8. Closest(s, l[1]) BY <1>1, <2>2, <2>3, <3>7 DEF Closest
    <3>9. l[1] \in Database BY <3>7 DEF Candidates
    <3>10. Answer(s, l[1]) BY <2>6, <3>2, <3>5
    <3>11. CASE byFam[k] # <<>> BY <1>1, <2>4, <3>1, <3>2, <3>8, <3>9, <3>10, <3>11
    <3>12. CASE byFam[k] = <<>> BY <1>1, <3>2, <3>8, <3>9, <3>10, <3>12
    <3> QED BY <3>11, <3>12
  <2>7. CASE byFam[key] = <<>> /\ UNCHANGED byFam /\ \E f \in Fuzzy(p, key) : Answer(s, f)
    <3>1. PICK f \in Fuzzy(p, key) : Answer(s, f) BY <2>7
    <3>2. PICK c \in Like(key) : f = Head(Sorted(byFam[c], p)) BY <3>1 DEF Fuzzy
    <3>3. \A d \in Like(key) :
            /\ d \in Keys /\ byFam[d] # <<>> /\ byFam[d] \in Seq(AllFiles)
            /\ scoreStyle(f, p) <= scoreStyle(Head(Sorted(byFam[d], p)), p)
      BY <2>5, <3>1 DEF Fuzzy, Like
    <3>4. ASSUME NEW d \in Like(key)
          PROVE  /\ Head(Sorted(byFam[d], p)) = Sorted(byFam[d], p)[1]
                 /\ Sorted(byFam[d], p)[1] \in {byFam[d][n] : n \in DOMAIN byFam[d]}
                 /\ \A n \in DOMAIN byFam[d] :
                      scoreStyle(Sorted(byFam[d], p)[1], p) <= scoreStyle(byFam[d][n], p)
      <4>1. PICK m \in Seq(AllFiles) : m = byFam[d] /\ m # <<>> BY <3>3
      <4>2. PICK l : l = Sorted(m, p) OBVIOUS
      <4>3. /\ l \in Seq(AllFiles) /\ Len(l) = Len(m)
            /\ {l[n] : n \in 1 .. Len(m)} = {m[n] : n \in 1 .. Len(m)}
            /\ \A n \in 1 .. Len(m) : scoreStyle(l[1], p) <= scoreStyle(m[n], p)
        <5>1. SortOf(m, p, l) BY <4>2, SortedFacts
        <5> QED BY <5>1 DEF SortOf
      <4>4. 1 \in 1 .. Len(m) /\ Head(l) = l[1] /\ DOMAIN m = 1 .. Len(m) BY <4>1, <4>3
      <4>5. l[1] \in {m[n] : n \in DOMAIN m} BY <4>3, <4>4
      <4> QED BY <4>1, <4>2, <4>3, <4>4, <4>5
    <3>5. Candidates(key) = {g \in Database : lower[Family(g)] \in Like(key)}
      BY <1>0, <2>7, CandidatesAre
    <3>6. \A d \in Keys : {byFam[d][n] : n \in DOMAIN byFam[d]} = {g \in Database : lower[Family(g)] = d}
      BY <1>0 DEF ListsWhole
    <3>7. f \in Candidates(key) BY <3>2, <3>3, <3>4, <3>5, <3>6
    <3>8. ASSUME NEW g \in Candidates(key) PROVE scoreStyle(f, p) <= scoreStyle(g, p)
      <4>1. PICK d \in Like(key) : d = lower[Family(g)] /\ g \in Database BY <3>5
      <4>2. PICK n \in DOMAIN byFam[d] : byFam[d][n] = g BY <3>3, <3>6, <4>1
      <4>3. scoreStyle(Sorted(byFam[d], p)[1], p) <= scoreStyle(g, p) BY <3>4, <4>2
      <4>4. scoreStyle(f, p) <= scoreStyle(Sorted(byFam[d], p)[1], p) BY <3>3, <3>4
      <4>5. /\ scoreStyle(f, p) \in Nat /\ scoreStyle(g, p) \in Nat
            /\ scoreStyle(Sorted(byFam[d], p)[1], p) \in Nat
        BY ScoreType
      <4> QED BY <4>3, <4>4, <4>5
    <3>9. Closest(s, f) BY <1>1, <2>2, <2>3, <3>7, <3>8 DEF Closest
    <3>10. f \in Database BY <3>7 DEF Candidates
    <3>11. byFam[k] = <<>> BY <2>4, <2>7
    <3> QED BY <2>7, <3>1, <3>9, <3>10, <3>11
  <2> QED BY <2>1, <2>2, <2>6, <2>7
<1>5. CASE /\ \A i \in DOMAIN Tried(p) : Like(Tried(p)[i]) = {}
           /\ Answer(s, Head(Fonts)) /\ UNCHANGED byFam
  <2>1. Fonts \in Seq(AllFiles) /\ Fonts # <<>> BY <1>0 DEF TypeOK, Match
  <2>2. Head(Fonts) \in Database
    <3>1. 1 \in DOMAIN Fonts /\ Head(Fonts) = Fonts[1] BY <2>1
    <3> QED BY <3>1 DEF Database
  <2>3. \A i \in DOMAIN Fams(s) : Candidates(lower[Fams(s)[i]]) = {}
    <3> TAKE i \in DOMAIN Fams(s)
    <3>1. PICK key \in Keys : key = lower[Fams(s)[i]] /\ Tried(p)[i] = key /\ i \in DOMAIN Tried(p)
      BY <1>1, TriedFacts
    <3>2. Like(key) = {} BY <1>5, <3>1
    <3> QED BY <1>0, <3>1, <3>2, CandidatesAre
  <2>4. Closest(s, Head(Fonts)) BY <2>3 DEF Closest
  <2>5. byFam[k] = <<>> BY <1>2, <1>3, <2>3
  <2> QED BY <1>5, <2>2, <2>4, <2>5
<1> QED BY <1>1, <1>4, <1>5 DEF Match

-----------------------------------------------------------------------------
(* The inductive invariant.                                                *)

(* What only depends on the tables does not change.                        *)
LEMMA TableSame ==
  ASSUME table' = table
  PROVE  /\ \A f : Family(f)' = Family(f)
         /\ \A f, p : scoreStyle(f, p)' = scoreStyle(f, p)
<1>1. \A f, id : TextOf(f, id)' = TextOf(f, id) BY DEF TextOf
<1>2. \A f : Style(f)' = Style(f) BY <1>1 DEF Style
<1> QED BY <1>1, <1>2 DEF Family, scoreStyle

LEMMA InitInv == Init => MInv
<1> SUFFICES ASSUME Init PROVE MInv OBVIOUS
<1> USE DEF Init
<1>1. Len(Files) \in Nat BY FontMatchAssumption
<1>2. Database = {} BY DEF Database
<1>3. TypeOK
  <2>1. byFam \in [Keys -> Seq(AllFiles)] OBVIOUS
  <2>2. calls \in 0 .. MaxCalls BY FontMatchAssumption
  <2>3. at \in 1 .. Len(Files) + 1 /\ Fonts \in Seq(AllFiles)
    <3>1. at = 1 /\ Fonts = <<>> OBVIOUS
    <3> QED BY <1>1, <3>1
  <2>4. last.font = NoFont /\ answer \in [Patterns -> AllFiles \cup {NoFont}] BY DEF Nothing
  <2> QED BY <1>2, <2>1, <2>2, <2>3, <2>4, Zenon DEF TypeOK
<1>4. Walked BY <1>2 DEF Walked, Nothing
<1>5. ListsWhole BY <1>2 DEF ListsWhole
<1>6. Settled BY DEF Settled
<1> QED BY <1>3, <1>4, <1>5, <1>6 DEF MInv

(* scan: one more font, at the end of the list of its family.              *)
LEMMA ScanInv ==
  ASSUME MInv, scan
  PROVE  MInv'
<1> DEFINE f == Files[at]
<1>0. TypeOK /\ Walked /\ ListsWhole /\ Settled BY DEF MInv
<1>1. /\ Files \in Seq(AllFiles) /\ Len(Files) \in Nat /\ at \in 1 .. Len(Files)
      /\ at' = at + 1 /\ f \in AllFiles
      /\ UNCHANGED <<table, calls, last, answer>>
  <2>1. Files \in Seq(AllFiles) BY FontMatchAssumption
  <2>2. at \in 1 .. Len(Files)
    <3>1. at \in 1 .. Len(Files) + 1 BY <1>0 DEF TypeOK
    <3>2. at <= Len(Files) /\ Len(Files) \in Nat BY <2>1 DEF scan
    <3> QED BY <3>1, <3>2
  <2> QED BY <2>1, <2>2 DEF scan
<1>2. \A g : Family(g)' = Family(g) BY <1>1, TableSame
<1>3. last.font = NoFont /\ \A p \in Patterns : answer[p] = NoFont BY <1>0, <1>1 DEF Walked
<1>4. Settled' BY <1>1, <1>3 DEF Settled
<1>5. CASE Accepted(f)
  <2>1. Fonts' = Append(Fonts, f) /\ byFam' = [byFam EXCEPT ![Key(f)] = Append(@, f)]
    BY <1>5 DEF scan
  <2>2. Family(f) \in Names \ {""} BY <1>0, <1>1, <1>5, FamilyFacts DEF Walked
  <2>3. PICK key \in Keys : key = Key(f) /\ key = lower[Family(f)] BY <2>2 DEF Key, Keys
  <2>4. Fonts \in Seq(AllFiles) /\ byFam \in [Keys -> Seq(AllFiles)] BY <1>0 DEF TypeOK
  <2>5. Fonts' \in Seq(AllFiles) /\ Database' = Database \cup {f}
    <3>1. Len(Fonts) \in Nat /\ Fonts' \in Seq(AllFiles) /\ DOMAIN Fonts' = 1 .. Len(Fonts) + 1
          /\ DOMAIN Fonts = 1 .. Len(Fonts)
          /\ Fonts'[Len(Fonts) + 1] = f /\ \A i \in 1 .. Len(Fonts) : Fonts'[i] = Fonts[i]
      BY <1>1, <2>1, <2>4
    <3>2. 1 .. Len(Fonts) + 1 = (1 .. Len(Fonts)) \cup {Len(Fonts) + 1} BY <3>1
    <3> QED BY <3>1, <3>2 DEF Database
  <2>6. f \notin Database
    <3>1. Database \subseteq {Files[i] : i \in 1 .. at - 1} BY <1>0 DEF Walked
    <3>2. ASSUME NEW i \in 1 .. at - 1, Files[i] = f PROVE FALSE
      <4>1. i \in DOMAIN Files /\ at \in DOMAIN Files BY <1>1
      <4>2. i = at BY <3>2, <4>1, FontMatchAssumption DEF IsInjective
      <4> QED BY <1>1, <4>2
    <3> QED BY <3>1, <3>2
  <2>7. PICK l \in Seq(AllFiles) : l = byFam[key] BY <2>4
  <2>8. /\ byFam' \in [Keys -> Seq(AllFiles)] /\ byFam'[key] = Append(l, f)
        /\ \A k \in Keys : k # key => byFam'[k] = byFam[k]
    BY <1>1, <2>1, <2>3, <2>4, <2>7
  <2>9. TypeOK'
    <3>1. \A g \in Database' : Family(g)' \in Names \ {""} BY <1>0, <1>2, <2>2, <2>5 DEF TypeOK
    <3>2. (at \in 1 .. Len(Files) + 1)' BY <1>1
    <3> QED BY <1>0, <1>1, <2>5, <2>8, <3>1, <3>2 DEF TypeOK
  <2>10. Walked'
    <3>1. Database' \subseteq {Files[i] : i \in 1 .. at' - 1}
      <4>1. Database \subseteq {Files[i] : i \in 1 .. at - 1} BY <1>0 DEF Walked
      <4>2. at' - 1 = at /\ 1 .. at - 1 \subseteq 1 .. at /\ at \in 1 .. at BY <1>1
      <4> QED BY <2>5, <4>1, <4>2
    <3> QED BY <1>0, <1>1, <1>3, <3>1 DEF Walked
  <2>11. ASSUME NEW k \in Keys
         PROVE  /\ {byFam'[k][i] : i \in DOMAIN byFam'[k]} = {g \in Database' : lower[Family(g)'] = k}
                /\ \A i, j \in DOMAIN byFam'[k] : byFam'[k][i] = byFam'[k][j] => i = j
    <3>1. /\ {byFam[k][i] : i \in DOMAIN byFam[k]} = {g \in Database : lower[Family(g)] = k}
          /\ \A i, j \in DOMAIN byFam[k] : byFam[k][i] = byFam[k][j] => i = j
      BY <1>0 DEF ListsWhole
    <3>2. CASE k # key
      <4>1. byFam'[k] = byFam[k] BY <2>8, <3>2
      <4>2. {g \in Database' : lower[Family(g)'] = k} = {g \in Database : lower[Family(g)] = k}
        BY <1>2, <2>3, <2>5, <3>2
      <4> QED BY <3>1, <4>1, <4>2
    <3>3. CASE k = key
      <4> DEFINE m == Append(l, f)
      <4>1. /\ Len(l) \in Nat /\ DOMAIN l = 1 .. Len(l) /\ DOMAIN m = 1 .. Len(l) + 1
            /\ m[Len(l) + 1] = f /\ \A i \in 1 .. Len(l) : m[i] = l[i]
        OBVIOUS
      <4>2. 1 .. Len(l) + 1 = (1 .. Len(l)) \cup {Len(l) + 1} BY <4>1
      <4>3. \A i \in 1 .. Len(l) : l[i] # f BY <2>6, <2>7, <3>1, <3>3, <4>1
      <4> HIDE DEF m
      <4>4. {m[i] : i \in DOMAIN m} = {l[i] : i \in DOMAIN l} \cup {f} BY <4>1, <4>2
      <4>5. \A i, j \in DOMAIN m : m[i] = m[j] => i = j
        BY <2>7, <3>1, <3>3, <4>1, <4>2, <4>3
      <4>6. byFam'[k] = m BY <2>8, <3>3 DEF m
      <4>7. {g \in Database' : lower[Family(g)'] = k}
              = {g \in Database : lower[Family(g)] = k} \cup {f}
        BY <1>2, <2>3, <2>5, <3>3
      <4>8. {m[i] : i \in DOMAIN m} = {g \in Database' : lower[Family(g)'] = k}
        <5>1. {l[i] : i \in DOMAIN l} = {g \in Database : lower[Family(g)] = k} BY <2>7, <3>1, <3>3
        <5> QED BY <4>4, <4>7, <5>1, Zenon
      <4> QED BY <4>5, <4>6, <4>8
    <3> QED BY <3>2, <3>3
  <2>12. ListsWhole' BY <2>11 DEF ListsWhole
  <2> QED BY <1>4, <2>9, <2>10, <2>12 DEF MInv
<1>6. CASE ~Accepted(f)
  <2>1. UNCHANGED <<Fonts, byFam>> BY <1>6 DEF scan, dbVars
  <2>2. Database' = Database BY <2>1 DEF Database
  <2>3. TypeOK'
    <3>1. \A g \in Database' : Family(g)' \in Names \ {""} BY <1>0, <1>2, <2>2 DEF TypeOK
    <3>2. (at \in 1 .. Len(Files) + 1)' BY <1>1
    <3> QED BY <1>0, <1>1, <2>1, <3>1, <3>2 DEF TypeOK
  <2>4. Walked'
    <3>1. Database \subseteq {Files[i] : i \in 1 .. at - 1} BY <1>0 DEF Walked
    <3>2. at' - 1 = at /\ 1 .. at - 1 \subseteq 1 .. at BY <1>1
    <3>3. Database' \subseteq {Files[i] : i \in 1 .. at' - 1} BY <2>2, <3>1, <3>2
    <3> QED BY <1>0, <1>1, <1>3, <3>3 DEF Walked
  <2>5. ListsWhole' BY <1>0, <1>2, <2>1, <2>2 DEF ListsWhole
  <2> QED BY <1>4, <2>3, <2>4, <2>5 DEF MInv
<1> QED BY <1>5, <1>6

(* Match: a list stays a list of the same fonts, and the answers that are  *)
(* kept go on heading theirs.                                              *)
LEMMA MatchInv ==
  ASSUME MInv, NEW s \in Patterns, Match(s)
  PROVE  MInv'
<1>0. TypeOK /\ Walked /\ ListsWhole /\ Settled BY DEF MInv
<1>1. PICK p : p = ParsePattern(s) OBVIOUS
<1> DEFINE k1 == lower[s.families[1]]
<1>2. PICK f \in Database :
        /\ Answer(s, f)
        /\ IF byFam[k1] # <<>>
           THEN Sorts1(k1, p) /\ f = Sorted(byFam[k1], p)[1]
           ELSE UNCHANGED byFam \/ \E key \in Keys : Sorts1(key, p)
  BY <1>1, MatchFacts
<1>3. UNCHANGED <<table, at, Fonts>> /\ calls' = calls + 1 /\ last' = [p |-> s, font |-> f]
  BY <1>2 DEF Answer
<1>4. Database' = Database /\ f \in AllFiles /\ f # NoFont
  <2>1. Fonts \in Seq(AllFiles) BY <1>0 DEF TypeOK
  <2>2. Database \subseteq AllFiles BY <2>1 DEF Database
  <2> QED BY <1>3, <2>2, FontMatchAssumption DEF Database
<1>5. at > Len(Files) /\ calls < MaxCalls BY DEF Match
<1>6. /\ \A g : Family(g)' = Family(g)
      /\ \A g, q : scoreStyle(g, q)' = scoreStyle(g, q)
  BY <1>3, TableSame
<1>7. byFam \in [Keys -> Seq(AllFiles)] BY <1>0 DEF TypeOK
<1>8. ASSUME NEW k \in Keys
      PROVE  \/ byFam'[k] = byFam[k]
             \/ byFam[k] # <<>> /\ byFam'[k] = Sorted(byFam[k], p)
  BY <1>2, <1>7 DEF Sorts1
<1>9. ASSUME NEW k \in Keys
      PROVE  \/ byFam'[k] = byFam[k]
             \/ byFam[k] # <<>> /\ SortOf(byFam[k], p, byFam'[k])
  <2>1. SortOf(byFam[k], p, Sorted(byFam[k], p)) BY <1>7, SortedFacts
  <2> QED BY <1>8, <2>1
<1>10. byFam' \in [Keys -> Seq(AllFiles)]
  <2>1. \A k \in Keys : byFam'[k] \in Seq(AllFiles)
    <3> TAKE k \in Keys
    <3> QED BY <1>7, <1>9 DEF SortOf
  <2>2. byFam' = [k \in Keys |-> byFam'[k]] BY <1>2, <1>7 DEF Sorts1
  <2> QED BY <2>1, <2>2
<1>11. answer' \in [Patterns -> AllFiles \cup {NoFont}]
  <2>1. \A q \in Patterns : answer[q] \in AllFiles \cup {NoFont} BY <1>0 DEF TypeOK
  <2>2. \A q \in Patterns : answer'[q] \in AllFiles \cup {NoFont}
    <3> TAKE q \in Patterns
    <3> QED BY <1>2, <1>4, <2>1 DEF Answer
  <2>3. answer' = [q \in Patterns |-> answer'[q]] BY <1>2 DEF Answer
  <2> QED BY <2>2, <2>3
<1>12. TypeOK'
  <2>1. calls' \in 0 .. MaxCalls
    <3>1. calls \in 0 .. MaxCalls /\ MaxCalls \in Nat BY <1>0, FontMatchAssumption DEF TypeOK
    <3> QED BY <1>3, <1>5, <3>1
  <2>2. last'.font \in AllFiles BY <1>3, <1>4
  <2> QED BY <1>0, <1>3, <1>4, <1>6, <1>10, <1>11, <2>1, <2>2 DEF TypeOK
<1>13. Walked'
  <2>1. ~(at' <= Len(Files))
    <3>1. at \in Nat /\ Len(Files) \in Nat
      <4>1. Len(Files) \in Nat BY FontMatchAssumption
      <4>2. at \in 1 .. Len(Files) + 1 BY <1>0 DEF TypeOK
      <4> QED BY <4>1, <4>2
    <3> QED BY <1>3, <1>5, <3>1
  <2>2. last'.p \in Patterns BY <1>3
  <2> QED BY <1>0, <1>3, <1>4, <2>1, <2>2 DEF Walked
<1>14. ASSUME NEW k \in Keys
       PROVE  /\ {byFam'[k][i] : i \in DOMAIN byFam'[k]} = {byFam[k][i] : i \in DOMAIN byFam[k]}
              /\ \A i, j \in DOMAIN byFam'[k] : byFam'[k][i] = byFam'[k][j] => i = j
  <2>1. \A i, j \in DOMAIN byFam[k] : byFam[k][i] = byFam[k][j] => i = j BY <1>0 DEF ListsWhole
  <2>2. CASE byFam'[k] = byFam[k] BY <2>1, <2>2
  <2>3. CASE SortOf(byFam[k], p, byFam'[k])
    <3>1. DOMAIN byFam[k] = 1 .. Len(byFam[k]) /\ DOMAIN byFam'[k] = 1 .. Len(byFam[k])
      <4>1. byFam[k] \in Seq(AllFiles) /\ byFam'[k] \in Seq(AllFiles) BY <1>7, <1>10
      <4>2. Len(byFam'[k]) = Len(byFam[k]) BY <2>3 DEF SortOf
      <4> QED BY <4>1, <4>2
    <3> QED BY <2>1, <2>3, <3>1 DEF SortOf
  <2> QED BY <1>9, <2>2, <2>3
<1>15. ListsWhole' BY <1>0, <1>4, <1>6, <1>14 DEF ListsWhole
<1>16. ASSUME NEW q \in Patterns, answer'[q] # NoFont, byFam'[lower[q.families[1]]] # <<>>
       PROVE  LET list == byFam'[lower[q.families[1]]] IN
              /\ answer'[q] = list[1]
              /\ \A i \in DOMAIN list :
                   scoreStyle(list[1], ParsePattern(q)) <= scoreStyle(list[i], ParsePattern(q))
  <2>1. PICK k \in Keys : k = lower[q.families[1]] BY TriedFacts
  <2>2. PICK l \in Seq(AllFiles) : l = byFam[k] BY <1>7
  <2>3. PICK m \in Seq(AllFiles) : m = byFam'[k] BY <1>10
  <2>4. m = l \/ (l # <<>> /\ SortOf(l, p, m)) BY <1>9, <2>2, <2>3
  <2>5. l # <<>> /\ DOMAIN l = 1 .. Len(l) /\ DOMAIN m = 1 .. Len(l) /\ m # <<>>
    <3>1. m # <<>> BY <1>16, <2>1, <2>3
    <3>2. Len(m) = Len(l) BY <2>4 DEF SortOf
    <3> QED BY <2>4, <3>1, <3>2
  <2>6. 1 \in DOMAIN l BY <2>5
  <2>7. {m[i] : i \in DOMAIN l} = {l[i] : i \in DOMAIN l} BY <2>4, <2>5 DEF SortOf
  <2>8. CASE q = s
    <3>1. SortOf(l, p, m) /\ f = m[1]
      <4>1. m = Sorted(l, p) /\ f = m[1] BY <1>2, <1>7, <2>1, <2>2, <2>3, <2>5, <2>8 DEF Sorts1
      <4> QED BY <4>1, SortedFacts
    <3>2. answer'[q] = f BY <1>2, <2>8 DEF Answer
    <3>3. \A i \in DOMAIN l : scoreStyle(m[1], p) <= scoreStyle(l[i], p) BY <2>5, <3>1 DEF SortOf
    <3>4. \A i \in DOMAIN m : scoreStyle(m[1], p) <= scoreStyle(m[i], p)
      <4> TAKE i \in DOMAIN m
      <4>1. PICK j \in DOMAIN l : m[i] = l[j] BY <2>5, <2>7
      <4> QED BY <3>3, <4>1
    <3> QED BY <1>1, <2>1, <2>3, <2>8, <3>1, <3>2, <3>4
  <2>9. CASE q # s
    <3>1. answer'[q] = answer[q] /\ ParsePattern(q).style = p.style
      BY <1>1, <1>2, <1>16, <2>9 DEF Answer
    <3>2. /\ answer[q] = l[1]
          /\ \A i \in DOMAIN l : scoreStyle(l[1], ParsePattern(q)) <= scoreStyle(l[i], ParsePattern(q))
      BY <1>0, <1>16, <2>1, <2>2, <2>5, <3>1 DEF Settled
    <3>3. \A g : scoreStyle(g, ParsePattern(q)) = scoreStyle(g, p) BY <3>1 DEF scoreStyle
    <3>4. m[1] = l[1] BY <2>4, <2>5, <3>2, <3>3 DEF SortOf
    <3>5. \A i \in DOMAIN m : scoreStyle(m[1], p) <= scoreStyle(m[i], p)
      <4> TAKE i \in DOMAIN m
      <4>1. PICK j \in DOMAIN l : m[i] = l[j] BY <2>5, <2>7
      <4> QED BY <3>2, <3>3, <3>4, <4>1
    <3> QED BY <2>1, <2>3, <3>1, <3>2, <3>3, <3>4, <3>5
  <2> QED BY <2>8, <2>9
<1>17. Settled' BY <1>6, <1>16 DEF Settled
<1> QED BY <1>12, <1>13, <1>15, <1>17 DEF MInv

LEMMA StepInv == MInv /\ [Next]_vars => MInv'
<1> SUFFICES ASSUME MInv, [Next]_vars PROVE MInv' OBVIOUS
<1>1. CASE scan BY <1>1, ScanInv
<1>2. CASE \E s \in Patterns : Match(s) BY <1>2, MatchInv
<1>3. CASE UNCHANGED vars
  <2> USE <1>3 DEF vars, dbVars
  <2>1. \A g : Family(g)' = Family(g) BY TableSame
  <2>2. \A g, q : scoreStyle(g, q)' = scoreStyle(g, q) BY TableSame
  <2>3. TypeOK' BY <2>1 DEF MInv, TypeOK, Database
  <2>4. Walked' BY DEF MInv, Walked, Database
  <2>5. ListsWhole' BY <2>1 DEF MInv, ListsWhole, Database
  <2>6. Settled' BY <2>2 DEF MInv, Settled
  <2> QED BY <2>3, <2>4, <2>5, <2>6 DEF MInv
<1> QED BY <1>1, <1>2, <1>3 DEF Next

(* The database is well formed whatever was scanned and matched.           *)
THEOREM MatchInvariant == Spec => []MInv
BY InitInv, StepInv, PTL DEF Spec

(* The lists of byFam hold every font once, however often they are sorted. *)
THEOREM WholeLists == Spec => []ListsWhole
<1>1. MInv => ListsWhole BY DEF MInv
<1> QED BY <1>1, MatchInvariant, PTL

(* The family of a font is that of its best record.                        *)
THEOREM PreferredNames == Spec => []NamesPreferred
<1>1. MInv => NamesPreferred
  <2> SUFFICES ASSUME MInv, NEW f \in Database PROVE
        \E n \in DOMAIN table[f] :
          LET t == table[f]
              Rank(r) == IF r.platform = 3 THEN (IF r.lang = 1033 THEN 0 ELSE 1)
                         ELSE IF r.platform = 0 THEN 2
                         ELSE IF r.platform = 1 /\ r.lang = 0 THEN 3 ELSE 4
          IN  /\ Usable(t[n], 1) /\ t[n].text = Family(f)
              /\ \A m \in DOMAIN t : Usable(t[m], 1) =>
                   Rank(t[n]) < Rank(t[m]) \/ (Rank(t[n]) = Rank(t[m]) /\ n <= m)
    BY DEF NamesPreferred
  <2> DEFINE t == table[f]
             Rank(r) == IF r.platform = 3 THEN (IF r.lang = 1033 THEN 0 ELSE 1)
                        ELSE IF r.platform = 0 THEN 2
                        ELSE IF r.platform = 1 /\ r.lang = 0 THEN 3 ELSE 4
  <2>1. f \in AllFiles /\ t \in Tables[f] /\ Accepted(f)
    <3>1. Fonts \in Seq(AllFiles) BY DEF MInv, TypeOK
    <3>2. f \in AllFiles BY <3>1 DEF Database
    <3>3. Family(f) # "" BY DEF MInv, TypeOK
    <3> QED BY <3>2, <3>3 DEF MInv, Walked, Accepted
  <2>2. PICK n \in DOMAIN t : Family(f) = t[n].text /\ Foremost(t, 1, Len(t), n)
    BY <2>1, FamilyFacts
  <2>3. t \in Seq({t[i] : i \in DOMAIN t}) BY <2>1, FontMatchAssumption
  <2>4. \A r : Rank(r) = 4 - Priority(r) /\ Priority(r) \in 0 .. 4
    <3> TAKE r
    <3> QED BY DEF Priority
  <2>5. DOMAIN t = 1 .. Len(t) /\ n # 0
    <3> HIDE DEF t
    <3> QED BY <2>3
  <2>6. Usable(t[n], 1) /\ \A m \in DOMAIN t : Usable(t[m], 1) =>
          Priority(t[n]) > Priority(t[m]) \/ (Priority(t[n]) = Priority(t[m]) /\ n <= m)
    BY <2>2, <2>5 DEF Foremost
  <2>7. \A m \in DOMAIN t : Usable(t[m], 1) =>
          Rank(t[n]) < Rank(t[m]) \/ (Rank(t[n]) = Rank(t[m]) /\ n <= m)
    <3> HIDE DEF Rank, t
    <3> QED BY <2>4, <2>6
  <2> QED BY <2>2, <2>6, <2>7
<1> QED BY <1>1, MatchInvariant, PTL

(* Match answers with a closest font of the first family that has any.     *)
THEOREM ClosestMatch == Spec => []MatchIsClosest
<1>1. Init => MatchIsClosest
  <2>1. Init => last = Nothing BY Zenon DEF Init
  <2>2. Nothing.font = NoFont BY DEF Nothing
  <2> QED BY <2>1, <2>2 DEF MatchIsClosest
<1>2. MInv /\ MatchIsClosest /\ [Next]_vars => MatchIsClosest'
  <2> SUFFICES ASSUME MInv, MatchIsClosest, [Next]_vars
               PROVE  last'.font # NoFont => Closest(last.p, last.font)'
    <3>1. (MatchIsClosest <=> (last.font # NoFont => Closest(last.p, last.font)))'
      BY ClosestIs, PTL
    <3> QED BY <3>1
  <2>1. ASSUME NEW s, NEW f, UNCHANGED <<Fonts, table>>, Closest(s, f) PROVE Closest(s, f)'
    <3>1. ASSUME NEW key PROVE Candidates(key)' = Candidates(key)
      <4>1. Database' = Database /\ \A g : Family(g)' = Family(g)
        BY <2>1, TableSame DEF Database
      <4>2. {g \in Database : lower[Family(g)] = key}' = {g \in Database : lower[Family(g)] = key}
        BY <4>1
      <4>3. {g \in Database : <<lower[Family(g)], key>> \in startsWith}'
              = {g \in Database : <<lower[Family(g)], key>> \in startsWith}
        BY <4>1
      <4> QED BY <4>2, <4>3 DEF Candidates
    <3>2. \A g, q : scoreStyle(g, q)' = scoreStyle(g, q) BY <2>1, TableSame
    <3> QED BY <2>1, <3>1, <3>2 DEF Closest
  <2>2. CASE scan
    <3>1. at <= Len(Files) /\ last' = last BY <2>2 DEF scan
    <3> QED BY <3>1 DEF MInv, Walked
  <2>3. CASE \E s \in Patterns : Match(s)
    <3>1. PICK s \in Patterns : Match(s) BY <2>3
    <3>2. PICK f : Answer(s, f) /\ Closest(s, f) BY <3>1, MatchFacts
    <3>3. Closest(s, f)' BY <2>1, <3>2 DEF Answer
    <3>4. last' = [p |-> s, font |-> f] BY <3>2 DEF Answer
    <3>5. last'.p = s /\ last'.font = f BY <3>4
    <3> QED BY <3>3, <3>5
  <2>4. CASE UNCHANGED vars
    <3>1. PICK s, f : s = last.p /\ f = last.font OBVIOUS
    <3>2. last.font # NoFont => Closest(s, f) BY <3>1, ClosestIs
    <3>3. last' = last /\ UNCHANGED <<Fonts, table>> BY <2>4 DEF vars, dbVars
    <3>4. last.font # NoFont => Closest(s, f)' BY <2>1, <3>2, <3>3
    <3>5. last'.p = s /\ last'.font = f BY <3>1, <3>3
    <3> QED BY <3>1, <3>4, <3>5
  <2> QED BY <2>2, <2>3, <2>4 DEF Next
<1> QED BY <1>1, <1>2, MatchInvariant, PTL DEF Spec

(* A pattern matched again gets the font it got before.                    *)
THEOREM SameFontAgain == Spec => SameAgain
<1>1. MInv /\ MInv' /\ [Next]_vars =>
        [\A p \in Patterns :
           answer[p] # NoFont /\ answer'[p] # NoFont /\ byFam[lower[p.families[1]]] # <<>>
             => answer'[p] = answer[p]]_vars
  <2> SUFFICES ASSUME MInv, MInv', [Next]_vars, NEW p \in Patterns, answer[p] # NoFont,
                      answer'[p] # NoFont, byFam[lower[p.families[1]]] # <<>>
               PROVE  answer'[p] = answer[p]
    OBVIOUS
  <2>1. CASE scan BY <2>1 DEF scan
  <2>2. CASE \E s \in Patterns : Match(s)
    <3>1. PICK s \in Patterns : Match(s) BY <2>2
    <3>2. PICK f : /\ Answer(s, f)
                   /\ LET k == lower[s.families[1]] IN
                      byFam[k] # <<>> => f = Sorted(byFam[k], ParsePattern(s))[1]
      BY <3>1, MatchFacts
    <3>3. CASE s # p BY <3>2, <3>3 DEF Answer
    <3>4. CASE s = p
      <4>1. PICK k \in Keys : k = lower[p.families[1]] BY TriedFacts
      <4>2. PICK l \in Seq(AllFiles) : l = byFam[k] BY DEF MInv, TypeOK
      <4>3. PICK q : q = ParsePattern(p) OBVIOUS
      <4>4. answer[p] = l[1] /\ \A i \in DOMAIN l : scoreStyle(l[1], q) <= scoreStyle(l[i], q)
        BY <4>1, <4>2, <4>3 DEF MInv, Settled
      <4>5. SortOf(l, q, Sorted(l, q)) BY SortedFacts
      <4>6. DOMAIN l = 1 .. Len(l) /\ l # <<>> BY <4>1, <4>2
      <4>7. Sorted(l, q)[1] = l[1] BY <4>4, <4>5, <4>6 DEF SortOf
      <4>8. answer'[p] = f BY <3>2, <3>4 DEF Answer
      <4> QED BY <3>2, <3>4, <4>1, <4>2, <4>3, <4>4, <4>7, <4>8
    <3> QED BY <3>3, <3>4
  <2>3. CASE UNCHANGED vars BY <2>3 DEF vars
  <2> QED BY <2>1, <2>2, <2>3 DEF Next
<1> QED BY <1>1, MatchInvariant, PTL DEF Spec, SameAgain

=============================================================================
