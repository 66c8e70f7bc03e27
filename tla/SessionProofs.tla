---------------------------- MODULE SessionProofs ----------------------------
(***************************************************************************)
(* Proofs about Session, and so about Dial and Requests: the properties of *)
(* a connection follow from VInv, which every step preserves.              *)
(***************************************************************************)
EXTENDS SessionInv, NatLemmas, SequenceTheorems

-----------------------------------------------------------------------------
(* The lengths of requests.                                                *)

(* f counts up what s adds.                                                *)
SumOf(f, s) ==
  /\ f \in [0 .. Len(s) -> Nat] /\ Sum(s) = f[Len(s)]
  /\ f[0] = 0 /\ \A i \in 1 .. Len(s) : f[i] = f[i - 1] + s[i]

(* Sum is a loop over its sequence.                                        *)
LEMMA SumIs ==
  ASSUME NEW s \in Seq(Nat)
  PROVE  \E f : SumOf(f, s)
<1> DEFINE N == Len(s)
           step == [i \in 1 .. N |-> [x \in Nat |-> x + s[i]]]
           Upto(f) == f = [i \in 0 .. N |-> IF i = 0 THEN 0 ELSE f[i - 1] + s[i]]
<1>1. N \in Nat OBVIOUS
<1>2. step \in [1 .. N -> [Nat -> Nat]]
  <2>1. ASSUME NEW i \in 1 .. N, NEW x \in Nat PROVE x + s[i] \in Nat OBVIOUS
  <2> QED BY <2>1
<1>3. PICK f \in [0 .. N -> Nat] : IsLoop(f, N, 0, step)
  <2> HIDE DEF step, N
  <2> QED BY <1>1, <1>2, LoopExists
<1>4. f[0] = 0 /\ \A i \in 1 .. N : f[i] = f[i - 1] + s[i]
  <2>1. ASSUME NEW i \in 1 .. N PROVE f[i] = f[i - 1] + s[i]
    <3>1. f[i - 1] \in Nat
      <4>1. i - 1 \in 0 .. N BY <1>1
      <4> QED BY <4>1
    <3>2. step[i] = [x \in Nat |-> x + s[i]] OBVIOUS
    <3> HIDE DEF step
    <3> QED BY <1>3, <3>1, <3>2 DEF IsLoop
  <2> QED BY <1>3, <2>1 DEF IsLoop
<1>5. Upto(f)
  <2>1. ASSUME NEW i \in 0 .. N PROVE f[i] = IF i = 0 THEN 0 ELSE f[i - 1] + s[i]
    BY <1>4
  <2> QED BY <2>1
<1>6. Sum(s) = (CHOOSE g : Upto(g))[N]
  BY DEF Sum
<1>7. PICK g : g = CHOOSE h : Upto(h) OBVIOUS
<1>8. Upto(g)
  <2> HIDE DEF Upto
  <2> QED BY <1>5, <1>7
<1>9. g[0] = 0 /\ \A i \in 1 .. N : g[i] = g[i - 1] + s[i]
  <2>1. 0 \in 0 .. N BY <1>1
  <2>2. ASSUME NEW i \in 1 .. N PROVE g[i] = g[i - 1] + s[i]
    <3>1. i \in 0 .. N /\ i # 0 BY <1>1
    <3> QED BY <1>8, <3>1
  <2> QED BY <1>8, <2>1, <2>2
<1>10. \A i \in 0 .. N : g[i] = f[i]
  <2> DEFINE T == {i \in 0 .. N : g[i] # f[i]}
  <2> SUFFICES ASSUME T # {} PROVE FALSE OBVIOUS
  <2>1. PICK i \in T : \A m \in T : i <= m
    <3>1. T \in SUBSET Nat OBVIOUS
    <3> HIDE DEF T
    <3> QED BY <3>1, Least
  <2>2. i # 0 BY <1>4, <1>9
  <2>3. i - 1 \in 0 .. N /\ i - 1 \notin T BY <2>1, <2>2
  <2>4. g[i] = f[i] BY <1>4, <1>9, <2>2, <2>3
  <2> QED BY <2>4
<1>11. Sum(s) = f[N] BY <1>1, <1>6, <1>7, <1>10
<1>12. SumOf(f, s) BY <1>3, <1>4, <1>11 DEF SumOf
<1> QED BY <1>12

(* The sums of the fields of the encoders.                                 *)
Totals(t, n) == t \in Seq(Nat) /\ Sum(t) = n

(* The sums of the lists of field widths that occur.                       *)
LEMMA FieldTotals ==
  /\ Totals(<<>>, 0)
  /\ Totals(<<4>>, 4)
  /\ Totals(<<2, 2>>, 4)
  /\ Totals(<<4, 4>>, 8)
  /\ Totals(<<1, 1, 2>>, 4)
  /\ Totals(<<4, 2, 2>>, 8)
  /\ Totals(<<4, 4, 4>>, 12)
  /\ Totals(<<4, 4, 2, 2>>, 12)
  /\ Totals(<<4, 2, 2, 2, 2>>, 12)
  /\ Totals(<<4, 4, 1, 1, 2>>, 12)
  /\ Totals(<<4, 4, 4, 4, 4>>, 20)
  /\ Totals(<<4, 2, 2, 2, 2, 4>>, 16)
  /\ Totals(<<4, 2, 1, 1, 4, 4, 4>>, 20)
  /\ Totals(<<4, 4, 4, 1, 1, 1, 1, 4>>, 20)
  /\ Totals(<<4, 4, 2, 2, 2, 2, 1, 1, 2>>, 20)
  /\ Totals(<<4, 4, 4, 2, 2, 2, 2, 2, 2>>, 24)
  /\ Totals(<<4, 4, 2, 2, 2, 2, 2, 2, 4, 4>>, 28)
  /\ Totals(<<4, 4, 4, 2, 2, 2, 2, 2, 2, 2, 2>>, 28)
<1> USE DEF Totals, SumOf
<1>1. Totals(<<>>, 0)
  <2>1. <<>> \in Seq(Nat) OBVIOUS
  <2>2. PICK f : SumOf(f, <<>>) BY <2>1, SumIs, Zenon
  <2> QED BY <2>1, <2>2
<1>2. Totals(<<4>>, 4)
  <2>1. <<4>> \in Seq(Nat) OBVIOUS
  <2>2. PICK f : SumOf(f, <<4>>) BY <2>1, SumIs, Zenon
  <2> QED BY <2>1, <2>2
<1>3. Totals(<<2, 2>>, 4)
  <2>1. <<2, 2>> \in Seq(Nat) OBVIOUS
  <2>2. PICK f : SumOf(f, <<2, 2>>) BY <2>1, SumIs, Zenon
  <2> QED BY <2>1, <2>2
<1>4. Totals(<<4, 4>>, 8)
  <2>1. <<4, 4>> \in Seq(Nat) OBVIOUS
  <2>2. PICK f : SumOf(f, <<4, 4>>) BY <2>1, SumIs, Zenon
  <2> QED BY <2>1, <2>2
<1>5. Totals(<<1, 1, 2>>, 4)
  <2>1. <<1, 1, 2>> \in Seq(Nat) OBVIOUS
  <2>2. PICK f : SumOf(f, <<1, 1, 2>>) BY <2>1, SumIs, Zenon
  <2> QED BY <2>1, <2>2
<1>6. Totals(<<4, 2, 2>>, 8)
  <2>1. <<4, 2, 2>> \in Seq(Nat) OBVIOUS
  <2>2. PICK f : SumOf(f, <<4, 2, 2>>) BY <2>1, SumIs, Zenon
  <2> QED BY <2>1, <2>2
<1>7. Totals(<<4, 4, 4>>, 12)
  <2>1. <<4, 4, 4>> \in Seq(Nat) OBVIOUS
  <2>2. PICK f : SumOf(f, <<4, 4, 4>>) BY <2>1, SumIs, Zenon
  <2> QED BY <2>1, <2>2
<1>8. Totals(<<4, 4, 2, 2>>, 12)
  <2>1. <<4, 4, 2, 2>> \in Seq(Nat) OBVIOUS
  <2>2. PICK f : SumOf(f, <<4, 4, 2, 2>>) BY <2>1, SumIs, Zenon
  <2> QED BY <2>1, <2>2
<1>9. Totals(<<4, 2, 2, 2, 2>>, 12)
  <2>1. <<4, 2, 2, 2, 2>> \in Seq(Nat) OBVIOUS
  <2>2. PICK f : SumOf(f, <<4, 2, 2, 2, 2>>) BY <2>1, SumIs, Zenon
  <2> QED BY <2>1, <2>2
<1>10. Totals(<<4, 4, 1, 1, 2>>, 12)
  <2>1. <<4, 4, 1, 1, 2>> \in Seq(Nat) OBVIOUS
  <2>2. PICK f : SumOf(f, <<4, 4, 1, 1, 2>>) BY <2>1, SumIs, Zenon
  <2> QED BY <2>1, <2>2
<1>11. Totals(<<4, 4, 4, 4, 4>>, 20)
  <2>1. <<4, 4, 4, 4, 4>> \in Seq(Nat) OBVIOUS
  <2>2. PICK f : SumOf(f, <<4, 4, 4, 4, 4>>) BY <2>1, SumIs, Zenon
  <2> QED BY <2>1, <2>2
<1>12. Totals(<<4, 2, 2, 2, 2, 4>>, 16)
  <2>1. <<4, 2, 2, 2, 2, 4>> \in Seq(Nat) OBVIOUS
  <2>2. PICK f : SumOf(f, <<4, 2, 2, 2, 2, 4>>) BY <2>1, SumIs, Zenon
  <2> QED BY <2>1, <2>2
<1>13. Totals(<<4, 2, 1, 1, 4, 4, 4>>, 20)
  <2>1. <<4, 2, 1, 1, 4, 4, 4>> \in Seq(Nat) OBVIOUS
  <2>2. PICK f : SumOf(f, <<4, 2, 1, 1, 4, 4, 4>>) BY <2>1, SumIs, Zenon
  <2> QED BY <2>1, <2>2
<1>14. Totals(<<4, 4, 4, 1, 1, 1, 1, 4>>, 20)
  <2>1. <<4, 4, 4, 1, 1, 1, 1, 4>> \in Seq(Nat) OBVIOUS
  <2>2. PICK f : SumOf(f, <<4, 4, 4, 1, 1, 1, 1, 4>>) BY <2>1, SumIs, Zenon
  <2> QED BY <2>1, <2>2
<1>15. Totals(<<4, 4, 2, 2, 2, 2, 1, 1, 2>>, 20)
  <2>1. <<4, 4, 2, 2, 2, 2, 1, 1, 2>> \in Seq(Nat) OBVIOUS
  <2>2. PICK f : SumOf(f, <<4, 4, 2, 2, 2, 2, 1, 1, 2>>) BY <2>1, SumIs, Zenon
  <2> QED BY <2>1, <2>2
<1>16. Totals(<<4, 4, 4, 2, 2, 2, 2, 2, 2>>, 24)
  <2>1. <<4, 4, 4, 2, 2, 2, 2, 2, 2>> \in Seq(Nat) OBVIOUS
  <2>2. PICK f : SumOf(f, <<4, 4, 4, 2, 2, 2, 2, 2, 2>>) BY <2>1, SumIs, Zenon
  <2> QED BY <2>1, <2>2
<1>17. Totals(<<4, 4, 2, 2, 2, 2, 2, 2, 4, 4>>, 28)
  <2>1. <<4, 4, 2, 2, 2, 2, 2, 2, 4, 4>> \in Seq(Nat) OBVIOUS
  <2>2. PICK f : SumOf(f, <<4, 4, 2, 2, 2, 2, 2, 2, 4, 4>>) BY <2>1, SumIs, Zenon
  <2> QED BY <2>1, <2>2
<1>18. Totals(<<4, 4, 4, 2, 2, 2, 2, 2, 2, 2, 2>>, 28)
  <2>1. <<4, 4, 4, 2, 2, 2, 2, 2, 2, 2, 2>> \in Seq(Nat) OBVIOUS
  <2>2. PICK f : SumOf(f, <<4, 4, 4, 2, 2, 2, 2, 2, 2, 2, 2>>) BY <2>1, SumIs, Zenon
  <2> QED BY <2>1, <2>2
<1> HIDE DEF Totals
<1> QED
  BY <1>1, <1>2, <1>3, <1>4, <1>5, <1>6, <1>7, <1>8, <1>9, <1>10, <1>11, <1>12,
     <1>13, <1>14, <1>15, <1>16, <1>17, <1>18

(* The fields of an encoder make up the smallest length of its request.    *)
AddsUp(s, n) == s[n] \in Seq(Nat) /\ 4 + Sum(s[n]) = 4 * MinWords[n]

(* Every encoder's fields are among those lists.                           *)
LEMMA SectionSums ==
  ASSUME NEW s \in Sections, NEW n \in DOMAIN s
  PROVE  AddsUp(s, n)
<1> USE DEF AddsUp, Totals
<1>1. CASE s = atomFields
  <2> USE DEF atomFields, MinWords
  <2>1. AddsUp(atomFields, "InternAtom")
    <3>1. Totals(<<2, 2>>, 4) BY FieldTotals
    <3> QED BY <3>1
  <2>2. AddsUp(atomFields, "QueryExtension")
    <3>1. Totals(<<2, 2>>, 4) BY FieldTotals
    <3> QED BY <3>1
    <2>3. n \in {"InternAtom", "QueryExtension"}
    BY <1>1
  <2> HIDE DEF atomFields, MinWords, AddsUp
  <2> QED BY <1>1, <2>1, <2>2, <2>3
<1>2. CASE s = windowFields
  <2> USE DEF windowFields, MinWords
  <2>1. AddsUp(windowFields, "CreateWindow")
    <3>1. Totals(<<4, 4, 2, 2, 2, 2, 2, 2, 4, 4>>, 28) BY FieldTotals
    <3> QED BY <3>1
  <2>2. AddsUp(windowFields, "ChangeWindowAttributes")
    <3>1. Totals(<<4, 4>>, 8) BY FieldTotals
    <3> QED BY <3>1
  <2>3. AddsUp(windowFields, "ReparentWindow")
    <3>1. Totals(<<4, 4, 2, 2>>, 12) BY FieldTotals
    <3> QED BY <3>1
  <2>4. AddsUp(windowFields, "MapWindow")
    <3>1. Totals(<<4>>, 4) BY FieldTotals
    <3> QED BY <3>1
  <2>5. AddsUp(windowFields, "UnmapWindow")
    <3>1. Totals(<<4>>, 4) BY FieldTotals
    <3> QED BY <3>1
  <2>6. AddsUp(windowFields, "ConfigureWindow")
    <3>1. Totals(<<4, 2, 2>>, 8) BY FieldTotals
    <3> QED BY <3>1
    <2>7. n \in {"CreateWindow", "ChangeWindowAttributes", "ReparentWindow",
        "MapWindow", "UnmapWindow", "ConfigureWindow"}
    BY <1>2
  <2> HIDE DEF windowFields, MinWords, AddsUp
  <2> QED BY <1>2, <2>1, <2>2, <2>3, <2>4, <2>5, <2>6, <2>7
<1>3. CASE s = propertyFields
  <2> USE DEF propertyFields, MinWords
  <2>1. AddsUp(propertyFields, "ChangeProperty")
    <3>1. Totals(<<4, 4, 4, 1, 1, 1, 1, 4>>, 20) BY FieldTotals
    <3> QED BY <3>1
  <2>2. AddsUp(propertyFields, "GetProperty")
    <3>1. Totals(<<4, 4, 4, 4, 4>>, 20) BY FieldTotals
    <3> QED BY <3>1
    <2>3. n \in {"ChangeProperty", "GetProperty"}
    BY <1>3
  <2> HIDE DEF propertyFields, MinWords, AddsUp
  <2> QED BY <1>3, <2>1, <2>2, <2>3
<1>4. CASE s = drawingFields
  <2> USE DEF drawingFields, MinWords
  <2>1. AddsUp(drawingFields, "CreatePixmap")
    <3>1. Totals(<<4, 4, 2, 2>>, 12) BY FieldTotals
    <3> QED BY <3>1
  <2>2. AddsUp(drawingFields, "FreePixmap")
    <3>1. Totals(<<4>>, 4) BY FieldTotals
    <3> QED BY <3>1
  <2>3. AddsUp(drawingFields, "CreateGC")
    <3>1. Totals(<<4, 4, 4>>, 12) BY FieldTotals
    <3> QED BY <3>1
  <2>4. AddsUp(drawingFields, "ChangeGC")
    <3>1. Totals(<<4, 4>>, 8) BY FieldTotals
    <3> QED BY <3>1
  <2>5. AddsUp(drawingFields, "FreeGC")
    <3>1. Totals(<<4>>, 4) BY FieldTotals
    <3> QED BY <3>1
  <2>6. AddsUp(drawingFields, "PolyFillRectangle")
    <3>1. Totals(<<4, 4>>, 8) BY FieldTotals
    <3> QED BY <3>1
  <2>7. AddsUp(drawingFields, "PolyRectangle")
    <3>1. Totals(<<4, 4>>, 8) BY FieldTotals
    <3> QED BY <3>1
  <2>8. AddsUp(drawingFields, "CopyArea")
    <3>1. Totals(<<4, 4, 4, 2, 2, 2, 2, 2, 2>>, 24) BY FieldTotals
    <3> QED BY <3>1
    <2>9. n \in {"CreatePixmap", "FreePixmap", "CreateGC", "ChangeGC", "FreeGC",
        "PolyFillRectangle", "PolyRectangle", "CopyArea"}
    BY <1>4
  <2> HIDE DEF drawingFields, MinWords, AddsUp
  <2> QED BY <1>4, <2>1, <2>2, <2>3, <2>4, <2>5, <2>6, <2>7, <2>8, <2>9
<1>5. CASE s = imageFields
  <2> USE DEF imageFields, MinWords
  <2>1. AddsUp(imageFields, "PutImage")
    <3>1. Totals(<<4, 4, 2, 2, 2, 2, 1, 1, 2>>, 20) BY FieldTotals
    <3> QED BY <3>1
    <2>2. n \in {"PutImage"}
    BY <1>5
  <2> HIDE DEF imageFields, MinWords, AddsUp
  <2> QED BY <1>5, <2>1, <2>2
<1>6. CASE s = focusFields
  <2> USE DEF focusFields, MinWords
  <2>1. AddsUp(focusFields, "GrabKeyboard")
    <3>1. Totals(<<4, 4, 1, 1, 2>>, 12) BY FieldTotals
    <3> QED BY <3>1
  <2>2. AddsUp(focusFields, "UngrabKeyboard")
    <3>1. Totals(<<4>>, 4) BY FieldTotals
    <3> QED BY <3>1
  <2>3. AddsUp(focusFields, "GetInputFocus")
    <3>1. Totals(<<>>, 0) BY FieldTotals
    <3> QED BY <3>1
  <2>4. AddsUp(focusFields, "SetInputFocus")
    <3>1. Totals(<<4, 4>>, 8) BY FieldTotals
    <3> QED BY <3>1
    <2>5. n \in {"GrabKeyboard", "UngrabKeyboard", "GetInputFocus", "SetInputFocus"}
    BY <1>6
  <2> HIDE DEF focusFields, MinWords, AddsUp
  <2> QED BY <1>6, <2>1, <2>2, <2>3, <2>4, <2>5
<1>7. CASE s = queryFields
  <2> USE DEF queryFields, MinWords
  <2>1. AddsUp(queryFields, "QueryTree")
    <3>1. Totals(<<4>>, 4) BY FieldTotals
    <3> QED BY <3>1
  <2>2. AddsUp(queryFields, "GetGeometry")
    <3>1. Totals(<<4>>, 4) BY FieldTotals
    <3> QED BY <3>1
  <2>3. AddsUp(queryFields, "GetWindowAttributes")
    <3>1. Totals(<<4>>, 4) BY FieldTotals
    <3> QED BY <3>1
  <2>4. AddsUp(queryFields, "QueryPointer")
    <3>1. Totals(<<4>>, 4) BY FieldTotals
    <3> QED BY <3>1
    <2>5. n \in {"QueryTree", "GetGeometry", "GetWindowAttributes", "QueryPointer"}
    BY <1>7
  <2> HIDE DEF queryFields, MinWords, AddsUp
  <2> QED BY <1>7, <2>1, <2>2, <2>3, <2>4, <2>5
<1>8. CASE s = selectionFields
  <2> USE DEF selectionFields, MinWords
  <2>1. AddsUp(selectionFields, "ConvertSelection")
    <3>1. Totals(<<4, 4, 4, 4, 4>>, 20) BY FieldTotals
    <3> QED BY <3>1
  <2>2. AddsUp(selectionFields, "AllocColor")
    <3>1. Totals(<<4, 2, 2, 2, 2>>, 12) BY FieldTotals
    <3> QED BY <3>1
  <2>3. AddsUp(selectionFields, "TranslateCoordinates")
    <3>1. Totals(<<4, 4, 2, 2>>, 12) BY FieldTotals
    <3> QED BY <3>1
  <2>4. AddsUp(selectionFields, "GrabPointer")
    <3>1. Totals(<<4, 2, 1, 1, 4, 4, 4>>, 20) BY FieldTotals
    <3> QED BY <3>1
  <2>5. AddsUp(selectionFields, "UngrabPointer")
    <3>1. Totals(<<4>>, 4) BY FieldTotals
    <3> QED BY <3>1
    <2>6. n \in {"ConvertSelection", "AllocColor", "TranslateCoordinates",
        "GrabPointer", "UngrabPointer"}
    BY <1>8
  <2> HIDE DEF selectionFields, MinWords, AddsUp
  <2> QED BY <1>8, <2>1, <2>2, <2>3, <2>4, <2>5, <2>6
<1>9. CASE s = cursorFields
  <2> USE DEF cursorFields, MinWords
  <2>1. AddsUp(cursorFields, "OpenFont")
    <3>1. Totals(<<4, 2, 2>>, 8) BY FieldTotals
    <3> QED BY <3>1
  <2>2. AddsUp(cursorFields, "CloseFont")
    <3>1. Totals(<<4>>, 4) BY FieldTotals
    <3> QED BY <3>1
  <2>3. AddsUp(cursorFields, "CreateGlyphCursor")
    <3>1. Totals(<<4, 4, 4, 2, 2, 2, 2, 2, 2, 2, 2>>, 28) BY FieldTotals
    <3> QED BY <3>1
  <2>4. AddsUp(cursorFields, "FreeCursor")
    <3>1. Totals(<<4>>, 4) BY FieldTotals
    <3> QED BY <3>1
  <2>5. AddsUp(cursorFields, "GetImage")
    <3>1. Totals(<<4, 2, 2, 2, 2, 4>>, 16) BY FieldTotals
    <3> QED BY <3>1
    <2>6. n \in {"OpenFont", "CloseFont", "CreateGlyphCursor", "FreeCursor",
        "GetImage"}
    BY <1>9
  <2> HIDE DEF cursorFields, MinWords, AddsUp
  <2> QED BY <1>9, <2>1, <2>2, <2>3, <2>4, <2>5, <2>6
<1>10. CASE s = keyFields
  <2> USE DEF keyFields, MinWords
  <2>1. AddsUp(keyFields, "GetKeyboardMapping")
    <3>1. Totals(<<1, 1, 2>>, 4) BY FieldTotals
    <3> QED BY <3>1
  <2>2. AddsUp(keyFields, "GetModifierMapping")
    <3>1. Totals(<<>>, 0) BY FieldTotals
    <3> QED BY <3>1
    <2>3. n \in {"GetKeyboardMapping", "GetModifierMapping"}
    BY <1>10
  <2> HIDE DEF keyFields, MinWords, AddsUp
  <2> QED BY <1>10, <2>1, <2>2, <2>3
<1>11. CASE s = xineramaFields
  <2> USE DEF xineramaFields, MinWords
  <2>1. AddsUp(xineramaFields, "IsActive")
    <3>1. Totals(<<>>, 0) BY FieldTotals
    <3> QED BY <3>1
  <2>2. AddsUp(xineramaFields, "QueryScreens")
    <3>1. Totals(<<>>, 0) BY FieldTotals
    <3> QED BY <3>1
    <2>3. n \in {"IsActive", "QueryScreens"}
    BY <1>11
  <2> HIDE DEF xineramaFields, MinWords, AddsUp
  <2> QED BY <1>11, <2>1, <2>2, <2>3
<1> QED
  BY <1>1, <1>2, <1>3, <1>4, <1>5, <1>6, <1>7, <1>8, <1>9, <1>10, <1>11 DEF Sections

(* The fixed part of a request is what the server expects it to be.        *)
LEMMA FieldSums ==
  ASSUME NEW n \in Names
  PROVE  /\ Sum(fields[n]) = 4 * MinWords[n] - 4
         /\ MinWords[n] \in Nat \ {0}
<1>1. PICK s \in Sections : n \in DOMAIN s BY DEF Names
<1> DEFINE t == CHOOSE r \in Sections : n \in DOMAIN r
<1>2. t \in Sections /\ n \in DOMAIN t BY <1>1
<1>3. fields[n] = t[n] BY DEF fields
<1>4. AddsUp(t, n)
  <2> HIDE DEF t
  <2> QED BY <1>2, SectionSums
<1>5. MinWords[n] \in Nat \ {0}
  <2>1. n \in DOMAIN MinWords
    <3> USE DEF MinWords
    <3>1. DOMAIN s \subseteq DOMAIN MinWords
      BY DEF Sections, atomFields, windowFields, propertyFields, drawingFields, imageFields,
             focusFields, queryFields, selectionFields, cursorFields, keyFields, xineramaFields
    <3> QED BY <1>1, <3>1
  <2> QED BY <2>1 DEF MinWords
<1>6. Sum(t[n]) = 4 * MinWords[n] - 4
  <2>1. PICK r : r = t[n] OBVIOUS
  <2>2. PICK f : SumOf(f, r) BY <1>4, <2>1, SumIs DEF AddsUp
  <2>3. Sum(r) \in Nat BY <1>4, <2>1, <2>2 DEF AddsUp, SumOf
  <2> HIDE DEF t
  <2> QED BY <1>4, <1>5, <2>1, <2>3 DEF AddsUp
<1> QED BY <1>3, <1>5, <1>6

(* Padding makes a number a multiple of four.                              *)
LEMMA PadIs ==
  ASSUME NEW n \in Nat
  PROVE  pad(n) \in 0 .. 3 /\ n + pad(n) = 4 * ((n + 3) \div 4) /\ (n + 3) \div 4 \in Nat
  BY DEF pad

(* The length of a request, in words: that of its fields and of its body.  *)
LEMMA WordsIs ==
  ASSUME NEW q \in Encoded
  PROVE  /\ Bytes(q) = 4 * (MinWords[q.name] + ((q.size + 3) \div 4))
         /\ Words(q) = MinWords[q.name] + ((q.size + 3) \div 4)
         /\ Words(q) \in Nat \ {0} /\ ~finishPanics(q)
<1> DEFINE m == MinWords[q.name]  b == (q.size + 3) \div 4
           p == IF PadsBody(q.name) THEN pad(q.size) ELSE 0
<1>1. q.name \in Names /\ q.size \in Nat BY DEF Encoded
<1>2. Sum(fields[q.name]) = 4 * m - 4 /\ m \in Nat \ {0} BY <1>1, FieldSums
<1>3. b \in Nat /\ q.size + p = 4 * b /\ p \in Nat
  <2>1. CASE PadsBody(q.name) BY <1>1, <2>1, PadIs
  <2>2. CASE ~PadsBody(q.name)
    <3>1. q.size % 4 = 0 BY <2>2 DEF Encoded
    <3>2. \A k \in Nat : k % 4 = 0 => k = 4 * ((k + 3) \div 4) /\ (k + 3) \div 4 \in Nat
      BY SMT
    <3>3. p = 0 BY <2>2
    <3>4. q.size = 4 * b /\ b \in Nat BY <1>1, <3>1, <3>2
    <3> HIDE DEF p, b
    <3> QED BY <3>3, <3>4
  <2> QED BY <2>1, <2>2
<1>4. Bytes(q) = 4 + Sum(fields[q.name]) + q.size + p BY DEF Bytes
<1> HIDE DEF m, b, p
<1>5. Bytes(q) = 4 * (m + b) /\ m + b \in Nat \ {0} BY <1>1, <1>2, <1>3, <1>4
<1>6. Words(q) = m + b /\ Bytes(q) % 4 = 0 BY <1>5 DEF Words
<1> QED BY <1>5, <1>6 DEF m, b, finishPanics

-----------------------------------------------------------------------------
(* What the server makes of a request.                                     *)

(* Rows that fill a whole number of requests of m rows, but for the last.  *)
LEMMA RowsLeft ==
  ASSUME NEW h \in Nat, NEW m \in Nat \ {0}, NEW n, n = (h + m - 1) \div m
  PROVE  n \in Nat /\ (n > 0 => h - m * (n - 1) \in 1 .. m)
<1>1. h + m - 1 \in Nat OBVIOUS
<1>2. h + m - 1 = m * n + ((h + m - 1) % m) /\ n \in Int /\ (h + m - 1) % m \in 0 .. m - 1
  BY <1>1, ModDiv, ModInRange
<1>3. PICK r \in 0 .. m - 1 : h + m - 1 = m * n + r BY <1>2
<1>4. ~(n <= -1)
  <2>1. n <= -1 => m * n <= -m BY <1>2, SMT
  <2> QED BY <1>2, <1>3, <2>1, SMT
<1>5. m * (n - 1) = m * n - m BY <1>2, SMT
<1> QED BY <1>2, <1>3, <1>4, <1>5, SMT

(* Where the lines of an image are whole words they are what the server    *)
(* takes them for.                                                         *)
LEMMA LinesAgree ==
  ASSUME NEW im \in Pictures, WholeLines(im)
  PROVE  bytesPerLine(im) = lineBytes(im) /\ \E k \in Nat : lineBytes(im) = 4 * k
<1> DEFINE w == im.w  d == im.depth
<1>1. w \in Nat /\ d \in Nat BY DEF Pictures
<1>2. CASE d \in {24, 32}
  <2>1. lineBytes(im) = 4 * ((w * 32 + 31) \div 32) BY <1>2 DEF lineBytes, bitsPerPixel
  <2>2. bytesPerLine(im) = w * 4 BY <1>1, <1>2 DEF bytesPerLine
  <2> HIDE DEF w, d
  <2> QED BY <1>1, <2>1, <2>2
<1>3. CASE d \in {1, 4, 8, 16} /\ (w * d) % 32 = 0
  <2>1. bitsPerPixel(d) = d BY <1>3 DEF bitsPerPixel
  <2>2. bytesPerLine(im) = (w * d) \div 8 BY <1>3 DEF bytesPerLine
  <2>3. lineBytes(im) = 4 * ((w * d + 31) \div 32) BY <2>1 DEF lineBytes
  <2>4. PICK x \in Nat : x = w * d
    <3> HIDE DEF w, d
    <3> QED BY <1>1
  <2>5. x % 32 = 0 BY <1>3, <2>4
  <2>6. x \div 8 = 4 * ((x + 31) \div 32) /\ (x + 31) \div 32 \in Nat BY <2>4, <2>5
  <2> QED BY <2>2, <2>3, <2>4, <2>6
<1> QED BY <1>2, <1>3 DEF WholeLines

(* PutImage cuts an image into requests that fit, unless a line does not,  *)
(* or the server takes the lines for longer.                               *)
LEMMA ImageFits ==
  ASSUME NEW im \in Pictures, ~DividesByZero(im), NEW limit \in Nat
  PROVE  /\ PutImage(im, limit) \in Seq(Encoded)
         /\ \A i \in DOMAIN PutImage(im, limit) :
              LET q == PutImage(im, limit)[i]
              IN  /\ q.name = "PutImage"
                  /\ \/ Words(q) <= limit \/ ~WholeLines(q.image)
                     \/ 24 + lineBytes(q.image) > 4 * limit
<1> DEFINE b == bytesPerLine(im)  m == maxRows(im, limit)  n == (im.h + m - 1) \div m
           rows(i) == IF i < n THEN m ELSE im.h - m * (n - 1)
           part(r) == [w |-> im.w, h |-> r, depth |-> im.depth]
           Put(r)  == [name |-> "PutImage", size |-> r * b, unit |-> 1, attrs |-> {},
                       image |-> part(r)]
<1>0. im.w \in Nat /\ im.h \in Nat /\ im.depth \in Nat
      /\ im = [w |-> im.w, h |-> im.h, depth |-> im.depth]
  BY DEF Pictures
<1>1. b \in Nat \ {0}
  <2>1. im.w * im.depth \in Nat BY <1>0
  <2>2. PICK x \in Nat : x = im.w * im.depth BY <2>1
  <2>3. x \div 8 \in Nat OBVIOUS
  <2> QED BY <1>0, <2>2, <2>3 DEF bytesPerLine, DividesByZero
<1>2. m \in Nat \ {0} /\ (m = 1 \/ m * b <= 4 * (IF limit = 0 THEN 65536 ELSE limit) - 24)
  <2> DEFINE top == 4 * (IF limit = 0 THEN 65536 ELSE limit) - 24
             fit == top \div b
  <2>1. top \in Int /\ m = IF fit < 1 THEN 1 ELSE fit BY DEF maxRows, headerLen
  <2>2. CASE top >= 0
    <3>1. top = b * fit + (top % b) /\ fit \in Int /\ top % b \in 0 .. b - 1
      <4>1. top \in Nat BY <2>1, <2>2
      <4> HIDE DEF top, b
      <4> QED BY <1>1, <4>1, ModDiv, ModInRange
    <3>2. b * fit <= top
      <4> HIDE DEF top, b, fit
      <4> QED BY <1>1, <2>1, <3>1
    <3>3. b * fit = fit * b
      <4> HIDE DEF top, b, fit
      <4> QED BY <1>1, <3>1
    <3> HIDE DEF b, fit, m, top
    <3>4. CASE fit < 1 BY <2>1, <3>1, <3>4
    <3>5. CASE fit >= 1
      <4>1. m = fit BY <2>1, <3>1, <3>5
      <4> QED BY <4>1, <3>1, <3>2, <3>3, <3>5, <2>1 DEF top
    <3> QED BY <3>1, <3>4, <3>5
  <2>3. CASE top < 0
    <3>1. fit < 1 /\ fit \in Int
      <4> HIDE DEF top, b
      <4> QED BY <1>1, <2>1, <2>3
    <3> QED BY <2>1, <3>1
  <2> QED BY <2>1, <2>2, <2>3
<1>3. n \in Nat /\ \A i \in 1 .. n : rows(i) \in 1 .. m
  <2>1. PICK h \in Nat : h = im.h BY <1>0
  <2>2. n \in Nat /\ (n > 0 => h - m * (n - 1) \in 1 .. m)
    <3>1. n = (h + m - 1) \div m BY <2>1
    <3>2. m \in Nat \ {0} BY <1>2
    <3> HIDE DEF m, n
    <3> QED BY <2>1, <3>1, <3>2, RowsLeft
  <2> HIDE DEF m, n
  <2> QED BY <1>2, <2>1, <2>2
<1>4. PutImage(im, limit) = [i \in 1 .. n |-> Put(rows(i))]
  <2>1. \A i \in 1 .. n : Put(rows(i)) = Rows([im EXCEPT !.h = rows(i)])
    <3> TAKE i \in 1 .. n
    <3>1. \A r : Put(r) = Rows([im EXCEPT !.h = r])
      <4> TAKE r
      <4>1. [im EXCEPT !.h = r] = part(r) BY <1>0
      <4>2. Rows(part(r)) = Put(r) BY DEF Rows, bytesPerLine
      <4> HIDE DEF Put, part
      <4> QED BY <4>1, <4>2
    <3> HIDE DEF Put, rows
    <3> QED BY <3>1
  <2>2. PutImage(im, limit) = [i \in 1 .. n |-> Rows([im EXCEPT !.h = rows(i)])]
    BY Zenon DEF PutImage
  <2> HIDE DEF Put, rows, n, b
  <2> QED BY <2>1, <2>2
<1>5. "PutImage" \in Names
  BY DEF Names, Sections, imageFields
<1>6. ASSUME NEW r \in 1 .. m
      PROVE  /\ Put(r) \in Encoded
             /\ \/ Words(Put(r)) <= limit \/ ~WholeLines(part(r))
                \/ 24 + lineBytes(part(r)) > 4 * limit
  <2> DEFINE q == Put(r)
  <2>1. r \in Nat /\ part(r) \in Pictures
    <3>1. r \in Nat
      <4> HIDE DEF m
      <4> QED BY <1>2
    <3> QED BY <1>0, <3>1 DEF Pictures
  <2>2. r * b \in Nat
    <3> HIDE DEF b, m
    <3> QED BY <1>1, <2>1
  <2>3. q \in Encoded
    <3>1. b = bytesPerLine(part(r)) BY DEF bytesPerLine
    <3>2. part(r).h = r OBVIOUS
    <3> HIDE DEF b, m, part
    <3> QED BY <1>5, <2>1, <2>2, <3>1, <3>2 DEF Encoded, PadsBody
  <2>4. Words(q) = 6 + ((r * b + 3) \div 4)
    <3>1. q.name = "PutImage" /\ q.size = r * b OBVIOUS
    <3>2. MinWords["PutImage"] = 6 BY DEF MinWords
    <3> HIDE DEF q
    <3> QED BY <2>3, <3>1, <3>2, WordsIs
  <2>5. Words(q) <= limit \/ 24 + b > 4 * limit
    <3>1. PICK z \in Nat : z = r * b BY <2>2
    <3>2. CASE m = 1
      <4>1. z = b
        <5> HIDE DEF b, m
        <5> QED BY <1>1, <3>1, <3>2
      <4> HIDE DEF b, m, q
      <4> QED BY <1>1, <2>4, <3>1, <4>1
    <3>3. CASE limit = 0
      <4> HIDE DEF b
      <4> QED BY <1>1, <3>3
    <3>4. CASE m # 1 /\ limit # 0
      <4>1. m * b <= 4 * limit - 24 BY <1>2, <3>4
      <4>2. z <= m * b
        <5> HIDE DEF b, m
        <5>1. (m - r) * b >= 0 /\ (m - r) * b = m * b - r * b BY <1>1, <1>2
        <5> QED BY <1>1, <1>2, <3>1, <5>1
      <4>3. PICK y \in Nat : y = m * b
        <5> HIDE DEF b, m
        <5> QED BY <1>1, <1>2
      <4> HIDE DEF b, m, q
      <4> QED BY <2>4, <3>1, <4>1, <4>2, <4>3
    <3> QED BY <3>2, <3>3, <3>4
  <2>6. WholeLines(part(r)) => lineBytes(part(r)) = b
    <3>1. b = bytesPerLine(part(r)) BY DEF bytesPerLine
    <3> HIDE DEF b, part
    <3> QED BY <2>1, <3>1, LinesAgree
  <2> HIDE DEF q, b, part, m
  <2> QED BY <2>3, <2>5, <2>6 DEF q
<1>7. ASSUME NEW i \in 1 .. n
      PROVE  /\ Put(rows(i)) \in Encoded
             /\ Put(rows(i)).name = "PutImage" /\ Put(rows(i)).image = part(rows(i))
             /\ \/ Words(Put(rows(i))) <= limit \/ ~WholeLines(part(rows(i)))
                \/ 24 + lineBytes(part(rows(i))) > 4 * limit
  <2>1. PICK r \in 1 .. m : r = rows(i) BY <1>3
  <2>2. Put(r).name = "PutImage" /\ Put(r).image = part(r) OBVIOUS
  <2> HIDE DEF Put, rows, part, m, n
  <2> QED BY <1>6, <2>1, <2>2
<1> HIDE DEF n, rows, b, Put, part
<1> QED BY <1>3, <1>4, <1>7

(* A request with whole items, or whole lines, is as long as the server    *)
(* expects.                                                                *)
LEMMA Expects ==
  ASSUME NEW q \in Encoded,
         IF q.name = "PutImage" THEN WholeLines(q.image) ELSE q.size % q.unit = 0
  PROVE  Understood(q)
<1>1. q.size \in Nat /\ q.unit \in Nat \ {0} /\ q.attrs \in SUBSET DOMAIN cwBit
      /\ q.image \in Pictures
  BY DEF Encoded
<1>2. ASSUME q.name # "PutImage" PROVE Words(q) = Expected(q)
  <2>1. q.size = q.unit * (q.size \div q.unit) + (q.size % q.unit) /\ q.size \div q.unit \in Int
    BY <1>1, ModDiv
  <2>2. (q.size \div q.unit) * q.unit = q.size
    <3>1. PICK x \in Int : x = q.size \div q.unit BY <2>1
    <3>2. q.size = q.unit * x BY <1>1, <1>2, <2>1, <3>1
    <3> QED BY <1>1, <3>1, <3>2
  <2>3. Expected(q) = MinWords[q.name] + (q.size + 3) \div 4 BY <1>2, <2>2 DEF Expected
  <2> QED BY <2>3, WordsIs
<1>3. ASSUME q.name = "PutImage" PROVE Words(q) = Expected(q)
  <2>1. q.size = q.image.h * bytesPerLine(q.image) BY <1>3 DEF Encoded
  <2>2. bytesPerLine(q.image) = lineBytes(q.image) BY <1>1, <1>3, LinesAgree
  <2>3. q.size = q.image.h * lineBytes(q.image) BY <2>1, <2>2
  <2>4. Expected(q) = MinWords[q.name] + (q.size + 3) \div 4 BY <1>3, <2>3 DEF Expected
  <2> QED BY <2>4, WordsIs
<1>4. Words(q) = Expected(q) BY <1>2, <1>3
<1>5. ValuesInOrder(q)
  <2>1. \A i, j \in DOMAIN cwOrder : i < j => cwBit[cwOrder[i]] < cwBit[cwOrder[j]]
    <3>1. cwBit[cwOrder[1]] = 1 /\ cwBit[cwOrder[2]] = 3 /\ cwBit[cwOrder[3]] = 9
          /\ cwBit[cwOrder[4]] = 11 /\ cwBit[cwOrder[5]] = 13 /\ DOMAIN cwOrder = 1 .. 5
      BY DEF cwBit, cwOrder
    <3> QED BY <3>1
  <2>2. DOMAIN cwBit \subseteq ToSet(cwOrder)
    <3>1. DOMAIN cwOrder = 1 .. 5 /\ cwOrder[1] = "BackPixel" /\ cwOrder[2] = "BorderPixel"
          /\ cwOrder[3] = "OverrideRedirect" /\ cwOrder[4] = "EventMask"
          /\ cwOrder[5] = "Colormap"
      BY DEF cwOrder
    <3> QED BY <3>1 DEF cwBit, ToSet
  <2> QED BY <1>1, <2>1, <2>2 DEF ValuesInOrder
<1> QED BY <1>4, <1>5 DEF Understood

-----------------------------------------------------------------------------
(* Replies and the keyboard.                                               *)

(* A decoder stays inside the reply it is meant for.                       *)
LEMMA Inside ==
  ASSUME NEW name, HasReply(name), NEW n \in Nat, NEW unit \in Nat
  PROVE  DecodesInside(name, n, unit, ExtraWords(name, n, unit))
<1> DEFINE extra == ExtraWords(name, n, unit)  items == itemBytes(name, n, unit)
<1>0. PICK k \in Nat : k = n * unit OBVIOUS
<1>1. CASE name = "GetProperty"
  <2>1. extra = (k + 3) \div 4 /\ items = k BY <1>0, <1>1, Zenon DEF ExtraWords, itemBytes
  <2>2. lastByte[name] = 20 BY <1>1 DEF lastByte
  <2> QED BY <2>1, <2>2 DEF DecodesInside, bodyBytes
<1>2. CASE name = "GetWindowAttributes"
  <2>1. extra = 3 /\ items = 0 BY <1>2, Zenon DEF ExtraWords, itemBytes
  <2>2. lastByte[name] = 42 BY <1>2 DEF lastByte
  <2> QED BY <2>1, <2>2 DEF DecodesInside, bodyBytes
<1>3. CASE name \in {"GetModifierMapping", "QueryScreens"}
  <2>1. extra = 2 * n /\ items = 8 * n BY <1>3, Zenon DEF ExtraWords, itemBytes
  <2>2. lastByte[name] \in 0 .. 32 BY <1>3 DEF lastByte
  <2>3. items <= 4 * extra BY <2>1
  <2> QED BY <2>1, <2>2, <2>3 DEF DecodesInside, bodyBytes
<1>4. CASE name \in {"QueryTree", "GetImage", "GetKeyboardMapping"}
  <2>1. extra = n /\ items = 4 * n BY <1>4, Zenon DEF ExtraWords, itemBytes
  <2>2. lastByte[name] \in 0 .. 32 BY <1>4 DEF lastByte
  <2>3. items <= 4 * extra BY <2>1
  <2> QED BY <2>1, <2>2, <2>3 DEF DecodesInside, bodyBytes
<1>5. CASE name \in {"InternAtom", "QueryExtension", "GrabKeyboard", "GetInputFocus",
                     "GetGeometry", "QueryPointer", "AllocColor",
                     "TranslateCoordinates", "GrabPointer", "IsActive"}
  <2>1. extra = 0 /\ items = 0 BY <1>5, Zenon DEF ExtraWords, itemBytes
  <2>2. lastByte[name] \in 0 .. 32 BY <1>5 DEF lastByte
  <2> QED BY <2>1, <2>2 DEF DecodesInside, bodyBytes
<1> QED BY <1>1, <1>2, <1>3, <1>4, <1>5 DEF HasReply

(* Extra words are counted.                                                *)
LEMMA ExtraIsNat ==
  ASSUME NEW name, NEW n \in Nat, NEW unit \in Nat
  PROVE  ExtraWords(name, n, unit) \in Nat
<1> DEFINE extra == ExtraWords(name, n, unit)
<1>0. PICK k \in Nat : k = n * unit OBVIOUS
<1>1. extra \in {(k + 3) \div 4, 3, 2 * n, n, 0} BY <1>0, Zenon DEF ExtraWords
<1> QED BY <1>1

(* GetKeyboardMapping asks for every keycode the server has.               *)
LEMMA AsksForAll ==
  ASSUME NEW r \in Setups
  PROVE  keyCount(r.min, r.max) = r.max - r.min + 1 /\ r.max - r.min + 1 \in Nat \ {0}
<1>1. r.min \in Nat \ {0} /\ r.max \in r.min .. KeyMod - 1 /\ KeyMod \in Nat \ {0}
  BY DialAssumption, RequestsAssumption
<1>2. PICK a \in Nat \ {0}, b \in Nat : a = r.min /\ b = r.max /\ a <= b /\ b < KeyMod
  BY <1>1
<1>3. (b - a + 1) % KeyMod = b - a + 1 BY <1>1, <1>2
<1> QED BY <1>2, <1>3 DEF keyCount

(* Where Lookup finds the symbols of a row.                                *)
LEMMA RowOf ==
  ASSUME NEW l \in Layouts, NEW k \in 0 .. Len(l) - 1, NEW i \in Nat, i < Len(l[1])
  PROVE  /\ k * Len(l[1]) + i + 1 \in 1 .. Len(l) * Len(l[1])
         /\ Symbols(l)[k * Len(l[1]) + i + 1] = l[k + 1][i + 1]
<1> DEFINE c == Len(l[1])  x == k * c + i + 1
<1>1. l \in Seq(Seq(Nat)) /\ l # <<>> BY SessionAssumption
<1>2. c \in Nat \ {0} /\ Len(l) \in Nat \ {0} BY <1>1
<1>3. k * c \in Nat /\ Len(l) * c \in Nat /\ k * c + c <= Len(l) * c
  <2>1. PICK m \in Nat : m = Len(l) BY <1>2
  <2>2. (m - (k + 1)) * c >= 0 /\ (m - (k + 1)) * c = m * c - (k * c + c)
    <3> HIDE DEF c
    <3> QED BY <1>2, <2>1
  <2> HIDE DEF c
  <2> QED BY <1>2, <2>1, <2>2
<1>4. x \in 1 .. Len(l) * c
  <2>1. PICK y \in Nat, z \in Nat : y = Len(l) * c /\ z = k * c BY <1>3
  <2>2. z + i + 1 \in 1 .. y
    <3>1. i < c OBVIOUS
    <3> HIDE DEF c
    <3>2. z + c <= y BY <1>3, <2>1
    <3> QED BY <1>2, <2>1, <3>1, <3>2
  <2> QED BY <2>1, <2>2
<1>5. c * k + i \in Nat /\ c * k = k * c
  <2> HIDE DEF c
  <2> QED BY <1>2, <1>3
<1>6. (x - 1) % c = i
  <2>1. i \in 0 .. c - 1 BY <1>2
  <2>2. (c * k + i) % c = i
    <3> HIDE DEF c
    <3> QED BY <1>2, <1>5, <2>1, ModIs
  <2> HIDE DEF c
  <2> QED BY <1>2, <1>5, <2>2
<1>7. (x - 1) \div c = k
  <2>1. x - 1 \in Nat BY <1>4, <1>5
  <2>2. x - 1 = c * ((x - 1) \div c) + i /\ (x - 1) \div c \in Int
    <3> HIDE DEF c, x
    <3> QED BY <1>2, <1>6, <2>1, ModDiv
  <2>3. PICK y \in Int : y = (x - 1) \div c BY <2>2
  <2>4. c * y = c * k
    <3> HIDE DEF c
    <3> QED BY <1>2, <1>5, <2>2, <2>3
  <2>5. c * (y - k) = 0
    <3> HIDE DEF c
    <3> QED BY <1>2, <2>3, <2>4
  <2>6. ~(y - k >= 1) /\ ~(y - k <= -1)
    <3> HIDE DEF c
    <3>1. y - k >= 1 => c * (y - k) >= c BY <1>2, <2>3, SMT
    <3>2. y - k <= -1 => c * (y - k) <= -c BY <1>2, <2>3, SMT
    <3> QED BY <1>2, <2>5, <3>1, <3>2
  <2> HIDE DEF c, x
  <2> QED BY <2>3, <2>6
<1>8. Symbols(l)[x] = l[1 + ((x - 1) \div c)][1 + ((x - 1) % c)]
  <2> HIDE DEF x
  <2> QED BY <1>4 DEF Symbols
<1>9. Symbols(l)[x] = l[k + 1][i + 1]
  <2>1. 1 + k = k + 1 /\ 1 + i = i + 1 OBVIOUS
  <2> HIDE DEF c, x
  <2> QED BY <1>6, <1>7, <1>8, <2>1
<1> QED BY <1>4, <1>9

(* Lookup in a map of a whole keyboard.                                    *)
LEMMA LookupFinds ==
  ASSUME NEW r \in Setups, NEW l \in Layouts, Len(l) = r.max - r.min + 1, NEW map,
         map = [first |-> r.min, cols |-> Len(l[1]), rows |-> l, syms |-> Symbols(l)],
         NEW keycode \in r.min - 1 .. r.max + 1, NEW shift \in BOOLEAN, NEW lock \in BOOLEAN
  PROVE  Lookup(map, keycode, shift, lock) = Own(map, keycode, shift, lock)
<1> DEFINE n == Len(l)  c == Len(l[1])  k == keycode - r.min
           start == k * c
           get(i) == IF i < c THEN Symbols(l)[start + i + 1] ELSE NoSymbol
           useShift == IF lock /\ Letter(get(0)) THEN ~shift ELSE shift
           found == IF useShift /\ get(1) # NoSymbol THEN get(1)
                    ELSE IF get(0) # NoSymbol THEN get(0) ELSE get(1)
           row == l[k + 1] \o <<NoSymbol, NoSymbol>>
           upper == shift # (lock /\ row[1] \in 65 .. 90 \cup 97 .. 122)
           first == IF upper THEN row[2] ELSE row[1]
           second == IF upper THEN row[1] ELSE row[2]
<1>1. map.first = r.min /\ map.cols = c /\ map.rows = l /\ map.syms = Symbols(l) OBVIOUS
<1>2. r.min \in Nat \ {0} /\ r.max \in r.min .. KeyMod - 1 /\ KeyMod \in Nat \ {0}
  BY DialAssumption, RequestsAssumption
<1>3. l \in Seq(Seq(Nat)) /\ l # <<>> /\ n \in Nat \ {0} /\ c \in Nat /\ n * c \in Nat
  BY SessionAssumption
<1>4. Len(Symbols(l)) = n * c
  <2>1. PICK m \in Nat : m = n * c BY <1>3
  <2> QED BY <2>1 DEF Symbols
<1>5. Lookup(map, keycode, shift, lock) =
        IF keycode < r.min \/ start + c > n * c THEN NoSymbol ELSE found
  BY <1>1, <1>4, Zenon DEF Lookup
<1>6. Own(map, keycode, shift, lock) =
        IF keycode \notin r.min .. r.min + n - 1 THEN NoSymbol
        ELSE IF first # NoSymbol THEN first ELSE second
  BY <1>1 DEF Own
<1>7. k \in Int /\ start \in Int BY <1>2, <1>3
<1>8. /\ n = r.max - r.min + 1 /\ r.min \in Nat /\ r.max \in Nat
       /\ keycode \in r.min - 1 .. r.max + 1
  BY <1>2
<1>9. CASE keycode < r.min
  <2>1. keycode \notin r.min .. r.min + n - 1 BY <1>2, <1>3, <1>9
  <2> QED BY <1>5, <1>6, <1>9, <2>1, Zenon
<1>10. CASE keycode > r.max
  <2>1. k = n /\ keycode \notin r.min .. r.min + n - 1
    <3> HIDE DEF n, c
    <3> QED BY <1>8, <1>10
  <2>2. start = n * c BY <2>1
  <2>3. CASE c = 0
    <3>1. ~(0 < c) /\ ~(1 < c) BY <2>3
    <3>2. found = NoSymbol BY <3>1, Zenon
    <3> QED BY <1>5, <1>6, <2>1, <3>2, Zenon
  <2>4. CASE c # 0
    <3>1. PICK m \in Nat : m = n * c BY <1>3
    <3>2. start + c > n * c BY <1>3, <2>2, <2>4, <3>1
    <3> QED BY <1>5, <1>6, <2>1, <3>2, Zenon
  <2> QED BY <2>3, <2>4
<1>11. CASE keycode \in r.min .. r.max
  <2>1. k \in 0 .. n - 1 /\ keycode \in r.min .. r.min + n - 1
    <3> HIDE DEF n, c
    <3> QED BY <1>11, <1>8
  <2>2. ~(start + c > n * c) /\ ~(keycode < r.min)
    <3>1. PICK m \in Nat : m = n BY <1>3
    <3>2. (m - (k + 1)) * c >= 0 /\ (m - (k + 1)) * c = m * c - (k * c + c)
      <4> HIDE DEF c, k, n
      <4> QED BY <1>3, <2>1, <3>1
    <3>3. start = k * c OBVIOUS
    <3> HIDE DEF c, k, n, start
    <3> QED BY <1>2, <1>3, <1>7, <1>11, <3>1, <3>2, <3>3
  <2>3. l[k + 1] \in Seq(Nat) /\ Len(l[k + 1]) = c
    <3>1. k + 1 \in DOMAIN l /\ k + 1 \in 1 .. Len(l) BY <1>3, <2>1
    <3>2. Len(l[k + 1]) = c
      <4> HIDE DEF k
      <4> QED BY <3>1, SessionAssumption
    <3>3. l[k + 1] \in Seq(Nat)
      <4> HIDE DEF k
      <4> QED BY <1>3, <3>1
    <3> QED BY <3>2, <3>3
  <2>s. PICK s \in Seq(Nat) : s = l[k + 1] /\ Len(s) = c BY <2>3
  <2>t. row = s \o <<0, 0>> BY <2>s DEF NoSymbol
  <2>u. ASSUME NEW j \in 1 .. c + 2 PROVE row[j] = IF j <= c THEN s[j] ELSE 0
    <3>1. <<0, 0>> \in Seq(Nat) /\ Len(<<0, 0>>) = 2 OBVIOUS
    <3>2. row[j] = IF j <= c THEN s[j] ELSE <<0, 0>>[j - c]
      <4>1. \A t \in Seq(Nat) : \A m \in 1 .. Len(s) + Len(t) :
              (s \o t)[m] = IF m <= Len(s) THEN s[m] ELSE t[m - Len(s)]
        BY ConcatProperties
      <4> HIDE DEF c, k, row
      <4> QED BY <1>3, <2>s, <2>t, <3>1, <4>1
    <3>3. j > c => j - c \in {1, 2}
      <4> HIDE DEF c
      <4> QED BY <1>3
    <3>4. <<0, 0>>[1] = 0 /\ <<0, 0>>[2] = 0 OBVIOUS
    <3> HIDE DEF c, row
    <3> QED BY <1>3, <3>2, <3>3, <3>4
  <2>4. ASSUME NEW i \in {0, 1} PROVE row[i + 1] = get(i)
    <3>1. CASE i < c
      <4>1. get(i) = l[k + 1][i + 1]
        <5>1. Symbols(l)[k * Len(l[1]) + i + 1] = l[k + 1][i + 1]
          <6>1. k \in 0 .. Len(l) - 1 /\ i \in Nat /\ i < Len(l[1]) BY <2>1, <3>1
          <6> HIDE DEF k
          <6> QED BY <6>1, RowOf
        <5> QED BY <3>1, <5>1
      <4>2. row[i + 1] = l[k + 1][i + 1]
        <5> HIDE DEF k, c, row
        <5> QED BY <1>3, <2>s, <2>u, <3>1
      <4> QED BY <4>1, <4>2
    <3>2. CASE ~(i < c)
      <4>1. get(i) = NoSymbol BY <3>2
      <4>2. row[i + 1] = NoSymbol
        <5> HIDE DEF k, c, row
        <5> QED BY <1>3, <2>u, <3>2 DEF NoSymbol
      <4> QED BY <4>1, <4>2
    <3> QED BY <3>1, <3>2
  <2>5. row[1] = get(0) /\ row[2] = get(1)
    <3>1. row[0 + 1] = get(0) /\ row[1 + 1] = get(1) BY <2>4
    <3> QED BY <3>1
  <2>6. useShift = upper
    <3> HIDE DEF get, row
    <3> QED BY <2>5 DEF Letter
  <2>7. found = IF first # NoSymbol THEN first ELSE second
    <3> HIDE DEF get, row, useShift, upper
    <3> QED BY <2>5, <2>6
  <2> QED BY <1>5, <1>6, <2>1, <2>2, <2>7, Zenon
<1> QED BY <1>2, <1>9, <1>10, <1>11

-----------------------------------------------------------------------------
(* Dial.                                                                   *)

(* What readAuthCookie returns comes from the file.                        *)
LEMMA CookieIs ==
  ASSUME NEW file \in Xauthorities, NEW d
  PROVE  readAuthCookie(file, d) = Nil \/ \E i \in DOMAIN file : readAuthCookie(file, d) = file[i]
<1> DEFINE ends == {i \in DOMAIN file : file[i].cut \/ (MatchHost(file[i], d) /\ MatchNum(file[i], d))}
<1>1. CASE ends = {} BY <1>1 DEF readAuthCookie
<1>2. CASE ends # {}
  <2>1. ends \in SUBSET Nat
    <3>1. file \in Seq(ToSet(file)) BY DialAssumption
    <3>2. DOMAIN file \subseteq Nat BY <3>1
    <3> QED BY <3>2
  <2>2. PICK n \in ends : \A m \in ends : n <= m
    <3> HIDE DEF ends
    <3> QED BY <1>2, <2>1, Least
  <2>3. Min(ends) \in DOMAIN file BY <2>2, Zenon DEF Min
  <2> QED BY <2>3 DEF readAuthCookie
<1> QED BY <1>1, <1>2

(* What parseDisplay does not refuse has a number for its screen.          *)
LEMMA ScreenIsInt ==
  ASSUME NEW d \in Displays, ~Malformed(d)
  PROVE  d.dot => d.screen \in Int
  BY DialAssumption DEF Malformed

(* Each step of Dial keeps what is known of the connection so far.         *)
LEMMA ParseKeeps ==
  ASSUME DInv, parseDisplay
  PROVE  DInv'
<1> USE DEF parseDisplay
<1>1. stage = "start" /\ (~Malformed(display) => display \in Displays)
  BY DEF DInv, DialType, Malformed
<1>2. ~Malformed(display) => ScreenIx' = Asked BY DEF Asked
<1>3. ScreenIx' \in Int BY <1>1, ScreenIsInt
<1>4. stage' \in {"failed", "file", "tcp"} BY Zenon
<1>5. DialType' BY <1>3, <1>4 DEF DInv, DialType
<1>6. Dialling' BY <1>1, <1>2, <1>4 DEF DInv, Dialling, Asked
<1>7. DialOutcome' BY <1>1, <1>4 DEF DInv, Dialling, DialOutcome
<1> QED BY <1>5, <1>6, <1>7 DEF DInv

(* A connection attempt, successful or not.                                *)
LEMMA ConnectKeeps ==
  ASSUME DInv, Connect
  PROVE  DInv'
<1> USE DEF Connect
<1>1. stage' \in {"connected", "abstract", "failed"} BY Zenon
<1>2. DialType' BY <1>1 DEF DInv, DialType
<1>3. Dialling' BY DEF DInv, Dialling, Asked
<1>4. DialOutcome' BY DEF DInv, Dialling, DialOutcome
<1> QED BY <1>2, <1>3, <1>4 DEF DInv

(* The set-up request, with the cookie found.                              *)
LEMMA WriteSetupKeeps ==
  ASSUME DInv, WriteSetup
  PROVE  DInv'
<1>1. stage = "connected" /\ stage' \in {"header", "failed"} /\ display' = display
  BY DEF WriteSetup, Fail
<1>2. PICK file \in Xauthorities : auth' = readAuthCookie(file, display)
  BY DEF WriteSetup
<1>3. auth' = Nil \/ \E i \in DOMAIN file : auth' = file[i] BY <1>2, CookieIs
<1>4. DialType'
  <2>1. auth' = Nil \/ auth' \in ToSet(file) BY <1>3 DEF ToSet
  <2> QED BY <1>1, <2>1 DEF DInv, DialType, WriteSetup, Fail, Abandon
<1>5. Dialling' BY <1>1 DEF DInv, Dialling, WriteSetup, Fail, Abandon, Asked
<1>6. DialOutcome' BY <1>1 DEF DialOutcome, WriteSetup, Fail, Abandon
<1> QED BY <1>4, <1>5, <1>6 DEF DInv

(* The eight bytes at the front of the set-up reply.                       *)
LEMMA ReadHeaderKeeps ==
  ASSUME DInv, ReadHeader
  PROVE  DInv'
<1> USE DEF ReadHeader, Fail, Abandon
<1>1. stage = "header" /\ stage' \in {"body", "failed"} BY Zenon
<1>2. DialType' BY <1>1 DEF DInv, DialType
<1>3. Dialling' BY DEF DInv, Dialling, Asked
<1>4. DialOutcome' BY <1>1 DEF DialOutcome
<1> QED BY <1>2, <1>3, <1>4 DEF DInv

(* parseSetup ends where the body does.                                    *)
LEMMA ParsesAll ==
  ASSUME NEW r \in Setups
  PROVE  parseSetup(r) = bodyLen(r)
<1>1. r.vendor \in Nat BY DialAssumption
<1>2. align4(32 + r.vendor) = 32 + 4 * ((r.vendor + 3) \div 4) BY <1>1 DEF align4
<1> QED BY <1>2 DEF parseSetup, bodyLen

(* The rest of it, and parseSetup.                                         *)
LEMMA ReadBodyKeeps ==
  ASSUME DInv, ReadBody
  PROVE  DInv'
<1> USE DEF ReadBody, Fail, Abandon
<1>1. stage = "body" /\ stage' \in {"failed", "panicked", "dialled"} BY Zenon
<1>2. hello \in Setups /\ ScreenIx = Asked /\ ScreenIx \in Int
  BY <1>1 DEF DInv, Dialling, DialType
<1>3. parseSetup(hello) = bodyLen(hello) BY <1>2, ParsesAll
<1>4. hello.screens \in Seq(Seq(Nat)) /\ hello.status \in 0 .. 2 BY <1>2, DialAssumption
<1>5. stage' = "dialled" =>
        LET n == Len(hello.screens) IN
        /\ hello.status = 1 /\ Setup' = hello /\ panic' = "no"
        /\ ScreenIx' = IF Asked >= n THEN 0 ELSE Asked
        /\ ScreenIx' + 1 \in 1 .. n
  BY <1>1, <1>2, <1>3, <1>4 DEF Chosen
<1>6. stage' = "panicked" =>
        /\ panic' = "screen" /\ Setup' = hello /\ (hello.screens = <<>> \/ ScreenIx' < 0)
  BY <1>1, <1>2, <1>3, <1>4 DEF Chosen
<1>7. stage' = "failed" => UNCHANGED <<Setup, ScreenIx, panic>> /\ sock' = "closed"
  BY <1>1
<1>8. ScreenIx' \in Int BY <1>2 DEF Chosen
<1>9. DialType' BY <1>1, <1>2, <1>5, <1>6, <1>7, <1>8 DEF DInv, DialType
<1>10. Dialling' BY <1>1, <1>2, <1>5, <1>6, <1>7 DEF DInv, Dialling, Asked
<1>11. DialOutcome'
  <2>1. Asked' = Asked BY DEF Asked
  <2>2. sock' = sock \/ sock' = "closed" BY Zenon
  <2>3. sock = "open" BY <1>1 DEF DInv, Dialling
  <2> QED BY <1>1, <1>2, <1>4, <1>5, <1>7, <2>1, <2>2, <2>3 DEF DialOutcome, Asked
<1> QED BY <1>9, <1>10, <1>11 DEF DInv

(* The choice of the screen.                                               *)
LEMMA ReturnKeeps ==
  ASSUME DInv, Return
  PROVE  DInv'
<1> USE DEF Return
<1>1. DialType' BY DEF DInv, DialType
<1>2. Dialling' BY DEF DInv, Dialling, DialType
<1>3. DialOutcome' BY DEF DialOutcome
<1> QED BY <1>1, <1>2, <1>3 DEF DInv

(* All steps of Dial.                                                      *)
LEMMA DialKeeps ==
  ASSUME DInv, Dial
  PROVE  DInv'
  BY ParseKeeps, ConnectKeeps, WriteSetupKeeps, ReadHeaderKeeps, ReadBodyKeeps, ReturnKeeps
     DEF Dial

(* What a step of a goroutine, of the reader or of the server may do to    *)
(* them: nothing, or panic once Dial has returned.                         *)
LEMMA UpKeeps ==
  ASSUME DInv, stage = "up",
         UNCHANGED <<display, auth, sock, hello, Setup, ScreenIx>>,
         \/ UNCHANGED <<stage, panic>>
         \/ stage' = "panicked" /\ panic' \in {"finish", "divide", "decode"}
  PROVE  DInv'
<1>1. stage' \in {"up", "panicked"} OBVIOUS
<1>2. DialType' BY <1>1 DEF DInv, DialType
<1>3. Dialling' BY <1>1 DEF DInv, Dialling
<1>4. DialOutcome' BY <1>1 DEF DialOutcome
<1> QED BY <1>2, <1>3, <1>4 DEF DInv

-----------------------------------------------------------------------------
(* The goroutines.                                                         *)

(* A sequence of elements of T.                                            *)
LEMMA SeqInto ==
  ASSUME NEW S, NEW T, NEW s \in Seq(S), \A i \in DOMAIN s : s[i] \in T
  PROVE  s \in Seq(T)
<1>1. s = [i \in 1 .. Len(s) |-> s[i]] /\ DOMAIN s = 1 .. Len(s) /\ Len(s) \in Nat OBVIOUS
<1>2. s \in [1 .. Len(s) -> T] BY <1>1
<1> QED BY <1>1, <1>2

(* The requests of a call go from todo to the wire one by one.             *)
LEMMA CurrentIs ==
  ASSUME UInv, NEW g \in Users, pc[g] # "idle"
  PROVE  /\ todo[g] \in Seq(Sound) /\ todo[g] # <<>>
         /\ Current(g) \in Sound /\ Tail(todo[g]) \in Seq(Sound)
<1>1. todo[g] \in Seq(Sound) /\ todo[g] # <<>> BY DEF UInv, SessionType, Turns
<1> QED BY <1>1 DEF Current

(* A request that is asked for can be encoded, and has a word at least.    *)
LEMMA SoundWords ==
  ASSUME NEW q \in Sound
  PROVE  q \in Encoded /\ Words(q) \in Nat \ {0} /\ ~finishPanics(q)
<1>1. q \in Encoded BY DEF Sound
<1> QED BY <1>1, WordsIs

(* What a goroutine does after a request is done.                          *)
LEMMA AdvanceIs ==
  ASSUME UInv, NEW g \in Users, NEW rest, Advance(g, rest)
  PROVE  /\ todo'[g] = rest /\ pc'[g] = (IF rest = <<>> THEN "idle" ELSE "ready")
         /\ \A h \in Users : h # g => todo'[h] = todo[h] /\ pc'[h] = pc[h]
         /\ pc' \in [Users -> {"idle", "ready", "writing", "waiting"}]
         /\ rest \in Seq(Sound) => todo' \in [Users -> Seq(Sound)]
<1>1. pc \in [Users -> {"idle", "ready", "writing", "waiting"}] /\ todo \in [Users -> Seq(Sound)]
  BY DEF UInv, SessionType, Turns
<1> QED BY <1>1 DEF Advance

(* Before Dial returns there are no goroutines at work.                    *)
LEMMA UStartup ==
  ASSUME DInv, UInv, Startup
  PROVE  UInv'
<1>1. stage \notin {"up", "panicked"}
  BY DEF Startup, Dial, parseDisplay, Connect, WriteSetup, ReadHeader, ReadBody, Return
<1>2. UNCHANGED <<userVars, out, log, in, readVars, km, serverVars, calls>> BY DEF Startup
<1> USE <1>2 DEF userVars, readVars, serverVars
<1>3. Quiet'  BY <1>1 DEF UInv, Quiet
<1>4. issued = <<>> /\ \A g \in Users : pc[g] = "idle" /\ todo[g] = <<>>
  BY <1>1 DEF UInv, Quiet, SessionType
<1>5. mu = Nobody
  BY <1>4, SessionAssumption DEF UInv, SessionType, Turns
<1>6. SessionType'
  <2>1. \A g \in Users : pc[g] # "writing" BY <1>4
  <2> QED BY <2>1 DEF UInv, SessionType
<1>7. Turns'
  <2>1. \A S : <<>> \in Seq(S) OBVIOUS
  <2>2. todo' \in [Users -> Seq(Sound')] 
    <3>1. todo' \in [Users -> {<<>>}] BY <1>4 DEF UInv, Turns
    <3> QED BY <2>1, <3>1
  <2>3. issued' \in Seq([q : Sound', by : Users]) BY <1>4, <2>1
  <2>4. \A g \in Users : (pc'[g] = "writing") = (mu' = g) BY <1>4, <1>5, SessionAssumption
  <2>5. \A g \in Users : pc'[g] # "waiting" BY <1>4
  <2> QED BY <1>5, <2>2, <2>3, <2>4, <2>5 DEF Turns
<1> QED BY <1>3, <1>6, <1>7 DEF UInv

(* What is asked for depends on the set-up alone.                          *)
LEMMA SoundSame ==
  ASSUME Setup' = Setup
  PROVE  Sound' = Sound
  BY DEF Sound, Fits

(* Quiet is no matter once Dial has returned.                              *)
LEMMA QuietUp ==
  ASSUME stage' \in {"up", "panicked"}
  PROVE  Quiet'
  BY DEF Quiet

(* A call begins with requests that are sound.                             *)
LEMMA UEnter ==
  ASSUME UInv, stage = "up", NEW g \in Users, NEW s \in Seq(Sound), Enter(g, s),
         UNCHANGED <<stage, Setup, readVars, serverVars>>
  PROVE  UInv'
<1> USE DEF Enter, readVars, serverVars
<1>1. /\ pc[g] = "idle" /\ todo'[g] = s /\ pc'[g] = (IF s = <<>> THEN "idle" ELSE "ready")
      /\ \A h \in Users : h # g => todo'[h] = todo[h] /\ pc'[h] = pc[h]
      /\ pc' \in [Users -> {"idle", "ready", "writing", "waiting"}]
      /\ todo' \in [Users -> Seq(Sound)]
  BY AdvanceIs
<1>2. \A h \in Users : h # g => Current(h)' = Current(h) BY <1>1 DEF Current
<1>3. mu # g BY <1>1 DEF UInv, Turns
<1>4. SessionType'
  <2>1. ASSUME NEW h \in Users PROVE (pc'[h] = "idle") = (todo'[h] = <<>>)
    <3>1. (pc[h] = "idle") = (todo[h] = <<>>) BY DEF UInv, SessionType
    <3>2. CASE h = g BY <1>1, <3>2
    <3>3. CASE h # g BY <1>1, <3>1, <3>3
    <3> QED BY <3>2, <3>3
  <2>2. \A h \in Users : pc'[h] = "writing" => sent'[h] < Words(Current(h)')
    BY <1>1, <1>2 DEF UInv, SessionType
  <2>3. calls' \in [Users -> 0 .. MaxCalls]
    BY SessionAssumption DEF UInv, SessionType
  <2> QED BY <1>1, <2>1, <2>2, <2>3 DEF UInv, SessionType
<1>5. Turns'
  <2>1. Sound' = Sound BY SoundSame
  <2>2. ASSUME NEW h \in Users PROVE (pc'[h] = "writing") = (mu' = h)
    <3>1. (pc[h] = "writing") = (mu = h) /\ mu' = mu BY DEF UInv, Turns
    <3>2. CASE h = g BY <1>1, <1>3, <3>1, <3>2
    <3>3. CASE h # g BY <1>1, <3>1, <3>3
    <3> QED BY <3>2, <3>3
  <2>3. mu' # Nobody =>
          issued' # <<>> /\ issued'[Len(issued')] = [q |-> Current(mu)', by |-> mu']
    BY <1>2, <1>3 DEF UInv, Turns, SessionType
  <2>4. ASSUME NEW h \in Users, pc'[h] = "waiting" PROVE HasReply(Current(h)'.name)
    <3>1. h # g BY <1>1, <2>4
    <3>2. pc[h] = "waiting" /\ Current(h)' = Current(h) BY <1>1, <1>2, <2>4, <3>1
    <3> QED BY <3>2 DEF UInv, Turns
  <2>5. issued' \in Seq([q : Sound, by : Users]) BY DEF UInv, Turns
  <2> QED BY <1>1, <2>1, <2>2, <2>3, <2>4, <2>5 DEF Turns
<1> QED BY <1>4, <1>5, QuietUp DEF UInv

(* The calls there are: one request, those of an image, those of Query.    *)
LEMMA UCall ==
  ASSUME DInv, UInv, stage = "up", NEW g \in Users, Call(g)
  PROVE  /\ UInv' /\ DInv'
         /\ \/ UNCHANGED panic
            \/ panic' = "divide" /\ \E im \in Images[g] : im.w * im.depth < 8
<1> USE DEF Call
<1>1. UNCHANGED <<display, auth, sock, hello, Setup, ScreenIx, readVars, serverVars>>
  OBVIOUS
<1>2. Setup \in Setups BY DEF DInv, Dialling
<1>3. CASE Issue(g)
  <2>1. PICK q \in Wanted[g] : Enter(g, <<q>>) BY <1>3 DEF Issue
  <2>2. <<q>> \in Seq(Sound)
    <3>1. q \in Sound BY SessionAssumption DEF Sound
    <3> QED BY <3>1
  <2>3. UNCHANGED <<stage, panic>> BY <1>3 DEF Issue
  <2> QED BY <1>1, <2>1, <2>2, <2>3, UEnter, UpKeeps
<1>4. CASE Query(g)
  <2>1. UNCHANGED <<stage, panic>> BY <1>4 DEF Query
  <2> DEFINE s == [i \in 1 .. 3 |->
                     Request(<<"QueryExtension", "IsActive", "QueryScreens">>[i],
                             IF i = 1 THEN 8 ELSE 0, 1)]
  <2>2. Enter(g, s) BY <1>4 DEF Query
  <2>3. \A n \in {"QueryExtension", "IsActive", "QueryScreens"} : n \in Names
    BY DEF Names, Sections, atomFields, xineramaFields
  <2>4. ASSUME NEW n \in {"QueryExtension", "IsActive", "QueryScreens"}, NEW k \in {0, 8}
        PROVE  Request(n, k, 1) \in Sound
    <3>1. k % 4 = 0 OBVIOUS
    <3> QED BY <2>3, <3>1 DEF Request, Sound, Encoded, Pictures, NoPicture
  <2>5. ASSUME NEW i \in 1 .. 3 PROVE s[i] \in Sound
    <3>1. <<"QueryExtension", "IsActive", "QueryScreens">>[i]
            \in {"QueryExtension", "IsActive", "QueryScreens"}
      OBVIOUS
    <3>2. (IF i = 1 THEN 8 ELSE 0) \in {0, 8} OBVIOUS
    <3> QED BY <2>4, <3>1, <3>2
  <2>6. s \in Seq(Sound)
    <3>1. s \in [1 .. 3 -> Sound]
      <4>1. s = [i \in 1 .. 3 |-> s[i]] OBVIOUS
      <4> HIDE DEF s
      <4> QED BY <2>5, <4>1
    <3>2. \A n \in Nat : [1 .. n -> Sound] \subseteq Seq(Sound) OBVIOUS
    <3>3. 3 \in Nat OBVIOUS
    <3> HIDE DEF s
    <3> QED BY <3>1, <3>2, <3>3, Zenon
  <2> HIDE DEF s
  <2> QED BY <1>1, <2>1, <2>2, <2>6, UEnter, UpKeeps
<1>5. CASE PutImages(g)
  <2>1. PICK im \in Images[g] :
          IF pc[g] = "idle" /\ DividesByZero(im)
          THEN panic' = "divide" /\ stage' = "panicked" /\ UNCHANGED <<userVars, calls>>
          ELSE Enter(g, PutImage(im, Setup.maxReq)) /\ UNCHANGED <<panic, stage>>
    BY <1>5 DEF PutImages
  <2>2. im \in Pictures BY SessionAssumption
  <2>5. im.w \in Nat /\ im.depth \in Nat BY <2>2 DEF Pictures
  <2>3. CASE pc[g] = "idle" /\ DividesByZero(im)
    <3>1. panic' = "divide" /\ stage' = "panicked" /\ UNCHANGED <<userVars, calls>>
      BY <2>1, <2>3
    <3>2. im.w * im.depth < 8
      <4>1. PICK x \in Nat : x = im.w * im.depth BY <2>5
      <4>2. CASE im.depth = 24 BY <2>3, <2>5, <4>2 DEF DividesByZero, bytesPerLine
      <4>3. CASE im.depth # 24
        <5>1. x \div 8 = 0 BY <2>3, <4>1, <4>3 DEF DividesByZero, bytesPerLine
        <5> QED BY <4>1, <5>1
      <4> QED BY <4>2, <4>3
    <3>3. SessionType' BY <3>1 DEF userVars, readVars, serverVars, UInv, SessionType, Current
    <3>4. Turns'
      <4>1. Sound' = Sound BY SoundSame
      <4> QED BY <3>1, <4>1 DEF UInv, Turns, userVars, Current
    <3> QED BY <1>1, <3>1, <3>2, <3>3, <3>4, QuietUp, UpKeeps DEF UInv
  <2>4. CASE ~(pc[g] = "idle" /\ DividesByZero(im))
    <3>1. Enter(g, PutImage(im, Setup.maxReq)) /\ UNCHANGED <<panic, stage>> BY <2>1, <2>4
    <3>2. ~DividesByZero(im) BY <2>4, <3>1 DEF Enter
    <3> DEFINE s == PutImage(im, Setup.maxReq)
    <3>3. s \in Seq(Encoded) /\ \A i \in DOMAIN s :
            /\ s[i].name = "PutImage"
            /\ \/ Words(s[i]) <= Setup.maxReq \/ ~WholeLines(s[i].image)
               \/ 24 + lineBytes(s[i].image) > 4 * Setup.maxReq
      BY <1>2, <2>2, <3>2, ImageFits, DialAssumption
    <3>4. s \in Seq(Sound)
      <4> HIDE DEF s
      <4>1. \A i \in DOMAIN s : s[i] \in Sound BY <3>3 DEF Sound, Fits
      <4>2. s \in Seq(Encoded) BY <3>3
      <4> QED BY <4>1, <4>2, SeqInto, Zenon
    <3> HIDE DEF s
    <3>5. Enter(g, s) BY <3>1 DEF s
    <3> QED BY <1>1, <3>1, <3>4, <3>5, UEnter, UpKeeps
  <2> QED BY <2>3, <2>4
<1> QED BY <1>3, <1>4, <1>5

(* A request is finished and takes its turn.                               *)
LEMMA UBegin ==
  ASSUME DInv, UInv, stage = "up", NEW g \in Users, Begin(g)
  PROVE  /\ UInv' /\ DInv' /\ UNCHANGED <<stage, panic>>
         /\ mu = Nobody /\ mu' = g /\ sent' = [sent EXCEPT ![g] = 0] /\ pc[g] = "ready"
         /\ pc' = [pc EXCEPT ![g] = "writing"]
         /\ issued' = Append(issued, [q |-> Current(g), by |-> g]) /\ UNCHANGED todo
<1> USE DEF Begin
<1>1. pc[g] = "ready" /\ mu = Nobody BY DEF Free
<1>2. Current(g) \in Sound BY <1>1, CurrentIs
<1>3. ~finishPanics(Current(g)) /\ Words(Current(g)) \in Nat \ {0} BY <1>2, SoundWords
<1>4. /\ mu' = g /\ pc' = [pc EXCEPT ![g] = "writing"] /\ sent' = [sent EXCEPT ![g] = 0]
      /\ issued' = Append(issued, [q |-> Current(g), by |-> g])
      /\ UNCHANGED <<todo, panic, stage>>
  BY <1>3
<1>5. pc \in [Users -> {"idle", "ready", "writing", "waiting"}] /\ sent \in [Users -> Nat]
      /\ todo \in [Users -> Seq(Sound)]
  BY DEF UInv, SessionType, Turns
<1>6. \A h \in Users : Current(h)' = Current(h) BY <1>4 DEF Current
<1>7. SessionType'
  <2>1. \A h \in Users : (pc'[h] = "idle") = (todo'[h] = <<>>)
    BY <1>1, <1>4, <1>5 DEF UInv, SessionType
  <2>2. ASSUME NEW h \in Users, pc'[h] = "writing" PROVE sent'[h] < Words(Current(h)')
    <3>1. CASE h = g
      <4>1. sent'[g] = 0 BY <1>4, <1>5
      <4> QED BY <1>3, <1>6, <3>1, <4>1
    <3>2. CASE h # g BY <1>4, <1>5, <1>6, <2>2, <3>2 DEF UInv, SessionType
    <3> QED BY <3>1, <3>2
  <2> QED BY <1>4, <1>5, <2>1, <2>2 DEF UInv, SessionType, readVars, serverVars
<1>8. Turns'
  <2>1. Sound' = Sound BY SoundSame
  <2>2. ASSUME NEW h \in Users PROVE (pc'[h] = "writing") = (mu' = h)
    <3>1. (pc[h] = "writing") = (mu = h) BY DEF UInv, Turns
    <3>2. CASE h = g BY <1>4, <1>5, <3>2
    <3>3. CASE h # g BY <1>1, <1>4, <1>5, <3>1, <3>3, SessionAssumption
    <3> QED BY <3>2, <3>3
  <2>3. issued \in Seq([q : Sound, by : Users]) /\ [q |-> Current(g), by |-> g] \in [q : Sound, by : Users]
    BY <1>2 DEF UInv, Turns
  <2>4. /\ issued' \in Seq([q : Sound, by : Users]) /\ issued' # <<>>
        /\ issued'[Len(issued')] = [q |-> Current(g), by |-> g]
    BY <1>4, <2>3
  <2>5. \A h \in Users : pc'[h] = "waiting" => HasReply(Current(h)'.name)
    BY <1>4, <1>5, <1>6 DEF UInv, Turns
  <2> QED BY <1>4, <1>5, <1>6, <2>1, <2>2, <2>4, <2>5 DEF Turns
<1> QED BY <1>1, <1>4, <1>7, <1>8, QuietUp, UpKeeps DEF UInv

(* The holder of c.mu gives it back and goes on with the rest.             *)
LEMMA UGivesBack ==
  ASSUME UInv, stage = "up", NEW g \in Users, mu = g, mu' = Nobody,
         NEW rest \in Seq(Sound), Advance(g, rest), sent' \in [Users -> Nat],
         \A h \in Users : h # g => sent'[h] = sent[h],
         UNCHANGED <<dialVars, issued, readVars, serverVars, calls>>
  PROVE  UInv'
<1>1. /\ todo'[g] = rest /\ pc'[g] = (IF rest = <<>> THEN "idle" ELSE "ready")
      /\ \A h \in Users : h # g => todo'[h] = todo[h] /\ pc'[h] = pc[h]
      /\ pc' \in [Users -> {"idle", "ready", "writing", "waiting"}]
      /\ todo' \in [Users -> Seq(Sound)]
  BY AdvanceIs
<1>2. \A h \in Users : h # g => Current(h)' = Current(h) BY <1>1 DEF Current
<1>3. SessionType'
  <2>1. \A h \in Users : (pc'[h] = "idle") = (todo'[h] = <<>>)
    BY <1>1 DEF UInv, SessionType
  <2>2. \A h \in Users : pc'[h] = "writing" => sent'[h] < Words(Current(h)')
    BY <1>1, <1>2 DEF UInv, SessionType
  <2> QED BY <1>1, <2>1, <2>2 DEF UInv, SessionType, readVars, serverVars
<1>4. Turns'
  <2>1. Sound' = Sound BY SoundSame DEF dialVars
  <2>2. ASSUME NEW h \in Users PROVE (pc'[h] = "writing") = (mu' = h)
    <3>1. (pc[h] = "writing") = (mu = h) BY DEF UInv, Turns
    <3>2. CASE h = g BY <1>1, <3>2, SessionAssumption
    <3>3. CASE h # g BY <1>1, <3>1, <3>3, SessionAssumption
    <3> QED BY <3>2, <3>3
  <2>3. ASSUME NEW h \in Users, pc'[h] = "waiting" PROVE HasReply(Current(h)'.name)
    <3>1. h # g BY <1>1, <2>3
    <3>2. pc[h] = "waiting" /\ Current(h)' = Current(h) BY <1>1, <1>2, <2>3, <3>1
    <3> QED BY <3>2 DEF UInv, Turns
  <2> QED BY <1>1, <2>1, <2>2, <2>3 DEF UInv, Turns
<1> QED BY <1>3, <1>4, QuietUp DEF UInv, dialVars

(* A write, in pieces; the last one gives c.mu back.                       *)
LEMMA UWrite ==
  ASSUME DInv, UInv, stage = "up", NEW g \in Users, WritePart(g)
  PROVE  UInv' /\ DInv'
<1> USE DEF WritePart
<1>1. pc[g] = "writing" /\ mu = g BY DEF UInv, Turns
<1> DEFINE q == Current(g)  all == Words(q)
<1>2. q \in Sound /\ Tail(todo[g]) \in Seq(Sound) /\ todo[g] # <<>> BY <1>1, CurrentIs
<1>3. all \in Nat \ {0} /\ sent[g] \in Nat /\ sent[g] < all
  BY <1>1, <1>2, SoundWords DEF UInv, SessionType
<1>4. PICK n \in {all - sent[g]} \cup (IF sent[g] = 0 THEN {1} ELSE {}) :
        /\ out' = out \o [i \in 1 .. n |-> <<Mine(g), sent[g] + i>>]
        /\ sent' = [sent EXCEPT ![g] = @ + n]
  OBVIOUS
<1>5. n \in Nat \ {0} BY <1>3, <1>4
<1>6. sent \in [Users -> Nat] BY DEF UInv, SessionType
<1>7. sent' \in [Users -> Nat] /\ sent'[g] = sent[g] + n /\ \A h \in Users : h # g => sent'[h] = sent[h]
  BY <1>4, <1>5, <1>6
<1>8. UNCHANGED <<dialVars, issued, log, in, readVars, km, serverVars, calls>> OBVIOUS
<1> HIDE DEF WritePart
<1>9. UNCHANGED Setup /\ Sound' = Sound /\ Quiet' /\ DInv'
  BY <1>8, SoundSame, QuietUp, UpKeeps DEF dialVars
<1>10. CASE sent'[g] < all
  <2>1. UNCHANGED <<mu, pc, todo>> BY <1>10 DEF WritePart
  <2>2. \A h \in Users : Current(h)' = Current(h) BY <2>1 DEF Current
  <2>3. SessionType'
    <3>1. \A h \in Users : pc'[h] = "writing" => sent'[h] < Words(Current(h)')
      BY <1>7, <1>10, <2>1, <2>2 DEF UInv, SessionType
    <3> QED BY <1>7, <1>8, <2>1, <3>1 DEF UInv, SessionType, readVars, serverVars
  <2>4. Turns' BY <1>8, <1>9, <2>1, <2>2 DEF UInv, Turns
  <2> QED BY <1>9, <2>3, <2>4 DEF UInv
<1>11. CASE ~(sent'[g] < all) /\ HasReply(q.name)
  <2>1. mu' = Nobody /\ pc' = [pc EXCEPT ![g] = "waiting"] /\ UNCHANGED todo
    BY <1>11 DEF WritePart
  <2>2. pc \in [Users -> {"idle", "ready", "writing", "waiting"}] BY DEF UInv, SessionType
  <2>3. /\ pc' \in [Users -> {"idle", "ready", "writing", "waiting"}]
        /\ pc'[g] = "waiting" /\ \A h \in Users : h # g => pc'[h] = pc[h]
    BY <2>1, <2>2
  <2>4. \A h \in Users : Current(h)' = Current(h) BY <2>1 DEF Current
  <2>5. SessionType'
    <3>1. \A h \in Users : pc'[h] = "writing" => sent'[h] < Words(Current(h)')
      BY <1>7, <2>3, <2>4 DEF UInv, SessionType
    <3>2. \A h \in Users : (pc'[h] = "idle") = (todo'[h] = <<>>)
      BY <1>1, <2>1, <2>3 DEF UInv, SessionType
    <3> QED BY <1>7, <1>8, <2>1, <2>3, <3>1, <3>2 DEF UInv, SessionType, readVars, serverVars
  <2>6. Turns'
    <3>1. ASSUME NEW h \in Users PROVE (pc'[h] = "writing") = (mu' = h)
      <4>1. (pc[h] = "writing") = (mu = h) BY DEF UInv, Turns
      <4> QED BY <1>1, <2>1, <2>3, <4>1, SessionAssumption
    <3>2. ASSUME NEW h \in Users, pc'[h] = "waiting" PROVE HasReply(Current(h)'.name)
      <4>1. Current(h)' = Current(h) BY <2>4
      <4>2. CASE h = g BY <1>11, <4>1, <4>2
      <4>3. CASE h # g
        <5>1. pc[h] = "waiting" BY <2>3, <3>2, <4>3
        <5> QED BY <4>1, <5>1 DEF UInv, Turns
      <4> QED BY <4>2, <4>3
    <3> QED BY <1>8, <1>9, <2>1, <3>1, <3>2 DEF UInv, Turns
  <2> QED BY <1>9, <2>5, <2>6 DEF UInv
<1>12. CASE ~(sent'[g] < all) /\ ~HasReply(q.name)
  <2>1. mu' = Nobody /\ Advance(g, Tail(todo[g])) BY <1>12 DEF WritePart
  <2> QED BY <1>1, <1>2, <1>7, <1>8, <1>9, <2>1, UGivesBack
<1> QED BY <1>10, <1>11, <1>12

(* A failed write ends the call, and nobody else notices.                  *)
LEMMA UWriteFail ==
  ASSUME DInv, UInv, stage = "up", NEW g \in Users, WriteFail(g)
  PROVE  UInv' /\ DInv'
<1> USE DEF WriteFail
<1>1. pc[g] = "writing" /\ mu = g BY DEF UInv, Turns
<1> DEFINE rest == IF HasReply(Current(g).name) THEN <<>> ELSE Tail(todo[g])
<1>2. rest \in Seq(Sound)
  <2>1. Tail(todo[g]) \in Seq(Sound) /\ <<>> \in Seq(Sound) BY <1>1, CurrentIs
  <2> QED BY <2>1
<1>3. Advance(g, rest) /\ mu' = Nobody OBVIOUS
<1>4. UNCHANGED <<dialVars, sent, issued, readVars, serverVars, calls>> OBVIOUS
<1>5. sent \in [Users -> Nat] BY DEF UInv, SessionType
<1> HIDE DEF rest, WriteFail
<1>6. UInv' BY <1>1, <1>2, <1>3, <1>4, <1>5, UGivesBack
<1> QED BY <1>4, <1>6, UpKeeps DEF dialVars

(* A reply is taken out of the slot; the next request, or the end.         *)
LEMMA UWake ==
  ASSUME DInv, UInv, stage = "up", NEW g \in Users, Wake(g)
  PROVE  /\ UInv' /\ DInv' /\ pc[g] = "waiting" /\ slot[g] # Nil
         /\ panic' = panic \/ panic' = "decode"
<1> USE DEF Wake
<1>1. pc[g] = "waiting" /\ slot[g] # Nil /\ slot' = [slot EXCEPT ![g] = Nil] OBVIOUS
<1>2. UNCHANGED <<display, auth, sock, hello, Setup, ScreenIx, mu, sent,
                  issued, out, log, in, rst, rmsg, serverVars, calls>>
  OBVIOUS
<1>3. slot' \in [Users -> {m \in Messages : m.kind # "event"} \cup {Nil}]
  BY <1>1 DEF UInv, SessionType
<1>4. mu # g BY <1>1 DEF UInv, Turns
<1> DEFINE rest == IF slot[g].kind = "error" \/ slot[g].n = 0 THEN <<>> ELSE Tail(todo[g])
<1>5. rest \in Seq(Sound)
  <2>1. Tail(todo[g]) \in Seq(Sound) /\ <<>> \in Seq(Sound) BY <1>1, CurrentIs
  <2> QED BY <2>1
<1>6. \/ Advance(g, rest) /\ UNCHANGED <<panic, stage>>
      \/ panic' = "decode" /\ stage' = "panicked" /\ UNCHANGED <<todo, pc, km>>
  OBVIOUS
<1> HIDE DEF Wake, rest
<1>7. Sound' = Sound BY <1>2, SoundSame
<1>8. CASE Advance(g, rest) /\ UNCHANGED <<panic, stage>>
  <2>1. /\ todo'[g] = rest /\ pc'[g] = (IF rest = <<>> THEN "idle" ELSE "ready")
        /\ \A h \in Users : h # g => todo'[h] = todo[h] /\ pc'[h] = pc[h]
        /\ pc' \in [Users -> {"idle", "ready", "writing", "waiting"}]
        /\ todo' \in [Users -> Seq(Sound)]
    BY <1>5, <1>8, AdvanceIs
  <2>2. \A h \in Users : h # g => Current(h)' = Current(h) BY <2>1 DEF Current
  <2>3. SessionType'
    <3>1. \A h \in Users : (pc'[h] = "idle") = (todo'[h] = <<>>)
      BY <2>1 DEF UInv, SessionType
    <3>2. \A h \in Users : pc'[h] = "writing" => sent'[h] < Words(Current(h)')
      BY <1>2, <2>1, <2>2 DEF UInv, SessionType
    <3> QED BY <1>2, <1>3, <2>1, <3>1, <3>2 DEF UInv, SessionType, serverVars
  <2>4. Turns'
    <3>1. ASSUME NEW h \in Users PROVE (pc'[h] = "writing") = (mu' = h)
      <4>1. (pc[h] = "writing") = (mu = h) /\ mu' = mu BY <1>2 DEF UInv, Turns
      <4>2. CASE h = g BY <1>4, <2>1, <4>1, <4>2
      <4>3. CASE h # g BY <2>1, <4>1, <4>3
      <4> QED BY <4>2, <4>3
    <3>2. ASSUME NEW h \in Users, pc'[h] = "waiting" PROVE HasReply(Current(h)'.name)
      <4>1. h # g BY <2>1, <3>2
      <4>2. pc[h] = "waiting" /\ Current(h)' = Current(h) BY <2>1, <2>2, <3>2, <4>1
      <4> QED BY <4>2 DEF UInv, Turns
    <3>3. mu' # Nobody =>
            issued' # <<>> /\ issued'[Len(issued')] = [q |-> Current(mu)', by |-> mu']
      BY <1>2, <1>4, <2>2 DEF UInv, Turns, SessionType
    <3> QED BY <1>2, <1>7, <2>1, <3>1, <3>2, <3>3 DEF UInv, Turns
  <2> QED BY <1>1, <1>2, <1>8, <2>3, <2>4, QuietUp, UpKeeps DEF UInv
<1>9. CASE panic' = "decode" /\ stage' = "panicked" /\ UNCHANGED <<todo, pc, km>>
  <2>1. \A h \in Users : Current(h)' = Current(h) BY <1>9 DEF Current
  <2>2. SessionType' BY <1>2, <1>3, <1>9, <2>1 DEF UInv, SessionType, serverVars
  <2>3. Turns' BY <1>2, <1>7, <1>9, <2>1 DEF UInv, Turns
  <2> QED BY <1>1, <1>2, <1>9, <2>2, <2>3, QuietUp, UpKeeps DEF UInv
<1> QED BY <1>6, <1>8, <1>9

-----------------------------------------------------------------------------
(* The frames.                                                             *)

(* t is a part of s, from place d + 1.                                     *)
Window(t, s, d) == d \in Nat /\ \A k \in DOMAIN t : k + d \in DOMAIN s /\ t[k] = s[k + d]

(* A part that begins with a head is in frames, if its end may be cut off. *)
LEMMA WindowFramed ==
  ASSUME NEW s, NEW t \in Seq(Frame), NEW d, NEW up \in BOOLEAN, NEW up2 \in BOOLEAN,
         InFrames(s, up), Window(t, s, d), t # <<>> => t[1].part = "head",
         up2 => up /\ Len(t) + d = Len(s)
  PROVE  InFrames(t, up2)
<1>1. s \in Seq(Frame) /\ DOMAIN s = 1 .. Len(s) /\ Len(s) \in Nat BY DEF InFrames, Frame
<1>2. DOMAIN t = 1 .. Len(t) /\ Len(t) \in Nat OBVIOUS
<1> SUFFICES ASSUME NEW k \in DOMAIN t
             PROVE  IF t[k].part = "tail"
                    THEN HasBody(t[k].msg) /\ k > 1 /\ t[k - 1] = [part |-> "head", msg |-> t[k].msg]
                    ELSE HasBody(t[k].msg) =>
                           IF k < Len(t) THEN t[k + 1].part = "tail" ELSE ~up2
  BY DEF InFrames, Frame
<1>3. k + d \in DOMAIN s /\ t[k] = s[k + d] /\ d \in Nat BY DEF Window
<1>4. CASE t[k].part = "tail"
  <2>1. k # 1 BY <1>4
  <2>2. k - 1 \in DOMAIN t /\ k > 1 BY <1>2, <2>1
  <2>3. t[k - 1] = s[k - 1 + d] BY <2>2 DEF Window
  <2>4. HasBody(s[k + d].msg) /\ s[k + d - 1] = [part |-> "head", msg |-> s[k + d].msg]
    <3>1. PICK j \in DOMAIN s : j = k + d BY <1>3
    <3>2. s[j].part = "tail" BY <1>3, <1>4, <3>1
    <3>3. HasBody(s[j].msg) /\ s[j - 1] = [part |-> "head", msg |-> s[j].msg]
      BY <3>2 DEF InFrames
    <3>4. k + d - 1 = j - 1 BY <1>2, <1>3, <3>1
    <3> QED BY <3>1, <3>3, <3>4
  <2>5. k - 1 + d = k + d - 1 BY <1>2, <1>3
  <2> QED BY <1>3, <1>4, <2>2, <2>3, <2>4, <2>5
<1>5. CASE t[k].part # "tail" /\ HasBody(t[k].msg)
  <2>1. IF k + d < Len(s) THEN s[k + d + 1].part = "tail" ELSE ~up
    BY <1>3, <1>5 DEF InFrames
  <2>2. CASE k < Len(t)
    <3>1. k + 1 \in DOMAIN t BY <1>2, <2>2
    <3>2. k + 1 + d \in DOMAIN s /\ t[k + 1] = s[k + 1 + d] BY <3>1 DEF Window
    <3>3. k + d < Len(s) /\ k + 1 + d = k + d + 1
      <4>0. k \in 1 .. Len(t) BY <1>2, Zenon
      <4>1. k \in Nat BY <1>2, <4>0
      <4>3. d \in Nat /\ Len(s) \in Nat BY <1>1, <1>3
      <4>2. k + 1 + d \in 1 .. Len(s) BY <1>1, <3>2, Zenon
      <4> QED BY <4>1, <4>2, <4>3
    <3> QED BY <1>5, <2>1, <2>2, <3>2, <3>3
  <2>3. CASE ~(k < Len(t))
    <3>1. k = Len(t) BY <1>2, <2>3
    <3>2. up2 => ~(k + d < Len(s)) BY <1>1, <1>2, <1>3, <3>1
    <3> QED BY <1>5, <2>1, <2>3, <3>2
  <2> QED BY <2>2, <2>3
<1> QED BY <1>4, <1>5

(* Short sequences.                                                        *)
LEMMA OneAndTwo ==
  ASSUME NEW x, NEW y
  PROVE  <<x>> \o <<>> = <<x>> /\ <<x>> \o <<y>> = <<x, y>>
<1> DEFINE S == {x, y}
<1>1. <<x>> \in Seq(S) /\ <<y>> \in Seq(S) /\ <<>> \in Seq(S) OBVIOUS
<1>2. <<x>> \o <<>> = <<x>> BY <1>1, ConcatEmptySeq
<1>3. PICK t : t = <<x>> \o <<y>> OBVIOUS
<1>4. t \in Seq(S) /\ Len(t) = 2 /\ t[1] = x /\ t[2] = y
  <2>1. /\ t \in Seq(S) /\ Len(t) = Len(<<x>>) + Len(<<y>>)
        /\ \A i \in 1 .. Len(<<x>>) + Len(<<y>>) :
             t[i] = IF i <= Len(<<x>>) THEN <<x>>[i] ELSE <<y>>[i - Len(<<x>>)]
    BY <1>1, <1>3, ConcatProperties
  <2>2. Len(<<x>>) = 1 /\ Len(<<y>>) = 1 /\ <<x>>[1] = x /\ <<y>>[1] = y OBVIOUS
  <2> QED BY <2>1, <2>2
<1>5. t = <<x, y>> BY <1>4
<1> QED BY <1>2, <1>3, <1>5

(* The frames of a message, spelt out.                                     *)
LEMMA FramesAre ==
  ASSUME NEW m \in Messages
  PROVE  IF HasBody(m)
         THEN Frames(m) = <<[part |-> "head", msg |-> m], [part |-> "tail", msg |-> m]>>
         ELSE Frames(m) = <<[part |-> "head", msg |-> m]>>
<1>1. Frames(m) = <<[part |-> "head", msg |-> m]>> \o
                     IF HasBody(m) THEN <<[part |-> "tail", msg |-> m]>> ELSE <<>>
  BY DEF HasBody, Frames
<1>2. PICK x, y : x = [part |-> "head", msg |-> m] /\ y = [part |-> "tail", msg |-> m]
  OBVIOUS
<1> QED BY <1>1, <1>2, OneAndTwo, Zenon

(* A message put behind is framed as it should be.                         *)
LEMMA MoreFramed ==
  ASSUME NEW s, InFrames(s, TRUE), NEW m \in Messages
  PROVE  /\ InFrames(s \o Frames(m), TRUE)
         /\ DOMAIN (s \o Frames(m)) =
              1 .. Len(s) + (IF HasBody(m) THEN 2 ELSE 1)
         /\ \A k \in 1 .. Len(s) : (s \o Frames(m))[k] = s[k]
         /\ (s \o Frames(m))[Len(s) + 1] = [part |-> "head", msg |-> m]
         /\ HasBody(m) => (s \o Frames(m))[Len(s) + 2] = [part |-> "tail", msg |-> m]
<1> DEFINE t == s \o Frames(m)  n == Len(s)  f == Frames(m)
<1>1. s \in Seq(Frame) /\ n \in Nat /\ DOMAIN s = 1 .. n BY DEF InFrames, Frame
<1>2. IF HasBody(m)
      THEN f = <<[part |-> "head", msg |-> m], [part |-> "tail", msg |-> m]>>
      ELSE f = <<[part |-> "head", msg |-> m]>>
  BY FramesAre
<1>3. /\ f \in Seq(Frame) /\ Len(f) = (IF HasBody(m) THEN 2 ELSE 1)
      /\ f[1] = [part |-> "head", msg |-> m]
      /\ HasBody(m) => f[2] = [part |-> "tail", msg |-> m]
  <2>1. PICK x \in Frame, y \in Frame :
          x = [part |-> "head", msg |-> m] /\ y = [part |-> "tail", msg |-> m]
    BY DEF Frame
  <2>2. f = IF HasBody(m) THEN <<x, y>> ELSE <<x>> BY <1>2, <2>1, Zenon
  <2> HIDE DEF f
  <2>3. CASE HasBody(m)
    <3>1. f = <<x, y>> BY <2>2, <2>3
    <3>2. f \in Seq(Frame) /\ Len(f) = 2 /\ f[1] = x /\ f[2] = y BY <3>1
    <3> QED BY <2>1, <2>3, <3>2
  <2>4. CASE ~HasBody(m)
    <3>1. f = <<x>> BY <2>2, <2>4
    <3>2. f \in Seq(Frame) /\ Len(f) = 1 /\ f[1] = x BY <3>1
    <3> QED BY <2>1, <2>4, <3>2
  <2> QED BY <2>3, <2>4
<1>4. /\ t \in Seq(Frame) /\ Len(t) = n + Len(f)
      /\ \A i \in 1 .. n + Len(f) : t[i] = IF i <= n THEN s[i] ELSE f[i - n]
  <2> HIDE DEF f
  <2> QED BY <1>1, <1>3, ConcatProperties DEF f
<1>5. DOMAIN t = 1 .. n + Len(f)
  <2> HIDE DEF t, f
  <2> QED BY <1>1, <1>3, <1>4
<1> HIDE DEF t, f
<1>6. \A k \in 1 .. n : t[k] = s[k] BY <1>1, <1>3, <1>4
<1>7. t[n + 1] = [part |-> "head", msg |-> m]
  <2>1. n + 1 \in 1 .. n + Len(f) /\ ~(n + 1 <= n) /\ n + 1 - n = 1 BY <1>1, <1>3
  <2> QED BY <1>3, <1>4, <2>1
<1>8. HasBody(m) => t[n + 2] = [part |-> "tail", msg |-> m]
  <2>1. HasBody(m) => n + 2 \in 1 .. n + Len(f) /\ ~(n + 2 <= n) /\ n + 2 - n = 2 BY <1>1, <1>3
  <2> QED BY <1>3, <1>4, <2>1
<1>9. ASSUME NEW k \in DOMAIN t
      PROVE  IF t[k].part = "tail"
             THEN HasBody(t[k].msg) /\ k > 1 /\ t[k - 1] = [part |-> "head", msg |-> t[k].msg]
             ELSE HasBody(t[k].msg) => IF k < Len(t) THEN t[k + 1].part = "tail" ELSE ~TRUE
  <2>1. CASE k \in 1 .. n /\ t[k].part = "tail"
    <3>1. HasBody(s[k].msg) /\ k > 1 /\ s[k - 1] = [part |-> "head", msg |-> s[k].msg]
      BY <1>1, <1>6, <2>1 DEF InFrames
    <3>2. k - 1 \in 1 .. n BY <1>1, <2>1, <3>1
    <3> QED BY <1>6, <2>1, <3>1, <3>2
  <2>2. CASE k \in 1 .. n /\ t[k].part # "tail" /\ HasBody(t[k].msg)
    <3>1. k < n /\ s[k + 1].part = "tail" BY <1>1, <1>6, <2>2 DEF InFrames
    <3>2. k + 1 \in 1 .. n /\ k < Len(t) BY <1>1, <1>3, <1>4, <2>2, <3>1
    <3> QED BY <1>6, <2>2, <3>1, <3>2
  <2>3. CASE k = n + 1
    <3>1. HasBody(m) => k < Len(t) /\ k + 1 = n + 2 BY <1>1, <1>3, <1>4, <2>3
    <3> QED BY <1>7, <1>8, <2>3, <3>1
  <2>4. CASE k = n + 2 /\ HasBody(m)
    <3>1. k > 1 /\ k - 1 = n + 1 BY <1>1, <2>4
    <3> QED BY <1>7, <1>8, <2>4, <3>1
  <2>5. k \in 1 .. n \/ k = n + 1 \/ (k = n + 2 /\ HasBody(m)) BY <1>1, <1>3, <1>5
  <2> QED BY <2>1, <2>2, <2>3, <2>4, <2>5
<1>10. InFrames(t, TRUE) BY <1>4, <1>9 DEF InFrames, Frame
<1> QED BY <1>3, <1>5, <1>6, <1>7, <1>8, <1>10 DEF t

-----------------------------------------------------------------------------
(* The reader, and the frames that come to it.                             *)

(* The head in the reader's hand is the first of Inbound, the rest is in.  *)
LEMMA TypedIn ==
  ASSUME UInv, Framed
  PROVE  /\ in \in Seq(Frame) /\ Inbound \in Seq(Frame) /\ peerUp \in BOOLEAN
         /\ rst = "body" => /\ rmsg \in Messages /\ Len(Inbound) = Len(in) + 1
                            /\ Inbound[1] = [part |-> "head", msg |-> rmsg]
                            /\ \A k \in 1 .. Len(in) : Inbound[k + 1] = in[k]
         /\ rst # "body" => Inbound = in
<1>1. in \in Seq(Frame) /\ Inbound \in Seq(Frame) /\ peerUp \in BOOLEAN
  BY DEF Framed, InFrames, UInv, SessionType
<1>2. ASSUME rst = "body"
      PROVE  /\ rmsg \in Messages /\ Len(Inbound) = Len(in) + 1
             /\ Inbound[1] = [part |-> "head", msg |-> rmsg]
             /\ \A k \in 1 .. Len(in) : Inbound[k + 1] = in[k]
  <2>1. rmsg \in Messages BY <1>2 DEF UInv, SessionType
  <2>2. PICK h \in Frame : h = [part |-> "head", msg |-> rmsg] BY <2>1 DEF Frame
  <2>3. Inbound = <<h>> \o in BY <1>2, <2>2 DEF Inbound
  <2>4. <<h>> \in Seq(Frame) /\ Len(<<h>>) = 1 /\ <<h>>[1] = h BY <2>2
  <2>5. /\ Len(Inbound) = 1 + Len(in)
        /\ \A i \in 1 .. 1 + Len(in) : Inbound[i] = IF i <= 1 THEN <<h>>[i] ELSE in[i - 1]
    BY <1>1, <2>3, <2>4, ConcatProperties
  <2>6. Len(in) \in Nat BY <1>1
  <2>7. Inbound[1] = h
    <3>1. 1 \in 1 .. 1 + Len(in) /\ 1 <= 1 BY <2>6
    <3> QED BY <2>4, <2>5, <3>1
  <2>8. ASSUME NEW k \in 1 .. Len(in) PROVE Inbound[k + 1] = in[k]
    <3>1. k + 1 \in 1 .. 1 + Len(in) /\ ~(k + 1 <= 1) /\ k + 1 - 1 = k BY <2>6
    <3> QED BY <2>5, <3>1
  <2> QED BY <2>1, <2>2, <2>5, <2>6, <2>7, <2>8
<1> QED BY <1>1, <1>2 DEF Inbound

(* What the reader finds next is what it is about to read.                 *)
LEMMA ReadsNext ==
  ASSUME UInv, Framed, in # <<>>
  PROVE  /\ Len(in) \in Nat \ {0} /\ Head(in) = in[1] /\ in[1] \in Frame
         /\ rst = "head" => in[1].part = "head"
         /\ rst = "body" => in[1] = [part |-> "tail", msg |-> rmsg]
<1>1. in \in Seq(Frame) /\ Len(in) \in Nat \ {0} /\ Head(in) = in[1] /\ in[1] \in Frame
  BY TypedIn
<1>2. ASSUME rst = "head" PROVE in[1].part = "head"
  <2>1. Inbound = in BY <1>2, TypedIn
  <2>2. 1 \in DOMAIN Inbound BY <1>1, <2>1
  <2>3. Inbound[1].part # "tail"
    <3>1. Inbound[1].part = "tail" => 1 > 1 BY <2>2 DEF Framed, InFrames
    <3>2. ~(1 > 1) OBVIOUS
    <3> QED BY <3>1, <3>2, Zenon
  <2> QED BY <1>1, <2>1, <2>3 DEF Frame
<1>3. ASSUME rst = "body" PROVE in[1] = [part |-> "tail", msg |-> rmsg]
  <2>1. /\ Len(Inbound) = Len(in) + 1 /\ Inbound[1] = [part |-> "head", msg |-> rmsg]
        /\ Inbound \in Seq(Frame) /\ \A k \in 1 .. Len(in) : Inbound[k + 1] = in[k]
    BY <1>3, TypedIn
  <2>2. Inbound[2] = in[1]
    <3>1. 1 \in 1 .. Len(in) /\ 1 + 1 = 2 BY <1>1
    <3> QED BY <2>1, <3>1
  <2>3. 1 \in DOMAIN Inbound /\ 2 \in DOMAIN Inbound /\ 1 < Len(Inbound) BY <1>1, <2>1
  <2>4. HasBody(Inbound[1].msg) /\ Inbound[1].part # "tail" BY <1>3, <2>1 DEF Framed
  <2>5. Inbound[1 + 1].part = "tail" BY <2>3, <2>4 DEF Framed, InFrames
  <2>6. Inbound[2 - 1] = [part |-> "head", msg |-> Inbound[2].msg]
    <3>1. 1 + 1 = 2 OBVIOUS
    <3> QED BY <2>3, <2>5, <3>1 DEF Framed, InFrames
  <2>7. rmsg = in[1].msg BY <2>1, <2>2, <2>6
  <2> QED BY <1>1, <2>2, <2>5, <2>7 DEF Frame
<1> QED BY <1>1, <1>2, <1>3

(* The reader reads on in a message, or delivers the first of Inbound.     *)
Delivers ==
  \E d \in {1, 2} : /\ Window(Inbound', Inbound, d) /\ d <= Len(Inbound)
                    /\ Inbound[1].part = "head" /\ Deliver(Inbound[1].msg)

(* A head is taken off, and delivered if no tail belongs to it.            *)
LEMMA ReadHeadIs ==
  ASSUME UInv, Framed, ReadHead
  PROVE  Framed' /\ ((Inbound' = Inbound /\ slot' = slot) \/ Delivers)
<1> USE DEF ReadHead
<1> DEFINE m == in[1].msg
<1>1. rst = "head" /\ in # <<>> /\ in' = Tail(in) /\ peerUp' = peerUp BY DEF serverVars
<1>2. /\ Len(in) \in Nat \ {0} /\ Head(in) = in[1] /\ in[1] \in Frame /\ in[1].part = "head"
      /\ in \in Seq(Frame) /\ Inbound = in
  BY <1>1, ReadsNext, TypedIn
<1>3. IF HasBody(m) THEN rst' = "body" /\ rmsg' = m /\ UNCHANGED slot
                    ELSE Deliver(m) /\ UNCHANGED <<rst, rmsg>>
  BY <1>2
<1> HIDE DEF ReadHead
<1>4. m \in Messages /\ in[1] = [part |-> "head", msg |-> m] BY <1>2 DEF Frame
<1>5. in' \in Seq(Frame) /\ Len(in') = Len(in) - 1 /\ \A k \in 1 .. Len(in) - 1 : in'[k] = in[k + 1]
  BY <1>1, <1>2, HeadTailProperties
<1>6. CASE HasBody(m)
  <2>1. Inbound' = <<in[1]>> \o Tail(in) BY <1>1, <1>3, <1>4, <1>6 DEF Inbound
  <2>2. Inbound' = in BY <1>1, <1>2, <2>1
  <2>3. Framed'
    <3>1. InFrames(Inbound', peerUp') BY <1>1, <1>2, <2>2 DEF Framed
    <3>2. (rst = "body")' /\ HasBody(rmsg)' BY <1>3, <1>6 DEF HasBody
    <3> QED BY <1>5, <3>1, <3>2 DEF Framed
  <2> QED BY <1>2, <1>3, <1>6, <2>2, <2>3
<1>7. CASE ~HasBody(m)
  <2>1. Inbound' = in' BY <1>1, <1>3, <1>7 DEF Inbound
  <2>2. Window(in', in, 1)
    <3>1. DOMAIN in' = 1 .. Len(in) - 1 /\ DOMAIN in = 1 .. Len(in) BY <1>2, <1>5
    <3>2. \A k \in DOMAIN in' : k + 1 \in DOMAIN in /\ in'[k] = in[k + 1] BY <1>2, <1>5, <3>1
    <3> QED BY <3>2 DEF Window
  <2>3. in' # <<>> => in'[1].part = "head"
    <3>1. HAVE in' # <<>>
    <3>2. Len(in') > 0 BY <1>5, <3>1
    <3>3. 2 \in DOMAIN in /\ 1 \in 1 .. Len(in) - 1 BY <1>2, <1>5, <3>2
    <3>4. in'[1] = in[1 + 1] /\ 1 + 1 = 2 BY <1>5, <3>3
    <3>5. in'[1] \in Frame BY <1>5, <3>2
    <3>6. in[2].part = "tail" => HasBody(in[2].msg) /\ in[2 - 1] = [part |-> "head", msg |-> in[2].msg]
      BY <1>2, <3>3 DEF Framed, InFrames
    <3>7. in[2].part = "tail" => HasBody(m) BY <3>6
    <3> QED BY <1>7, <3>4, <3>5, <3>7 DEF Frame
  <2>4. InFrames(in', peerUp)
    <3>1. InFrames(in, peerUp) /\ peerUp \in BOOLEAN BY <1>2, TypedIn DEF Framed
    <3>2. Len(in') + 1 = Len(in) BY <1>2, <1>5
    <3> QED BY <1>5, <2>2, <2>3, <3>1, <3>2, WindowFramed
  <2>5. Framed' BY <1>1, <1>3, <1>5, <1>7, <2>1, <2>4 DEF Framed
  <2>6. Delivers
    <3>1. 1 <= Len(Inbound) BY <1>2
    <3> QED BY <1>2, <1>3, <1>7, <2>1, <2>2, <3>1 DEF Delivers
  <2> QED BY <2>5, <2>6
<1> QED BY <1>6, <1>7

(* After a head the tail that is read is its own.                          *)
LEMMA ReadBodyIs ==
  ASSUME UInv, Framed, ReadBodyOf
  PROVE  Framed' /\ Delivers
<1> USE DEF ReadBodyOf
<1>1. /\ rst = "body" /\ in # <<>> /\ in' = Tail(in) /\ Deliver(rmsg) /\ rst' = "head"
      /\ peerUp' = peerUp
  BY DEF serverVars
<1> HIDE DEF ReadBodyOf
<1>2. /\ Len(in) \in Nat \ {0} /\ in \in Seq(Frame)
      /\ Inbound \in Seq(Frame) /\ Len(Inbound) = Len(in) + 1
      /\ Inbound[1] = [part |-> "head", msg |-> rmsg]
      /\ \A k \in 1 .. Len(in) : Inbound[k + 1] = in[k]
      /\ in[1] = [part |-> "tail", msg |-> rmsg]
  BY <1>1, ReadsNext, TypedIn
<1>3. in' \in Seq(Frame) /\ Len(in') = Len(in) - 1 /\ \A k \in 1 .. Len(in) - 1 : in'[k] = in[k + 1]
  BY <1>1, <1>2, HeadTailProperties
<1>4. Inbound' = in' BY <1>1 DEF Inbound
<1>5. Window(in', Inbound, 2)
  <2>1. ASSUME NEW k \in DOMAIN in' PROVE k + 2 \in DOMAIN Inbound /\ in'[k] = Inbound[k + 2]
    <3>1. k \in 1 .. Len(in) - 1 /\ k + 1 \in 1 .. Len(in) /\ k + 1 + 1 = k + 2 /\ k + 2 \in 1 .. Len(Inbound)
      BY <1>2, <1>3
    <3>2. Inbound[k + 2] = in[k + 1] BY <1>2, <3>1
    <3> QED BY <1>2, <1>3, <3>1, <3>2
  <2> QED BY <2>1 DEF Window
<1>6. in' # <<>> => in'[1].part = "head"
  <2>1. HAVE in' # <<>>
  <2>2. 1 \in DOMAIN in' BY <1>3, <2>1
  <2>3. 3 \in DOMAIN Inbound /\ in'[1] = Inbound[3]
    <3>1. 1 + 2 = 3 OBVIOUS
    <3> QED BY <1>5, <2>2, <3>1 DEF Window
  <2>4. Inbound[3].part = "tail" => Inbound[3 - 1] = [part |-> "head", msg |-> Inbound[3].msg]
    BY <2>3 DEF Framed, InFrames
  <2>5. Inbound[2] = in[1]
    <3>1. 1 \in 1 .. Len(in) /\ 1 + 1 = 2 BY <1>2
    <3> QED BY <1>2, <3>1
  <2>6. Inbound[3].part # "tail"
    <3>1. 3 - 1 = 2 OBVIOUS
    <3> QED BY <1>2, <2>4, <2>5, <3>1
  <2>7. in'[1] \in Frame BY <1>3, <2>2
  <2> QED BY <2>3, <2>6, <2>7 DEF Frame
<1>7. InFrames(in', peerUp)
  <2>1. InFrames(Inbound, peerUp) /\ peerUp \in BOOLEAN BY TypedIn DEF Framed
  <2>2. Len(in') + 2 = Len(Inbound) BY <1>2, <1>3
  <2> QED BY <1>3, <1>5, <1>6, <2>1, <2>2, WindowFramed
<1>8. Framed' BY <1>1, <1>3, <1>4, <1>7 DEF Framed
<1>9. Delivers
  <2>1. 2 <= Len(Inbound) /\ Inbound[1].part = "head" /\ Inbound[1].msg = rmsg BY <1>2
  <2> QED BY <1>1, <1>4, <1>5, <2>1 DEF Delivers
<1> QED BY <1>8, <1>9


-----------------------------------------------------------------------------
(* What the server says.                                                   *)

(* What it answers is a message about the request, as long as its decoder  *)
(* takes it to be.                                                         *)
LEMMA AnswersAre ==
  ASSUME Setup \in Setups, NEW i \in Nat, NEW m \in Answers(i)
  PROVE  LET name == issued[i].q.name IN
         /\ m \in Messages /\ m.re = i /\ m.kind \in {"reply", "error"} /\ HasReply(name)
         /\ m.kind = "reply" =>
              /\ m.extra = ExtraWords(name, m.n, m.unit)
              /\ name = "GetKeyboardMapping" =>
                   /\ m.keys \in Layouts /\ Len(m.keys) = Setup.max - Setup.min + 1
                   /\ m.n = Len(m.keys) * Len(m.keys[1])
<1> DEFINE name == issued[i].q.name
<1>1. HasReply(name) BY DEF Answers
<1>2. ASSUME NEW n \in Nat, NEW u \in Nat, NEW keys \in Layouts \cup {<<>>}
      PROVE  /\ Reply(i, n, u, keys) \in Messages
             /\ Reply(i, n, u, keys) =
                  [kind |-> "reply", re |-> i, n |-> n, unit |-> u,
                   extra |-> ExtraWords(name, n, u), keys |-> keys]
  <2>1. ExtraWords(name, n, u) \in Nat BY ExtraIsNat
  <2> QED BY <2>1 DEF Reply, Message, Messages
<1>3. CASE m = Error(i) BY <1>1, <1>3 DEF Error, Message, Messages
<1>4. CASE m # Error(i) /\ name = "GetKeyboardMapping"
  <2>1. PICK l \in Layouts :
          /\ Len(l) = Setup.max - Setup.min + 1
          /\ m = Reply(i, keyCount(Setup.min, Setup.max) * Len(l[1]), 4, l)
    BY <1>1, <1>4 DEF Answers
  <2>2. keyCount(Setup.min, Setup.max) = Len(l) /\ Len(l) \in Nat BY <2>1, AsksForAll
  <2>3. Len(l[1]) \in Nat /\ l \in Layouts \cup {<<>>}
    <3>1. l \in Seq(Seq(Nat)) /\ l # <<>> BY SessionAssumption
    <3> QED BY <3>1
  <2>4. PICK n \in Nat : n = Len(l) * Len(l[1]) BY <2>2, <2>3
  <2>5. m = Reply(i, n, 4, l) BY <2>1, <2>2, <2>4
  <2>6. /\ m \in Messages /\ m.re = i /\ m.kind = "reply" /\ m.n = n /\ m.keys = l
        /\ m.extra = ExtraWords(name, m.n, m.unit)
    <3>1. /\ Reply(i, n, 4, l) \in Messages
          /\ Reply(i, n, 4, l) =
               [kind |-> "reply", re |-> i, n |-> n, unit |-> 4,
                extra |-> ExtraWords(name, n, 4), keys |-> l]
      BY <1>2, <2>3
    <3> QED BY <2>5, <3>1
  <2>7. l = m.keys /\ Len(l) * Len(l[1]) = Len(m.keys) * Len(m.keys[1]) BY <2>6
  <2> QED BY <1>1, <2>1, <2>4, <2>6, <2>7
<1>5. CASE m # Error(i) /\ name # "GetKeyboardMapping"
  <2> DEFINE N == IF name \in Counted THEN 0 .. MaxItems ELSE {1}
             U == IF name = "GetProperty" THEN Units ELSE {1}
  <2>1. m \in {Reply(i, n, u, <<>>) : n \in N, u \in U} BY <1>1, <1>5 DEF Answers
  <2>2. N \subseteq Nat /\ U \subseteq Nat BY SessionAssumption
  <2> HIDE DEF N, U
  <2>3. PICK n \in Nat, u \in Nat : m = Reply(i, n, u, <<>>) BY <2>1, <2>2
  <2>4. <<>> \in Layouts \cup {<<>>} OBVIOUS
  <2> QED BY <1>1, <1>2, <1>5, <2>3, <2>4
<1> QED BY <1>3, <1>4, <1>5

(* Errors and events are messages.                                         *)
LEMMA ErrorIs ==
  ASSUME NEW i \in Nat
  PROVE  /\ Error(i) \in Messages /\ Error(i).re = i /\ Error(i).kind = "error"
         /\ Event \in Messages /\ Event.kind = "event"
  BY DEF Error, Event, Message, Messages

-----------------------------------------------------------------------------
(* The reader and the server leave the goroutines alone, but for their     *)
(* slots.                                                                  *)

(* Only the issuer of what is delivered finds it in its slot.              *)
LEMMA DeliverIs ==
  ASSUME UInv, NEW m \in Messages, Deliver(m)
  PROVE  /\ slot' \in [Users -> {x \in Messages : x.kind # "event"} \cup {Nil}]
         /\ \A h \in Users :
              \/ slot'[h] = slot[h]
              \/ /\ slot'[h] = m /\ m.kind # "event"
                 /\ issued[m.re].by = h /\ HasReply(issued[m.re].q.name)
<1>1. slot \in [Users -> {x \in Messages : x.kind # "event"} \cup {Nil}]
  BY DEF UInv, SessionType
<1>2. CASE m.kind = "event" \/ ~HasReply(issued[m.re].q.name) BY <1>1, <1>2 DEF Deliver
<1>3. CASE ~(m.kind = "event" \/ ~HasReply(issued[m.re].q.name))
  <2>1. slot' = [slot EXCEPT ![issued[m.re].by] = m] BY <1>3 DEF Deliver
  <2> QED BY <1>1, <1>3, <2>1
<1> QED BY <1>2, <1>3

(* What the reader and the server do leaves the callers' state alone.      *)
LEMMA UOthers ==
  ASSUME DInv, UInv, stage = "up", UNCHANGED <<dialVars, userVars, calls>>,
         rst' \in {"head", "body", "dead"}, rmsg' \in (IF rst' = "body" THEN Messages ELSE {Nil}),
         slot' \in [Users -> {m \in Messages : m.kind # "event"} \cup {Nil}],
         peerUp' \in BOOLEAN, emitted' \in 0 .. MaxEvents
  PROVE  UInv' /\ DInv'
<1> USE DEF dialVars, userVars
<1>1. \A h \in Users : Current(h)' = Current(h) BY DEF Current
<1>2. SessionType' BY <1>1 DEF UInv, SessionType
<1>3. Sound' = Sound BY SoundSame
<1>4. Turns' BY <1>1, <1>3 DEF UInv, Turns
<1> QED BY <1>2, <1>4, QuietUp, UpKeeps DEF UInv

(* The steps of the reader.                                                *)
LEMMA UReader ==
  ASSUME DInv, UInv, Framed, stage = "up", ReadHead \/ ReadBodyOf \/ ReadFail
  PROVE  UInv' /\ DInv'
<1>1. UNCHANGED <<dialVars, userVars, calls, peerUp, emitted>>
  BY DEF ReadHead, ReadBodyOf, ReadFail, serverVars
<1>2. /\ rst \in {"head", "body", "dead"} /\ rmsg \in (IF rst = "body" THEN Messages ELSE {Nil})
      /\ slot \in [Users -> {m \in Messages : m.kind # "event"} \cup {Nil}]
      /\ peerUp \in BOOLEAN /\ emitted \in 0 .. MaxEvents
  BY DEF UInv, SessionType
<1>3. CASE ReadHead
  <2>1. Head(in) = in[1] /\ in[1] \in Frame BY <1>3, ReadsNext DEF ReadHead
  <2>2. in[1].msg \in Messages BY <2>1 DEF Frame
  <2>3. \/ rst' = "body" /\ rmsg' = in[1].msg /\ slot' = slot
        \/ Deliver(in[1].msg) /\ rst' = rst /\ rmsg' = rmsg
    BY <1>3, <2>1 DEF ReadHead
  <2>4. slot' \in [Users -> {m \in Messages : m.kind # "event"} \cup {Nil}]
    BY <1>2, <2>2, <2>3, DeliverIs
  <2> QED BY <1>1, <1>2, <2>2, <2>3, <2>4, UOthers
<1>4. CASE ReadBodyOf
  <2>1. rmsg \in Messages /\ Deliver(rmsg) /\ rst' = "head" /\ rmsg' = Nil
    BY <1>2, <1>4 DEF ReadBodyOf
  <2>2. slot' \in [Users -> {m \in Messages : m.kind # "event"} \cup {Nil}]
    BY <2>1, DeliverIs
  <2> QED BY <1>1, <1>2, <2>1, <2>2, UOthers
<1>5. CASE ReadFail
  <2>1. rst' = "dead" /\ rmsg' = Nil /\ slot' = slot BY <1>5 DEF ReadFail
  <2> QED BY <1>1, <1>2, <2>1, UOthers
<1> QED BY <1>3, <1>4, <1>5

(* The steps of the server.                                                *)
LEMMA UServer ==
  ASSUME DInv, UInv, stage = "up", Serve \/ SendEvent \/ HangUp
  PROVE  UInv' /\ DInv'
<1>1. UNCHANGED <<dialVars, userVars, calls, rst, rmsg, slot>>
  BY DEF Serve, SendEvent, HangUp, readVars
<1>2. /\ rst \in {"head", "body", "dead"} /\ rmsg \in (IF rst = "body" THEN Messages ELSE {Nil})
      /\ slot \in [Users -> {m \in Messages : m.kind # "event"} \cup {Nil}]
      /\ peerUp \in BOOLEAN /\ emitted \in 0 .. MaxEvents
  BY DEF UInv, SessionType
<1>3. peerUp' \in BOOLEAN /\ emitted' \in 0 .. MaxEvents
  <2>1. CASE Serve BY <1>2, <2>1 DEF Serve, serverVars
  <2>2. CASE SendEvent BY <1>2, <2>2, SessionAssumption DEF SendEvent
  <2>3. CASE HangUp BY <1>2, <2>3 DEF HangUp
  <2> QED BY <2>1, <2>2, <2>3
<1> QED BY <1>1, <1>2, <1>3, UOthers

(* What does not touch the frames leaves them as they are.                 *)
LEMMA FramedSame ==
  ASSUME Framed, UNCHANGED <<in, rst, rmsg, peerUp>>
  PROVE  Framed' /\ Inbound' = Inbound
<1>1. Inbound' = Inbound BY DEF Inbound
<1> QED BY <1>1 DEF Framed

(* The frames of a message are a sequence.                                 *)
LEMMA FramesSeq ==
  ASSUME NEW m \in Messages
  PROVE  Frames(m) \in Seq(Frame)
<1>1. PICK x \in Frame, y \in Frame :
        x = [part |-> "head", msg |-> m] /\ y = [part |-> "tail", msg |-> m]
  BY DEF Frame
<1>2. Frames(m) = IF HasBody(m) THEN <<x, y>> ELSE <<x>> BY <1>1, FramesAre, Zenon
<1>3. <<x, y>> \in Seq(Frame) /\ <<x>> \in Seq(Frame) OBVIOUS
<1> QED BY <1>2, <1>3, Zenon

(* The server sends a message.                                             *)
LEMMA Sends ==
  ASSUME UInv, Framed, peerUp, NEW m \in Messages, in' = in \o Frames(m),
         UNCHANGED <<rst, rmsg, peerUp>>
  PROVE  Framed' /\ Inbound' = Inbound \o Frames(m) /\ InFrames(Inbound, TRUE)
<1>1. in \in Seq(Frame) /\ Inbound \in Seq(Frame) /\ peerUp \in BOOLEAN BY TypedIn
<1>2. peerUp = TRUE /\ InFrames(Inbound, TRUE)
  <2>1. peerUp = TRUE BY <1>1
  <2> QED BY <2>1 DEF Framed
<1>3. Frames(m) \in Seq(Frame) BY FramesSeq
<1>4. in' \in Seq(Frame) BY <1>1, <1>3, ConcatProperties
<1>5. Inbound' = Inbound \o Frames(m)
  <2>1. CASE rst = "body"
    <3>1. rmsg \in Messages BY <2>1, TypedIn
    <3>2. PICK h \in Frame : h = [part |-> "head", msg |-> rmsg] BY <3>1 DEF Frame
    <3>3. Inbound = <<h>> \o in /\ Inbound' = <<h>> \o (in \o Frames(m))
      BY <2>1, <3>2 DEF Inbound
    <3>4. <<h>> \in Seq(Frame) OBVIOUS
    <3>5. (<<h>> \o in) \o Frames(m) = <<h>> \o (in \o Frames(m))
      BY <1>1, <1>3, <3>4, ConcatAssociative
    <3> QED BY <3>3, <3>5
  <2>2. CASE rst # "body" BY <2>2 DEF Inbound
  <2> QED BY <2>1, <2>2
<1>6. InFrames(Inbound \o Frames(m), TRUE) BY <1>2, MoreFramed
<1>7. rst # "dead" BY DEF Framed
<1> QED BY <1>2, <1>4, <1>5, <1>6, <1>7 DEF Framed

(* What is left of the frames when the server has gone, and in the end.    *)
LEMMA HangUpIs ==
  ASSUME UInv, Framed, HangUp
  PROVE  Framed' /\ Window(Inbound', Inbound, 0) /\ ~peerUp'
<1>1. peerUp /\ peerUp' = FALSE /\ rst' = rst /\ rmsg' = rmsg BY DEF HangUp, readVars
<1>2. PICK k \in 0 .. Len(in) : in' = SubSeq(in, 1, k) BY DEF HangUp
<1>3. /\ in \in Seq(Frame) /\ Inbound \in Seq(Frame) /\ peerUp \in BOOLEAN
      /\ Len(in) \in Nat /\ DOMAIN in = 1 .. Len(in)
  BY TypedIn
<1>4. in' \in Seq(Frame) /\ Len(in') = k /\ \A i \in 1 .. k : in'[i] = in[i]
  <2>1. \A i \in 1 .. k : in[i] \in Frame BY <1>2, <1>3
  <2>2. /\ SubSeq(in, 1, k) \in Seq(Frame)
        /\ Len(SubSeq(in, 1, k)) = IF 1 <= k THEN k - 1 + 1 ELSE 0
        /\ \A i \in 1 .. k - 1 + 1 : SubSeq(in, 1, k)[i] = in[1 + i - 1]
    BY <1>2, <2>1, SubSeqProperties
  <2> HIDE DEF Frame
  <2>3. Len(in') = k /\ k - 1 + 1 = k BY <1>2, <1>3, <2>2
  <2>4. \A i \in 1 .. k : 1 + i - 1 = i BY <1>2, <1>3
  <2> QED BY <1>2, <2>2, <2>3, <2>4
<1>5. DOMAIN in' = 1 .. k BY <1>3, <1>4
<1>6. CASE rst = "body"
  <2>1. /\ rmsg \in Messages /\ Len(Inbound) = Len(in) + 1
        /\ Inbound[1] = [part |-> "head", msg |-> rmsg]
        /\ \A i \in 1 .. Len(in) : Inbound[i + 1] = in[i]
    BY <1>6, TypedIn
  <2>2. PICK h \in Frame : h = [part |-> "head", msg |-> rmsg] BY <2>1 DEF Frame
  <2>3. Inbound' = <<h>> \o in' BY <1>1, <1>6, <2>2 DEF Inbound
  <2>4. <<h>> \in Seq(Frame) /\ Len(<<h>>) = 1 /\ <<h>>[1] = h OBVIOUS
  <2>5. /\ Inbound' \in Seq(Frame) /\ Len(Inbound') = 1 + k
        /\ \A i \in 1 .. 1 + k : Inbound'[i] = IF i <= 1 THEN <<h>>[i] ELSE in'[i - 1]
    BY <1>4, <2>3, <2>4, ConcatProperties
  <2>6. ASSUME NEW i \in 1 .. 1 + k PROVE i \in 1 .. Len(Inbound) /\ Inbound'[i] = Inbound[i]
    <3>1. CASE i = 1 BY <1>2, <1>3, <2>1, <2>2, <2>4, <2>5, <3>1
    <3>2. CASE i # 1
      <4>1. i - 1 \in 1 .. k /\ i - 1 \in 1 .. Len(in) /\ ~(i <= 1) /\ i - 1 + 1 = i
        BY <1>2, <1>3, <3>2
      <4>2. Inbound'[i] = in'[i - 1] BY <2>5, <4>1
      <4>3. in'[i - 1] = in[i - 1] BY <1>4, <4>1
      <4>4. Inbound[i - 1 + 1] = in[i - 1] BY <2>1, <4>1
      <4>5. i \in 1 .. Len(Inbound) BY <1>2, <1>3, <2>1
      <4> QED BY <4>1, <4>2, <4>3, <4>4, <4>5
    <3> QED BY <3>1, <3>2
  <2>7. Window(Inbound', Inbound, 0)
    <3>1. DOMAIN Inbound' = 1 .. 1 + k /\ DOMAIN Inbound = 1 .. Len(Inbound)
      BY <1>2, <1>3, <2>5
    <3>2. \A i \in DOMAIN Inbound' : i + 0 = i BY <1>2, <1>3, <3>1
    <3> QED BY <2>6, <3>1, <3>2 DEF Window
  <2>8. Inbound'[1].part = "head"
    <3>1. 1 \in 1 .. 1 + k BY <1>2, <1>3
    <3> QED BY <2>1, <2>6, <3>1
  <2>9. InFrames(Inbound', FALSE)
    BY <1>3, <2>5, <2>7, <2>8, WindowFramed DEF Framed
  <2> QED BY <1>1, <1>4, <1>6, <2>7, <2>9 DEF Framed, HasBody
<1>7. CASE rst # "body"
  <2>1. Inbound = in /\ Inbound' = in' BY <1>1, <1>7 DEF Inbound
  <2>2. rst = "head" BY <1>1, <1>7 DEF Framed, UInv, SessionType
  <2>3. Window(in', in, 0)
    <3>1. \A i \in DOMAIN in' : i + 0 = i /\ i \in 1 .. Len(in) BY <1>2, <1>3, <1>5
    <3> QED BY <1>3, <1>4, <1>5, <3>1 DEF Window
  <2>4. in' # <<>> => in'[1].part = "head"
    <3>1. in' # <<>> => 1 \in 1 .. k /\ 1 \in 1 .. Len(in) BY <1>2, <1>3, <1>4
    <3>2. in' # <<>> => in # <<>> BY <1>3, <3>1
    <3>3. in' # <<>> => in[1].part = "head" BY <2>2, <3>2, ReadsNext
    <3> QED BY <1>4, <3>1, <3>3
  <2>5. InFrames(in', FALSE)
    BY <1>3, <1>4, <2>1, <2>3, <2>4, WindowFramed DEF Framed
  <2> QED BY <1>1, <1>4, <2>1, <2>2, <2>3, <2>5 DEF Framed
<1> QED BY <1>1, <1>6, <1>7

(* A failed read throws away what was on the way.                          *)
LEMMA ReadFailIs ==
  ASSUME UInv, Framed, ReadFail
  PROVE  Framed' /\ Inbound' = <<>> /\ slot' = slot /\ ~peerUp'
<1>1. ~peerUp /\ in = <<>> /\ rst' = "dead" /\ in' = in /\ peerUp' = peerUp /\ slot' = slot
  BY DEF ReadFail, serverVars
<1>2. Inbound' = <<>> BY <1>1 DEF Inbound
<1>3. InFrames(<<>>, peerUp') BY DEF InFrames
<1> QED BY <1>1, <1>2, <1>3 DEF Framed

(* The reader finds what it expects: the frames' half of StreamAligned.    *)
LEMMA ReaderAligned ==
  UInv /\ Framed =>
    /\ in # <<>> /\ rst = "head" => Head(in).part = "head"
    /\ in # <<>> /\ rst = "body" => Head(in) = [part |-> "tail", msg |-> rmsg]
  BY ReadsNext

-----------------------------------------------------------------------------
(* The words.                                                              *)

(* The words on the way, and after them the next to be written.            *)
LEMMA OutboundIs ==
  UInv /\ Stream =>
    /\ Next1 \in Nat \X Nat /\ out \in Seq(Nat \X Nat) /\ Outbound \in Seq(Nat \X Nat)
    /\ Len(out) \in Nat /\ DOMAIN out = 1 .. Len(out)
    /\ \A k \in 1 .. Len(out) : out[k] \in Nat \X Nat /\ Outbound[k] = out[k]
    /\ Len(Outbound) = Len(out) + 1 /\ Outbound[Len(out) + 1] = Next1
<1> SUFFICES ASSUME UInv, Stream
             PROVE  /\ Next1 \in Nat \X Nat /\ out \in Seq(Nat \X Nat)
                    /\ Outbound \in Seq(Nat \X Nat)
                    /\ Len(out) \in Nat /\ DOMAIN out = 1 .. Len(out)
                    /\ \A k \in 1 .. Len(out) : out[k] \in Nat \X Nat /\ Outbound[k] = out[k]
                    /\ Len(Outbound) = Len(out) + 1 /\ Outbound[Len(out) + 1] = Next1
  OBVIOUS
<1> DEFINE T == Nat \X Nat
<1>1. out \in Seq(T) BY DEF Stream
<1>2. Next1 \in T
  <2>1. Len(issued) \in Nat
    <3>1. issued \in Seq([q : Sound, by : Users]) BY DEF UInv, Turns
    <3> QED BY <3>1
  <2>2. mu # Nobody => sent[mu] \in Nat BY DEF UInv, SessionType
  <2>3. CASE mu = Nobody
    <3>1. Next1 = <<Len(issued) + 1, 1>> BY <2>3 DEF Next1
    <3> QED BY <2>1, <3>1
  <2>4. CASE mu # Nobody
    <3>1. Next1 = <<Len(issued), sent[mu] + 1>> BY <2>4 DEF Next1
    <3> QED BY <2>1, <2>2, <2>4, <3>1
  <2> QED BY <2>3, <2>4
<1> HIDE DEF T
<1>3. /\ Outbound \in Seq(T) /\ Len(Outbound) = Len(out) + 1
      /\ \A k \in 1 .. Len(out) : Outbound[k] = out[k]
      /\ Outbound[Len(out) + 1] = Next1
  BY <1>1, <1>2, AppendProperties DEF Outbound
<1>4. Len(out) \in Nat /\ DOMAIN out = 1 .. Len(out) /\ \A k \in 1 .. Len(out) : out[k] \in T
  BY <1>1
<1> QED BY <1>1, <1>2, <1>3, <1>4 DEF T

(* The types of what was issued.                                           *)
LEMMA IssuedIs ==
  ASSUME UInv
  PROVE  /\ issued \in Seq([q : Sound, by : Users])
         /\ Len(issued) \in Nat /\ DOMAIN issued = 1 .. Len(issued)
         /\ \A i \in DOMAIN issued :
              /\ issued[i].q \in Sound /\ issued[i].by \in Users
              /\ Words(issued[i].q) \in Nat \ {0}
<1> DEFINE E == [q : Sound, by : Users]
<1>1. issued \in Seq(E) BY DEF UInv, Turns
<1>2. \A i \in DOMAIN issued : issued[i] \in E
  <2> HIDE DEF E
  <2> QED BY <1>1
<1>3. \A i \in DOMAIN issued : issued[i].q \in Sound /\ issued[i].by \in Users BY <1>2
<1>4. \A i \in DOMAIN issued : Words(issued[i].q) \in Nat \ {0} BY <1>3, SoundWords
<1> QED BY <1>1, <1>3, <1>4

(* The types of what was served.                                           *)
LEMMA LogIs ==
  ASSUME Stream
  PROVE  Len(log) \in Nat /\ DOMAIN log = 1 .. Len(log)
<1> DEFINE L == [re : DOMAIN issued, whole : BOOLEAN, good : BOOLEAN]
<1>1. log \in Seq(L) BY DEF Stream
<1> HIDE DEF L
<1> QED BY <1>1

(* What neither issues, nor writes, nor takes leaves the stream as it is.  *)
LEMMA StreamSame ==
  ASSUME UInv, Stream, UNCHANGED <<out, log, issued, mu, peerUp>>,
         mu # Nobody => sent'[mu] = sent[mu]
  PROVE  Stream' /\ NoWrap' = NoWrap
<1>1. NoWrap' = NoWrap BY DEF NoWrap
<1>2. Outbound' = Outbound BY DEF Outbound, Next1
<1>3. ASSUME NEW w PROVE After(w)' = After(w) BY DEF After
<1>4. \A k \in DOMAIN out : After(out[k])' = After(out[k]) BY <1>3
<1> QED BY <1>1, <1>2, <1>4 DEF Stream

(* Once the server has gone away no more is said of the words.             *)
LEMMA StreamDown ==
  ASSUME UInv, Stream, UNCHANGED <<out, log, issued>>, peerUp' = FALSE
  PROVE  Stream' /\ NoWrap' = NoWrap
<1>1. NoWrap' = NoWrap BY DEF NoWrap
<1> QED BY <1>1 DEF Stream

(* A request more.                                                         *)
LEMMA IssuedMore ==
  ASSUME UInv, NEW e, issued' = Append(issued, e)
  PROVE  /\ Len(issued') = Len(issued) + 1 /\ DOMAIN issued' = 1 .. Len(issued) + 1
         /\ DOMAIN issued \subseteq DOMAIN issued'
         /\ \A i \in DOMAIN issued : issued'[i] = issued[i]
         /\ issued'[Len(issued) + 1] = e
         /\ NoWrap' => NoWrap
<1>1. issued \in Seq([q : Sound, by : Users]) BY IssuedIs
<1>2. /\ Len(issued') = Len(issued) + 1 /\ DOMAIN issued' = 1 .. Len(issued) + 1
      /\ Len(issued) \in Nat /\ DOMAIN issued = 1 .. Len(issued)
      /\ \A i \in 1 .. Len(issued) : issued'[i] = issued[i]
      /\ issued'[Len(issued) + 1] = e
  BY <1>1
<1>3. \A i \in DOMAIN issued : i \in DOMAIN issued' /\ issued'[i] = issued[i] BY <1>2
<1>4. NoWrap' => NoWrap BY <1>3 DEF NoWrap
<1> QED BY <1>2, <1>3, <1>4

(* A request begins where the one before it ended.                         *)
LEMMA StreamBegin ==
  ASSUME DInv, UInv, Stream, stage = "up", NEW g \in Users, Begin(g)
  PROVE  Stream'
<1>1. /\ UInv' /\ mu = Nobody /\ mu' = g /\ sent' = [sent EXCEPT ![g] = 0]
      /\ issued' = Append(issued, [q |-> Current(g), by |-> g])
  BY UBegin
<1>2. UNCHANGED <<out, log, peerUp>> BY DEF Begin, serverVars
<1>3. /\ Len(issued') = Len(issued) + 1 /\ DOMAIN issued \subseteq DOMAIN issued'
      /\ \A i \in DOMAIN issued : issued'[i] = issued[i]
      /\ NoWrap' => NoWrap
  BY <1>1, IssuedMore
<1>4. Outbound' = Outbound
  <2>1. sent'[g] = 0
    <3>1. sent \in [Users -> Nat] BY DEF UInv, SessionType
    <3> QED BY <1>1, <3>1
  <2>2. Next1 = <<Len(issued) + 1, 1>> BY <1>1 DEF Next1
  <2>3. Next1' = <<Len(issued) + 1, 1>>
    <3>1. Next1' = <<Len(issued'), sent'[g] + 1>> BY <1>1, SessionAssumption DEF Next1
    <3>2. sent'[g] + 1 = 1 BY <2>1
    <3> QED BY <1>3, <3>1, <3>2
  <2> QED BY <1>2, <2>2, <2>3 DEF Outbound
<1>5. ASSUME NEW k \in DOMAIN out
      PROVE  /\ out[k][1] \in DOMAIN issued /\ issued'[out[k][1]] = issued[out[k][1]]
             /\ out[k][2] \in 1 .. Words(issued[out[k][1]].q)
             /\ After(out[k])' = After(out[k])
  <2>1. out[k][1] \in DOMAIN issued /\ out[k][2] \in 1 .. Words(issued[out[k][1]].q) BY DEF Stream
  <2>2. issued'[out[k][1]] = issued[out[k][1]] BY <1>3, <2>1
  <2> QED BY <1>2, <2>1, <2>2 DEF After
<1>6. log' \in Seq([re : DOMAIN issued', whole : BOOLEAN, good : BOOLEAN])
  <2>1. [re : DOMAIN issued, whole : BOOLEAN, good : BOOLEAN]
          \subseteq [re : DOMAIN issued', whole : BOOLEAN, good : BOOLEAN]
    BY <1>3
  <2>2. log \in Seq([re : DOMAIN issued, whole : BOOLEAN, good : BOOLEAN]) BY DEF Stream
  <2> QED BY <1>2, <2>1, <2>2, SeqMonotonic, Zenon
<1> QED BY <1>2, <1>3, <1>4, <1>5, <1>6 DEF Stream

(* The last request issued is that of the goroutine that writes.           *)
LEMMA MineIs ==
  ASSUME UInv, NEW g \in Users, pc[g] = "writing"
  PROVE  /\ mu = g /\ Mine(g) = Len(issued) /\ Len(issued) \in DOMAIN issued
         /\ issued[Len(issued)].q = Current(g) /\ issued[Len(issued)].by = g
<1> DEFINE S == {i \in DOMAIN issued : issued[i].by = g}  n == Len(issued)
<1>1. mu = g /\ issued # <<>> /\ issued[n] = [q |-> Current(g), by |-> g]
  BY SessionAssumption DEF UInv, Turns
<1>2. n \in Nat /\ DOMAIN issued = 1 .. n BY IssuedIs
<1>3. n \in DOMAIN issued
  <2>1. issued \in Seq([q : Sound, by : Users]) BY IssuedIs
  <2>2. n # 0 BY <1>1, <2>1, EmptySeq
  <2> QED BY <1>2, <2>2
<1>4. n \in S /\ \A i \in S : n >= i BY <1>1, <1>2, <1>3
<1>5. S \subseteq Nat BY <1>2
<1>6. Max(S) \in S /\ \A i \in S : Max(S) >= i
  <2> HIDE DEF S, n
  <2> QED BY <1>4, Zenon DEF Max
<1>7. Max(S) = n
  <2> HIDE DEF S
  <2>1. Max(S) >= n /\ n >= Max(S) /\ Max(S) \in Nat BY <1>4, <1>5, <1>6
  <2> QED BY <1>2, <2>1
<1> QED BY <1>1, <1>3, <1>7 DEF Mine

(* The words written are those that were next.                             *)
LEMMA StreamWrite ==
  ASSUME DInv, UInv, Stream, stage = "up", NEW g \in Users, WritePart(g)
  PROVE  Stream' /\ NoWrap' = NoWrap
<1> DEFINE all == Words(Current(g))  from == sent[g]  n == Len(issued)  T == Nat \X Nat
           K == Len(out)
<1>1. pc[g] = "writing" /\ UNCHANGED <<issued, log, peerUp>> BY DEF WritePart, serverVars
<1>2. /\ mu = g /\ Mine(g) = n /\ n \in DOMAIN issued
      /\ issued[n].q = Current(g) /\ issued[n].by = g
  BY <1>1, MineIs
<1>3. all \in Nat \ {0} /\ from \in Nat /\ from < all
  <2>1. all \in Nat \ {0} BY <1>2, IssuedIs
  <2> QED BY <1>1, <2>1 DEF UInv, SessionType
<1>4. n \in Nat BY <1>2, IssuedIs
<1>5. PICK c \in {all - from} \cup (IF from = 0 THEN {1} ELSE {}) :
        /\ out' = out \o [i \in 1 .. c |-> <<Mine(g), from + i>>]
        /\ sent' = [sent EXCEPT ![g] = @ + c]
  BY DEF WritePart
<1>6. c \in Nat \ {0} /\ from + c <= all BY <1>3, <1>5
<1>7. sent'[g] = from + c
  <2>1. sent \in [Users -> Nat] BY DEF UInv, SessionType
  <2> QED BY <1>5, <2>1
<1>8. IF from + c < all THEN mu' = g ELSE mu' = Nobody
  <2>1. IF sent'[g] < all THEN mu' = mu ELSE mu' = Nobody BY DEF WritePart
  <2> QED BY <1>2, <1>7, <2>1
<1>9. Next1' = IF from + c < all THEN <<n, from + c + 1>> ELSE <<n + 1, 1>>
  BY <1>1, <1>7, <1>8, SessionAssumption DEF Next1
<1>10. Next1 = <<n, from + 1>> BY <1>2, SessionAssumption DEF Next1
<1> DEFINE f == [i \in 1 .. c |-> <<Mine(g), from + i>>]
<1>11. f \in Seq(T) /\ Len(f) = c /\ \A i \in 1 .. c : f[i] = <<n, from + i>>
  <2>1. \A i \in 1 .. c : <<Mine(g), from + i>> \in T BY <1>2, <1>3, <1>4, <1>6
  <2>2. f \in [1 .. c -> T]
    <3> HIDE DEF T
    <3> QED BY <2>1
  <2>3. \A k \in Nat : [1 .. k -> T] \subseteq Seq(T) OBVIOUS
  <2>4. f \in Seq(T) BY <1>6, <2>2, <2>3, Zenon
  <2>5. DOMAIN f = 1 .. c OBVIOUS
  <2>6. Len(f) = c
    <3> HIDE DEF f, T
    <3> QED BY <1>6, <2>4, <2>5
  <2>7. \A i \in 1 .. c : f[i] = <<n, from + i>> BY <1>2
  <2> QED BY <2>4, <2>6, <2>7
<1>12. /\ K \in Nat /\ DOMAIN out = 1 .. K /\ out \in Seq(T)
       /\ \A k \in 1 .. K : Outbound[k] = out[k]
       /\ Outbound[K + 1] = Next1
  BY OutboundIs
<1>13. /\ out' \in Seq(T) /\ Len(out') = K + c
       /\ \A i \in 1 .. K + c : out'[i] = IF i <= K THEN out[i] ELSE f[i - K]
  <2>1. out' = out \o f BY <1>5
  <2> HIDE DEF T, f
  <2> QED BY <1>11, <1>12, <2>1, ConcatProperties
<1>14. DOMAIN out' = 1 .. K + c
  <2> HIDE DEF T
  <2> QED BY <1>6, <1>12, <1>13
<1> HIDE DEF f
<1>15. ASSUME NEW i \in 1 .. K PROVE out'[i] = out[i]
  <2>1. i \in 1 .. K + c /\ i <= K BY <1>6, <1>12
  <2> HIDE DEF T
  <2> QED BY <1>13, <2>1
<1>16. ASSUME NEW i \in 1 .. c PROVE out'[K + i] = <<n, from + i>>
  <2>1. K + i \in 1 .. K + c /\ ~(K + i <= K) /\ (K + i) - K = i BY <1>6, <1>12
  <2> QED BY <1>11, <1>13, <2>1
<1>17. \A k \in DOMAIN out' : k \in 1 .. K \/ \E i \in 1 .. c : k = K + i
  <2> SUFFICES ASSUME NEW k \in 1 .. K + c, ~(k \in 1 .. K)
               PROVE  \E i \in 1 .. c : k = K + i
    BY <1>14
  <2>1. k - K \in 1 .. c /\ k = K + (k - K) BY <1>6, <1>12
  <2> QED BY <2>1
<1>18. /\ Len(Outbound') = K + c + 1
       /\ \A k \in 1 .. K + c : Outbound'[k] = out'[k]
       /\ Outbound'[K + c + 1] = Next1'
  <2>1. Next1' \in T BY <1>3, <1>4, <1>6, <1>9
  <2> HIDE DEF T
  <2> QED BY <1>13, <2>1, AppendProperties DEF Outbound
<1>19. NoWrap' = NoWrap BY <1>1 DEF NoWrap
<1>20. \A w : After(w)' = After(w) BY <1>1 DEF After
<1>21. ASSUME NEW k \in DOMAIN out'
       PROVE  out'[k][1] \in DOMAIN issued /\ out'[k][2] \in 1 .. Words(issued[out'[k][1]].q)
  <2>1. CASE k \in 1 .. K BY <1>12, <1>15, <2>1 DEF Stream
  <2>2. CASE \E i \in 1 .. c : k = K + i
    <3>1. PICK i \in 1 .. c : k = K + i BY <2>2
    <3>2. out'[k] = <<n, from + i>> BY <1>16, <3>1
    <3>3. from + i \in 1 .. all BY <1>3, <1>6
    <3> QED BY <1>2, <3>2, <3>3
  <2> QED BY <1>17, <2>1, <2>2
<1>22. ASSUME NoWrap, peerUp
       PROVE  /\ Outbound'[1] = Outbound[1]
              /\ \A k \in DOMAIN out' : Outbound'[k + 1] = After(out'[k])
  <2>1. K + 1 \in 1 .. K + c /\ Outbound'[K + 1] = Next1
    <3>1. 1 \in 1 .. c /\ K + 1 \in 1 .. K + c BY <1>6, <1>12
    <3>2. out'[K + 1] = <<n, from + 1>> BY <1>16, <3>1
    <3> QED BY <1>10, <1>18, <3>1, <3>2
  <2>2. \A k \in 1 .. K + 1 : Outbound'[k] = Outbound[k]
    <3> SUFFICES ASSUME NEW k \in 1 .. K + 1 PROVE Outbound'[k] = Outbound[k]
      OBVIOUS
    <3>1. CASE k = K + 1 BY <1>12, <2>1, <3>1
    <3>2. CASE k # K + 1
      <4>1. k \in 1 .. K /\ k \in 1 .. K + c BY <1>6, <1>12, <3>2
      <4> QED BY <1>12, <1>15, <1>18, <4>1
    <3> QED BY <3>1, <3>2
  <2>3. 1 \in 1 .. K + 1 BY <1>12
  <2>4. ASSUME NEW k \in DOMAIN out' PROVE Outbound'[k + 1] = After(out'[k])
    <3>1. CASE k \in 1 .. K
      <4>1. k + 1 \in 1 .. K + 1 BY <1>12, <3>1
      <4>2. Outbound[k + 1] = After(out[k]) BY <1>12, <1>22, <3>1 DEF Stream
      <4> QED BY <1>15, <2>2, <3>1, <4>1, <4>2
    <3>2. CASE \E i \in 1 .. c : k = K + i
      <4>1. PICK i \in 1 .. c : k = K + i BY <3>2
      <4>2. out'[k] = <<n, from + i>> BY <1>16, <4>1
      <4>3. After(out'[k]) = IF from + i < all THEN <<n, from + i + 1>> ELSE <<n + 1, 1>>
        <5>1. out'[k][1] = n /\ out'[k][2] = from + i BY <4>2
        <5> QED BY <1>2, <5>1 DEF After
      <4>4. CASE i < c
        <5>1. i + 1 \in 1 .. c /\ k + 1 = K + (i + 1) /\ from + i < all /\ from + (i + 1) = from + i + 1
              /\ k + 1 \in 1 .. K + c
          BY <1>3, <1>6, <1>12, <4>1, <4>4
        <5>2. out'[k + 1] = <<n, from + (i + 1)>> BY <1>16, <5>1
        <5> QED BY <1>18, <4>3, <5>1, <5>2
      <4>5. CASE ~(i < c)
        <5>1. i = c /\ k + 1 = K + c + 1
          <6>1. K \in Nat BY <1>12
          <6> HIDE DEF all, from, K
          <6> QED BY <1>6, <4>1, <4>5, <6>1
        <5> QED BY <1>9, <1>18, <4>3, <5>1
      <4> QED BY <4>4, <4>5
    <3> QED BY <1>17, <3>1, <3>2
  <2> QED BY <2>2, <2>3, <2>4
<1>23. log \in Seq([re : DOMAIN issued, whole : BOOLEAN, good : BOOLEAN]) BY DEF Stream
<1> QED BY <1>1, <1>13, <1>19, <1>20, <1>21, <1>22, <1>23 DEF Stream

(* The words on the way begin with those of the first request that the     *)
(* server has not cut out yet.                                             *)
LEMMA FirstWords ==
  ASSUME UInv, Stream, NoWrap, peerUp, NEW n \in Nat \ {0}, n <= Len(out),
         Len(log) + 1 \in DOMAIN issued, n = Words(issued[Len(log) + 1].q)
  PROVE  /\ \A k \in 1 .. n : out[k] = <<Len(log) + 1, k>>
         /\ Outbound[n + 1] = <<Len(log) + 2, 1>>
<1> DEFINE i == Len(log) + 1  K == Len(out)
<1>1. /\ K \in Nat /\ DOMAIN out = 1 .. K /\ \A k \in 1 .. K : Outbound[k] = out[k]
      /\ i \in Nat
  BY OutboundIs, IssuedIs
<1>2. /\ Outbound[1] = <<i, 1>>
      /\ \A k \in 1 .. K : Outbound[k + 1] = After(out[k])
  BY <1>1 DEF Stream
<1>3. ASSUME NEW k \in 1 .. n, out[k] = <<i, k>>
      PROVE  Outbound[k + 1] = IF k < n THEN <<i, k + 1>> ELSE <<i + 1, 1>>
  <2>1. Outbound[k + 1] = After(out[k]) BY <1>1, <1>2
  <2>2. out[k][1] = i /\ out[k][2] = k BY <1>3
  <2> QED BY <1>3, <2>1, <2>2 DEF After
<1>4. \A k \in 1 .. n : out[k] = <<i, k>>
  <2> DEFINE B == {k \in 1 .. n : out[k] # <<i, k>>}
  <2> SUFFICES ASSUME B # {} PROVE FALSE
    OBVIOUS
  <2>1. B \in SUBSET Nat OBVIOUS
  <2>2. PICK k \in B : \A j \in B : k <= j
    <3> HIDE DEF B
    <3> QED BY <2>1, Least
  <2>3. k # 1 BY <1>1, <1>2, <2>2
  <2>4. k - 1 \in 1 .. n /\ ~(k <= k - 1) /\ k - 1 < n /\ k - 1 + 1 = k /\ k \in 1 .. K
    BY <1>1, <2>2, <2>3
  <2>5. out[k - 1] = <<i, k - 1>> BY <2>2, <2>4
  <2>6. Outbound[k - 1 + 1] = <<i, k - 1 + 1>> BY <1>3, <2>4, <2>5
  <2>7. out[k] = <<i, k>> BY <1>1, <2>4, <2>6
  <2> QED BY <2>2, <2>7
<1>5. Outbound[n + 1] = <<i + 1, 1>>
  <2>1. n \in 1 .. n /\ ~(n < n) OBVIOUS
  <2>2. out[n] = <<i, n>> BY <1>4, <2>1
  <2> QED BY <1>3, <2>1, <2>2
<1>6. i + 1 = Len(log) + 2 BY <1>1
<1> QED BY <1>4, <1>5, <1>6

(* What the server makes of the front of the stream.                       *)
LEMMA ServeIs ==
  ASSUME UInv, Stream, Serve
  PROVE  \E i \in DOMAIN issued : \E whole \in BOOLEAN, good \in BOOLEAN :
           /\ Stream' /\ NoWrap' = NoWrap
           /\ log' = Append(log, [re |-> i, whole |-> whole, good |-> good])
           /\ \/ ~good /\ in' = in \o Frames(Error(i))
              \/ good /\ in' = in
              \/ good /\ \E m \in Answers(i) : in' = in \o Frames(m)
           /\ whole /\ Understood(issued[i].q) /\ Fits(issued[i].q) => good
           /\ peerUp /\ peerUp' = peerUp
           /\ NoWrap => i = Len(log) + 1 /\ whole /\ (i = Len(issued) => mu = Nobody)
<1> DEFINE w == Head(out)  i == w[1]
           len == IF w[2] = 1 THEN lengthField(issued[w[1]].q) ELSE 1
           take == IF len = 0 THEN 1 ELSE len
           whole == /\ take = Words(issued[i].q)
                    /\ SubSeq(out, 1, take) = [k \in 1 .. take |-> <<i, k>>]
           good == whole /\ Understood(issued[i].q) /\ Fits(issued[i].q)
           T == Nat \X Nat  K == Len(out)
<1>1. /\ peerUp /\ out # <<>> /\ K >= take
      /\ out' = SubSeq(out, take + 1, K)
      /\ log' = Append(log, [re |-> i, whole |-> whole, good |-> good])
      /\ \/ ~good /\ in' = in \o Frames(Error(i))
         \/ good /\ in' = in
         \/ good /\ \E m \in Answers(i) : in' = in \o Frames(m)
      /\ peerUp' = peerUp /\ mu' = mu /\ sent' = sent /\ issued' = issued
  BY DEF Serve, userVars, serverVars
<1>2. /\ K \in Nat /\ DOMAIN out = 1 .. K /\ out \in Seq(T)
      /\ \A k \in 1 .. K : out[k] \in T /\ Outbound[k] = out[k]
      /\ Outbound[K + 1] = Next1 /\ Next1 \in T
  BY OutboundIs
<1>3. K # 0
  <2> HIDE DEF T
  <2> QED BY <1>1, <1>2, EmptySeq
<1>4. w = out[1] /\ 1 \in 1 .. K
  <2>1. 1 \in 1 .. K BY <1>2, <1>3
  <2>2. Head(out) = out[1]
    <3>1. out \in Seq(T) /\ out # <<>> BY <1>1, <1>2
    <3> HIDE DEF T
    <3> QED BY <3>1
  <2> QED BY <2>1, <2>2
<1>5. i \in DOMAIN issued /\ w[2] \in 1 .. Words(issued[i].q) BY <1>2, <1>4 DEF Stream
<1>6. Words(issued[i].q) \in Nat \ {0} BY <1>5, IssuedIs
<1>7. take \in Nat \ {0}
  <2>1. Words(issued[i].q) % LenMod \in Nat BY <1>6, RequestsAssumption, ModInRange
  <2> QED BY <2>1 DEF lengthField
<1> HIDE DEF w, take
<1>8. whole \in BOOLEAN /\ good \in BOOLEAN
  <2>1. whole \in BOOLEAN OBVIOUS
  <2>2. Understood(issued[i].q) \in BOOLEAN /\ Fits(issued[i].q) \in BOOLEAN
    BY DEF Understood, Fits
  <2> QED BY <2>1, <2>2, Zenon
<1> DEFINE left == K - take
<1>20. K \in Nat /\ take \in Nat \ {0} /\ left \in Nat /\ left + take = K
  <2>1. K \in Nat /\ K >= take BY <1>1, <1>2
  <2> HIDE DEF K
  <2> QED BY <1>7, <2>1
<1>21. (IF take + 1 <= K THEN K - (take + 1) + 1 ELSE 0) = left /\ K - (take + 1) + 1 = left
  <2>1. K \in Nat /\ K >= take BY <1>1, <1>2
  <2> HIDE DEF K
  <2> QED BY <1>7, <2>1
<1> HIDE DEF left
<1>9. /\ out' \in Seq(T) /\ Len(out') = left /\ DOMAIN out' = 1 .. left
      /\ \A k \in 1 .. left : k + take \in 1 .. K /\ out'[k] = out[k + take]
  <2>1. \A k \in take + 1 .. K : out[k] \in T BY <1>2, <1>7
  <2>2. /\ SubSeq(out, take + 1, K) \in Seq(T)
        /\ Len(SubSeq(out, take + 1, K)) = IF take + 1 <= K THEN K - (take + 1) + 1 ELSE 0
        /\ \A k \in 1 .. K - (take + 1) + 1 :
             SubSeq(out, take + 1, K)[k] = out[(take + 1 + k) - 1]
    <3>1. take + 1 \in Int /\ K \in Int BY <1>2, <1>7
    <3> HIDE DEF T
    <3> QED BY <2>1, <3>1, SubSeqProperties
  <2>4. Len(out') = left BY <1>1, <1>21, <2>2
  <2>5. out' \in Seq(T) BY <1>1, <2>2
  <2>6. DOMAIN out' = 1 .. left
    <3> HIDE DEF T
    <3> QED BY <2>4, <2>5
  <2>7. ASSUME NEW k \in 1 .. left PROVE k + take \in 1 .. K /\ out'[k] = out[k + take]
    <3>1. k + take \in 1 .. K /\ (take + 1 + k) - 1 = k + take BY <1>20
    <3> QED BY <1>1, <1>21, <2>2, <3>1
  <2> QED BY <2>4, <2>5, <2>6, <2>7
<1>10. /\ log' \in Seq([re : DOMAIN issued', whole : BOOLEAN, good : BOOLEAN])
       /\ Len(log) \in Nat /\ DOMAIN log = 1 .. Len(log)
       /\ DOMAIN log' = 1 .. Len(log) + 1 /\ Len(log') = Len(log) + 1
       /\ \A k \in 1 .. Len(log) : log'[k] = log[k]
       /\ log'[Len(log) + 1] = [re |-> i, whole |-> whole, good |-> good]
  <2> DEFINE L == [re : DOMAIN issued, whole : BOOLEAN, good : BOOLEAN]
             e == [re |-> i, whole |-> whole, good |-> good]
  <2>1. log \in Seq(L) BY DEF Stream
  <2>2. e \in L BY <1>5, <1>8
  <2>3. log' = Append(log, e) BY <1>1
  <2> HIDE DEF L, e
  <2>4. /\ log' \in Seq(L) /\ Len(log') = Len(log) + 1
        /\ \A k \in 1 .. Len(log) : log'[k] = log[k]
        /\ log'[Len(log) + 1] = e
    BY <2>1, <2>2, <2>3, AppendProperties
  <2>5. Len(log) \in Nat /\ DOMAIN log = 1 .. Len(log) /\ DOMAIN log' = 1 .. Len(log) + 1
    BY <2>1, <2>4
  <2> QED BY <1>1, <2>4, <2>5 DEF L, e
<1>11. NoWrap' = NoWrap /\ \A x : After(x)' = After(x) BY <1>1 DEF NoWrap, After
<1>12. Next1' = Next1 BY <1>1 DEF Next1
<1>13. ASSUME NoWrap
       PROVE  /\ i = Len(log) + 1 /\ whole /\ take = Words(issued[i].q)
              /\ Outbound[take + 1] = <<i + 1, 1>>
  <2>1. Outbound[1] = <<Len(log) + 1, 1>> BY <1>1, <1>13 DEF Stream
  <2>2. i = Len(log) + 1 /\ w[2] = 1 BY <1>2, <1>4, <2>1
  <2>3. take = Words(issued[i].q)
    <3>1. Words(issued[i].q) < LenMod BY <1>5, <1>13 DEF NoWrap
    <3>2. Words(issued[i].q) % LenMod = Words(issued[i].q)
      BY <1>6, <3>1, RequestsAssumption
    <3> QED BY <1>6, <2>2, <3>2 DEF take, lengthField
  <2>4. take <= K BY <1>1, <1>2, <1>7
  <2>5. /\ \A k \in 1 .. take : out[k] = <<i, k>>
        /\ Outbound[take + 1] = <<Len(log) + 2, 1>>
    BY <1>1, <1>5, <1>7, <1>13, <2>2, <2>3, <2>4, FirstWords
  <2>6. SubSeq(out, 1, take) = [k \in 1 .. take |-> <<i, k>>]
    <3>1. /\ Len(SubSeq(out, 1, take)) = take
          /\ SubSeq(out, 1, take) \in Seq(T)
          /\ \A k \in 1 .. take : SubSeq(out, 1, take)[k] = out[k]
      <4>1. \A k \in 1 .. take : out[k] \in T BY <1>2, <1>7, <2>4
      <4>2. /\ SubSeq(out, 1, take) \in Seq(T)
            /\ Len(SubSeq(out, 1, take)) = IF 1 <= take THEN take - 1 + 1 ELSE 0
            /\ \A k \in 1 .. take - 1 + 1 : SubSeq(out, 1, take)[k] = out[(1 + k) - 1]
        <5>1. 1 \in Int /\ take \in Int BY <1>7
        <5> HIDE DEF T
        <5> QED BY <4>1, <5>1, SubSeqProperties
      <4>3. take - 1 + 1 = take /\ 1 <= take /\ \A k \in 1 .. take : (1 + k) - 1 = k BY <1>7
      <4> QED BY <4>2, <4>3
    <3>2. SubSeq(out, 1, take) \in [1 .. take -> T]
      <4> HIDE DEF T
      <4> QED BY <3>1, LenProperties
    <3> HIDE DEF T
    <3> QED BY <2>5, <3>1, <3>2
  <2>7. Len(log) + 2 = i + 1 BY <1>10, <2>2
  <2> QED BY <2>2, <2>3, <2>5, <2>6, <2>7
<1> HIDE DEF whole, good
<1>14. ASSUME NEW k \in DOMAIN out'
       PROVE  out'[k][1] \in DOMAIN issued /\ out'[k][2] \in 1 .. Words(issued[out'[k][1]].q)
  <2>1. k + take \in DOMAIN out /\ out'[k] = out[k + take] BY <1>2, <1>9
  <2> QED BY <2>1 DEF Stream
<1>15. /\ Len(Outbound') = left + 1 /\ Outbound'[left + 1] = Next1
       /\ \A k \in 1 .. left : Outbound'[k] = out'[k]
  <2>1. Outbound' = Append(out', Next1) BY <1>12 DEF Outbound
  <2> HIDE DEF T
  <2> QED BY <1>2, <1>9, <2>1, AppendProperties
<1>16. ASSUME NEW k \in 1 .. left + 1 PROVE Outbound'[k] = Outbound[k + take]
  <2>1. CASE k = left + 1
    <3>1. k + take = K + 1 BY <1>20, <2>1
    <3> QED BY <1>2, <1>15, <2>1, <3>1
  <2>2. CASE k # left + 1
    <3>1. k \in 1 .. left BY <1>20, <2>2
    <3> QED BY <1>2, <1>9, <1>15, <3>1
  <2> QED BY <2>1, <2>2
<1>17. ASSUME NoWrap
       PROVE  /\ \A k \in DOMAIN log' : log'[k].re = k /\ log'[k].whole
              /\ Outbound'[1] = <<Len(log') + 1, 1>>
              /\ \A k \in DOMAIN out' : Outbound'[k + 1] = After(out'[k])
              /\ i = Len(issued) => mu = Nobody
  <2>1. ASSUME NEW k \in DOMAIN log' PROVE log'[k].re = k /\ log'[k].whole
    <3>1. CASE k \in 1 .. Len(log) BY <1>10, <1>17, <3>1 DEF Stream
    <3>2. CASE k = Len(log) + 1
      <4>1. log'[k].re = i /\ log'[k].whole = whole BY <1>10, <3>2
      <4> QED BY <1>13, <1>17, <3>2, <4>1
    <3> QED BY <1>10, <3>1, <3>2
  <2>2. Outbound'[1] = <<Len(log') + 1, 1>>
    <3>1. 1 \in 1 .. left + 1 /\ 1 + take = take + 1 BY <1>20
    <3> QED BY <1>10, <1>13, <1>16, <1>17, <3>1
  <2>3. ASSUME NEW k \in DOMAIN out' PROVE Outbound'[k + 1] = After(out'[k])
    <3>1. k \in 1 .. left BY <1>9
    <3>3. k + 1 \in 1 .. left + 1 /\ (k + 1) + take = (k + take) + 1 BY <1>20, <3>1
    <3>4. k + take \in 1 .. K /\ out'[k] = out[k + take] BY <1>9, <3>1
    <3>2. Outbound[(k + take) + 1] = After(out[k + take]) BY <1>1, <1>2, <1>17, <3>4 DEF Stream
    <3> QED BY <1>16, <3>2, <3>3, <3>4
  <2>4. ASSUME i = Len(issued), mu # Nobody PROVE FALSE
    <3>1. Next1[1] = Len(issued) BY <2>4 DEF Next1
    <3>2. Outbound[take + 1][1] = i + 1 BY <1>13, <1>17
    <3>3. take + 1 # K + 1
      <4>1. i + 1 # i BY <1>10, <1>13, <1>17
      <4> QED BY <1>2, <2>4, <3>1, <3>2, <4>1
    <3>4. take + 1 \in 1 .. K BY <1>1, <1>2, <1>7, <3>3
    <3>5. out[take + 1][1] = i + 1 /\ out[take + 1][1] \in DOMAIN issued
      BY <1>2, <3>2, <3>4 DEF Stream
    <3> QED BY <2>4, <3>5, IssuedIs
  <2> QED BY <2>1, <2>2, <2>3, <2>4
<1>18. Stream'
  <2>1. issued' = issued /\ out' \in Seq(T) BY <1>1, <1>9
  <2> QED BY <1>10, <1>11, <1>14, <1>17, <2>1 DEF Stream
<1>19. whole /\ Understood(issued[i].q) /\ Fits(issued[i].q) => good BY DEF good
<1> QED BY <1>1, <1>5, <1>8, <1>11, <1>13, <1>17, <1>18, <1>19

-----------------------------------------------------------------------------
(* What the server refuses.                                                *)

(* Where nothing is served nothing is refused.                             *)
LEMMA RefusedSame ==
  ASSUME Stream, NoneRefused, UNCHANGED <<Setup, log>>, NoWrap' => NoWrap,
         \A i \in DOMAIN issued : issued'[i] = issued[i]
  PROVE  NoneRefused'
<1> SUFFICES ASSUME NoWrap, NEW k \in DOMAIN log
             PROVE  log[k].good \/ Refusable(issued'[log[k].re].q)
  BY DEF NoneRefused, Refusable, Fits
<1>1. log[k].re \in DOMAIN issued
  <2> DEFINE L == [re : DOMAIN issued, whole : BOOLEAN, good : BOOLEAN]
  <2>1. log \in Seq(L) BY DEF Stream
  <2>2. log[k] \in L
    <3> HIDE DEF L
    <3> QED BY <2>1
  <2> QED BY <2>2
<1> QED BY <1>1 DEF NoneRefused

(* A whole request that fits and has whole items or lines is understood.   *)
LEMMA RefusedServe ==
  ASSUME UInv, Stream, NoneRefused, Setup' = Setup, issued' = issued, NoWrap' = NoWrap,
         NEW i \in DOMAIN issued, NEW whole \in BOOLEAN, NEW good \in BOOLEAN,
         log' = Append(log, [re |-> i, whole |-> whole, good |-> good]),
         whole /\ Understood(issued[i].q) /\ Fits(issued[i].q) => good,
         NoWrap => whole
  PROVE  NoneRefused'
<1>1. /\ DOMAIN log' = 1 .. Len(log) + 1 /\ DOMAIN log = 1 .. Len(log) /\ Len(log) \in Nat
      /\ \A k \in 1 .. Len(log) : log'[k] = log[k]
      /\ log'[Len(log) + 1] = [re |-> i, whole |-> whole, good |-> good]
  <2> DEFINE L == [re : DOMAIN issued, whole : BOOLEAN, good : BOOLEAN]
             e == [re |-> i, whole |-> whole, good |-> good]
  <2>1. log \in Seq(L) /\ e \in L /\ log' = Append(log, e) BY DEF Stream
  <2> HIDE DEF L, e
  <2>2. /\ log' \in Seq(L) /\ Len(log') = Len(log) + 1
        /\ \A k \in 1 .. Len(log) : log'[k] = log[k]
        /\ log'[Len(log) + 1] = e
    BY <2>1, AppendProperties
  <2>3. DOMAIN log' = 1 .. Len(log) + 1 /\ DOMAIN log = 1 .. Len(log) /\ Len(log) \in Nat
    BY <2>1, <2>2
  <2> QED BY <2>2, <2>3 DEF e
<1>2. NoWrap => good \/ Refusable(issued[i].q)
  <2> DEFINE q == issued[i].q
  <2> SUFFICES ASSUME NoWrap, ~good,
                      IF q.name = "PutImage" THEN WholeLines(q.image) ELSE q.size % q.unit = 0
               PROVE  Refusable(q)
    BY DEF Refusable
  <2>1. q \in Sound BY IssuedIs
  <2> HIDE DEF q
  <2>2. q \in Encoded BY <2>1 DEF Sound
  <2>3. Understood(q) BY <2>2, Expects
  <2>4. ~Fits(q) BY <2>3 DEF q
  <2> QED BY <2>1, <2>4 DEF Sound, Refusable
<1>3. ASSUME NoWrap, NEW k \in DOMAIN log'
      PROVE  log'[k].good \/ Refusable(issued[log'[k].re].q)
  <2>1. CASE k \in 1 .. Len(log) BY <1>1, <1>3, <2>1 DEF NoneRefused
  <2>2. CASE k = Len(log) + 1 BY <1>1, <1>2, <1>3, <2>2
  <2>3. k \in 1 .. Len(log) \/ k = Len(log) + 1 BY <1>1, <1>3
  <2> QED BY <2>1, <2>2, <2>3
<1> QED BY <1>3 DEF NoneRefused, Refusable, Fits

-----------------------------------------------------------------------------
(* The replies.                                                            *)

(* Who waits goes on waiting while others go about their business.         *)
LEMMA Waits ==
  ASSUME UInv, NEW g, NEW i \in DOMAIN issued, Awaited(i), issued[i].by # g,
         \A h \in Users : h # g => pc'[h] = pc[h] /\ todo'[h] = todo[h],
         issued' = issued \/ \E q : issued' = Append(issued, [q |-> q, by |-> g])
  PROVE  Awaited(i)' /\ i \in DOMAIN issued' /\ issued'[i] = issued[i]
<1>1. CASE issued' = issued
  <2>1. issued[i].by \in Users BY IssuedIs
  <2>2. Current(issued[i].by)' = Current(issued[i].by) BY <1>1, <2>1 DEF Current
  <2> QED BY <1>1, <2>1, <2>2 DEF Awaited
<1>2. CASE \E q : issued' = Append(issued, [q |-> q, by |-> g])
  <2>1. PICK q : issued' = Append(issued, [q |-> q, by |-> g]) BY <1>2
  <2>2. /\ DOMAIN issued' = 1 .. Len(issued) + 1 /\ DOMAIN issued \subseteq DOMAIN issued'
        /\ \A j \in DOMAIN issued : issued'[j] = issued[j]
        /\ issued'[Len(issued) + 1] = [q |-> q, by |-> g]
    BY <2>1, IssuedMore
  <2>3. issued[i].by \in Users /\ DOMAIN issued = 1 .. Len(issued) /\ Len(issued) \in Nat
    BY IssuedIs
  <2>6. PICK b \in Users : b = issued[i].by BY <2>3
  <2>4. Current(b)' = Current(b) /\ pc'[b] = pc[b] /\ b = issued'[i].by
    BY <2>2, <2>6 DEF Current
  <2>5. ASSUME NEW j \in DOMAIN issued', j > i PROVE issued'[j].by # b
    <3>1. CASE j \in DOMAIN issued BY <2>2, <2>5, <2>6, <3>1 DEF Awaited
    <3>2. CASE j \notin DOMAIN issued
      <4>1. j = Len(issued) + 1 BY <2>2, <2>3, <3>2
      <4> QED BY <2>2, <2>6, <4>1
    <3> QED BY <3>1, <3>2
  <2> QED BY <2>2, <2>4, <2>5, <2>6 DEF Awaited
<1> QED BY <1>1, <1>2

(* An answer stays one if its request is still awaited.                    *)
LEMMA StaysAnswer ==
  ASSUME NEW m, Answer(m), Setup' = Setup,
         m.kind # "event" => /\ m.re \in DOMAIN log' /\ m.re \in DOMAIN issued'
                             /\ issued'[m.re] = issued[m.re]
                             /\ HasReply(issued[m.re].q.name) => Awaited(m.re)'
  PROVE  Answer(m)'
  BY DEF Answer

(* A goroutine that waits for nothing has nothing coming.                  *)
NothingFor(g) ==
  \A k \in DOMAIN Inbound :
    LET m == Inbound[k].msg IN
    m.kind # "event" /\ HasReply(issued[m.re].q.name) => issued[m.re].by # g

(* Who does not wait has nothing coming.                                   *)
LEMMA NothingComes ==
  ASSUME UInv, Replies, NEW g \in Users, pc[g] # "waiting"
  PROVE  NothingFor(g) /\ slot[g] = Nil
<1>1. NothingFor(g) BY DEF NothingFor, Replies, OnTheWay, Answer, Awaited
<1>2. ASSUME slot[g] # Nil PROVE FALSE
  <2>1. Answer(slot[g]) /\ issued[slot[g].re].by = g /\ HasReply(issued[slot[g].re].q.name)
    BY <1>2 DEF Replies, Handed
  <2>2. slot[g].kind # "event" BY <1>2 DEF UInv, SessionType
  <2> QED BY <2>1, <2>2 DEF Answer, Awaited
<1> QED BY <1>1, <1>2

(* Neither has one whose answer is in its slot.                            *)
LEMMA NothingElse ==
  ASSUME UInv, Framed, Replies, NEW g \in Users, slot[g] # Nil
  PROVE  NothingFor(g)
<1>1. /\ Answer(slot[g]) /\ issued[slot[g].re].by = g /\ HasReply(issued[slot[g].re].q.name)
      /\ \A k \in Heads(Inbound) : Inbound[k].msg.re # slot[g].re
  BY DEF Replies, Handed
<1>2. slot[g].kind # "event" BY DEF UInv, SessionType
<1>3. Awaited(slot[g].re) /\ slot[g].re \in DOMAIN issued BY <1>1, <1>2 DEF Answer
<1> SUFFICES ASSUME NEW k \in DOMAIN Inbound, Inbound[k].msg.kind # "event",
                    HasReply(issued[Inbound[k].msg.re].q.name),
                    issued[Inbound[k].msg.re].by = g
             PROVE  FALSE
  BY DEF NothingFor
<1> DEFINE m == Inbound[k].msg
<1>4. Answer(m) BY DEF Replies, OnTheWay
<1>5. Awaited(m.re) /\ m.re \in DOMAIN issued BY <1>4 DEF Answer
<1>6. m.re = slot[g].re
  <2>1. m.re \in Nat /\ slot[g].re \in Nat BY <1>3, <1>5, IssuedIs
  <2>2. ~(m.re > slot[g].re) /\ ~(slot[g].re > m.re) BY <1>1, <1>3, <1>5 DEF Awaited
  <2> QED BY <2>1, <2>2
<1>7. \E j \in Heads(Inbound) : Inbound[j].msg = m
  <2>1. Inbound \in Seq(Frame) /\ DOMAIN Inbound = 1 .. Len(Inbound) /\ Len(Inbound) \in Nat
    BY TypedIn
  <2>2. CASE Inbound[k].part = "tail"
    <3>1. k > 1 /\ Inbound[k - 1] = [part |-> "head", msg |-> m]
      BY <2>2 DEF Framed, InFrames
    <3>2. k - 1 \in DOMAIN Inbound BY <2>1, <3>1
    <3>3. Inbound[k - 1].part = "head" /\ Inbound[k - 1].msg = m BY <3>1
    <3>4. k - 1 \in Heads(Inbound) BY <3>2, <3>3 DEF Heads
    <3> QED BY <3>3, <3>4
  <2>3. CASE Inbound[k].part # "tail"
    <3>1. Inbound[k] \in Frame
      <4> HIDE DEF Frame
      <4> QED BY <2>1
    <3>2. k \in Heads(Inbound) BY <2>3, <3>1 DEF Heads, Frame
    <3> QED BY <3>2
  <2> QED BY <2>2, <2>3
<1> QED BY <1>1, <1>6, <1>7

(* A step of a goroutine with nothing coming leaves the others' answers    *)
(* as they are.                                                            *)
LEMMA RepliesBut ==
  ASSUME UInv, OnTheWay, Handed, NEW g \in Users, NothingFor(g), slot'[g] = Nil,
         \A h \in Users : h # g => pc'[h] = pc[h] /\ todo'[h] = todo[h] /\ slot'[h] = slot[h],
         issued' = issued \/ \E q : issued' = Append(issued, [q |-> q, by |-> g]),
         UNCHANGED <<log, Setup>>, Inbound' = Inbound
  PROVE  OnTheWay' /\ Handed'
<1>1. \A i \in DOMAIN issued : i \in DOMAIN issued' /\ issued'[i] = issued[i]
  <2>1. CASE issued' = issued BY <2>1
  <2>2. CASE \E q : issued' = Append(issued, [q |-> q, by |-> g]) BY <2>2, IssuedMore
  <2> QED BY <2>1, <2>2
<1>2. ASSUME NEW m, Answer(m),
             m.kind # "event" /\ HasReply(issued[m.re].q.name) => issued[m.re].by # g
      PROVE  Answer(m)'
  <2>1. ASSUME m.kind # "event"
        PROVE  /\ m.re \in DOMAIN log' /\ m.re \in DOMAIN issued'
               /\ issued'[m.re] = issued[m.re]
               /\ HasReply(issued[m.re].q.name) => Awaited(m.re)'
    <3>1. m.re \in DOMAIN log /\ m.re \in DOMAIN issued BY <1>2, <2>1 DEF Answer
    <3>2. ASSUME HasReply(issued[m.re].q.name) PROVE Awaited(m.re)'
      <4>1. Awaited(m.re) /\ issued[m.re].by # g BY <1>2, <2>1, <3>2 DEF Answer
      <4> QED BY <3>1, <4>1, Waits
    <3> QED BY <1>1, <3>1, <3>2
  <2> QED BY <1>2, <2>1, StaysAnswer
<1>3. \A k \in DOMAIN Inbound : Answer(Inbound[k].msg)'
  BY <1>2 DEF OnTheWay, NothingFor
<1>4. OnTheWay' BY <1>3 DEF OnTheWay, Heads
<1>5. ASSUME NEW h \in Users, slot'[h] # Nil
      PROVE  /\ (Answer(slot[h]))' /\ issued'[slot'[h].re].by = h
             /\ HasReply(issued'[slot'[h].re].q.name)
             /\ \A k \in Heads(Inbound) : Inbound[k].msg.re # slot'[h].re
  <2>1. h # g /\ slot'[h] = slot[h] BY <1>5
  <2>2. /\ Answer(slot[h]) /\ issued[slot[h].re].by = h
        /\ HasReply(issued[slot[h].re].q.name)
        /\ \A k \in Heads(Inbound) : Inbound[k].msg.re # slot[h].re
    BY <1>5, <2>1 DEF Handed
  <2>3. (Answer(slot[h]))'
    <3>1. PICK m : m = slot[h] OBVIOUS
    <3>2. Answer(m)' BY <1>2, <2>1, <2>2, <3>1
    <3>3. slot'[h] = m BY <2>1, <3>1
    <3> QED BY <3>2, <3>3 DEF Answer
  <2>4. slot[h].kind # "event" BY <1>5, <2>1 DEF UInv, SessionType
  <2>5. slot[h].re \in DOMAIN issued BY <2>2, <2>4 DEF Answer
  <2>6. issued'[slot[h].re] = issued[slot[h].re] BY <1>1, <2>5
  <2> QED BY <2>1, <2>2, <2>3, <2>6
<1>6. Handed' BY <1>5 DEF Handed, Heads
<1> QED BY <1>4, <1>6

(* The goroutines stay as they are, and the server may have taken more.    *)
Still ==
  /\ UNCHANGED <<pc, todo, issued, Setup>>
  /\ DOMAIN log \subseteq DOMAIN log'

(* What answers a request goes on answering it.                            *)
LEMMA StillAnswers ==
  ASSUME UInv, Still, NEW m, Answer(m)
  PROVE  Answer(m)'
<1>1. ASSUME m.kind # "event"
      PROVE  /\ m.re \in DOMAIN log' /\ m.re \in DOMAIN issued'
             /\ issued'[m.re] = issued[m.re]
             /\ HasReply(issued[m.re].q.name) => Awaited(m.re)'
  <2>1. m.re \in DOMAIN log /\ m.re \in DOMAIN issued BY <1>1 DEF Answer
  <2>2. HasReply(issued[m.re].q.name) => Awaited(m.re) BY <1>1 DEF Answer
  <2>3. Awaited(m.re)' = Awaited(m.re) BY DEF Still, Awaited, Current
  <2> QED BY <2>1, <2>2, <2>3 DEF Still
<1> QED BY <1>1, StaysAnswer DEF Still

(* What stays on the way stays as it was.                                  *)
LEMMA OnTheWayPart ==
  ASSUME UInv, Still, OnTheWay, NEW d, Window(Inbound', Inbound, d), Inbound' \in Seq(Frame)
  PROVE  /\ OnTheWay'
         /\ \A k \in Heads(Inbound') : k + d \in Heads(Inbound) /\ Inbound'[k] = Inbound[k + d]
<1>1. d \in Nat /\ \A k \in DOMAIN Inbound' : k + d \in DOMAIN Inbound /\ Inbound'[k] = Inbound[k + d]
  BY DEF Window
<1>2. \A k \in Heads(Inbound') : k + d \in Heads(Inbound) /\ Inbound'[k] = Inbound[k + d]
  BY <1>1 DEF Heads
<1>3. ASSUME NEW k \in DOMAIN Inbound' PROVE (Answer(Inbound[k].msg))'
  <2>1. PICK m : m = Inbound'[k].msg OBVIOUS
  <2>2. Answer(m) BY <1>1, <2>1 DEF OnTheWay
  <2>3. Answer(m)' BY <2>2, StillAnswers
  <2> QED BY <2>1, <2>3 DEF Answer
<1>4. ASSUME NEW j \in Heads(Inbound'), NEW k \in Heads(Inbound'), j # k
      PROVE  Inbound'[j].msg.re # Inbound'[k].msg.re
  <2>1. DOMAIN Inbound' \subseteq Nat
    <3> HIDE DEF Frame
    <3> QED OBVIOUS
  <2>2. j \in Nat /\ k \in Nat BY <2>1 DEF Heads
  <2>3. j + d # k + d BY <1>1, <1>4, <2>2
  <2> QED BY <1>2, <2>3 DEF OnTheWay
<1>5. OnTheWay' BY <1>3, <1>4 DEF OnTheWay, Heads
<1> QED BY <1>2, <1>5

(* A reply that was handed over stays the only one to its request.         *)
LEMMA HandedStays ==
  ASSUME UInv, Still, Handed, NEW h \in Users, slot'[h] = slot[h], slot[h] # Nil
  PROVE  /\ (Answer(slot[h]))' /\ issued'[slot'[h].re].by = h
         /\ HasReply(issued'[slot'[h].re].q.name)
         /\ \A k \in Heads(Inbound) : Inbound[k].msg.re # slot'[h].re
<1>1. /\ Answer(slot[h]) /\ issued[slot[h].re].by = h
      /\ HasReply(issued[slot[h].re].q.name)
      /\ \A k \in Heads(Inbound) : Inbound[k].msg.re # slot[h].re
  BY DEF Handed
<1>2. PICK m : m = slot[h] OBVIOUS
<1>3. Answer(m)' BY <1>1, <1>2, StillAnswers
<1>4. (Answer(slot[h]))' BY <1>2, <1>3 DEF Answer
<1> QED BY <1>1, <1>4 DEF Still

(* Taking frames off the front keeps what is left as it was.               *)
LEMMA RepliesPart ==
  ASSUME UInv, Still, OnTheWay, Handed, slot' = slot, NEW d, Window(Inbound', Inbound, d),
         Inbound' \in Seq(Frame)
  PROVE  OnTheWay' /\ Handed'
<1>1. /\ OnTheWay'
      /\ \A k \in Heads(Inbound') : k + d \in Heads(Inbound) /\ Inbound'[k] = Inbound[k + d]
  BY OnTheWayPart
<1>2. ASSUME NEW h \in Users, slot'[h] # Nil
      PROVE  /\ (Answer(slot[h]))' /\ issued'[slot'[h].re].by = h
             /\ HasReply(issued'[slot'[h].re].q.name)
             /\ \A k \in Heads(Inbound') : Inbound'[k].msg.re # slot'[h].re
  BY <1>1, <1>2, HandedStays
<1>3. Handed' BY <1>2 DEF Handed, Heads
<1> QED BY <1>1, <1>3

(* The reader hands the first over to its issuer.                          *)
LEMMA RepliesRead ==
  ASSUME UInv, Framed, Still, OnTheWay, Handed, Delivers, Inbound' \in Seq(Frame)
  PROVE  OnTheWay' /\ Handed'
<1>1. PICK d \in {1, 2} : /\ Window(Inbound', Inbound, d) /\ d <= Len(Inbound)
                          /\ Inbound[1].part = "head" /\ Deliver(Inbound[1].msg)
  BY DEF Delivers
<1>2. /\ OnTheWay'
      /\ \A k \in Heads(Inbound') : k + d \in Heads(Inbound) /\ Inbound'[k] = Inbound[k + d]
  BY <1>1, OnTheWayPart
<1>3. PICK m : m = Inbound[1].msg OBVIOUS
<1>4. Inbound \in Seq(Frame) /\ Len(Inbound) \in Nat /\ DOMAIN Inbound = 1 .. Len(Inbound)
  BY TypedIn
<1>5. 1 \in DOMAIN Inbound BY <1>1, <1>4
<1>6. m \in Messages
  <2>1. Inbound[1] \in Frame
    <3> HIDE DEF Frame
    <3> QED BY <1>4, <1>5
  <2> QED BY <1>3, <2>1 DEF Frame
<1>7. ASSUME NEW h \in Users, slot'[h] # Nil
      PROVE  /\ (Answer(slot[h]))' /\ issued'[slot'[h].re].by = h
             /\ HasReply(issued'[slot'[h].re].q.name)
             /\ \A k \in Heads(Inbound') : Inbound'[k].msg.re # slot'[h].re
  <2>1. \/ slot'[h] = slot[h]
        \/ /\ slot'[h] = m /\ m.kind # "event"
           /\ issued[m.re].by = h /\ HasReply(issued[m.re].q.name)
    BY <1>1, <1>3, <1>6, DeliverIs
  <2>2. CASE slot'[h] = slot[h] BY <1>2, <1>7, <2>2, HandedStays
  <2>3. CASE /\ slot'[h] = m /\ m.kind # "event"
             /\ issued[m.re].by = h /\ HasReply(issued[m.re].q.name)
    <3>1. Answer(m)' BY <1>3, <1>5, StillAnswers DEF OnTheWay
    <3>2. (Answer(slot[h]))' BY <2>3, <3>1 DEF Answer
    <3>3. 1 \in Heads(Inbound) BY <1>1, <1>3, <1>5, <2>3 DEF Heads
    <3>4. ASSUME NEW k \in Heads(Inbound') PROVE Inbound'[k].msg.re # m.re
      <4>1. k + d \in Heads(Inbound) /\ Inbound'[k] = Inbound[k + d] BY <1>2
      <4>2. DOMAIN Inbound' \subseteq Nat \ {0}
        <5> HIDE DEF Frame
        <5> QED OBVIOUS
      <4>3. k \in Nat \ {0} BY <4>2 DEF Heads
      <4>4. k + d # 1 BY <4>3
      <4> QED BY <1>3, <3>3, <4>1, <4>4 DEF OnTheWay
    <3> QED BY <2>3, <3>2, <3>4 DEF Still
  <2> QED BY <2>1, <2>2, <2>3
<1>8. Handed' BY <1>7 DEF Handed, Heads
<1> QED BY <1>2, <1>8

(* The server answers a request it has not answered before, or sends an    *)
(* event.                                                                  *)
LEMMA RepliesMore ==
  ASSUME UInv, Framed, Still, OnTheWay, Handed, slot' = slot, NEW m \in Messages,
         InFrames(Inbound, TRUE), Inbound' = Inbound \o Frames(m), Answer(m)',
         m.kind # "event" => m.re \notin DOMAIN log
  PROVE  OnTheWay' /\ Handed'
<1> DEFINE n == Len(Inbound)
<1>1. /\ DOMAIN Inbound' = 1 .. n + (IF HasBody(m) THEN 2 ELSE 1)
      /\ \A k \in 1 .. n : Inbound'[k] = Inbound[k]
      /\ Inbound'[n + 1] = [part |-> "head", msg |-> m]
      /\ HasBody(m) => Inbound'[n + 2] = [part |-> "tail", msg |-> m]
  BY MoreFramed
<1>2. n \in Nat /\ DOMAIN Inbound = 1 .. n BY TypedIn
<1>3. ASSUME NEW k \in DOMAIN Inbound'
      PROVE  \/ k \in DOMAIN Inbound /\ Inbound'[k] = Inbound[k]
             \/ k = n + 1 /\ Inbound'[k].msg = m
             \/ k = n + 2 /\ Inbound'[k].msg = m /\ Inbound'[k].part = "tail"
  <2>1. CASE HasBody(m)
    <3>1. k \in 1 .. n + 2 BY <1>1, <2>1
    <3>2. k \in 1 .. n \/ k = n + 1 \/ k = n + 2 BY <1>2, <3>1
    <3> QED BY <1>1, <1>2, <2>1, <3>2
  <2>2. CASE ~HasBody(m)
    <3>1. k \in 1 .. n + 1 BY <1>1, <2>2
    <3>2. k \in 1 .. n \/ k = n + 1 BY <1>2, <3>1
    <3> QED BY <1>1, <1>2, <3>2
  <2> QED BY <2>1, <2>2
<1>4. ASSUME NEW k \in DOMAIN Inbound' PROVE (Answer(Inbound[k].msg))'
  <2>1. PICK x : x = Inbound'[k].msg OBVIOUS
  <2>2. x = m \/ Answer(x) BY <1>3, <2>1 DEF OnTheWay
  <2>3. Answer(x)' BY <2>2, StillAnswers
  <2> QED BY <2>1, <2>3 DEF Answer
<1>5. ASSUME NEW k \in Heads(Inbound')
      PROVE  \/ k \in Heads(Inbound) /\ Inbound'[k] = Inbound[k]
             \/ k = n + 1 /\ Inbound'[k].msg = m /\ m.kind # "event"
  BY <1>3 DEF Heads
<1>6. \A k \in Heads(Inbound) : m.kind # "event" => Inbound[k].msg.re # m.re
  BY DEF OnTheWay, Heads, Answer
<1>7. ASSUME NEW j \in Heads(Inbound'), NEW k \in Heads(Inbound'), j # k
      PROVE  Inbound'[j].msg.re # Inbound'[k].msg.re
  BY <1>5, <1>6, <1>7 DEF OnTheWay
<1>8. OnTheWay' BY <1>4, <1>7 DEF OnTheWay, Heads
<1>9. ASSUME NEW h \in Users, slot'[h] # Nil
      PROVE  /\ (Answer(slot[h]))' /\ issued'[slot'[h].re].by = h
             /\ HasReply(issued'[slot'[h].re].q.name)
             /\ \A k \in Heads(Inbound') : Inbound'[k].msg.re # slot'[h].re
  <2>1. /\ (Answer(slot[h]))' /\ issued'[slot'[h].re].by = h
        /\ HasReply(issued'[slot'[h].re].q.name)
        /\ \A k \in Heads(Inbound) : Inbound[k].msg.re # slot'[h].re
    BY <1>9, HandedStays
  <2>2. m.kind # "event" => m.re # slot[h].re
    <3>1. Answer(slot[h]) /\ slot[h].kind # "event"
      BY <1>9 DEF Handed, UInv, SessionType
    <3> QED BY <3>1 DEF Answer
  <2>3. \A k \in Heads(Inbound') : Inbound'[k].msg.re # slot'[h].re BY <1>5, <2>1, <2>2
  <2> QED BY <2>1, <2>3
<1>10. Handed' BY <1>9 DEF Handed, Heads
<1> QED BY <1>8, <1>10

-----------------------------------------------------------------------------
(* Each step preserves the invariant.                                      *)

(* StreamAligned needs no more than the words and the frames in order.     *)
LEMMA AlignedIs ==
  UInv /\ Stream /\ Framed => StreamAligned
  BY ReaderAligned DEF Stream, StreamAligned

(* A connection that is up has not panicked.                               *)
LEMMA NoPanicYet ==
  DInv /\ stage = "up" => panic = "no" /\ Setup \in Setups
  BY DEF DInv, Dialling

(* What Dial may panic of.                                                 *)
LEMMA DialPanics ==
  ASSUME DInv, Dial
  PROVE  PanicMeans'
<1>1. stage # "panicked"
  BY DEF Dial, parseDisplay, Connect, WriteSetup, ReadHeader, ReadBody, Return
<1>2. panic = "no" BY <1>1 DEF DInv, Dialling
<1>3. CASE UNCHANGED panic
  <2>1. panic' = "no" BY <1>2, <1>3
  <2> QED BY <2>1 DEF PanicMeans
<1>4. CASE ReadBody /\ panic' # panic
  <2>1. stage = "body" BY <1>4 DEF ReadBody
  <2>2. hello \in Setups /\ ScreenIx \in Int BY <2>1 DEF DInv, Dialling, DialType
  <2>3. parseSetup(hello) = bodyLen(hello) BY <2>2, ParsesAll
  <2>4. hello.screens \in Seq(Seq(Nat)) BY <2>2, DialAssumption
  <2>5. LET ix == Chosen(Len(hello.screens)) IN
        /\ Setup' = hello /\ ScreenIx' = ix
        /\ panic' = IF parseSetup(hello) # bodyLen(hello) THEN "parse"
                    ELSE IF ix + 1 \notin DOMAIN hello.screens THEN "screen" ELSE "no"
    BY <1>4 DEF ReadBody
  <2>6. panic' = "screen" BY <1>2, <1>4, <2>3, <2>5
  <2>7. Chosen(Len(hello.screens)) + 1 \notin DOMAIN hello.screens
        /\ Setup' = hello /\ ScreenIx' = Chosen(Len(hello.screens))
    BY <1>2, <1>4, <2>3, <2>5
  <2>8. Setup'.screens = <<>> \/ ScreenIx' < 0
    <3>1. DOMAIN hello.screens = 1 .. Len(hello.screens) /\ Len(hello.screens) \in Nat
      BY <2>4
    <3>2. ASSUME hello.screens # <<>>, ~(Chosen(Len(hello.screens)) < 0) PROVE FALSE
      <4>1. Len(hello.screens) # 0 BY <2>4, <3>2, EmptySeq
      <4>2. PICK n \in Nat \ {0} : n = Len(hello.screens) BY <3>1, <4>1
      <4>3. Chosen(n) \in 0 .. n - 1 BY <2>2, <3>2, <4>2 DEF Chosen
      <4>4. Chosen(n) + 1 \in 1 .. n BY <4>2, <4>3
      <4> QED BY <2>7, <3>1, <4>2, <4>4
    <3> QED BY <2>7, <3>2
  <2> QED BY <2>6, <2>8 DEF PanicMeans
<1> QED
  BY <1>3, <1>4 DEF Dial, parseDisplay, Connect, WriteSetup, ReadHeader, ReadBody, Return

(* The steps of Dial.                                                      *)
LEMMA VStartup ==
  ASSUME VInv, Startup
  PROVE  VInv'
<1> USE DEF VInv
<1>1. UInv' /\ DInv' BY UStartup, DialKeeps DEF Startup
<1>2. stage \notin {"up", "panicked"}
  BY DEF Startup, Dial, parseDisplay, Connect, WriteSetup, ReadHeader, ReadBody, Return
<1>3. UNCHANGED <<mu, pc, todo, sent, issued, out, log, in, rst, rmsg, slot, km, peerUp>>
  BY DEF Startup, userVars, readVars, serverVars
<1>4. /\ issued = <<>> /\ log = <<>> /\ in = <<>> /\ rst = "head" /\ km = Nil
      /\ \A g \in Users : slot[g] = Nil
  BY <1>2 DEF UInv, Quiet
<1>5. Stream' /\ Framed' /\ Inbound' = Inbound BY <1>3, StreamSame, FramedSame
<1>6. StreamAligned' BY <1>1, <1>5, AlignedIs, PTL
<1>7. PanicMeans' BY DialPanics DEF Startup
<1>8. Inbound' = <<>> BY <1>4, <1>5 DEF Inbound
<1>9. Replies' /\ Mapped'
  <2>1. OnTheWay' BY <1>8 DEF OnTheWay, Heads
  <2>2. Handed' BY <1>3, <1>4 DEF Handed
  <2>3. Owed' BY <1>3, <1>4 DEF Owed
  <2>4. Mapped' BY <1>3, <1>4 DEF Mapped
  <2> QED BY <2>1, <2>2, <2>3, <2>4 DEF Replies
<1>10. NoneRefused'
  <2>1. \A k \in DOMAIN log' : FALSE BY <1>3, <1>4
  <2> QED BY <2>1 DEF NoneRefused
<1> QED BY <1>1, <1>5, <1>6, <1>7, <1>9, <1>10

(* A call changes the goroutine that makes it and nothing else.            *)
LEMMA CallIs ==
  ASSUME UInv, NEW g \in Users, Call(g)
  PROVE  /\ pc[g] = "idle" /\ UNCHANGED <<mu, sent, issued, out, log, in, rst, rmsg, slot>>
         /\ UNCHANGED <<km, Setup, peerUp>>
         /\ \A h \in Users : h # g => pc'[h] = pc[h] /\ todo'[h] = todo[h]
<1>1. UNCHANGED <<Setup, out, log, in, rst, rmsg, slot, km, peerUp>>
  BY DEF Call, readVars, serverVars
<1>2. (\E s : Enter(g, s)) \/ (pc[g] = "idle" /\ UNCHANGED userVars)
  <2>1. CASE Issue(g) BY <2>1 DEF Issue
  <2>2. CASE PutImages(g) BY <2>2 DEF PutImages
  <2>3. CASE Query(g) BY <2>3 DEF Query
  <2> QED BY <2>1, <2>2, <2>3 DEF Call
<1>3. CASE \E s : Enter(g, s)
  <2>1. PICK s : Enter(g, s) BY <1>3
  <2>2. pc[g] = "idle" /\ Advance(g, s) /\ UNCHANGED <<mu, sent, issued>> BY <2>1 DEF Enter
  <2>3. \A h \in Users : h # g => todo'[h] = todo[h] /\ pc'[h] = pc[h] BY <2>2, AdvanceIs
  <2> QED BY <1>1, <2>2, <2>3
<1>4. CASE pc[g] = "idle" /\ UNCHANGED userVars BY <1>1, <1>4 DEF userVars
<1> QED BY <1>2, <1>3, <1>4

(* Whoever is owed an answer is still, whatever another does.              *)
LEMMA StillOwed ==
  ASSUME UInv, Owed, peerUp, NEW g \in Users, pc[g] # "waiting",
         \A h \in Users : h # g => pc'[h] = pc[h] /\ todo'[h] = todo[h],
         issued' = issued \/ \E q : issued' = Append(issued, [q |-> q, by |-> g]),
         NEW i \in DOMAIN issued, i > Len(log), Written(i), HasReply(issued[i].q.name)
  PROVE  Awaited(i)'
<1>1. Awaited(i) BY DEF Owed
<1>2. issued[i].by # g BY <1>1 DEF Awaited
<1> QED BY <1>1, <1>2, Waits

(* A goroutine asks.                                                       *)
LEMMA VCall ==
  ASSUME VInv, stage = "up", NEW g \in Users, Call(g)
  PROVE  VInv'
<1> USE DEF VInv
<1>1. /\ UInv' /\ DInv'
      /\ \/ UNCHANGED panic
         \/ panic' = "divide" /\ \E im \in Images[g] : im.w * im.depth < 8
  BY UCall
<1>2. /\ pc[g] = "idle" /\ UNCHANGED <<mu, sent, issued, out, log, in, rst, rmsg, slot>>
      /\ UNCHANGED <<km, Setup, peerUp>>
      /\ \A h \in Users : h # g => pc'[h] = pc[h] /\ todo'[h] = todo[h]
  BY CallIs
<1>3. Stream' /\ Framed' /\ Inbound' = Inbound /\ NoWrap' = NoWrap
  BY <1>2, StreamSame, FramedSame
<1>4. StreamAligned' BY <1>1, <1>3, AlignedIs, PTL
<1>5. PanicMeans'
  <2>1. panic = "no" BY NoPanicYet
  <2>2. CASE UNCHANGED panic
    <3>1. panic' = "no" BY <2>1, <2>2
    <3> QED BY <3>1 DEF PanicMeans
  <2>3. CASE panic' = "divide" /\ \E im \in Images[g] : im.w * im.depth < 8
    <3>1. \E h \in Users : \E im \in Images[h] : im.w * im.depth < 8 BY <2>3
    <3> QED BY <2>3, <3>1 DEF PanicMeans
  <2> QED BY <1>1, <2>2, <2>3
<1>6. NoneRefused' BY <1>2, <1>3, RefusedSame
<1>7. ASSUME NoWrap PROVE Replies' /\ Mapped'
  <2>1. Replies /\ Mapped BY <1>7
  <2>2. NothingFor(g) /\ slot[g] = Nil BY <1>2, <2>1, NothingComes
  <2>3. OnTheWay' /\ Handed' BY <1>2, <1>3, <2>1, <2>2, RepliesBut DEF Replies
  <2>4. Owed'
    <3> SUFFICES ASSUME peerUp, NEW i \in DOMAIN issued, i > Len(log), Written(i),
                        HasReply(issued[i].q.name)
                 PROVE  Awaited(i)'
      BY <1>2 DEF Owed, Written
    <3> QED BY <1>2, <2>1, StillOwed DEF Replies
  <2>5. Mapped' BY <1>2, <2>1 DEF Mapped
  <2> QED BY <2>3, <2>4, <2>5 DEF Replies
<1> QED BY <1>1, <1>3, <1>4, <1>5, <1>6, <1>7

(* A request is numbered.                                                  *)
LEMMA VBegin ==
  ASSUME VInv, stage = "up", NEW g \in Users, Begin(g)
  PROVE  VInv'
<1> USE DEF VInv
<1>1. /\ UInv' /\ DInv' /\ UNCHANGED <<stage, panic>>
      /\ mu = Nobody /\ mu' = g /\ pc[g] = "ready"
      /\ pc' = [pc EXCEPT ![g] = "writing"]
      /\ issued' = Append(issued, [q |-> Current(g), by |-> g]) /\ UNCHANGED todo
  BY UBegin
<1>2. UNCHANGED <<out, log, in, rst, rmsg, slot, km, Setup, peerUp>>
  BY DEF Begin, readVars, serverVars
<1>3. \A h \in Users : h # g => pc'[h] = pc[h] /\ todo'[h] = todo[h]
  <2>1. pc \in [Users -> {"idle", "ready", "writing", "waiting"}] BY DEF UInv, SessionType
  <2> QED BY <1>1, <2>1
<1>4. /\ Len(issued') = Len(issued) + 1 /\ DOMAIN issued' = 1 .. Len(issued) + 1
      /\ \A i \in DOMAIN issued : issued'[i] = issued[i]
      /\ NoWrap' => NoWrap
  BY <1>1, IssuedMore
<1>5. Stream' /\ Framed' /\ Inbound' = Inbound BY <1>2, StreamBegin, FramedSame
<1>6. StreamAligned' BY <1>1, <1>5, AlignedIs, PTL
<1>7. PanicMeans' BY <1>1, NoPanicYet DEF PanicMeans
<1>8. NoneRefused' BY <1>2, <1>4, RefusedSame
<1>9. ASSUME NoWrap PROVE Replies' /\ Mapped'
  <2>1. Replies /\ Mapped BY <1>9
  <2>2. NothingFor(g) /\ slot[g] = Nil BY <1>1, <2>1, NothingComes
  <2>3. OnTheWay' /\ Handed' BY <1>1, <1>2, <1>3, <1>5, <2>1, <2>2, RepliesBut DEF Replies
  <2>4. Owed'
    <3>1. DOMAIN issued = 1 .. Len(issued) /\ Len(issued) \in Nat BY IssuedIs
    <3>2. mu' # Nobody BY <1>1, SessionAssumption
    <3> SUFFICES ASSUME peerUp, NEW i \in DOMAIN issued', i > Len(log), i # Len(issued'),
                        HasReply(issued'[i].q.name)
                 PROVE  Awaited(i)'
      BY <1>2, <3>2 DEF Owed, Written
    <3>3. i \in DOMAIN issued BY <1>4, <3>1
    <3>4. Written(i) /\ issued'[i] = issued[i] BY <1>1, <1>4, <3>3 DEF Written
    <3> QED BY <1>1, <1>3, <2>1, <3>3, <3>4, StillOwed DEF Replies
  <2>5. Mapped' BY <1>2, <2>1 DEF Mapped
  <2> QED BY <2>3, <2>4, <2>5 DEF Replies
<1> QED BY <1>1, <1>4, <1>5, <1>6, <1>7, <1>8, <1>9

(* Words are written.                                                      *)
LEMMA VWrite ==
  ASSUME VInv, stage = "up", NEW g \in Users, WritePart(g)
  PROVE  VInv'
<1> USE DEF VInv
<1>1. UInv' /\ DInv' BY UWrite
<1>2. /\ pc[g] = "writing"
      /\ UNCHANGED <<issued, log, in, rst, rmsg, slot, km, Setup, peerUp, panic>>
  BY DEF WritePart, dialVars, readVars, serverVars
<1>3. /\ mu = g /\ Len(issued) \in DOMAIN issued
      /\ issued[Len(issued)].q = Current(g) /\ issued[Len(issued)].by = g
  BY <1>2, MineIs
<1>4. /\ \A h \in Users : h # g => pc'[h] = pc[h] /\ todo'[h] = todo[h]
      /\ \/ mu' = g
         \/ ~HasReply(Current(g).name)
         \/ pc'[g] = "waiting" /\ Current(g)' = Current(g)
  <2>1. pc \in [Users -> {"idle", "ready", "writing", "waiting"}] BY DEF UInv, SessionType
  <2>2. \/ UNCHANGED <<mu, pc, todo>>
        \/ HasReply(Current(g).name) /\ pc' = [pc EXCEPT ![g] = "waiting"] /\ UNCHANGED todo
        \/ ~HasReply(Current(g).name) /\ Advance(g, Tail(todo[g]))
    BY DEF WritePart
  <2>3. CASE UNCHANGED <<mu, pc, todo>> BY <1>3, <2>3
  <2>4. CASE HasReply(Current(g).name) /\ pc' = [pc EXCEPT ![g] = "waiting"] /\ UNCHANGED todo
    BY <2>1, <2>4 DEF Current
  <2>5. CASE ~HasReply(Current(g).name) /\ Advance(g, Tail(todo[g])) BY <2>5, AdvanceIs
  <2> QED BY <2>2, <2>3, <2>4, <2>5
<1>5. Stream' /\ Framed' /\ Inbound' = Inbound /\ NoWrap' = NoWrap
  BY <1>2, StreamWrite, FramedSame
<1>6. StreamAligned' BY <1>1, <1>5, AlignedIs, PTL
<1>7. PanicMeans' BY <1>2, NoPanicYet DEF PanicMeans
<1>8. NoneRefused' BY <1>2, <1>5, RefusedSame
<1>9. ASSUME NoWrap PROVE Replies' /\ Mapped'
  <2>1. Replies /\ Mapped BY <1>9
  <2>2. NothingFor(g) /\ slot[g] = Nil BY <1>2, <2>1, NothingComes
  <2>3. OnTheWay' /\ Handed' BY <1>2, <1>4, <1>5, <2>1, <2>2, RepliesBut DEF Replies
  <2>4. Owed'
    <3>1. DOMAIN issued = 1 .. Len(issued) /\ Len(issued) \in Nat BY IssuedIs
    <3> SUFFICES ASSUME peerUp, NEW i \in DOMAIN issued, i > Len(log),
                        i = Len(issued) => mu' = Nobody, HasReply(issued[i].q.name)
                 PROVE  Awaited(i)'
      BY <1>2 DEF Owed, Written
    <3>2. CASE i # Len(issued)
      <4>1. Written(i) BY <3>2 DEF Written
      <4> QED BY <1>2, <1>4, <2>1, <4>1, StillOwed DEF Replies
    <3>3. CASE i = Len(issued)
      <4>1. mu' # g BY <3>3, SessionAssumption
      <4>2. HasReply(Current(g).name) BY <1>3, <3>3
      <4>3. pc'[g] = "waiting" /\ Current(g)' = Current(g) BY <1>4, <4>1, <4>2
      <4>4. ~\E j \in DOMAIN issued : j > i BY <3>1, <3>3
      <4>6. issued'[i].by = g /\ issued'[i].q = Current(g)' /\ issued' = issued
        BY <1>2, <1>3, <3>3, <4>3
      <4> QED BY <4>3, <4>4, <4>6 DEF Awaited, Current
    <3> QED BY <3>2, <3>3
  <2>5. Mapped' BY <1>2, <2>1 DEF Mapped
  <2> QED BY <2>3, <2>4, <2>5 DEF Replies
<1> QED BY <1>1, <1>5, <1>6, <1>7, <1>8, <1>9

(* A write fails.                                                          *)
LEMMA VWriteFail ==
  ASSUME VInv, stage = "up", NEW g \in Users, WriteFail(g)
  PROVE  VInv'
<1> USE DEF VInv
<1>1. UInv' /\ DInv' BY UWriteFail
<1>2. /\ pc[g] = "writing" /\ peerUp' = FALSE
      /\ UNCHANGED <<out, issued, log, in, rst, rmsg, slot, km, Setup, peerUp, panic>>
  <2>1. pc[g] = "writing" /\ ~peerUp
        /\ UNCHANGED <<out, issued, log, in, rst, rmsg, slot, km, Setup, peerUp, panic>>
    BY DEF WriteFail, dialVars, readVars, serverVars
  <2>2. peerUp \in BOOLEAN BY DEF UInv, SessionType
  <2> QED BY <2>1, <2>2
<1>3. \A h \in Users : h # g => pc'[h] = pc[h] /\ todo'[h] = todo[h]
  <2>1. \E rest : Advance(g, rest) BY DEF WriteFail
  <2> QED BY <2>1, AdvanceIs
<1>4. Stream' /\ Framed' /\ Inbound' = Inbound /\ NoWrap' = NoWrap
  BY <1>2, StreamDown, FramedSame
<1>5. StreamAligned' BY <1>1, <1>4, AlignedIs, PTL
<1>6. PanicMeans' BY <1>2, NoPanicYet DEF PanicMeans
<1>7. NoneRefused' BY <1>2, <1>4, RefusedSame
<1>8. ASSUME NoWrap PROVE Replies' /\ Mapped'
  <2>1. Replies /\ Mapped BY <1>8
  <2>2. NothingFor(g) /\ slot[g] = Nil BY <1>2, <2>1, NothingComes
  <2>3. OnTheWay' /\ Handed' BY <1>2, <1>3, <1>4, <2>1, <2>2, RepliesBut DEF Replies
  <2>4. Owed' BY <1>2 DEF Owed
  <2>5. Mapped' BY <1>2, <2>1 DEF Mapped
  <2> QED BY <2>3, <2>4, <2>5 DEF Replies
<1> QED BY <1>1, <1>4, <1>5, <1>6, <1>7, <1>8

(* The map of a keyboard has all its symbols.                              *)
LEMMA MappingIs ==
  ASSUME NEW r, NEW l \in Layouts, r.keys = l, r.n = Len(l) * Len(l[1])
  PROVE  Mapping(r) = [first |-> Setup.min, cols |-> Len(l[1]), rows |-> l, syms |-> Symbols(l)]
<1> DEFINE n == Len(l) * Len(l[1])
<1>1. l \in Seq(Seq(Nat)) /\ l # <<>> /\ \A k \in DOMAIN l : Len(l[k]) = Len(l[1])
  BY SessionAssumption
<1>2. Len(l) \in Nat \ {0} /\ Len(l[1]) \in Nat /\ n \in Nat
  <2>1. Len(l) \in Nat \ {0} /\ Len(l[1]) \in Nat BY <1>1
  <2>2. \A a, b \in Nat : a * b \in Nat OBVIOUS
  <2> QED BY <2>1, <2>2
<1>3. DOMAIN Symbols(l) = 1 .. n BY DEF Symbols
<1>4. \E S : Symbols(l) \in Seq(S)
  <2> DEFINE S == {Symbols(l)[k] : k \in 1 .. n}
  <2>1. Symbols(l) = [k \in 1 .. n |-> Symbols(l)[k]] BY DEF Symbols
  <2>2. Symbols(l) \in [1 .. n -> S] BY <2>1
  <2>3. \A m \in Nat : [1 .. m -> S] \subseteq Seq(S) OBVIOUS
  <2> HIDE DEF n, S
  <2> QED BY <1>2, <2>2, <2>3, Zenon
<1>5. SubSeq(Symbols(l), 1, n) = Symbols(l)
  <2>1. PICK S : Symbols(l) \in Seq(S) BY <1>4
  <2>2. PICK t \in Seq(S) : t = Symbols(l) BY <2>1
  <2> HIDE DEF n
  <2>3. Len(t) = n BY <1>2, <1>3, <2>2
  <2>4. SubSeq(t, 1, Len(t)) = t BY SubSeqFull
  <2> QED BY <2>2, <2>3, <2>4
<1> QED BY <1>5 DEF Mapping

(* What is handed over is the reply to the request its issuer is at.       *)
LEMMA HandedIs ==
  ASSUME UInv, Replies, NEW g \in Users, slot[g] # Nil
  PROVE  LET r == slot[g]  name == Current(g).name IN
         /\ r \in Messages /\ r.kind # "event" /\ HasReply(name)
         /\ r.re \in DOMAIN log /\ r.re \in DOMAIN issued /\ Awaited(r.re) /\ issued[r.re].by = g
         /\ r.kind = "reply" =>
              /\ r.extra = ExtraWords(name, r.n, r.unit)
              /\ name = "GetKeyboardMapping" =>
                   /\ r.keys \in Layouts /\ Len(r.keys) = Setup.max - Setup.min + 1
                   /\ r.n = Len(r.keys) * Len(r.keys[1])
<1>1. slot[g] \in Messages /\ slot[g].kind # "event" BY DEF UInv, SessionType
<1>2. /\ Answer(slot[g]) /\ issued[slot[g].re].by = g
      /\ HasReply(issued[slot[g].re].q.name)
  BY DEF Replies, Handed
<1>3. Awaited(slot[g].re) /\ slot[g].re \in DOMAIN log /\ slot[g].re \in DOMAIN issued
  BY <1>1, <1>2 DEF Answer
<1>4. issued[slot[g].re].q = Current(g) BY <1>2, <1>3 DEF Awaited
<1> QED BY <1>1, <1>2, <1>3, <1>4 DEF Answer

(* A reply is decoded.                                                     *)
LEMMA VWake ==
  ASSUME VInv, stage = "up", NEW g \in Users, Wake(g)
  PROVE  VInv'
<1> USE DEF VInv
<1>1. /\ UInv' /\ DInv' /\ pc[g] = "waiting" /\ slot[g] # Nil
      /\ panic' = panic \/ panic' = "decode"
  BY UWake
<1>2. UNCHANGED <<out, issued, log, in, rst, rmsg, mu, sent, Setup, peerUp>>
  BY DEF Wake, serverVars
<1>3. /\ \A h \in Users : h # g => pc'[h] = pc[h] /\ todo'[h] = todo[h] /\ slot'[h] = slot[h]
      /\ slot'[g] = Nil
  <2>1. slot' = [slot EXCEPT ![g] = Nil] BY DEF Wake
  <2>2. slot \in [Users -> {m \in Messages : m.kind # "event"} \cup {Nil}]
    BY DEF UInv, SessionType
  <2>3. slot'[g] = Nil /\ \A h \in Users : h # g => slot'[h] = slot[h] BY <2>1, <2>2
  <2>4. (\E rest : Advance(g, rest)) \/ UNCHANGED <<pc, todo>> BY DEF Wake
  <2>5. \A h \in Users : h # g => pc'[h] = pc[h] /\ todo'[h] = todo[h] BY <2>4, AdvanceIs
  <2> QED BY <2>3, <2>5
<1>4. Stream' /\ Framed' /\ Inbound' = Inbound /\ NoWrap' = NoWrap
  BY <1>2, StreamSame, FramedSame
<1>5. StreamAligned' BY <1>1, <1>4, AlignedIs, PTL
<1>6. NoneRefused' BY <1>2, <1>4, RefusedSame
<1>7. ASSUME NoWrap PROVE panic' = panic /\ Replies' /\ Mapped'
  <2> DEFINE r == slot[g]  name == Current(g).name
  <2>1. Replies /\ Mapped BY <1>7
  <2>2. /\ r \in Messages /\ HasReply(name)
        /\ r.re \in DOMAIN log /\ r.re \in DOMAIN issued /\ Awaited(r.re) /\ issued[r.re].by = g
        /\ r.kind = "reply" =>
             /\ r.extra = ExtraWords(name, r.n, r.unit)
             /\ name = "GetKeyboardMapping" =>
                  /\ r.keys \in Layouts /\ Len(r.keys) = Setup.max - Setup.min + 1
                  /\ r.n = Len(r.keys) * Len(r.keys[1])
    BY <1>1, <2>1, HandedIs
  <2>3. r.kind = "reply" => DecodesInside(name, r.n, r.unit, r.extra)
    <3>1. r.n \in Nat /\ r.unit \in Nat BY <2>2 DEF Messages
    <3>2. DecodesInside(name, r.n, r.unit, ExtraWords(name, r.n, r.unit)) BY <2>2, <3>1, Inside
    <3> QED BY <2>2, <3>2
  <2>4. panic' = panic /\ km' = (IF r.kind = "reply" /\ name = "GetKeyboardMapping"
                                 THEN Mapping(r) ELSE km)
    <3> HIDE DEF VInv
    <3> QED BY <2>3 DEF Wake
  <2>5. NothingFor(g) BY <1>1, <2>1, NothingElse
  <2>6. OnTheWay' /\ Handed' BY <1>2, <1>3, <1>4, <2>1, <2>5, RepliesBut DEF Replies
  <2>7. Owed'
    <3> SUFFICES ASSUME peerUp, NEW i \in DOMAIN issued, i > Len(log), Written(i),
                        HasReply(issued[i].q.name)
                 PROVE  Awaited(i)'
      BY <1>2 DEF Owed, Written
    <3>1. Awaited(i) BY <2>1 DEF Replies, Owed
    <3>2. issued[i].by # g
      <4>1. SUFFICES ASSUME issued[i].by = g PROVE FALSE
        OBVIOUS
      <4>2. ~(i > r.re) /\ ~(r.re > i) BY <2>2, <3>1, <4>1 DEF Awaited
      <4>3. i \in Nat /\ r.re \in Nat BY <2>2, IssuedIs
      <4>4. i = r.re BY <4>2, <4>3
      <4>5. r.re <= Len(log) /\ Len(log) \in Nat BY <2>2, LogIs
      <4> QED BY <4>3, <4>4, <4>5
    <3> QED BY <1>2, <1>3, <3>1, <3>2, Waits
  <2>8. Mapped'
    <3>1. CASE r.kind = "reply" /\ name = "GetKeyboardMapping"
      <4>1. PICK l \in Layouts : l = r.keys BY <2>2, <3>1
      <4>2. /\ Len(l) = Setup.max - Setup.min + 1
            /\ Mapping(r) = [first |-> Setup.min, cols |-> Len(l[1]), rows |-> l, syms |-> Symbols(l)]
        BY <2>2, <3>1, <4>1, MappingIs
      <4>3. Setup \in Setups BY NoPanicYet
      <4> QED BY <1>2, <2>4, <3>1, <4>2, <4>3 DEF Mapped
    <3>2. CASE ~(r.kind = "reply" /\ name = "GetKeyboardMapping")
      BY <1>2, <2>1, <2>4, <3>2 DEF Mapped
    <3> QED BY <3>1, <3>2
  <2> QED BY <2>4, <2>6, <2>7, <2>8 DEF Replies
<1>8. PanicMeans' BY <1>1, <1>4, <1>7, NoPanicYet DEF PanicMeans
<1> QED BY <1>1, <1>4, <1>5, <1>6, <1>7, <1>8

(* A step of the reader.                                                   *)
LEMMA VReader ==
  ASSUME VInv, stage = "up", ReadHead \/ ReadBodyOf \/ ReadFail
  PROVE  VInv'
<1> USE DEF VInv
<1>1. UInv' /\ DInv' BY UReader
<1>2. /\ UNCHANGED <<pc, todo, sent, mu, issued, out, log, km, Setup, peerUp, panic>>
      /\ Still
  BY DEF ReadHead, ReadBodyOf, ReadFail, dialVars, userVars, serverVars, Still
<1>3. /\ Framed'
      /\ Delivers \/ (slot' = slot /\ (Inbound' = Inbound \/ Inbound' = <<>>))
  BY ReadHeadIs, ReadBodyIs, ReadFailIs
<1>4. Stream' /\ NoWrap' = NoWrap BY <1>2, StreamSame
<1>5. StreamAligned' BY <1>1, <1>3, <1>4, AlignedIs, PTL
<1>6. PanicMeans' BY <1>2, NoPanicYet DEF PanicMeans
<1>7. NoneRefused' BY <1>2, <1>4, RefusedSame
<1>8. ASSUME NoWrap PROVE Replies' /\ Mapped'
  <2>1. OnTheWay /\ Handed /\ Owed /\ Mapped BY <1>8 DEF Replies
  <2>2. Inbound' \in Seq(Frame) BY <1>3 DEF Framed, InFrames
  <2>3. OnTheWay' /\ Handed'
    <3>1. CASE Delivers BY <1>2, <2>1, <2>2, <3>1, RepliesRead
    <3>2. CASE slot' = slot /\ (Inbound' = Inbound \/ Inbound' = <<>>)
      <4>1. Window(Inbound', Inbound, 0)
        <5>1. CASE Inbound' = <<>> BY <5>1 DEF Window
        <5>2. CASE Inbound' = Inbound
          <6>1. \A k \in DOMAIN Inbound : k + 0 = k BY TypedIn
          <6> QED BY <5>2, <6>1 DEF Window
        <5> QED BY <3>2, <5>1, <5>2
      <4> QED BY <1>2, <2>1, <2>2, <3>2, <4>1, RepliesPart
    <3> QED BY <1>3, <3>1, <3>2
  <2>4. Owed'
    <3>1. \A i : Awaited(i)' = Awaited(i) BY <1>2 DEF Awaited, Current
    <3>2. \A i : Written(i)' = Written(i) BY <1>2 DEF Written
    <3> QED BY <1>2, <2>1, <3>1, <3>2 DEF Owed
  <2>5. Mapped' BY <1>2, <2>1 DEF Mapped
  <2> QED BY <2>3, <2>4, <2>5 DEF Replies
<1> QED BY <1>1, <1>3, <1>4, <1>5, <1>6, <1>7, <1>8

(* The steps of the server.                                                *)
LEMMA VServe ==
  ASSUME VInv, stage = "up", Serve
  PROVE  VInv'
<1> USE DEF VInv
<1>1. UInv' /\ DInv' BY UServer
<1>2. UNCHANGED <<pc, todo, mu, issued, rst, rmsg, slot, km, Setup, panic>>
  BY DEF Serve, dialVars, userVars, readVars
<1>3. PICK i \in DOMAIN issued, whole \in BOOLEAN, good \in BOOLEAN :
        /\ Stream' /\ NoWrap' = NoWrap
        /\ log' = Append(log, [re |-> i, whole |-> whole, good |-> good])
        /\ \/ ~good /\ in' = in \o Frames(Error(i))
           \/ good /\ in' = in
           \/ good /\ \E m \in Answers(i) : in' = in \o Frames(m)
        /\ whole /\ Understood(issued[i].q) /\ Fits(issued[i].q) => good
        /\ peerUp /\ peerUp' = peerUp
        /\ NoWrap => i = Len(log) + 1 /\ whole /\ (i = Len(issued) => mu = Nobody)
  BY ServeIs
<1>4. i \in Nat /\ Setup \in Setups BY IssuedIs, NoPanicYet
<1>5. \/ in' = in
      \/ \E m \in Messages :
           in' = in \o Frames(m) /\ (m = Error(i) \/ m \in Answers(i))
  BY <1>3, <1>4, AnswersAre, ErrorIs
<1>6. Framed' BY <1>2, <1>3, <1>5, Sends, FramedSame
<1>7. StreamAligned' BY <1>1, <1>3, <1>6, AlignedIs, PTL
<1>8. PanicMeans' BY <1>2, NoPanicYet DEF PanicMeans
<1>9. NoneRefused' BY <1>2, <1>3, RefusedServe
<1>10. DOMAIN log = 1 .. Len(log) /\ Len(log) \in Nat BY LogIs
<1>11. DOMAIN log' = 1 .. Len(log) + 1 /\ Len(log') = Len(log) + 1
  <2> DEFINE L == [re : DOMAIN issued, whole : BOOLEAN, good : BOOLEAN]
  <2>1. log \in Seq(L) /\ [re |-> i, whole |-> whole, good |-> good] \in L BY DEF Stream
  <2>2. PICK e \in L : log' = Append(log, e) BY <1>3, <2>1
  <2> HIDE DEF L
  <2>3. log' \in Seq(L) /\ Len(log') = Len(log) + 1 BY <2>1, <2>2, AppendProperties
  <2> QED BY <2>3
<1>12. Still BY <1>2, <1>10, <1>11 DEF Still
<1>13. ASSUME NoWrap PROVE Replies' /\ Mapped'
  <2>1. OnTheWay /\ Handed /\ Owed /\ Mapped BY <1>13 DEF Replies
  <2>2. i = Len(log) + 1 /\ Written(i) BY <1>3, <1>13 DEF Written
  <2>3. HasReply(issued[i].q.name) => Awaited(i)
    <3>1. i > Len(log) BY <1>10, <2>2
    <3> QED BY <1>3, <2>1, <2>2, <3>1 DEF Owed
  <2>4. \A j : Awaited(j)' = Awaited(j) BY <1>2 DEF Awaited, Current
  <2>5. i \in DOMAIN log' /\ i \notin DOMAIN log BY <1>10, <1>11, <2>2
  <2>6. OnTheWay' /\ Handed'
    <3>1. CASE in' = in
      <4>1. Inbound' = Inbound BY <1>2, <3>1 DEF Inbound
      <4>2. Window(Inbound', Inbound, 0) /\ Inbound' \in Seq(Frame)
        <5>1. \A k \in DOMAIN Inbound : k + 0 = k BY TypedIn
        <5> QED BY <4>1, <5>1, TypedIn DEF Window
      <4> QED BY <1>2, <1>12, <2>1, <4>2, RepliesPart
    <3>2. CASE \E m \in Messages :
                 in' = in \o Frames(m) /\ (m = Error(i) \/ m \in Answers(i))
      <4>1. PICK m \in Messages : in' = in \o Frames(m) /\ (m = Error(i) \/ m \in Answers(i))
        BY <3>2
      <4>2. Inbound' = Inbound \o Frames(m) /\ InFrames(Inbound, TRUE)
        BY <1>2, <1>3, <4>1, Sends
      <4>3. LET name == issued[i].q.name IN
            /\ m.re = i
            /\ m.kind = "reply" =>
                 /\ HasReply(name) /\ m.extra = ExtraWords(name, m.n, m.unit)
                 /\ name = "GetKeyboardMapping" =>
                      /\ m.keys \in Layouts /\ Len(m.keys) = Setup.max - Setup.min + 1
                      /\ m.n = Len(m.keys) * Len(m.keys[1])
        <5>1. CASE m = Error(i) BY <1>4, <5>1, ErrorIs
        <5>2. CASE m \in Answers(i) BY <1>4, <5>2, AnswersAre
        <5> QED BY <4>1, <5>1, <5>2
      <4>4. Answer(m)' BY <1>2, <2>3, <2>4, <2>5, <4>3 DEF Answer
      <4> QED BY <1>2, <1>12, <2>1, <2>5, <4>2, <4>3, <4>4, RepliesMore
    <3> QED BY <1>5, <3>1, <3>2
  <2>7. Owed'
    <3>1. \A j : Written(j)' = Written(j) BY <1>2 DEF Written
    <3>2. \A j \in DOMAIN issued : j > Len(log') => j > Len(log) BY <1>10, <1>11, IssuedIs
    <3> QED BY <1>2, <1>3, <2>1, <2>4, <3>1, <3>2 DEF Owed
  <2>8. Mapped' BY <1>2, <2>1 DEF Mapped
  <2> QED BY <2>6, <2>7, <2>8 DEF Replies
<1> QED BY <1>1, <1>3, <1>6, <1>7, <1>8, <1>9, <1>13

(* An event is sent.                                                       *)
LEMMA VEvent ==
  ASSUME VInv, SendEvent
  PROVE  VInv'
<1> USE DEF VInv
<1>1. stage = "up" /\ peerUp /\ in' = in \o Frames(Event) BY DEF SendEvent
<1>2. UNCHANGED <<pc, todo, mu, sent, issued, out, log, rst, rmsg, slot, km, Setup, peerUp, panic>>
  BY DEF SendEvent, dialVars, userVars, readVars
<1>3. UInv' /\ DInv' BY <1>1, UServer
<1>4. Event \in Messages /\ Event.kind = "event"
  <2>1. 0 \in Nat OBVIOUS
  <2> QED BY <2>1, ErrorIs
<1>5. Framed' /\ Inbound' = Inbound \o Frames(Event) /\ InFrames(Inbound, TRUE)
  BY <1>1, <1>2, <1>4, Sends
<1>6. Stream' /\ NoWrap' = NoWrap BY <1>2, StreamSame
<1>7. StreamAligned' BY <1>3, <1>5, <1>6, AlignedIs, PTL
<1>8. PanicMeans' BY <1>1, <1>2, NoPanicYet DEF PanicMeans
<1>9. NoneRefused' BY <1>2, <1>6, RefusedSame
<1>10. ASSUME NoWrap PROVE Replies' /\ Mapped'
  <2>1. OnTheWay /\ Handed /\ Owed /\ Mapped BY <1>10 DEF Replies
  <2>2. Still BY <1>2 DEF Still
  <2>3. PICK m \in Messages : m = Event BY <1>4
  <2>4. Answer(m)' /\ m.kind = "event" BY <1>4, <2>3 DEF Answer
  <2>5. Inbound' = Inbound \o Frames(m) BY <1>5, <2>3
  <2>6. OnTheWay' /\ Handed' BY <1>2, <1>5, <2>1, <2>2, <2>4, <2>5, RepliesMore
  <2>7. Owed'
    <3>1. \A j : Awaited(j)' = Awaited(j) BY <1>2 DEF Awaited, Current
    <3>2. \A j : Written(j)' = Written(j) BY <1>2 DEF Written
    <3> QED BY <1>2, <2>1, <3>1, <3>2 DEF Owed
  <2>8. Mapped' BY <1>2, <2>1 DEF Mapped
  <2> QED BY <2>6, <2>7, <2>8 DEF Replies
<1> QED BY <1>3, <1>5, <1>6, <1>7, <1>8, <1>9, <1>10

(* The server goes away.                                                   *)
LEMMA VHangUp ==
  ASSUME VInv, HangUp
  PROVE  VInv'
<1> USE DEF VInv
<1>1. stage = "up" /\ peerUp' = FALSE BY DEF HangUp
<1>2. UNCHANGED <<pc, todo, mu, sent, issued, out, log, rst, rmsg, slot, km, Setup, panic>>
  BY DEF HangUp, dialVars, userVars, readVars
<1>3. UInv' /\ DInv' BY <1>1, UServer
<1>4. Framed' /\ Window(Inbound', Inbound, 0) BY HangUpIs
<1>5. Stream' /\ NoWrap' = NoWrap BY <1>1, <1>2, StreamDown
<1>6. StreamAligned' BY <1>3, <1>4, <1>5, AlignedIs, PTL
<1>7. PanicMeans' BY <1>1, <1>2, NoPanicYet DEF PanicMeans
<1>8. NoneRefused' BY <1>2, <1>5, RefusedSame
<1>9. ASSUME NoWrap PROVE Replies' /\ Mapped'
  <2>1. OnTheWay /\ Handed /\ Mapped BY <1>9 DEF Replies
  <2>2. Still BY <1>2 DEF Still
  <2>3. Inbound' \in Seq(Frame) BY <1>4 DEF Framed, InFrames
  <2>4. OnTheWay' /\ Handed' BY <1>2, <1>4, <2>1, <2>2, <2>3, RepliesPart
  <2>5. Owed' BY <1>1 DEF Owed
  <2>6. Mapped' BY <1>2, <2>1 DEF Mapped
  <2> QED BY <2>4, <2>5, <2>6 DEF Replies
<1> QED BY <1>3, <1>4, <1>5, <1>6, <1>7, <1>8, <1>9

(* Stuttering.                                                             *)
LEMMA VStutter ==
  ASSUME VInv, UNCHANGED vars
  PROVE  VInv'
<1> USE DEF VInv
<1>1. UNCHANGED <<dialVars, mu, pc, todo, sent, issued, out, log, in, rst, rmsg, slot, km,
                  peerUp, emitted, calls>>
  BY DEF vars, userVars, readVars, serverVars
<1> HIDE DEF VInv
<1>2. DInv'
  <2>1. UNCHANGED <<stage, display, auth, sock, hello, Setup, ScreenIx, panic>>
    BY <1>1 DEF dialVars
  <2>2. DialType' BY <2>1 DEF VInv, DInv, DialType
  <2>3. Dialling' BY <2>1 DEF VInv, DInv, Dialling, Asked
  <2>4. DialOutcome' BY <2>1 DEF VInv, DInv, DialOutcome
  <2> QED BY <2>2, <2>3, <2>4 DEF DInv
<1>3. UNCHANGED <<stage, Setup, ScreenIx, panic>> BY <1>1 DEF dialVars
<1>4. UInv'
  <2>1. SessionType' BY <1>1 DEF VInv, UInv, SessionType, Current
  <2>2. Quiet' BY <1>1, <1>3 DEF VInv, UInv, Quiet
  <2>3. Sound' = Sound BY <1>3, SoundSame
  <2>4. Turns' BY <1>1, <2>3 DEF VInv, UInv, Turns, Current
  <2> QED BY <2>1, <2>2, <2>4 DEF UInv
<1> USE DEF VInv
<1>5. Stream' /\ NoWrap' = NoWrap /\ Framed' /\ Inbound' = Inbound
  BY <1>1, StreamSame, FramedSame
<1>6. StreamAligned' BY <1>4, <1>5, AlignedIs, PTL
<1>7. PanicMeans' BY <1>3, <1>5 DEF PanicMeans
<1>8. NoneRefused' BY <1>1, <1>3, <1>5, RefusedSame
<1>9. ASSUME NoWrap PROVE Replies' /\ Mapped'
  <2>1. OnTheWay /\ Handed /\ Owed /\ Mapped BY <1>9 DEF Replies
  <2>2. Still BY <1>1, <1>3 DEF Still
  <2>3. Window(Inbound', Inbound, 0) /\ Inbound' \in Seq(Frame)
    <3>1. \A k \in DOMAIN Inbound : k + 0 = k BY TypedIn
    <3> QED BY <1>5, <3>1, TypedIn DEF Window
  <2>4. OnTheWay' /\ Handed' BY <1>1, <2>1, <2>2, <2>3, RepliesPart
  <2>5. Owed' BY <1>1, <2>1 DEF Owed, Written, Awaited, Current
  <2>6. Mapped' BY <1>1, <1>3, <2>1 DEF Mapped
  <2> QED BY <2>4, <2>5, <2>6 DEF Replies
<1> QED BY <1>2, <1>4, <1>5, <1>6, <1>7, <1>8, <1>9

(* The initial states.                                                     *)
LEMMA VInit ==
  ASSUME Init
  PROVE  VInv
<1> USE DEF Init, DialInit
<1>1. DInv
  <2>1. DialType BY DEF DialType
  <2>2. Dialling BY DEF Dialling
  <2>3. DialOutcome BY DEF DialOutcome
  <2> QED BY <2>1, <2>2, <2>3 DEF DInv
<1>2. \A S : <<>> \in Seq(S) OBVIOUS
<1>3. UInv
  <2>1. SessionType
    <3>1. 0 \in 0 .. MaxCalls /\ 0 \in 0 .. MaxEvents BY SessionAssumption
    <3> QED BY <3>1 DEF SessionType
  <2>2. Quiet BY DEF Quiet
  <2>3. Turns BY <1>2, SessionAssumption DEF Turns
  <2> QED BY <2>1, <2>2, <2>3 DEF UInv
<1>4. NoWrap /\ panic = "no" /\ log = <<>> /\ in = <<>> /\ issued = <<>> /\ km = Nil BY DEF NoWrap
<1>5. Stream
  <2>1. Outbound[1] = <<1, 1>>
    <3>1. Next1 = <<1, 1>> BY DEF Next1
    <3>2. Next1 \in Nat \X Nat BY <3>1
    <3>3. <<>> \in Seq(Nat \X Nat) BY <1>2
    <3>4. Append(<<>>, Next1)[Len(<<>>) + 1] = Next1 BY <3>2, <3>3, AppendProperties
    <3>5. Outbound[Len(<<>>) + 1] = Next1 BY <3>4 DEF Outbound
    <3>6. Len(<<>>) + 1 = 1 OBVIOUS
    <3> QED BY <3>1, <3>5, <3>6
  <2>2. Len(log) + 1 = 1 BY <1>4
  <2> QED BY <1>2, <1>4, <2>1, <2>2 DEF Stream
<1>6. Inbound = <<>> BY DEF Inbound
<1>7. Framed BY <1>2, <1>6 DEF Framed, InFrames
<1>8. StreamAligned BY <1>3, <1>5, <1>7, AlignedIs
<1>9. PanicMeans BY <1>4 DEF PanicMeans
<1>10. NoneRefused BY <1>4 DEF NoneRefused
<1>11. Replies /\ Mapped
  <2>1. OnTheWay BY <1>6 DEF OnTheWay, Heads
  <2>2. Handed BY DEF Handed
  <2>3. Owed BY <1>4 DEF Owed
  <2>4. Mapped BY <1>4 DEF Mapped
  <2> QED BY <2>1, <2>2, <2>3, <2>4 DEF Replies
<1> QED BY <1>1, <1>3, <1>5, <1>7, <1>8, <1>9, <1>10, <1>11 DEF VInv

-----------------------------------------------------------------------------
(* The theorems.                                                           *)

(* The invariant holds in every run: from DISPLAY on, whatever fails,      *)
(* whoever writes when, and wherever the server goes away.                 *)
THEOREM SessionInvariant == Spec => []VInv
<1>1. VInv /\ [Next]_vars => VInv'
  <2> SUFFICES ASSUME VInv, [Next]_vars PROVE VInv'
    OBVIOUS
  <2>1. CASE Startup BY <2>1, VStartup
  <2>2. ASSUME NEW g \in Users, User(g) PROVE VInv'
    BY <2>2, VCall, VBegin, VWrite, VWriteFail, VWake DEF User
  <2>3. CASE stage = "up" /\ (ReadHead \/ ReadBodyOf \/ ReadFail) BY <2>3, VReader
  <2>4. CASE stage = "up" /\ (Serve \/ SendEvent \/ HangUp)
    BY <2>4, VServe, VEvent, VHangUp
  <2>5. CASE UNCHANGED vars BY <2>5, VStutter
  <2> QED BY <2>1, <2>2, <2>3, <2>4, <2>5 DEF Next
<1> QED BY <1>1, VInit, PTL DEF Spec

(* Dial fails and closes its socket, or returns with the screen DISPLAY    *)
(* names: at whichever of its steps an error strikes.                      *)
THEOREM DialComesOut == Spec => []DialOutcome
<1>1. VInv => DialOutcome BY DEF VInv, DInv
<1> QED BY <1>1, SessionInvariant, PTL

(* The server cuts the stream that the encoders and Send write into the    *)
(* requests that were issued, and the reader the replies into theirs, as   *)
(* long as no length field wraps.                                          *)
THEOREM StreamsStayAligned == Spec => []StreamAligned
<1>1. VInv => StreamAligned BY DEF VInv
<1> QED BY <1>1, SessionInvariant, PTL

(* The server understands whatever the encoders make of arguments that     *)
(* are whole items, and takes it unless it is longer than it takes.  Of    *)
(* the images it goes by width, rows and depth, and takes all of depth 24  *)
(* and 32 and those of other usual depths whose lines are whole words,     *)
(* down to one whose single line is too long.                              *)
THEOREM NothingRefused == Spec => []NoneRefused
<1>1. VInv => NoneRefused BY DEF VInv
<1> QED BY <1>1, SessionInvariant, PTL

(* The process panics for want of a screen or for an image without bytes   *)
(* in a line; no decoder reads past its reply unless a length has wrapped. *)
THEOREM PanicsExplained == Spec => []PanicMeans
<1>1. VInv => PanicMeans BY DEF VInv
<1> QED BY <1>1, SessionInvariant, PTL

(* Lookup finds each key in its own row of the map that was fetched, for   *)
(* every keyboard and every range of keycodes a server may have.           *)
THEOREM LookupFindsOwn == Spec => []LookupIsOwn
<1>1. VInv => LookupIsOwn
  <2> SUFFICES ASSUME Mapped, km # Nil,
                      NEW keycode \in Setup.min - 1 .. Setup.max + 1,
                      NEW shift \in BOOLEAN, NEW lock \in BOOLEAN
               PROVE  Lookup(km, keycode, shift, lock) = Own(km, keycode, shift, lock)
    BY DEF VInv, LookupIsOwn
  <2> QED BY LookupFinds DEF Mapped
<1> QED BY <1>1, SessionInvariant, PTL

=============================================================================
