--------------------------- MODULE FontSetProofs ---------------------------
(***************************************************************************)
(* Proof that a FontSet keeps its promises, for any number of goroutines,  *)
(* any fonts and any database, whose files come and go: fontFor gives a    *)
(* rune one font for good, the list has each font of the database once,    *)
(* and the primary font is settled on only when nothing better would load. *)
(***************************************************************************)
EXTENDS FontSetInv, FiniteSetTheorems, TLAPS

USE FontSetAssumption DEF Has

-----------------------------------------------------------------------------
(* Texts.                                                                  *)

NonEmpty == Seq(Runes) \ {<<>>}

(* The value of a text's fields after each kind of step.                   *)
LEMMA LoopFacts ==
  ASSUME NEW t \in Texts, NEW runes \in NonEmpty,
         NEW l \in {"measure", "dots", "clamp", "draw"}
  PROVE  /\ Loop(t, l, runes) \in Texts
         /\ Loop(t, l, runes).phase = l /\ Loop(t, l, runes).todo = runes
<1>1. PICK m \in Texts : m = Loop(t, l, runes)
  BY DEF Loop, Texts, NonEmpty
<1>2. m.phase = l /\ m.todo = runes BY <1>1 DEF Loop, Texts, NonEmpty
<1> QED BY <1>1, <1>2

LEMMA DrawFacts ==
  ASSUME NEW t \in Texts, NEW drawn \in NonEmpty
  PROVE  /\ DrawString(t, drawn) \in Texts
         /\ DrawString(t, drawn).phase = "draw" /\ DrawString(t, drawn).todo = drawn
<1>1. PICK m \in Texts : m = Loop(t, "draw", drawn) /\ m.phase = "draw" /\ m.todo = drawn
  BY LoopFacts
<1>3. DrawString(t, drawn) = [m EXCEPT !.out = drawn] BY <1>1 DEF DrawString
<1> QED BY <1>1, <1>3 DEF Texts

(* A text in progress has runes ahead of it, and one that is done has not. *)
Sane(t) == t \in Texts /\ (t.phase # "done" <=> t.todo # <<>>)

LEMMA DoneFacts ==
  ASSUME NEW t \in Texts, t.phase # "done", t.todo = <<>>
  PROVE  Sane(LoopDone(t))
<1>1. /\ t.s \in NonEmpty /\ Ellipsis \in NonEmpty
      /\ t.s \o Ellipsis \in NonEmpty
  BY TextAssumption DEF Texts, NonEmpty
<1>2. CASE t.phase = "measure"
  <2>1. LoopDone(t) = IF t.pen > t.inner THEN Loop(t, "dots", Ellipsis) ELSE DrawString(t, t.s)
    BY <1>2, Zenon DEF LoopDone
  <2>2. Sane(Loop(t, "dots", Ellipsis))
    <3>1. PICK e \in NonEmpty : e = Ellipsis BY <1>1
    <3>2. Sane(Loop(t, "dots", e)) BY ZenonT(30), LoopFacts DEF Sane, NonEmpty
    <3> QED BY <3>1, <3>2
  <2> QED BY <1>1, <2>1, <2>2, DrawFacts DEF Sane, NonEmpty
<1>3. CASE t.phase = "dots"
  <2>1. LoopDone(t) = [Loop(t, "clamp", t.s) EXCEPT !.room = Room(t)]
    BY <1>3, Zenon DEF LoopDone
  <2>2. PICK m \in Texts : m = Loop(t, "clamp", t.s) /\ m.phase = "clamp" /\ m.todo = t.s
    <3>1. PICK e \in NonEmpty : e = t.s BY <1>1
    <3>2. PICK m \in Texts : m = Loop(t, "clamp", e) /\ m.phase = "clamp" /\ m.todo = e
      BY LoopFacts
    <3> QED BY <3>1, <3>2
  <2>3. PICK n \in Nat : n = Room(t) BY DEF Room, Texts
  <2>4. LoopDone(t) = [m EXCEPT !.room = n] BY <2>1, <2>2, <2>3
  <2> QED BY <1>1, <2>2, <2>4 DEF Texts, Sane, NonEmpty
<1>4. CASE t.phase = "clamp"
  <2>1. LoopDone(t) = DrawString(t, t.s \o Ellipsis) BY <1>4, Zenon DEF LoopDone
  <2>2. PICK e \in NonEmpty : e = t.s \o Ellipsis BY <1>1
  <2>3. Sane(DrawString(t, e)) BY DrawFacts DEF Sane, NonEmpty
  <2> QED BY <2>1, <2>2, <2>3
<1>5. CASE t.phase = "draw"
  <2>1. LoopDone(t) = [t EXCEPT !.phase = "done"] BY <1>5, Zenon DEF LoopDone
  <2> QED BY <2>1 DEF Texts, Sane, NonEmpty
<1> QED BY <1>2, <1>3, <1>4, <1>5 DEF Texts

LEMMA TextStep ==
  ASSUME NEW t \in Texts, t.phase # "done", t.todo # <<>>, NEW f \in AllFonts
  PROVE  Sane(Step(t, f))
<1>1. Advance[f] \in Nat OBVIOUS
<1>2. PICK next \in Texts : next = [t EXCEPT !.todo = Tail(t.todo), !.pen = t.pen + Advance[f]]
  <2>1. PICK q \in Seq(Runes) : q = Tail(t.todo)
    <3>1. PICK a \in Seq(Runes) : a = t.todo /\ a # <<>> BY DEF Texts
    <3>2. Tail(a) \in Seq(Runes) BY <3>1
    <3> QED BY <3>1, <3>2
  <2>2. PICK n \in Nat : n = t.pen + Advance[f] BY <1>1 DEF Texts
  <2>3. [t EXCEPT !.todo = q, !.pen = n] \in Texts BY DEF Texts
  <2> QED BY <2>1, <2>2, <2>3
<1>3. next.phase = t.phase BY <1>2 DEF Texts
<1>4. CASE t.phase = "clamp" /\ Clamped(t, f)
  <2>1. PICK k : k = Len(t.s) - Len(t.todo) OBVIOUS
  <2>2. Step(t, f) = DrawString(t, SubSeq(t.s, 1, k) \o Ellipsis)
    BY <1>4, <2>1, Zenon DEF Step
  <2>3. SubSeq(t.s, 1, k) \in Seq(Runes)
    <3>1. t.s \in Seq(Runes) /\ k \in Int /\ k <= Len(t.s) BY <2>1 DEF Texts, NonEmpty
    <3> QED BY <3>1
  <2>4. SubSeq(t.s, 1, k) \o Ellipsis \in NonEmpty BY <2>3, TextAssumption DEF NonEmpty
  <2>5. PICK e \in NonEmpty : e = SubSeq(t.s, 1, k) \o Ellipsis BY <2>4
  <2>6. Sane(DrawString(t, e)) BY DrawFacts DEF Sane, NonEmpty
  <2> QED BY <2>2, <2>5, <2>6
<1>5. CASE ~(t.phase = "clamp" /\ Clamped(t, f))
  <2>1. Step(t, f) = IF next.todo = <<>> THEN LoopDone(next) ELSE next
    BY <1>2, <1>5, Zenon DEF Step
  <2> QED BY <1>3, <2>1, DoneFacts DEF Sane
<1> QED BY <1>4, <1>5

(* A new text.                                                             *)
LEMMA NewTextFacts ==
  ASSUME NEW s \in Strings, NEW field \in Fields, ~Empty(field.w, field.lpad)
  PROVE  Sane(Text(s, field.w, field.lpad))
<1>1. PICK n \in Nat : n = field.w - field.lpad BY DEF Empty
<1>2. Text(s, field.w, field.lpad) =
        [s |-> s, inner |-> n, phase |-> "measure", todo |-> s, pen |-> 0, room |-> 0, out |-> <<>>]
  BY <1>1 DEF Text
<1>3. <<>> \in Seq(Runes) OBVIOUS
<1> QED BY <1>2, <1>3 DEF Texts, Sane, NonEmpty

-----------------------------------------------------------------------------
(* What the steps do.                                                      *)

(* All fonts.                                                              *)
LEMMA Fonts ==
  /\ Primary \in AllFonts /\ Manual \subseteq AllFonts
  /\ \A i \in DOMAIN DB : DB[i] \in AllFonts
  /\ Len(DB) \in Nat /\ DOMAIN DB = 1 .. Len(DB)
BY DEF AllFonts

(* The kinds that the proofs below use.                                    *)
LEMMA TypeFacts ==
  ASSUME TypeOK, TextInv
  PROVE  /\ pc \in [Users -> {"idle", "search", "cache", "match", "face", "put", "putnil",
                              "append", "store"}]
         /\ rune \in [Users -> Runes] /\ pos \in [Users -> 1 .. Len(DB) + 1]
         /\ font \in [Users -> AllFonts \cup {NoFont}] /\ old \in [Users -> Seq(AllFonts \ NoFace)]
         /\ chosen \in [Runes -> SUBSET AllFonts] /\ text \in [Users -> Texts \cup {NoText}]
         /\ Fallback \in Seq(AllFonts \ NoFace) /\ parsed \subseteq AllFonts
         /\ Drawers \subseteq Users
BY DEF TypeOK, TextInv

(* A goroutine's places are its own.                                       *)
Same(v) ==
  /\ pc'[v] = pc[v] /\ rune'[v] = rune[v] /\ pos'[v] = pos[v] /\ font'[v] = font[v]
  /\ old'[v] = old[v] /\ text'[v] = text[v]

(* u returns from fontFor with f.                                          *)
Returned(u, f) ==
  /\ pc'[u] = "idle" /\ rune'[u] = rune[u] /\ pos'[u] = 1 /\ font'[u] = NoFont
  /\ old'[u] = <<>> /\ text'[u] = IF u \in Drawers THEN Step(text[u], f) ELSE text[u]
  /\ chosen' = [chosen EXCEPT ![rune[u]] = @ \cup {f}]
  /\ UNCHANGED <<rune, calls, texts, failed, late>>
LEMMA ReturnFacts ==
  ASSUME TypeOK, TextInv, NEW u \in Users, NEW f, Return(u, f)
  PROVE  Returned(u, f) /\ \A v \in Users : v # u => Same(v)
BY TypeFacts DEF Return, Goto, Returned, Same

(* A step of u changes nothing that is another's.                          *)
LEMMA Others ==
  ASSUME TypeOK, TextInv, NEW u \in Users, fontFor(u), NEW v \in Users, v # u
  PROVE  Same(v)
<1> USE TypeFacts
<1>1. CASE \E r \in Runes : Call(u, r)
  BY <1>1 DEF Call, Ask, Goto, Same
<1>2. CASE NewText(u)
  <2>1. PICK t : text' = [text EXCEPT ![u] = t] BY <1>2 DEF NewText
  <2> QED BY <1>2, <2>1 DEF NewText, Same
<1>3. CASE NextRune(u) BY <1>3 DEF NextRune, Ask, Goto, Same
<1>4. ASSUME NEW f, Return(u, f) PROVE Same(v) BY <1>4, ReturnFacts
<1>5. CASE Search(u)
  BY <1>4, <1>5 DEF Search, Goto, Same
<1>6. CASE CacheCheck(u)
  BY <1>4, <1>6 DEF CacheCheck, Goto, Same
<1>7. CASE MatchForRune(u) BY <1>7 DEF MatchForRune, Goto, Same
<1>8. CASE PutNil(u) \/ AppendStore(u) BY <1>4, <1>8 DEF PutNil, AppendStore
<1>9. CASE NoMatch(u) \/ LoadFont(u) \/ PutFound(u) \/ AppendRead(u) \/ Torn(u)
  BY <1>9 DEF NoMatch, LoadFont, PutFound, AppendRead, Torn, Goto, Same, userVars
<1> QED BY <1>1, <1>2, <1>3, <1>5, <1>6, <1>7, <1>8, <1>9 DEF fontFor

-----------------------------------------------------------------------------
(* Loading.                                                                *)

(* What has been parsed stays so, and what has failed has failed, though   *)
(* it may load the next time.                                              *)
LEMMA Loading ==
  ASSUME TypeOK, TextInv, [Next]_vars
  PROVE  parsed \subseteq parsed' /\ \A r \in Runes : failed[r] \subseteq failed'[r]
<1>1. CASE UNCHANGED <<parsed, failed>> BY <1>1
<1>2. ASSUME NEW u \in Users, MatchForRune(u)
      PROVE  parsed \subseteq parsed' /\ \A r \in Runes : failed[r] \subseteq failed'[r]
  <2>1. parsed' = parsed \/ parsed' = parsed \cup {DB[pos[u]]} BY <1>2 DEF MatchForRune
  <2>2. failed' = failed \/ failed' = [failed EXCEPT ![rune[u]] = @ \cup {DB[pos[u]]}]
    BY <1>2 DEF MatchForRune
  <2>3. failed \in [Runes -> SUBSET AllFonts] BY DEF TypeOK
  <2> QED BY <2>1, <2>2, <2>3
<1>3. ASSUME NEW u \in Users, fontFor(u), ~MatchForRune(u) PROVE UNCHANGED <<parsed, failed>>
  BY <1>3 DEF fontFor, NewText, NextRune, Call, Ask, Search, CacheCheck, NoMatch, LoadFont, PutFound,
              PutNil, AppendRead, AppendStore, Torn, Return, infoVars, histVars
<1> QED BY <1>1, <1>2, <1>3
        DEF Next, AddFallback, Uninstall, Reinstall, infoVars, histVars, vars

(* So what is known stays known.                                           *)
LEMMA Stable ==
  ASSUME TypeOK, TextInv, [Next]_vars, NEW r \in Runes, NEW n, NEW l, NEW f
  PROVE  /\ NoneBefore(r, n) => NoneBefore(r, n)'
         /\ Refusal(r) => Refusal(r)'
         /\ Unserved(r) => Unserved(r)'
         /\ Known(l, r, n, f) => Known(l, r, n, f)'
<1>1. NoneBefore(r, n) => NoneBefore(r, n)' BY Loading DEF NoneBefore
<1>2. NoneBefore(r, Len(DB) + 1) => NoneBefore(r, Len(DB) + 1)' BY Loading DEF NoneBefore
<1>3. Refusal(r) => Refusal(r)' BY Loading DEF Refusal
<1>4. Unserved(r) => Unserved(r)' BY <1>2, <1>3 DEF Unserved
<1>5. Known(l, r, n, f) => Known(l, r, n, f)' BY <1>1, <1>4, Loading DEF Known
<1> QED BY <1>1, <1>3, <1>4, <1>5

(* Where the search has failed there is no font to be had.                 *)
LEMMA NoFontLeft ==
  ASSUME NEW r \in Runes, Unserved(r), ~Exempt(r), NEW f \in parsed, NEW i \in DOMAIN DB, f = DB[i]
  PROVE  ~Has(f, r)
<1>1. ~Refusal(r) BY Fonts DEF Refusal, Exempt
<1>2. i < Len(DB) + 1 /\ f \in AllFonts BY Fonts
<1> QED BY <1>1, <1>2 DEF Unserved, NoneBefore, Exempt

(* A rune that is exempt remains so.                                       *)
LEMMA StillExempt ==
  ASSUME TypeOK, TextInv, [Next]_vars, NEW r \in Runes, Exempt(r)
  PROVE  Exempt(r)'
BY Loading DEF Exempt

-----------------------------------------------------------------------------
(* Types.                                                                  *)

(* What fontFor has in hand when it returns is a font.                     *)
LEMMA ReturnType ==
  ASSUME TypeOK, TextInv, NEW u \in Users, Busy(u), NEW f \in AllFonts, Return(u, f)
  PROVE  /\ TextInv'
         /\ pc' \in [Users -> {"idle", "search", "cache", "match", "face", "put", "putnil",
                               "append", "store"}]
         /\ rune' = rune /\ pos' \in [Users -> 1 .. Len(DB) + 1]
         /\ font' \in [Users -> AllFonts \cup {NoFont}] /\ old' \in [Users -> Seq(AllFonts \ NoFace)]
         /\ \A v \in Users : text'[v] # NoText => Drawing(v)' = (text'[v].todo # <<>>)
         /\ chosen' \in [Runes -> SUBSET AllFonts] /\ UNCHANGED <<calls, texts, failed, late>>
<1> USE TypeFacts
<1>1. /\ pc' = [pc EXCEPT ![u] = "idle"] /\ pos' = [pos EXCEPT ![u] = 1]
      /\ font' = [font EXCEPT ![u] = NoFont] /\ old' = [old EXCEPT ![u] = <<>>]
      /\ chosen' = [chosen EXCEPT ![rune[u]] = @ \cup {f}]
      /\ UNCHANGED <<rune, calls, texts, failed, late>>
      /\ text' = IF u \in Drawers THEN [text EXCEPT ![u] = Step(text[u], f)] ELSE text
  BY DEF Return, Goto
<1>2. ASSUME u \in Drawers PROVE Sane(Step(text[u], f))
  <2>1. Drawing(u) BY <1>2 DEF TextInv
  <2>2. PICK t \in Texts : t = text[u] BY <2>1 DEF Drawing
  <2>3. t.phase # "done" /\ t.todo # <<>> BY <2>1, <2>2 DEF Drawing, TypeOK
  <2> QED BY <2>2, <2>3, TextStep
<1>3. text' \in [Users -> Texts \cup {NoText}] BY <1>1, <1>2 DEF Sane
<1>4. \A v \in Users : text'[v] # NoText => Drawing(v)' = (text'[v].todo # <<>>)
  <2> SUFFICES ASSUME NEW v \in Users, text'[v] # NoText
               PROVE  Drawing(v)' = (text'[v].todo # <<>>)
    OBVIOUS
  <2>1. CASE v = u /\ u \in Drawers BY <1>1, <1>2, <2>1 DEF Sane, Drawing
  <2>2. CASE ~(v = u /\ u \in Drawers)
    <3>1. text'[v] = text[v] BY <1>1, <2>2
    <3> QED BY <2>2, <3>1 DEF TypeOK, Drawing
  <2> QED BY <2>1, <2>2
<1>5. \A v \in Drawers : Busy(v)' => Drawing(v)'
  <2> SUFFICES ASSUME NEW v \in Drawers, Busy(v)' PROVE Drawing(v)' OBVIOUS
  <2>1. v # u /\ pc'[v] = pc[v] BY <1>1 DEF Busy
  <2>2. text'[v] = text[v] BY <1>1, <2>1
  <2> QED BY <2>1, <2>2 DEF TextInv, Busy, Drawing
<1>6. <<>> \in Seq(AllFonts \ NoFace) /\ 1 \in 1 .. Len(DB) + 1 BY Fonts
<1>7. rune[u] \in Runes OBVIOUS
<1> QED BY <1>1, <1>3, <1>4, <1>5, <1>6, <1>7 DEF TextInv

(* Every step keeps the kinds of the variables.                            *)
LEMMA TypeStep ==
  ASSUME TypeOK, TextInv, KnownInv, CacheInv, [Next]_vars
  PROVE  TypeOK' /\ TextInv'
<1> USE TypeFacts, Fonts
<1>1. CASE UNCHANGED vars
  BY <1>1 DEF vars, setVars, infoVars, userVars, histVars, TypeOK, TextInv, Busy, Drawing
<1>2. ASSUME NEW u \in Users, NewText(u), u \in Drawers PROVE TypeOK' /\ TextInv'
  <2>1. PICK t : text' = [text EXCEPT ![u] = t] /\ (t = NoText \/ Sane(t))
    <3>1. PICK s \in Strings, field \in Fields :
             text' = [text EXCEPT ![u] = IF Empty(field.w, field.lpad) THEN NoText
                                         ELSE Text(s, field.w, field.lpad)]
      BY <1>2 DEF NewText
    <3> QED BY <3>1, NewTextFacts
  <2>2. ~Busy(u) BY <1>2 DEF NewText, TextInv
  <2>3. text' \in [Users -> Texts \cup {NoText}] BY <2>1 DEF Sane
  <2>4. \A v \in Users : text'[v] # NoText => Drawing(v)' = (text'[v].todo # <<>>)
    <3> SUFFICES ASSUME NEW v \in Users, text'[v] # NoText
                 PROVE  Drawing(v)' = (text'[v].todo # <<>>)
      OBVIOUS
    <3>1. CASE v = u BY <2>1, <3>1 DEF Sane, Drawing
    <3>2. CASE v # u
      <4>1. text'[v] = text[v] BY <2>1, <3>2
      <4> QED BY <4>1 DEF TypeOK, Drawing
    <3> QED BY <3>1, <3>2
  <2>5. TextInv'
    <3> SUFFICES ASSUME NEW v \in Drawers, Busy(v)' PROVE Drawing(v)' BY <2>3 DEF TextInv
    <3>1. pc' = pc BY <1>2 DEF NewText
    <3>2. v # u BY <2>2, <3>1 DEF Busy
    <3>3. text'[v] = text[v] BY <2>1, <3>2
    <3> QED BY <3>1, <3>3 DEF TextInv, Busy, Drawing
  <2>6. texts' \in 0 .. MaxTexts BY <1>2 DEF NewText, TypeOK
  <2> QED BY <1>2, <2>4, <2>5, <2>6 DEF NewText, TypeOK, setVars, infoVars
<1>3. ASSUME NEW u \in Users, NEW r \in Runes, Ask(u, r), UNCHANGED text, UNCHANGED texts,
             calls' \in 0 .. MaxCalls, u \in Drawers => Drawing(u)
      PROVE  TypeOK' /\ TextInv'
  <2>1. /\ pc' = [pc EXCEPT ![u] = "search"] /\ rune' = [rune EXCEPT ![u] = r]
        /\ UNCHANGED <<setVars, infoVars, pos, font, old, crashed, chosen, failed, late, raced>>
    BY <1>3 DEF Ask, Goto
  <2>2. \A v \in Users : v # u => pc'[v] = pc[v] BY <2>1
  <2>3. TextInv' BY <1>3, <2>2 DEF TextInv, Busy, Drawing
  <2> QED BY <1>3, <2>1, <2>3 DEF TypeOK, setVars, infoVars, Drawing
<1>4. ASSUME NEW u \in Users, Busy(u), NEW f \in AllFonts, Return(u, f),
             Fallback' \in Seq(AllFonts \ NoFace), DOMAIN fb' \subseteq Runes,
             \A r \in DOMAIN fb' : fb'[r] \in AllFonts \cup {NoFont},
             UNCHANGED <<infoVars, crashed>>, raced' \in BOOLEAN
      PROVE  TypeOK' /\ TextInv'
  BY <1>4, ReturnType DEF TypeOK, infoVars
<1>5. ASSUME NEW u \in Users, Search(u) PROVE TypeOK' /\ TextInv'
  <2>1. CASE Has(Primary, rune[u])
    BY <1>4, <1>5, <2>1 DEF Search, TypeOK, setVars, infoVars, Busy
  <2>2. CASE ~Has(Primary, rune[u]) /\ Having(rune[u]) # {}
    <3>1. PICK i \in First(Having(rune[u])) : Return(u, Fallback[i]) BY <1>5, <2>2 DEF Search
    <3>2. Fallback[i] \in AllFonts BY <3>1 DEF First, Having
    <3> QED BY <1>4, <1>5, <3>1, <3>2 DEF Search, TypeOK, setVars, infoVars, Busy
  <2>3. CASE Goto(u, "cache") /\ UNCHANGED <<rune, pos, font, old, text, histVars>>
    BY <1>5, <2>3 DEF Search, TypeOK, TextInv, Goto, setVars, infoVars, histVars, Busy, Drawing
  <2> QED BY <1>5, <2>1, <2>2, <2>3 DEF Search
<1>6. ASSUME NEW u \in Users, CacheCheck(u) PROVE TypeOK' /\ TextInv'
  <2>1. CASE rune[u] \in DOMAIN fb
    <3>1. PICK f \in AllFonts : Return(u, f) BY <1>6, <2>1 DEF CacheCheck, TypeOK
    <3> QED BY <1>4, <1>6, <3>1 DEF CacheCheck, TypeOK, setVars, infoVars, Busy
  <2>2. CASE Goto(u, "match") /\ UNCHANGED <<rune, pos, font, old, text, histVars>>
    BY <1>6, <2>2 DEF CacheCheck, TypeOK, TextInv, Goto, setVars, infoVars, histVars, Busy, Drawing
  <2> QED BY <1>6, <2>1, <2>2 DEF CacheCheck
<1>7. ASSUME NEW u \in Users, MatchForRune(u) PROVE TypeOK' /\ TextInv'
  <2>1. pos[u] \in 1 .. Len(DB) /\ DB[pos[u]] \in AllFonts BY <1>7 DEF MatchForRune
  <2>2. /\ pc' \in [Users -> {"idle", "search", "cache", "match", "face", "put", "putnil",
                              "append", "store"}]
        /\ \A v \in Users : pc'[v] # "idle" => pc[v] # "idle"
        /\ pos' \in [Users -> 1 .. Len(DB) + 1] /\ font' \in [Users -> AllFonts \cup {NoFont}]
        /\ parsed' \subseteq AllFonts /\ failed' \in [Runes -> SUBSET AllFonts]
    <3>1. PICK l \in {"match", "face"} : pc' = [pc EXCEPT ![u] = l]
      BY <1>7 DEF MatchForRune, Goto, PassOn, TypeOK
    <3>2. pos' = pos \/ pos' = [pos EXCEPT ![u] = pos[u] + 1] BY <1>7 DEF MatchForRune
    <3>3. font' = font \/ font' = [font EXCEPT ![u] = DB[pos[u]]] BY <1>7 DEF MatchForRune
    <3>4. parsed' = parsed \/ parsed' = parsed \cup {DB[pos[u]]} BY <1>7 DEF MatchForRune
    <3>5. pc[u] # "idle" BY <1>7 DEF MatchForRune
    <3>6. pos[u] + 1 \in 1 .. Len(DB) + 1 BY <2>1
    <3>7. pos' \in [Users -> 1 .. Len(DB) + 1] BY <3>2, <3>6
    <3>8. failed' = failed \/ failed' = [failed EXCEPT ![rune[u]] = @ \cup {DB[pos[u]]}]
      BY <1>7 DEF MatchForRune
    <3>9. failed' \in [Runes -> SUBSET AllFonts]
      <4>1. failed \in [Runes -> SUBSET AllFonts] BY DEF TypeOK
      <4>2. PICK f \in AllFonts : f = DB[pos[u]] BY <2>1
      <4>3. rune[u] \in Runes OBVIOUS
      <4>4. PICK r \in Runes : r = rune[u] BY <4>3
      <4>5. failed' = failed \/ failed' = [failed EXCEPT ![r] = failed[r] \cup {f}]
        BY <3>8, <4>2, <4>4
      <4>6. failed[r] \cup {f} \in SUBSET AllFonts BY <4>1
      <4> QED BY <4>1, <4>5, <4>6
    <3>10. font' \in [Users -> AllFonts \cup {NoFont}] BY <2>1, <3>3
    <3>11. parsed' \subseteq AllFonts BY <2>1, <3>4
    <3>12. \A v \in Users : pc'[v] # "idle" => pc[v] # "idle" BY <3>1, <3>5
    <3>13. pc' \in [Users -> {"idle", "search", "cache", "match", "face", "put", "putnil",
                              "append", "store"}]
      BY <3>1
    <3> QED BY <3>7, <3>9, <3>10, <3>11, <3>12, <3>13
  <2>3. UNCHANGED <<setVars, gone, rune, old, text, crashed, calls, texts, chosen, late, raced>>
    BY <1>7 DEF MatchForRune
  <2> QED BY <2>2, <2>3 DEF TypeOK, TextInv, setVars, Busy, Drawing
<1>8. ASSUME NEW u \in Users, NoMatch(u) \/ LoadFont(u) \/ AppendRead(u) PROVE TypeOK' /\ TextInv'
  <2>1. PICK l \in {"put", "putnil", "store"} : Goto(u, l) /\ pc[u] # "idle"
    BY <1>8 DEF NoMatch, LoadFont, AppendRead
  <2>2. UNCHANGED <<setVars, infoVars, rune, pos, font, text, crashed, histVars>>
    BY <1>8 DEF NoMatch, LoadFont, AppendRead
  <2>3. old' \in [Users -> Seq(AllFonts \ NoFace)] BY <1>8 DEF NoMatch, LoadFont, AppendRead
  <2> QED BY <2>1, <2>2, <2>3 DEF TypeOK, TextInv, Goto, setVars, infoVars, histVars, Busy, Drawing
<1>9. ASSUME NEW u \in Users, PutFound(u) PROVE TypeOK' /\ TextInv'
  <2>1. DOMAIN fb' \subseteq Runes /\ \A r \in DOMAIN fb' : fb'[r] \in AllFonts \cup {NoFont}
    BY <1>9 DEF PutFound, Put, TypeOK
  <2> QED BY <1>9, <2>1
          DEF PutFound, TypeOK, TextInv, Goto, infoVars, histVars, Busy, Drawing
<1>10. ASSUME NEW u \in Users, PutNil(u) PROVE TypeOK' /\ TextInv'
  <2>1. DOMAIN fb' \subseteq Runes /\ \A r \in DOMAIN fb' : fb'[r] \in AllFonts \cup {NoFont}
    BY <1>10 DEF PutNil, Put, TypeOK
  <2> QED BY <1>4, <1>10, <2>1 DEF PutNil, TypeOK, Busy
<1>11. ASSUME NEW u \in Users, AppendStore(u) PROVE TypeOK' /\ TextInv'
  <2>1. font[u] \in AllFonts \ NoFace
    BY <1>11 DEF AppendStore, KnownInv, Known
  <2>2. Append(old[u], font[u]) \in Seq(AllFonts \ NoFace) BY <2>1
  <2> QED BY <1>4, <1>11, <2>1, <2>2 DEF AppendStore, TypeOK, Busy
<1>12. ASSUME NEW u \in Users, Torn(u) PROVE TypeOK' /\ TextInv'
  BY <1>12 DEF Torn, TypeOK, TextInv, setVars, infoVars, userVars, histVars, Busy, Drawing
<1>13. ASSUME NEW f \in Manual, AddFallback(f) PROVE TypeOK' /\ TextInv'
  <2>1. f \in AllFonts \ NoFace OBVIOUS
  <2>2. Append(Fallback, f) \in Seq(AllFonts \ NoFace) BY <2>1
  <2> QED BY <1>13, <2>2 DEF AddFallback, TypeOK, TextInv, infoVars, userVars, Busy, Drawing
<1>14. ASSUME NEW f \in Fickle, Uninstall(f) \/ Reinstall(f) PROVE TypeOK' /\ TextInv'
  BY <1>14 DEF Uninstall, Reinstall, TypeOK, TextInv, setVars, userVars, histVars, Busy, Drawing
<1>15. ASSUME NEW u \in Users, NextRune(u) PROVE TypeOK' /\ TextInv'
  <2>1. Head(text[u].todo) \in Runes
    <3>1. PICK t \in Texts : t = text[u] BY <1>15 DEF NextRune, Drawing
    <3>2. PICK q \in Seq(Runes) : q = t.todo /\ q # <<>> BY <1>15, <3>1 DEF NextRune, Drawing, Texts, TypeOK
    <3> QED BY <3>1, <3>2
  <2> QED BY <1>3, <1>15, <2>1 DEF NextRune, TypeOK
<1>16. ASSUME NEW u \in Users, u \notin Drawers, NEW r \in Runes, Call(u, r) PROVE TypeOK' /\ TextInv'
  <2>1. calls' \in 0 .. MaxCalls BY <1>16 DEF Call, TypeOK
  <2> QED BY <1>3, <1>16, <2>1 DEF Call
<1> QED BY <1>1, <1>2, <1>5, <1>6, <1>7, <1>8, <1>9, <1>10, <1>11, <1>12, <1>13, <1>14, <1>15, <1>16
        DEF Next, fontFor

-----------------------------------------------------------------------------
(* What each goroutine knows.                                              *)

(* Before the search nothing is claimed.                                   *)
LEMMA Nothing ==
  ASSUME NEW l \in {"idle", "search"}, NEW r, NEW f
  PROVE  Known(l, r, 1, f)'
BY Fonts DEF Known, NoneBefore

(* One font of the database is tried.                                      *)
LEMMA MatchFacts ==
  ASSUME TypeOK, TextInv, NEW u \in Users, MatchForRune(u)
  PROVE  /\ pc[u] = "match" /\ pos[u] \in DOMAIN DB /\ rune'[u] = rune[u]
         /\ UNCHANGED <<Fallback, fb, chosen, rune, old, text, late, raced>>
         /\ \/ /\ pc'[u] = "match" /\ pos'[u] = pos[u] + 1 /\ font'[u] = font[u]
               /\ Has(DB[pos[u]], rune[u]) => DB[pos[u]] \in failed'[rune[u]]
            \/ /\ pc'[u] = "face" /\ pos'[u] = pos[u] /\ font'[u] = DB[pos[u]]
               /\ Has(DB[pos[u]], rune[u]) /\ DB[pos[u]] \in parsed'
<1> USE TypeFacts, Fonts
<1>1. pc[u] = "match" /\ pos[u] \in DOMAIN DB 
      /\ UNCHANGED <<setVars, rune, old, text, chosen, late, raced>>
  BY DEF MatchForRune
<1>2. CASE ~Loads(DB[pos[u]])
  <2>1. DB[pos[u]] \in failed'[rune[u]]
    <3>1. failed \in [Runes -> SUBSET AllFonts] /\ rune[u] \in Runes BY DEF TypeOK
    <3> QED BY <1>2, <3>1 DEF MatchForRune
  <2> QED BY <1>1, <1>2, <2>1 DEF MatchForRune, Goto, PassOn, setVars
<1>3. CASE Loads(DB[pos[u]]) /\ Has(DB[pos[u]], rune[u])
  BY <1>1, <1>3 DEF MatchForRune, Goto, setVars
<1>4. CASE Loads(DB[pos[u]]) /\ ~Has(DB[pos[u]], rune[u])
  BY <1>1, <1>4 DEF MatchForRune, setVars
<1> QED BY <1>2, <1>3, <1>4

(* Every step brings a goroutine to a place whose claims hold.             *)
LEMMA KnownStep ==
  ASSUME TypeOK, TextInv, KnownInv, CacheInv, [Next]_vars
  PROVE  KnownInv'
<1> USE TypeFacts, Fonts
<1>1. ASSUME NEW v \in Users, Same(v) PROVE Known(pc[v], rune[v], pos[v], font[v])'
  <2>1. rune[v] \in Runes OBVIOUS
  <2>3. PICK l, n, f : l = pc[v] /\ n = pos[v] /\ f = font[v] OBVIOUS
  <2>4. PICK r \in Runes : r = rune[v] BY <2>1
  <2>2. Known(l, r, n, f)' BY <2>3, <2>4, Stable DEF KnownInv
  <2> QED BY <1>1, <2>2, <2>3, <2>4 DEF Same
<1>2. ASSUME NEW u \in Users, fontFor(u) PROVE Known(pc[u], rune[u], pos[u], font[u])'
  <2>1. PICK r \in Runes, n \in 1 .. Len(DB) + 1,
             f \in AllFonts \cup {NoFont} : r = rune[u] /\ n = pos[u] /\ f = font[u]
    OBVIOUS
  <2>2. Known(pc[u], r, n, f) BY <2>1 DEF KnownInv
  <2>3. NoneBefore(r, n)' BY <2>2, Stable DEF Known
  <2>4. ASSUME NEW g, Returned(u, g) PROVE Known(pc[u], rune[u], pos[u], font[u])'
    <3>1. Known("idle", r, 1, NoFont)' BY Nothing
    <3> QED BY <2>1, <2>4, <3>1 DEF Returned
  <2>5. ASSUME NEW g, Return(u, g) PROVE Known(pc[u], rune[u], pos[u], font[u])'
    BY <2>4, <2>5, ReturnFacts
  <2>6. CASE Search(u) \/ CacheCheck(u)
    <3>1. CASE \E g : Return(u, g) BY <2>5, <3>1
    <3>2. CASE ~\E g : Return(u, g)
      <4>1. PICK l \in {"cache", "match"} : pc' = [pc EXCEPT ![u] = l]
        BY <2>6, <3>2 DEF Search, CacheCheck, Goto
      <4>2. rune'[u] = r /\ pos'[u] = n /\ font'[u] = f /\ ~Has(Primary, r)
        BY <2>1, <2>2, <2>6, <3>2 DEF Search, CacheCheck, Known
      <4>3. Known(l, r, n, f)' BY <2>3, <4>1, <4>2 DEF Known
      <4> QED BY <4>1, <4>2, <4>3
    <3> QED BY <3>1, <3>2
  <2>7. CASE PutNil(u) \/ AppendStore(u) BY <2>5, <2>7 DEF PutNil, AppendStore
  <2>8. CASE MatchForRune(u)
    <3>1. CASE /\ pc'[u] = "match" /\ pos'[u] = pos[u] + 1 /\ font'[u] = font[u]
               /\ Has(DB[pos[u]], rune[u]) => DB[pos[u]] \in failed'[rune[u]]
      <4>1. \A i \in DOMAIN DB : i < n + 1 => i < n \/ i = n OBVIOUS
      <4>2. NoneBefore(r, n + 1)' BY <2>1, <2>3, <3>1, <4>1 DEF NoneBefore
      <4>3. ~Has(Primary, r) BY <2>2, <2>8 DEF Known, MatchForRune
      <4>4. Known("match", r, n + 1, f)' BY <4>2, <4>3 DEF Known
      <4> QED BY <2>1, <2>8, <3>1, <4>4, MatchFacts
    <3>2. CASE /\ pc'[u] = "face" /\ pos'[u] = pos[u] /\ font'[u] = DB[pos[u]]
               /\ Has(DB[pos[u]], rune[u]) /\ DB[pos[u]] \in parsed'
      <4>1. ~Has(Primary, r) /\ n \in DOMAIN DB BY <2>1, <2>2, <2>8, MatchFacts DEF Known
      <4>2. Known("face", r, n, DB[n])' BY <2>1, <2>3, <3>2, <4>1 DEF Known
      <4> QED BY <2>1, <2>8, <3>2, <4>2, MatchFacts
    <3> QED BY <2>8, <3>1, <3>2, MatchFacts
  <2>9. CASE NoMatch(u)
    <3>1. /\ pc[u] = "match" /\ n = Len(DB) + 1
          /\ pc'[u] = "putnil" /\ rune'[u] = r /\ pos'[u] = n /\ font'[u] = f
      <4>1. n = Len(DB) + 1 BY <2>1, <2>9 DEF NoMatch
      <4>2. pc[u] = "match" /\ pc'[u] = "putnil" BY <2>9 DEF NoMatch, Goto
      <4>3. rune'[u] = r /\ pos'[u] = n /\ font'[u] = f BY <2>1, <2>9 DEF NoMatch
      <4> QED BY <4>1, <4>2, <4>3
    <3>2. ~Has(Primary, r) BY <2>2, <3>1 DEF Known
    <3>3. Known("putnil", r, n, f)' BY <2>3, <3>1, <3>2 DEF Known, Unserved
    <3> QED BY <3>1, <3>3
  <2>10. CASE LoadFont(u)
    <3>1. /\ pc[u] = "face" /\ rune'[u] = r /\ pos'[u] = n /\ font'[u] = f /\ parsed' = parsed
          /\ pc'[u] = IF f \in NoFace THEN "putnil" ELSE "put"
      BY <2>1, <2>10 DEF LoadFont, Goto, Refused, infoVars
    <3>2. ~Has(Primary, r) /\ n \in DOMAIN DB /\ f = DB[n] /\ f \in parsed /\ Has(f, r)
      BY <2>2, <3>1 DEF Known
    <3>3. CASE f \in NoFace
      <4>1. Refusal(r)' BY <3>1, <3>2, <3>3 DEF Refusal
      <4>2. Known("putnil", r, n, f)' BY <2>3, <3>2, <4>1 DEF Known, Unserved
      <4> QED BY <3>1, <3>3, <4>2
    <3>4. CASE f \notin NoFace
      <4>1. Known("put", r, n, f)' BY <2>3, <3>1, <3>2, <3>4 DEF Known
      <4> QED BY <3>1, <3>4, <4>1
    <3> QED BY <3>3, <3>4
  <2>11. CASE PutFound(u) \/ AppendRead(u)
    <3>1. PICK l \in {"append", "store"} : pc'[u] = l
      BY <2>11 DEF PutFound, AppendRead, Goto
    <3>2. /\ pc[u] \in {"put", "append"} /\ rune'[u] = r /\ pos'[u] = n /\ font'[u] = f
          /\ parsed' = parsed
      BY <2>1, <2>11 DEF PutFound, AppendRead, infoVars
    <3>3. Known(l, r, n, f)' BY <2>2, <2>3, <3>1, <3>2 DEF Known
    <3> QED BY <3>1, <3>2, <3>3
  <2>12. CASE NewText(u) \/ Torn(u)
    <3>1. pc'[u] = pc[u] /\ rune'[u] = r /\ pos'[u] = n /\ font'[u] = f
      BY <2>1, <2>12 DEF NewText, Torn, userVars
    <3>2. PICK l : l = pc[u] OBVIOUS
    <3>3. Known(l, r, n, f)' BY <2>2, <3>2, Stable
    <3> QED BY <3>1, <3>2, <3>3
  <2>13. ASSUME NEW q, Ask(u, q) PROVE Known(pc[u], rune[u], pos[u], font[u])'
    <3>1. pc'[u] = "search" /\ rune'[u] = q /\ pos'[u] = 1 /\ font'[u] = f
      BY <2>1, <2>2, <2>13 DEF Ask, Goto, Known
    <3>2. Known("search", q, 1, f)' BY Nothing
    <3> QED BY <3>1, <3>2
  <2> QED BY <1>2, <2>6, <2>7, <2>8, <2>9, <2>10, <2>11, <2>12, <2>13
          DEF fontFor, NextRune, Call
<1>3. ASSUME NEW u \in Users, fontFor(u) PROVE KnownInv'
  <2> SUFFICES ASSUME NEW v \in Users PROVE Known(pc[v], rune[v], pos[v], font[v])' BY DEF KnownInv
  <2> QED BY <1>1, <1>2, <1>3, Others
<1>4. CASE UNCHANGED userVars
  <2>1. \A v \in Users : Same(v) BY <1>4 DEF userVars, Same
  <2> QED BY <1>1, <2>1 DEF KnownInv
<1> QED BY <1>3, <1>4 DEF Next, AddFallback, Uninstall, Reinstall, vars

(* The cache.                                                              *)
LEMMA CacheStep ==
  ASSUME TypeOK, TextInv, KnownInv, CacheInv, [Next]_vars
  PROVE  CacheInv'
<1>1. CASE UNCHANGED fb
  <2> SUFFICES ASSUME NEW r \in Runes, r \in DOMAIN fb PROVE fb[r] = NoFont => Unserved(r)'
    BY <1>1 DEF CacheInv, TypeOK
  <2> QED BY Stable DEF CacheInv
<1>2. ASSUME NEW u \in Users, NEW f, Put(rune[u], f), ~Has(Primary, rune[u]),
             f = NoFont => Unserved(rune[u])
      PROVE  CacheInv'
  <2>1. PICK q \in Runes : q = rune[u] BY TypeFacts
  <2>4. DOMAIN fb' \subseteq Runes BY <1>2, <2>1 DEF Put, TypeOK
  <2> SUFFICES ASSUME NEW r \in Runes, r \in DOMAIN fb'
               PROVE  ~Has(Primary, r) /\ (fb'[r] = NoFont => Unserved(r)')
    BY <2>4 DEF CacheInv
  <2>2. (r = q /\ fb'[r] = f) \/ (r \in DOMAIN fb /\ fb'[r] = fb[r]) BY <1>2, <2>1 DEF Put
  <2>3. ~Has(Primary, r) /\ (fb'[r] = NoFont => Unserved(r)) BY <1>2, <2>1, <2>2 DEF CacheInv
  <2> QED BY <2>3, Stable
<1>3. ASSUME NEW u \in Users, PutFound(u) PROVE CacheInv'
  <2>1. Put(rune[u], font[u]) /\ pc[u] = "put" BY <1>3 DEF PutFound
  <2>2. ~Has(Primary, rune[u]) /\ font[u] \in AllFonts
    BY <2>1, Fonts DEF KnownInv, Known
  <2> QED BY <1>2, <2>1, <2>2
<1>4. ASSUME NEW u \in Users, PutNil(u) PROVE CacheInv'
  <2>1. Put(rune[u], NoFont) /\ pc[u] = "putnil" BY <1>4 DEF PutNil
  <2>2. ~Has(Primary, rune[u]) /\ Unserved(rune[u]) BY <2>1 DEF KnownInv, Known
  <2> QED BY <1>2, <2>1, <2>2
<1>5. ASSUME NEW u \in Users, fontFor(u), ~PutFound(u), ~PutNil(u) PROVE UNCHANGED fb
  BY <1>5 DEF fontFor, NewText, NextRune, Call, Ask, Search, CacheCheck, MatchForRune, NoMatch,
              LoadFont, AppendRead, AppendStore, Torn, setVars
<1> QED BY <1>1, <1>3, <1>4, <1>5 DEF Next, AddFallback, Uninstall, Reinstall, setVars, vars

-----------------------------------------------------------------------------
(* The list.                                                               *)

(* What a step that leaves the list alone does to it.                      *)
LEMMA ListFacts ==
  ASSUME NEW u \in Users, fontFor(u)
  PROVE  /\ ~AppendStore(u) => UNCHANGED <<Fallback, raced>>
         /\ UNCHANGED late
BY DEF fontFor, NewText, NextRune, Call, Ask, Search, CacheCheck, MatchForRune, NoMatch, LoadFont,
       PutFound, PutNil, AppendRead, AppendStore, Torn, setVars, histVars, Return

(* A store that races with nobody finds the list as it was searched, and   *)
(* the others idle.                                                        *)
LEMMA StoreFacts ==
  ASSUME TypeOK, TextInv, KnownInv, AloneInv, NEW u \in Users, AppendStore(u), ~raced'
  PROVE  /\ ~raced /\ Fallback' = Append(Fallback, font[u]) /\ Returned(u, font[u])
         /\ \A v \in Users : v # u => pc[v] = "idle"
         /\ pc[u] = "store" /\ Having(rune[u]) = {} /\ Has(font[u], rune[u])
         /\ font[u] \in AllFonts \ NoFace /\ font[u] \in parsed /\ font[u] # NoFont
         /\ pos[u] \in DOMAIN DB /\ font[u] = DB[pos[u]] /\ ~Has(Primary, rune[u])
         /\ UNCHANGED <<fb, late, parsed>>
<1>1. pc[u] = "store" /\ UNCHANGED <<fb, infoVars>> BY DEF AppendStore
<1>2. ~raced /\ \A v \in Users : v # u => pc[v] = "idle"
  BY DEF AppendStore, Busy, TypeOK
<1>3. old[u] = Fallback /\ Having(rune[u]) = {} BY <1>1, <1>2 DEF AloneInv
<1>4. Returned(u, font[u]) BY ReturnFacts DEF AppendStore
<1>5. /\ pos[u] \in DOMAIN DB /\ font[u] = DB[pos[u]] /\ font[u] \in parsed /\ Has(font[u], rune[u])
      /\ font[u] \notin NoFace /\ ~Has(Primary, rune[u])
  BY <1>1 DEF KnownInv, Known
<1>6. font[u] \in AllFonts /\ font[u] # NoFont BY <1>5, Fonts
<1> QED BY <1>1, <1>2, <1>3, <1>4, <1>5, <1>6 DEF AppendStore, Returned, infoVars

(* As long as calls do not overlap, the list is as its search found it.    *)
LEMMA AloneStep ==
  ASSUME TypeOK, TextInv, KnownInv, AloneInv, [Next]_vars
  PROVE  AloneInv'
<1> USE TypeFacts
<1> SUFFICES ASSUME ~raced', NEW v \in Users
             PROVE  /\ pc'[v] \notin {"idle", "search"} => Having(rune[v])' = {}
                    /\ pc'[v] = "store" => old'[v] = Fallback'
  BY DEF AloneInv
<1>1. CASE /\ UNCHANGED <<Fallback, raced>> /\ rune'[v] = rune[v]
           /\ pc'[v] \notin {"idle", "search"} => pc[v] \notin {"idle", "search"} \/ Having(rune[v]) = {}
           /\ pc'[v] = "store" => (pc[v] = "store" /\ old'[v] = old[v]) \/ old'[v] = Fallback
  BY <1>1 DEF AloneInv, Having
<1>2. CASE UNCHANGED <<setVars, userVars, raced>> BY <1>1, <1>2 DEF setVars, userVars
<1>3. ASSUME NEW f \in Manual, AddFallback(f)
      PROVE  pc'[v] = "idle"
  BY <1>3 DEF AddFallback, userVars, Busy
<1>4. ASSUME NEW u \in Users, AppendStore(u) PROVE pc'[v] = "idle"
  <2>1. CASE v = u BY <1>4, <2>1, StoreFacts DEF Returned
  <2>2. CASE v # u
    <3>1. Same(v) BY <1>4, <2>2, Others DEF fontFor
    <3> QED BY <1>4, <2>2, <3>1, StoreFacts DEF Same
  <2> QED BY <2>1, <2>2
<1>5. ASSUME NEW u \in Users, fontFor(u), ~AppendStore(u), v # u
      PROVE  /\ pc'[v] \notin {"idle", "search"} => Having(rune[v])' = {}
             /\ pc'[v] = "store" => old'[v] = Fallback'
  BY <1>1, <1>5, Others, ListFacts DEF Same
<1>6. ASSUME fontFor(v), ~AppendStore(v)
      PROVE  /\ pc'[v] \notin {"idle", "search"} => Having(rune[v])' = {}
             /\ pc'[v] = "store" => old'[v] = Fallback'
  <2>1. UNCHANGED <<Fallback, raced>> BY <1>6, ListFacts
  <2>2. CASE pc'[v] \in {"idle", "search"} BY <2>2
  <2>3. CASE NewText(v) \/ Torn(v)
    BY <1>1, <2>1, <2>3 DEF NewText, Torn, userVars
  <2>4. CASE \E q : Ask(v, q) BY <2>4 DEF Ask, Goto
  <2>5. CASE \E f : Return(v, f)
    <3>1. pc'[v] = "idle" BY <2>5, ReturnFacts DEF Returned
    <3> QED BY <3>1
  <2>6. CASE Search(v) /\ ~\E f : Return(v, f)
    <3>1. Having(rune[v]) = {} /\ rune' = rune /\ pc'[v] = "cache"
      BY <2>6 DEF Search, Goto
    <3> QED BY <1>1, <2>1, <3>1
  <2>7. CASE CacheCheck(v) /\ ~\E f : Return(v, f)
    <3>1. pc[v] = "cache" /\ rune' = rune /\ pc'[v] = "match" BY <2>7 DEF CacheCheck, Goto
    <3> QED BY <1>1, <2>1, <3>1
  <2>8. CASE MatchForRune(v)
    <3>1. pc[v] = "match" /\ rune' = rune /\ pc'[v] # "store" BY <2>8, MatchFacts
    <3> QED BY <1>1, <2>1, <3>1
  <2>9. CASE NoMatch(v) \/ LoadFont(v) \/ PutFound(v)
    <3>1. pc[v] \notin {"idle", "search"} /\ rune' = rune /\ pc'[v] # "store"
      BY <2>9 DEF NoMatch, LoadFont, PutFound, Goto
    <3> QED BY <1>1, <2>1, <3>1
  <2>10. CASE AppendRead(v)
    <3>1. pc[v] = "append" /\ rune' = rune /\ old'[v] = Fallback BY <2>10 DEF AppendRead
    <3> QED BY <1>1, <2>1, <3>1
  <2>11. PutNil(v) => Return(v, Primary) BY DEF PutNil
  <2> QED BY <1>6, <2>3, <2>4, <2>5, <2>6, <2>7, <2>8, <2>9, <2>10, <2>11
          DEF fontFor, NextRune, Call
<1> QED BY <1>2, <1>3, <1>4, <1>5, <1>6 DEF Next, Uninstall, Reinstall, vars, histVars

(* The list grows by what it did not have.                                 *)
LEMMA OnceStep ==
  ASSUME TypeOK, TextInv, KnownInv, AloneInv, NoDuplicates, [Next]_vars
  PROVE  NoDuplicates'
<1> USE TypeFacts
<1>1. CASE UNCHANGED <<Fallback, raced>> BY <1>1 DEF NoDuplicates
<1>2. ASSUME NEW f \in AllFonts \ NoFace, Fallback' = Append(Fallback, f), ~raced,
             f \in Manual \/ f \notin {Fallback[i] : i \in DOMAIN Fallback}
      PROVE  NoDuplicates'
  <2>1. \A i, j \in DOMAIN Fallback : Fallback[i] = Fallback[j] => i = j \/ Fallback[i] \in Manual
    BY <1>2 DEF NoDuplicates
  <2> QED BY <1>2, <2>1 DEF NoDuplicates
<1>3. ASSUME NEW u \in Users, AppendStore(u), ~raced' PROVE NoDuplicates'
  <2>1. font[u] \notin {Fallback[i] : i \in DOMAIN Fallback} BY <1>3, StoreFacts DEF Having
  <2> QED BY <1>2, <1>3, <2>1, StoreFacts
<1>4. ASSUME NEW f \in Manual, AddFallback(f), ~raced' PROVE NoDuplicates'
  <2>1. f \in AllFonts \ NoFace BY Fonts
  <2> QED BY <1>2, <1>4, <2>1 DEF AddFallback
<1>5. raced' => NoDuplicates' BY DEF NoDuplicates
<1> QED BY <1>1, <1>3, <1>4, <1>5, ListFacts DEF Next, Uninstall, Reinstall, vars, setVars, histVars

-----------------------------------------------------------------------------
(* One answer for each rune.                                               *)

(* What the list and the cache say of a rune depends on nothing else.      *)
LEMMA AnswersOther ==
  ASSUME NEW r, UNCHANGED Fallback, r \in DOMAIN fb' <=> r \in DOMAIN fb,
         r \in DOMAIN fb => fb'[r] = fb[r]
  PROVE  Answers(r)' = Answers(r) /\ Having(r)' = Having(r)
<1>1. Having(r)' = Having(r) BY DEF Having
<1>2. {f \in AllFonts : r \in DOMAIN fb' /\ f = IF fb'[r] = NoFont THEN Primary ELSE fb'[r]}
        = {f \in AllFonts : r \in DOMAIN fb /\ f = IF fb[r] = NoFont THEN Primary ELSE fb[r]}
  OBVIOUS
<1>3. {Fallback'[i] : i \in First(Having(r)')} = {Fallback[i] : i \in First(Having(r))} BY <1>1
<1>4. CASE Has(Primary, r) BY <1>1, <1>4 DEF Answers
<1>5. CASE ~Has(Primary, r) /\ Having(r) # {}
  <2>1. Answers(r) = {Fallback[i] : i \in First(Having(r))} BY <1>5, Zenon DEF Answers
  <2>2. Answers(r)' = {Fallback'[i] : i \in First(Having(r)')} BY <1>1, <1>5, Zenon DEF Answers, First
  <2> QED BY <1>1, <1>3, <2>1, <2>2
<1>6. CASE ~Has(Primary, r) /\ Having(r) = {}
  <2>1. Answers(r) = {f \in AllFonts : r \in DOMAIN fb /\ f = IF fb[r] = NoFont THEN Primary ELSE fb[r]}
    BY <1>6, Zenon DEF Answers
  <2>2. Answers(r)' = {f \in AllFonts : r \in DOMAIN fb' /\ f = IF fb'[r] = NoFont THEN Primary ELSE fb'[r]}
    BY <1>1, <1>6, Zenon DEF Answers
  <2> QED BY <1>1, <1>2, <2>1, <2>2
<1> QED BY <1>1, <1>4, <1>5, <1>6

(* What a goroutine adds has been loaded, and has the rune.                *)
LEMMA AddingFacts ==
  ASSUME KnownInv, NEW u \in Users, Adding(u)
  PROVE  /\ font[u] \in parsed /\ Has(font[u], rune[u]) /\ ~Has(Primary, rune[u])
         /\ pos[u] \in DOMAIN DB /\ font[u] = DB[pos[u]] /\ font[u] # NoFont
<1>1. font[u] \in parsed /\ Has(font[u], rune[u]) /\ ~Has(Primary, rune[u])
      /\ pos[u] \in DOMAIN DB /\ font[u] = DB[pos[u]]
  BY DEF KnownInv, Known, Adding
<1> QED BY <1>1, Fonts

(* All who add a font for one rune add the same...                         *)
LEMMA SameFont ==
  ASSUME TypeOK, TextInv, KnownInv, NEW u \in Users, NEW v \in Users, ~Exempt(rune[u]),
         pc[u] \in {"put", "append", "store"}, pc[v] \in {"put", "append", "store"},
         rune[u] = rune[v]
  PROVE  font[u] = font[v]
<1>1. \A w \in {u, v} :
        /\ pos[w] \in DOMAIN DB /\ font[w] = DB[pos[w]] /\ font[w] \in parsed
        /\ Has(font[w], rune[u]) /\ NoneBefore(rune[u], pos[w])
  BY DEF KnownInv, Known
<1>2. pos[u] \in Nat /\ pos[v] \in Nat BY TypeFacts, Fonts
<1>3. ~(pos[u] < pos[v]) /\ ~(pos[v] < pos[u]) BY <1>1, Fonts DEF NoneBefore, Exempt
<1> QED BY <1>1, <1>2, <1>3

(* ... and for a rune without a font nobody adds one.                      *)
LEMMA NobodyAdds ==
  ASSUME TypeOK, TextInv, KnownInv, NEW u \in Users, pc[u] \in {"put", "append", "store"},
         Unserved(rune[u])
  PROVE  Exempt(rune[u])
<1>1. font[u] \in parsed /\ Has(font[u], rune[u]) /\ pos[u] \in DOMAIN DB /\ font[u] = DB[pos[u]]
  BY DEF KnownInv, Known
<1>2. PICK r \in Runes, i \in DOMAIN DB, f \in parsed : r = rune[u] /\ i = pos[u] /\ f = font[u]
  BY <1>1, TypeFacts
<1> QED BY <1>1, <1>2, NoFontLeft

(* A step that returns what was known already, or nothing.                 *)
LEMMA SettledSame ==
  ASSUME TypeOK, TextInv, NEW r \in Runes, Settled(r), UNCHANGED <<Fallback, fb>>,
         chosen[r] \subseteq chosen'[r], chosen'[r] \subseteq chosen[r] \cup Answers(r),
         \A v \in Users : Adding(v)' <=> Adding(v),
         \A v \in Users : Adding(v) => rune'[v] = rune[v] /\ font'[v] = font[v]
  PROVE  Settled(r)'
<1>1. Answers(r)' = Answers(r) /\ Having(r)' = Having(r) BY AnswersOther
<1>2. (chosen[r] \subseteq Answers(r))' BY <1>1 DEF Settled
<1>3. (r \in DOMAIN fb /\ fb[r] = NoFont => Having(r) = {} /\ chosen[r] # {})'
  BY <1>1 DEF Settled
<1>4. (r \in DOMAIN fb /\ fb[r] # NoFont /\ Having(r) = {} =>
         \E u \in Users : Adding(u) /\ rune[u] = r /\ font[u] = fb[r])'
  BY <1>1 DEF Settled
<1>5. (\A u \in Users : Adding(u) /\ rune[u] = r => r \in DOMAIN fb /\ fb[r] = font[u])'
  BY DEF Settled
<1> QED BY <1>2, <1>3, <1>4, <1>5 DEF Settled

(* The steps of fontFor that neither store nor cache.                      *)
LEMMA SettledQuiet ==
  ASSUME TypeOK, TextInv, KnownInv, CacheInv, AloneInv, ~raced,
         NEW u \in Users, fontFor(u), ~PutFound(u), ~PutNil(u), ~AppendStore(u),
         NEW r \in Runes, Settled(r)
  PROVE  Settled(r)'
<1> USE TypeFacts
<1>1. UNCHANGED <<Fallback, fb>>
  BY DEF fontFor, NewText, NextRune, Call, Ask, Search, CacheCheck, MatchForRune, NoMatch,
         LoadFont, AppendRead, Torn, setVars
<1>2. CASE /\ \A v \in Users : (Adding(v)' <=> Adding(v)) /\ rune'[v] = rune[v]
           /\ Adding(u) => font'[u] = font[u]
           /\ chosen' = chosen
  <2>1. \A v \in Users : Adding(v) => font'[v] = font[v] BY <1>2, Others DEF Same
  <2> QED BY <1>1, <1>2, <2>1, SettledSame
<1>3. ASSUME NEW f, Return(u, f), ~Adding(u), f \in Answers(rune[u]) PROVE Settled(r)'
  <2>1. Returned(u, f) /\ \A v \in Users : v # u => Same(v) BY <1>3, ReturnFacts
  <2>2. \A v \in Users : (Adding(v)' <=> Adding(v))
    BY <1>3, <2>1 DEF Returned, Same, Adding
  <2>3. \A v \in Users : Adding(v) => rune'[v] = rune[v] /\ font'[v] = font[v]
    BY <1>3, <2>1 DEF Same
  <2>4. chosen[r] \subseteq chosen'[r] /\ chosen'[r] \subseteq chosen[r] \cup Answers(r)
    BY <1>3, <2>1 DEF Returned
  <2> QED BY <1>1, <2>2, <2>3, <2>4, SettledSame
<1>4. CASE Search(u)
  <2>1. pc[u] = "search" /\ ~Adding(u) BY <1>4 DEF Search, Adding
  <2>2. CASE Has(Primary, rune[u])
    <3>1. Return(u, Primary) /\ Primary \in Answers(rune[u]) BY <1>4, <2>2 DEF Search, Answers
    <3> QED BY <1>3, <2>1, <3>1
  <2>3. CASE ~Has(Primary, rune[u]) /\ Having(rune[u]) # {}
    <3>1. PICK i \in First(Having(rune[u])) : Return(u, Fallback[i]) BY <1>4, <2>3 DEF Search
    <3>2. Fallback[i] \in Answers(rune[u]) BY <2>3, <3>1 DEF Answers
    <3> QED BY <1>3, <2>1, <3>1, <3>2
  <2>4. CASE Goto(u, "cache") /\ UNCHANGED <<rune, pos, font, old, text, histVars>>
    <3>1. \A v \in Users : Adding(v)' <=> Adding(v) BY <2>1, <2>4 DEF Goto, Adding
    <3> QED BY <1>2, <2>4, <3>1 DEF histVars
  <2> QED BY <1>4, <2>2, <2>3, <2>4 DEF Search
<1>5. CASE CacheCheck(u)
  <2>1. pc[u] = "cache" /\ ~Adding(u) BY <1>5 DEF CacheCheck, Adding
  <2>2. CASE rune[u] \in DOMAIN fb
    <3>1. PICK f \in AllFonts : Return(u, f) /\ f = IF fb[rune[u]] = NoFont THEN Primary ELSE fb[rune[u]]
      BY <1>5, <2>2, Fonts DEF CacheCheck, TypeOK
    <3>2. Having(rune[u]) = {} BY <2>1 DEF AloneInv
    <3>3. ~Has(Primary, rune[u]) BY <2>2 DEF CacheInv
    <3>4. f \in Answers(rune[u]) BY <2>2, <3>1, <3>2, <3>3 DEF Answers
    <3> QED BY <1>3, <2>1, <3>1, <3>4
  <2>3. CASE Goto(u, "match") /\ UNCHANGED <<rune, pos, font, old, text, histVars>>
    <3>1. \A v \in Users : Adding(v)' <=> Adding(v) BY <2>1, <2>3 DEF Goto, Adding
    <3> QED BY <1>2, <2>3, <3>1 DEF histVars
  <2> QED BY <1>5, <2>2, <2>3 DEF CacheCheck
<1>6. CASE MatchForRune(u)
  <2>1. /\ pc[u] = "match" /\ pc'[u] \notin {"append", "store"} /\ UNCHANGED <<rune, chosen>>
    BY <1>6, MatchFacts
  <2>2. \A v \in Users : Adding(v)' <=> Adding(v) BY <2>1, Others DEF Same, Adding
  <2> QED BY <1>2, <2>1, <2>2 DEF Adding
<1>7. CASE NoMatch(u) \/ LoadFont(u) \/ AppendRead(u)
  <2>1. /\ UNCHANGED <<rune, font, chosen>>
        /\ pc[u] \in {"append", "store"} <=> pc'[u] \in {"append", "store"}
    BY <1>7 DEF NoMatch, LoadFont, AppendRead, Goto, histVars
  <2>2. \A v \in Users : Adding(v)' <=> Adding(v) BY <2>1, Others DEF Same, Adding
  <2> QED BY <1>2, <2>1, <2>2
<1>8. CASE NewText(u) \/ Torn(u)
  BY <1>2, <1>8 DEF NewText, Torn, userVars, histVars, Adding
<1>9. ASSUME NEW q, Ask(u, q) PROVE Settled(r)'
  <2>1. pc[u] = "idle" /\ pc'[u] = "search" /\ UNCHANGED <<font, chosen>>
    BY <1>9 DEF Ask, Goto
  <2>2. \A v \in Users : Adding(v)' <=> Adding(v) BY <2>1, Others DEF Same, Adding
  <2>3. \A v \in Users : Adding(v) => rune'[v] = rune[v] /\ font'[v] = font[v]
    BY <2>1, Others DEF Same, Adding
  <2> QED BY <1>1, <2>1, <2>2, <2>3, SettledSame
<1> QED BY <1>4, <1>5, <1>6, <1>7, <1>8, <1>9 DEF fontFor, NextRune, Call

(* A font is cached, and will be appended.                                 *)
LEMMA SettledFound ==
  ASSUME TypeOK, TextInv, KnownInv, CacheInv, AloneInv, ~raced,
         NEW u \in Users, PutFound(u), NEW r \in Runes, ~Exempt(r), Settled(r)
  PROVE  Settled(r)'
<1> USE TypeFacts
<1>1. /\ pc[u] = "put" /\ pc' = [pc EXCEPT ![u] = "append"] /\ Put(rune[u], font[u])
      /\ UNCHANGED <<Fallback, rune, font, chosen>>
  BY DEF PutFound, Goto, histVars
<1>2. Having(r)' = Having(r) BY <1>1 DEF Having
<1>3. \A v \in Users : Adding(v)' <=> Adding(v) \/ v = u BY <1>1 DEF Adding
<1>4. CASE r = rune[u]
  <2>1. Having(r) = {} /\ ~Has(Primary, r) /\ font[u] # NoFont
    BY <1>1, <1>4, Fonts DEF AloneInv, KnownInv, Known
  <2>2. \A v \in Users : pc[v] \in {"put", "append", "store"} /\ rune[v] = r => font[v] = font[u]
    BY <1>1, <1>4, SameFont
  <2>3. r \in DOMAIN fb => fb[r] = font[u]
    <3>1. r \in DOMAIN fb => fb[r] # NoFont
      BY <1>1, <1>4, NobodyAdds DEF CacheInv
    <3> QED BY <2>1, <2>2, <3>1 DEF Settled, Adding
  <2>4. r \in DOMAIN fb' /\ fb'[r] = font[u] BY <1>1, <1>4 DEF Put
  <2>5. chosen'[r] \subseteq Answers(r)'
    <3>1. chosen[r] \subseteq {f \in AllFonts : r \in DOMAIN fb /\ f = IF fb[r] = NoFont THEN Primary ELSE fb[r]}
      BY <2>1, Zenon DEF Settled, Answers
    <3>2. \A f \in chosen[r] : f \in AllFonts /\ f = font[u] BY <2>1, <2>3, <3>1
    <3>3. Answers(r)' = {f \in AllFonts : r \in DOMAIN fb' /\ f = IF fb'[r] = NoFont THEN Primary ELSE fb'[r]}
      BY <1>2, <2>1, Zenon DEF Answers
    <3> QED BY <1>1, <2>1, <2>4, <3>2, <3>3
  <2>6. \A v \in Users : Adding(v)' /\ rune'[v] = r => font'[v] = font[u]
    BY <1>1, <1>3, <2>2 DEF Adding
  <2>7. Adding(u)' /\ rune'[u] = r /\ font'[u] = fb'[r] BY <1>1, <1>3, <1>4, <2>4
  <2> QED BY <1>1, <2>1, <2>4, <2>5, <2>6, <2>7 DEF Settled
<1>5. CASE r # rune[u]
  <2>1. (r \in DOMAIN fb' <=> r \in DOMAIN fb) /\ (r \in DOMAIN fb => fb'[r] = fb[r])
    BY <1>1, <1>5 DEF Put
  <2>2. Answers(r)' = Answers(r) BY <1>1, <2>1, AnswersOther
  <2>3. \A v \in Users : rune[v] = r => (Adding(v)' <=> Adding(v)) BY <1>3, <1>5
  <2> QED BY <1>1, <1>2, <2>1, <2>2, <2>3 DEF Settled
<1> QED BY <1>4, <1>5

(* No font has been found, and that is cached.                             *)
LEMMA SettledNil ==
  ASSUME TypeOK, TextInv, KnownInv, CacheInv, AloneInv, ~raced,
         NEW u \in Users, PutNil(u), NEW r \in Runes, ~Exempt(r), Settled(r)
  PROVE  Settled(r)'
<1> USE TypeFacts
<1>1. pc[u] = "putnil" /\ Put(rune[u], NoFont) /\ UNCHANGED Fallback BY DEF PutNil
<1>2. Returned(u, Primary) /\ \A v \in Users : v # u => Same(v) BY ReturnFacts DEF PutNil
<1>3. Having(r)' = Having(r) BY <1>1 DEF Having
<1>4. \A v \in Users : (Adding(v)' <=> Adding(v)) /\ (Adding(v) => rune'[v] = rune[v] /\ font'[v] = font[v])
  BY <1>1, <1>2 DEF Adding, Returned, Same
<1>5. CASE r = rune[u]
  <2>1. Having(r) = {} /\ ~Has(Primary, r) /\ Unserved(r)
    BY <1>1, <1>5 DEF AloneInv, KnownInv, Known
  <2>2. \A v \in Users : rune[v] = r => ~Adding(v) BY <2>1, NobodyAdds DEF Adding
  <2>3. r \in DOMAIN fb' /\ fb'[r] = NoFont BY <1>1, <1>5 DEF Put
  <2>4. chosen[r] \subseteq {Primary}
    <3>1. chosen[r] \subseteq {f \in AllFonts : r \in DOMAIN fb /\ f = IF fb[r] = NoFont THEN Primary ELSE fb[r]}
      BY <2>1, Zenon DEF Settled, Answers
    <3>2. r \in DOMAIN fb => fb[r] = NoFont BY <2>1, <2>2 DEF Settled
    <3> QED BY <3>1, <3>2
  <2>5. chosen'[r] = chosen[r] \cup {Primary} BY <1>2, <1>5 DEF Returned
  <2>6. chosen'[r] \subseteq Answers(r)'
    <3>1. Answers(r)' = {f \in AllFonts : r \in DOMAIN fb' /\ f = IF fb'[r] = NoFont THEN Primary ELSE fb'[r]}
      BY <1>3, <2>1, Zenon DEF Answers
    <3> QED BY <2>3, <2>4, <2>5, <3>1, Fonts
  <2>7. \A v \in Users : Adding(v)' => rune'[v] # r BY <1>4, <2>2
  <2> QED BY <1>3, <2>1, <2>3, <2>5, <2>6, <2>7 DEF Settled
<1>6. CASE r # rune[u]
  <2>1. (r \in DOMAIN fb' <=> r \in DOMAIN fb) /\ (r \in DOMAIN fb => fb'[r] = fb[r])
    BY <1>1, <1>6 DEF Put
  <2>2. Answers(r)' = Answers(r) BY <1>1, <2>1, AnswersOther
  <2>3. chosen'[r] = chosen[r] BY <1>2, <1>6 DEF Returned
  <2> QED BY ZenonT(30), <1>3, <1>4, <2>1, <2>2, <2>3 DEF Settled
<1> QED BY <1>5, <1>6

(* The places of a list that has grown by one.                             *)
LEMMA OneMore == \A n \in Nat : \A i \in 1 .. n + 1 : i \in 1 .. n \/ i = n + 1
OBVIOUS

(* A font is appended, while the others idle.                              *)
LEMMA SettledStore ==
  ASSUME TypeOK, TextInv, KnownInv, CacheInv, AloneInv,
         NEW u \in Users, AppendStore(u), ~raced', NEW r \in Runes, ~Exempt(r), Settled(r)
  PROVE  Settled(r)'
<1> USE TypeFacts
<1>1. /\ Fallback' = Append(Fallback, font[u]) /\ Returned(u, font[u])
      /\ \A v \in Users : v # u => pc[v] = "idle"
      /\ pc[u] = "store" /\ Having(rune[u]) = {} /\ Has(font[u], rune[u])
      /\ font[u] \in AllFonts /\ font[u] \in parsed /\ font[u] # NoFont
      /\ pos[u] \in DOMAIN DB /\ font[u] = DB[pos[u]] /\ ~Has(Primary, rune[u])
      /\ fb' = fb
  BY StoreFacts
<1>2. \A v \in Users : ~Adding(v)'
  <2>1. \A v \in Users : v # u => Same(v) BY <1>1, ReturnFacts DEF AppendStore
  <2> QED BY <1>1, <2>1 DEF Adding, Same, Returned
<1>3. /\ r = rune[u] => chosen'[r] = chosen[r] \cup {font[u]}
      /\ r # rune[u] => chosen'[r] = chosen[r]
  BY <1>1 DEF Returned
<1>4. PICK n \in Nat : n = Len(Fallback) OBVIOUS
<1>5. /\ DOMAIN Fallback = 1 .. n /\ DOMAIN Fallback' = 1 .. n + 1
      /\ \A i \in 1 .. n : Fallback'[i] = Fallback[i]
      /\ Fallback'[n + 1] = font[u]
  BY <1>1, <1>4
<1>6. Having(r) \subseteq 1 .. n BY <1>5 DEF Having
<1>7. CASE Has(Primary, r)
  <2>1. r \notin DOMAIN fb /\ r # rune[u] BY <1>1, <1>7 DEF CacheInv
  <2>2. Answers(r) = {Primary} /\ Answers(r)' = {Primary} BY <1>7 DEF Answers
  <2> QED BY <1>1, <1>2, <1>3, <2>1, <2>2 DEF Settled
<1>8. CASE ~Has(Primary, r) /\ Having(r) # {}
  <2>1. r # rune[u] BY <1>1, <1>8
  <2>2. Having(r) \subseteq Having(r)' /\ Having(r)' \subseteq Having(r) \cup {n + 1}
    BY <1>5 DEF Having
  <2>3. First(Having(r))' = First(Having(r))
    <3>1. PICK i \in Having(r) : TRUE BY <1>8
    <3>2. \A j \in Having(r) : j < n + 1 BY <1>6
    <3> QED BY <1>6, <2>2, <3>1, <3>2 DEF First
  <2>4. First(Having(r)) \subseteq 1 .. n BY <1>6 DEF First
  <2>5. {Fallback'[i] : i \in First(Having(r))'} = {Fallback[i] : i \in First(Having(r))}
    BY <1>5, <2>3, <2>4
  <2>6. Answers(r) = {Fallback[i] : i \in First(Having(r))} BY <1>8, Zenon DEF Answers
  <2>7. Having(r)' # {} BY <1>8, <2>2
  <2>8. Answers(r)' = {Fallback'[i] : i \in First(Having(r))'}
    BY <1>8, <2>7, Zenon DEF Answers
  <2>9. chosen'[r] \subseteq Answers(r)' BY <1>3, <2>1, <2>5, <2>6, <2>8 DEF Settled
  <2> QED BY <1>1, <1>2, <1>8, <2>7, <2>9 DEF Settled
<1>9. CASE ~Has(Primary, r) /\ Having(r) = {} /\ Has(font[u], r)
  <2>1. r \in DOMAIN fb => fb[r] # NoFont
    <3>1. PICK f \in parsed, i \in DOMAIN DB : f = font[u] /\ i = pos[u] BY <1>1
    <3> QED BY <1>1, <1>9, <3>1, NoFontLeft DEF CacheInv
  <2>2. r \in DOMAIN fb => fb[r] = font[u]
    BY <1>1, <1>9, <2>1 DEF Settled, Adding
  <2>3. chosen[r] \subseteq {font[u]}
    <3>1. chosen[r] \subseteq {f \in AllFonts : r \in DOMAIN fb /\ f = IF fb[r] = NoFont THEN Primary ELSE fb[r]}
      BY <1>9, Zenon DEF Settled, Answers
    <3> QED BY <1>1, <2>2, <3>1
  <2>4. Having(r)' = {n + 1}
    <3>1. \A i \in 1 .. n : ~Has(Fallback[i], r) BY <1>5, <1>9 DEF Having
    <3>2. \A i \in 1 .. n + 1 : i \in 1 .. n \/ i = n + 1 BY OneMore
    <3> QED BY <1>4, <1>5, <1>9, <3>1, <3>2 DEF Having
  <2>5. First(Having(r))' = {n + 1} BY <1>4, <2>4 DEF First
  <2>6. Answers(r)' = {Fallback'[i] : i \in First(Having(r))'}
    BY <1>9, <2>4, Zenon DEF Answers
  <2>7. Answers(r)' = {font[u]} BY <1>5, <2>5, <2>6
  <2>8. chosen'[r] \subseteq Answers(r)' BY <1>3, <2>3, <2>7
  <2> QED BY <1>1, <1>2, <2>1, <2>4, <2>8 DEF Settled
<1>10. CASE ~Has(Primary, r) /\ Having(r) = {} /\ ~Has(font[u], r)
  <2>1. r # rune[u] BY <1>1, <1>10
  <2>2. Having(r)' = {}
    <3>1. \A i \in 1 .. n : ~Has(Fallback[i], r) BY <1>5, <1>10 DEF Having
    <3>2. \A i \in 1 .. n + 1 : i \in 1 .. n \/ i = n + 1 BY OneMore
    <3> QED BY <1>5, <1>10, <3>1, <3>2 DEF Having
  <2>3. Answers(r) = {f \in AllFonts : r \in DOMAIN fb /\ f = IF fb[r] = NoFont THEN Primary ELSE fb[r]}
    BY <1>10, Zenon DEF Answers
  <2>4. Answers(r)' = {f \in AllFonts : r \in DOMAIN fb' /\ f = IF fb'[r] = NoFont THEN Primary ELSE fb'[r]}
    BY <1>10, <2>2, Zenon DEF Answers
  <2>5. chosen'[r] \subseteq Answers(r)' BY <1>1, <1>3, <2>1, <2>3, <2>4 DEF Settled
  <2>6. ~(r \in DOMAIN fb /\ fb[r] # NoFont) BY <1>1, <1>10, <2>1 DEF Settled, Adding
  <2>7. r \in DOMAIN fb /\ fb[r] = NoFont => chosen'[r] # {} BY <1>3, <2>1 DEF Settled
  <2> QED BY <1>1, <1>2, <2>2, <2>5, <2>6, <2>7 DEF Settled
<1> QED BY <1>7, <1>8, <1>9, <1>10

(* The application adds a font before anything has been looked for.        *)
LEMMA SettledAdd ==
  ASSUME TypeOK, TextInv, NEW f \in Manual, AddFallback(f), ~late', NEW r \in Runes, Settled(r)
  PROVE  Settled(r)'
<1> USE TypeFacts
<1>1. /\ chosen[r] = {} /\ UNCHANGED <<fb, pc, chosen>> /\ \A u \in Users : pc[u] = "idle"
      /\ Fallback' = Append(Fallback, f)
  BY DEF AddFallback, Busy, userVars
<1>2. \A u \in Users : ~Adding(u) /\ ~Adding(u)' BY <1>1 DEF Adding
<1>3. ~(r \in DOMAIN fb /\ fb[r] = NoFont) BY <1>1 DEF Settled
<1>4. Having(r)' = {} => Having(r) = {}
  <2>1. f \in AllFonts \ NoFace BY Fonts
  <2>2. DOMAIN Fallback \subseteq DOMAIN Fallback' /\ \A i \in DOMAIN Fallback : Fallback'[i] = Fallback[i]
    BY <1>1, <2>1
  <2> QED BY <2>2 DEF Having
<1>5. Having(r)' = {} => ~(r \in DOMAIN fb /\ fb[r] # NoFont) BY <1>2, <1>4 DEF Settled
<1> QED BY <1>1, <1>2, <1>3, <1>5 DEF Settled

(* Every step keeps what has been answered.                                *)
LEMMA SettledStep ==
  ASSUME TypeOK, TextInv, KnownInv, CacheInv, AloneInv, SettledInv, [Next]_vars
  PROVE  SettledInv'
<1> SUFFICES ASSUME ~raced', ~late', NEW r \in Runes, ~Exempt(r)
             PROVE  Settled(r)'
  BY StillExempt DEF SettledInv
<1>1. CASE UNCHANGED <<Fallback, fb, pc, rune, font, chosen, raced, late>>
  <2>1. Settled(r) BY <1>1 DEF SettledInv
  <2>2. \A v \in Users : (Adding(v)' <=> Adding(v)) BY <1>1 DEF Adding
  <2>3. chosen[r] \subseteq chosen'[r] /\ chosen'[r] \subseteq chosen[r] \cup Answers(r) BY <1>1
  <2> QED BY <1>1, <2>1, <2>2, <2>3, SettledSame
<1>2. ASSUME NEW u \in Users, fontFor(u) PROVE Settled(r)'
  <2>1. ~raced /\ ~late
    BY <1>2, ListFacts, StoreFacts
  <2>2. Settled(r) BY <2>1 DEF SettledInv
  <2> QED BY <1>2, <2>1, <2>2, SettledQuiet, SettledFound, SettledNil, SettledStore
<1>3. ASSUME NEW f \in Manual, AddFallback(f) PROVE Settled(r)'
  <2>1. ~raced /\ ~late BY <1>3 DEF AddFallback, TypeOK
  <2>2. Settled(r) BY <2>1 DEF SettledInv
  <2> QED BY <1>3, <2>2, SettledAdd
<1> QED BY <1>1, <1>2, <1>3 DEF Next, Uninstall, Reinstall, vars, setVars, userVars, histVars

-----------------------------------------------------------------------------
(* The theorems.                                                           *)

(* The invariant holds at first.                                           *)
LEMMA InvInit == Init => SInv
<1> SUFFICES ASSUME Init PROVE SInv OBVIOUS
<1>1. \A r, f : Known("idle", r, 1, f) BY Fonts DEF Known, NoneBefore
<1>2. PICK r \in Runes : r = CHOOSE q \in Runes : TRUE
  <2>1. Ellipsis[1] \in Runes BY TextAssumption
  <2> QED BY <2>1
<1>3. TypeOK
  <2>1. rune \in [Users -> Runes] BY <1>2 DEF Init
  <2>2. Fallback \in Seq(AllFonts \ NoFace) /\ old \in [Users -> Seq(AllFonts \ NoFace)]
    BY DEF Init
  <2>3. 1 \in 1 .. Len(DB) + 1 BY Fonts
  <2>4. DOMAIN fb \subseteq Runes /\ \A q \in DOMAIN fb : fb[q] \in AllFonts \cup {NoFont}
    BY DEF Init
  <2>5. parsed \subseteq AllFonts /\ gone \subseteq AllFonts BY Fonts DEF Init
  <2>6. chosen \in [Runes -> SUBSET AllFonts] /\ failed \in [Runes -> SUBSET AllFonts] BY DEF Init
  <2>7. calls \in 0 .. MaxCalls /\ texts \in 0 .. MaxTexts BY DEF Init
  <2>8. /\ pc \in [Users -> {"idle", "search", "cache", "match", "face", "put", "putnil",
                            "append", "store"}]
        /\ pos \in [Users -> 1 .. Len(DB) + 1] /\ font \in [Users -> AllFonts \cup {NoFont}]
    BY <2>3 DEF Init
  <2>9. \A u \in Users : text[u] = NoText BY DEF Init
  <2>10. crashed \in BOOLEAN /\ late \in BOOLEAN /\ raced \in BOOLEAN BY DEF Init
  <2> QED BY <2>1, <2>2, <2>4, <2>5, <2>6, <2>7, <2>8, <2>9, <2>10 DEF TypeOK
<1>4. TextInv BY DEF Init, TextInv, Busy
<1>5. KnownInv BY <1>1 DEF Init, KnownInv
<1>6. CacheInv /\ AloneInv /\ NoDuplicates BY DEF Init, CacheInv, AloneInv, NoDuplicates
<1>7. SettledInv BY DEF Init, SettledInv, Settled, Adding
<1> QED BY <1>3, <1>4, <1>5, <1>6, <1>7 DEF SInv

(* Every reachable state satisfies the inductive invariant: each goroutine *)
(* knows what its place in fontFor tells, and the answers it has had are   *)
(* what the list and the cache of the FontSet hold.                        *)
THEOREM Invariant == Spec => []SInv
<1>1. SInv /\ [Next]_vars => SInv'
  BY TypeStep, KnownStep, CacheStep, AloneStep, SettledStep, OnceStep DEF SInv
<1> QED BY <1>1, InvInit, PTL DEF Spec

(* Every variable holds a value of its kind.                               *)
THEOREM Types == Spec => []TypeOK
<1>1. SInv => TypeOK BY DEF SInv
<1> QED BY <1>1, Invariant, PTL

(* fontFor always gives a rune the font it gave it first, as long as one   *)
(* goroutine uses the set, AddFallback comes before it, and no font with   *)
(* the rune is refused by NewFace or loads after it failed to.             *)
THEOREM OneAnswer == Spec => []StableChoice
<1>1. SInv => StableChoice
  <2> SUFFICES ASSUME SInv, ~late, ~raced, NEW r \in Runes, ~Exempt(r)
               PROVE  Cardinality(chosen[r]) <= 1
    BY DEF StableChoice, Exempt
  <2>1. chosen[r] \subseteq Answers(r) BY DEF SInv, SettledInv, Settled
  <2>2. \A f, g \in Answers(r) : f = g
    <3>1. Having(r) \subseteq Nat BY DEF SInv, TypeOK, Having
    <3>2. \A i, j \in First(Having(r)) : i = j BY <3>1 DEF First
    <3> QED BY <3>2 DEF Answers
  <2>3. CASE chosen[r] = {} BY <2>3, FS_EmptySet
  <2>4. CASE chosen[r] # {}
    <3>1. PICK f \in chosen[r] : TRUE BY <2>4
    <3>2. chosen[r] = {f} BY <2>1, <2>2, <3>1
    <3>3. Cardinality({f}) = 1 BY FS_Singleton
    <3> QED BY <3>2, <3>3
  <2> QED BY <2>3, <2>4
<1> QED BY <1>1, Invariant, PTL

(* A rune is settled on the primary font, which lacks it, only after every *)
(* font of the database that has it failed to load, each at the moment it  *)
(* was tried, or after NewFace refused one.                                *)
THEOREM NothingBetter == Spec => []BestCoverage
<1>1. SInv => BestCoverage
  <2> SUFFICES ASSUME SInv, NEW r \in DOMAIN fb, fb[r] = NoFont,
                      ~\A i \in DOMAIN DB : Has(DB[i], r) => DB[i] \in failed[r]
               PROVE  \E i \in DOMAIN DB : Has(DB[i], r) /\ DB[i] \in NoFace \cap parsed
    BY DEF BestCoverage
  <2>1. Unserved(r) BY DEF SInv, CacheInv
  <2>2. ~NoneBefore(r, Len(DB) + 1) BY Fonts DEF NoneBefore
  <2> QED BY <2>1, <2>2 DEF Unserved, Refusal
<1> QED BY <1>1, Invariant, PTL

(* Drawing text appends a font of the database to the list once.           *)
THEOREM ListOnce == Spec => []NoDuplicates
<1>1. SInv => NoDuplicates BY DEF SInv
<1> QED BY <1>1, Invariant, PTL

=============================================================================
