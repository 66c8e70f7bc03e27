------------------------------ MODULE FontSet ------------------------------
(***************************************************************************)
(* Glyph fallback in package drw: goroutines that measure and draw through *)
(* one FontSet, which looks for a rune in the primary font, in the list of *)
(* fallbacks, in a cache, and at last in the whole font database, and adds *)
(* what it finds there to the list.  The cache is locked, the list is not. *)
(*                                                                         *)
(* A sized Font is named by its fontcfg.FontInfo; which runes a font has   *)
(* never changes.  Some goroutines draw whole strings with Text, others    *)
(* measure single runes.                                                   *)
(*                                                                         *)
(* A definition X_Y stands before X and is X with a plausible mistake Y;   *)
(* nothing uses it: it shows that the properties would notice.             *)
(***************************************************************************)
EXTENDS Text, FiniteSets

CONSTANTS
  Users,     (* goroutines that call fontFor                               *)
  Drawers,   (* those of them that draw with Text                          *)
  Strings,   (* what they draw                                             *)
  Fields,    (* the widths and paddings they draw it with                  *)
  Runes,
  DB,        (* the font database, in the order it is searched             *)
  Primary,   (* the primary font                                           *)
  Manual,    (* fonts given to AddFallback                                 *)
  MaxManual, (* bound: such fonts in the list                              *)
  Covers,    (* the runes each font has                                    *)
  NoFace,    (* fonts that opentype.NewFace refuses                        *)
  Fickle,    (* bound: fonts whose files come and go                       *)
  MaxCalls,  (* bound: runes measured by the others                        *)
  MaxTexts,  (* bound: texts drawn                                         *)
  NoFont     (* the nil *Font                                              *)

AllFonts == {DB[i] : i \in DOMAIN DB} \cup {Primary} \cup Manual

ASSUME FontSetAssumption ==
  /\ DB \in Seq(AllFonts) /\ Covers \in [AllFonts -> SUBSET Runes]
  /\ NoFace \subseteq AllFonts \ ({Primary} \cup Manual) /\ Primary \notin Manual
  /\ Fickle \subseteq AllFonts
  /\ Drawers \subseteq Users /\ Ellipsis \in Seq(Runes)
  /\ Strings \subseteq Seq(Runes) \ {<<>>} /\ Advance \in [AllFonts -> Nat]
  /\ Fields \subseteq [w : Nat, lpad : Nat]
  /\ MaxCalls \in Nat /\ MaxTexts \in Nat /\ MaxManual \in Nat /\ NoFont \notin AllFonts

VARIABLES
  Fallback,  (* fs.Fallback                                                *)
  fb,        (* fs.fb, a partial function                                  *)
  parsed,    (* fonts whose FontInfo holds a parsed sfnt.Font              *)
  gone,      (* fonts whose file cannot be read                            *)
  pc, rune,  (* where each goroutine stands, and the rune it asks about    *)
  pos,       (* its place in the database                                  *)
  font,      (* the font it has found                                      *)
  old,       (* the list it is about to append to                          *)
  text,      (* the text it draws                                          *)
  crashed,   (* a torn slice was read                                      *)
  (* histories *)
  calls, texts,
  chosen,    (* what fontFor has returned for each rune                    *)
  failed,    (* the fonts that did not load when each rune was looked for  *)
  late,      (* AddFallback was called after fontFor                       *)
  raced      (* the list changed under another call of fontFor             *)

setVars == <<Fallback, fb>>
infoVars == <<parsed, gone>>
userVars == <<pc, rune, pos, font, old, text>>
histVars == <<calls, texts, chosen, failed, late, raced>>
vars == <<setVars, infoVars, userVars, crashed, histVars>>

Init ==
  /\ Fallback = <<>> /\ fb = <<>> /\ gone = {}
  /\ parsed = {Primary} \cup Manual
  /\ pc = [u \in Users |-> "idle"] /\ rune \in [Users -> {CHOOSE r \in Runes : TRUE}]
  /\ pos = [u \in Users |-> 1] /\ font = [u \in Users |-> NoFont]
  /\ old = [u \in Users |-> <<>>] /\ text = [u \in Users |-> NoText] /\ crashed = FALSE
  /\ calls = 0 /\ texts = 0 /\ late = FALSE /\ raced = FALSE
  /\ chosen = [r \in Runes |-> {}] /\ failed = [r \in Runes |-> {}]

Goto(u, l) == pc' = [pc EXCEPT ![u] = l]

(* fontFor returns f to u, which goes on with its text.                    *)
Return(u, f) ==
  /\ chosen' = [chosen EXCEPT ![rune[u]] = @ \cup {f}]
  /\ text' = IF u \in Drawers THEN [text EXCEPT ![u] = Step(@, f)] ELSE text
  /\ Goto(u, "idle")
  /\ pos' = [pos EXCEPT ![u] = 1] /\ font' = [font EXCEPT ![u] = NoFont]
  /\ old' = [old EXCEPT ![u] = <<>>]
  /\ UNCHANGED <<rune, calls, texts, failed, late>>

-----------------------------------------------------------------------------
(* fontFor.                                                                *)

Has(f, r) == r \in Covers[f]

Ask(u, r) ==
  /\ pc[u] = "idle"
  /\ rune' = [rune EXCEPT ![u] = r]
  /\ Goto(u, "search")
  /\ UNCHANGED <<setVars, infoVars, pos, font, old, crashed, chosen, failed, late, raced>>

(* A rune of a string that is measured.                                    *)
Call(u, r) ==
  /\ calls < MaxCalls /\ calls' = calls + 1
  /\ Ask(u, r) /\ UNCHANGED <<text, texts>>

Drawing(u) == text[u] # NoText /\ text[u].phase # "done"

(* Text is called, and asks for the font of each rune in turn.             *)
NewText(u) ==
  /\ ~Drawing(u) /\ texts < MaxTexts /\ texts' = texts + 1
  /\ \E s \in Strings, field \in Fields :
       text' = [text EXCEPT ![u] = IF Empty(field.w, field.lpad) THEN NoText
                                   ELSE Text(s, field.w, field.lpad)]
  /\ UNCHANGED <<setVars, infoVars, pc, rune, pos, font, old, crashed, calls,
                 chosen, failed, late, raced>>

NextRune(u) ==
  /\ Drawing(u) /\ Ask(u, Head(text[u].todo))
  /\ UNCHANGED <<text, calls, texts>>

(* The fallbacks that have r.                                              *)
Having_Never(r) == {}
Having(r) == {i \in DOMAIN Fallback : Has(Fallback[i], r)}

First_Newest(I) == {i \in I : \A j \in I : j <= i}
First(I) == {i \in I : \A j \in I : i <= j}

(* The primary font, then the fallbacks in their order.                    *)
Search(u) ==
  LET r == rune[u] IN
  /\ pc[u] = "search"
  /\ IF Has(Primary, r) THEN Return(u, Primary)
     ELSE IF Having(r) # {} THEN \E i \in First(Having(r)) : Return(u, Fallback[i])
     ELSE Goto(u, "cache") /\ UNCHANGED <<rune, pos, font, old, text, histVars>>
  /\ UNCHANGED <<setVars, infoVars, crashed, raced>>

CacheCheck(u) ==
  LET r == rune[u] IN
  /\ pc[u] = "cache"
  /\ IF r \in DOMAIN fb
     THEN Return(u, IF fb[r] = NoFont THEN Primary ELSE fb[r])
     ELSE Goto(u, "match") /\ UNCHANGED <<rune, pos, font, old, text, histVars>>
  /\ UNCHANGED <<setVars, infoVars, crashed, raced>>

(* FontInfo.Load succeeds.                                                 *)
Loads(f) == f \in parsed \/ f \notin gone

PassOn_GivesUp == "putnil"
PassOn == "match"    (* a font that does not load is passed over           *)

(* MatchForRune tries one font of the database.                            *)
MatchForRune(u) ==
  LET f == DB[pos[u]] IN
  /\ pc[u] = "match" /\ pos[u] <= Len(DB)
  /\ \/ /\ ~Loads(f)
        /\ Goto(u, PassOn) /\ pos' = [pos EXCEPT ![u] = @ + 1]
        /\ failed' = [failed EXCEPT ![rune[u]] = @ \cup {f}]
        /\ UNCHANGED <<parsed, font>>
     \/ /\ Loads(f) /\ parsed' = parsed \cup {f} /\ UNCHANGED failed
        /\ IF Has(f, rune[u])
           THEN Goto(u, "face") /\ font' = [font EXCEPT ![u] = f] /\ UNCHANGED pos
           ELSE pos' = [pos EXCEPT ![u] = @ + 1] /\ UNCHANGED <<pc, font>>
  /\ UNCHANGED <<setVars, gone, rune, old, text, crashed, calls, texts, chosen, late, raced>>

NoMatch(u) ==
  /\ pc[u] = "match" /\ pos[u] > Len(DB)
  /\ Goto(u, "putnil")
  /\ UNCHANGED <<setVars, infoVars, rune, pos, font, old, text, crashed, histVars>>

Refused_Unchecked(f) == FALSE
Refused(f) == f \in NoFace

LoadFont(u) ==
  /\ pc[u] = "face"
  /\ Goto(u, IF Refused(font[u]) THEN "putnil" ELSE "put")
  /\ UNCHANGED <<setVars, infoVars, rune, pos, font, old, text, crashed, histVars>>

Put(r, f) == fb' = [q \in DOMAIN fb \cup {r} |-> IF q = r THEN f ELSE fb[q]]

PutFound(u) ==
  /\ pc[u] = "put"
  /\ Put(rune[u], font[u])
  /\ Goto(u, "append")
  /\ UNCHANGED <<Fallback, infoVars, rune, pos, font, old, text, crashed, histVars>>

PutNil(u) ==
  /\ pc[u] = "putnil"
  /\ Put(rune[u], NoFont)
  /\ Return(u, Primary)
  /\ UNCHANGED <<Fallback, infoVars, crashed, raced>>

(* append reads the list and writes it back: two appends may lose one.     *)
AppendRead(u) ==
  /\ pc[u] = "append"
  /\ old' = [old EXCEPT ![u] = Fallback]
  /\ Goto(u, "store")
  /\ UNCHANGED <<setVars, infoVars, rune, pos, font, text, crashed, histVars>>

Busy(u) == pc[u] # "idle"

AppendStore(u) ==
  /\ pc[u] = "store"
  /\ Fallback' = Append(old[u], font[u])
  /\ raced' = (raced \/ \E v \in Users \ {u} : Busy(v))
  /\ Return(u, font[u])
  /\ UNCHANGED <<fb, infoVars, crashed>>

(* A slice header is three words: read while it is written, it may join an *)
(* old array and a new length.                                             *)
Torn(u) ==
  /\ pc[u] \in {"search", "append"} /\ \E v \in Users \ {u} : pc[v] = "store"
  /\ crashed' = TRUE
  /\ UNCHANGED <<setVars, infoVars, userVars, histVars>>

(* The application adds a font of its own, between frames, as often as it  *)
(* likes.                                                                  *)
AddFallback(f) ==
  /\ \A u \in Users : ~Busy(u) /\ ~Drawing(u)
  /\ Cardinality({i \in DOMAIN Fallback : Fallback[i] \in Manual}) < MaxManual
  /\ Fallback' = Append(Fallback, f)
  /\ late' = (late \/ \E r \in Runes : chosen[r] # {})
  /\ UNCHANGED <<fb, infoVars, userVars, crashed, calls, texts, chosen, failed, raced>>

(* A font is uninstalled, or cannot be opened for a time: what is parsed   *)
(* stays parsed, so that only what is not parsed yet makes a difference.   *)
Uninstall(f) ==
  /\ f \notin gone \cup parsed /\ gone' = gone \cup {f}
  /\ UNCHANGED <<setVars, parsed, userVars, crashed, histVars>>

(* It is there again, and FontInfo.Load, which tries anew each time, will  *)
(* succeed.                                                                *)
Reinstall(f) ==
  /\ f \in gone /\ gone' = gone \ {f}
  /\ UNCHANGED <<setVars, parsed, userVars, crashed, histVars>>

fontFor(u) ==
  \/ u \in Drawers /\ (NewText(u) \/ NextRune(u))
  \/ u \notin Drawers /\ \E r \in Runes : Call(u, r)
  \/ Search(u) \/ CacheCheck(u) \/ MatchForRune(u) \/ NoMatch(u) \/ LoadFont(u)
  \/ PutFound(u) \/ PutNil(u) \/ AppendRead(u) \/ AppendStore(u) \/ Torn(u)

Next ==
  /\ ~crashed
  /\ \/ \E u \in Users : fontFor(u)
     \/ \E f \in Manual : AddFallback(f)
     \/ \E f \in Fickle : Uninstall(f) \/ Reinstall(f)

Spec == Init /\ [][Next]_vars

-----------------------------------------------------------------------------
(* Properties.                                                             *)

(* Every variable holds a value of its kind.                               *)
TypeOK ==
  /\ Fallback \in Seq(AllFonts \ NoFace)
  /\ DOMAIN fb \subseteq Runes /\ \A r \in DOMAIN fb : fb[r] \in AllFonts \cup {NoFont}
  /\ parsed \subseteq AllFonts /\ gone \subseteq AllFonts
  /\ pc \in [Users -> {"idle", "search", "cache", "match", "face", "put", "putnil",
                       "append", "store"}]
  /\ rune \in [Users -> Runes] /\ pos \in [Users -> 1 .. Len(DB) + 1]
  /\ font \in [Users -> AllFonts \cup {NoFont}]
  /\ old \in [Users -> Seq(AllFonts \ NoFace)]
  /\ \A u \in Users : text[u] # NoText => Drawing(u) = (text[u].todo # <<>>)
  /\ calls \in 0 .. MaxCalls /\ texts \in 0 .. MaxTexts /\ chosen \in [Runes -> SUBSET AllFonts]
  /\ failed \in [Runes -> SUBSET AllFonts]
  /\ crashed \in BOOLEAN /\ late \in BOOLEAN /\ raced \in BOOLEAN

(* A string is drawn with the fonts it was measured with: fontFor always   *)
(* gives a rune the font it gave it first, though the list it searches     *)
(* grows with other runes.  Four things can change the answer: AddFallback *)
(* after the first call, two goroutines that share the set, a font with    *)
(* the rune that NewFace refuses, and one that did not load when the rune  *)
(* was looked for and has been loaded since, for another rune.             *)
Exempt(r) == \E f \in AllFonts : Has(f, r) /\ (f \in NoFace \/ f \in failed[r] \cap parsed)
StableChoice ==
  ~late /\ ~raced => \A r \in Runes : Cardinality(chosen[r]) <= 1 \/ Exempt(r)

(* A rune is settled on the primary font without a glyph for it only after *)
(* every font of the database that has it failed to load when it was       *)
(* looked for, or after NewFace refused one that has it.  No more is true: *)
(* the nil is kept for good, though such a font may be readable again.     *)
BestCoverage ==
  \A r \in DOMAIN fb : fb[r] = NoFont =>
    \/ \A i \in DOMAIN DB : Has(DB[i], r) => DB[i] \in failed[r]
    \/ \E i \in DOMAIN DB : Has(DB[i], r) /\ DB[i] \in NoFace \cap parsed

(* The list does not grow with the text that is shown: fontFor appends a   *)
(* font only once, unless two goroutines share the set.                    *)
NoDuplicates ==
  ~raced => \A i, j \in DOMAIN Fallback :
    Fallback[i] = Fallback[j] => i = j \/ Fallback[i] \in Manual

(* What Text draws stays inside its field, although the fonts are looked   *)
(* for once to measure and again to draw: a string that fits is drawn      *)
(* whole, of another the longest part that fits together with the          *)
(* ellipsis; only the ellipsis itself may be wider than its field.  This   *)
(* needs the stable choice above.                                          *)
TextInField ==
  ~late /\ ~raced => \A u \in Users :
    LET t        == text[u]
        width[w \in Seq(Runes)] ==
          IF w = <<>> THEN 0
          ELSE Advance[CHOOSE f \in chosen[Head(w)] : TRUE] + width[Tail(w)]
        cut(i)   == SubSeq(t.s, 1, i) \o Ellipsis
        runes    == t.s \o Ellipsis
        exempt   == \E i \in DOMAIN runes : Exempt(runes[i])
    IN  t # NoText /\ ~Drawing(u) /\ ~exempt =>
          /\ t.pen = width[t.out]
          /\ IF width[t.s] <= t.inner THEN t.out = t.s
             ELSE \E i \in 0 .. Len(t.s) - 1 :
                    /\ t.out = cut(i)
                    /\ i > 0 => t.pen <= t.inner
                    /\ width[SubSeq(t.s, 1, i + 1)] + width[Ellipsis] > t.inner

=============================================================================
