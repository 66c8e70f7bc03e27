----------------------------- MODULE FontMatch -----------------------------
(***************************************************************************)
(* Choosing a font in package fontcfg: scan reads the name table of one    *)
(* file after another into a database, and Match answers patterns from it. *)
(* Match sorts the list of a family in place, and the list is the          *)
(* database's own: each answer may shape the next.                         *)
(*                                                                         *)
(* A name is a model of its text: the constants say what the code would    *)
(* find in it.  A file whose table cannot be read has no records.  A       *)
(* pattern is given cut at its colons and commas: families, then options   *)
(* [key, val], key "" for a bare word; its size is left out.               *)
(*                                                                         *)
(* A definition X_Y stands before X and is X with a plausible mistake Y;   *)
(* nothing uses it: it shows that the properties would notice.             *)
(***************************************************************************)
EXTENDS Naturals, Sequences, FiniteSets, Functions

CONSTANTS
  Files,            (* font files, in the order of the walk                *)
  Tables,           (* the name tables each may have: sequences of records *)
  Names,            (* family names, "" among them                         *)
  lower,            (* strings.ToLower                                     *)
  startsWith,       (* pairs <<k, key>> for which HasPrefix(k, key)        *)
  genericAliases,   (* alternatives for each lower-case name, mostly none  *)
  Bolds,            (* words with bold in them                             *)
  Italics, Obliques,
  fold,             (* a word in lower case: what strings.EqualFold equates *)
  Patterns,         (* patterns, as written                                *)
  MaxCalls,         (* bound: calls of Match                               *)
  NoFont            (* the nil *FontInfo                                   *)

AllFiles == {Files[i] : i \in DOMAIN Files}
Styles == SUBSET {"bold", "italic"}
Keys == {lower[n] : n \in Names}

ASSUME FontMatchAssumption ==
  /\ Files \in Seq(AllFiles) /\ IsInjective(Files)
  /\ NoFont \notin AllFiles /\ MaxCalls \in Nat
  /\ lower \in [Names -> Names] /\ \A k \in Keys : lower[k] = k
  /\ startsWith \subseteq Keys \X Keys /\ \A k \in Keys : <<k, k>> \in startsWith
  /\ genericAliases \in [Keys -> Seq(Names)]
  /\ \A f \in AllFiles : \A t \in Tables[f] :
       /\ t \in Seq({t[i] : i \in DOMAIN t})
       /\ \A i \in DOMAIN t : t[i].name = 1 => t[i].text \in Names
  /\ \A p \in Patterns : p.families \in Seq(Names) \ {<<>>}
  /\ \A p \in Patterns : \A o \in p.opts : o.val \in DOMAIN fold

VARIABLES
  table,     (* the name table of each file                                *)
  at,        (* the place of scan in its walk                              *)
  Fonts,     (* db.Fonts                                                   *)
  byFam,     (* db.byFam                                                   *)
  calls,
  last,      (* history: the last pattern and its answer                   *)
  answer     (* history: the last answer to each pattern, until a pattern  *)
             (* of another style is matched                                *)

dbVars == <<Fonts, byFam>>
vars == <<table, at, dbVars, calls, last, answer>>

Nothing == [p |-> [families |-> <<"">>, opts |-> {}], font |-> NoFont]

Init ==
  /\ table \in {t \in [AllFiles -> UNION {Tables[f] : f \in AllFiles}] :
                  \A f \in AllFiles : t[f] \in Tables[f]}
  /\ at = 1 /\ Fonts = <<>> /\ byFam = [k \in Keys |-> <<>>]
  /\ calls = 0 /\ last = Nothing /\ answer = [p \in Patterns |-> NoFont]

-----------------------------------------------------------------------------
(* readNameTable: of the usable records of a name, the first of the best   *)
(* platform and language.                                                  *)

Priority(r) ==
  CASE r.platform = 3 /\ r.lang = 1033 -> 4
    [] r.platform = 3 /\ r.lang # 1033 -> 3
    [] r.platform = 0 -> 2
    [] r.platform = 1 /\ r.lang = 0 -> 1
    [] OTHER -> 0

Usable(r, id) == r.name = id /\ r.fits

Better_OrEqual(r, best) == Priority(r) >= best
Better(r, best) == Priority(r) > best

(* The loop over the records t: the best so far, 0 if none.                *)
Best(t, id) ==
  LET best[n \in 0 .. Len(t)] ==
        IF n = 0 THEN 0
        ELSE LET b == best[n - 1] IN
             IF Usable(t[n], id) /\ (b = 0 \/ Better(t[n], Priority(t[b]))) THEN n ELSE b
  IN best[Len(t)]

TextOf(f, id) == LET b == Best(table[f], id) IN IF b = 0 THEN "" ELSE table[f][b].text

Family(f) == TextOf(f, 1)

(* weightFromSubfamily at 600 and above, slantFromSubfamily.               *)
Style(f) ==
  LET sub == TextOf(f, 2)
  IN  {s \in {"bold", "italic"} : sub \in IF s = "bold" THEN Bolds ELSE Italics \cup Obliques}

(* A family that is missing or does not decode leaves the file out.        *)
Accepted_AnyFound(f) == Best(table[f], 1) # 0
Accepted(f) == Family(f) # ""

Key_AsWritten(f) == Family(f)
Key(f) == lower[Family(f)]

scan ==
  LET f == Files[at] IN
  /\ at <= Len(Files) /\ at' = at + 1
  /\ IF Accepted(f)
     THEN /\ Fonts' = Append(Fonts, f)
          /\ byFam' = [byFam EXCEPT ![Key(f)] = Append(@, f)]
     ELSE UNCHANGED dbVars
  /\ UNCHANGED <<table, calls, last, answer>>

-----------------------------------------------------------------------------
(* ParsePattern: options only ever set a flag, so their order is nothing.  *)

saysBold(o) ==
  \/ o.key \in {"style", ""} /\ o.val \in Bolds
  \/ o.key = "weight" /\ fold[o.val] = "bold"
saysItalic(o) ==
  \/ o.key \in {"style", ""} /\ o.val \in Italics
  \/ o.key = "style" /\ o.val \in Obliques
  \/ o.key = "slant" /\ fold[o.val] \in {"italic", "oblique"}

ParsePattern(s) ==
  [family |-> Head(s.families),
   style  |-> {m \in {"bold", "italic"} :
                 \E o \in s.opts : IF m = "bold" THEN saysBold(o) ELSE saysItalic(o)}]

-----------------------------------------------------------------------------
(* Match.                                                                  *)

scoreStyle_BoldOnly(f, p) == Cardinality({s \in {"bold"} : (s \in Style(f)) # (s \in p.style)})
scoreStyle(f, p) ==
  Cardinality({s \in {"bold", "italic"} : (s \in Style(f)) # (s \in p.style)})

(* SliceStable: by score, and by place where the scores are equal.         *)
Before_Unstable(l, p, i, j) ==
  \/ scoreStyle(l[i], p) < scoreStyle(l[j], p)
  \/ scoreStyle(l[i], p) = scoreStyle(l[j], p) /\ i >= j
Before(l, p, i, j) ==
  \/ scoreStyle(l[i], p) < scoreStyle(l[j], p)
  \/ scoreStyle(l[i], p) = scoreStyle(l[j], p) /\ i <= j

Ordered(l, p, order) == \A i, j \in DOMAIN l : i <= j => Before(l, p, order[i], order[j])

Sorted(l, p) ==
  LET order == CHOOSE o \in Bijection(DOMAIN l, DOMAIN l) : Ordered(l, p, o)
  IN  [i \in DOMAIN l |-> l[order[i]]]

(* The families to try, as keys of byFam.                                  *)
Tried(p) ==
  LET fams == <<p.family>> \o genericAliases[lower[p.family]]
  IN  [i \in DOMAIN fams |-> lower[fams[i]]]

Like(key) == {k \in Keys : byFam[k] # <<>> /\ <<k, key>> \in startsWith}
IsFirst(i, p) == Like(Tried(p)[i]) # {} /\ \A j \in 1 .. i - 1 : Like(Tried(p)[j]) = {}

Answer(s, f) ==
  /\ last' = [p |-> s, font |-> f]
  /\ answer' = [q \in Patterns |->
                  CASE q = s -> f
                    [] q # s /\ ParsePattern(q).style = ParsePattern(s).style -> answer[q]
                    [] OTHER -> NoFont]
  /\ calls' = calls + 1
  /\ UNCHANGED <<table, at, Fonts>>

Exact(p, key) ==
  /\ byFam[key] # <<>>
  /\ byFam' = [byFam EXCEPT ![key] = Sorted(@, p)]

(* The lists of all families that begin with key, joined in the order of a *)
(* map's iteration, which is any order: a first choice of any of them that *)
(* no other beats.  The joined list is a copy.                             *)
Fuzzy(p, key) ==
  LET choice == {Head(Sorted(byFam[k], p)) : k \in Like(key)}
  IN  {f \in choice : \A g \in choice : scoreStyle(f, p) <= scoreStyle(g, p)}

(* scan fails without fonts, and nothing is matched.  Without a family of  *)
(* such a name the answer is any font.                                     *)
Match(s) ==
  LET p == ParsePattern(s) IN
  /\ at > Len(Files) /\ Fonts # <<>> /\ calls < MaxCalls
  /\ \/ \E i \in DOMAIN Tried(p) :
          LET key == Tried(p)[i] IN
          /\ IsFirst(i, p)
          /\ \/ Exact(p, key) /\ Answer(s, Head(byFam'[key]))
             \/ /\ byFam[key] = <<>> /\ UNCHANGED byFam
                /\ \E f \in Fuzzy(p, key) : Answer(s, f)
     \/ /\ \A i \in DOMAIN Tried(p) : Like(Tried(p)[i]) = {}
        /\ Answer(s, Head(Fonts)) /\ UNCHANGED byFam

Next == scan \/ \E s \in Patterns : Match(s)

Spec == Init /\ [][Next]_vars

-----------------------------------------------------------------------------
(* Properties.                                                             *)

Database == {Fonts[i] : i \in DOMAIN Fonts}

(* Every variable holds a value of its kind; a font in the database has a  *)
(* family.                                                                 *)
TypeOK ==
  /\ at \in 1 .. Len(Files) + 1 /\ calls \in 0 .. MaxCalls
  /\ Fonts \in Seq(AllFiles) /\ \A f \in Database : Family(f) \in Names \ {""}
  /\ byFam \in [Keys -> Seq(AllFiles)]
  /\ last.font \in AllFiles \cup {NoFont}
  /\ answer \in [Patterns -> AllFiles \cup {NoFont}]

(* The family of a font is that of the first usable record that no other   *)
(* usable record precedes in rank: Windows English, Windows, Unicode, Mac  *)
(* English, the rest.                                                      *)
NamesPreferred ==
  \A f \in Database : \E n \in DOMAIN table[f] :
    LET t == table[f]
        Rank(r) == IF r.platform = 3 THEN (IF r.lang = 1033 THEN 0 ELSE 1)
                   ELSE IF r.platform = 0 THEN 2
                   ELSE IF r.platform = 1 /\ r.lang = 0 THEN 3 ELSE 4
    IN  /\ Usable(t[n], 1) /\ t[n].text = Family(f)
        /\ \A m \in DOMAIN t : Usable(t[m], 1) =>
             Rank(t[n]) < Rank(t[m]) \/ (Rank(t[n]) = Rank(t[m]) /\ n <= m)

(* However often Match has sorted them, the lists of byFam hold every font *)
(* of the database once, under its family in lower case.                   *)
ListsWhole ==
  \A k \in Keys :
    /\ {byFam[k][i] : i \in DOMAIN byFam[k]} = {f \in Database : lower[Family(f)] = k}
    /\ \A i, j \in DOMAIN byFam[k] : byFam[k][i] = byFam[k][j] => i = j

(* What Match promises: the pattern's own family before its alternatives,  *)
(* the family itself before those that begin like it, and in it no font    *)
(* closer in style, boldness and slant counting alike; any font only if    *)
(* there is none of these.  The style is what the options say under any of *)
(* their three keys, in any spelling, or without a key.  (The comment in    *)
(* the code, "prefer exact bold/italic match, else regular", is not this:  *)
(* without a bold italic, bold and italic are closer than regular.)        *)
Asks(s) ==
  LET Said(keys) == {o.val : o \in {q \in s.opts : q.key \in keys}}
  IN  {m \in {"bold", "italic"} :
         IF m = "bold" THEN \/ Said({"style", ""}) \cap Bolds # {}
                            \/ \E val \in Said({"weight"}) : fold[val] = "bold"
         ELSE \/ Said({"style"}) \cap (Italics \cup Obliques) # {}
              \/ Said({""}) \cap Italics # {}
              \/ \E val \in Said({"slant"}) : fold[val] \in {"italic", "oblique"}}
Differs(f, style) == Cardinality((Style(f) \cup style) \ (Style(f) \cap style))
Candidates(key) ==
  LET own == {f \in Database : lower[Family(f)] = key}
  IN  IF own # {} THEN own ELSE {f \in Database : <<lower[Family(f)], key>> \in startsWith}
MatchIsClosest ==
  last.font # NoFont =>
    LET asked == Asks(last.p)
        first == last.p.families[1]
        fams  == <<first>> \o genericAliases[lower[first]]
        C(i)  == Candidates(lower[fams[i]])
    IN  \/ \A i \in DOMAIN fams : C(i) = {}
        \/ \E i \in DOMAIN fams :
             /\ \A j \in 1 .. i - 1 : C(j) = {}
             /\ last.font \in C(i)
             /\ \A f \in C(i) : Differs(last.font, asked) <= Differs(f, asked)

(* A pattern matched again gets the font it got before, as long as only    *)
(* patterns of the same style were matched since and its family is         *)
(* installed under its own name: sorting a sorted list moves nothing.      *)
SameAgain ==
  [][\A p \in Patterns :
       answer[p] # NoFont /\ answer'[p] # NoFont /\ byFam[lower[p.families[1]]] # <<>>
         => answer'[p] = answer[p]]_vars

=============================================================================
