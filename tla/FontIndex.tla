----------------------------- MODULE FontIndex -----------------------------
(***************************************************************************)
(* The font index of package fontcfg: processes that call Load, the font   *)
(* directories that a package manager changes under them, and the one      *)
(* index file they share.  A process may die anywhere in Load, and another *)
(* may give Load other directories.                                        *)
(*                                                                         *)
(* Fingerprints are the modification times themselves: hash collisions are *)
(* left out, and every change of a directory is taken to move its time.    *)
(* Lists that name the same directories name them in one order.            *)
(*                                                                         *)
(* A definition X_Y stands before X and is X with a plausible mistake Y;   *)
(* nothing uses it: it shows that the properties would notice.             *)
(***************************************************************************)
EXTENDS Naturals, FiniteSets

CONSTANTS
  Procs,       (* processes that call Load                                 *)
  Fonts,       (* font files that may be installed                         *)
  NDirs,       (* directories 1 .. NDirs, walked in this order             *)
  Lists,       (* the sets of directories that Load is given               *)
  home,        (* the directory of each font                               *)
  Installed,   (* fonts installed at first                                 *)
  Awkward,     (* fonts with a tab or newline in a name                    *)
  SlowAdds,    (* whether a font's name may appear before its contents     *)
  MaxChanges,  (* bound: changes to the directories                        *)
  MaxFaults    (* bound: processes that die, saves that fail               *)

Dirs == 1 .. NDirs

ASSUME FontIndexAssumption ==
  /\ NDirs \in Nat \ {0} /\ MaxChanges \in Nat /\ MaxFaults \in Nat
  /\ Lists \subseteq SUBSET Dirs
  /\ home \in [Fonts -> Dirs] /\ Awkward \subseteq Fonts
  /\ Installed \subseteq Fonts
  /\ SlowAdds \in BOOLEAN

VARIABLES
  names,     (* font files the directories list                            *)
  files,     (* those whose contents are complete                          *)
  late,      (* history: those whose contents came after the name          *)
  mtime,     (* modification time of each directory                        *)
  index,     (* fonts.idx: a fingerprint and fonts, or NoIndex             *)
  pc,        (* where each Load stands                                     *)
  given,     (* the directories it is given                                *)
  at,        (* the place of its walk: the directories below are behind it *)
  fp,        (* its fingerprint, so far                                    *)
  todo,      (* listed files it has still to read                          *)
  db,        (* its DB                                                     *)
  tmp,       (* the temporary file it writes                               *)
  changes, faults,  (* how many there have been                            *)
  (* history, of each Load, since it read the time of their directory:     *)
  always,    (* fonts that were there all the time                         *)
  ever       (* fonts that were there at some time                         *)

fsVars == <<names, files, late, mtime, changes>>
procVars == <<pc, given, at, fp, todo, db, tmp>>
histVars == <<always, ever>>
vars == <<fsVars, procVars, histVars, index, faults>>

NoStamp == [d \in {} |-> 0]
NoIndex == [fp |-> NoStamp, fonts |-> {}]
In(d, S) == {f \in S : home[f] = d}

Init ==
  /\ files = Installed /\ names = Installed /\ late = {}
  /\ mtime = [d \in Dirs |-> 0] /\ index = NoIndex
  /\ pc = [p \in Procs |-> "idle"] /\ at = [p \in Procs |-> 1]
  /\ fp = [p \in Procs |-> NoStamp] /\ given = [p \in Procs |-> {}]
  /\ always = [p \in Procs |-> {}] /\ ever = [p \in Procs |-> {}]
  /\ todo = [p \in Procs |-> {}] /\ db = [p \in Procs |-> {}]
  /\ tmp = [p \in Procs |-> NoIndex]
  /\ changes = 0 /\ faults = 0

Goto(p, l) == pc' = [pc EXCEPT ![p] = l]

-----------------------------------------------------------------------------
(* The package manager.                                                    *)

Change(d) ==
  /\ changes < MaxChanges /\ changes' = changes + 1
  /\ mtime' = [mtime EXCEPT ![d] = @ + 1]
  /\ UNCHANGED <<procVars, index, faults>>

(* The Loads that have read the time of d, for the histories.              *)
Past(d) == {p \in Procs : d \in DOMAIN fp[p]}
Appears(f) ==
  /\ files' = files \cup {f}
  /\ ever' = [p \in Procs |-> IF p \in Past(home[f]) THEN ever[p] \cup {f} ELSE ever[p]]
  /\ UNCHANGED always

(* A complete file is renamed into place, or a name appears first ...      *)
Add(f) ==
  /\ f \notin names /\ names' = names \cup {f}
  /\ Appears(f) \/ (SlowAdds /\ UNCHANGED <<files, histVars>>)
  /\ UNCHANGED late
  /\ Change(home[f])

(* ... and the contents later, which leaves the directory's time alone.    *)
Complete(f) ==
  /\ f \in names \ files /\ Appears(f)
  /\ late' = late \cup {f}
  /\ UNCHANGED <<names, mtime, changes, procVars, index, faults>>

Remove(f) ==
  /\ f \in names /\ names' = names \ {f} /\ files' = files \ {f}
  /\ late' = late \ {f}
  /\ always' = [p \in Procs |-> always[p] \ {f}] /\ UNCHANGED ever
  /\ Change(home[f])

-----------------------------------------------------------------------------
(* Load.                                                                   *)

(* The Load of p is over, and with it all that it kept.                    *)
Over(p) ==
  /\ Goto(p, "idle")
  /\ at' = [at EXCEPT ![p] = 1] /\ fp' = [fp EXCEPT ![p] = NoStamp]
  /\ given' = [given EXCEPT ![p] = {}]
  /\ db' = [db EXCEPT ![p] = {}] /\ todo' = [todo EXCEPT ![p] = {}]
  /\ tmp' = [tmp EXCEPT ![p] = NoIndex]
  /\ always' = [always EXCEPT ![p] = {}] /\ ever' = [ever EXCEPT ![p] = {}]

Start(p) ==
  /\ pc[p] = "idle"
  /\ \E D \in Lists : given' = [given EXCEPT ![p] = D]
  /\ Goto(p, "finger")
  /\ UNCHANGED <<fsVars, at, fp, todo, db, tmp, histVars, index, faults>>

(* The directories ahead of a walk, and the next of them.                  *)
Ahead(p) == {d \in given[p] : at[p] <= d}
IsNext(p, d) == d \in Ahead(p) /\ \A e \in Ahead(p) : d <= e

(* fingerprintDirs reads the time of one directory after another.          *)
ReadTime(p, d) ==
  /\ pc[p] = "finger" /\ IsNext(p, d)
  /\ fp' = [fp EXCEPT ![p] = [e \in DOMAIN @ \cup {d} |-> IF e = d THEN mtime[d] ELSE @[e]]]
  /\ always' = [always EXCEPT ![p] = @ \cup In(d, files)]
  /\ ever' = [ever EXCEPT ![p] = @ \cup In(d, files)]
  /\ at' = [at EXCEPT ![p] = d + 1]
  /\ UNCHANGED <<fsVars, pc, given, todo, db, tmp, index, faults>>
fingerprintDirs(p) == \E d \in Dirs : ReadTime(p, d)

Matches_AnyVersion(i, t) == i # NoIndex
Matches(i, t) == i # NoIndex /\ i.fp = t

(* loadIndex opens the file once, so it reads one version of it; an index  *)
(* without fonts is no index.                                              *)
loadIndex(p) ==
  /\ pc[p] = "finger" /\ Ahead(p) = {}
  /\ IF Matches(index, fp[p]) /\ index.fonts # {}
     THEN db' = [db EXCEPT ![p] = index.fonts] /\ Goto(p, "hit") /\ UNCHANGED at
     ELSE Goto(p, "list") /\ at' = [at EXCEPT ![p] = 1] /\ UNCHANGED db
  /\ UNCHANGED <<fsVars, given, fp, todo, tmp, histVars, index, faults>>

(* scan lists a directory, then opens what it found there file by file.    *)
ListDir(p, d) ==
  /\ pc[p] = "list" /\ todo[p] = {} /\ IsNext(p, d)
  /\ todo' = [todo EXCEPT ![p] = In(d, names)]
  /\ at' = [at EXCEPT ![p] = d + 1]
  /\ UNCHANGED <<fsVars, pc, given, fp, db, tmp, histVars, index, faults>>
List(p) == \E d \in Dirs : ListDir(p, d)

readFontInfo_Trusting(f) == TRUE
readFontInfo(f) == f \in files

Read(p, f) ==
  /\ pc[p] = "list" /\ f \in todo[p]
  /\ db' = [db EXCEPT ![p] = IF readFontInfo(f) THEN @ \cup {f} ELSE @]
  /\ todo' = [todo EXCEPT ![p] = @ \ {f}]
  /\ UNCHANGED <<fsVars, pc, given, at, fp, tmp, histVars, index, faults>>

Stamp_Late(p) == mtime
Stamp(p) == fp[p]

SaveWanted_Once == index = NoIndex
SaveWanted == TRUE

(* Load returns what the index held.                                       *)
Served(p) == pc[p] = "hit" /\ Over(p) /\ UNCHANGED <<fsVars, index, faults>>

(* The walk is over: an error without fonts, else saveIndex makes its file.*)
Scanned(p) ==
  /\ pc[p] = "list" /\ todo[p] = {} /\ Ahead(p) = {}
  /\ \/ (db[p] = {} \/ ~SaveWanted) /\ Over(p)
     \/ /\ db[p] # {} /\ SaveWanted
        /\ Goto(p, "save")
        /\ tmp' = [tmp EXCEPT ![p] = [fp |-> Stamp(p), fonts |-> {}]]
        /\ UNCHANGED <<given, at, fp, todo, db, histVars>>
  /\ UNCHANGED <<fsVars, index, faults>>

Storable(p) == db[p] \ Awkward

Write(p, f) ==
  /\ pc[p] = "save" /\ f \in Storable(p) \ tmp[p].fonts
  /\ tmp' = [tmp EXCEPT ![p].fonts = @ \cup {f}]
  /\ UNCHANGED <<fsVars, pc, given, at, fp, todo, db, histVars, index, faults>>

Flushed_Unchecked(p) == TRUE
Flushed(p) == tmp[p].fonts = Storable(p)

(* The new index replaces the old one, and Load returns what it scanned.   *)
Rename(p) ==
  /\ pc[p] = "save" /\ Flushed(p)
  /\ index' = tmp[p]
  /\ Over(p)
  /\ UNCHANGED <<fsVars, faults>>

(* saveIndex fails: its file is removed and Load returns the DB anyway.    *)
SaveFails(p) ==
  /\ pc[p] = "save" /\ faults < MaxFaults /\ faults' = faults + 1
  /\ Over(p)
  /\ UNCHANGED <<fsVars, index>>

Die(p) ==
  /\ pc[p] # "idle" /\ faults < MaxFaults /\ faults' = faults + 1
  /\ Over(p)
  /\ UNCHANGED <<fsVars, index>>

Working(p) ==
  \/ fingerprintDirs(p) \/ loadIndex(p) \/ Served(p)
  \/ List(p) \/ Scanned(p) \/ Rename(p)
  \/ \E f \in Fonts : Read(p, f) \/ Write(p, f)

Next ==
  \/ \E f \in Fonts : Add(f) \/ Remove(f) \/ Complete(f)
  \/ \E p \in Procs : Start(p) \/ Working(p) \/ SaveFails(p) \/ Die(p)

Spec == Init /\ [][Next]_vars

(* A Load that has begun goes on, and programs that load fonts keep being  *)
(* started.                                                                *)
FairSpec == Spec /\ \A p \in Procs : WF_vars(Start(p) \/ Working(p))

-----------------------------------------------------------------------------
(* Properties.                                                             *)

(* The times of some directories.                                          *)
Stamps == UNION {[D -> 0 .. MaxChanges] : D \in SUBSET Dirs}

(* Every variable holds a value of its kind.                               *)
DirType ==
  /\ late \subseteq files /\ files \subseteq names /\ names \subseteq Fonts
  /\ mtime \in [Dirs -> 0 .. MaxChanges] /\ changes \in 0 .. MaxChanges
  /\ faults \in 0 .. MaxFaults
  /\ index \in [fp : Stamps, fonts : SUBSET (Fonts \ Awkward)]
LoadType ==
  /\ pc \in [Procs -> {"idle", "finger", "list", "save", "hit"}]
  /\ given \in [Procs -> SUBSET Dirs] /\ at \in [Procs -> 1 .. NDirs + 1] /\ fp \in [Procs -> Stamps]
  /\ todo \in [Procs -> SUBSET Fonts] /\ db \in [Procs -> SUBSET Fonts]
  /\ tmp \in [Procs -> [fp : Stamps, fonts : SUBSET Fonts]]
  /\ always \in [Procs -> SUBSET Fonts] /\ ever \in [Procs -> SUBSET Fonts]
TypeOK == DirType /\ LoadType

(* The next Load that is given the directories of the index accepts it.    *)
Current == index # NoIndex /\ \A d \in DOMAIN index.fp : index.fp[d] = mtime[d]
Within(D) == {f \in files : home[f] \in D}

(* An index that a next Load would accept lists exactly the fonts that are *)
(* now installed in the directories of that Load, but for those it cannot  *)
(* hold and those that were incomplete when their name appeared, whatever  *)
(* was installed, saved, half written or abandoned while it was built, and *)
(* whichever directories the others look at.                               *)
IndexFresh ==
  LET there == Within(DOMAIN index.fp)
  IN  Current => /\ index.fonts \subseteq there \ Awkward
                 /\ there \ (Awkward \cup late) \subseteq index.fonts

(* "Any add/remove invalidates the cache."                                 *)
AnyAddInvalidates == Current => index.fonts = Within(DOMAIN index.fp) \ Awkward

(* A Load returns every font that stayed installed in its directories      *)
(* while it ran, with the same exceptions when an index served it, and     *)
(* none that was at no time installed there: even if another process saved *)
(* that index in the meantime.                                             *)
LoadIsCurrent ==
  \A p \in Procs :
    /\ pc[p] = "hit" => always[p] \ (Awkward \cup late) \subseteq db[p]
    /\ pc[p] = "save" => always[p] \subseteq db[p]
    /\ pc[p] \in {"hit", "save"} => db[p] \subseteq ever[p]

(* Once the directories are left alone, the index becomes current and      *)
(* stays so: a process that saves an old scan late is made up for.  It is  *)
(* current for the Load that saved it last, not for one that is given      *)
(* other directories.  A Load that finds no fonts saves nothing.           *)
CacheSettles == <>[]((\E D \in Lists : Within(D) \subseteq Awkward) \/ Current)

=============================================================================
