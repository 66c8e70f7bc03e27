-------------------------- MODULE FontIndexProofs --------------------------
(***************************************************************************)
(* The font index is fresh and a Load is current, for any processes,       *)
(* fonts, directories, numbers of changes and of faults.                   *)
(***************************************************************************)
EXTENDS FontIndexInv, TLAPS

USE FontIndexAssumption

-----------------------------------------------------------------------------
(* Types.                                                                  *)

(* A stamp is a function on some directories.                              *)
LEMMA StampShape ==
  /\ NoStamp \in Stamps /\ DOMAIN NoStamp = {}
  /\ \A t \in Stamps : DOMAIN t \subseteq Dirs
                      /\ \A d \in DOMAIN t : t[d] \in 0 .. MaxChanges /\ t[d] \in Nat
<1>1. NoStamp \in [{} -> 0 .. MaxChanges] /\ DOMAIN NoStamp = {} BY DEF NoStamp
<1>2. ASSUME NEW t \in Stamps
      PROVE  DOMAIN t \subseteq Dirs
             /\ \A d \in DOMAIN t : t[d] \in 0 .. MaxChanges /\ t[d] \in Nat
  <2>1. PICK D \in SUBSET Dirs : t \in [D -> 0 .. MaxChanges] BY DEF Stamps
  <2> QED BY <2>1
<1>3. [{} -> 0 .. MaxChanges] \in {[D -> 0 .. MaxChanges] : D \in SUBSET Dirs}
  <2>1. {} \in SUBSET Dirs OBVIOUS
  <2> QED BY <2>1
<1>4. NoStamp \in Stamps BY <1>1, <1>3, Zenon DEF Stamps
<1> QED BY <1>1, <1>2, <1>4

(* TypeOK holds at first.                                                  *)
LEMMA TypeInit == Init => TypeOK
<1> SUFFICES ASSUME Init PROVE TypeOK OBVIOUS
<1>1. NoIndex \in [fp : Stamps, fonts : SUBSET (Fonts \ Awkward)] BY StampShape DEF NoIndex
<1>2. NoIndex \in [fp : Stamps, fonts : SUBSET Fonts] BY StampShape DEF NoIndex
<1>3. DirType BY <1>1 DEF Init, DirType
<1>4. LoadType BY <1>2, StampShape DEF Init, LoadType
<1> QED BY <1>3, <1>4 DEF TypeOK

(* A Load that is over leaves the types.                                   *)
LEMMA OverType ==
  ASSUME LoadType, NEW p \in Procs, Over(p)
  PROVE  LoadType'
<1>1. NoIndex \in [fp : Stamps, fonts : SUBSET Fonts] BY StampShape DEF NoIndex
<1>2. at' \in [Procs -> 1 .. NDirs + 1]
  <2>1. 1 \in 1 .. NDirs + 1 OBVIOUS
  <2> QED BY <2>1 DEF Over, LoadType
<1> QED BY <1>1, <1>2, StampShape DEF Over, Goto, LoadType

(* Every step keeps the types; what is saved is PlaceInv's.                *)
LEMMA TypeStep ==
  ASSUME TypeOK, PlaceInv, ClockInv, [Next]_vars
  PROVE  TypeOK'
<1>0. DirType /\ LoadType BY DEF TypeOK
<1> USE DEF fsVars, procVars, histVars
<1>1. ASSUME NEW f \in Fonts, Add(f) \/ Remove(f) PROVE TypeOK'
  <2>1. home[f] \in Dirs OBVIOUS
  <2>2. Change(home[f]) BY <1>1 DEF Add, Remove
  <2>3. mtime[home[f]] <= changes /\ changes < MaxChanges BY <2>1, <2>2 DEF ClockInv, Change
  <2>4. mtime' \in [Dirs -> 0 .. MaxChanges] /\ changes' \in 0 .. MaxChanges
    BY <1>0, <2>1, <2>2, <2>3 DEF Change, DirType
  <2>5. /\ always' \in [Procs -> SUBSET Fonts] /\ ever' \in [Procs -> SUBSET Fonts]
        /\ late' \subseteq files' /\ files' \subseteq names' /\ names' \subseteq Fonts
    <3>1. CASE Add(f)
      <4>1. /\ always' \in [Procs -> SUBSET Fonts] /\ ever' \in [Procs -> SUBSET Fonts]
        BY <1>0, <3>1 DEF Add, Appears, LoadType
      <4>2. late' \subseteq files' /\ files' \subseteq names' /\ names' \subseteq Fonts
        BY <1>0, <3>1 DEF Add, Appears, DirType
      <4> QED BY <4>1, <4>2
    <3>2. CASE Remove(f) BY <1>0, <3>2 DEF Remove, DirType, LoadType
    <3> QED BY <1>1, <3>1, <3>2
  <2> QED BY <1>0, <2>2, <2>4, <2>5 DEF Change, DirType, LoadType, TypeOK
<1>2. ASSUME NEW f \in Fonts, Complete(f) PROVE TypeOK'
  <2>1. /\ always' \in [Procs -> SUBSET Fonts] /\ ever' \in [Procs -> SUBSET Fonts]
        /\ late' \subseteq files' /\ files' \subseteq names'
    BY <1>0, <1>2 DEF Complete, Appears, DirType, LoadType
  <2> QED BY <1>0, <1>2, <2>1 DEF Complete, DirType, LoadType, TypeOK
<1>3. ASSUME NEW p \in Procs, Start(p) \/ loadIndex(p) \/ List(p) PROVE TypeOK'
  <2>1. 1 \in 1 .. NDirs + 1 OBVIOUS
  <2>2. DirType' BY <1>0, <1>3 DEF Start, loadIndex, List, ListDir, DirType
  <2>3. LoadType'
    <3>1. CASE Start(p)
      <4>1. PICK D \in SUBSET Dirs : given' = [given EXCEPT ![p] = D] BY <3>1 DEF Start
      <4> QED BY <1>0, <3>1, <4>1 DEF Start, Goto, LoadType
    <3>2. CASE loadIndex(p)
      <4>1. index.fonts \in SUBSET Fonts BY <1>0 DEF DirType
      <4> QED BY <1>0, <2>1, <3>2, <4>1 DEF loadIndex, Goto, LoadType
    <3>3. CASE List(p)
      <4>1. PICK d \in Dirs : ListDir(p, d) BY <3>3 DEF List
      <4>2. In(d, names) \in SUBSET Fonts BY <1>0 DEF In, DirType
      <4>3. d + 1 \in 1 .. NDirs + 1 BY DEF Dirs
      <4> QED BY <1>0, <4>1, <4>2, <4>3 DEF ListDir, LoadType
    <3> QED BY <1>3, <3>1, <3>2, <3>3
  <2> QED BY <2>2, <2>3 DEF TypeOK
<1>4. ASSUME NEW p \in Procs, fingerprintDirs(p) PROVE TypeOK'
  <2>1. PICK d \in Dirs : ReadTime(p, d) BY <1>4 DEF fingerprintDirs
  <2>2. PICK t \in Stamps : t = fp[p] BY <1>0 DEF LoadType
  <2>3. PICK D \in SUBSET Dirs : D = DOMAIN t \cup {d} BY StampShape
  <2>4. [e \in D |-> IF e = d THEN mtime[d] ELSE t[e]] \in Stamps
    <3>1. mtime[d] \in 0 .. MaxChanges BY <1>0 DEF DirType
    <3>2. [e \in D |-> IF e = d THEN mtime[d] ELSE t[e]] \in [D -> 0 .. MaxChanges]
      BY <2>3, <3>1, StampShape
    <3> QED BY <3>2 DEF Stamps
  <2>5. In(d, files) \in SUBSET Fonts /\ d + 1 \in 1 .. NDirs + 1
    BY <1>0 DEF In, DirType, Dirs
  <2>6. fp' = [fp EXCEPT ![p] = [e \in D |-> IF e = d THEN mtime[d] ELSE t[e]]]
    BY <1>0, <2>1, <2>2, <2>3 DEF ReadTime, LoadType
  <2>7. fp' \in [Procs -> Stamps] BY <1>0, <2>4, <2>6 DEF LoadType
  <2>8. /\ at' = [at EXCEPT ![p] = d + 1]
        /\ always' = [always EXCEPT ![p] = @ \cup In(d, files)]
        /\ ever' = [ever EXCEPT ![p] = @ \cup In(d, files)]
        /\ UNCHANGED <<fsVars, pc, given, todo, db, tmp, index, faults>>
    BY <2>1 DEF ReadTime
  <2>9. LoadType' BY <1>0, <2>5, <2>7, <2>8 DEF LoadType
  <2> QED BY <1>0, <2>8, <2>9 DEF DirType, TypeOK
<1>5. ASSUME NEW p \in Procs, NEW f \in Fonts, Read(p, f) PROVE TypeOK'
  BY <1>0, <1>5 DEF Read, DirType, LoadType, TypeOK
<1>6. ASSUME NEW p \in Procs, NEW f \in Fonts, Write(p, f) PROVE TypeOK'
  <2>1. tmp' \in [Procs -> [fp : Stamps, fonts : SUBSET Fonts]]
    BY <1>0, <1>6 DEF Write, LoadType
  <2> QED BY <1>0, <1>6, <2>1 DEF Write, DirType, LoadType, TypeOK
<1>7. ASSUME NEW p \in Procs, Scanned(p) PROVE TypeOK'
  <2>1. DirType' BY <1>0, <1>7 DEF Scanned, DirType
  <2>2. CASE Over(p) BY <1>0, <2>1, <2>2, OverType DEF TypeOK
  <2>3. CASE ~Over(p)
    <3>1. /\ Goto(p, "save") /\ UNCHANGED <<given, at, fp, todo, db, histVars>>
          /\ tmp' = [tmp EXCEPT ![p] = [fp |-> fp[p], fonts |-> {}]]
      BY <1>7, <2>3 DEF Scanned, Stamp
    <3>2. [fp |-> fp[p], fonts |-> {}] \in [fp : Stamps, fonts : SUBSET Fonts] BY <1>0 DEF LoadType
    <3> QED BY <1>0, <2>1, <3>1, <3>2 DEF Goto, LoadType, TypeOK
  <2> QED BY <2>2, <2>3
<1>8. ASSUME NEW p \in Procs, Served(p) \/ SaveFails(p) \/ Die(p) PROVE TypeOK'
  <2>1. Over(p) /\ DirType' BY <1>0, <1>8 DEF Served, SaveFails, Die, DirType
  <2> QED BY <1>0, <2>1, OverType DEF TypeOK
<1>9. ASSUME NEW p \in Procs, Rename(p) PROVE TypeOK'
  <2>1. /\ index' = tmp[p] /\ Over(p) /\ UNCHANGED <<fsVars, faults>>
        /\ tmp[p].fonts = db[p] \ Awkward
    BY <1>9 DEF Rename, Flushed, Storable
  <2>3. tmp[p] \in [fp : Stamps, fonts : SUBSET Fonts] /\ db[p] \in SUBSET Fonts
    BY <1>0 DEF LoadType
  <2>4. tmp[p] \in [fp : Stamps, fonts : SUBSET (Fonts \ Awkward)] BY <2>1, <2>3
  <2> QED BY <1>0, <2>1, <2>4, OverType DEF DirType, TypeOK
<1>10. CASE UNCHANGED vars BY <1>0, <1>10 DEF vars, DirType, LoadType, TypeOK
<1> QED BY <1>1, <1>2, <1>3, <1>4, <1>5, <1>6, <1>7, <1>8, <1>9, <1>10 DEF Next, Working

-----------------------------------------------------------------------------
(* What the steps do.                                                      *)

Same(q) ==
  /\ pc'[q] = pc[q] /\ given'[q] = given[q] /\ at'[q] = at[q] /\ fp'[q] = fp[q] /\ todo'[q] = todo[q] /\ db'[q] = db[q]
  /\ tmp'[q] = tmp[q] /\ always'[q] = always[q] /\ ever'[q] = ever[q]

(* A Load that is over keeps nothing, and is nobody else's business.       *)
LEMMA OverFacts ==
  ASSUME LoadType, NEW p \in Procs, Over(p)
  PROVE  /\ pc'[p] = "idle" /\ given'[p] = {} /\ at'[p] = 1 /\ fp'[p] = NoStamp /\ todo'[p] = {} /\ db'[p] = {}
         /\ always'[p] = {} /\ ever'[p] = {}
         /\ \A q \in Procs \ {p} : Same(q)
BY DEF Over, Goto, LoadType, Same

Step(p) == Start(p) \/ Working(p) \/ SaveFails(p) \/ Die(p)

(* The steps of one Load leave the directories and the other Loads alone.  *)
LEMMA StepFacts ==
  ASSUME TypeOK, NEW p \in Procs, Step(p)
  PROVE  UNCHANGED fsVars /\ \A q \in Procs \ {p} : Same(q)
<1>0. LoadType BY DEF TypeOK
<1>1. CASE Over(p)
  <2>1. UNCHANGED fsVars
    BY <1>1 DEF Step, Working, Start, fingerprintDirs, ReadTime, loadIndex, Served, List, ListDir,
                Scanned, Rename, Read, Write, SaveFails, Die
  <2> QED BY <1>0, <1>1, <2>1, OverFacts
<1>2. CASE fingerprintDirs(p) \/ loadIndex(p) \/ List(p) \/ \E f \in Fonts : Read(p, f)
  <2>1. CASE fingerprintDirs(p)
    BY <1>0, <2>1 DEF fingerprintDirs, ReadTime, Goto, histVars, LoadType, Same
  <2>2. CASE loadIndex(p) BY <1>0, <2>2 DEF loadIndex, Goto, histVars, LoadType, Same
  <2>3. CASE List(p) BY <1>0, <2>3 DEF List, ListDir, Goto, histVars, LoadType, Same
  <2>4. ASSUME NEW f \in Fonts, Read(p, f) PROVE UNCHANGED fsVars /\ \A q \in Procs \ {p} : Same(q)
    BY <1>0, <2>4 DEF Read, Goto, histVars, LoadType, Same
  <2> QED BY <1>2, <2>1, <2>2, <2>3, <2>4
<1>5. CASE Start(p)
  <2>1. PICK D : given' = [given EXCEPT ![p] = D] BY <1>5 DEF Start
  <2> QED BY <1>0, <1>5, <2>1 DEF Start, Goto, histVars, LoadType, Same
<1>3. ASSUME NEW f \in Fonts, Write(p, f) PROVE UNCHANGED fsVars /\ \A q \in Procs \ {p} : Same(q)
  BY <1>0, <1>3 DEF Write, histVars, LoadType, Same
<1>4. CASE Scanned(p) /\ ~Over(p)
  BY <1>0, <1>4 DEF Scanned, Goto, histVars, LoadType, Same
<1> QED BY <1>1, <1>2, <1>3, <1>4, <1>5 DEF Step, Working, Served, Rename, SaveFails, Die

(* The package manager leaves the Loads alone, but for their histories.    *)
LEMMA ChangeStep ==
  ASSUME TypeOK, NEW f \in Fonts, Add(f) \/ Remove(f) \/ Complete(f)
  PROVE  /\ UNCHANGED <<procVars, index, faults>>
         /\ home[f] \in Dirs /\ changes <= changes' /\ changes \in Nat /\ changes' \in Nat
         /\ \A d \in Dirs : /\ mtime[d] \in Nat /\ mtime'[d] \in Nat /\ mtime[d] <= mtime'[d]
                            /\ mtime[d] <= changes => mtime'[d] <= changes'
         /\ Add(f) \/ Remove(f) => mtime'[home[f]] = mtime[home[f]] + 1
         /\ \A d \in Dirs : d # home[f] \/ Complete(f) => mtime'[d] = mtime[d]
<1>0. mtime \in [Dirs -> 0 .. MaxChanges] /\ changes \in Nat /\ home[f] \in Dirs
  BY DEF TypeOK, DirType
<1>1. CASE Add(f) \/ Remove(f)
  <2>1. /\ changes' = changes + 1 /\ mtime' = [mtime EXCEPT ![home[f]] = @ + 1]
        /\ UNCHANGED <<procVars, index, faults>>
    BY <1>1 DEF Add, Remove, Change
  <2>2. \A d \in Dirs : mtime'[d] = IF d = home[f] THEN mtime[d] + 1 ELSE mtime[d] BY <1>0, <2>1
  <2>3. Complete(f) => FALSE
    <3>1. Complete(f) => changes' = changes BY DEF Complete
    <3> QED BY <1>0, <2>1, <3>1
  <2>4. \A d \in Dirs : mtime[d] \in Nat BY <1>0
  <2> QED BY <1>0, <2>1, <2>2, <2>3, <2>4
<1>2. CASE Complete(f) /\ ~Add(f) /\ ~Remove(f)
  <2>1. UNCHANGED <<changes, mtime, procVars, index, faults>> BY <1>2 DEF Complete
  <2>2. \A d \in Dirs : mtime[d] \in Nat BY <1>0
  <2> QED BY <1>0, <1>2, <2>1, <2>2
<1> QED BY <1>1, <1>2

(* The walk goes on to directory d: it was not behind, and is now.         *)
LEMMA NextFacts ==
  ASSUME TypeOK, NEW p \in Procs, NEW d, IsNext(p, d), given'[p] = given[p], at'[p] = d + 1
  PROVE  /\ d \in Dirs /\ d \in given[p] /\ d \notin Behind(p)
         /\ Behind(p)' = Behind(p) \cup {d}
         /\ \A e \in given[p] : e < at'[p] => e < at[p] \/ e = d
<1>1. given[p] \subseteq Dirs /\ at[p] \in Nat /\ \A e \in Dirs : e \in Nat
  BY DEF TypeOK, LoadType, Dirs
<1>2. d \in given[p] /\ at[p] <= d /\ \A e \in given[p] : at[p] <= e => d <= e
  BY DEF IsNext, Ahead
<1>3. \A e \in given[p] : e < d + 1 <=> e < at[p] \/ e = d BY <1>1, <1>2
<1>4. ~(d < at[p]) BY <1>1, <1>2
<1> QED BY <1>1, <1>2, <1>3, <1>4 DEF Behind

(* fingerprintDirs extends a stamp by the time of the next directory.      *)
LEMMA FingerFacts ==
  ASSUME TypeOK, PlaceInv, NEW p \in Procs, fingerprintDirs(p)
  PROVE  /\ \E d \in Dirs :
              /\ DOMAIN fp'[p] = DOMAIN fp[p] \cup {d} /\ d \notin DOMAIN fp[p]
              /\ fp'[p][d] = mtime[d] /\ \A e \in DOMAIN fp[p] : fp'[p][e] = fp[p][e]
              /\ always'[p] = always[p] \cup In(d, files) /\ ever'[p] = ever[p] \cup In(d, files)
         /\ pc[p] = "finger" /\ DOMAIN fp'[p] = Behind(p)'
         /\ UNCHANGED <<fsVars, pc, given, todo, db, tmp, index, faults>>
<1>0. LoadType BY DEF TypeOK
<1>1. PICK d \in Dirs : ReadTime(p, d) BY DEF fingerprintDirs
<1>2. /\ pc[p] = "finger" /\ IsNext(p, d) /\ at'[p] = d + 1
      /\ UNCHANGED <<fsVars, pc, given, todo, db, tmp, index, faults>>
  BY <1>0, <1>1 DEF ReadTime, LoadType
<1>3. d \notin Behind(p) /\ Behind(p)' = Behind(p) \cup {d} BY <1>2, NextFacts
<1>4. DOMAIN fp[p] = Behind(p) BY <1>2 DEF PlaceInv
<1>5. PICK t : t = fp[p] OBVIOUS
<1>6. fp'[p] = [e \in DOMAIN t \cup {d} |-> IF e = d THEN mtime[d] ELSE t[e]]
  BY <1>0, <1>1, <1>5 DEF ReadTime, LoadType
<1>7. /\ DOMAIN fp'[p] = DOMAIN t \cup {d} /\ fp'[p][d] = mtime[d]
      /\ \A e \in DOMAIN t : e # d => fp'[p][e] = t[e]
  BY <1>6
<1>8. always'[p] = always[p] \cup In(d, files) /\ ever'[p] = ever[p] \cup In(d, files)
  BY <1>0, <1>1 DEF ReadTime, LoadType
<1> QED BY <1>2, <1>3, <1>4, <1>5, <1>7, <1>8

(* List asks for the files of the next directory.                          *)
LEMMA ListFacts ==
  ASSUME TypeOK, NEW p \in Procs, List(p)
  PROVE  /\ pc[p] = "list" /\ todo[p] = {}
         /\ \E d \in given[p] : /\ todo'[p] = In(d, names) /\ Behind(p)' = Behind(p) \cup {d}
                                /\ \A e \in given[p] : e < at'[p] => e < at[p] \/ e = d
         /\ UNCHANGED <<pc, given, fp, db, tmp, histVars, index, faults>>
<1>0. LoadType BY DEF TypeOK
<1>1. PICK d \in Dirs : ListDir(p, d) BY DEF List
<1>2. /\ pc[p] = "list" /\ todo[p] = {} /\ IsNext(p, d) /\ at'[p] = d + 1
      /\ todo'[p] = In(d, names)
      /\ UNCHANGED <<pc, given, fp, db, tmp, histVars, index, faults>>
  BY <1>0, <1>1 DEF ListDir, LoadType
<1>3. /\ d \in given[p] /\ Behind(p)' = Behind(p) \cup {d}
      /\ \A e \in given[p] : e < at'[p] => e < at[p] \/ e = d
  BY <1>2, NextFacts
<1> QED BY <1>2, <1>3

(* Read takes one of them, if its contents are there.                      *)
LEMMA FileFacts ==
  ASSUME TypeOK, NEW p \in Procs, NEW f \in Fonts, Read(p, f)
  PROVE  /\ pc[p] = "list" /\ f \in todo[p] /\ todo'[p] = todo[p] \ {f}
         /\ db'[p] = IF f \in files THEN db[p] \cup {f} ELSE db[p]
         /\ UNCHANGED <<pc, given, at, fp, tmp, histVars, index, faults>>
BY DEF TypeOK, Read, readFontInfo, LoadType

(* Write adds a font to the file that is to become the index.              *)
LEMMA WriteFacts ==
  ASSUME TypeOK, NEW p \in Procs, NEW f \in Fonts, Write(p, f)
  PROVE  /\ pc[p] = "save" /\ f \in Storable(p) /\ tmp'[p].fp = tmp[p].fp
         /\ tmp'[p].fonts = tmp[p].fonts \cup {f}
         /\ UNCHANGED <<pc, given, at, fp, todo, db, histVars, index, faults>>
<1>0. LoadType BY DEF TypeOK
<1>1. tmp'[p] = [tmp[p] EXCEPT !.fonts = tmp[p].fonts \cup {f}] BY <1>0 DEF Write, LoadType
<1>2. tmp[p] \in [fp : Stamps, fonts : SUBSET Fonts] BY <1>0 DEF LoadType
<1> QED BY <1>1, <1>2 DEF Write

(* A walk that found fonts goes on to save them.                           *)
LEMMA SaveFacts ==
  ASSUME TypeOK, NEW p \in Procs, Scanned(p), ~Over(p)
  PROVE  /\ pc[p] = "list" /\ pc'[p] = "save" /\ todo[p] = {} /\ Ahead(p) = {}
         /\ tmp'[p] = [fp |-> fp[p], fonts |-> {}]
         /\ UNCHANGED <<given, at, fp, todo, db, histVars, index, faults>>
<1>0. LoadType BY DEF TypeOK
<1>1. /\ pc[p] = "list" /\ todo[p] = {} /\ Ahead(p) = {}
      /\ pc' = [pc EXCEPT ![p] = "save"]
      /\ tmp' = [tmp EXCEPT ![p] = [fp |-> fp[p], fonts |-> {}]]
      /\ UNCHANGED <<given, at, fp, todo, db, histVars, index, faults>>
  BY DEF Scanned, Goto, Stamp
<1>3. pc'[p] = "save" /\ tmp'[p] = [fp |-> fp[p], fonts |-> {}] BY <1>0, <1>1 DEF LoadType
<1> QED BY <1>1, <1>3

(* At its end all directories of a walk are behind it.                     *)
LEMMA AllBehind ==
  ASSUME TypeOK, NEW p \in Procs, Ahead(p) = {}
  PROVE  Behind(p) = given[p]
<1>1. given[p] \subseteq Nat /\ at[p] \in Nat BY DEF TypeOK, LoadType, Dirs
<1>2. \A d \in given[p] : ~(at[p] <= d) BY DEF Ahead
<1> QED BY <1>1, <1>2 DEF Behind

(* An index is accepted for its stamp, or the scan begins.                 *)
LEMMA LoadFacts ==
  ASSUME TypeOK, PlaceInv, NEW p \in Procs, loadIndex(p)
  PROVE  /\ pc[p] = "finger" /\ DOMAIN fp[p] = given[p]
         /\ UNCHANGED <<given, fp, todo, tmp, histVars, index, faults>>
         /\ \/ index.fp = fp[p] /\ db'[p] = index.fonts /\ pc'[p] = "hit" /\ at'[p] = at[p]
            \/ pc'[p] = "list" /\ at'[p] = 1 /\ Behind(p)' = {} /\ db'[p] = {}
<1>0. LoadType BY DEF TypeOK
<1>1. pc[p] = "finger" /\ Ahead(p) = {} BY DEF loadIndex
<1>2. DOMAIN fp[p] = given[p] /\ db[p] = {} BY <1>1, AllBehind DEF PlaceInv
<1>3. at'[p] = 1 /\ given' = given => Behind(p)' = {} BY <1>0 DEF Behind, LoadType, Dirs
<1> QED BY <1>0, <1>1, <1>2, <1>3 DEF loadIndex, Matches, Goto, LoadType

-----------------------------------------------------------------------------
(* Places and clocks.                                                      *)

Place(p) ==
  /\ pc[p] = "idle" => at[p] = 1
  /\ pc[p] \in {"idle", "finger"} => DOMAIN fp[p] = Behind(p)
  /\ pc[p] \in {"hit", "list", "save"} => DOMAIN fp[p] = given[p]
  /\ pc[p] # "list" => todo[p] = {}
  /\ \A f \in todo[p] : home[f] \in given[p]
  /\ pc[p] \in {"idle", "finger"} => db[p] = {}
  /\ pc[p] = "save" => /\ Ahead(p) = {} /\ tmp[p].fp = fp[p]
                       /\ tmp[p].fonts \subseteq Storable(p)

(* Every step leaves each Load where PlaceInv says.                        *)
LEMMA PlaceStep ==
  ASSUME TypeOK, PlaceInv, [Next]_vars
  PROVE  PlaceInv'
<1>0. LoadType /\ (\A p \in Procs : Place(p)) BY DEF TypeOK, PlaceInv, Place
<1>s. SUFFICES \A p \in Procs : Place(p)' BY DEF PlaceInv, Place, Storable
<1> USE DEF Behind, Ahead
<1>1. CASE UNCHANGED procVars BY <1>0, <1>1 DEF procVars, Place, Storable
<1>2. ASSUME NEW f \in Fonts, Add(f) \/ Remove(f) \/ Complete(f) PROVE UNCHANGED procVars
  BY <1>2, ChangeStep
<1>3. ASSUME NEW p \in Procs, Step(p) PROVE \A q \in Procs : Place(q)'
  <2>1. \A q \in Procs \ {p} : Place(q)' BY <1>0, <1>3, StepFacts DEF Same, Place, Storable
  <2>2. CASE Over(p)
    <3> QED BY <1>0, <2>1, <2>2, OverFacts, StampShape DEF Place
  <2>3. CASE Start(p)
    <3>1. pc[p] = "idle" /\ pc'[p] = "finger" /\ UNCHANGED <<at, fp, todo, db>>
      BY <1>0, <2>3 DEF Start, Goto, LoadType
    <3>3. at[p] = 1 /\ DOMAIN fp[p] = {}
      <4>1. at[p] = 1 /\ DOMAIN fp[p] = {d \in given[p] : d < at[p]} BY <1>0, <3>1 DEF Place
      <4>2. \A d \in given[p] : d \in Nat \ {0} BY <1>0 DEF LoadType, Dirs
      <4> QED BY <4>1, <4>2
    <3>4. given'[p] \subseteq Dirs
      <4>1. PICK D \in SUBSET Dirs : given' = [given EXCEPT ![p] = D] BY <2>3 DEF Start
      <4> QED BY <1>0, <4>1 DEF LoadType
    <3>5. Behind(p)' = {} BY <3>1, <3>3, <3>4 DEF Dirs
    <3>2. Place(p)' BY <1>0, <3>1, <3>3, <3>5 DEF Place
    <3> QED BY <2>1, <3>2
  <2>4. CASE fingerprintDirs(p)
    <3>1. pc[p] = "finger" /\ pc'[p] = "finger" BY <2>4, FingerFacts
    <3>2. DOMAIN fp'[p] = Behind(p)' BY <2>4, FingerFacts
    <3>3. UNCHANGED <<todo, db>> BY <2>4, FingerFacts
    <3>4. Place(p)' BY <1>0, <3>1, <3>2, <3>3 DEF Place
    <3> QED BY <2>1, <3>4
  <2>5. CASE loadIndex(p)
    <3>1. Place(p)' BY <1>0, <2>5, LoadFacts DEF Place
    <3> QED BY <2>1, <3>1
  <2>6. CASE List(p)
    <3>2. \A f \in todo'[p] : home[f] \in given[p] BY <2>6, ListFacts DEF In
    <3>1. Place(p)' BY <1>0, <2>6, <3>2, ListFacts DEF Place
    <3> QED BY <2>1, <3>1
  <2>7. ASSUME NEW f \in Fonts, Read(p, f) PROVE \A q \in Procs : Place(q)'
    <3>1. Place(p)' BY <1>0, <2>7, FileFacts DEF Place
    <3> QED BY <2>1, <3>1
  <2>8. ASSUME NEW f \in Fonts, Write(p, f) PROVE \A q \in Procs : Place(q)'
    <3>1. Place(p) /\ pc[p] = "save" /\ f \in Storable(p) BY <1>0, <2>8, WriteFacts
    <3>2. tmp'[p].fp = tmp[p].fp /\ tmp'[p].fonts \subseteq Storable(p)
      BY <3>1, <2>8, WriteFacts DEF Place
    <3>3. UNCHANGED <<pc, given, at, fp, todo, db>> BY <2>8, WriteFacts
    <3>4. Place(p)' BY <3>1, <3>2, <3>3 DEF Place, Storable
    <3> QED BY <2>1, <3>4
  <2>9. CASE Scanned(p) /\ ~Over(p)
    <3>1. /\ pc[p] = "list" /\ pc'[p] = "save" /\ todo[p] = {} /\ Ahead(p) = {}
          /\ tmp'[p] = [fp |-> fp[p], fonts |-> {}]
          /\ UNCHANGED <<given, at, fp, todo, db, histVars, index, faults>>
      BY <2>9, SaveFacts
    <3>2. tmp'[p].fp = fp[p] /\ tmp'[p].fonts = {} BY <3>1
    <3>3. Place(p)' BY <1>0, <3>1, <3>2 DEF Place
    <3> QED BY <2>1, <3>3
  <2> QED BY <1>3, <2>2, <2>3, <2>4, <2>5, <2>6, <2>7, <2>8, <2>9
          DEF Step, Working, Served, Rename, SaveFails, Die
<1> QED BY <1>1, <1>2, <1>3 DEF Next, Step, vars

(* What the stamps and histories of the other Loads see of a step: it is   *)
(* the package manager's, or some Load's; and that Load ends, reads the    *)
(* time of a directory, or leaves its stamp and its histories alone.       *)
LEMMA StampMoves ==
  ASSUME TypeOK, [Next]_vars
  PROVE  \/ \E f \in Fonts : Add(f) \/ Remove(f) \/ Complete(f)
         \/ \E p \in Procs : UNCHANGED fsVars /\ Over(p)
         \/ \E p \in Procs : fingerprintDirs(p)
         \/ UNCHANGED <<fsVars, fp, histVars>>
<1>1. ASSUME NEW p \in Procs, Step(p), ~Over(p), ~fingerprintDirs(p)
      PROVE  UNCHANGED <<fsVars, fp, histVars>>
  <2>1. UNCHANGED fsVars BY <1>1, StepFacts
  <2>2. CASE Scanned(p) BY <1>1, <2>1, <2>2, SaveFacts
  <2>3. CASE Start(p) \/ loadIndex(p) \/ List(p) \/ \E f \in Fonts : Read(p, f) \/ Write(p, f)
    BY <2>1, <2>3 DEF Start, loadIndex, List, ListDir, Read, Write
  <2> QED BY <1>1, <2>2, <2>3 DEF Step, Working, Served, Rename, SaveFails, Die
<1>2. ASSUME NEW p \in Procs, Step(p) PROVE UNCHANGED fsVars BY <1>2, StepFacts
<1> QED BY <1>1, <1>2 DEF Next, Step, vars, procVars

(* Every step keeps the stamps behind the directories.                     *)
LEMMA ClockStep ==
  ASSUME TypeOK, PlaceInv, ClockInv, [Next]_vars
  PROVE  ClockInv'
<1>0. /\ \A d \in Dirs : mtime[d] <= changes /\ mtime[d] \in Nat
      /\ \A p \in Procs : fp[p] \in Stamps
      /\ \A p \in Procs : \A d \in DOMAIN fp[p] : d \in Dirs /\ fp[p][d] \in Nat /\ fp[p][d] <= mtime[d]
      /\ \A d \in DOMAIN index.fp : d \in Dirs /\ index.fp[d] \in Nat /\ index.fp[d] <= mtime[d]
  <2>1. index.fp \in Stamps BY DEF TypeOK, DirType
  <2>2. \A p \in Procs : fp[p] \in Stamps BY DEF TypeOK, LoadType
  <2>3. \A d \in Dirs : mtime[d] \in Nat BY DEF TypeOK, DirType
  <2> QED BY <2>1, <2>2, <2>3, StampShape DEF ClockInv
<1>1. /\ \A d \in Dirs : mtime'[d] <= changes'
      /\ \A p \in Procs : \A d \in DOMAIN fp'[p] : fp'[p][d] <= mtime'[d]
      /\ \A d \in Dirs : mtime'[d] \in Nat /\ mtime[d] <= mtime'[d]
  <2>1. ASSUME NEW f \in Fonts, Add(f) \/ Remove(f) \/ Complete(f)
        PROVE  <1>1!:
    <3>1. /\ UNCHANGED fp
          /\ \A d \in Dirs : /\ mtime[d] \in Nat /\ mtime'[d] \in Nat /\ mtime[d] <= mtime'[d]
                             /\ mtime[d] <= changes => mtime'[d] <= changes'
      BY <2>1, ChangeStep DEF procVars
    <3>2. ASSUME NEW p \in Procs, NEW d \in DOMAIN fp[p] PROVE fp[p][d] <= mtime'[d]
      <4>1. d \in Dirs /\ fp[p][d] \in Nat /\ fp[p][d] <= mtime[d] BY <1>0
      <4> QED BY <3>1, <4>1
    <3> QED BY <1>0, <3>1, <3>2
  <2>2. ASSUME NEW p \in Procs, UNCHANGED fsVars, Over(p) PROVE <1>1!:
    <3>1. fp'[p] = NoStamp /\ \A q \in Procs \ {p} : fp'[q] = fp[q]
      BY <2>2, OverFacts DEF TypeOK, Same
    <3>2. \A q \in Procs : \A d \in DOMAIN fp'[q] : fp'[q][d] <= mtime[d]
      BY <1>0, <3>1, StampShape
    <3> QED BY <1>0, <2>2, <3>2 DEF fsVars
  <2>3. ASSUME NEW p \in Procs, fingerprintDirs(p) PROVE <1>1!:
    <3>1. /\ UNCHANGED <<mtime, changes>> /\ \A q \in Procs \ {p} : fp'[q] = fp[q]
      BY <2>3, FingerFacts, StepFacts DEF fsVars, Step, Working, Same
    <3>2. PICK n \in Dirs :
            /\ DOMAIN fp'[p] = DOMAIN fp[p] \cup {n}
            /\ fp'[p][n] = mtime[n] /\ \A e \in DOMAIN fp[p] : fp'[p][e] = fp[p][e]
      BY <2>3, FingerFacts
    <3>3. mtime[n] <= mtime[n] BY <1>0
    <3> QED BY <1>0, <3>1, <3>2, <3>3
  <2>4. CASE UNCHANGED <<fsVars, fp, histVars>> BY <1>0, <2>4 DEF fsVars
  <2> QED BY <2>1, <2>2, <2>3, <2>4, StampMoves
<1>2. \A d \in DOMAIN index'.fp : index'.fp[d] <= mtime'[d]
  <2>1. CASE UNCHANGED index
    <3> SUFFICES ASSUME NEW d \in DOMAIN index.fp PROVE index.fp[d] <= mtime'[d] BY <2>1
    <3>1. d \in Dirs /\ index.fp[d] \in Nat /\ index.fp[d] <= mtime[d] BY <1>0
    <3> QED BY <1>0, <1>1, <3>1
  <2>2. ASSUME NEW p \in Procs, Rename(p) PROVE <1>2!:
    <3>1. index' = tmp[p] /\ tmp[p].fp = fp[p] /\ UNCHANGED mtime
      BY <2>2 DEF Rename, PlaceInv, fsVars
    <3> QED BY <1>0, <3>1
  <2>3. UNCHANGED index \/ \E p \in Procs : Rename(p)
    <3>1. ASSUME NEW f \in Fonts, Add(f) \/ Remove(f) \/ Complete(f) PROVE UNCHANGED index
      BY <3>1, ChangeStep
    <3>2. ASSUME NEW p \in Procs, Step(p), ~Rename(p) PROVE UNCHANGED index
      BY <3>2 DEF Step, Working, Start, fingerprintDirs, ReadTime, loadIndex, Served, List, ListDir,
                  Scanned, Read, Write, SaveFails, Die
    <3> QED BY <3>1, <3>2 DEF Next, Step, vars
  <2> QED BY <2>1, <2>2, <2>3
<1> QED BY <1>1, <1>2 DEF ClockInv

(* Every step keeps the histories those of the time read.                  *)
LEMMA PastStep ==
  ASSUME TypeOK, PlaceInv, PastInv, [Next]_vars
  PROVE  PastInv'
<1>0. /\ always \in [Procs -> SUBSET Fonts] /\ ever \in [Procs -> SUBSET Fonts]
      /\ files \subseteq Fonts /\ names \subseteq Fonts
  BY DEF TypeOK, LoadType, DirType
<1>1. ASSUME NEW f \in Fonts, Add(f) \/ Complete(f) PROVE PastInv'
  <2>1. UNCHANGED fp BY <1>1, ChangeStep DEF procVars
  <2>2. CASE Appears(f)
    <3>1. /\ files' = files \cup {f} /\ UNCHANGED always
          /\ \A p \in Procs : ever'[p] = IF home[f] \in DOMAIN fp[p] THEN ever[p] \cup {f} ELSE ever[p]
      BY <1>0, <2>2 DEF Appears, Past
    <3> QED BY <2>1, <3>1 DEF PastInv
  <2>3. CASE UNCHANGED <<files, histVars>> BY <2>1, <2>3 DEF PastInv, histVars
  <2> QED BY <1>1, <2>2, <2>3 DEF Add, Complete
<1>2. ASSUME NEW f \in Fonts, Remove(f) PROVE PastInv'
  <2>1. /\ UNCHANGED <<fp, ever>> /\ files' = files \ {f}
        /\ \A p \in Procs : always'[p] = always[p] \ {f}
    BY <1>0, <1>2, ChangeStep DEF Remove, procVars
  <2> QED BY <2>1 DEF PastInv
<1>3. ASSUME NEW p \in Procs, UNCHANGED fsVars, Over(p) PROVE PastInv'
  <2>1. /\ fp'[p] = NoStamp /\ always'[p] = {} /\ ever'[p] = {} /\ UNCHANGED files
        /\ \A q \in Procs \ {p} : fp'[q] = fp[q] /\ always'[q] = always[q] /\ ever'[q] = ever[q]
    BY <1>3, OverFacts DEF TypeOK, Same, fsVars
  <2> QED BY <2>1, StampShape DEF PastInv
<1>4. ASSUME NEW p \in Procs, fingerprintDirs(p) PROVE PastInv'
  <2>1. /\ UNCHANGED files
        /\ \A q \in Procs \ {p} : fp'[q] = fp[q] /\ always'[q] = always[q] /\ ever'[q] = ever[q]
    BY <1>4, FingerFacts, StepFacts DEF fsVars, Step, Working, Same
  <2>2. PICK n \in Dirs :
          /\ DOMAIN fp'[p] = DOMAIN fp[p] \cup {n}
          /\ always'[p] = always[p] \cup In(n, files) /\ ever'[p] = ever[p] \cup In(n, files)
    BY <1>4, FingerFacts
  <2>3. \A f \in In(n, files) : f \in files /\ home[f] = n BY DEF In
  <2>4. \A f \in files : home[f] = n => f \in In(n, files) BY DEF In
  <2> QED BY <2>1, <2>2, <2>3, <2>4 DEF PastInv
<1>5. CASE UNCHANGED <<fsVars, fp, histVars>> BY <1>5 DEF PastInv, fsVars, histVars
<1> QED BY <1>1, <1>2, <1>3, <1>4, <1>5, StampMoves

-----------------------------------------------------------------------------
(* What was found under a stamp stays true of it.                          *)

(* A set of fonts found under a stamp that is not ahead stays sound,       *)
(* whatever is installed, removed or read.                                 *)
LEMMA SoundStays ==
  ASSUME TypeOK, PlaceInv, PastInv, [Next]_vars,
         NEW t \in Stamps, NEW S, \A d \in DOMAIN t : t[d] <= mtime[d], Sound(t, S)
  PROVE  Sound(t, S)'
<1>0. /\ \A d \in DOMAIN t : d \in Dirs /\ t[d] \in Nat
      /\ always \in [Procs -> SUBSET Fonts] /\ ever \in [Procs -> SUBSET Fonts]
  BY StampShape DEF TypeOK, LoadType
<1>1. ASSUME NEW f \in Fonts, Add(f) \/ Remove(f) \/ Complete(f) PROVE Sound(t, S)'
  <2>1. /\ UNCHANGED fp /\ home[f] \in Dirs
        /\ Add(f) \/ Remove(f) => mtime'[home[f]] = mtime[home[f]] + 1
        /\ \A d \in Dirs : d # home[f] \/ Complete(f) => mtime'[d] = mtime[d]
        /\ \A d \in Dirs : mtime[d] \in Nat
    BY <1>1, ChangeStep DEF procVars
  <2>2. /\ \A p \in Procs : ever[p] \subseteq ever'[p]
        /\ \A g \in files : g \in files' \/ (Remove(f) /\ g = f)
    <3>1. Appears(f) => \A p \in Procs : ever[p] \subseteq ever'[p] BY <1>0 DEF Appears
    <3>2. CASE Add(f) \/ Complete(f)
      <4>1. files \subseteq files' BY <3>2 DEF Add, Complete, Appears
      <4> QED BY <3>1, <3>2, <4>1 DEF Add, Complete, histVars
    <3>3. CASE Remove(f) BY <3>3 DEF Remove
    <3> QED BY <1>1, <3>2, <3>3
  <2>3. ASSUME NEW d \in DOMAIN t, t[d] = mtime'[d] PROVE In(d, S) \subseteq files'
    <3>1. CASE d = home[f] /\ (Add(f) \/ Remove(f))
      <4>1. mtime'[d] = mtime[d] + 1 /\ mtime[d] \in Nat /\ t[d] \in Nat /\ t[d] <= mtime[d]
        BY <1>0, <2>1, <3>1
      <4> QED BY <2>3, <4>1
    <3>2. CASE d # home[f] \/ ~(Add(f) \/ Remove(f))
      <4>1. mtime'[d] = mtime[d] BY <1>0, <1>1, <2>1, <3>2
      <4>2. In(d, S) \subseteq files BY <2>3, <4>1 DEF Sound
      <4> QED BY <2>2, <3>2, <4>2 DEF In
    <3> QED BY <3>1, <3>2
  <2>4. ASSUME NEW d \in DOMAIN t, NEW p \in Procs, d \in DOMAIN fp'[p], fp'[p][d] = t[d]
        PROVE  In(d, S) \subseteq ever'[p]
    BY <2>1, <2>2, <2>4 DEF Sound
  <2> QED BY <2>3, <2>4 DEF Sound
<1>2. ASSUME NEW p \in Procs, UNCHANGED fsVars, Over(p) PROVE Sound(t, S)'
  <2>1. /\ fp'[p] = NoStamp /\ UNCHANGED <<files, mtime>>
        /\ \A q \in Procs \ {p} : fp'[q] = fp[q] /\ ever'[q] = ever[q]
    BY <1>2, OverFacts DEF TypeOK, Same, fsVars
  <2>2. ASSUME NEW d \in DOMAIN t, NEW q \in Procs, d \in DOMAIN fp'[q], fp'[q][d] = t[d]
        PROVE  In(d, S) \subseteq ever'[q]
    <3>1. q # p BY <2>1, <2>2, StampShape
    <3> QED BY <2>1, <2>2, <3>1 DEF Sound
  <2>3. \A d \in DOMAIN t : t[d] = mtime'[d] => In(d, S) \subseteq files' BY <2>1 DEF Sound
  <2> QED BY <2>2, <2>3 DEF Sound
<1>3. ASSUME NEW p \in Procs, fingerprintDirs(p) PROVE Sound(t, S)'
  <2>1. /\ UNCHANGED <<files, mtime>>
        /\ \A q \in Procs \ {p} : fp'[q] = fp[q] /\ ever'[q] = ever[q]
    BY <1>3, FingerFacts, StepFacts DEF fsVars, Step, Working, Same
  <2>4. PICK n \in Dirs :
          /\ DOMAIN fp'[p] = DOMAIN fp[p] \cup {n}
          /\ fp'[p][n] = mtime[n] /\ \A e \in DOMAIN fp[p] : fp'[p][e] = fp[p][e]
          /\ ever'[p] = ever[p] \cup In(n, files)
    BY <1>3, FingerFacts
  <2>2. ASSUME NEW d \in DOMAIN t, NEW q \in Procs, d \in DOMAIN fp'[q], fp'[q][d] = t[d]
        PROVE  In(d, S) \subseteq ever'[q]
    <3>1. CASE q # p BY <2>1, <2>2, <3>1 DEF Sound
    <3>2. CASE q = p /\ d \in DOMAIN fp[p]
      <4>1. In(d, S) \subseteq ever[p] BY <2>2, <2>4, <3>2 DEF Sound
      <4> QED BY <2>4, <3>2, <4>1
    <3>3. CASE q = p /\ d = n
      <4>1. In(d, S) \subseteq files BY <2>1, <2>2, <2>4, <3>3 DEF Sound
      <4> QED BY <2>4, <3>3, <4>1 DEF In
    <3> QED BY <2>2, <2>4, <3>1, <3>2, <3>3
  <2>3. \A d \in DOMAIN t : t[d] = mtime'[d] => In(d, S) \subseteq files' BY <2>1 DEF Sound
  <2> QED BY <2>2, <2>3 DEF Sound
<1>4. CASE UNCHANGED <<fsVars, fp, histVars>> BY <1>4 DEF Sound, fsVars, histVars
<1> QED BY <1>1, <1>2, <1>3, <1>4, StampMoves

(* ... and stays whole.                                                    *)
LEMMA WholeStays ==
  ASSUME TypeOK, PlaceInv, PastInv, [Next]_vars,
         NEW t \in Stamps, NEW S, NEW D \in SUBSET (DOMAIN t),
         \A d \in DOMAIN t : t[d] <= mtime[d], Whole(t, S, D)
  PROVE  Whole(t, S, D)'
<1>0. /\ \A d \in D : d \in Dirs /\ t[d] \in Nat /\ t[d] <= mtime[d]
      /\ always \in [Procs -> SUBSET Fonts]
  BY StampShape DEF TypeOK, LoadType
<1>1. ASSUME NEW f \in Fonts, Add(f) \/ Remove(f) \/ Complete(f) PROVE Whole(t, S, D)'
  <2>1. /\ UNCHANGED fp /\ home[f] \in Dirs
        /\ Add(f) \/ Remove(f) => mtime'[home[f]] = mtime[home[f]] + 1
        /\ \A d \in Dirs : d # home[f] \/ Complete(f) => mtime'[d] = mtime[d]
        /\ \A d \in Dirs : mtime[d] \in Nat
    BY <1>1, ChangeStep DEF procVars
  <2>2. /\ \A p \in Procs : always'[p] \ late' \subseteq always[p] \ late
        /\ \A g \in files' \ late' : g \in files \ late \/ (Add(f) /\ g = f)
    <3>1. CASE Add(f) BY <3>1 DEF Add, Appears, histVars
    <3>2. CASE Complete(f) BY <3>2 DEF Complete, Appears
    <3>3. CASE Remove(f) BY <1>0, <3>3 DEF Remove
    <3> QED BY <1>1, <3>1, <3>2, <3>3
  <2>3. ASSUME NEW d \in D, t[d] = mtime'[d] PROVE In(d, files' \ late') \subseteq S
    <3>1. CASE d = home[f] /\ (Add(f) \/ Remove(f))
      <4>1. mtime'[d] = mtime[d] + 1 /\ mtime[d] \in Nat /\ t[d] \in Nat /\ t[d] <= mtime[d]
        BY <1>0, <2>1, <3>1
      <4> QED BY <2>3, <4>1
    <3>2. CASE d # home[f] \/ ~(Add(f) \/ Remove(f))
      <4>1. mtime'[d] = mtime[d] BY <1>0, <1>1, <2>1, <3>2
      <4>2. In(d, files \ late) \subseteq S BY <2>3, <4>1 DEF Whole
      <4> QED BY <2>2, <3>2, <4>2 DEF In
    <3> QED BY <3>1, <3>2
  <2>4. ASSUME NEW d \in D, NEW p \in Procs, d \in DOMAIN fp'[p], fp'[p][d] = t[d]
        PROVE  In(d, always'[p] \ late') \subseteq S
    <3>1. In(d, always[p] \ late) \subseteq S BY <2>1, <2>4 DEF Whole
    <3> QED BY <2>2, <3>1 DEF In
  <2> QED BY <2>3, <2>4 DEF Whole
<1>2. ASSUME NEW p \in Procs, UNCHANGED fsVars, Over(p) PROVE Whole(t, S, D)'
  <2>1. /\ fp'[p] = NoStamp /\ UNCHANGED <<files, late, mtime>>
        /\ \A q \in Procs \ {p} : fp'[q] = fp[q] /\ always'[q] = always[q]
    BY <1>2, OverFacts DEF TypeOK, Same, fsVars
  <2>2. ASSUME NEW d \in D, NEW q \in Procs, d \in DOMAIN fp'[q], fp'[q][d] = t[d]
        PROVE  In(d, always'[q] \ late') \subseteq S
    <3>1. q # p BY <2>1, <2>2, StampShape
    <3> QED BY <2>1, <2>2, <3>1 DEF Whole
  <2>3. \A d \in D : t[d] = mtime'[d] => In(d, files' \ late') \subseteq S BY <2>1 DEF Whole
  <2> QED BY <2>2, <2>3 DEF Whole
<1>3. ASSUME NEW p \in Procs, fingerprintDirs(p) PROVE Whole(t, S, D)'
  <2>1. /\ UNCHANGED <<files, late, mtime>>
        /\ \A q \in Procs \ {p} : fp'[q] = fp[q] /\ always'[q] = always[q]
    BY <1>3, FingerFacts, StepFacts DEF fsVars, Step, Working, Same
  <2>4. PICK n \in Dirs :
          /\ DOMAIN fp'[p] = DOMAIN fp[p] \cup {n} /\ n \notin DOMAIN fp[p]
          /\ fp'[p][n] = mtime[n] /\ \A e \in DOMAIN fp[p] : fp'[p][e] = fp[p][e]
          /\ always'[p] = always[p] \cup In(n, files)
    BY <1>3, FingerFacts
  <2>2. ASSUME NEW d \in D, NEW q \in Procs, d \in DOMAIN fp'[q], fp'[q][d] = t[d]
        PROVE  In(d, always'[q] \ late') \subseteq S
    <3>1. CASE q # p BY <2>1, <2>2, <3>1 DEF Whole
    <3>2. CASE q = p /\ d \in DOMAIN fp[p]
      <4>1. In(d, always[p] \ late) \subseteq S BY <2>2, <2>4, <3>2 DEF Whole
      <4>2. d # n BY <2>4, <3>2
      <4> QED BY <2>1, <2>4, <3>2, <4>1, <4>2 DEF In
    <3>3. CASE q = p /\ d = n
      <4>1. In(d, files \ late) \subseteq S BY <2>1, <2>2, <2>4, <3>3 DEF Whole
      <4>2. always'[p] \subseteq files' BY PastStep DEF PastInv
      <4> QED BY <2>1, <3>3, <4>1, <4>2 DEF In
    <3> QED BY <2>2, <2>4, <3>1, <3>2, <3>3
  <2>3. \A d \in D : t[d] = mtime'[d] => In(d, files' \ late') \subseteq S BY <2>1 DEF Whole
  <2> QED BY <2>2, <2>3 DEF Whole
<1>4. CASE UNCHANGED <<fsVars, fp, histVars>> BY <1>4 DEF Whole, fsVars, histVars
<1> QED BY <1>1, <1>2, <1>3, <1>4, StampMoves


(* A smaller set is as sound, a larger one as whole.                       *)
LEMMA Monotone ==
  ASSUME NEW t, NEW S, NEW R, NEW D
  PROVE  /\ Sound(t, S) /\ R \subseteq S => Sound(t, R)
         /\ Whole(t, S, D) /\ S \subseteq R => Whole(t, R, D)
<1>1. ASSUME R \subseteq S, NEW d PROVE In(d, R) \subseteq In(d, S) BY <1>1 DEF In
<1>2. ASSUME Sound(t, S), R \subseteq S PROVE Sound(t, R)
  <2>1. \A d : In(d, R) \subseteq In(d, S) BY <1>1, <1>2
  <2> QED BY <1>2, <2>1 DEF Sound
<1>3. ASSUME Whole(t, S, D), S \subseteq R PROVE Whole(t, R, D) BY <1>3 DEF Whole
<1> QED BY <1>2, <1>3

-----------------------------------------------------------------------------
(* What a scan has found.                                                  *)

(* A Load that scans has just begun to, lists, reads, or keeps its finds.  *)
LEMMA ScanMoves ==
  ASSUME TypeOK, PlaceInv, [Next]_vars, NEW q \in Procs, Scanning(q)'
  PROVE  /\ fp'[q] = fp[q] /\ given'[q] = given[q]
         /\ \/ /\ Scanning(q) /\ at'[q] = at[q] /\ todo'[q] = todo[q] /\ db'[q] = db[q]
               /\ ~fingerprintDirs(q)
            \/ loadIndex(q) /\ at'[q] = 1 /\ Behind(q)' = {} /\ db'[q] = {} /\ todo'[q] = {}
            \/ List(q)
            \/ \E f \in Fonts : Read(q, f)
<1>0. LoadType BY DEF TypeOK
<1>1. ASSUME NEW f \in Fonts, Add(f) \/ Remove(f) \/ Complete(f)
      PROVE  UNCHANGED <<pc, given, at, fp, todo, db>> /\ ~fingerprintDirs(q)
  <2>1. UNCHANGED <<pc, given, at, fp, todo, db>> BY <1>1, ChangeStep DEF procVars
  <2>2. pc'[q] # "finger" BY DEF Scanning
  <2> QED BY <2>1, <2>2 DEF fingerprintDirs, ReadTime
<1>2. CASE UNCHANGED vars BY <1>2 DEF vars, procVars, Scanning, fingerprintDirs, ReadTime
<1>3. ASSUME NEW p \in Procs \ {q}, Step(p)
      PROVE  /\ pc'[q] = pc[q] /\ given'[q] = given[q] /\ at'[q] = at[q] /\ fp'[q] = fp[q] /\ todo'[q] = todo[q]
             /\ db'[q] = db[q]
  BY <1>3, StepFacts DEF Same
<1>4. CASE Step(q)
  <2>1. ~Over(q) BY <1>0, OverFacts DEF Scanning
  <2>2. ~Start(q) BY <1>0 DEF Start, Goto, LoadType, Scanning
  <2>3. ~fingerprintDirs(q)
    <3>1. fingerprintDirs(q) => pc'[q] = "finger" BY FingerFacts
    <3> QED BY <3>1 DEF Scanning
  <2>4. CASE loadIndex(q)
    <3>1. todo[q] = {} BY <2>4, LoadFacts DEF PlaceInv
    <3> QED BY <2>4, <3>1, LoadFacts DEF Scanning
  <2>5. CASE List(q) BY <2>5, ListFacts
  <2>6. ASSUME NEW f \in Fonts, Read(q, f) PROVE fp'[q] = fp[q] /\ given'[q] = given[q]
    BY <2>6, FileFacts
  <2>7. ASSUME NEW f \in Fonts, Write(q, f)
        PROVE  /\ fp'[q] = fp[q] /\ given'[q] = given[q] /\ Scanning(q) /\ at'[q] = at[q] /\ todo'[q] = todo[q]
               /\ db'[q] = db[q]
    BY <2>7, WriteFacts DEF Scanning
  <2>8. CASE Scanned(q) BY <2>1, <2>3, <2>8, SaveFacts DEF Scanning
  <2> QED BY <1>4, <2>1, <2>2, <2>3, <2>4, <2>5, <2>6, <2>7, <2>8
          DEF Step, Working, Served, Rename, SaveFails, Die
<1>5. ASSUME pc'[q] = pc[q] PROVE Scanning(q) /\ ~fingerprintDirs(q)
  BY <1>5 DEF Scanning, fingerprintDirs, ReadTime
<1> QED BY <1>1, <1>2, <1>3, <1>4, <1>5 DEF Next, Step, Scanning

(* Every step keeps what the scans have found sound and whole.             *)
LEMMA ScanStep ==
  ASSUME TypeOK, PlaceInv, ClockInv, PastInv, ScanInv, [Next]_vars
  PROVE  ScanInv'
<1> SUFFICES ASSUME NEW q \in Procs, Scanning(q)'
             PROVE  /\ Sound(fp[q], db[q])'
                    /\ Whole(fp[q], db[q] \cup todo[q], Behind(q))'
  BY DEF ScanInv, Scanning
<1>0. /\ fp[q] \in Stamps
      /\ \A d \in DOMAIN fp[q] : fp[q][d] <= mtime[d]
      /\ late \subseteq files /\ files \subseteq names /\ names \subseteq Fonts
  BY DEF TypeOK, DirType, LoadType, ClockInv
<1>1. PICK t \in Stamps : t = fp[q] BY <1>0
<1>2. PICK S : S = db[q] OBVIOUS
<1>3. PICK U : U = db[q] \cup todo[q] OBVIOUS
<1>4. PICK B : B = Behind(q) OBVIOUS
<1>5. fp'[q] = t /\ given'[q] = given[q] BY <1>1, ScanMoves
<1>6. ASSUME Scanning(q)
      PROVE  Sound(t, S) /\ Sound(t, S)' /\ Whole(t, U, B) /\ Whole(t, U, B)'
  <2>1. DOMAIN t = given[q] BY <1>1, <1>6 DEF PlaceInv, Scanning
  <2>2. B \in SUBSET DOMAIN t BY <1>4, <2>1 DEF Behind
  <2>3. Sound(t, S) /\ Whole(t, U, B) BY <1>1, <1>2, <1>3, <1>4, <1>6 DEF ScanInv
  <2>4. \A d \in DOMAIN t : t[d] <= mtime[d] BY <1>0, <1>1
  <2>5. Sound(t, S)' BY <2>3, <2>4, SoundStays
  <2>6. Whole(t, U, B)' BY <2>2, <2>3, <2>4, WholeStays
  <2> QED BY <2>3, <2>5, <2>6
<1>7. CASE Scanning(q) /\ at'[q] = at[q] /\ todo'[q] = todo[q] /\ db'[q] = db[q]
  <2>1. Behind(q)' = B BY <1>4, <1>5, <1>7 DEF Behind
  <2>2. db'[q] = S /\ db'[q] \cup todo'[q] = U BY <1>2, <1>3, <1>7
  <2> QED BY <1>5, <1>6, <1>7, <2>1, <2>2
<1>8. CASE Behind(q)' = {} /\ db'[q] = {} /\ todo'[q] = {}
  BY <1>8 DEF Sound, Whole, In
<1>9. CASE List(q)
  <2>1. PICK n \in given[q] : todo'[q] = In(n, names) /\ Behind(q)' = B \cup {n}
    BY <1>4, <1>9, ListFacts
  <2>2. Scanning(q) /\ db'[q] = S /\ S = U
    BY <1>2, <1>3, <1>9, ListFacts DEF Scanning
  <2>3. PICK V : V = U \cup In(n, names) OBVIOUS
  <2>4. Whole(t, V, B)'
    <3>1. U \subseteq V BY <2>3
    <3>2. Whole(t, U, B)' BY <1>6, <2>2
    <3> QED BY <3>1, <3>2 DEF Whole
  <2>5. UNCHANGED fsVars BY <1>9 DEF List, ListDir
  <2>6. In(n, files' \ late') \subseteq V BY <1>0, <2>3, <2>5 DEF In, fsVars
  <2>7. \A p \in Procs : In(n, always'[p] \ late') \subseteq V
    <3>1. \A p \in Procs : always'[p] \subseteq files' BY PastStep DEF PastInv
    <3> QED BY <1>0, <2>3, <2>5, <3>1 DEF In, fsVars
  <2>8. Whole(t, V, B \cup {n})' BY <2>4, <2>6, <2>7 DEF Whole
  <2>9. db'[q] \cup todo'[q] = V BY <2>1, <2>2, <2>3
  <2>10. Sound(t, S)' BY <1>6, <2>2
  <2> QED BY <1>5, <2>1, <2>2, <2>8, <2>9, <2>10
<1>10. ASSUME NEW f \in Fonts, Read(q, f)
       PROVE  /\ Sound(fp[q], db[q])'
              /\ Whole(fp[q], db[q] \cup todo[q], Behind(q))'
  <2>1. PICK R : R = IF f \in files THEN S \cup {f} ELSE S OBVIOUS
  <2>2. PICK V : V = IF f \in files THEN U ELSE S \cup (U \ {f}) OBVIOUS
  <2>0. Behind(q)' = B
    <3>1. at'[q] = at[q] BY <1>10, FileFacts
    <3> QED BY <1>4, <1>5, <3>1 DEF Behind
  <2>3. /\ Scanning(q) /\ db'[q] = R
        /\ V \subseteq db'[q] \cup todo'[q]
        /\ UNCHANGED <<fp, histVars>>
    BY <1>2, <1>3, <1>10, <2>1, <2>2, FileFacts DEF Scanning
  <2>4. UNCHANGED <<files, late, mtime, always, ever, fp>>
    BY <1>10, <2>3 DEF Read, fsVars, histVars
  <2>5. Sound(t, R)'
    <3>1. ASSUME NEW d \in DOMAIN t, t[d] = mtime[d] PROVE In(d, R) \subseteq files
      <4>1. In(d, S) \subseteq files BY <1>6, <2>3, <3>1 DEF Sound
      <4> QED BY <2>1, <4>1 DEF In
    <3>2. ASSUME NEW d \in DOMAIN t, NEW p \in Procs, d \in DOMAIN fp[p], fp[p][d] = t[d]
          PROVE  In(d, R) \subseteq ever[p]
      <4>1. In(d, S) \subseteq ever[p] BY <1>6, <2>3, <3>2 DEF Sound
      <4>2. f \in files /\ home[f] = d => f \in ever[p] BY <3>2 DEF PastInv
      <4> QED BY <2>1, <4>1, <4>2 DEF In
    <3> QED BY <2>4, <3>1, <3>2 DEF Sound
  <2>6. Whole(t, V, B)'
    <3>1. \A g \in files : g \in U => g \in V BY <1>2, <1>3, <2>2
    <3>2. ASSUME NEW d \in B, t[d] = mtime[d] PROVE In(d, files \ late) \subseteq V
      <4>1. In(d, files \ late) \subseteq U BY <1>6, <2>3, <3>2 DEF Whole
      <4> QED BY <3>1, <4>1 DEF In
    <3>3. ASSUME NEW d \in B, NEW p \in Procs, d \in DOMAIN fp[p], fp[p][d] = t[d]
          PROVE  In(d, always[p] \ late) \subseteq V
      <4>1. In(d, always[p] \ late) \subseteq U BY <1>6, <2>3, <3>3 DEF Whole
      <4>2. always[p] \subseteq files BY DEF PastInv
      <4> QED BY <3>1, <4>1, <4>2 DEF In
    <3> QED BY <2>4, <3>2, <3>3 DEF Whole
  <2>7. PICK W : W = db'[q] \cup todo'[q] OBVIOUS
  <2>8. Whole(t, W, B)' BY <2>3, <2>6, <2>7 DEF Whole
  <2> QED BY <1>5, <2>0, <2>3, <2>5, <2>7, <2>8
<1> QED BY <1>7, <1>8, <1>9, <1>10, ScanMoves

-----------------------------------------------------------------------------
(* What the index holds, and what a Load has for itself.                   *)

(* Every step keeps the index as good as a scan.                           *)
LEMMA IndexStep ==
  ASSUME TypeOK, PlaceInv, ClockInv, PastInv, ScanInv, IndexInv, OwnInv, [Next]_vars
  PROVE  IndexInv'
<1>1. ASSUME NEW t \in Stamps, NEW S, NEW D \in SUBSET (DOMAIN t),
             \A d \in DOMAIN t : t[d] <= mtime[d], Sound(t, S), Whole(t, S \cup Awkward, D)
      PROVE  Sound(t, S)' /\ Whole(t, S \cup Awkward, D)'
  <2>1. Sound(t, S)' BY <1>1, SoundStays
  <2>2. PICK V : V = S \cup Awkward OBVIOUS
  <2>3. Whole(t, V, D)' BY <1>1, <2>2, WholeStays
  <2> QED BY <2>1, <2>2, <2>3
<1>2. CASE UNCHANGED index
  <2>1. PICK t \in Stamps : t = index.fp BY DEF TypeOK, DirType
  <2>2. PICK S : S = index.fonts OBVIOUS
  <2>3. \A d \in DOMAIN t : t[d] <= mtime[d] BY <2>1 DEF ClockInv
  <2>4. Sound(t, S) /\ Whole(t, S \cup Awkward, DOMAIN t) BY <2>1, <2>2 DEF IndexInv
  <2>5. Sound(t, S)' /\ Whole(t, S \cup Awkward, DOMAIN t)' BY <1>1, <2>3, <2>4
  <2>6. index'.fp = t /\ index'.fonts = S BY <1>2, <2>1, <2>2
  <2>7. \A f \in S : home[f] \in DOMAIN t BY <2>1, <2>2 DEF IndexInv
  <2> QED BY <2>5, <2>6, <2>7 DEF IndexInv
<1>3. ASSUME NEW p \in Procs, Rename(p) PROVE IndexInv'
  <2>1. PICK t \in Stamps : t = fp[p] BY DEF TypeOK, LoadType
  <2>2. PICK S : S = db[p] \ Awkward OBVIOUS
  <2>3. /\ Scanning(p) /\ Ahead(p) = {} /\ todo[p] = {} /\ DOMAIN t = given[p]
        /\ index'.fp = t /\ index'.fonts = S
    BY <1>3, <2>1, <2>2 DEF Rename, Flushed, Storable, PlaceInv, Scanning
  <2>4. Behind(p) = DOMAIN t BY <2>3, AllBehind
  <2>5. \A d \in DOMAIN t : t[d] <= mtime[d] BY <2>1 DEF ClockInv
  <2>6. Sound(t, db[p]) /\ Whole(t, db[p], DOMAIN t) BY <2>1, <2>3, <2>4 DEF ScanInv
  <2>7. S \subseteq db[p] /\ db[p] \subseteq S \cup Awkward BY <2>2
  <2>8. Sound(t, S) /\ Whole(t, S \cup Awkward, DOMAIN t) BY <2>6, <2>7, Monotone
  <2>9. Sound(t, S)' /\ Whole(t, S \cup Awkward, DOMAIN t)' BY <1>1, <2>5, <2>8
  <2>10. \A f \in S : home[f] \in DOMAIN t
    <3>1. db[p] \subseteq ever[p] BY <2>3 DEF OwnInv
    <3> QED BY <2>1, <2>7, <3>1 DEF PastInv
  <2> QED BY <2>3, <2>9, <2>10 DEF IndexInv
<1>4. UNCHANGED index \/ \E p \in Procs : Rename(p)
  <2>1. ASSUME NEW f \in Fonts, Add(f) \/ Remove(f) \/ Complete(f) PROVE UNCHANGED index
    BY <2>1, ChangeStep
  <2>2. ASSUME NEW p \in Procs, Step(p), ~Rename(p) PROVE UNCHANGED index
    BY <2>2 DEF Step, Working, Start, fingerprintDirs, ReadTime, loadIndex, Served, List, ListDir,
                Scanned, Read, Write, SaveFails, Die
  <2> QED BY <2>1, <2>2 DEF Next, Step, vars
<1> QED BY <1>2, <1>3, <1>4

(* A Load's histories are its own: while it does not read the time of a    *)
(* directory, nothing joins always, nothing leaves ever but by its end,    *)
(* and what stops being late is no longer always there.                    *)
LEMMA OwnPast ==
  ASSUME TypeOK, PlaceInv, [Next]_vars, NEW q \in Procs, pc'[q] # "idle", ~fingerprintDirs(q)
  PROVE  /\ always'[q] \subseteq always[q] /\ ever[q] \subseteq ever'[q]
         /\ always'[q] \ late' \subseteq always[q] \ late
<1>0. /\ LoadType /\ always \in [Procs -> SUBSET Fonts] /\ ever \in [Procs -> SUBSET Fonts]
  BY DEF TypeOK, LoadType
<1>1. ASSUME NEW f \in Fonts, Add(f) \/ Complete(f)
      PROVE  /\ always'[q] = always[q] /\ ever[q] \subseteq ever'[q] /\ late \subseteq late'
  <2>1. Appears(f) => always'[q] = always[q] /\ ever[q] \subseteq ever'[q] BY <1>0 DEF Appears
  <2> QED BY <1>1, <2>1 DEF Add, Complete, histVars
<1>2. ASSUME NEW f \in Fonts, Remove(f)
      PROVE  /\ always'[q] = always[q] \ {f} /\ ever'[q] = ever[q] /\ late' = late \ {f}
  BY <1>0, <1>2 DEF Remove
<1>3. ASSUME NEW p \in Procs, UNCHANGED fsVars, Over(p)
      PROVE  UNCHANGED late /\ always'[q] = always[q] /\ ever'[q] = ever[q]
  BY <1>0, <1>3, OverFacts DEF Same, fsVars
<1>4. ASSUME NEW p \in Procs, fingerprintDirs(p)
      PROVE  UNCHANGED late /\ always'[q] = always[q] /\ ever'[q] = ever[q]
  <2>1. UNCHANGED fsVars /\ p # q BY <1>4, FingerFacts
  <2> QED BY <1>4, <2>1, StepFacts DEF Step, Working, Same, fsVars
<1>5. CASE UNCHANGED <<fsVars, fp, histVars>> BY <1>5 DEF fsVars, histVars
<1> QED BY <1>1, <1>2, <1>3, <1>4, <1>5, StampMoves

(* Every step keeps what a Load will return as good as its histories ask.  *)
LEMMA OwnStep ==
  ASSUME TypeOK, PlaceInv, ClockInv, PastInv, ScanInv, IndexInv, OwnInv, [Next]_vars
  PROVE  OwnInv'
<1>0. LoadType /\ TypeOK' /\ PastInv' BY TypeStep, PastStep DEF TypeOK
<1>1. ASSUME NEW q \in Procs, Scanning(q)'
      PROVE  /\ \A f \in always'[q] : home[f] < at'[q] => f \in db'[q] \cup todo'[q]
             /\ db'[q] \subseteq ever'[q]
  <2>0. at[q] \in 1 .. NDirs + 1 /\ \A f \in always'[q] : f \in Fonts /\ home[f] \in Nat \ {0}
    BY <1>0 DEF TypeOK, LoadType, Dirs
  <2>1. ASSUME ~fingerprintDirs(q)
        PROVE  always'[q] \subseteq always[q] /\ ever[q] \subseteq ever'[q]
    BY <1>1, <2>1, OwnPast DEF Scanning
  <2>2. ASSUME Scanning(q)
        PROVE  /\ \A f \in always[q] : home[f] < at[q] => f \in db[q] \cup todo[q]
               /\ db[q] \subseteq ever[q]
    BY <2>2 DEF OwnInv
  <2>3. CASE /\ Scanning(q) /\ at'[q] = at[q] /\ todo'[q] = todo[q] /\ db'[q] = db[q]
             /\ ~fingerprintDirs(q)
    BY <2>1, <2>2, <2>3
  <2>4. CASE at'[q] = 1 /\ db'[q] = {} BY <2>0, <2>4
  <2>5. CASE List(q)
    <3>1. Scanning(q) /\ db'[q] = db[q] /\ todo[q] = {} /\ UNCHANGED histVars
      BY <2>5, ListFacts DEF Scanning
    <3>5. PICK n \in given[q] : /\ todo'[q] = In(n, names)
                               /\ \A e \in given[q] : e < at'[q] => e < at[q] \/ e = n
      BY <2>5, ListFacts
    <3>6. \A f \in always[q] : home[f] \in given[q]
      BY <3>1 DEF PastInv, PlaceInv, Scanning
    <3>2. always'[q] \subseteq files' /\ files' \subseteq names'
      BY <1>0 DEF PastInv, TypeOK, DirType
    <3>3. UNCHANGED names BY <2>5 DEF List, ListDir, fsVars
    <3>4. ASSUME NEW f \in always'[q], home[f] < at'[q] PROVE f \in db'[q] \cup todo'[q]
      <4>2. f \in always[q] BY <3>1, <3>4 DEF histVars
      <4>1. home[f] < at[q] \/ home[f] = n BY <3>4, <3>5, <3>6, <4>2
      <4> QED BY <2>2, <3>1, <3>2, <3>3, <3>4, <3>5, <4>1, <4>2 DEF In
    <3> QED BY <2>2, <3>1, <3>4 DEF histVars
  <2>6. ASSUME NEW f \in Fonts, Read(q, f)
        PROVE  /\ \A g \in always'[q] : home[g] < at'[q] => g \in db'[q] \cup todo'[q]
               /\ db'[q] \subseteq ever'[q]
    <3>1. /\ Scanning(q) /\ todo'[q] = todo[q] \ {f} /\ at'[q] = at[q]
          /\ db'[q] = IF f \in files THEN db[q] \cup {f} ELSE db[q]
          /\ UNCHANGED histVars
      BY <2>6, FileFacts DEF Scanning
    <3>2. always[q] \subseteq files BY DEF PastInv
    <3>3. f \in files => f \in ever[q]
      <4>1. f \in todo[q] BY <2>6, FileFacts
      <4>2. DOMAIN fp[q] = given[q] /\ home[f] \in given[q]
        BY <3>1, <4>1 DEF PlaceInv, Scanning
      <4> QED BY <4>2 DEF PastInv
    <3> QED BY <2>2, <3>1, <3>2, <3>3 DEF histVars
  <2> QED BY <1>1, <2>3, <2>4, <2>5, <2>6, ScanMoves
<1>2. ASSUME NEW q \in Procs, pc'[q] = "hit"
      PROVE  /\ always'[q] \ (Awkward \cup late') \subseteq db'[q]
             /\ db'[q] \subseteq ever'[q]
  <2>1. CASE pc[q] = "hit" /\ db'[q] = db[q]
    <3>1. ~fingerprintDirs(q) BY <2>1 DEF fingerprintDirs, ReadTime
    <3>2. /\ ever[q] \subseteq ever'[q] /\ always'[q] \ late' \subseteq always[q] \ late
      BY <1>2, <3>1, OwnPast
    <3>3. always[q] \ (Awkward \cup late) \subseteq db[q] /\ db[q] \subseteq ever[q]
      BY <2>1 DEF OwnInv
    <3> QED BY <2>1, <3>2, <3>3
  <2>2. CASE loadIndex(q)
    <3>1. /\ index.fp = fp[q] /\ db'[q] = index.fonts
          /\ UNCHANGED <<histVars, index>>
      BY <1>2, <2>2, LoadFacts
    <3>2. UNCHANGED late BY <2>2 DEF loadIndex, fsVars
    <3>3. \A f \in always[q] \cup index.fonts : home[f] \in DOMAIN index.fp
      BY <3>1 DEF PastInv, IndexInv
    <3>4. ASSUME NEW f \in always[q] \ (Awkward \cup late) PROVE f \in index.fonts
      <4>1. In(home[f], always[q] \ late) \subseteq index.fonts \cup Awkward
        BY <3>1, <3>3 DEF IndexInv, Whole
      <4> QED BY <4>1 DEF In
    <3>5. ASSUME NEW f \in index.fonts PROVE f \in ever[q]
      <4>1. In(home[f], index.fonts) \subseteq ever[q] BY <3>1, <3>3 DEF IndexInv, Sound
      <4> QED BY <4>1 DEF In
    <3> QED BY <3>1, <3>2, <3>4, <3>5 DEF histVars
  <2>3. (pc[q] = "hit" /\ db'[q] = db[q]) \/ loadIndex(q)
    <3>1. ASSUME NEW f \in Fonts, Add(f) \/ Remove(f) \/ Complete(f) PROVE <2>3!:
      BY <1>2, <3>1, ChangeStep DEF procVars
    <3>2. ASSUME NEW p \in Procs \ {q}, Step(p) PROVE <2>3!:
      BY <1>2, <3>2, StepFacts DEF Same
    <3>3. CASE Step(q)
      <4>1. ~Over(q) BY <1>0, <1>2, OverFacts
      <4>2. ~Start(q) BY <1>0, <1>2 DEF Start, Goto, LoadType
      <4>3. ~fingerprintDirs(q)
        <5>1. fingerprintDirs(q) => pc'[q] = "finger" BY FingerFacts
        <5> QED BY <1>2, <5>1
      <4>4. ~List(q) BY <1>2, ListFacts
      <4>5. \A f \in Fonts : ~Read(q, f) BY <1>2, FileFacts
      <4>6. \A f \in Fonts : ~Write(q, f) BY <1>2, WriteFacts
      <4>7. ~Scanned(q) BY <1>2, <4>1, SaveFacts
      <4> QED BY <3>3, <4>1, <4>2, <4>3, <4>4, <4>5, <4>6, <4>7
              DEF Step, Working, Served, Rename, SaveFails, Die
    <3>4. CASE UNCHANGED vars BY <1>2, <3>4 DEF vars, procVars
    <3> QED BY <3>1, <3>2, <3>3, <3>4 DEF Next, Step
  <2> QED BY <2>1, <2>2, <2>3
<1> QED BY <1>1, <1>2 DEF OwnInv, Scanning

-----------------------------------------------------------------------------
(* FInv holds at first.                                                    *)
LEMMA InvInit == Init => FInv
<1> SUFFICES ASSUME Init PROVE FInv OBVIOUS
<1>1. TypeOK BY TypeInit
<1>2. /\ \A p \in Procs : /\ pc[p] = "idle" /\ at[p] = 1 /\ fp[p] = NoStamp /\ todo[p] = {}
                          /\ db[p] = {} /\ always[p] = {} /\ ever[p] = {} /\ given[p] = {}
      /\ index.fp = NoStamp /\ index.fonts = {} /\ changes = 0 /\ \A d \in Dirs : mtime[d] = 0
  BY DEF Init, NoIndex
<1>3. DOMAIN NoStamp = {} BY StampShape
<1>4. PlaceInv BY <1>2, <1>3 DEF PlaceInv, Behind
<1>5. ClockInv BY <1>2, <1>3 DEF ClockInv
<1>6. PastInv BY <1>2, <1>3 DEF PastInv
<1>7. ScanInv /\ OwnInv BY <1>2 DEF ScanInv, OwnInv, Scanning
<1>8. IndexInv BY <1>2, <1>3 DEF IndexInv, Sound, Whole
<1> QED BY <1>1, <1>4, <1>5, <1>6, <1>7, <1>8 DEF FInv

(* A set of fonts found under a stamp is as good for everybody who has the *)
(* stamp, from one change of the directories to the next.                  *)
THEOREM IndexAsGood == Spec => []FInv
<1>1. FInv /\ [Next]_vars => FInv'
  BY TypeStep, PlaceStep, ClockStep, PastStep, ScanStep, IndexStep, OwnStep DEF FInv
<1> QED BY InvInit, <1>1, PTL DEF Spec

(* Every variable holds a value of its kind.                               *)
THEOREM Types == Spec => []TypeOK
<1>1. FInv => TypeOK BY DEF FInv
<1> QED BY <1>1, IndexAsGood, PTL

(* An index that a next Load would accept lists the fonts that are now     *)
(* installed in the directories of that Load.                              *)
THEOREM FreshIndex == Spec => []IndexFresh
<1>1. ASSUME FInv, Current PROVE IndexFresh
  <2>1. \A d \in DOMAIN index.fp : index.fp[d] = mtime[d] BY <1>1 DEF Current
  <2>2. /\ index.fonts \subseteq Fonts \ Awkward
        /\ \A f \in index.fonts : home[f] \in DOMAIN index.fp
    BY <1>1 DEF FInv, TypeOK, DirType, IndexInv
  <2>3. ASSUME NEW f \in index.fonts PROVE f \in Within(DOMAIN index.fp)
    <3>1. In(home[f], index.fonts) \subseteq files
      BY <1>1, <2>1, <2>2 DEF FInv, IndexInv, Sound
    <3> QED BY <2>2, <3>1 DEF In, Within
  <2>4. ASSUME NEW f \in Within(DOMAIN index.fp) \ (Awkward \cup late) PROVE f \in index.fonts
    <3>1. home[f] \in DOMAIN index.fp /\ f \in files \ late BY <2>4 DEF Within
    <3>2. In(home[f], files \ late) \subseteq index.fonts \cup Awkward
      BY <1>1, <2>1, <3>1 DEF FInv, IndexInv, Whole
    <3> QED BY <2>4, <3>1, <3>2 DEF In
  <2> QED BY <2>2, <2>3, <2>4 DEF IndexFresh
<1>2. ASSUME FInv PROVE IndexFresh
  <2>1. ~Current => IndexFresh BY DEF IndexFresh
  <2> QED BY <1>1, <1>2, <2>1
<1> QED BY <1>2, IndexAsGood, PTL

(* A Load returns the fonts that stayed in its directories while it ran,   *)
(* and none that was not there.                                            *)
THEOREM CurrentLoad == Spec => []LoadIsCurrent
<1>1. ASSUME FInv PROVE LoadIsCurrent
  <2>1. ASSUME NEW p \in Procs, pc[p] = "save" PROVE always[p] \subseteq db[p]
    <3>1. Ahead(p) = {} /\ todo[p] = {} /\ DOMAIN fp[p] = given[p]
      BY <1>1, <2>1 DEF FInv, PlaceInv
    <3>2. \A f \in always[p] : home[f] < at[p]
      <4>1. \A f \in always[p] : home[f] \in given[p] BY <1>1, <3>1 DEF FInv, PastInv
      <4>2. Behind(p) = given[p] BY <1>1, <3>1, AllBehind DEF FInv
      <4> QED BY <4>1, <4>2 DEF Behind
    <3> QED BY <1>1, <2>1, <3>1, <3>2 DEF FInv, OwnInv, Scanning
  <2> QED BY <1>1, <2>1 DEF FInv, OwnInv, Scanning, LoadIsCurrent
<1> QED BY <1>1, IndexAsGood, PTL
=============================================================================
