---------------------------- MODULE FontIndexInv ----------------------------
(***************************************************************************)
(* Why the time of a directory may stand for its fonts: the inductive      *)
(* invariant that FontIndexProofs proves and TLC checks.                   *)
(***************************************************************************)
EXTENDS FontIndex

Scanning(q) == pc[q] \in {"list", "save"}

(* The directories behind a walk.                                          *)
Behind(p) == {d \in given[p] : d < at[p]}

(* Where a Load stands, and what it has by then.                           *)
PlaceInv ==
  \A p \in Procs :
    /\ pc[p] = "idle" => at[p] = 1
    /\ pc[p] \in {"idle", "finger"} => DOMAIN fp[p] = Behind(p)
    /\ pc[p] \in {"hit", "list", "save"} => DOMAIN fp[p] = given[p]
    /\ pc[p] # "list" => todo[p] = {}
    /\ \A f \in todo[p] : home[f] \in given[p]
    /\ pc[p] \in {"idle", "finger"} => db[p] = {}
    /\ pc[p] = "save" => /\ Ahead(p) = {} /\ tmp[p].fp = fp[p]
                         /\ tmp[p].fonts \subseteq Storable(p)

(* No stamp is ahead of the directories.                                   *)
ClockInv ==
  /\ \A d \in Dirs : mtime[d] <= changes
  /\ \A p \in Procs : \A d \in DOMAIN fp[p] : fp[p][d] <= mtime[d]
  /\ \A d \in DOMAIN index.fp : index.fp[d] <= mtime[d]

(* What the histories record.                                              *)
PastInv ==
  \A p \in Procs :
    /\ \A f \in always[p] : f \in files /\ home[f] \in DOMAIN fp[p]
    /\ \A f \in files : home[f] \in DOMAIN fp[p] => f \in ever[p]
    /\ \A f \in ever[p] : home[f] \in DOMAIN fp[p]

(* A set of fonts found under a stamp holds, of each directory, only fonts *)
(* that are there if the stamp is the directory's, and that were there     *)
(* for every Load which has the same stamp of it ...                       *)
Sound(t, S) ==
  \A d \in DOMAIN t :
    /\ t[d] = mtime[d] => In(d, S) \subseteq files
    /\ \A p \in Procs : d \in DOMAIN fp[p] /\ fp[p][d] = t[d] => In(d, S) \subseteq ever[p]

(* ... and it holds all of them, of the directories D.                     *)
Whole(t, S, D) ==
  \A d \in D :
    /\ t[d] = mtime[d] => In(d, files \ late) \subseteq S
    /\ \A p \in Procs :
         d \in DOMAIN fp[p] /\ fp[p][d] = t[d] => In(d, always[p] \ late) \subseteq S

ScanInv ==
  \A q \in Procs : Scanning(q) =>
    /\ Sound(fp[q], db[q])
    /\ Whole(fp[q], db[q] \cup todo[q], Behind(q))

IndexInv ==
  /\ \A f \in index.fonts : home[f] \in DOMAIN index.fp
  /\ Sound(index.fp, index.fonts)
  /\ Whole(index.fp, index.fonts \cup Awkward, DOMAIN index.fp)

(* What a Load has for itself.                                             *)
OwnInv ==
  \A p \in Procs :
    /\ Scanning(p) => /\ \A f \in always[p] : home[f] < at[p] => f \in db[p] \cup todo[p]
                      /\ db[p] \subseteq ever[p]
    /\ pc[p] = "hit" => /\ always[p] \ (Awkward \cup late) \subseteq db[p]
                        /\ db[p] \subseteq ever[p]

(* The inductive invariant: an index is as good as the scan it came from,  *)
(* for everybody who has its stamp.                                        *)
FInv == TypeOK /\ PlaceInv /\ ClockInv /\ PastInv /\ ScanInv /\ IndexInv /\ OwnInv

=============================================================================
