------------------------------- MODULE DrwInv -------------------------------
(***************************************************************************)
(* Who holds which resource id, and how far a PutImage has come: the       *)
(* inductive invariant that DrwProofs proves and TLC checks.               *)
(***************************************************************************)
EXTENDS Drw

(* The ids up to the last have been handed out.  A mask with zeroes at its *)
(* low end gives none at all.                                              *)
IdInv == handed = {id \in Ids : id <= idNext} /\ (IdUnit > 1 => idNext = 0)

(* An id belongs to one Drw, as its pixmap or as its GC.                   *)
OwnInv ==
  /\ \A d \in Drawers :
       /\ {Pixmap[d], GC[d]} \subseteq handed \cup {0}
       /\ Pixmap[d] = 0 <=> pc[d] = "pixid"
       /\ GC[d] = 0 <=> pc[d] \in {"pixid", "gcid"}
       /\ Pixmap[d] = GC[d] => Pixmap[d] = 0
  /\ \A d, e \in Drawers : d # e =>
       /\ Pixmap[d] # 0 => Pixmap[d] \notin {Pixmap[e], GC[e]}
       /\ GC[d] # 0 => GC[d] # GC[e]

HoldsPixmap(d) == pc[d] \in {"creategc", "ready", "put"}
HoldsGC(d) == pc[d] \in {"ready", "put", "reid", "recreate", "freegc"}

(* The server has what the Drws hold, and the pixmaps have their sizes.    *)
HeldInv ==
  /\ \A i \in DOMAIN pixmaps : \E d \in Drawers : HoldsPixmap(d) /\ Pixmap[d] = i
  /\ \A i \in gcs : \E d \in Drawers : HoldsGC(d) /\ GC[d] = i
  /\ \A d \in Drawers :
       /\ HoldsPixmap(d) => /\ Pixmap[d] \in DOMAIN pixmaps
                            /\ pixmaps[Pixmap[d]].size = size[d]
                            /\ Len(Image[d]) = Width(size[d]) * Height(size[d])
       /\ HoldsGC(d) => GC[d] \in gcs

(* The data of a Map is the framebuffer's, and the pixmap shows the rows   *)
(* that have been put.                                                     *)
At(d, p) == Image[d][p[2] * Width(size[d]) + p[1] + 1]
Shows(d, r, n) ==
  \A p \in Points(size[d]) :
    p \in Area(r) /\ p[2] < r.y + n => pixmaps[Pixmap[d]].pix[p] = At(d, p)
MapInv ==
  \A d \in Drawers : pc[d] = "put" =>
    /\ job[d].r \in Rects /\ job[d].r.w > 0 /\ job[d].r.h > 0
    /\ InSlice(d, job[d].r) /\ job[d].data = Packed(d, job[d].r)
    /\ Shows(d, job[d].r, job[d].row)

(* The inductive invariant: ids are never shared, so no request of one Drw *)
(* touches what another is drawing.                                        *)
DInv == TypeOK /\ NoProtocolErrors /\ IdInv /\ OwnInv /\ HeldInv /\ MapInv

=============================================================================
