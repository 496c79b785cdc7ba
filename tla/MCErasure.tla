----------------------------- MODULE MCErasure -----------------------------
(* Erasure for TLC: two deletions that meet, one that meets a joining       *)
(* member, and deletions that meet exports, the loss of the source and its  *)
(* recovery from one archive or from an older one and its protection.       *)
EXTENDS Erasure

Scene(leavers, exports, most, joined) ==
  [leavers |-> leavers, archives |-> exports, failures |-> most, joined |-> joined]
SmallScenes ==
  {Scene(People, 0, 1, TRUE), Scene({"member"}, 0, 1, FALSE), Scene({"member"}, 1, 0, TRUE),
   Scene({"rider"}, 1, 1, TRUE), Scene({"rider"}, 2, 0, TRUE)}
=============================================================================
