--------------------------- MODULE MCVmSnapshots ---------------------------
(* The virtual machine whose snapshots the model-checking runs take. *)
EXTENDS VmSnapshots

\* A VM with two disks, and the datasets their clones get.
MCDisksOf == [v |-> {"v1", "v2"}]
MCCopyOf == [v1 |-> "c1", v2 |-> "c2"]

\* zfs takes the snapshots of one pool at once, and those of two pools one after the other.
OnePool == [v1 |-> "p", v2 |-> "p"]
TwoPools == [v1 |-> "p", v2 |-> "q"]
=============================================================================
