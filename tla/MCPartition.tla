---------------------------- MODULE MCPartition ----------------------------
(***************************************************************************)
(* A disk with an extended partition in sector 3, whose table, in that     *)
(* sector, has one partition.                                              *)
(***************************************************************************)
EXTENDS Partition

ExtendedImages ==
  {[NoImage EXCEPT ![0] = <<[type |-> 5, offset |-> 3, size |-> 2]>>,
                   ![3] = <<[type |-> 33, offset |-> 1, size |-> 1]>>]}
=============================================================================
