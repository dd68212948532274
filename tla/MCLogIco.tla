------------------------------ MODULE MCLogIco ------------------------------
(* Three masters and two banks: enough for two masters to contend for one  *)
(* bank while the third is waiting or busy on the other.  Words of one and *)
(* two bytes: the two addresses are in different banks either way.  One of *)
(* the masters issues new requests inside a retry(), of either bank.       *)
EXTENDS LogIco
=============================================================================
