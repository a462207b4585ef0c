------------------------------ MODULE MCBlockScan ------------------------------
(* Instances of BlockScan for TLC. *)
EXTENDS BlockScan
=============================================================================
