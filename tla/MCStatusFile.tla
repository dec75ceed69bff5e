---------------------------- MODULE MCStatusFile ----------------------------
(* Small instances of StatusFile for TLC. *)
EXTENDS StatusFile

MCInodes == 1 .. 2 + Cardinality(Savers)
=============================================================================
