------------------------------ MODULE MCWorker ------------------------------
(* A small instance of Worker for TLC: a result of each of two checks. *)
EXTENDS Worker

MCName == <<"a", "b">>
=============================================================================
