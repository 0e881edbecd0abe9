------------------------------ MODULE MCDialFS ------------------------------
(* DialFS for TLC: no name of a file is special. *)
EXTENDS DialFS, TLC

Simetria == Permutations(Archivos)
=============================================================================
