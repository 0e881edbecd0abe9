------------------------------ MODULE MCMemoria ------------------------------
(* Memoria for TLC, with the history of MemoriaHistoria.                     *)
EXTENDS MemoriaHistoria

Simetria == Permutations(Pid)
=============================================================================
