------------------------------- MODULE Squeue -------------------------------
(***************************************************************************)
(* The synchronised queue every kernel list of processes is kept in        *)
(* (utils/src/utils/squeue.c over the commons' t_queue).  A queue is a      *)
(* sequence, its first element the next one popped.  Each operation takes   *)
(* the queue's mutex around its one access, so it is one step; squeue_lock  *)
(* and squeue_unlock bracket the walks of consola.c, and who holds a mutex  *)
(* over several steps is part of the module that models the walker.         *)
(***************************************************************************)
EXTENDS Integers, SequencesExt

\* The NULL pointer, and the value of pid_en_ejecucion when nothing runs.
NULL == -1

squeue_push(cola, x) == Append(cola, x)

\* Popping an empty queue returns NULL and leaves it empty.
squeue_pop(cola) == IF cola = <<>> THEN cola ELSE Tail(cola)

squeue_peek(cola) == IF cola = <<>> THEN NULL ELSE Head(cola)

\* What a walk with list_iterator_next meets.
Contiene(cola, x) == x \in Range(cola)

\* Where it meets x first.
Primera(cola, x) == CHOOSE i \in DOMAIN cola :
                        cola[i] = x /\ \A j \in DOMAIN cola : cola[j] = x => i <= j

\* list_iterator_remove on the first element equal to x.
Quitar(cola, x) == IF Contiene(cola, x) THEN RemoveAt(cola, Primera(cola, x)) ELSE cola
=============================================================================
