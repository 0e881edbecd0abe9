------------------------------ MODULE Conexion ------------------------------
(***************************************************************************)
(* The connection of the kernel with the memory.  The long term planner     *)
(* asks it to load a process and waits for the answer; whoever eliminates a *)
(* process (the PCP, the console, the thread of an interface) tells it to   *)
(* free it, and does not.  A message goes with its type, and each receiver  *)
(* asks for one: recibir_int and recibir_paquete fail on any other.         *)
(* mutex_conexion_memoria keeps the messages of a request together.         *)
(* Where processes come from and who eliminates them is Planificacion's     *)
(* subject: here a process in READY may be eliminated, once, at any time.   *)
(* An operator A_B is a plausible slip in A: Next uses none of them.        *)
(***************************************************************************)
EXTENDS Integers, Sequences, FiniteSets

CONSTANTS
    Pids,
    Eliminadores,   \* the threads that call eliminar_proceso
    Ilegibles,      \* the processes whose path cannot be opened
    Nadie           \* the holder of a free mutex, no process

Opcode == {"OPCODE_INICIO_PROCESO", "OPCODE_FIN_PROCESO"}

ASSUME ConexionOK ==
    /\ Ilegibles \subseteq Pids /\ Nadie \notin Pids \cup Eliminadores \cup {"plp"}
    /\ "plp" \notin Eliminadores /\ Pids \cap (Opcode \cup {"responde", "operacion"}) = {}

VARIABLES
    lugar,                    \* kernel: where each process is, from NEW to EXIT
    plp_pc, plp_pid,
    el_pc, el_pid,
    mutex_conexion_memoria,   \* its holder
    a_memoria, a_kernel,      \* the connection, each way
    mem_pc, mem_pid,          \* memoria: atender_kernel's place, the process it serves
    procesos,                 \* memoria: what the dictionary has for each process
    fines,                    \* how many OPCODE_FIN_PROCESO were sent
    caido                     \* memoria followed a NULL

plp == <<plp_pc, plp_pid>>
el == <<el_pc, el_pid>>
memoria == <<mem_pc, mem_pid, procesos>>
vars == <<lugar, plp, el, mutex_conexion_memoria, a_memoria, a_kernel, memoria, fines, caido>>

Entero(x) == [tipo |-> "OP_MENSAJE_INT", valor |-> x]
Paquete(x) == [tipo |-> "OP_PAQUETE", valor |-> x]
Mensaje == [tipo : {"OP_MENSAJE_INT", "OP_PAQUETE"},
            valor : Pids \cup Opcode]

Init ==
    /\ lugar = [p \in Pids |-> "NEW"]
    /\ plp_pc = "libre" /\ plp_pid = Nadie
    /\ el_pc = [h \in Eliminadores |-> "libre"] /\ el_pid = [h \in Eliminadores |-> Nadie]
    /\ mutex_conexion_memoria = Nadie
    /\ a_memoria = <<>> /\ a_kernel = <<>>
    /\ mem_pc = "operacion" /\ mem_pid = Nadie
    /\ procesos = [p \in Pids |-> "ausente"]
    /\ fines = 0 /\ caido = FALSE

Bloquear_Sin(h) == mutex_conexion_memoria' = h
Bloquear(h) == mutex_conexion_memoria = Nadie /\ mutex_conexion_memoria' = h
Desbloquear_Olvida == UNCHANGED mutex_conexion_memoria
Desbloquear == mutex_conexion_memoria' = Nadie

-----------------------------------------------------------------------------
(* planificador_largo_plazo                                                 *)

\* A process leaves NEW; enviar_proceso_nuevo_a_memoria takes the mutex...
PlpToma(p) ==
    /\ ~caido /\ plp_pc = "libre" /\ lugar[p] = "NEW"
    /\ Bloquear("plp")
    /\ plp_pc' = "envia_op" /\ plp_pid' = p
    /\ lugar' = [lugar EXCEPT ![p] = "cargando"]
    /\ UNCHANGED <<el, a_memoria, a_kernel, memoria, fines, caido>>

PlpEnviaOp ==
    /\ ~caido /\ plp_pc = "envia_op"
    /\ a_memoria' = Append(a_memoria, Entero("OPCODE_INICIO_PROCESO"))
    /\ plp_pc' = "envia_paquete"
    /\ UNCHANGED <<lugar, plp_pid, el, mutex_conexion_memoria, a_kernel, memoria, fines, caido>>

\* ...and gives it back.
PlpEnviaPaquete ==
    /\ ~caido /\ plp_pc = "envia_paquete"
    /\ a_memoria' = Append(a_memoria, Paquete(plp_pid))
    /\ Desbloquear
    /\ plp_pc' = "bloquea"
    /\ UNCHANGED <<lugar, plp_pid, el, a_kernel, memoria, fines, caido>>

\* It takes it again to wait for the answer.
PlpBloquea ==
    /\ ~caido /\ plp_pc = "bloquea"
    /\ Bloquear("plp")
    /\ plp_pc' = "recibe"
    /\ UNCHANGED <<lugar, plp_pid, el, a_memoria, a_kernel, memoria, fines, caido>>

\* Any MENSAJE_OP_TERMINADA will do.
PlpRecibe ==
    /\ ~caido /\ plp_pc = "recibe" /\ a_kernel # <<>>
    /\ a_kernel' = Tail(a_kernel)
    /\ Desbloquear
    /\ plp_pc' = "libre" /\ plp_pid' = Nadie
    /\ lugar' = [lugar EXCEPT ![plp_pid] = "READY"]
    /\ UNCHANGED <<el, a_memoria, memoria, fines, caido>>

Plp == (\E p \in Pids : PlpToma(p)) \/ PlpEnviaOp \/ PlpEnviaPaquete \/ PlpBloquea \/ PlpRecibe

-----------------------------------------------------------------------------
(* eliminar_proceso, in any of the threads that call it                     *)

Elimina(h, p) ==
    /\ ~caido /\ el_pc[h] = "libre" /\ lugar[p] = "READY"
    /\ lugar' = [lugar EXCEPT ![p] = "EXIT"]
    /\ el_pc' = [el_pc EXCEPT ![h] = "bloquea"] /\ el_pid' = [el_pid EXCEPT ![h] = p]
    /\ UNCHANGED <<plp, mutex_conexion_memoria, a_memoria, a_kernel, memoria, fines, caido>>

ElBloquea(h) ==
    /\ ~caido /\ el_pc[h] = "bloquea"
    /\ Bloquear(h)
    /\ el_pc' = [el_pc EXCEPT ![h] = "envia_op"]
    /\ UNCHANGED <<lugar, plp, el_pid, a_memoria, a_kernel, memoria, fines, caido>>

ElEnviaOp(h) ==
    /\ ~caido /\ el_pc[h] = "envia_op"
    /\ a_memoria' = Append(a_memoria, Entero("OPCODE_FIN_PROCESO"))
    /\ fines' = fines + 1
    /\ el_pc' = [el_pc EXCEPT ![h] = "envia_pid"]
    /\ UNCHANGED <<lugar, plp, el_pid, mutex_conexion_memoria, a_kernel, memoria, caido>>

\* The PCB is there until the end of eliminar_proceso.
PidDe_Liberado(h) == Nadie
PidDe(h) == el_pid[h]

\* Nobody waits for the answer.
ElEnviaPid(h) ==
    /\ ~caido /\ el_pc[h] = "envia_pid"
    /\ a_memoria' = Append(a_memoria, Entero(PidDe(h)))
    /\ Desbloquear
    /\ el_pc' = [el_pc EXCEPT ![h] = "libre"] /\ el_pid' = [el_pid EXCEPT ![h] = Nadie]
    /\ UNCHANGED <<lugar, plp, a_kernel, memoria, fines, caido>>

Eliminador(h) == ElBloquea(h) \/ ElEnviaOp(h) \/ ElEnviaPid(h)

-----------------------------------------------------------------------------
(* memoria: atender_kernel, and the CPU's request of an instruction         *)

\* recibir_int, recibir_paquete: the type is checked, and then the buffer is used.
Es(m, tipo, valores) == m.tipo = tipo /\ m.valor \in valores

MemOperacion ==
    /\ ~caido /\ mem_pc = "operacion" /\ a_memoria # <<>>
    /\ Es(Head(a_memoria), "OP_MENSAJE_INT", Opcode)
    /\ a_memoria' = Tail(a_memoria)
    /\ mem_pc' = Head(a_memoria).valor
    /\ UNCHANGED <<lugar, plp, el, mutex_conexion_memoria, a_kernel, mem_pid, procesos, fines,
                   caido>>

\* A path that cannot be opened makes a process with NULL for its code, and no error.
recibir_crear_proceso ==
    /\ ~caido /\ mem_pc = "OPCODE_INICIO_PROCESO" /\ a_memoria # <<>>
    /\ Es(Head(a_memoria), "OP_PAQUETE", Pids)
    /\ a_memoria' = Tail(a_memoria)
    /\ mem_pc' = "responde" /\ mem_pid' = Head(a_memoria).valor
    /\ procesos' = [procesos EXCEPT ![Head(a_memoria).valor] =
                       IF Head(a_memoria).valor \in Ilegibles THEN "sin_codigo" ELSE "cargado"]
    /\ UNCHANGED <<lugar, plp, el, mutex_conexion_memoria, a_kernel, fines, caido>>

recibir_liberar_proceso ==
    /\ ~caido /\ mem_pc = "OPCODE_FIN_PROCESO" /\ a_memoria # <<>>
    /\ Es(Head(a_memoria), "OP_MENSAJE_INT", Pids)
    /\ procesos[Head(a_memoria).valor] = "cargado"
    /\ a_memoria' = Tail(a_memoria)
    /\ mem_pc' = "responde" /\ mem_pid' = Head(a_memoria).valor
    /\ procesos' = [procesos EXCEPT ![Head(a_memoria).valor] = "ausente"]
    /\ UNCHANGED <<lugar, plp, el, mutex_conexion_memoria, a_kernel, fines, caido>>

\* proceso_destroy follows the code of the process, NULL if its path could not be opened: memoria
\* dies before it answers.
LiberaNull ==
    /\ ~caido /\ mem_pc = "OPCODE_FIN_PROCESO" /\ a_memoria # <<>>
    /\ Es(Head(a_memoria), "OP_MENSAJE_INT", Pids)
    /\ procesos[Head(a_memoria).valor] = "sin_codigo"
    /\ caido' = TRUE
    /\ UNCHANGED <<lugar, plp, el, mutex_conexion_memoria, a_memoria, a_kernel, memoria, fines>>

\* What the three receptions do with a message they do not expect: abort(), or a NULL process.
\* LiberaNull dies of one it expects.
NoEntiende(m) ==
    \/ mem_pc = "operacion" /\ ~Es(m, "OP_MENSAJE_INT", Opcode)
    \/ mem_pc = "OPCODE_INICIO_PROCESO" /\ ~Es(m, "OP_PAQUETE", Pids)
    \/ /\ mem_pc = "OPCODE_FIN_PROCESO"
       /\ ~Es(m, "OP_MENSAJE_INT", {p \in Pids : procesos[p] # "ausente"})

Responder_SoloInicio ==
    a_kernel' = IF procesos[mem_pid] = "ausente" THEN a_kernel
                ELSE Append(a_kernel, "MENSAJE_OP_TERMINADA")
Responder == a_kernel' = Append(a_kernel, "MENSAJE_OP_TERMINADA")

MemResponde ==
    /\ ~caido /\ mem_pc = "responde"
    /\ Responder
    /\ mem_pc' = "operacion" /\ mem_pid' = Nadie
    /\ UNCHANGED <<lugar, plp, el, mutex_conexion_memoria, a_memoria, procesos, fines, caido>>

atender_kernel == \/ MemOperacion \/ recibir_crear_proceso \/ recibir_liberar_proceso
                  \/ LiberaNull \/ MemResponde

\* enviar_instruccion, for a process the CPU executes: without the process, or without its
\* code, it is a NULL dereference.  Otherwise nothing changes.
FetchNull(p) ==
    /\ ~caido /\ lugar[p] = "READY" /\ procesos[p] # "cargado"
    /\ caido' = TRUE
    /\ UNCHANGED <<lugar, plp, el, mutex_conexion_memoria, a_memoria, a_kernel, memoria, fines>>

-----------------------------------------------------------------------------

Next ==
    \/ Plp \/ atender_kernel
    \/ \E h \in Eliminadores : Eliminador(h) \/ \E p \in Pids : Elimina(h, p)
    \/ \E p \in Pids : FetchNull(p)

Spec == Init /\ [][Next]_vars

\* Every thread that has something to do does it; nobody has to eliminate a process.
Justicia == WF_vars(Plp) /\ WF_vars(atender_kernel)
            /\ \A h \in Eliminadores : WF_vars(Eliminador(h))
SpecJusta == Spec /\ Justicia

-----------------------------------------------------------------------------
(* Properties                                                               *)

TypeOK ==
    /\ lugar \in [Pids -> {"NEW", "cargando", "READY", "EXIT"}]
    /\ plp_pc \in {"libre", "envia_op", "envia_paquete", "bloquea", "recibe"}
    /\ plp_pid \in Pids \cup {Nadie}
    /\ el_pc \in [Eliminadores -> {"libre", "bloquea", "envia_op", "envia_pid"}]
    /\ el_pid \in [Eliminadores -> Pids \cup {Nadie}]
    /\ mutex_conexion_memoria \in Eliminadores \cup {"plp", Nadie}
    /\ a_memoria \in Seq(Mensaje) /\ a_kernel \in Seq({"MENSAJE_OP_TERMINADA"})
    /\ mem_pc \in Opcode \cup {"operacion", "responde"}
    /\ mem_pid \in Pids \cup {Nadie}
    /\ procesos \in [Pids -> {"ausente", "cargado", "sin_codigo"}]
    /\ fines \in Nat /\ caido \in BOOLEAN

\* Who is in the middle of a request holds the mutex, and nobody else does.
MutexInv ==
    /\ plp_pc \in {"envia_op", "envia_paquete", "recibe"} <=> mutex_conexion_memoria = "plp"
    /\ \A h \in Eliminadores :
           el_pc[h] \in {"envia_op", "envia_pid"} <=> mutex_conexion_memoria = h

\* Where the processes are that the planner loads and the others eliminate.
DuenosInv ==
    /\ (plp_pc = "libre") <=> (plp_pid = Nadie)
    /\ plp_pid # Nadie => lugar[plp_pid] = "cargando"
    /\ \A h \in Eliminadores :
           /\ (el_pc[h] = "libre") <=> (el_pid[h] = Nadie)
           /\ el_pid[h] # Nadie => lugar[el_pid[h]] = "EXIT"
           /\ \A g \in Eliminadores : el_pid[g] = el_pid[h] => g = h \/ el_pid[h] = Nadie

\* What was read or is read just before the k-th message on its way, and what has to follow it:
\* the argument of an operation, an operation.
Antes(k) == IF k = 1 THEN mem_pc ELSE a_memoria[k - 1].valor
Ultimo == Antes(Len(a_memoria) + 1)
Encaja(v, m) ==
    /\ v = "OPCODE_INICIO_PROCESO" => Es(m, "OP_PAQUETE", Pids)
    /\ v = "OPCODE_FIN_PROCESO" => Es(m, "OP_MENSAJE_INT", Pids)
    /\ v \notin Opcode => Es(m, "OP_MENSAJE_INT", Opcode)

\* Each message fits after the one before it, and the last is an operation only while its
\* sender is about to send the argument.
MensajesInv ==
    /\ \A k \in 1..Len(a_memoria) : Encaja(Antes(k), a_memoria[k])
    /\ Ultimo = "OPCODE_INICIO_PROCESO" <=> plp_pc = "envia_paquete"
    /\ Ultimo = "OPCODE_FIN_PROCESO" <=> \E h \in Eliminadores : el_pc[h] = "envia_pid"

\* The end of a process is sent once, when nobody holds it any more, and before it memoria
\* has the process or finds its start; so it does for whoever may be eliminated yet.
Empieza(p, antes) == procesos[p] # "ausente" \/ \E j \in 1..antes : a_memoria[j] = Paquete(p)
Eliminable(p) ==
    \/ lugar[p] = "READY"
    \/ plp_pid = p /\ plp_pc \in {"bloquea", "recibe"}
    \/ \E h \in Eliminadores : el_pid[h] = p
FinesInv ==
    /\ \A p \in Pids : Eliminable(p) => Empieza(p, Len(a_memoria))
    /\ \A k \in 1..Len(a_memoria), p \in Pids : a_memoria[k] = Entero(p) =>
           /\ lugar[p] = "EXIT" /\ \A h \in Eliminadores : el_pid[h] # p
           /\ Empieza(p, k - 1)
           /\ \A j \in 1..Len(a_memoria) : a_memoria[j] = Entero(p) => j = k

\* Every branch of atender_kernel but the expected ones is an abort(): the memory never
\* meets a message it did not expect, nor the end of a process it does not have.
MemoriaEntiende == a_memoria # <<>> => ~NoEntiende(Head(a_memoria))

\* The requests that memoria did not start to read.
EsOperacion(m) == m.valor \in Opcode
Operaciones == Cardinality({k \in DOMAIN a_memoria : EsOperacion(a_memoria[k])})

\* atender_kernel.c:38: each request has one answer, and the planner reads one for each
\* process it loads: an answer for it is always on its way, and one more is left unread for
\* every process that ever ended.
RespuestasContadas ==
    Operaciones + (IF mem_pc = "operacion" THEN 0 ELSE 1) + Len(a_kernel)
    = fines + (IF plp_pc \in {"envia_paquete", "bloquea", "recibe"} THEN 1 ELSE 0)

ConexionInv ==
    TypeOK /\ MutexInv /\ DuenosInv /\ MensajesInv /\ FinesInv /\ RespuestasContadas

\* The planner never waits for ever with the mutex of the connection held, and what it takes
\* out of NEW gets to READY.
LaCargaTermina == \A p \in Pids : lugar[p] = "cargando" ~> lugar[p] = "READY" \/ caido

\* The memory of a process that ended is freed in the end, whoever ended it, as long as memoria
\* lives: not past the end of one whose path could not be opened (estructuras.c:18), nor past a
\* fetch of one that is not there.
SeLibera == \A p \in Pids : lugar[p] = "EXIT" ~> procesos[p] = "ausente" \/ caido
=============================================================================
