-------------------------- MODULE PlanificacionInv --------------------------
(***************************************************************************)
(* The inductive invariants behind the theorems of Planificacion, in four   *)
(* layers, each inductive given the ones before it: PruebaPlanificacion     *)
(* proves the first three and PruebaCuentas the fourth.  TLC checks them    *)
(* together, as IInv.                                                       *)
(***************************************************************************)
EXTENDS Planificacion

\* Layer 1, control: each of the four permissions is free or has exactly one
\* holder, and where in a command the console is says which of them it holds.
PermisosInv ==
    /\ permisos \in [Permiso -> {0, 1}]
    /\ ~(plp_pc = "carga" /\ con_tomados >= 1)
    /\ permisos["entrada_a_ready"] = 0 <=> plp_pc = "carga" \/ con_tomados >= 1
    /\ ~(pcp_pc = "saca" /\ con_tomados >= 2)
    /\ permisos["entrada_a_exec"] = 0 <=> pcp_pc = "saca" \/ con_tomados >= 2
    /\ ~(pcp_pc \in {"pide", "elimina"} /\ con_tomados >= 3)
    /\ permisos["manejo_desalojo_cpu"] = 0
           <=> pcp_pc \in {"pide", "elimina"} \/ con_tomados >= 3
    /\ permisos["interrupcion_rr"] = 0 <=> con_tomados >= 4

ConsolaInv ==
    /\ con_tomados \in 0..4
    /\ con_pc = "libre" => con_pid = NULL /\ (planificacion_pausada \/ con_tomados = 0)
    /\ con_pc = "pausa" => ~planificacion_pausada /\ con_pid \in PidONada
    /\ con_pc \in {"busca", "elimina", "trabada"} => planificacion_pausada /\ con_pid \in Pid
    /\ planificacion_pausada => con_tomados = 4
    /\ con_pc \in {"elimina", "trabada"} => con_cola \in Cola \ {"NEW", "EXIT"}
    /\ con_pc \in {"libre", "pausa", "busca"} => con_cola = "-"

PcInv ==
    /\ plp_pc \in {"espera_new", "espera_grado", "espera_permiso", "carga", "avisa"}
    /\ pcp_pc \in {"espera_ready", "espera_exec", "saca", "espera_cpu", "espera_desalojo",
                   "pide", "elimina"}
    /\ con_pc \in {"libre", "pausa", "busca", "elimina", "trabada"}

ControlInv == PcInv /\ ConsolaInv /\ PermisosInv

\* Layer 2, data: types, who has a PCB in hand when, and the counters of the
\* resources.
ManoInv ==
    /\ mano["plp"] # NULL <=> plp_pc = "carga"
    /\ mano["pcp"] # NULL <=> pcp_pc \in {"espera_desalojo", "pide", "elimina"}
    /\ mano["cpu"] # NULL <=> pcp_pc = "espera_cpu"
    /\ con_pc \in {"elimina", "trabada"} => mano["consola"] = con_pid
    /\ con_pc \in {"libre", "pausa", "busca"} => mano["consola"] = NULL
    /\ pcp_pc = "saca" => pcp_visto # NULL

EnMano == {"elimina", "saca", "suma", "guarda"}
ManoIoInv == \A i \in Interfaces : mano[i] # NULL <=> io_pc[i] \in EnMano

DatosInv == TypeOK /\ ManoInv /\ ManoIoInv /\ BloqueadosContados

\* Layer 3, places, under FIFO and RR: the PCP pops what it saw because nothing
\* can come before it (READY_PLUS stays empty) or take it away (the console is
\* kept out of EXEC), and so every process keeps exactly one place.
Nacidos == 1..(ultimo_pid - 1)
LugaresInv ==
    /\ \A c \in Cola : Range(colas[c]) \subseteq Nacidos
    /\ \A h \in Hilo : mano[h] \in Nacidos \cup {NULL}
    /\ UnSoloLugar

LugarInv == colas["READY_PLUS"] = <<>> /\ PopDelVisto /\ LugaresInv

\* Layer 4, counts, under FIFO and RR.  What a thread saw first in a queue is still the first
\* one when it looks again, or was killed: it never went back in the queue.
Matado(p) == Contiene(colas["EXIT"], p) \/ mano["consola"] = p
Visto(c, p) == p = NULL \/ p = squeue_peek(colas[c]) \/ Matado(p)
VistosInv ==
    /\ plp_pc \in {"espera_grado", "espera_permiso"} => Visto("NEW", plp_visto)
    /\ pcp_pc = "espera_exec" => Visto("READY", pcp_visto)
    /\ \A i \in Interfaces : io_pc[i] \in {"opera", "espera_permiso"} => Visto(i, io_actual[i])

\* Resources are allocated to processes that were started.
AsignadosInv == \A k \in DOMAIN asignaciones : asignaciones[k].pid \in Nacidos

\* The interfaces that pushed on READY and did not post yet.
Avisan == {i \in Interfaces : io_pc[i] = "avisa"}

CuentasInv ==
    /\ VistosInv /\ AsignadosInv /\ IsFiniteSet(Avisan)
    /\ SinAsignacionesHuerfanas /\ AvisosReady /\ AvisosNewEIo /\ ConservacionGrado

\* The four layers: the permissions of pausar_planificacion have one holder each, no hand
\* holds a PCB where the code has none, and, but for VRR, pop_siguiente_pcb takes what
\* peek_siguiente_pcb saw and the semaphores are what the queues need.
IInv == ControlInv /\ DatosInv /\ (Algoritmo # "VRR" => LugarInv /\ CuentasInv)
=============================================================================
