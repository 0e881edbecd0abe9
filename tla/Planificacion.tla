---------------------------- MODULE Planificacion ----------------------------
(***************************************************************************)
(* The kernel's scheduling core: the life of a process between NEW and      *)
(* EXIT as its threads move it.  One action per stretch of code between two *)
(* points where another thread can observe or change shared state:          *)
(*   Plp...   planificador_largo_plazo   NEW -> READY                       *)
(*   Pcp...   planificador_corto_plazo   READY -> EXEC and back             *)
(*   Io...(i) atender_io, one thread per interface, BLOCKED -> READY        *)
(*   Con...   correr_consola, the operator's commands                       *)
(* The CPU, the memory and the devices are seen from here only through the  *)
(* answers they give: any motive the CPU may return a PCB with, at any time.*)
(* An interface may disconnect while it works, and does not come back: one   *)
(* that does is another element of Interfaces.  The clocks of RR and VRR     *)
(* appear as the FIN_QUANTUM they cause.                                     *)
(* An operator A_B is a plausible slip in A (a check or a post forgotten):  *)
(* Next uses none of them, they are there to see that a property notices.   *)
(***************************************************************************)
EXTENDS Squeue

CONSTANTS
    Algoritmo,      \* ALGORITMO_PLANIFICACION: "FIFO", "RR" or "VRR"
    Recursos,       \* RECURSOS of kernel.config
    Instancias0,    \* INSTANCIAS_RECURSOS of kernel.config
    Interfaces,     \* the I/O interfaces, each a connection
    Grado0,         \* GRADO_MULTIPROGRAMACION of kernel.config
    MaxProcesos,    \* bound: processes the operator starts
    MaxGrado,       \* bound: degrees the operator asks for
    MaxExtra,       \* bound: pending reductions of the degree
    MaxInstancias   \* bound: instances of a resource, once SIGNALs without WAIT added some

Basicas == {"NEW", "READY", "READY_PLUS", "EXIT"}
Fijos == {"plp", "pcp", "cpu", "consola"}

ASSUME ConstantesOK ==
    /\ Algoritmo \in {"FIFO", "RR", "VRR"}
    /\ Recursos \cap Interfaces = {}
    /\ (Recursos \cup Interfaces) \cap (Basicas \cup Fijos \cup {"-", "inexistente"}) = {}
    /\ Instancias0 \in [Recursos -> Nat]
    /\ Grado0 \in Nat /\ MaxProcesos \in Nat /\ MaxGrado \in Nat
    /\ MaxExtra \in Nat /\ MaxInstancias \in Nat

\* ultimo_pid starts at 1.
Pid == 1..MaxProcesos
PidONada == Pid \cup {NULL}

\* Every squeue of processes; a blocked queue goes by its resource's or
\* interface's name.
Cola == Basicas \cup Recursos \cup Interfaces

\* In the order pausar_planificacion takes them.
Permisos == <<"entrada_a_ready", "entrada_a_exec", "manejo_desalojo_cpu", "interrupcion_rr">>
Permiso == {Permisos[n] : n \in 1..4}

\* The PCBs that are in no queue: the one a thread holds between a pop and
\* a push, an interface's included, and the one the CPU runs.
Hilo == Fijos \cup Interfaces

VARIABLES
    ultimo_pid, colas, mano, instancias, asignaciones,
    sem_multiprogramacion, sem_elementos_en_new, sem_elementos_en_ready, permisos,
    grado_multiprogramacion, procesos_extra, pid_en_ejecucion, interrumpidos,
    plp_pc, plp_visto,
    pcp_pc, pcp_visto, pcp_motivo,
    io_pc, io_actual, io_cuenta, procesos_esperando,
    planificacion_pausada, con_pc, con_pid, con_tomados, con_reanuda, con_cola,
    caido    \* the kernel process died of a bad memory access

recs    == <<instancias, asignaciones>>
plp     == <<plp_pc, plp_visto>>
pcp     == <<pcp_pc, pcp_visto, pcp_motivo>>
io      == <<io_pc, io_actual, io_cuenta, procesos_esperando>>
grado   == <<sem_multiprogramacion, grado_multiprogramacion, procesos_extra>>
consola == <<planificacion_pausada, con_pc, con_pid, con_tomados, con_reanuda, con_cola>>
cpu     == <<pid_en_ejecucion, interrumpidos>>
vars == <<ultimo_pid, colas, mano, recs, grado, sem_elementos_en_new,
          sem_elementos_en_ready, permisos, cpu, plp, pcp, io, consola, caido>>

\* t_asignacion_recurso, with its resource.
Asignacion == [pid : Pid, recurso : Recursos]

\* What recibir_pcb can return for process p.  A resource or an interface that
\* does not exist, or one that does not support the operation, is "inexistente".
Tipo(m) == m[1]
Arg(m)  == m[2]
Motivo ==
    ({"FIN_QUANTUM", "FIN_PROCESO", "OUT_OF_MEMORY", "INTERRUMPIDO_POR_USUARIO"} \X {"-"})
    \cup ({"WAIT_RECURSO", "SIGNAL_RECURSO"} \X (Recursos \cup {"inexistente"}))
    \cup ({"IO"} \X (Interfaces \cup {"inexistente"}))
SinMotivo == <<"-", "-">>

\* The instances of a resource, free and allocated.
Unidades(r) == (IF instancias[r] > 0 THEN instancias[r] ELSE 0)
               + Cardinality({k \in DOMAIN asignaciones : asignaciones[k].recurso = r})

Posibles(p) ==
    {m \in Motivo :
        /\ Tipo(m) = "FIN_QUANTUM" => Algoritmo # "FIFO"
        /\ Tipo(m) = "INTERRUMPIDO_POR_USUARIO" => p \in interrumpidos
        /\ (Tipo(m) = "SIGNAL_RECURSO" /\ Arg(m) \in Recursos)
               => \/ Contiene(asignaciones, [pid |-> p, recurso |-> Arg(m)])
                  \/ Unidades(Arg(m)) < MaxInstancias}

\* existe_interfaz: i is in the dictionary until its thread takes it out.
Conectada(i) == io_pc[i] # "fuera"

\* Where an interface's thread may be: in the loop of atender_io, or after it.
Atiende  == {"espera", "opera", "espera_permiso", "avisa"}
Saliendo == {"sale", "elimina", "saca", "suma", "guarda", "se_va"}

\* The motives whose handler does nothing but eliminar_proceso.
Termina(m) == \/ Tipo(m) \in {"FIN_PROCESO", "OUT_OF_MEMORY", "INTERRUMPIDO_POR_USUARIO"}
              \/ Arg(m) = "inexistente"
              \/ Arg(m) \in Interfaces /\ ~Conectada(Arg(m))

Init ==
    /\ ultimo_pid = 1
    /\ colas = [c \in Cola |-> <<>>]
    /\ mano = [h \in Hilo |-> NULL]
    /\ instancias = Instancias0 /\ asignaciones = <<>>
    /\ sem_multiprogramacion = Grado0 /\ grado_multiprogramacion = Grado0
    /\ procesos_extra = 0
    /\ sem_elementos_en_new = 0 /\ sem_elementos_en_ready = 0
    /\ permisos = [x \in Permiso |-> 1]
    /\ pid_en_ejecucion = NULL /\ interrumpidos = {}
    /\ plp_pc = "espera_new" /\ plp_visto = NULL
    /\ pcp_pc = "espera_ready" /\ pcp_visto = NULL /\ pcp_motivo = SinMotivo
    /\ io_pc = [i \in Interfaces |-> "espera"]
    /\ io_actual = [i \in Interfaces |-> NULL]
    /\ io_cuenta = [i \in Interfaces |-> 0]
    /\ procesos_esperando = [i \in Interfaces |-> 0]
    /\ planificacion_pausada = FALSE
    /\ con_pc = "libre" /\ con_pid = NULL /\ con_tomados = 0 /\ con_reanuda = FALSE
    /\ con_cola = "-"
    /\ caido = FALSE

\* The mutex of the queue the console walks is held until it leaves the walk.
Trabada(c) == con_pc \in {"elimina", "trabada"} /\ con_cola = c

-----------------------------------------------------------------------------
(* recursos.c and eliminar_proceso: shared by the PCP, the console and the  *)
(* interfaces that leave.                                                   *)

\* A bad access, or an assert that fails: the kernel is no more.
Muere ==
    /\ caido' = TRUE
    /\ UNCHANGED <<ultimo_pid, colas, mano, recs, grado, sem_elementos_en_new,
                   sem_elementos_en_ready, permisos, cpu, plp, pcp, io, consola>>

\* The allocation liberar_asignaciones_recurso releases next.  The code first
\* detaches all of them and then releases one by one; nobody reads those of a
\* process that is being eliminated in between.
AsignacionesDe_Ninguna(p) == {}
AsignacionesDe(p) == {k \in DOMAIN asignaciones : asignaciones[k].pid = p}
PrimeraDe(p) == CHOOSE k \in AsignacionesDe(p) : \A l \in AsignacionesDe(p) : k <= l
Libera(p, r) == AsignacionesDe(p) # {} /\ asignaciones[PrimeraDe(p)].recurso = r

\* The counters have no lock.  The PCP and the console keep each other away with
\* sem_manejo_desalojo_cpu, an interface that leaves asks nobody: what the others
\* count between its load and its store is lost, and so is its own store when one
\* of them is between theirs.
CuentaOtro(r) ==
    \/ /\ pcp_pc = "espera_desalojo" /\ permisos["manejo_desalojo_cpu"] > 0
       /\ pcp_motivo \in {<<"WAIT_RECURSO", r>>, <<"SIGNAL_RECURSO", r>>}
    \/ pcp_pc = "elimina" /\ Libera(mano["pcp"], r)
    \/ con_pc = "elimina" /\ (Libera(con_pid, r) \/ con_cola = r)

\* The first process waiting for r gets it and goes to READY; asig are the
\* allocations the caller left.
Despertar(r, asig) ==
    /\ colas[r] # <<>>
    /\ asignaciones' = Append(asig, [pid |-> Head(colas[r]), recurso |-> r])
    /\ colas' = [colas EXCEPT ![r] = Tail(@), !["READY"] = squeue_push(@, Head(colas[r]))]
    /\ sem_elementos_en_ready' = sem_elementos_en_ready + 1

\* incrementar_recurso, of the PCP and of the console.
IncrementarRecurso(r, asig) ==
    /\ instancias' = [instancias EXCEPT ![r] = @ + 1]
    /\ \/ instancias[r] < 0 /\ Despertar(r, asig)
       \/ /\ instancias[r] >= 0
          /\ asignaciones' = asig
          /\ UNCHANGED <<colas, sem_elementos_en_ready>>

LiberarUna(p) ==
    /\ AsignacionesDe(p) # {}
    /\ IncrementarRecurso(asignaciones[PrimeraDe(p)].recurso,
                          RemoveAt(asignaciones, PrimeraDe(p)))

\* The pop of incrementar_recurso finds nobody: the NULL it returns is read.
PopDeNull(r) == instancias[r] < 0 /\ colas[r] = <<>> /\ Muere

\* The first half of eliminar_proceso: give the place back, unless the degree
\* was reduced meanwhile.
DevolverLugar ==
    /\ \/ /\ procesos_extra > 0
          /\ procesos_extra' = procesos_extra - 1
          /\ UNCHANGED sem_multiprogramacion
       \/ /\ procesos_extra = 0
          /\ sem_multiprogramacion' = sem_multiprogramacion + 1
          /\ UNCHANGED procesos_extra
    /\ UNCHANGED grado_multiprogramacion

-----------------------------------------------------------------------------
(* planificador_largo_plazo                                                 *)

PlpVeNew ==
    /\ plp_pc = "espera_new" /\ sem_elementos_en_new > 0
    /\ sem_elementos_en_new' = sem_elementos_en_new - 1
    /\ plp_visto' = squeue_peek(colas["NEW"])
    /\ plp_pc' = "espera_grado"
    /\ UNCHANGED <<ultimo_pid, colas, mano, recs, grado, sem_elementos_en_ready, permisos,
                   cpu, pcp, io, consola, caido>>

PlpTomaLugar ==
    /\ plp_pc = "espera_grado" /\ sem_multiprogramacion > 0
    /\ sem_multiprogramacion' = sem_multiprogramacion - 1
    /\ plp_pc' = "espera_permiso"
    /\ UNCHANGED <<ultimo_pid, colas, mano, recs, grado_multiprogramacion, procesos_extra,
                   sem_elementos_en_new, sem_elementos_en_ready, permisos, cpu, plp_visto,
                   pcp, io, consola, caido>>

\* The second look at NEW: it still starts with the process seen.
SigueEnNew == plp_visto # NULL /\ squeue_peek(colas["NEW"]) = plp_visto

\* It does: pop it and send it to memory.
PlpSaca ==
    /\ plp_pc = "espera_permiso" /\ permisos["entrada_a_ready"] > 0 /\ SigueEnNew
    /\ permisos' = [permisos EXCEPT !["entrada_a_ready"] = @ - 1]
    /\ colas' = [colas EXCEPT !["NEW"] = squeue_pop(@)]
    /\ mano' = [mano EXCEPT !["plp"] = plp_visto]
    /\ plp_visto' = NULL
    /\ plp_pc' = "carga"
    /\ UNCHANGED <<ultimo_pid, recs, grado, sem_elementos_en_new, sem_elementos_en_ready,
                   cpu, pcp, io, consola, caido>>

\* It was killed while the PLP waited: give back the place and the permission.
PlpDescarta_SinDevolver ==
    /\ plp_pc = "espera_permiso" /\ permisos["entrada_a_ready"] > 0 /\ ~SigueEnNew
    /\ plp_visto' = NULL
    /\ plp_pc' = "espera_new"
    /\ UNCHANGED <<ultimo_pid, colas, mano, recs, grado, sem_elementos_en_new,
                   sem_elementos_en_ready, permisos, cpu, pcp, io, consola, caido>>

PlpDescarta ==
    /\ plp_pc = "espera_permiso" /\ permisos["entrada_a_ready"] > 0 /\ ~SigueEnNew
    /\ sem_multiprogramacion' = sem_multiprogramacion + 1
    /\ plp_visto' = NULL
    /\ plp_pc' = "espera_new"
    /\ UNCHANGED <<ultimo_pid, colas, mano, recs, grado_multiprogramacion, procesos_extra,
                   sem_elementos_en_new, sem_elementos_en_ready, permisos, cpu,
                   pcp, io, consola, caido>>

\* Memory answered.
PlpEncola ==
    /\ plp_pc = "carga"
    /\ colas' = [colas EXCEPT !["READY"] = squeue_push(@, mano["plp"])]
    /\ mano' = [mano EXCEPT !["plp"] = NULL]
    /\ permisos' = [permisos EXCEPT !["entrada_a_ready"] = @ + 1]
    /\ plp_pc' = "avisa"
    /\ UNCHANGED <<ultimo_pid, recs, grado, sem_elementos_en_new, sem_elementos_en_ready,
                   cpu, plp_visto, pcp, io, consola, caido>>

PlpAvisa_SinPost ==
    /\ plp_pc = "avisa"
    /\ plp_pc' = "espera_new"
    /\ UNCHANGED <<ultimo_pid, colas, mano, recs, grado, sem_elementos_en_new,
                   sem_elementos_en_ready, permisos, cpu, plp_visto, pcp, io, consola, caido>>

PlpAvisa ==
    /\ plp_pc = "avisa"
    /\ sem_elementos_en_ready' = sem_elementos_en_ready + 1
    /\ plp_pc' = "espera_new"
    /\ UNCHANGED <<ultimo_pid, colas, mano, recs, grado, sem_elementos_en_new, permisos,
                   cpu, plp_visto, pcp, io, consola, caido>>

Plp == PlpVeNew \/ PlpTomaLugar \/ PlpSaca \/ PlpDescarta \/ PlpEncola \/ PlpAvisa

-----------------------------------------------------------------------------
(* planificador_corto_plazo                                                 *)

\* The queue peek_siguiente_pcb and pop_siguiente_pcb work on.
ColaSiguiente == IF colas["READY_PLUS"] # <<>> THEN "READY_PLUS" ELSE "READY"
peek_siguiente_pcb == squeue_peek(colas[ColaSiguiente])

PcpVeReady ==
    /\ pcp_pc = "espera_ready" /\ sem_elementos_en_ready > 0
    /\ ~Trabada(ColaSiguiente)
    /\ sem_elementos_en_ready' = sem_elementos_en_ready - 1
    /\ pcp_visto' = peek_siguiente_pcb
    /\ pcp_pc' = "espera_exec"
    /\ UNCHANGED <<ultimo_pid, colas, mano, recs, grado, sem_elementos_en_new, permisos,
                   cpu, plp, pcp_motivo, io, consola, caido>>

\* The second look: the PCB seen is still the next one.
SigueSiguiente_SinMirar == pcp_visto # NULL
SigueSiguiente == pcp_visto # NULL /\ peek_siguiente_pcb = pcp_visto

PcpConfirma ==
    /\ pcp_pc = "espera_exec" /\ permisos["entrada_a_exec"] > 0 /\ SigueSiguiente
    /\ permisos' = [permisos EXCEPT !["entrada_a_exec"] = @ - 1]
    /\ pcp_pc' = "saca"
    /\ UNCHANGED <<ultimo_pid, colas, mano, recs, grado, sem_elementos_en_new,
                   sem_elementos_en_ready, cpu, plp, pcp_visto, pcp_motivo, io, consola, caido>>

\* It is not: start over, without giving back the element waited for.
PcpRechaza ==
    /\ pcp_pc = "espera_exec" /\ permisos["entrada_a_exec"] > 0 /\ ~SigueSiguiente
    /\ pcp_visto' = NULL
    /\ pcp_pc' = "espera_ready"
    /\ UNCHANGED <<ultimo_pid, colas, mano, recs, grado, sem_elementos_en_new,
                   sem_elementos_en_ready, permisos, cpu, plp, pcp_motivo, io, consola, caido>>

\* pop_siguiente_pcb takes whatever is first now; the PCB sent is the one seen.
PcpDespacha ==
    /\ pcp_pc = "saca"
    /\ colas' = [colas EXCEPT ![ColaSiguiente] = squeue_pop(@)]
    /\ mano' = [mano EXCEPT !["cpu"] = pcp_visto]
    /\ pid_en_ejecucion' = pcp_visto
    /\ permisos' = [permisos EXCEPT !["entrada_a_exec"] = @ + 1]
    /\ pcp_visto' = NULL
    /\ pcp_pc' = "espera_cpu"
    /\ UNCHANGED <<ultimo_pid, recs, grado, sem_elementos_en_new, sem_elementos_en_ready,
                   interrumpidos, plp, pcp_motivo, io, consola, caido>>

\* The CPU returns the PCB, with its motive and that motive's parameter.
PcpRecibe ==
    /\ pcp_pc = "espera_cpu"
    /\ \E m \in Posibles(mano["cpu"]) : pcp_motivo' = m
    /\ mano' = [mano EXCEPT !["pcp"] = mano["cpu"], !["cpu"] = NULL]
    /\ pid_en_ejecucion' = NULL
    /\ pcp_pc' = "espera_desalojo"
    /\ UNCHANGED <<ultimo_pid, colas, recs, grado, sem_elementos_en_new, sem_elementos_en_ready,
                   permisos, interrumpidos, plp, pcp_visto, io, consola, caido>>

\* The handlers below run while the PCP holds sem_manejo_desalojo_cpu; those that
\* no other thread can observe half-way are one step and leave it as it was.
Maneja_SinPermiso(m) == pcp_pc = "espera_desalojo" /\ pcp_motivo = m
Maneja(m) == /\ pcp_pc = "espera_desalojo" /\ permisos["manejo_desalojo_cpu"] > 0
             /\ pcp_motivo = m

\* The PCB received goes into queue c and the next iteration dispatches another.
Encolar(c) ==
    /\ colas' = [colas EXCEPT ![c] = squeue_push(@, mano["pcp"])]
    /\ mano' = [mano EXCEPT !["pcp"] = NULL]
    /\ pcp_pc' = "espera_ready" /\ pcp_motivo' = SinMotivo
    /\ UNCHANGED <<ultimo_pid, asignaciones, grado, sem_elementos_en_new, cpu, plp,
                   pcp_visto, io_pc, io_actual, io_cuenta, consola, caido>>

\* The PCB received goes back to the CPU: planificar_nuevo_proceso = false.
DevolverEjecucion ==
    /\ mano' = [mano EXCEPT !["cpu"] = mano["pcp"], !["pcp"] = NULL]
    /\ pcp_pc' = "espera_cpu" /\ pcp_motivo' = SinMotivo
    /\ UNCHANGED <<ultimo_pid, grado, sem_elementos_en_new, cpu, plp, pcp_visto, io,
                   consola, caido>>

PcpFinQuantum ==
    /\ Maneja(<<"FIN_QUANTUM", "-">>)
    /\ Encolar("READY")
    /\ sem_elementos_en_ready' = sem_elementos_en_ready + 1
    /\ UNCHANGED <<instancias, permisos, procesos_esperando>>

\* asignar_recurso decrements, which says one more is blocked before anybody is in
\* the queue, ...
PcpWaitDescuenta(r) ==
    /\ Maneja(<<"WAIT_RECURSO", r>>)
    /\ instancias' = [instancias EXCEPT ![r] = @ - 1]
    /\ permisos' = [permisos EXCEPT !["manejo_desalojo_cpu"] = @ - 1]
    /\ pcp_pc' = "pide"
    /\ UNCHANGED <<ultimo_pid, colas, mano, asignaciones, grado, sem_elementos_en_new,
                   sem_elementos_en_ready, cpu, plp, pcp_visto, pcp_motivo, io, consola, caido>>

\* ... and then asks whether the counter is >= 0.
Pide(r) == /\ pcp_pc = "pide" /\ pcp_motivo = <<"WAIT_RECURSO", r>>
           /\ permisos' = [permisos EXCEPT !["manejo_desalojo_cpu"] = @ + 1]

PcpWaitAsigna(r) ==
    /\ Pide(r) /\ instancias[r] >= 0
    /\ asignaciones' = Append(asignaciones, [pid |-> mano["pcp"], recurso |-> r])
    /\ DevolverEjecucion
    /\ UNCHANGED <<colas, instancias, sem_elementos_en_ready>>

PcpWaitBloquea(r) ==
    /\ Pide(r) /\ instancias[r] < 0
    /\ Encolar(r)
    /\ UNCHANGED <<instancias, sem_elementos_en_ready, procesos_esperando>>

PcpSignal(r) ==
    /\ Maneja(<<"SIGNAL_RECURSO", r>>)
    /\ IncrementarRecurso(r, Quitar(asignaciones, [pid |-> mano["pcp"], recurso |-> r]))
    /\ DevolverEjecucion
    /\ UNCHANGED permisos

PcpIo_SinPost(i) ==
    /\ Maneja(<<"IO", i>>) /\ Conectada(i)
    /\ Encolar(i)
    /\ UNCHANGED <<instancias, sem_elementos_en_ready, permisos, procesos_esperando>>

PcpIo(i) ==
    /\ Maneja(<<"IO", i>>) /\ Conectada(i)
    /\ Encolar(i)
    /\ procesos_esperando' = [procesos_esperando EXCEPT ![i] = @ + 1]
    /\ UNCHANGED <<instancias, sem_elementos_en_ready, permisos>>

PcpElimina ==
    /\ \E m \in Motivo : Maneja(m) /\ Termina(m)
    /\ permisos' = [permisos EXCEPT !["manejo_desalojo_cpu"] = @ - 1]
    /\ DevolverLugar
    /\ pcp_pc' = "elimina" /\ pcp_motivo' = SinMotivo
    /\ UNCHANGED <<ultimo_pid, colas, mano, recs, sem_elementos_en_new, sem_elementos_en_ready,
                   cpu, plp, pcp_visto, io, consola, caido>>

PcpLibera ==
    /\ pcp_pc = "elimina"
    /\ LiberarUna(mano["pcp"])
    /\ UNCHANGED <<ultimo_pid, mano, grado, sem_elementos_en_new, permisos, cpu, plp, pcp, io,
                   consola, caido>>

PcpTermina ==
    /\ pcp_pc = "elimina" /\ AsignacionesDe(mano["pcp"]) = {}
    /\ colas' = [colas EXCEPT !["EXIT"] = squeue_push(@, mano["pcp"])]
    /\ mano' = [mano EXCEPT !["pcp"] = NULL]
    /\ permisos' = [permisos EXCEPT !["manejo_desalojo_cpu"] = @ + 1]
    /\ pcp_pc' = "espera_ready"
    /\ UNCHANGED <<ultimo_pid, recs, grado, sem_elementos_en_new, sem_elementos_en_ready,
                   cpu, plp, pcp_visto, pcp_motivo, io, consola, caido>>

PcpSacaNull(r) ==
    /\ \/ Maneja(<<"SIGNAL_RECURSO", r>>)
       \/ pcp_pc = "elimina" /\ Libera(mano["pcp"], r)
    /\ PopDeNull(r)

Pcp == \/ PcpVeReady \/ PcpConfirma \/ PcpRechaza \/ PcpDespacha \/ PcpRecibe
       \/ PcpFinQuantum \/ PcpElimina \/ PcpLibera \/ PcpTermina
       \/ \E r \in Recursos : \/ PcpWaitAsigna(r) \/ PcpWaitDescuenta(r)
                            \/ PcpWaitBloquea(r) \/ PcpSignal(r) \/ PcpSacaNull(r)
       \/ \E i \in Interfaces : PcpIo(i)

-----------------------------------------------------------------------------
(* atender_io, the thread of interface i                                    *)

IoToma(i) ==
    /\ io_pc[i] = "espera" /\ procesos_esperando[i] > 0
    /\ colas[i] # <<>> /\ ~Trabada(i)
    /\ procesos_esperando' = [procesos_esperando EXCEPT ![i] = @ - 1]
    /\ io_actual' = [io_actual EXCEPT ![i] = squeue_peek(colas[i])]
    /\ io_pc' = [io_pc EXCEPT ![i] = "opera"]
    /\ UNCHANGED <<ultimo_pid, colas, mano, recs, grado, sem_elementos_en_new,
                   sem_elementos_en_ready, permisos, cpu, plp, pcp, io_cuenta, consola,
                   caido>>

\* The process that posted was killed and no other is left: the log line reads
\* the PCB of a NULL t_bloqueado_io.
IoLeeNull(i) ==
    /\ io_pc[i] = "espera" /\ procesos_esperando[i] > 0
    /\ colas[i] = <<>>
    /\ Muere

\* MENSAJE_FIN_IO arrived.
IoTermina(i) ==
    /\ io_pc[i] = "opera"
    /\ io_pc' = [io_pc EXCEPT ![i] = "espera_permiso"]
    /\ UNCHANGED <<ultimo_pid, colas, mano, recs, grado, sem_elementos_en_new,
                   sem_elementos_en_ready, permisos, cpu, plp, pcp, io_actual,
                   procesos_esperando, io_cuenta, consola, caido>>

\* The same, but the t_bloqueado_io the log line reads was freed by the console:
\* reading it may also kill the kernel.
IoLeeLiberado(i) ==
    /\ io_pc[i] = "opera" /\ ~Contiene(colas[i], io_actual[i])
    /\ Muere

ColaDesbloqueados == IF Algoritmo = "VRR" THEN "READY_PLUS" ELSE "READY"

\* The second look: the process whose operation ended is still the first one.
SigueBloqueado_SinMirar(i) == io_actual[i] # NULL
SigueBloqueado(i) == io_actual[i] # NULL /\ squeue_peek(colas[i]) = io_actual[i]

IoDesbloquea(i) ==
    /\ io_pc[i] = "espera_permiso" /\ permisos["entrada_a_ready"] > 0 /\ SigueBloqueado(i)
    /\ colas' = [colas EXCEPT ![i] = squeue_pop(@),
                              ![ColaDesbloqueados] = squeue_push(@, io_actual[i])]
    /\ io_actual' = [io_actual EXCEPT ![i] = NULL]
    /\ io_pc' = [io_pc EXCEPT ![i] = "avisa"]
    /\ UNCHANGED <<ultimo_pid, mano, recs, grado, sem_elementos_en_new, sem_elementos_en_ready,
                   permisos, cpu, plp, pcp, procesos_esperando, io_cuenta, consola, caido>>

\* It was killed during the operation.
IoDescarta(i) ==
    /\ io_pc[i] = "espera_permiso" /\ permisos["entrada_a_ready"] > 0 /\ ~SigueBloqueado(i)
    /\ io_actual' = [io_actual EXCEPT ![i] = NULL]
    /\ io_pc' = [io_pc EXCEPT ![i] = "espera"]
    /\ UNCHANGED <<ultimo_pid, colas, mano, recs, grado, sem_elementos_en_new,
                   sem_elementos_en_ready, permisos, cpu, plp, pcp, procesos_esperando,
                   io_cuenta, consola, caido>>

IoAvisa(i) ==
    /\ io_pc[i] = "avisa"
    /\ sem_elementos_en_ready' = sem_elementos_en_ready + 1
    /\ io_pc' = [io_pc EXCEPT ![i] = "espera"]
    /\ UNCHANGED <<ultimo_pid, colas, mano, recs, grado, sem_elementos_en_new, permisos,
                   cpu, plp, pcp, io_actual, procesos_esperando, io_cuenta, consola, caido>>

\* The socket closed, or what came is not MENSAJE_FIN_IO: out of the loop, to
\* eliminar_procesos_bloqueados.  No permission is asked for from here on.
IoDesconecta(i) ==
    /\ io_pc[i] = "opera"
    /\ io_actual' = [io_actual EXCEPT ![i] = NULL]
    /\ io_pc' = [io_pc EXCEPT ![i] = "sale"]
    /\ UNCHANGED <<ultimo_pid, colas, mano, recs, grado, sem_elementos_en_new,
                   sem_elementos_en_ready, permisos, cpu, plp, pcp, procesos_esperando,
                   io_cuenta, consola, caido>>

\* The next one blocked on it: the pop and the first half of eliminar_proceso.
IoSacaBloqueado(i) ==
    /\ io_pc[i] = "sale" /\ colas[i] # <<>> /\ ~Trabada(i)
    /\ colas' = [colas EXCEPT ![i] = squeue_pop(@)]
    /\ mano' = [mano EXCEPT ![i] = squeue_peek(colas[i])]
    /\ DevolverLugar
    /\ io_pc' = [io_pc EXCEPT ![i] = "elimina"]
    /\ UNCHANGED <<ultimo_pid, recs, sem_elementos_en_new, sem_elementos_en_ready, permisos,
                   cpu, plp, pcp, io_actual, procesos_esperando, io_cuenta, consola, caido>>

\* incrementar_recurso in four: it reads the counter, wakes somebody, loads the
\* counter and stores it.
IoLeeCuenta(i, r) ==
    /\ io_pc[i] = "elimina" /\ Libera(mano[i], r)
    /\ io_pc' = [io_pc EXCEPT ![i] = IF instancias[r] < 0 THEN "saca" ELSE "suma"]
    /\ UNCHANGED <<ultimo_pid, colas, mano, recs, grado, sem_elementos_en_new,
                   sem_elementos_en_ready, permisos, cpu, plp, pcp, io_actual, io_cuenta,
                   procesos_esperando, consola, caido>>

IoDespierta(i, r) ==
    /\ io_pc[i] = "saca" /\ Libera(mano[i], r) /\ ~Trabada(r) /\ ~Trabada("READY")
    /\ Despertar(r, asignaciones)
    /\ io_pc' = [io_pc EXCEPT ![i] = "suma"]
    /\ UNCHANGED <<ultimo_pid, mano, instancias, grado, sem_elementos_en_new, permisos, cpu,
                   plp, pcp, io_actual, io_cuenta, procesos_esperando, consola, caido>>

IoSacaNull(i, r) ==
    /\ io_pc[i] = "saca" /\ Libera(mano[i], r) /\ ~Trabada(r)
    /\ colas[r] = <<>>
    /\ Muere

IoCarga(i, r) ==
    /\ io_pc[i] = "suma" /\ Libera(mano[i], r)
    /\ io_cuenta' = [io_cuenta EXCEPT ![i] = instancias[r]]
    /\ io_pc' = [io_pc EXCEPT ![i] = "guarda"]
    /\ UNCHANGED <<ultimo_pid, colas, mano, recs, grado, sem_elementos_en_new,
                   sem_elementos_en_ready, permisos, cpu, plp, pcp, io_actual,
                   procesos_esperando, consola, caido>>

IoGuarda(i, r) ==
    /\ io_pc[i] = "guarda" /\ Libera(mano[i], r)
    /\ \/ instancias' = [instancias EXCEPT ![r] = io_cuenta[i] + 1]
       \/ CuentaOtro(r) /\ UNCHANGED instancias
    /\ asignaciones' = RemoveAt(asignaciones, PrimeraDe(mano[i]))
    /\ io_cuenta' = [io_cuenta EXCEPT ![i] = 0]
    /\ io_pc' = [io_pc EXCEPT ![i] = "elimina"]
    /\ UNCHANGED <<ultimo_pid, colas, mano, grado, sem_elementos_en_new,
                   sem_elementos_en_ready, permisos, cpu, plp, pcp, io_actual,
                   procesos_esperando, consola, caido>>

IoElimina(i) ==
    /\ io_pc[i] = "elimina" /\ AsignacionesDe(mano[i]) = {}
    /\ colas' = [colas EXCEPT !["EXIT"] = squeue_push(@, mano[i])]
    /\ mano' = [mano EXCEPT ![i] = NULL]
    /\ io_pc' = [io_pc EXCEPT ![i] = "sale"]
    /\ UNCHANGED <<ultimo_pid, recs, grado, sem_elementos_en_new, sem_elementos_en_ready,
                   permisos, cpu, plp, pcp, io_actual, io_cuenta, procesos_esperando,
                   consola, caido>>

\* Nobody is left: it leaves the dictionary.  Who blocks on it in between stays in
\* a queue nobody looks at (Interfaces follows desregistrar_interfaz in detail).
IoSeVa(i) ==
    /\ \/ /\ io_pc[i] = "sale" /\ colas[i] = <<>> /\ ~Trabada(i)
          /\ io_pc' = [io_pc EXCEPT ![i] = "se_va"]
       \/ /\ io_pc[i] = "se_va"
          /\ io_pc' = [io_pc EXCEPT ![i] = "fuera"]
    /\ UNCHANGED <<ultimo_pid, colas, mano, recs, grado, sem_elementos_en_new,
                   sem_elementos_en_ready, permisos, cpu, plp, pcp, io_actual, io_cuenta,
                   procesos_esperando, consola, caido>>

Io(i) == \/ IoToma(i) \/ IoLeeNull(i) \/ IoTermina(i) \/ IoLeeLiberado(i)
         \/ IoDesbloquea(i) \/ IoDescarta(i) \/ IoAvisa(i)
         \/ IoDesconecta(i) \/ IoSacaBloqueado(i) \/ IoElimina(i) \/ IoSeVa(i)
         \/ \E r \in Recursos : \/ IoLeeCuenta(i, r) \/ IoDespierta(i, r) \/ IoSacaNull(i, r)
                               \/ IoCarga(i, r) \/ IoGuarda(i, r)

-----------------------------------------------------------------------------
(* correr_consola                                                           *)

ConIniciar ==
    /\ con_pc = "libre" /\ ultimo_pid <= MaxProcesos
    /\ ultimo_pid' = ultimo_pid + 1
    /\ colas' = [colas EXCEPT !["NEW"] = squeue_push(@, ultimo_pid)]
    /\ sem_elementos_en_new' = sem_elementos_en_new + 1
    /\ UNCHANGED <<mano, recs, grado, sem_elementos_en_ready, permisos, cpu, plp, pcp, io,
                   consola, caido>>

\* MULTIPROGRAMACION n: growing posts the difference, shrinking only owes it.
ConGrado(n) ==
    /\ con_pc = "libre" /\ n # grado_multiprogramacion
    /\ \/ /\ n > grado_multiprogramacion
          /\ sem_multiprogramacion' = sem_multiprogramacion + (n - grado_multiprogramacion)
          /\ UNCHANGED procesos_extra
       \/ /\ n < grado_multiprogramacion
          /\ procesos_extra + (grado_multiprogramacion - n) <= MaxExtra
          /\ procesos_extra' = procesos_extra + (grado_multiprogramacion - n)
          /\ UNCHANGED sem_multiprogramacion
    /\ grado_multiprogramacion' = n
    /\ UNCHANGED <<ultimo_pid, colas, mano, recs, sem_elementos_en_new, sem_elementos_en_ready,
                   permisos, cpu, plp, pcp, io, consola, caido>>

ConDetener ==
    /\ con_pc = "libre" /\ ~planificacion_pausada
    /\ con_pc' = "pausa"
    /\ UNCHANGED <<ultimo_pid, colas, mano, recs, grado, sem_elementos_en_new,
                   sem_elementos_en_ready, permisos, cpu, plp, pcp, io,
                   planificacion_pausada, con_pid, con_tomados, con_reanuda, con_cola, caido>>

\* FINALIZAR_PROCESO p pauses first, unless the operator already did.
ConFinalizar(p) ==
    /\ con_pc = "libre" /\ p < ultimo_pid
    /\ con_pid' = p
    /\ con_reanuda' = ~planificacion_pausada
    /\ con_pc' = IF planificacion_pausada THEN "busca" ELSE "pausa"
    /\ UNCHANGED <<ultimo_pid, colas, mano, recs, grado, sem_elementos_en_new,
                   sem_elementos_en_ready, permisos, cpu, plp, pcp, io,
                   planificacion_pausada, con_tomados, con_cola, caido>>

\* One sem_wait of pausar_planificacion, in its order.
ConTomaPermiso ==
    /\ con_pc = "pausa" /\ con_tomados < 4 /\ permisos[Permisos[con_tomados + 1]] > 0
    /\ permisos' = [permisos EXCEPT ![Permisos[con_tomados + 1]] = @ - 1]
    /\ con_tomados' = con_tomados + 1
    /\ UNCHANGED <<ultimo_pid, colas, mano, recs, grado, sem_elementos_en_new,
                   sem_elementos_en_ready, cpu, plp, pcp, io,
                   planificacion_pausada, con_pc, con_pid, con_reanuda, con_cola, caido>>

ConPausada ==
    /\ con_pc = "pausa" /\ con_tomados = 4
    /\ planificacion_pausada' = TRUE
    /\ con_pc' = IF con_pid = NULL THEN "libre" ELSE "busca"
    /\ UNCHANGED <<ultimo_pid, colas, mano, recs, grado, sem_elementos_en_new,
                   sem_elementos_en_ready, permisos, cpu, plp, pcp, io,
                   con_pid, con_tomados, con_reanuda, con_cola, caido>>

\* reanudar_planificacion: the four posts only enable other threads.
Reanudar_FaltaUno ==
    /\ permisos' = [x \in Permiso |-> IF x = "interrupcion_rr" THEN permisos[x]
                                                              ELSE permisos[x] + 1]
    /\ con_tomados' = 0
    /\ planificacion_pausada' = FALSE

Reanudar ==
    /\ permisos' = [x \in Permiso |-> permisos[x] + 1]
    /\ con_tomados' = 0
    /\ planificacion_pausada' = FALSE

ConReanudar ==
    /\ con_pc = "libre" /\ planificacion_pausada
    /\ Reanudar
    /\ UNCHANGED <<ultimo_pid, colas, mano, recs, grado, sem_elementos_en_new,
                   sem_elementos_en_ready, cpu, plp, pcp, io, con_pc, con_pid, con_reanuda,
                   con_cola, caido>>

\* The end of finalizar_proceso: resume only what this command paused.
FinDelComando ==
    /\ con_pc' = "libre" /\ con_pid' = NULL /\ con_reanuda' = FALSE /\ con_cola' = "-"
    /\ \/ con_reanuda /\ Reanudar
       \/ ~con_reanuda /\ UNCHANGED <<permisos, con_tomados, planificacion_pausada>>

\* It is the one pid_en_ejecucion names: ask the CPU to give it up.
ConInterrumpe ==
    /\ con_pc = "busca" /\ con_pid = pid_en_ejecucion
    /\ interrumpidos' = interrumpidos \cup {con_pid}
    /\ FinDelComando
    /\ UNCHANGED <<ultimo_pid, colas, mano, recs, grado, sem_elementos_en_new,
                   sem_elementos_en_ready, pid_en_ejecucion, plp, pcp, io, caido>>

\* A process in NEW owns nothing yet: it goes straight to EXIT.
ConEliminaNew ==
    /\ con_pc = "busca" /\ con_pid # pid_en_ejecucion
    /\ Contiene(colas["NEW"], con_pid)
    /\ colas' = [colas EXCEPT !["NEW"] = Quitar(@, con_pid), !["EXIT"] = squeue_push(@, con_pid)]
    /\ FinDelComando
    /\ UNCHANGED <<ultimo_pid, mano, recs, grado, sem_elementos_en_new, sem_elementos_en_ready,
                   cpu, plp, pcp, io, caido>>

\* The queues finalizar_proceso walks after NEW, each only if those before it
\* did not have the process.
Antes(c) == CASE c = "READY" -> {"NEW"}
              [] c = "READY_PLUS" -> {"NEW", "READY"}
              [] c \in Recursos -> {"NEW", "READY", "READY_PLUS"}
              [] c \in Interfaces -> {"NEW", "READY", "READY_PLUS"} \cup Recursos

ConElimina(c) ==
    /\ con_pc = "busca" /\ con_pid # pid_en_ejecucion
    /\ c \in Interfaces => Conectada(c)
    /\ Contiene(colas[c], con_pid) /\ \A d \in Antes(c) : ~Contiene(colas[d], con_pid)
    /\ colas' = [colas EXCEPT ![c] = Quitar(@, con_pid)]
    /\ mano' = [mano EXCEPT !["consola"] = con_pid]
    /\ DevolverLugar
    /\ con_cola' = c
    /\ con_pc' = "elimina"
    /\ UNCHANGED <<ultimo_pid, recs, sem_elementos_en_new, sem_elementos_en_ready, permisos,
                   cpu, plp, pcp, io, planificacion_pausada, con_pid, con_tomados, con_reanuda,
                   caido>>

\* The queues of resources are walked after READY: a process an interface that
\* leaves is waking up may be in neither when the walk gets there.
SeEscapa(p) == \E i \in Interfaces, r \in Recursos :
    /\ io_pc[i] = "saca" /\ Libera(mano[i], r)
    /\ Contiene(colas[r], p)

ConNoEncuentra ==
    /\ con_pc = "busca" /\ con_pid # pid_en_ejecucion
    /\ \/ SeEscapa(con_pid)
       \/ \A c \in Cola \ {"EXIT"} :
              Contiene(colas[c], con_pid) => c \in Interfaces /\ ~Conectada(c)
    /\ FinDelComando
    /\ UNCHANGED <<ultimo_pid, colas, mano, recs, grado, sem_elementos_en_new,
                   sem_elementos_en_ready, cpu, plp, pcp, io, caido>>

\* Releasing a resource others wait for pops its queue and lists cola_ready,
\* taking both mutexes: one of them may be the one this thread already holds.
Recierra(r) == /\ instancias[r] < 0
               /\ con_cola = r \/ (con_cola = "READY" /\ colas[r] # <<>>)

ConLibera ==
    /\ con_pc = "elimina" /\ AsignacionesDe(con_pid) # {}
    /\ ~Recierra(asignaciones[PrimeraDe(con_pid)].recurso)
    /\ LiberarUna(con_pid)
    /\ UNCHANGED <<ultimo_pid, mano, grado, sem_elementos_en_new, permisos, cpu, plp, pcp, io,
                   consola, caido>>

\* The mutexes are not recursive: the console waits for itself, for ever.
ConSeTraba ==
    /\ con_pc = "elimina" /\ AsignacionesDe(con_pid) # {}
    /\ Recierra(asignaciones[PrimeraDe(con_pid)].recurso)
    /\ con_pc' = "trabada"
    /\ UNCHANGED <<ultimo_pid, colas, mano, recs, grado, sem_elementos_en_new,
                   sem_elementos_en_ready, permisos, cpu, plp, pcp, io, planificacion_pausada,
                   con_pid, con_tomados, con_reanuda, con_cola, caido>>

ConSacaNull(r) ==
    /\ con_pc = "elimina" /\ Libera(con_pid, r) /\ ~Recierra(r)
    /\ PopDeNull(r)

\* One waiter less on the resource the process was blocked on, if any, which
\* must be negative.
DescontarEspera_Olvida == UNCHANGED instancias
DescontarEspera ==
    instancias' = [r \in Recursos |-> IF r = con_cola THEN instancias[r] + 1 ELSE instancias[r]]

ConTermina ==
    /\ con_pc = "elimina" /\ AsignacionesDe(con_pid) = {}
    /\ con_cola \in Recursos => instancias[con_cola] < 0
    /\ colas' = [colas EXCEPT !["EXIT"] = squeue_push(@, con_pid)]
    /\ mano' = [mano EXCEPT !["consola"] = NULL]
    /\ DescontarEspera
    /\ FinDelComando
    /\ UNCHANGED <<ultimo_pid, asignaciones, grado, sem_elementos_en_new, sem_elementos_en_ready,
                   cpu, plp, pcp, io, caido>>

ConAserto ==
    /\ con_pc = "elimina" /\ AsignacionesDe(con_pid) = {}
    /\ con_cola \in Recursos /\ instancias[con_cola] >= 0
    /\ Muere

\* What the operator types, and the rest of a command already typed.
Operador == \/ ConIniciar \/ ConDetener \/ ConReanudar
            \/ \E n \in 0..MaxGrado : ConGrado(n)
            \/ \E p \in Pid : ConFinalizar(p)
Comando == \/ ConTomaPermiso \/ ConPausada \/ ConInterrumpe \/ ConEliminaNew
           \/ \E c \in Cola \ {"NEW", "EXIT"} : ConElimina(c)
           \/ ConNoEncuentra \/ ConLibera \/ ConSeTraba \/ ConTermina
           \/ (\E r \in Recursos : ConSacaNull(r)) \/ ConAserto

Next == /\ ~caido
        /\ \/ Plp \/ Pcp \/ Operador \/ Comando
           \/ \E i \in Interfaces : Io(i)

Spec == Init /\ [][Next]_vars

\* Every thread goes on when it can, the CPU returns every PCB and memory and
\* devices answer.  sem_wait is not first come, first served, so the waits on a
\* semaphore others also take get strong fairness: they are not overtaken for
\* ever.  Nothing is assumed of what the operator types.
Equidad == /\ SF_vars(~caido /\ Plp) /\ SF_vars(~caido /\ Pcp) /\ SF_vars(~caido /\ Comando)
           /\ \A i \in Interfaces : SF_vars(~caido /\ Io(i))
SpecJusta == Spec /\ Equidad

-----------------------------------------------------------------------------
(* Properties                                                               *)

TypeColas ==
    /\ ultimo_pid \in 1..(MaxProcesos + 1)
    /\ colas \in [Cola -> Seq(Pid)] /\ mano \in [Hilo -> PidONada]
    /\ instancias \in [Recursos -> Int]
    /\ asignaciones \in Seq(Asignacion)
    /\ plp_visto \in PidONada /\ pcp_visto \in PidONada
    /\ io_actual \in [Interfaces -> PidONada] /\ io_cuenta \in [Interfaces -> Int]
    /\ pid_en_ejecucion \in PidONada /\ interrumpidos \subseteq Pid

TypeContadores ==
    /\ sem_multiprogramacion \in Nat /\ grado_multiprogramacion \in Nat
    /\ procesos_extra \in Nat
    /\ sem_elementos_en_new \in Nat /\ sem_elementos_en_ready \in Nat
    /\ procesos_esperando \in [Interfaces -> Nat]
    /\ permisos \in [Permiso -> {0, 1}] /\ con_tomados \in 0..4

TypeHilos ==
    /\ plp_pc \in {"espera_new", "espera_grado", "espera_permiso", "carga", "avisa"}
    /\ pcp_pc \in {"espera_ready", "espera_exec", "saca", "espera_cpu", "espera_desalojo",
                   "pide", "elimina"}
    /\ pcp_motivo \in Motivo \cup {SinMotivo}
    /\ io_pc \in [Interfaces -> Atiende \cup Saliendo \cup {"fuera"}]
    /\ con_pc \in {"libre", "pausa", "busca", "elimina", "trabada"}
    /\ con_pid \in PidONada /\ con_cola \in Cola \cup {"-"}
    /\ planificacion_pausada \in BOOLEAN /\ con_reanuda \in BOOLEAN /\ caido \in BOOLEAN

TypeOK == TypeColas /\ TypeContadores /\ TypeHilos

\* A process is never in two queues, twice in one, or in a queue while a thread
\* or the CPU has it: what every walk, push and free of the kernel relies on.
SinDuplicados ==
    /\ \A c \in Cola : IsInjective(colas[c])
    /\ \A c, d \in Cola : c # d => Range(colas[c]) \cap Range(colas[d]) = {}
    /\ \A h, k \in Hilo : mano[h] = mano[k] /\ mano[h] # NULL => h = k
    /\ \A h \in Hilo, c \in Cola : ~Contiene(colas[c], mano[h])

\* A process the operator started is always somewhere.
SinPerdidos ==
    \A p \in 1..(ultimo_pid - 1) :
        \/ \E c \in Cola : Contiene(colas[c], p)
        \/ \E h \in Hilo : mano[h] = p

\* Exactly one place for each process, through every interleaving of the
\* schedulers, the interfaces, kills and pauses.  FIFO and RR only: see PopDelVisto.
UnSoloLugar == SinDuplicados /\ SinPerdidos

\* No lost wake-up: every process in READY has a semaphore unit that will bring
\* the PCP to it, in sem_elementos_en_ready, about to be posted, or already taken
\* by the PCP for the process it is dispatching.
Uno(b) == IF b THEN 1 ELSE 0
AvisosReady ==
    Len(colas["READY"]) + Len(colas["READY_PLUS"])
        <= sem_elementos_en_ready + Uno(plp_pc = "avisa")
           + Cardinality({i \in Interfaces : io_pc[i] = "avisa"})
           + Uno(/\ pcp_pc \in {"espera_exec", "saca"}
                 /\ \E c \in {"READY", "READY_PLUS"} : Contiene(colas[c], pcp_visto))

\* The same for the PLP and NEW, and for each interface that attends and its
\* blocked queue.
AvisosNewEIo ==
    /\ Len(colas["NEW"])
           <= sem_elementos_en_new
              + Uno(/\ plp_pc \in {"espera_grado", "espera_permiso"}
                    /\ Contiene(colas["NEW"], plp_visto))
    /\ \A i \in Interfaces :
           io_pc[i] \in Atiende =>
             Len(colas[i])
               <= procesos_esperando[i]
                  + Uno(/\ io_pc[i] \in {"opera", "espera_permiso"}
                         /\ Contiene(colas[i], io_actual[i]))

\* The processes that occupy a place of the degree of multiprogramming: those
\* between the PLP's pop and the first half of eliminar_proceso.
Activos ==
    {p \in Pid : \/ \E c \in Cola \ {"NEW", "EXIT"} : Contiene(colas[c], p)
                 \/ \E h \in {"plp", "cpu"} : mano[h] = p
                 \/ mano["pcp"] = p /\ pcp_pc # "elimina"}

\* Places are neither lost nor invented, whatever the operator does to the degree
\* while processes come and go.
ConservacionGrado ==
    sem_multiprogramacion + Uno(plp_pc = "espera_permiso") + Cardinality(Activos)
        = grado_multiprogramacion + procesos_extra

\* No interface has left with processes to eliminate.
Completas == \A i \in Interfaces : io_pc[i] \in Atiende

\* Until an interface leaves, a negative counter is the number of processes blocked
\* on the resource, the one the PCP is about to push and the one finalizar_proceso is
\* taking out included: what incrementar_recurso relies on when it pops, and
\* finalizar_proceso when it asserts.
Bloqueados(r) == Len(colas[r]) + Uno(con_cola = r)
Pidiendo(r)   == Uno(pcp_pc = "pide" /\ pcp_motivo = <<"WAIT_RECURSO", r>>)
BloqueadosContados ==
    Completas =>
        \A r \in Recursos :
            /\ instancias[r] < 0 => instancias[r] + Bloqueados(r) + Pidiendo(r) = 0
            /\ instancias[r] >= 0 => Bloqueados(r) = 0

\* A process that finished, or has not started, holds no resource.
SinAsignacionesHuerfanas ==
    \A k \in DOMAIN asignaciones :
        \A c \in {"NEW", "EXIT"} : ~Contiene(colas[c], asignaciones[k].pid)

\* What DETENER_PLANIFICACION freezes until it is resumed or a process is killed:
\* nobody is sent to the CPU, nobody leaves READY, READY+ or EXIT, the queue of an
\* interface that attends does not move, and nothing does but for new processes
\* arriving to NEW, the one executing coming back to wait in the PCP's hand, and what
\* an interface that leaves does: its processes go to EXIT, whoever waited for their
\* resources to READY.
Quieta(c) == colas'[c] = colas[c]
Congelado ==
    /\ \A c \in {"READY", "EXIT"} : Quieta(c) \/ \E p \in Pid : colas'[c] = Append(colas[c], p)
    /\ Quieta("READY_PLUS")
    /\ \A i \in Interfaces : io_pc[i] \in Atiende => Quieta(i) /\ mano'[i] = mano[i]
    /\ mano'["cpu"] \in {mano["cpu"], NULL} /\ mano'["plp"] = mano["plp"]
    /\ Completas => \A c \in Cola \ {"NEW"} : Quieta(c)
PausaCongela ==
    [][(planificacion_pausada /\ con_pc = "libre" /\ planificacion_pausada') => Congelado]_vars

\* Under FIFO and RR a process in READY is dispatched or killed, unless the
\* operator pauses for good or the kernel dies.
ReadyAvanza ==
    \A p \in Pid :
        Contiene(colas["READY"], p)
            ~> (~Contiene(colas["READY"], p) \/ planificacion_pausada \/ caido)

\* pausar_planificacion gets its four permissions, whatever the schedulers hold.
LaPausaTermina == (con_pc = "pausa") ~> (con_pc # "pausa" \/ caido)

-----------------------------------------------------------------------------
(* What the repository's comments say and the code does not do              *)

\* planificador_corto_plazo.c:204, "Hace pop al elemento que vimos con
\* peek_siguiente_pcb": what the PCP pops is the PCB it saw and dispatches.
PopDelVisto == pcp_pc = "saca" => peek_siguiente_pcb = pcp_visto

\* recursos.c:7-9, "eliminar_proceso, en cuyo caso tampoco quiero que bloquee": the
\* console never waits for itself.
EliminarNoBloquea == con_pc # "trabada"

=============================================================================
