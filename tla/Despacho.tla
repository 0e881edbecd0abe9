------------------------------ MODULE Despacho ------------------------------
(***************************************************************************)
(* A process in execution: the short term planner hands its PCB to the CPU  *)
(* and starts a clock, the CPU runs the instruction cycle over it, and it   *)
(* comes back with a request, by an interrupt of a clock, or by one of the  *)
(* operator.  Threads: planificador_corto_plazo and one reloj_rr per clock, *)
(* in the kernel; the cycle and servidor_interrupt, in the CPU.  They talk  *)
(* over two connections, dispatch and interrupt.                            *)
(* How a process gets to a queue of the kernel is Planificacion's subject:  *)
(* here it starts in READY and a blocked process may be unblocked any time. *)
(* An operator A_B is a plausible slip in A: Next uses none of them.        *)
(***************************************************************************)
EXTENDS Squeue, FiniteSets

CONSTANTS
    MaxProcesos,         \* the processes: pids from 1 on
    Codigos,             \* the programs to run: the instructions of each process
    ALGORITMO_PLANIFICACION,
    QUANTUM,             \* in ticks of the clock
    UINT8_MAX, UINT32_MAX,
    Nada,                \* a NULL PCB, a thread that does nothing
    MaxRelojes,          \* bound: clock threads alive at once
    MaxFinalizar         \* bound: processes the operator finishes, with each of Codigos

Pids == 1..MaxProcesos

\* What a program may say of the instructions that matter here.  A number of its text may be
\* past 32 bits: parsear_set and parsear_jnz keep what fits.
Registro == {"AX", "EAX", "PC"}
Instruccion ==
    [op : {"WAIT", "SIGNAL", "IO", "EXIT", "RESIZE"}]
    \cup [op : {"SET", "JNZ"}, r : Registro, v : Nat]
    \cup [op : {"SUM", "SUB"}, r : Registro, s : Registro]

Pcb == [pid : Pids, program_counter : Nat, registros : [AX : 0..UINT8_MAX, EAX : 0..UINT32_MAX],
        quantum : Int]
Pedido == {"WAIT", "SIGNAL", "IO", "EXIT", "RESIZE"}
Motivo == Pedido \cup {"FIN_QUANTUM", "INTERRUMPIDO_POR_USUARIO"}
\* A PCB and why it was given back; "-" of one on its way to the CPU.
Devuelto == [pcb : Pcb, motivo : Motivo \cup {"-"}]

ASSUME DespachoOK ==
    /\ ALGORITMO_PLANIFICACION \in {"FIFO", "RR", "VRR"}
    /\ MaxProcesos \in Nat /\ QUANTUM \in Nat \ {0} /\ UINT8_MAX \in Nat /\ UINT32_MAX \in Nat
    /\ MaxRelojes \in Nat \ {0} /\ MaxFinalizar \in [Codigos -> Nat]
    /\ \A c \in Codigos : /\ DOMAIN c = Pids
                          /\ \A p \in Pids : c[p] \in Seq(Instruccion) /\ Len(c[p]) <= UINT32_MAX
    /\ Nada \notin Pcb /\ Nada \notin Devuelto

VARIABLES
    codigo,                            \* memoria: the instructions, per process
    cola_ready, cola_ready_plus, bloqueados, salida,   \* kernel: PCBs by where they are
    pcp_pc, mano,                      \* the PCP: its place, the PCB it has and why
    cronometro,                        \* ticks since it was created, up to QUANTUM
    relojes, ultimo,                   \* t_parametros_reloj_rr; the one cancelar_ultimo_reloj is in
    en_ejecucion_ultimo_reloj,
    planificacion_pausada,             \* the operator holds the four permissions
    pid_en_ejecucion, con_pid, finalizados,   \* the operator's FINALIZAR_PROCESO
    dispatch_cpu, dispatch_kernel, interrupt,  \* the connections, each way
    pcb, cpu_pc, interrupts, abortada, \* CPU; abortada: an assert failed
    pedidos, consumido                 \* what the kernel was asked for; the quantum each used up

kernel == <<cola_ready, cola_ready_plus, bloqueados, salida, pcp_pc, mano, pedidos>>
tiempo == <<cronometro, relojes, ultimo, en_ejecucion_ultimo_reloj, consumido>>
consola == <<planificacion_pausada, pid_en_ejecucion, con_pid, finalizados>>
red == <<dispatch_cpu, dispatch_kernel, interrupt>>
cpu == <<pcb, cpu_pc, interrupts, abortada>>
vars == <<kernel, tiempo, consola, red, cpu, codigo>>

Reloj == 1..MaxRelojes
Liberado == [paso |-> "libre", pid |-> NULL, resta |-> 0, cancelado |-> FALSE]
ConReloj == ALGORITMO_PLANIFICACION \in {"RR", "VRR"}
Vrr == ALGORITMO_PLANIFICACION = "VRR"

Nuevo(p) == [pid |-> p, program_counter |-> 0, registros |-> [AX |-> 0, EAX |-> 0],
             quantum |-> QUANTUM]

Init ==
    /\ codigo \in Codigos
    /\ cola_ready = [k \in Pids |-> Nuevo(k)]
    /\ cola_ready_plus = <<>> /\ bloqueados = {} /\ salida = {}
    /\ pcp_pc = "planifica" /\ mano = Nada
    /\ cronometro = 0 /\ relojes = [r \in Reloj |-> Liberado] /\ ultimo = 1
    /\ en_ejecucion_ultimo_reloj = FALSE
    /\ planificacion_pausada = FALSE
    /\ pid_en_ejecucion = NULL /\ con_pid = NULL /\ finalizados = {}
    /\ dispatch_cpu = <<>> /\ dispatch_kernel = <<>> /\ interrupt = <<>>
    /\ pcb = Nada /\ cpu_pc = "ciclo" /\ interrupts = <<>> /\ abortada = FALSE
    /\ pedidos = [p \in Pids |-> <<>>] /\ consumido = [p \in Pids |-> 0]

-----------------------------------------------------------------------------
(* planificador_corto_plazo: to the CPU                                     *)

\* The quantum a process is dispatched with.
Quantum_SinReiniciar(x, plus) == x.quantum
Quantum(x, plus) ==
    IF Vrr /\ (~plus \/ x.quantum <= 0) THEN QUANTUM ELSE x.quantum

\* malloc of the parameters of a clock, and its thread.
CrearReloj(x, plus) ==
    /\ \E r \in Reloj :
           /\ relojes[r].paso = "libre" /\ \A s \in 1..(r - 1) : relojes[s].paso # "libre"
           /\ relojes' = [relojes EXCEPT ![r] =
                             [paso |-> "duerme", pid |-> x.pid, resta |-> Quantum(x, plus),
                              cancelado |-> FALSE]]
           /\ ultimo' = r
    /\ en_ejecucion_ultimo_reloj' = TRUE
    /\ cronometro' = 0
    /\ consumido' = [consumido EXCEPT ![x.pid] =
                        IF plus /\ x.quantum > 0 THEN @ ELSE 0]

\* With sem_entrada_a_exec, which it keeps until the PCB is sent: the first of READY_PLUS, or of
\* READY, leaves its queue.
PcpPrepara(plus) ==
    /\ pcp_pc = "planifica" /\ ~planificacion_pausada
    /\ IF plus THEN cola_ready_plus # <<>> ELSE cola_ready_plus = <<>> /\ cola_ready # <<>>
    /\ LET x == Head(IF plus THEN cola_ready_plus ELSE cola_ready)
       IN /\ mano' = [pcb |-> [x EXCEPT !.quantum = Quantum(x, plus)], motivo |-> "-"]
          /\ IF ConReloj THEN CrearReloj(x, plus) ELSE UNCHANGED tiempo
    /\ IF plus THEN cola_ready_plus' = Tail(cola_ready_plus) /\ UNCHANGED cola_ready
               ELSE cola_ready' = Tail(cola_ready) /\ UNCHANGED cola_ready_plus
    /\ pcp_pc' = "envia"
    /\ UNCHANGED <<bloqueados, salida, pedidos, consola, red, cpu, codigo>>

PcpEnvia ==
    /\ pcp_pc = "envia"
    /\ dispatch_cpu' = Append(dispatch_cpu, mano.pcb)
    /\ pid_en_ejecucion' = mano.pcb.pid
    /\ pcp_pc' = "recibe" /\ mano' = Nada
    /\ UNCHANGED <<cola_ready, cola_ready_plus, bloqueados, salida, pedidos, tiempo,
                   planificacion_pausada, con_pid, finalizados, dispatch_kernel, interrupt, cpu, codigo>>

-----------------------------------------------------------------------------
(* planificador_corto_plazo: back from the CPU                              *)

Descontado_Nada(x) == x
Descontado(x) == IF Vrr THEN [x EXCEPT !.quantum = @ - cronometro] ELSE x

PcpRecibe ==
    /\ pcp_pc = "recibe" /\ dispatch_kernel # <<>>
    /\ LET m == Head(dispatch_kernel)
       IN mano' = [m EXCEPT !.pcb = Descontado(m.pcb)]
    /\ dispatch_kernel' = Tail(dispatch_kernel)
    /\ pid_en_ejecucion' = NULL
    /\ pcp_pc' = "cancela"
    /\ UNCHANGED <<cola_ready, cola_ready_plus, bloqueados, salida, pedidos, tiempo,
                   planificacion_pausada, con_pid, finalizados, dispatch_cpu, interrupt, cpu, codigo>>

\* With mutex_en_ejecucion_ultimo_reloj: the flag says whether *cancelar_ultimo_reloj can
\* be written.
DebeCancelar_Siempre == TRUE
DebeCancelar == en_ejecucion_ultimo_reloj
PcpCancela ==
    /\ pcp_pc = "cancela" /\ pcp_pc' = "maneja"
    /\ relojes' = IF ConReloj /\ DebeCancelar
                  THEN [relojes EXCEPT ![ultimo].cancelado = TRUE] ELSE relojes
    /\ en_ejecucion_ultimo_reloj' = FALSE
    /\ UNCHANGED <<cola_ready, cola_ready_plus, bloqueados, salida, mano, pedidos, cronometro,
                   ultimo, consumido, consola, red, cpu, codigo>>

\* What the handlers of the motives start from, sem_manejo_desalojo_cpu included, and what the
\* process asked for.
Maneja(motivos) ==
    /\ pcp_pc = "maneja" /\ ~planificacion_pausada /\ mano.motivo \in motivos /\ mano' = Nada
    /\ pedidos' = [pedidos EXCEPT ![mano.pcb.pid] =
                      IF mano.motivo \in {"FIN_QUANTUM", "INTERRUMPIDO_POR_USUARIO"} THEN @
                      ELSE Append(@, mano.motivo)]
    /\ UNCHANGED <<tiempo, consola, cpu, codigo>>

manejar_fin_quantum ==
    /\ Maneja({"FIN_QUANTUM"})
    /\ cola_ready' = squeue_push(cola_ready, mano.pcb)
    /\ pcp_pc' = "planifica"
    /\ UNCHANGED <<cola_ready_plus, bloqueados, salida, red>>

\* The motives that end the process, and the requests for what does not exist.
Eliminar ==
    /\ Maneja({"EXIT", "RESIZE", "INTERRUMPIDO_POR_USUARIO", "WAIT", "SIGNAL", "IO"})
    /\ salida' = salida \cup {mano.pcb}
    /\ pcp_pc' = "planifica"
    /\ UNCHANGED <<cola_ready, cola_ready_plus, bloqueados, red>>

\* WAIT of what is taken, and IO.
Bloquear ==
    /\ Maneja({"WAIT", "IO"})
    /\ bloqueados' = bloqueados \cup {[pcb |-> mano.pcb, por |-> mano.motivo]}
    /\ pcp_pc' = "planifica"
    /\ UNCHANGED <<cola_ready, cola_ready_plus, salida, red>>

\* WAIT of what is free, and SIGNAL: planificar_nuevo_proceso = false.
DevolverEjecucion ==
    /\ Maneja({"WAIT", "SIGNAL"})
    /\ dispatch_cpu' = Append(dispatch_cpu, mano.pcb)
    /\ pcp_pc' = "recibe"
    /\ UNCHANGED <<cola_ready, cola_ready_plus, bloqueados, salida, dispatch_kernel, interrupt>>

\* atender_io, or incrementar_recurso: only an interface tells VRR from RR, and only it looks at
\* a permission, sem_entrada_a_ready.
Desbloquear ==
    /\ \E b \in bloqueados :
           /\ b.por = "IO" => ~planificacion_pausada
           /\ bloqueados' = bloqueados \ {b}
           /\ IF Vrr /\ b.por = "IO"
              THEN /\ cola_ready_plus' = squeue_push(cola_ready_plus, b.pcb)
                   /\ UNCHANGED cola_ready
              ELSE /\ cola_ready' = squeue_push(cola_ready, b.pcb)
                   /\ UNCHANGED cola_ready_plus
    /\ UNCHANGED <<salida, pcp_pc, mano, pedidos, tiempo, consola, red, cpu, codigo>>

Pcp == \/ \E plus \in BOOLEAN : PcpPrepara(plus)
       \/ PcpEnvia \/ PcpRecibe \/ PcpCancela
       \/ manejar_fin_quantum \/ Eliminar \/ Bloquear \/ DevolverEjecucion

-----------------------------------------------------------------------------
(* reloj_rr                                                                 *)

\* usleep ends, some time after ms_espera, and the thread reads cancelado: if it is set the
\* parameters are freed at once, and nobody can reach them any more.
RelojDespierta(r) ==
    /\ relojes[r].paso = "duerme" /\ relojes[r].resta = 0
    /\ relojes' = IF relojes[r].cancelado THEN [relojes EXCEPT ![r] = Liberado]
                  ELSE [relojes EXCEPT ![r].paso = "envia"]
    /\ UNCHANGED <<kernel, cronometro, ultimo, en_ejecucion_ultimo_reloj, consumido, consola,
                   red, cpu, codigo>>

\* With sem_interrupcion_rr.
RelojEnvia(r) ==
    /\ relojes[r].paso = "envia" /\ ~planificacion_pausada
    /\ interrupt' = Append(interrupt, [pid |-> relojes[r].pid, motivo |-> "FIN_QUANTUM"])
    /\ relojes' = [relojes EXCEPT ![r].paso = "avisa"]
    /\ UNCHANGED <<kernel, cronometro, ultimo, en_ejecucion_ultimo_reloj, consumido, consola,
                   dispatch_cpu, dispatch_kernel, cpu, codigo>>

\* With the mutex; then the parameters are freed.  The flag may be that of a later clock by now.
AvisarFin == en_ejecucion_ultimo_reloj' = FALSE
RelojTermina(r) ==
    /\ relojes[r].paso = "avisa"
    /\ AvisarFin
    /\ relojes' = [relojes EXCEPT ![r] = Liberado]
    /\ UNCHANGED <<kernel, cronometro, ultimo, consumido, consola, red, cpu, codigo>>

reloj_rr(r) == RelojDespierta(r) \/ RelojEnvia(r) \/ RelojTermina(r)

-----------------------------------------------------------------------------
(* The operator: the pause, and FINALIZAR_PROCESO of the process in         *)
(* execution, which pauses before and, if it paused, resumes after          *)

\* The four permissions.  Nobody but the PCP keeps one of them between two steps of this
\* module; the waits one by one, and who is late for each, are Planificacion's.
pausar_planificacion ==
    /\ ~planificacion_pausada /\ pcp_pc # "envia"
    /\ planificacion_pausada' = TRUE
    /\ UNCHANGED <<kernel, tiempo, pid_en_ejecucion, con_pid, finalizados, red, cpu, codigo>>

\* Or never.
reanudar_planificacion ==
    /\ planificacion_pausada /\ con_pid = NULL
    /\ planificacion_pausada' = FALSE
    /\ UNCHANGED <<kernel, tiempo, pid_en_ejecucion, con_pid, finalizados, red, cpu, codigo>>

Pausa == pausar_planificacion \/ reanudar_planificacion

ConVe ==
    /\ planificacion_pausada
    /\ con_pid = NULL /\ pid_en_ejecucion # NULL
    /\ pid_en_ejecucion \notin finalizados /\ Cardinality(finalizados) < MaxFinalizar[codigo]
    /\ con_pid' = pid_en_ejecucion
    /\ finalizados' = finalizados \cup {pid_en_ejecucion}
    /\ UNCHANGED <<kernel, tiempo, planificacion_pausada, pid_en_ejecucion, red, cpu, codigo>>

ConInterrumpe ==
    /\ con_pid # NULL
    /\ interrupt' = Append(interrupt, [pid |-> con_pid, motivo |-> "INTERRUMPIDO_POR_USUARIO"])
    /\ con_pid' = NULL
    /\ UNCHANGED <<kernel, tiempo, planificacion_pausada, pid_en_ejecucion, finalizados,
                   dispatch_cpu, dispatch_kernel, cpu, codigo>>

Consola == Pausa \/ ConVe \/ ConInterrumpe

-----------------------------------------------------------------------------
(* The CPU                                                                  *)

CpuRecibe ==
    /\ ~abortada /\ cpu_pc = "ciclo" /\ pcb = Nada /\ dispatch_cpu # <<>>
    /\ pcb' = Head(dispatch_cpu) /\ dispatch_cpu' = Tail(dispatch_cpu)
    /\ UNCHANGED <<kernel, tiempo, consola, dispatch_kernel, interrupt, cpu_pc, interrupts,
                   abortada, codigo>>

\* fetch: what the memory has at the program counter.
fetch == codigo[pcb.pid][pcb.program_counter + 1]

\* One turn of the cycle starts, and it will end in check_interrupt.
Ejecuta(ops) ==
    /\ ~abortada /\ cpu_pc = "ciclo" /\ pcb # Nada
    /\ pcb.program_counter < Len(codigo[pcb.pid]) /\ fetch.op \in ops
    /\ UNCHANGED <<kernel, tiempo, consola, dispatch_cpu, interrupt, interrupts, codigo>>

\* Past the end of the program the memory aborts, and the CPU with it.
FetchPasado ==
    /\ ~abortada /\ cpu_pc = "ciclo" /\ pcb # Nada
    /\ pcb.program_counter >= Len(codigo[pcb.pid])
    /\ abortada' = TRUE
    /\ UNCHANGED <<kernel, tiempo, consola, red, pcb, cpu_pc, interrupts, codigo>>

get_registro(r) == IF r = "PC" THEN pcb.program_counter ELSE pcb.registros[r]
uint32(n) == n % (UINT32_MAX + 1)
tam_registro_max(r) == IF r = "AX" THEN UINT8_MAX ELSE UINT32_MAX

\* set_registro, and the increment that follows unless it was PC.
set_registro(x, r, valor) ==
    IF r = "PC" THEN [x EXCEPT !.program_counter = valor]
    ELSE [x EXCEPT !.registros[r] = valor, !.program_counter = @ + 1]

Resultado ==
    CASE fetch.op = "SET" -> uint32(fetch.v)
      [] fetch.op = "SUM" -> uint32(get_registro(fetch.r) + get_registro(fetch.s))
      [] fetch.op = "SUB" -> uint32(get_registro(fetch.r) - get_registro(fetch.s))

\* exec_set, exec_sum, exec_sub
EjecutaCalculo ==
    /\ Ejecuta({"SET", "SUM", "SUB"})
    /\ Resultado <= tam_registro_max(fetch.r)
    /\ pcb' = set_registro(pcb, fetch.r, Resultado)
    /\ cpu_pc' = "interrupt"
    /\ UNCHANGED <<dispatch_kernel, abortada>>

\* The assert of set_registro.
EjecutaDesborde ==
    /\ Ejecuta({"SET", "SUM", "SUB"})
    /\ Resultado > tam_registro_max(fetch.r)
    /\ abortada' = TRUE
    /\ UNCHANGED <<pcb, cpu_pc, dispatch_kernel>>

exec_jnz ==
    /\ Ejecuta({"JNZ"})
    /\ pcb' = IF get_registro(fetch.r) # 0 THEN set_registro(pcb, "PC", uint32(fetch.v))
              ELSE [pcb EXCEPT !.program_counter = @ + 1]
    /\ cpu_pc' = "interrupt"
    /\ UNCHANGED <<dispatch_kernel, abortada>>

devolver_pcb(x, motivo) ==
    /\ dispatch_kernel' = Append(dispatch_kernel, [pcb |-> x, motivo |-> motivo])
    /\ pcb' = Nada

\* exec_wait, exec_signal and the exec_io_...: the PCB goes on from the next instruction.
Avanzado_Olvida(x) == x
Avanzado(x) == [x EXCEPT !.program_counter = @ + 1]
EjecutaPedido ==
    /\ Ejecuta({"WAIT", "SIGNAL", "IO"})
    /\ devolver_pcb(Avanzado(pcb), fetch.op)
    /\ cpu_pc' = "interrupt"
    /\ UNCHANGED abortada

\* exec_exit, and exec_resize without frames.
EjecutaFin ==
    /\ Ejecuta({"EXIT", "RESIZE"})
    /\ devolver_pcb(pcb, fetch.op)
    /\ cpu_pc' = "interrupt"
    /\ UNCHANGED abortada

\* exec_resize with frames.
EjecutaResize ==
    /\ Ejecuta({"RESIZE"})
    /\ pcb' = Avanzado(pcb)
    /\ cpu_pc' = "interrupt"
    /\ UNCHANGED <<dispatch_kernel, abortada>>

\* check_interrupt: the first of the list for the process in execution counts, and the
\* list is always emptied.
Es(i) == pcb # Nada /\ interrupts[i].pid = pcb.pid
ParaEste_SoloPrimera == {i \in DOMAIN interrupts : Es(i) /\ i = 1}
ParaEste_Cualquiera == {i \in DOMAIN interrupts : pcb # Nada /\ i = 1}
ParaEste == {i \in DOMAIN interrupts : Es(i) /\ \A j \in 1..(i - 1) : ~Es(j)}

check_interrupt ==
    /\ ~abortada /\ cpu_pc = "interrupt" /\ cpu_pc' = "ciclo"
    /\ interrupts' = <<>>
    /\ \/ \E i \in ParaEste : devolver_pcb(pcb, interrupts[i].motivo)
       \/ ParaEste = {} /\ UNCHANGED <<pcb, dispatch_kernel>>
    /\ UNCHANGED <<kernel, tiempo, consola, dispatch_cpu, interrupt, abortada, codigo>>

Cpu == \/ CpuRecibe \/ FetchPasado \/ EjecutaCalculo \/ EjecutaDesborde \/ exec_jnz \/ EjecutaPedido
       \/ EjecutaFin \/ EjecutaResize \/ check_interrupt

servidor_interrupt ==
    /\ ~abortada /\ interrupt # <<>>
    /\ interrupts' = Append(interrupts, Head(interrupt))
    /\ interrupt' = Tail(interrupt)
    /\ UNCHANGED <<kernel, tiempo, consola, dispatch_cpu, dispatch_kernel, pcb, cpu_pc,
                   abortada, codigo>>

-----------------------------------------------------------------------------
(* Time                                                                     *)

Topado(n) == IF n < QUANTUM THEN n ELSE QUANTUM

Tick ==
    /\ relojes' = [r \in Reloj |->
                      [relojes[r] EXCEPT !.resta = IF @ > 0 THEN @ - 1 ELSE @]]
    /\ cronometro' = IF Vrr THEN Topado(cronometro + 1) ELSE cronometro
    /\ consumido' = IF pcb = Nada THEN consumido
                    ELSE [consumido EXCEPT ![pcb.pid] = Topado(@ + 1)]
    /\ <<relojes', cronometro', consumido'>> # <<relojes, cronometro, consumido>>
    /\ UNCHANGED <<kernel, ultimo, en_ejecucion_ultimo_reloj, consola, red, cpu, codigo>>

-----------------------------------------------------------------------------

Next == \/ Pcp \/ Desbloquear \/ Consola \/ Cpu \/ servidor_interrupt \/ Tick
        \/ \E r \in Reloj : reloj_rr(r)

\* Every thread runs, and time goes by.  Nothing of the operator, who may never resume.
Justicia == /\ WF_vars(Pcp) /\ WF_vars(Cpu) /\ WF_vars(servidor_interrupt) /\ WF_vars(Tick)
            /\ \A r \in Reloj : WF_vars(reloj_rr(r))

Spec == Init /\ [][Next]_vars
SpecJusta == Spec /\ Justicia

-----------------------------------------------------------------------------
(* Properties                                                               *)

Parametros == [paso : {"libre", "duerme", "envia", "avisa"}, pid : Pids \cup {NULL},
               resta : 0..QUANTUM, cancelado : BOOLEAN]
Interrupcion == [pid : Pids, motivo : {"FIN_QUANTUM", "INTERRUMPIDO_POR_USUARIO"}]

TypeOK ==
    /\ codigo \in Codigos
    /\ cola_ready \in Seq(Pcb) /\ cola_ready_plus \in Seq(Pcb) /\ salida \subseteq Pcb
    /\ bloqueados \subseteq [pcb : Pcb, por : {"WAIT", "IO"}]
    /\ pcp_pc \in {"planifica", "envia", "recibe", "cancela", "maneja"}
    /\ mano \in Devuelto \cup {Nada}
    /\ cronometro \in 0..QUANTUM /\ ultimo \in Reloj /\ en_ejecucion_ultimo_reloj \in BOOLEAN
    /\ relojes \in [Reloj -> Parametros]
    /\ planificacion_pausada \in BOOLEAN
    /\ pid_en_ejecucion \in Pids \cup {NULL} /\ con_pid \in Pids \cup {NULL}
    /\ finalizados \subseteq Pids
    /\ dispatch_cpu \in Seq(Pcb) /\ dispatch_kernel \in Seq(Devuelto)
    /\ interrupt \in Seq(Interrupcion) /\ interrupts \in Seq(Interrupcion)
    /\ pcb \in Pcb \cup {Nada} /\ cpu_pc \in {"ciclo", "interrupt"} /\ abortada \in BOOLEAN
    /\ pedidos \in [Pids -> Seq(Pedido)] /\ consumido \in [Pids -> 0..QUANTUM]

\* The PCBs in execution: with the planner, on the connection either way, or in the CPU.
EnEjecucion ==
    (IF mano = Nada THEN {} ELSE {mano.pcb}) \cup Range(dispatch_cpu)
    \cup {m.pcb : m \in Range(dispatch_kernel)} \cup (IF pcb = Nada THEN {} ELSE {pcb})

\* The PCBs there are, wherever they are: none is lost or copied, so each process has one.
Pcbs == Range(cola_ready) \cup Range(cola_ready_plus) \cup {b.pcb : b \in bloqueados}
        \cup salida \cup EnEjecucion
PcbDe(p) == CHOOSE x \in Pcbs : x.pid = p

\* What was given back with a request the kernel has not handled yet.
EnViaje == {m \in (IF mano = Nada THEN {} ELSE {mano}) \cup Range(dispatch_kernel) :
                m.motivo \in Pedido}

\* What the author of a process sees of it; at most one request is on its way.
ContadorDe == [p \in Pids |-> PcbDe(p).program_counter]
RegistrosDe == [p \in Pids |-> PcbDe(p).registros]
PedidosDe == [p \in Pids |-> IF \E m \in EnViaje : m.pcb.pid = p
                             THEN Append(pedidos[p], (CHOOSE m \in EnViaje : m.pcb.pid = p).motivo)
                             ELSE pedidos[p]]
Terminados == [p \in Pids |-> \E x \in salida : x.pid = p]

\* planificador_corto_plazo.c:70-72 and executer.c:300: a process goes on where it was,
\* with its registers as it left them, however it lost the CPU, and every request it makes
\* is handled once and in the order of its program.
Promesa == INSTANCE Programa WITH
    program_counter <- ContadorDe, registros <- RegistrosDe, pedidos <- PedidosDe,
    terminado <- Terminados
ImplementaPrograma == Promesa!Spec

\* planificador_corto_plazo.c:137 "podemos pedirle que cancele sin segfaultear": where the
\* planner writes, the clock has not freed its parameters yet.
CancelarSinSegfault ==
    pcp_pc = "cancela" /\ ConReloj /\ DebeCancelar => relojes[ultimo].paso # "libre"

\* VRR's promise: no dispatch without some quantum, and a process that comes back from an
\* interface has at most what is left of it.
QuantumRestante ==
    /\ pcp_pc = "envia" => mano.pcb.quantum \in 1..QUANTUM
    /\ Vrr => \A x \in Range(cola_ready_plus) \cup {b.pcb : b \in bloqueados}
                         \cup (IF pcp_pc = "envia" THEN {mano.pcb} ELSE {}) :
                  x.quantum + consumido[x.pid] <= QUANTUM

\* consola.c:133: only a process the operator named ends by interruption, however late the
\* interrupt arrives and whoever is in execution by then.
InterrupcionAlSuyo ==
    \A m \in Range(dispatch_kernel) \cup (IF pcp_pc = "maneja" THEN {mano} ELSE {}) :
        m.motivo = "INTERRUMPIDO_POR_USUARIO" => m.pcb.pid \in finalizados

EnCpu(p) == pcb # Nada /\ pcb.pid = p

\* The clock of the last dispatch, p's, is still to ring.
ConRelojVivo(p) ==
    en_ejecucion_ultimo_reloj /\ relojes[ultimo].pid = p /\ relojes[ultimo].paso # "avisa"

\* planificador_corto_plazo.c:233-246: the quantum ends.  While its clock lives, a process that
\* would never give the CPU back loses it all the same, unless the operator pauses: main.c:238
\* keeps the clock from interrupting for as long as the operator likes.
ElRelojDesaloja ==
    \A p \in Pids :
        EnCpu(p) /\ ConRelojVivo(p) ~> ~EnCpu(p) \/ abortada \/ planificacion_pausada
=============================================================================
