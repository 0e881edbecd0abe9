----------------------------- MODULE Interfaces -----------------------------
(***************************************************************************)
(* The input/output interfaces in the kernel: they connect with a name, get  *)
(* operations of the processes that ask for them, fail, and connect again,   *)
(* while the PCP looks for them in the dictionary and the console walks      *)
(* their queues to kill a process.  A t_interfaz is known by the number of   *)
(* its connection, a t_bloqueado_io by its address.                          *)
(* The operator's pause takes the permissions of the planning at once; the   *)
(* waits one by one are Planificacion's.                                     *)
(* An operator A_B is a plausible slip in A: Next uses none of them.         *)
(***************************************************************************)
EXTENDS Operaciones, Squeue, FiniteSets

CONSTANTS
    Pids,
    Nombres,
    Instrucciones,   \* what the processes may ask for
    Repertorio,      \* one instruction of each kind, at least
    Nada,            \* no process, no operation, a NULL pointer
    MaxConexiones, MaxPedidos, MaxFinalizar   \* bounds of the environment

Interfaz == 1..MaxConexiones
Dir == 1..MaxPedidos

\* The t_bloqueado_io of a process that asks for an instruction.
Bloqueado(p, i) == [pid |-> p, operacion |-> Empaqueta(decode(i))]

\* What the kernel may send an interface.
Paquetes == {Reenvia(p, Empaqueta(decode(i))) : p \in Pids, i \in Instrucciones}

ASSUME InterfacesOK ==
    /\ MaxConexiones \in Nat /\ MaxPedidos \in Nat /\ MaxFinalizar \in Nat
    /\ Nada \notin Pids /\ Nada \notin Nombres /\ Nada \notin Instrucciones
    /\ Nada \notin Interfaz /\ Nada \notin Dir
    /\ \A p \in Pids, i \in Instrucciones : Bloqueado(p, i) # Nada
    /\ \A i \in Instrucciones \cup Repertorio : BienEscrita(i)
    /\ \A i \in Instrucciones : i[2] \in Nombres

VARIABLES
    lugar,                 \* where each process is: elsewhere in the kernel, here or in EXIT
    pedida, hecha,         \* what each process asked for last, and what was done for it since
    eliminado,             \* how many times it was eliminated
    interfaces_conectadas, \* the dictionary: the t_interfaz of each name
    nombres_interfaces,    \* the list
    nombre, abierta,       \* of each connection: its name, whether the other side is there
    hilo_pc, hilo_pb,      \* atender_io: its place, proceso_bloqueado
    bloqueados, procesos_esperando, liberada,   \* each t_interfaz, and whether it was freed
    a_interfaz, de_interfaz,                    \* the connection, each way
    heap,                  \* what there is at each address
    pcp_pc, pcp_pid, pcp_interfaz,
    planificacion_pausada, \* the operator holds the permissions
    con_pc, con_pid, con_i, con_interfaz,
    pedidos, finalizados,  \* how many, for the bounds
    reuso,                 \* malloc gave out again an address that an interface still held
    caido                  \* the kernel died

proceso == <<lugar, pedida, hecha, eliminado>>
registro == <<interfaces_conectadas, nombres_interfaces>>
conexion == <<nombre, abierta, a_interfaz, de_interfaz>>
hilo == <<hilo_pc, hilo_pb>>
interfaz == <<bloqueados, procesos_esperando, liberada>>
pcp == <<pcp_pc, pcp_pid, pcp_interfaz>>
con == <<planificacion_pausada, con_pc, con_pid, con_i, con_interfaz>>
historia == <<pedidos, finalizados, reuso>>
vars == <<proceso, registro, conexion, hilo, interfaz, heap, pcp, con, historia, caido>>

Init ==
    /\ lugar = [p \in Pids |-> "otro"] /\ eliminado = [p \in Pids |-> 0]
    /\ pedida = [p \in Pids |-> Nada] /\ hecha = [p \in Pids |-> Nada]
    /\ interfaces_conectadas = [n \in Nombres |-> Nada] /\ nombres_interfaces = <<>>
    /\ nombre = [c \in Interfaz |-> Nada] /\ abierta = [c \in Interfaz |-> FALSE]
    /\ hilo_pc = [c \in Interfaz |-> "nadie"] /\ hilo_pb = [c \in Interfaz |-> Nada]
    /\ bloqueados = [c \in Interfaz |-> <<>>]
    /\ procesos_esperando = [c \in Interfaz |-> 0]
    /\ liberada = [c \in Interfaz |-> FALSE]
    /\ a_interfaz = [c \in Interfaz |-> Nada] /\ de_interfaz = [c \in Interfaz |-> Nada]
    /\ heap = [d \in Dir |-> Nada]
    /\ pcp_pc = "libre" /\ pcp_pid = Nada /\ pcp_interfaz = Nada
    /\ planificacion_pausada = FALSE
    /\ con_pc = "libre" /\ con_pid = Nada /\ con_i = 0 /\ con_interfaz = Nada
    /\ pedidos = 0 /\ finalizados = 0 /\ reuso = FALSE
    /\ caido = FALSE

\* malloc of a t_bloqueado_io: one that was freed, or a new one.
Malloc == {d \in 1..pedidos : heap[d] = Nada}
Pid(d) == heap[d].pid

\* The thread of an interface may still compare, or follow, its pointer to an address.
Tiene(c, d) == hilo_pc[c] \in {"envia", "recibe", "desbloquea"} /\ hilo_pb[c] = d

\* eliminar_proceso, as far as it matters here.
Eliminar(p) == /\ lugar' = [lugar EXCEPT ![p] = "EXIT"]
               /\ eliminado' = [eliminado EXCEPT ![p] = @ + 1]
               /\ UNCHANGED <<pedida, hecha>>

\* abort(), or a NULL pointer or freed memory followed.
Muere == caido' = TRUE /\ UNCHANGED <<proceso, registro, conexion, hilo, interfaz, heap, pcp,
                                      con, historia>>

-----------------------------------------------------------------------------
(* The module of an interface: it connects, does what it gets, and stops    *)

\* A name is used again once its connection is closed.
Conecta(c, n) ==
    /\ ~caido /\ hilo_pc[c] = "nadie" /\ \A d \in 1..(c - 1) : hilo_pc[d] # "nadie"
    /\ \A d \in Interfaz : nombre[d] = n => ~abierta[d]
    /\ nombre' = [nombre EXCEPT ![c] = n] /\ abierta' = [abierta EXCEPT ![c] = TRUE]
    /\ hilo_pc' = [hilo_pc EXCEPT ![c] = "registra"]
    /\ UNCHANGED <<proceso, registro, a_interfaz, de_interfaz, hilo_pb, interfaz, heap, pcp,
                   con, historia, caido>>

Hace(c) ==
    /\ ~caido /\ abierta[c] /\ a_interfaz[c] # Nada
    /\ hecha' = [hecha EXCEPT ![a_interfaz[c][1]] = Interpreta(a_interfaz[c])]
    /\ a_interfaz' = [a_interfaz EXCEPT ![c] = Nada]
    /\ de_interfaz' = [de_interfaz EXCEPT ![c] = "MENSAJE_FIN_IO"]
    /\ UNCHANGED <<lugar, pedida, eliminado, registro, nombre, abierta, hilo, interfaz, heap,
                   pcp, con, historia, caido>>

\* Stopped at any point: what it was sent is lost, what it answered is not.
Cae(c) ==
    /\ ~caido /\ abierta[c]
    /\ abierta' = [abierta EXCEPT ![c] = FALSE]
    /\ a_interfaz' = [a_interfaz EXCEPT ![c] = Nada]
    /\ UNCHANGED <<proceso, registro, nombre, de_interfaz, hilo, interfaz, heap, pcp, con,
                   historia, caido>>

-----------------------------------------------------------------------------
(* atender_io: the thread of a connection                                   *)

Va(c, pc) == hilo_pc' = [hilo_pc EXCEPT ![c] = pc]
\* The lock of nombres_interfaces, which the console holds during its walk.
NombresLibres == con_pc = "libre"

\* registrar_interfaz.  The name arrives even if the interface closed after it...
Registra(c) ==
    /\ ~caido /\ hilo_pc[c] = "registra"
    /\ interfaces_conectadas' = [interfaces_conectadas EXCEPT ![nombre[c]] = c]
    /\ Va(c, "agrega_nombre")
    /\ UNCHANGED <<proceso, nombres_interfaces, conexion, hilo_pb, interfaz, heap, pcp, con,
                   historia, caido>>

\* ...and if it closed before, the kernel aborts.
RegistraNada(c) ==
    /\ ~caido /\ hilo_pc[c] = "registra" /\ ~abierta[c]
    /\ Muere

AgregaNombre(c) ==
    /\ ~caido /\ hilo_pc[c] = "agrega_nombre" /\ NombresLibres
    /\ nombres_interfaces' = Append(nombres_interfaces, nombre[c])
    /\ Va(c, "espera")
    /\ UNCHANGED <<proceso, interfaces_conectadas, conexion, hilo_pb, interfaz, heap, pcp,
                   con, historia, caido>>

\* sem_wait.
HayAvisos_PorCola(c) == bloqueados[c] # <<>>
HayAvisos(c) == procesos_esperando[c] > 0

Toma(c) ==
    /\ ~caido /\ hilo_pc[c] = "espera" /\ HayAvisos(c)
    /\ bloqueados[c] # <<>>
    /\ procesos_esperando' = [procesos_esperando EXCEPT ![c] = @ - 1]
    /\ hilo_pb' = [hilo_pb EXCEPT ![c] = Head(bloqueados[c])]
    /\ Va(c, "envia")
    /\ UNCHANGED <<proceso, registro, conexion, bloqueados, liberada, heap, pcp, con, historia,
                   caido>>

\* The unit of a process that was killed: line 38 follows NULL.
TomaNull(c) ==
    /\ ~caido /\ hilo_pc[c] = "espera" /\ HayAvisos(c) /\ bloqueados[c] = <<>>
    /\ Muere

\* Where the loop ends, with processes still blocked.
TrasCaerse_Directo == "quita_dic"
TrasCaerse == "elimina"

\* A send to a closed connection, or the question after it, ends the loop, or else the
\* reception does: the same for everybody else.
Envia(c) ==
    /\ ~caido /\ hilo_pc[c] = "envia" /\ heap[hilo_pb[c]] # Nada
    /\ IF abierta[c]
       THEN /\ a_interfaz' = [a_interfaz EXCEPT ![c] =
                                 Reenvia(Pid(hilo_pb[c]), heap[hilo_pb[c]].operacion)]
            /\ Va(c, "recibe")
       ELSE Va(c, TrasCaerse) /\ UNCHANGED a_interfaz
    /\ UNCHANGED <<proceso, registro, nombre, abierta, de_interfaz, hilo_pb, interfaz, heap,
                   pcp, con, historia, caido>>

\* The t_bloqueado_io was freed under the thread, before it was sent or before line 52 reads
\* it for the log: garbage for a pointer to the PCB.
LeeLiberado(c) ==
    /\ ~caido /\ hilo_pc[c] \in {"envia", "recibe"} /\ heap[hilo_pb[c]] = Nada
    /\ hilo_pc[c] = "recibe" => de_interfaz[c] # Nada
    /\ Muere

\* The answer; for one that was freed, line 52 happens to read something harmless.
Recibe(c) ==
    /\ ~caido /\ hilo_pc[c] = "recibe" /\ de_interfaz[c] # Nada
    /\ de_interfaz' = [de_interfaz EXCEPT ![c] = Nada]
    /\ Va(c, "desbloquea")
    /\ UNCHANGED <<proceso, registro, nombre, abierta, a_interfaz, hilo_pb, interfaz, heap,
                   pcp, con, historia, caido>>

RecibeError(c) ==
    /\ ~caido /\ hilo_pc[c] = "recibe" /\ de_interfaz[c] = Nada /\ ~abierta[c]
    /\ Va(c, TrasCaerse)
    /\ UNCHANGED <<proceso, registro, conexion, hilo_pb, interfaz, heap, pcp, con, historia,
                   caido>>

\* The second look compares addresses.
Sigue_SinMirar(c) == bloqueados[c] # <<>>
Sigue(c) == bloqueados[c] # <<>> /\ Head(bloqueados[c]) = hilo_pb[c]

\* With sem_entrada_a_ready, which a pause holds as long as the operator likes, from the second
\* look to the free of the t_bloqueado_io.
Desbloquea(c) ==
    /\ ~caido /\ hilo_pc[c] = "desbloquea" /\ ~planificacion_pausada /\ Sigue(c)
    /\ bloqueados' = [bloqueados EXCEPT ![c] = Tail(@)]
    /\ lugar' = [lugar EXCEPT ![Pid(Head(bloqueados[c]))] = "otro"]
    /\ heap' = [heap EXCEPT ![Head(bloqueados[c])] = Nada]
    /\ hilo_pb' = [hilo_pb EXCEPT ![c] = Nada] /\ Va(c, "espera")
    /\ UNCHANGED <<pedida, hecha, eliminado, registro, conexion, procesos_esperando, liberada,
                   pcp, con, historia, caido>>

Descarta(c) ==
    /\ ~caido /\ hilo_pc[c] = "desbloquea" /\ ~planificacion_pausada /\ ~Sigue(c)
    /\ hilo_pb' = [hilo_pb EXCEPT ![c] = Nada] /\ Va(c, "espera")
    /\ UNCHANGED <<proceso, registro, conexion, interfaz, heap, pcp, con, historia, caido>>

\* eliminar_procesos_bloqueados: each one popped, eliminated and freed...
EliminaVe(c) ==
    /\ ~caido /\ hilo_pc[c] = "elimina"
    /\ Va(c, IF bloqueados[c] = <<>> THEN "quita_dic" ELSE "elimina_saca")
    /\ UNCHANGED <<proceso, registro, conexion, hilo_pb, interfaz, heap, pcp, con, historia,
                   caido>>

Saca_SoloMira(c) == UNCHANGED bloqueados
Saca(c) == bloqueados' = [bloqueados EXCEPT ![c] = Tail(@)]

EliminaSaca(c) ==
    /\ ~caido /\ hilo_pc[c] = "elimina_saca" /\ bloqueados[c] # <<>>
    /\ Saca(c)
    /\ Eliminar(Pid(Head(bloqueados[c])))
    /\ heap' = [heap EXCEPT ![Head(bloqueados[c])] = Nada]
    /\ Va(c, "elimina")
    /\ UNCHANGED <<registro, conexion, hilo_pb, procesos_esperando, liberada, pcp, con, historia,
                   caido>>

\* ...unless the console took the last one after the look: a NULL is followed.
EliminaNull(c) ==
    /\ ~caido /\ hilo_pc[c] = "elimina_saca" /\ bloqueados[c] = <<>>
    /\ Muere

\* desregistrar_interfaz: the name in the dictionary, whoever it is of now...
QuitaDic(c) ==
    /\ ~caido /\ hilo_pc[c] = "quita_dic"
    /\ interfaces_conectadas' = [interfaces_conectadas EXCEPT ![nombre[c]] = Nada]
    /\ Va(c, "quita_nombre")
    /\ UNCHANGED <<proceso, nombres_interfaces, conexion, hilo_pb, interfaz, heap, pcp, con,
                   historia, caido>>

\* ...one name of the list, under its lock...
ConNombres_SinLock == TRUE
ConNombres == NombresLibres

QuitaNombre(c) ==
    /\ ~caido /\ hilo_pc[c] = "quita_nombre" /\ ConNombres
    /\ nombres_interfaces' = Quitar(nombres_interfaces, nombre[c])
    /\ Va(c, "libera")
    /\ UNCHANGED <<proceso, interfaces_conectadas, conexion, hilo_pb, interfaz, heap, pcp,
                   con, historia, caido>>

\* ...and the t_interfaz, with what its queue has.
Libera(c) ==
    /\ ~caido /\ hilo_pc[c] = "libera"
    /\ liberada' = [liberada EXCEPT ![c] = TRUE]
    /\ Va(c, "fin") /\ hilo_pb' = [hilo_pb EXCEPT ![c] = Nada]
    /\ UNCHANGED <<proceso, registro, conexion, bloqueados, procesos_esperando, heap, pcp,
                   con, historia, caido>>

atender_io(c) == \/ Registra(c) \/ RegistraNada(c) \/ AgregaNombre(c) \/ Toma(c) \/ TomaNull(c)
                 \/ Envia(c) \/ LeeLiberado(c) \/ Recibe(c) \/ RecibeError(c) \/ Desbloquea(c)
                 \/ Descarta(c) \/ EliminaVe(c) \/ EliminaSaca(c) \/ EliminaNull(c)
                 \/ QuitaDic(c) \/ QuitaNombre(c) \/ Libera(c)

-----------------------------------------------------------------------------
(* manejar_io, in the PCP, with sem_manejo_desalojo_cpu to the end          *)

Buscada == pedida[pcp_pid][2]
Conectada(n) == interfaces_conectadas[n] # Nada
Soporta(n, op) == TIPO_INTERFAZ_CAPAZ_DE_HACER[op] = TipoDe[n]

\* A process comes back from the CPU with the packet of its instruction.
Pide(p, i) ==
    /\ ~caido /\ ~planificacion_pausada /\ pcp_pc = "libre" /\ lugar[p] = "otro"
    /\ pedidos < MaxPedidos
    /\ lugar' = [lugar EXCEPT ![p] = "pcp"]
    /\ pedida' = [pedida EXCEPT ![p] = i] /\ hecha' = [hecha EXCEPT ![p] = Nada]
    /\ pcp_pc' = "existe" /\ pcp_pid' = p /\ pedidos' = pedidos + 1
    /\ UNCHANGED <<eliminado, registro, conexion, hilo, interfaz, heap, pcp_interfaz, con,
                   finalizados, reuso, caido>>

\* The name is looked for three times, each with the dictionary's lock, which is free in between.
Existe ==
    /\ ~caido /\ pcp_pc = "existe" /\ Conectada(Buscada)
    /\ pcp_pc' = "soporta"
    /\ UNCHANGED <<proceso, registro, conexion, hilo, interfaz, heap, pcp_pid, pcp_interfaz,
                   con, historia, caido>>

interfaz_invalida ==
    /\ ~caido
    /\ \/ pcp_pc = "existe" /\ ~Conectada(Buscada)
       \/ /\ pcp_pc = "soporta" /\ Conectada(Buscada)
          /\ ~Soporta(Buscada, Operacion[pedida[pcp_pid][1]])
    /\ Eliminar(pcp_pid)
    /\ pcp_pc' = "libre" /\ pcp_pid' = Nada
    /\ UNCHANGED <<registro, conexion, hilo, interfaz, heap, pcp_interfaz, con, historia, caido>>

interfaz_soporta_operacion ==
    /\ ~caido /\ pcp_pc = "soporta" /\ Conectada(Buscada)
    /\ Soporta(Buscada, Operacion[pedida[pcp_pid][1]])
    /\ pcp_pc' = "obtiene"
    /\ UNCHANGED <<proceso, registro, conexion, hilo, interfaz, heap, pcp_pid, pcp_interfaz,
                   con, historia, caido>>

Obtiene ==
    /\ ~caido /\ pcp_pc = "obtiene" /\ Conectada(Buscada)
    /\ pcp_interfaz' = interfaces_conectadas[Buscada]
    /\ pcp_pc' = "encola"
    /\ UNCHANGED <<proceso, registro, conexion, hilo, interfaz, heap, pcp_pid, con, historia,
                   caido>>

Encola ==
    /\ ~caido /\ pcp_pc = "encola" /\ ~liberada[pcp_interfaz]
    /\ \E d \in Malloc :
        /\ heap' = [heap EXCEPT ![d] = Bloqueado(pcp_pid, pedida[pcp_pid])]
        /\ bloqueados' = [bloqueados EXCEPT ![pcp_interfaz] = Append(@, d)]
        /\ reuso' = (reuso \/ \E c \in Interfaz : Tiene(c, d))
    /\ lugar' = [lugar EXCEPT ![pcp_pid] = "bloqueado"]
    /\ pcp_pc' = "avisa"
    /\ UNCHANGED <<pedida, hecha, eliminado, registro, conexion, hilo, procesos_esperando,
                   liberada, pcp_pid, pcp_interfaz, con, pedidos, finalizados, caido>>

Avisar_SiEstabaVacia(c) ==
    procesos_esperando' = [procesos_esperando EXCEPT ![c] =
                              IF Len(bloqueados[c]) = 1 THEN @ + 1 ELSE @]
Avisar(c) == procesos_esperando' = [procesos_esperando EXCEPT ![c] = @ + 1]

Avisa ==
    /\ ~caido /\ pcp_pc = "avisa" /\ ~liberada[pcp_interfaz]
    /\ Avisar(pcp_interfaz)
    /\ pcp_pc' = "libre" /\ pcp_pid' = Nada /\ pcp_interfaz' = Nada
    /\ UNCHANGED <<proceso, registro, conexion, hilo, bloqueados, liberada, heap, con, historia,
                   caido>>

\* The interface left after one of the looks: the assert of interfaz_soporta_operacion, a NULL
\* from the dictionary, or a pointer to what was freed.
PcpSinInterfaz ==
    /\ ~caido
    /\ \/ pcp_pc \in {"soporta", "obtiene"} /\ ~Conectada(Buscada)
       \/ pcp_pc \in {"encola", "avisa"} /\ liberada[pcp_interfaz]
    /\ Muere

Pcp == \/ Existe \/ interfaz_invalida \/ interfaz_soporta_operacion \/ Obtiene \/ Encola
       \/ Avisa \/ PcpSinInterfaz

-----------------------------------------------------------------------------
(* The console: the pause, and buscar_y_eliminar_en_blocked_interfaces      *)

\* Waits for manejar_io, and for an interface between its second look and its free.
pausar_planificacion ==
    /\ ~caido /\ ~planificacion_pausada /\ pcp_pc = "libre"
    /\ planificacion_pausada' = TRUE
    /\ UNCHANGED <<proceso, registro, conexion, hilo, interfaz, heap, pcp, con_pc, con_pid,
                   con_i, con_interfaz, historia, caido>>

\* Or never.
reanudar_planificacion ==
    /\ ~caido /\ planificacion_pausada /\ con_pc = "libre"
    /\ planificacion_pausada' = FALSE
    /\ UNCHANGED <<proceso, registro, conexion, hilo, interfaz, heap, pcp, con_pc, con_pid,
                   con_i, con_interfaz, historia, caido>>

Pausa == pausar_planificacion \/ reanudar_planificacion

\* FINALIZAR_PROCESO of a process that is in no other queue.
Finaliza(p) ==
    /\ ~caido /\ planificacion_pausada /\ con_pc = "libre" /\ lugar[p] \in {"bloqueado", "EXIT"}
    /\ finalizados < MaxFinalizar
    /\ con_pc' = "camina" /\ con_pid' = p /\ con_i' = 1 /\ finalizados' = finalizados + 1
    /\ UNCHANGED <<proceso, registro, conexion, hilo, interfaz, heap, pcp,
                   planificacion_pausada, con_interfaz, pedidos, reuso, caido>>

Obtener ==
    /\ ~caido /\ con_pc = "camina" /\ con_i <= Len(nombres_interfaces)
    /\ Conectada(nombres_interfaces[con_i])
    /\ con_interfaz' = interfaces_conectadas[nombres_interfaces[con_i]]
    /\ con_pc' = "busca"
    /\ UNCHANGED <<proceso, registro, conexion, hilo, interfaz, heap, pcp,
                   planificacion_pausada, con_pid, con_i, historia, caido>>

\* assert(interfaz != NULL).
ObtenerNull ==
    /\ ~caido /\ con_pc = "camina" /\ con_i <= Len(nombres_interfaces)
    /\ ~Conectada(nombres_interfaces[con_i])
    /\ Muere

EsDe(d) == Pid(d) = con_pid
ElDe(cola) == cola[CHOOSE k \in DOMAIN cola :
                        EsDe(cola[k]) /\ \A j \in 1..(k - 1) : ~EsDe(cola[j])]
Encontrado == \E k \in DOMAIN bloqueados[con_interfaz] : EsDe(bloqueados[con_interfaz][k])

\* With the lock of the queue: the first one is removed, eliminated and freed.
Busca ==
    /\ ~caido /\ con_pc = "busca" /\ Encontrado
    /\ bloqueados' = [bloqueados EXCEPT ![con_interfaz] = Quitar(@, ElDe(@))]
    /\ heap' = [heap EXCEPT ![ElDe(bloqueados[con_interfaz])] = Nada]
    /\ Eliminar(con_pid)
    /\ con_pc' = "libre" /\ con_pid' = Nada /\ con_i' = 0 /\ con_interfaz' = Nada
    /\ UNCHANGED <<registro, conexion, hilo, procesos_esperando, liberada, pcp,
                   planificacion_pausada, historia, caido>>

NoEsta ==
    /\ ~caido /\ con_pc = "busca" /\ ~Encontrado
    /\ con_pc' = "camina" /\ con_i' = con_i + 1 /\ con_interfaz' = Nada
    /\ UNCHANGED <<proceso, registro, conexion, hilo, interfaz, heap, pcp,
                   planificacion_pausada, con_pid, historia, caido>>

NoEncontrado ==
    /\ ~caido /\ con_pc = "camina" /\ con_i > Len(nombres_interfaces)
    /\ con_pc' = "libre" /\ con_pid' = Nada /\ con_i' = 0
    /\ UNCHANGED <<proceso, registro, conexion, hilo, interfaz, heap, pcp,
                   planificacion_pausada, con_interfaz, historia, caido>>

Consola == Obtener \/ ObtenerNull \/ Busca \/ NoEsta \/ NoEncontrado

-----------------------------------------------------------------------------

Next ==
    \/ \E c \in Interfaz : \/ atender_io(c) \/ Hace(c) \/ Cae(c)
                           \/ \E n \in Nombres : Conecta(c, n)
    \/ Pcp \/ Pausa \/ Consola
    \/ \E p \in Pids : Finaliza(p) \/ \E i \in Instrucciones : Pide(p, i)

Spec == Init /\ [][Next]_vars

\* The threads go on, and an interface that is there ends what it was asked to do.  The walk of
\* the console ends; nothing is said of the operator, who may never resume.
Justicia == /\ WF_vars(Pcp) /\ WF_vars(Consola)
            /\ \A c \in Interfaz : WF_vars(atender_io(c)) /\ WF_vars(Hace(c))
SpecJusta == Spec /\ Justicia

-----------------------------------------------------------------------------
(* Properties                                                               *)

Hechas == {Interpreta(m) : m \in Paquetes}
Encolables == {Bloqueado(p, i) : p \in Pids, i \in Instrucciones}

TypeOK ==
    /\ lugar \in [Pids -> {"otro", "pcp", "bloqueado", "EXIT"}]
    /\ pedida \in [Pids -> Instrucciones \cup {Nada}]
    /\ hecha \in [Pids -> Hechas \cup {Nada}]
    /\ eliminado \in [Pids -> Nat]
    /\ interfaces_conectadas \in [Nombres -> Interfaz \cup {Nada}]
    /\ nombres_interfaces \in Seq(Nombres)
    /\ nombre \in [Interfaz -> Nombres \cup {Nada}] /\ abierta \in [Interfaz -> BOOLEAN]
    /\ hilo_pc \in [Interfaz -> {"nadie", "fin", "registra", "agrega_nombre", "espera", "envia",
                                 "recibe", "desbloquea", "elimina", "elimina_saca",
                                 "quita_dic", "quita_nombre", "libera"}]
    /\ hilo_pb \in [Interfaz -> Dir \cup {Nada}]
    /\ bloqueados \in [Interfaz -> Seq(Dir)]
    /\ procesos_esperando \in [Interfaz -> Nat] /\ liberada \in [Interfaz -> BOOLEAN]
    /\ a_interfaz \in [Interfaz -> Paquetes \cup {Nada}]
    /\ de_interfaz \in [Interfaz -> {"MENSAJE_FIN_IO", Nada}]
    /\ heap \in [Dir -> Encolables \cup {Nada}]
    /\ pcp_pc \in {"libre", "existe", "soporta", "obtiene", "encola", "avisa"}
    /\ pcp_pid \in Pids \cup {Nada} /\ pcp_interfaz \in Interfaz \cup {Nada}
    /\ planificacion_pausada \in BOOLEAN
    /\ con_pc \in {"libre", "camina", "busca"}
    /\ con_pid \in Pids \cup {Nada} /\ con_i \in Nat /\ con_interfaz \in Interfaz \cup {Nada}
    /\ pedidos \in 0..MaxPedidos /\ finalizados \in 0..MaxFinalizar
    /\ reuso \in BOOLEAN /\ caido \in BOOLEAN

\* The thread of an interface frees its t_interfaz with no regard for the console, which
\* has a pointer to it from the dictionary: the lock of the names is what keeps it alive.
ConsolaSegura == con_interfaz # Nada => ~liberada[con_interfaz]

\* Whoever eliminates a process, an interface that leaves, the console or the PCP, does it
\* once, and the queues of the living interfaces have no t_bloqueado_io that was freed.
EliminadoUnaVez ==
    /\ \A p \in Pids : eliminado[p] = IF lugar[p] = "EXIT" THEN 1 ELSE 0
    /\ \A c \in Interfaz : \A k \in DOMAIN bloqueados[c] : heap[bloqueados[c][k]] # Nada

\* No process is in a queue without a unit of procesos_esperando for it: the one its interface
\* has taken, or the one the PCP is about to post, included.
Atendidos(c) ==
    procesos_esperando[c]
    + (IF hilo_pc[c] \in {"envia", "recibe", "desbloquea"} THEN 1 ELSE 0)
    + (IF pcp_pc = "avisa" /\ pcp_interfaz = c THEN 1 ELSE 0)
SinAvisosPerdidos ==
    \A c \in Interfaz : hilo_pc[c] \in {"espera", "envia", "recibe", "desbloquea"} =>
        Len(bloqueados[c]) <= Atendidos(c)

\* A process goes on only after its interface did what its instruction says: the whole
\* operation, on the memory of that process.  What interfaces.c:57-60 compares is an address:
\* enough, unless malloc has given out again one that an interface held.
HaceLoPedido ==
    [][\A p \in Pids : lugar[p] = "bloqueado" /\ lugar'[p] = "otro" /\ ~reuso =>
           hecha[p] = Pedido(p, pedida[p])]_vars

\* Whatever the instruction was of a process that arrives, its interface, two repackings and a
\* reading by position away, will do what the words of the instruction say, and no block of a
\* STDIN_READ is past what was typed (the assert of stdin.c:62).
OperacionFiel ==
    \A p \in {q \in Pids : lugar[q] = "pcp"}, i \in Repertorio :
        LET paquete == Reenvia(p, Empaqueta(decode(i))) IN
        Interpreta(paquete) = Pedido(p, i) /\ EntraEnLoTipeado(paquete)

\* A process in the queue of an interface whose thread goes on gets out of it, whatever
\* happens to the interface, unless the operator pauses: main.c:235 keeps the permission that
\* interfaces.c:55 waits for.
EnCola(p, c) == \E k \in DOMAIN bloqueados[c] : Pid(bloqueados[c][k]) = p
Atiende(c) == hilo_pc[c] \in {"espera", "envia", "recibe", "desbloquea", "elimina"}
ElBloqueadoSale ==
    \A p \in Pids, c \in Interfaz :
        EnCola(p, c) /\ Atiende(c) ~> lugar[p] # "bloqueado" \/ caido \/ planificacion_pausada

\* consola.c:373 assert(interfaz != NULL): the dictionary has what the list of names has.
AsertoDeLaConsola ==
    con_pc = "camina" /\ con_i <= Len(nombres_interfaces) =>
        Conectada(nombres_interfaces[con_i])
=============================================================================
