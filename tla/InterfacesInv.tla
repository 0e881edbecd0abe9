---------------------------- MODULE InterfacesInv ----------------------------
(***************************************************************************)
(* The inductive invariant of Interfaces: whose turn each thread has, what   *)
(* the queues and the dictionary point to, the units of the semaphores, and  *)
(* what is known of an operation on its way.                                 *)
(***************************************************************************)
EXTENDS Interfaces

Atendiendo == {"envia", "recibe", "desbloquea"}
EnElDiccionario == Atendiendo \cup {"agrega_nombre", "espera", "elimina", "elimina_saca",
                                    "quita_dic"}

\* What each thread has in hand, by its place.
TurnosInv ==
    \A c \in Interfaz : /\ hilo_pc[c] # "nadie" => nombre[c] \in Nombres
                        /\ hilo_pc[c] \in Atendiendo => hilo_pb[c] \in Dir
                        /\ liberada[c] <=> hilo_pc[c] = "fin"
PcpInv ==
    /\ pcp_pc = "libre" <=> pcp_pid = Nada
    /\ pcp_pid # Nada => pedida[pcp_pid] \in Instrucciones /\ pedidos > 0
    /\ pcp_pc \in {"existe", "soporta", "obtiene", "encola"} => lugar[pcp_pid] = "pcp"
    /\ pcp_pc \in {"encola", "avisa"} <=> pcp_interfaz # Nada
ConInv ==
    /\ con_pc = "libre" <=> con_pid = Nada
    /\ con_pc = "busca" <=> con_interfaz # Nada
    /\ con_pc # "libre" => con_i > 0 /\ planificacion_pausada
    /\ planificacion_pausada => pcp_pc = "libre"
HilosInv == TurnosInv /\ PcpInv /\ ConInv

\* The dictionary has no interface that was taken out of it, and the one the console looks at
\* is not beyond the names, which the console locks.
DiccionarioInv ==
    /\ \A n \in Nombres : LET c == interfaces_conectadas[n] IN
           c # Nada => nombre[c] = n /\ hilo_pc[c] \in EnElDiccionario
    /\ con_interfaz # Nada => hilo_pc[con_interfaz] \in EnElDiccionario \cup {"quita_nombre"}

\* Who is in EXIT was eliminated, once.
EliminadosInv == \A p \in Pids : eliminado[p] = IF lugar[p] = "EXIT" THEN 1 ELSE 0

\* A queue has no address twice, what it points to is alive, and a blocked process is there once
\* among all the queues.
ColasInv ==
    /\ \A c \in Interfaz : /\ IsInjective(bloqueados[c])
                           /\ \A d \in Range(bloqueados[c]) :
                                  heap[d] # Nada /\ lugar[Pid(d)] = "bloqueado"
    /\ \A c, e \in Interfaz : \A d \in Range(bloqueados[c]), f \in Range(bloqueados[e]) :
           Pid(d) = Pid(f) => c = e /\ d = f

\* No unit is missing while the thread goes on; while it attends somebody who is no longer the
\* first, one is left over.
AvisosDe(c) ==
    /\ hilo_pc[c] \in Atendiendo \cup {"nadie", "registra", "agrega_nombre", "espera"} =>
           Len(bloqueados[c]) <= Atendidos(c)
    /\ hilo_pc[c] \in Atendiendo =>
           \/ bloqueados[c] # <<>> /\ Head(bloqueados[c]) = hilo_pb[c]
           \/ Len(bloqueados[c]) < Atendidos(c)
AvisosInv == \A c \in Interfaz : AvisosDe(c)

\* What a living t_bloqueado_io asks is what its process asked, and what its interface was sent
\* or did is that, as long as no address an interface holds was given out again.
Enviado(d) == Reenvia(Pid(d), heap[d].operacion)
Vivo(d) == heap[d] # Nada =>
    /\ pedida[Pid(d)] \in Instrucciones /\ heap[d] = Bloqueado(Pid(d), pedida[Pid(d)])
    /\ \E c \in Interfaz : d \in Range(bloqueados[c])
EncargoDe(c) == LET d == hilo_pb[c] IN
    /\ hilo_pc[c] \in Atendiendo /\ heap[d] # Nada => d \in Range(bloqueados[c])
    /\ a_interfaz[c] # Nada =>
           /\ hilo_pc[c] = "recibe" /\ abierta[c] /\ de_interfaz[c] = Nada
           /\ heap[d] # Nada => a_interfaz[c] = Enviado(d)
           /\ heap[d] = Nada => lugar[a_interfaz[c][1]] = "EXIT"
    /\ de_interfaz[c] # Nada => hilo_pc[c] = "recibe"
    /\ (de_interfaz[c] # Nada \/ hilo_pc[c] = "desbloquea") /\ heap[d] # Nada =>
           hecha[Pid(d)] = Interpreta(Enviado(d))
PedidosInv == (\A d \in Dir : Vivo(d)) /\ (\A c \in Interfaz : EncargoDe(c))

InterfacesInv ==
    TypeOK /\ HilosInv /\ DiccionarioInv /\ EliminadosInv /\ ColasInv
    /\ AvisosInv /\ (~reuso => PedidosInv)
=============================================================================
