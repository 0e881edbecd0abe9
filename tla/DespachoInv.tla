---------------------------- MODULE DespachoInv ----------------------------
(***************************************************************************)
(* The inductive invariant of Despacho: where each PCB is, what the clocks   *)
(* and the planner may still touch, how much quantum each process has used,  *)
(* whom the interrupts on their way name, and what was asked for.            *)
(***************************************************************************)
EXTENDS Despacho

\* One PCB at a time leaves the queues, and it is in one place: with the planner, or else on one
\* of the ways of the dispatch connection or in the CPU.
VueloInv ==
    /\ mano # Nada <=> pcp_pc \in {"envia", "cancela", "maneja"}
    /\ mano # Nada => (mano.motivo = "-" <=> pcp_pc = "envia")
    /\ Len(dispatch_cpu) + Len(dispatch_kernel) + (IF pcb = Nada THEN 0 ELSE 1)
       = IF pcp_pc = "recibe" THEN 1 ELSE 0
    /\ \A m \in Range(dispatch_kernel) : m.motivo # "-"

\* The PCBs there are, by where they are.
Lugares == [ready |-> Range(cola_ready), ready_plus |-> Range(cola_ready_plus),
            bloqueado |-> {b.pcb : b \in bloqueados}, salida |-> salida,
            ejecucion |-> EnEjecucion]

\* No process has two PCBs, nor one twice in a queue, and none is without.
Unicos(lugares) ==
    \A l, m \in DOMAIN lugares : \A x \in lugares[l], y \in lugares[m] :
        x.pid = y.pid => l = m /\ x = y
Todos(lugares) == \A p \in Pids : \E l \in DOMAIN lugares : \E x \in lugares[l] : x.pid = p
LugarInv ==
    /\ IsInjective(cola_ready) /\ IsInjective(cola_ready_plus)
    /\ \A a, b \in bloqueados : a.pcb = b.pcb => a = b
    /\ Unicos(Lugares) /\ Todos(Lugares)

\* A clock that is there is somebody's; what the flag says of the one the planner points into.
RelojInv ==
    /\ \A r \in Reloj : relojes[r].paso # "libre" => relojes[r].pid \in Pids
    /\ en_ejecucion_ultimo_reloj => ConReloj /\ relojes[ultimo].paso # "libre"
                                    /\ ~relojes[ultimo].cancelado

\* The quantum a process was given and has not used up, by where it is.  While it executes the
\* chronometer counts at least what it uses.
Alcanza(x) == x.quantum + consumido[x.pid] <= QUANTUM
QuantumInv ==
    IF Vrr
    THEN /\ \A l \in DOMAIN Lugares : \A x \in Lugares[l] : x.quantum <= QUANTUM
         /\ \A l \in {"ready_plus", "bloqueado"} : \A x \in Lugares[l] : Alcanza(x)
         /\ pcp_pc # "recibe" => \A x \in EnEjecucion : Alcanza(x)
         /\ \A x \in EnEjecucion : x.quantum + consumido[x.pid] <= QUANTUM + cronometro
         /\ pcp_pc = "envia" => mano.pcb.quantum > 0
    ELSE /\ cola_ready_plus = <<>>
         /\ \A l \in DOMAIN Lugares : \A x \in Lugares[l] : x.quantum = QUANTUM

\* Whoever is named in an interrupt of the operator was named by the operator.
Nombrados(cola) ==
    \A i \in Range(cola) : i.motivo = "INTERRUMPIDO_POR_USUARIO" => i.pid \in finalizados
InterrupcionInv ==
    /\ con_pid # NULL => con_pid \in finalizados
    /\ Nombrados(interrupt) /\ Nombrados(interrupts)
    /\ \A m \in Range(dispatch_kernel) \cup (IF mano = Nada THEN {} ELSE {mano}) :
           m.motivo = "INTERRUMPIDO_POR_USUARIO" => m.pcb.pid \in finalizados

\* Who asked for its end, and was answered, is gone.
PedidosInv ==
    \A p \in Pids : \A k \in DOMAIN pedidos[p] :
        pedidos[p][k] \in {"EXIT", "RESIZE"} => \E x \in salida : x.pid = p

DespachoInv ==
    TypeOK /\ VueloInv /\ LugarInv /\ RelojInv /\ QuantumInv /\ InterrupcionInv /\ PedidosInv
=============================================================================
