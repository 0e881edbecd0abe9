------------------------- MODULE PruebaPlanificacion -------------------------
(***************************************************************************)
(* The first three layers of the theorems of Planificacion, for every       *)
(* number of processes, resources and interfaces.  Control, who holds each  *)
(* permission, and data, types, whose hand holds a PCB when and the counts  *)
(* of the resources, hold for every configuration; place, every process in  *)
(* exactly one queue or hand, under FIFO and RR.                            *)
(***************************************************************************)
EXTENDS PlanificacionInv, SqueueLemas

-----------------------------------------------------------------------------
(* Layer 1, control                                                         *)

\* The four permissions, in the order they are taken.
LEMMA PermisoDef ==
    /\ Permiso = {"entrada_a_ready", "entrada_a_exec", "manejo_desalojo_cpu", "interrupcion_rr"}
    /\ Permisos[1] = "entrada_a_ready" /\ Permisos[2] = "entrada_a_exec"
    /\ Permisos[3] = "manejo_desalojo_cpu" /\ Permisos[4] = "interrupcion_rr"
  <1>1. 1..4 = {1, 2, 3, 4}
    OBVIOUS
  <1> QED  BY <1>1 DEF Permiso, Permisos

\* The steps of an interface's thread that only move it on.
IoAvanza(i) == \/ IoTermina(i) \/ IoDesconecta(i) \/ IoSeVa(i)
               \/ \E r \in Recursos : IoLeeCuenta(i, r) \/ IoCarga(i, r)

\* Where they take it, and what they leave alone.
LEMMA IoAvanzaDef ==
  ASSUME NEW i \in Interfaces, IoAvanza(i)
  PROVE  /\ \E x \in {"espera_permiso"} \cup Saliendo \cup {"fuera"} :
               /\ io_pc' = [io_pc EXCEPT ![i] = x]
               /\ x \in EnMano <=> io_pc[i] \in EnMano
               /\ x = "espera_permiso" => io_pc[i] = "opera" /\ UNCHANGED io_actual
         /\ io_pc[i] \in {"opera"} \cup Saliendo
         /\ io_actual' \in {io_actual, [io_actual EXCEPT ![i] = NULL]}
         /\ io_cuenta' \in {io_cuenta} \cup {[io_cuenta EXCEPT ![i] = instancias[r]] : r \in Recursos}
         /\ UNCHANGED <<ultimo_pid, colas, mano, recs, grado, sem_elementos_en_new,
                        sem_elementos_en_ready, permisos, cpu, plp, pcp, procesos_esperando,
                        consola, caido>>
  <1> USE DEF Saliendo, EnMano, io
  <1>1. CASE IoTermina(i)
    BY <1>1 DEF IoTermina
  <1>2. CASE IoDesconecta(i)
    BY <1>2 DEF IoDesconecta
  <1>3. CASE IoSeVa(i)
    BY <1>3 DEF IoSeVa
  <1>4. CASE \E r \in Recursos : IoLeeCuenta(i, r)
    BY <1>4 DEF IoLeeCuenta
  <1>5. CASE \E r \in Recursos : IoCarga(i, r)
    BY <1>5 DEF IoCarga
  <1> QED  BY <1>1, <1>2, <1>3, <1>4, <1>5 DEF IoAvanza

\* The ways the system takes a step, one by one; all the ways it dies are one.
LEMMA Pasos ==
  ASSUME [Next]_vars
  PROVE  \/ PlpVeNew \/ PlpTomaLugar \/ PlpSaca \/ PlpDescarta \/ PlpEncola \/ PlpAvisa
         \/ PcpVeReady \/ PcpConfirma \/ PcpRechaza \/ PcpDespacha \/ PcpRecibe
         \/ PcpFinQuantum \/ PcpElimina \/ PcpLibera \/ PcpTermina
         \/ \E r \in Recursos : PcpWaitDescuenta(r)
         \/ \E r \in Recursos : PcpWaitAsigna(r)
         \/ \E r \in Recursos : PcpWaitBloquea(r)
         \/ \E r \in Recursos : PcpSignal(r)
         \/ \E i \in Interfaces : PcpIo(i)
         \/ \E i \in Interfaces : IoToma(i)
         \/ \E i \in Interfaces : IoAvanza(i)
         \/ \E i \in Interfaces : IoDesbloquea(i)
         \/ \E i \in Interfaces : IoDescarta(i)
         \/ \E i \in Interfaces : IoAvisa(i)
         \/ \E i \in Interfaces : IoSacaBloqueado(i)
         \/ \E i \in Interfaces, r \in Recursos : IoDespierta(i, r)
         \/ \E i \in Interfaces, r \in Recursos : IoGuarda(i, r)
         \/ \E i \in Interfaces : IoElimina(i)
         \/ ConIniciar \/ \E n \in 0..MaxGrado : ConGrado(n)
         \/ ConDetener \/ \E p \in Pid : ConFinalizar(p)
         \/ ConReanudar \/ ConTomaPermiso \/ ConPausada \/ ConInterrumpe \/ ConEliminaNew
         \/ ConNoEncuentra \/ ConTermina \/ \E c \in Cola \ {"NEW", "EXIT"} : ConElimina(c)
         \/ ConLibera \/ ConSeTraba \/ Muere \/ UNCHANGED vars
  <1>1. CASE Plp
    BY <1>1 DEF Plp
  <1>2. CASE Pcp
    BY <1>2 DEF Pcp, PcpSacaNull, PopDeNull
  <1>3. CASE \E i \in Interfaces : Io(i)
    BY <1>3 DEF Io, IoAvanza, IoLeeNull, IoLeeLiberado, IoSacaNull
  <1>4. CASE Operador \/ Comando
    BY <1>4 DEF Operador, Comando, ConSacaNull, ConAserto, PopDeNull
  <1> QED  BY <1>1, <1>2, <1>3, <1>4 DEF Next

\* NULL is -1 and pids start at 1.
LEMMA NullNoEsPid == NULL \notin Pid
  BY DEF NULL, Pid

\* Layer 1 holds at the start...
THEOREM ControlInit == Init => ControlInv
  <1> SUFFICES ASSUME Init PROVE ControlInv
    OBVIOUS
  <1>1. PcInv
    BY DEF Init, PcInv
  <1>2. ConsolaInv
    BY DEF Init, ConsolaInv
  <1>3. PermisosInv
    BY PermisoDef DEF Init, PermisosInv
  <1> QED  BY <1>1, <1>2, <1>3 DEF ControlInv

\* With all four permissions in the console's hands, giving them back leaves
\* each one free.
LEMMA ReanudarControl ==
  ASSUME ControlInv, planificacion_pausada, Reanudar,
         plp_pc' = plp_pc, pcp_pc' = pcp_pc
  PROVE  PermisosInv' /\ con_tomados' = 0 /\ ~planificacion_pausada'
  <1>1. con_tomados = 4
    BY DEF ControlInv, ConsolaInv
  <1>2. /\ con_tomados' = 0 /\ ~planificacion_pausada'
        /\ permisos' = [x \in Permiso |-> permisos[x] + 1]
    BY DEF Reanudar
  <1>3. \A x \in Permiso : permisos[x] = 0 /\ permisos[x] + 1 = 1
    BY <1>1, PermisoDef DEF ControlInv, PermisosInv
  <1>4. permisos' \in [Permiso -> Nat] /\ \A x \in Permiso : permisos'[x] = 1
    BY <1>2, <1>3
  <1>5. plp_pc # "carga" /\ pcp_pc \notin {"saca", "pide", "elimina"}
    BY <1>1, <1>3, PermisoDef DEF ControlInv, PermisosInv
  <1> QED  BY <1>2, <1>4, <1>5, PermisoDef DEF PermisosInv

\* Whatever command ends, the console keeps all the permissions or none.
LEMMA FinDelComandoControl ==
  ASSUME ControlInv, con_pc \in {"busca", "elimina"}, FinDelComando,
         plp_pc' = plp_pc, pcp_pc' = pcp_pc
  PROVE  ControlInv'
  <1>1. planificacion_pausada
    BY DEF ControlInv, ConsolaInv
  <1>2. con_pc' = "libre" /\ con_pid' = NULL /\ con_reanuda' = FALSE /\ con_cola' = "-"
    BY DEF FinDelComando
  <1>3. PermisosInv' /\ con_tomados' \in 0..4
        /\ (planificacion_pausada' => con_tomados' = 4)
        /\ (planificacion_pausada' \/ con_tomados' = 0)
    <2>1. CASE con_reanuda /\ Reanudar
      BY <1>1, <2>1, ReanudarControl
    <2>2. CASE ~con_reanuda /\ UNCHANGED <<permisos, con_tomados, planificacion_pausada>>
      BY <1>1, <2>2 DEF ControlInv, ConsolaInv, PermisosInv
    <2> QED  BY <2>1, <2>2 DEF FinDelComando
  <1>4. PcInv'
    BY <1>2, <1>3 DEF ControlInv, PcInv
  <1>5. ConsolaInv'
    BY <1>2, <1>3 DEF ConsolaInv
  <1> QED  BY <1>3, <1>4, <1>5 DEF ControlInv

\* ... and every step keeps it: one case per action.
THEOREM ControlPaso == ControlInv /\ [Next]_vars => ControlInv'
  <1> SUFFICES ASSUME ControlInv, [Next]_vars PROVE ControlInv'
    OBVIOUS
  <1> USE PermisoDef DEF recs, plp, pcp, io, grado, consola, cpu
  <1>1. CASE PlpVeNew
    BY <1>1 DEF PlpVeNew, ControlInv, PcInv, ConsolaInv, PermisosInv
  <1>2. CASE PlpTomaLugar
    BY <1>2 DEF PlpTomaLugar, ControlInv, PcInv, ConsolaInv, PermisosInv
  <1>3. CASE PlpSaca
    BY <1>3 DEF PlpSaca, ControlInv, PcInv, ConsolaInv, PermisosInv
  <1>4. CASE PlpDescarta
    BY <1>4 DEF PlpDescarta, ControlInv, PcInv, ConsolaInv, PermisosInv
  <1>5. CASE PlpEncola
    BY <1>5 DEF PlpEncola, ControlInv, PcInv, ConsolaInv, PermisosInv
  <1>6. CASE PlpAvisa
    BY <1>6 DEF PlpAvisa, ControlInv, PcInv, ConsolaInv, PermisosInv
  <1>7. CASE PcpVeReady
    BY <1>7 DEF PcpVeReady, ControlInv, PcInv, ConsolaInv, PermisosInv
  <1>8. CASE PcpConfirma
    BY <1>8 DEF PcpConfirma, ControlInv, PcInv, ConsolaInv, PermisosInv
  <1>9. CASE PcpRechaza
    BY <1>9 DEF PcpRechaza, ControlInv, PcInv, ConsolaInv, PermisosInv
  <1>10. CASE PcpDespacha
    BY <1>10 DEF PcpDespacha, ControlInv, PcInv, ConsolaInv, PermisosInv
  <1>11. CASE PcpRecibe
    BY <1>11 DEF PcpRecibe, ControlInv, PcInv, ConsolaInv, PermisosInv
  <1>12. CASE PcpFinQuantum
    BY <1>12 DEF PcpFinQuantum, Encolar, Maneja, ControlInv, PcInv, ConsolaInv, PermisosInv
  <1>13. CASE PcpElimina
    <2>1. /\ pcp_pc = "espera_desalojo" /\ permisos["manejo_desalojo_cpu"] > 0
          /\ permisos' = [permisos EXCEPT !["manejo_desalojo_cpu"] = @ - 1]
          /\ pcp_pc' = "elimina" /\ UNCHANGED <<plp_pc, consola>>
      BY <1>13 DEF PcpElimina, Maneja
    <2> QED  BY <2>1 DEF ControlInv, PcInv, ConsolaInv, PermisosInv
  <1>14. CASE PcpLibera
    BY <1>14 DEF PcpLibera, ControlInv, PcInv, ConsolaInv, PermisosInv
  <1>15. CASE PcpTermina
    BY <1>15 DEF PcpTermina, ControlInv, PcInv, ConsolaInv, PermisosInv
  <1>16. CASE \E r \in Recursos : PcpWaitAsigna(r) \/ PcpWaitBloquea(r)
    <2>1. /\ pcp_pc = "pide" /\ pcp_pc' \in {"espera_cpu", "espera_ready"}
          /\ permisos' = [permisos EXCEPT !["manejo_desalojo_cpu"] = @ + 1]
          /\ UNCHANGED <<plp_pc, consola>>
      BY <1>16 DEF PcpWaitAsigna, PcpWaitBloquea, Pide, Encolar, DevolverEjecucion
    <2> QED  BY <2>1 DEF ControlInv, PcInv, ConsolaInv, PermisosInv
  <1>17. CASE \E i \in Interfaces : PcpIo(i)
    BY <1>17 DEF PcpIo, Encolar, Maneja, ControlInv, PcInv, ConsolaInv, PermisosInv
  <1>18. CASE \E i \in Interfaces : Io(i)
    <2>1. UNCHANGED <<permisos, plp_pc, pcp_pc, consola>>
      <3>1. PICK i \in Interfaces : Io(i)
        BY <1>18
      <3>2. CASE IoAvanza(i)
        BY <3>2, IoAvanzaDef
      <3>3. CASE Muere
        BY <3>3 DEF Muere
      <3> QED
        BY <3>1, <3>2, <3>3 DEF Io, IoToma, IoLeeNull, IoLeeLiberado, IoDesbloquea, IoDescarta,
           IoAvisa, IoSacaBloqueado, IoElimina, IoDespierta, IoSacaNull, IoGuarda, IoAvanza
    <2> QED  BY <2>1 DEF ControlInv, PcInv, ConsolaInv, PermisosInv
  <1>19. CASE ConIniciar
    BY <1>19 DEF ConIniciar, ControlInv, PcInv, ConsolaInv, PermisosInv
  <1>20. CASE \E k \in 0..MaxGrado : ConGrado(k)
    BY <1>20 DEF ConGrado, ControlInv, PcInv, ConsolaInv, PermisosInv
  <1>21. CASE ConDetener
    BY <1>21 DEF ConDetener, PidONada, ControlInv, PcInv, ConsolaInv, PermisosInv
  <1>22. CASE \E p \in Pid : ConFinalizar(p)
    BY <1>22 DEF ConFinalizar, PidONada, ControlInv, PcInv, ConsolaInv, PermisosInv
  <1>23. CASE ConReanudar
    <2>1. PermisosInv' /\ con_tomados' = 0 /\ ~planificacion_pausada'
      BY <1>23, ReanudarControl DEF ConReanudar
    <2> QED  BY <1>23, <2>1 DEF ConReanudar, ControlInv, PcInv, ConsolaInv
  <1>24. CASE ConTomaPermiso
    <2>1. con_tomados \in {0, 1, 2, 3} /\ con_tomados' \in 0..4
      BY <1>24 DEF ConTomaPermiso, ControlInv, ConsolaInv
    <2>2. PermisosInv'
      <3>1. CASE con_tomados = 0
        BY <1>24, <3>1 DEF ConTomaPermiso, ControlInv, PermisosInv
      <3>2. CASE con_tomados = 1
        BY <1>24, <3>2 DEF ConTomaPermiso, ControlInv, PermisosInv
      <3>3. CASE con_tomados = 2
        BY <1>24, <3>3 DEF ConTomaPermiso, ControlInv, PermisosInv
      <3>4. CASE con_tomados = 3
        BY <1>24, <3>4 DEF ConTomaPermiso, ControlInv, PermisosInv
      <3> QED  BY <2>1, <3>1, <3>2, <3>3, <3>4
    <2> QED  BY <1>24, <2>1, <2>2 DEF ConTomaPermiso, ControlInv, PcInv, ConsolaInv
  <1>25. CASE ConPausada
    <2>1. con_pid = NULL \/ con_pid \in Pid
      BY <1>25 DEF ConPausada, ControlInv, ConsolaInv, PidONada
    <2>2. PermisosInv' /\ PcInv'
      BY <1>25 DEF ConPausada, ControlInv, PermisosInv, PcInv
    <2>3. CASE con_pid = NULL
      BY <1>25, <2>2, <2>3 DEF ConPausada, ControlInv, ConsolaInv
    <2>4. CASE con_pid \in Pid
      BY <1>25, <2>2, <2>4, NullNoEsPid DEF ConPausada, ControlInv, ConsolaInv
    <2> QED  BY <2>1, <2>3, <2>4
  <1>26. CASE ConInterrumpe
    BY <1>26, FinDelComandoControl DEF ConInterrumpe
  <1>27. CASE ConEliminaNew
    BY <1>27, FinDelComandoControl DEF ConEliminaNew
  <1>28. CASE ConNoEncuentra
    BY <1>28, FinDelComandoControl DEF ConNoEncuentra
  <1>29. CASE ConTermina
    BY <1>29, FinDelComandoControl DEF ConTermina
  <1>30. CASE \E c \in Cola \ {"NEW", "EXIT"} : ConElimina(c)
    BY <1>30 DEF ConElimina, ControlInv, PcInv, ConsolaInv, PermisosInv
  <1>31. CASE ConLibera
    BY <1>31 DEF ConLibera, ControlInv, PcInv, ConsolaInv, PermisosInv
  <1>32. CASE ConSeTraba
    BY <1>32 DEF ConSeTraba, ControlInv, PcInv, ConsolaInv, PermisosInv
  <1>33. CASE UNCHANGED vars
    BY <1>33 DEF vars, ControlInv, PcInv, ConsolaInv, PermisosInv
  <1>34. CASE \E r \in Recursos : PcpSignal(r)
    BY <1>34 DEF PcpSignal, DevolverEjecucion, Maneja, ControlInv, PcInv, ConsolaInv, PermisosInv
  <1>35. CASE \E r \in Recursos : PcpWaitDescuenta(r)
    <2>1. /\ pcp_pc = "espera_desalojo" /\ permisos["manejo_desalojo_cpu"] > 0
          /\ permisos' = [permisos EXCEPT !["manejo_desalojo_cpu"] = @ - 1]
          /\ pcp_pc' = "pide" /\ UNCHANGED <<plp_pc, consola>>
      BY <1>35 DEF PcpWaitDescuenta, Maneja
    <2> QED  BY <2>1 DEF ControlInv, PcInv, ConsolaInv, PermisosInv
  <1>36. CASE Muere
    BY <1>36 DEF Muere, ControlInv, PcInv, ConsolaInv, PermisosInv
  <1> QED
    BY <1>1, <1>2, <1>3, <1>4, <1>5, <1>6, <1>7, <1>8, <1>9, <1>10, <1>11, <1>12,
       <1>13, <1>14, <1>15, <1>16, <1>17, <1>18, <1>19, <1>20, <1>21, <1>22, <1>23, <1>24,
       <1>25, <1>26, <1>27, <1>28, <1>29, <1>30, <1>31, <1>32, <1>33, <1>34, <1>35, <1>36
       DEF Next, Plp, Pcp, Operador, Comando, PcpSacaNull, ConSacaNull, ConAserto, PopDeNull

\* Each permission has at most one holder, at every moment and under any
\* algorithm: the lemma the rest of the proofs lean on.
THEOREM ControlSiempre == Spec => []ControlInv
  BY ControlInit, ControlPaso, PTL DEF Spec

-----------------------------------------------------------------------------
(* Layer 2, data                                                            *)

\* Each squeue has a name of its own.
LEMMA NombresDeColas ==
    /\ {"NEW", "READY", "READY_PLUS", "EXIT"} \subseteq Cola
    /\ Recursos \subseteq Cola /\ Interfaces \subseteq Cola
    /\ \A c \in Recursos \cup Interfaces : c \notin {"NEW", "READY", "READY_PLUS", "EXIT", "-"}
    /\ \A c \in Cola : c # "-"
    /\ \A r \in Recursos : r \notin Interfaces
    /\ Fijos \subseteq Hilo /\ Interfaces \subseteq Hilo
    /\ \A i \in Interfaces : i \notin Fijos
  BY ConstantesOK DEF Cola, Basicas, Hilo, Fijos

\* What a look at a queue returns.
LEMMA PeekTipo ==
  ASSUME NEW S, NEW q \in Seq(S)
  PROVE  /\ squeue_peek(q) \in S \cup {NULL}
         /\ squeue_pop(q) \in Seq(S)
  BY PopLema DEF squeue_peek, squeue_pop

\* While the PCP handles what the CPU returned, the console is in no walk.
LEMMA ManejoLibre ==
  ASSUME ControlInv,
         pcp_pc \in {"pide", "elimina"} \/ permisos["manejo_desalojo_cpu"] > 0
  PROVE  con_cola = "-" /\ con_pc \in {"libre", "pausa"}
  <1>1. ~(con_tomados >= 3)
    BY PermisoDef DEF ControlInv, PermisosInv
  <1>2. ~planificacion_pausada
    BY <1>1 DEF ControlInv, ConsolaInv
  <1> QED  BY <1>2 DEF ControlInv, ConsolaInv, PcInv

\* The allocation to release is one of the process's.
LEMMA PrimeraDeLema ==
  ASSUME TypeColas, NEW p, AsignacionesDe(p) # {}
  PROVE  /\ PrimeraDe(p) \in 1..Len(asignaciones)
         /\ asignaciones[PrimeraDe(p)].pid = p
         /\ asignaciones[PrimeraDe(p)].recurso \in Recursos
         /\ RemoveAt(asignaciones, PrimeraDe(p)) \in Seq(Asignacion)
  <1>1. asignaciones \in Seq(Asignacion)
    BY DEF TypeColas, Asignacion
  <1>2. /\ DOMAIN asignaciones = 1..Len(asignaciones)
        /\ \A k \in 1..Len(asignaciones) : asignaciones[k] \in Asignacion
    BY <1>1, LenProperties
  <1>3. AsignacionesDe(p) \subseteq Nat
    BY <1>2 DEF AsignacionesDe
  <1>4. PrimeraDe(p) \in AsignacionesDe(p)
    BY <1>3, MinimoNat DEF PrimeraDe
  <1>5. PrimeraDe(p) \in 1..Len(asignaciones) /\ asignaciones[PrimeraDe(p)].pid = p
    BY <1>2, <1>4 DEF AsignacionesDe
  <1> QED  BY <1>1, <1>2, <1>5, RemoveAtLema DEF Asignacion

\* Waking somebody up keeps the types...
LEMMA DespertarTipo ==
  ASSUME TypeColas, NEW r \in Recursos, NEW asig \in Seq(Asignacion), Despertar(r, asig)
  PROVE  /\ colas' \in [Cola -> Seq(Pid)] /\ asignaciones' \in Seq(Asignacion)
         /\ sem_elementos_en_ready \in Nat => sem_elementos_en_ready' \in Nat
  <1>1. /\ Head(colas[r]) \in Pid /\ Tail(colas[r]) \in Seq(Pid)
        /\ colas["READY"] \in Seq(Pid)
    BY PopLema, NombresDeColas DEF TypeColas, Despertar
  <1>2. squeue_push(colas["READY"], Head(colas[r])) \in Seq(Pid)
    BY <1>1, PushLema
  <1>3. colas' \in [Cola -> Seq(Pid)]
    BY <1>1, <1>2, NombresDeColas DEF Despertar, TypeColas
  <1>4. [pid |-> Head(colas[r]), recurso |-> r] \in Asignacion
    BY <1>1 DEF Asignacion
  <1>5. asignaciones' \in Seq(Asignacion)
    BY <1>4, AppendProperties DEF Despertar
  <1>6. sem_elementos_en_ready' = sem_elementos_en_ready + 1
    BY DEF Despertar
  <1> QED  BY <1>3, <1>5, <1>6

\* ... incrementar_recurso too...
LEMMA IncrementarTipo ==
  ASSUME TypeColas, NEW r \in Recursos, NEW asig \in Seq(Asignacion),
         IncrementarRecurso(r, asig)
  PROVE  /\ colas' \in [Cola -> Seq(Pid)] /\ instancias' \in [Recursos -> Int]
         /\ asignaciones' \in Seq(Asignacion)
         /\ sem_elementos_en_ready \in Nat => sem_elementos_en_ready' \in Nat
  <1>1. instancias' \in [Recursos -> Int]
    BY DEF IncrementarRecurso, TypeColas
  <1>2. CASE instancias[r] < 0
    <2>1. instancias[r] \in Int
      BY DEF TypeColas
    <2>2. Despertar(r, asig)
      BY <1>2, <2>1 DEF IncrementarRecurso
    <2> QED  BY <1>1, <2>2, DespertarTipo
  <1>3. CASE ~(instancias[r] < 0)
    BY <1>1, <1>3 DEF IncrementarRecurso, TypeColas
  <1> QED  BY <1>2, <1>3

\* ... and so does releasing an allocation, whoever does it.
LEMMA LiberarTipo ==
  ASSUME TypeColas, NEW p, LiberarUna(p)
  PROVE  /\ colas' \in [Cola -> Seq(Pid)] /\ instancias' \in [Recursos -> Int]
         /\ asignaciones' \in Seq(Asignacion)
         /\ sem_elementos_en_ready \in Nat => sem_elementos_en_ready' \in Nat
  BY PrimeraDeLema, IncrementarTipo DEF LiberarUna

\* What the operations of Squeue give on a typed queue.
LEMMA TiposDeColas ==
  ASSUME TypeColas, NEW c \in Cola
  PROVE  /\ colas[c] \in Seq(Pid)
         /\ squeue_peek(colas[c]) \in PidONada /\ squeue_pop(colas[c]) \in Seq(Pid)
         /\ \A x : Quitar(colas[c], x) \in Seq(Pid)
         /\ \A x \in Pid : squeue_push(colas[c], x) \in Seq(Pid)
  <1>1. colas[c] \in Seq(Pid)
    BY DEF TypeColas
  <1> QED  BY <1>1, PeekTipo, QuitarLema, PushLema DEF PidONada

\* TypeColas: every queue holds processes, whoever pushes, pops or removes.
LEMMA ColasPaso ==
  ASSUME ControlInv, TypeColas, ManoInv, ManoIoInv, [Next]_vars
  PROVE  TypeColas'
  <1> USE DEF recs, plp, pcp, io, grado, consola, cpu
  <1>1. CASE PlpVeNew
    BY <1>1, TiposDeColas, NombresDeColas DEF PlpVeNew, TypeColas, PidONada, Hilo, Fijos
  <1>2. CASE PlpSaca
    BY <1>2, TiposDeColas, NombresDeColas DEF PlpSaca, TypeColas, PidONada, Hilo, Fijos
  <1>3. CASE PlpDescarta
    BY <1>3, TiposDeColas, NombresDeColas DEF PlpDescarta, TypeColas, PidONada, Hilo, Fijos
  <1>4. CASE PlpEncola
    BY <1>4, TiposDeColas, NombresDeColas, NullNoEsPid DEF PlpEncola, TypeColas, PidONada, Hilo, Fijos,
       ManoInv
  <1>5. CASE PcpVeReady
    BY <1>5, TiposDeColas, NombresDeColas DEF PcpVeReady, TypeColas, PidONada, Hilo, Fijos,
       peek_siguiente_pcb, ColaSiguiente
  <1>6. CASE PcpRechaza
    BY <1>6, TiposDeColas, NombresDeColas DEF PcpRechaza, TypeColas, PidONada, Hilo, Fijos
  <1>7. CASE PcpDespacha
    BY <1>7, TiposDeColas, NombresDeColas DEF PcpDespacha, TypeColas, PidONada, Hilo, Fijos, ColaSiguiente
  <1>8. CASE PcpRecibe
    BY <1>8, TiposDeColas, NombresDeColas DEF PcpRecibe, TypeColas, PidONada, Hilo, Fijos
  <1>9. CASE PcpFinQuantum
    BY <1>9, TiposDeColas, NombresDeColas, NullNoEsPid DEF PcpFinQuantum, Maneja, Encolar,
       TypeColas, PidONada, Hilo, Fijos, ManoInv
  <1>10. CASE PcpLibera
    <2>1. /\ colas' \in [Cola -> Seq(Pid)] /\ instancias' \in [Recursos -> Int]
          /\ asignaciones' \in Seq(Asignacion)
      BY <1>10, LiberarTipo DEF PcpLibera
    <2> QED  BY <1>10, <2>1 DEF PcpLibera, TypeColas, Asignacion
  <1>11. CASE PcpTermina
    BY <1>11, TiposDeColas, NombresDeColas, NullNoEsPid DEF PcpTermina, TypeColas, PidONada,
       Hilo, Fijos, ManoInv
  <1>12. ASSUME NEW r \in Recursos, PcpWaitAsigna(r) PROVE TypeColas'
    <2>1. mano["pcp"] \in Pid /\ asignaciones \in Seq(Asignacion)
      BY <1>12, NullNoEsPid DEF PcpWaitAsigna, Pide, ManoInv, TypeColas, PidONada, Hilo, Fijos,
         Asignacion
    <2>2. asignaciones' \in Seq(Asignacion)
      BY <1>12, <2>1, AppendProperties DEF PcpWaitAsigna, Asignacion
    <2>3. mano' \in [Hilo -> PidONada]
      BY <1>12 DEF PcpWaitAsigna, DevolverEjecucion, TypeColas, PidONada, Hilo, Fijos
    <2> QED  BY <1>12, <2>2, <2>3 DEF PcpWaitAsigna, DevolverEjecucion, TypeColas, Asignacion
  <1>13. ASSUME NEW r \in Recursos, PcpWaitBloquea(r) PROVE TypeColas'
    <2>1. mano["pcp"] \in Pid
      BY <1>13, NullNoEsPid DEF PcpWaitBloquea, Pide, ManoInv, TypeColas, PidONada, Hilo, Fijos
    <2>2. colas' \in [Cola -> Seq(Pid)] /\ mano' \in [Hilo -> PidONada]
      BY <1>13, <2>1, TiposDeColas, NombresDeColas
         DEF PcpWaitBloquea, Encolar, TypeColas, PidONada, Hilo, Fijos
    <2> QED  BY <1>13, <2>2 DEF PcpWaitBloquea, Encolar, TypeColas
  <1>14. ASSUME NEW r \in Recursos, PcpSignal(r) PROVE TypeColas'
    <2> DEFINE asig == Quitar(asignaciones, [pid |-> mano["pcp"], recurso |-> r])
    <2>1. asig \in Seq(Asignacion)
      BY QuitarLema DEF TypeColas, Asignacion
    <2>3. IncrementarRecurso(r, asig)
      BY <1>14 DEF PcpSignal
    <2> HIDE DEF asig
    <2>4. /\ colas' \in [Cola -> Seq(Pid)] /\ instancias' \in [Recursos -> Int]
          /\ asignaciones' \in Seq(Asignacion)
      BY <2>1, <2>3, IncrementarTipo
    <2> QED  BY <1>14, <2>4 DEF PcpSignal, DevolverEjecucion, TypeColas, PidONada, Hilo, Fijos, Asignacion
  <1>15. ASSUME NEW i \in Interfaces, PcpIo(i) PROVE TypeColas'
    BY <1>15, TiposDeColas, NombresDeColas, NullNoEsPid DEF PcpIo, Maneja, Encolar, TypeColas,
       PidONada, Hilo, Fijos, ManoInv
  <1>16. ASSUME NEW i \in Interfaces, IoToma(i) PROVE TypeColas'
    BY <1>16, TiposDeColas, NombresDeColas DEF IoToma, TypeColas, PidONada, Hilo, Fijos
  <1>17. ASSUME NEW i \in Interfaces, IoDesbloquea(i) PROVE TypeColas'
    BY <1>17, TiposDeColas, NombresDeColas DEF IoDesbloquea, TypeColas, PidONada, Hilo, Fijos,
       SigueBloqueado, ColaDesbloqueados
  <1>18. ASSUME NEW i \in Interfaces, IoDescarta(i) PROVE TypeColas'
    BY <1>18, TiposDeColas, NombresDeColas DEF IoDescarta, TypeColas, PidONada, Hilo, Fijos
  <1>19. CASE ConIniciar
    <2>1. ultimo_pid \in Pid /\ ultimo_pid' \in 1..(MaxProcesos + 1)
      BY <1>19, ConstantesOK DEF ConIniciar, TypeColas, Pid
    <2>2. colas' \in [Cola -> Seq(Pid)]
      BY <1>19, <2>1, TiposDeColas, NombresDeColas DEF ConIniciar, TypeColas
    <2> QED  BY <1>19, <2>1, <2>2 DEF ConIniciar, TypeColas
  <1>20. CASE ConInterrumpe
    BY <1>20 DEF ConInterrumpe, TypeColas, ControlInv, ConsolaInv
  <1>21. CASE ConEliminaNew
    BY <1>21, TiposDeColas, NombresDeColas DEF ConEliminaNew, TypeColas, PidONada, Hilo, Fijos,
       ControlInv, ConsolaInv
  <1>22. CASE ConTermina
    <2>1. con_pid \in Pid
      BY <1>22 DEF ConTermina, ControlInv, ConsolaInv
    <2>2. colas' \in [Cola -> Seq(Pid)] /\ mano' \in [Hilo -> PidONada]
      BY <1>22, <2>1, TiposDeColas, NombresDeColas DEF ConTermina, TypeColas, PidONada, Hilo, Fijos
    <2>3. instancias' \in [Recursos -> Int]
      BY <1>22 DEF ConTermina, DescontarEspera, TypeColas
    <2> QED  BY <1>22, <2>2, <2>3 DEF ConTermina, TypeColas
  <1>23. ASSUME NEW c \in Cola \ {"NEW", "EXIT"}, ConElimina(c) PROVE TypeColas'
    BY <1>23, TiposDeColas, NombresDeColas DEF ConElimina, DevolverLugar, TypeColas, PidONada,
       Hilo, Fijos, ControlInv, ConsolaInv
  <1>24. CASE ConLibera
    <2>1. /\ colas' \in [Cola -> Seq(Pid)] /\ instancias' \in [Recursos -> Int]
          /\ asignaciones' \in Seq(Asignacion)
      BY <1>24, LiberarTipo DEF ConLibera, Recierra
    <2> QED  BY <1>24, <2>1 DEF ConLibera, TypeColas, Asignacion
  <1>25. CASE \/ PlpTomaLugar \/ PlpAvisa \/ PcpConfirma \/ PcpElimina
              \/ \E i \in Interfaces : IoAvisa(i)
              \/ \E n \in 0..MaxGrado : ConGrado(n)
              \/ ConDetener \/ \E p \in Pid : ConFinalizar(p)
              \/ ConReanudar \/ ConTomaPermiso \/ ConPausada \/ ConNoEncuentra \/ ConSeTraba
              \/ Muere \/ UNCHANGED vars
    BY <1>25 DEF PlpTomaLugar, PlpAvisa, PcpConfirma, PcpElimina, Muere,
       IoAvisa, ConGrado, ConDetener, ConFinalizar, ConReanudar, ConTomaPermiso, ConPausada,
       ConNoEncuentra, ConSeTraba, DevolverLugar, Maneja, vars, TypeColas
  <1>26. ASSUME NEW r \in Recursos, PcpWaitDescuenta(r) PROVE TypeColas'
    BY <1>26 DEF PcpWaitDescuenta, TypeColas
  <1>27. ASSUME NEW i \in Interfaces, IoAvanza(i) PROVE TypeColas'
    <2>1. io_actual' \in {io_actual, [io_actual EXCEPT ![i] = NULL]}
      BY <1>27, IoAvanzaDef
    <2>2. io_actual' \in [Interfaces -> PidONada]
      BY <2>1 DEF TypeColas, PidONada
    <2>3. io_cuenta' = io_cuenta \/ \E r \in Recursos : io_cuenta' = [io_cuenta EXCEPT ![i] = instancias[r]]
      BY <1>27, IoAvanzaDef
    <2>4. io_cuenta' \in [Interfaces -> Int]
      BY <2>3 DEF TypeColas
    <2>5. UNCHANGED <<ultimo_pid, colas, mano, instancias, asignaciones, plp_visto, pcp_visto,
                      pid_en_ejecucion, interrumpidos>>
      BY <1>27, IoAvanzaDef
    <2> QED  BY <2>2, <2>4, <2>5 DEF TypeColas
  <1>28. ASSUME NEW i \in Interfaces, IoSacaBloqueado(i) PROVE TypeColas'
    BY <1>28, TiposDeColas, NombresDeColas DEF IoSacaBloqueado, DevolverLugar, TypeColas, PidONada
  <1>29. ASSUME NEW i \in Interfaces, NEW r \in Recursos, IoDespierta(i, r) PROVE TypeColas'
    <2>1. colas' \in [Cola -> Seq(Pid)] /\ asignaciones' \in Seq(Asignacion)
      BY <1>29, DespertarTipo DEF IoDespierta, TypeColas
    <2> QED  BY <1>29, <2>1 DEF IoDespierta, TypeColas, Asignacion
  <1>30. ASSUME NEW i \in Interfaces, NEW r \in Recursos, IoGuarda(i, r) PROVE TypeColas'
    <2>1. asignaciones' \in Seq(Asignacion)
      BY <1>30, PrimeraDeLema DEF IoGuarda, Libera
    <2>2. instancias' \in [Recursos -> Int] /\ io_cuenta' \in [Interfaces -> Int]
      BY <1>30 DEF IoGuarda, TypeColas
    <2> QED  BY <1>30, <2>1, <2>2 DEF IoGuarda, TypeColas, Asignacion
  <1>31. ASSUME NEW i \in Interfaces, IoElimina(i) PROVE TypeColas'
    <2>1. mano[i] \in Pid
      BY <1>31, NombresDeColas DEF IoElimina, ManoIoInv, EnMano, TypeColas, PidONada
    <2>2. colas' \in [Cola -> Seq(Pid)] /\ mano' \in [Hilo -> PidONada]
      BY <1>31, <2>1, TiposDeColas, NombresDeColas DEF IoElimina, TypeColas, PidONada
    <2> QED  BY <1>31, <2>2 DEF IoElimina, TypeColas
  <1> QED  BY Pasos, <1>1, <1>2, <1>3, <1>4, <1>5, <1>6, <1>7, <1>8, <1>9, <1>10, <1>11, <1>12,
     <1>13, <1>14, <1>15, <1>16, <1>17, <1>18, <1>19, <1>20, <1>21, <1>22, <1>23, <1>24, <1>25,
     <1>26, <1>27, <1>28, <1>29, <1>30, <1>31

\* TypeContadores: no semaphore or counter goes below zero.
LEMMA ContadoresPaso ==
  ASSUME ControlInv, ControlInv', TypeColas, TypeContadores, [Next]_vars
  PROVE  TypeContadores'
  <1> USE DEF recs, plp, pcp, io, grado, consola, cpu
  <1>1. CASE PlpVeNew
    BY <1>1 DEF PlpVeNew, TypeContadores, ControlInv, ConsolaInv, PermisosInv
  <1>2. CASE PlpTomaLugar
    BY <1>2 DEF PlpTomaLugar, TypeContadores, ControlInv, ConsolaInv, PermisosInv
  <1>3. CASE PlpDescarta
    BY <1>3 DEF PlpDescarta, TypeContadores, ControlInv, ConsolaInv, PermisosInv
  <1>4. CASE PlpAvisa
    BY <1>4 DEF PlpAvisa, TypeContadores, ControlInv, ConsolaInv, PermisosInv
  <1>5. CASE PcpVeReady
    BY <1>5 DEF PcpVeReady, TypeContadores, ControlInv, ConsolaInv, PermisosInv
  <1>6. CASE PcpFinQuantum
    BY <1>6 DEF PcpFinQuantum, Maneja, Encolar, TypeContadores, ControlInv, ConsolaInv, PermisosInv
  <1>7. CASE PcpElimina
    BY <1>7 DEF PcpElimina, Maneja, DevolverLugar, TypeContadores, ControlInv, ConsolaInv,
       PermisosInv
  <1>8. CASE PcpLibera
    <2>1. sem_elementos_en_ready' \in Nat
      BY <1>8, LiberarTipo DEF PcpLibera, TypeContadores
    <2> QED  BY <1>8, <2>1 DEF PcpLibera, TypeContadores, ControlInv, ConsolaInv, PermisosInv
  <1>9. ASSUME NEW r \in Recursos, PcpSignal(r) PROVE TypeContadores'
    <2>1. sem_elementos_en_ready' \in Nat
      BY <1>9 DEF PcpSignal, IncrementarRecurso, Despertar, TypeContadores
    <2> QED  BY <1>9, <2>1 DEF PcpSignal, DevolverEjecucion, TypeContadores, ControlInv,
       ConsolaInv, PermisosInv
  <1>10. ASSUME NEW i \in Interfaces, PcpIo(i) PROVE TypeContadores'
    BY <1>10 DEF PcpIo, Maneja, Encolar, TypeContadores, ControlInv, ConsolaInv, PermisosInv
  <1>11. ASSUME NEW i \in Interfaces, IoToma(i) PROVE TypeContadores'
    BY <1>11 DEF IoToma, TypeContadores, ControlInv, ConsolaInv, PermisosInv
  <1>12. ASSUME NEW i \in Interfaces, IoAvisa(i) PROVE TypeContadores'
    BY <1>12 DEF IoAvisa, TypeContadores, ControlInv, ConsolaInv, PermisosInv
  <1>13. CASE ConIniciar
    BY <1>13 DEF ConIniciar, TypeContadores, ControlInv, ConsolaInv, PermisosInv
  <1>14. ASSUME NEW n \in 0..MaxGrado, ConGrado(n) PROVE TypeContadores'
    BY <1>14 DEF ConGrado, TypeContadores, ControlInv, ConsolaInv, PermisosInv
  <1>15. ASSUME NEW c \in Cola \ {"NEW", "EXIT"}, ConElimina(c) PROVE TypeContadores'
    BY <1>15 DEF ConElimina, DevolverLugar, TypeContadores, ControlInv, ConsolaInv, PermisosInv
  <1>16. CASE ConLibera
    <2>1. sem_elementos_en_ready' \in Nat
      BY <1>16, LiberarTipo DEF ConLibera, Recierra, TypeContadores
    <2> QED  BY <1>16, <2>1 DEF ConLibera, TypeContadores, ControlInv, ConsolaInv, PermisosInv
  <1>17. CASE \/ PlpSaca \/ PlpEncola \/ PcpConfirma \/ PcpRechaza \/ PcpDespacha \/ PcpRecibe
              \/ PcpTermina \/ \E r \in Recursos : PcpWaitAsigna(r)
              \/ \E r \in Recursos : PcpWaitBloquea(r)
              \/ \E r \in Recursos : PcpWaitDescuenta(r)
              \/ \E i \in Interfaces : IoDesbloquea(i)
              \/ \E i \in Interfaces : IoDescarta(i)
              \/ \E i \in Interfaces, r \in Recursos : IoGuarda(i, r)
              \/ \E i \in Interfaces : IoElimina(i)
              \/ ConDetener \/ \E p \in Pid : ConFinalizar(p)
              \/ ConReanudar \/ ConTomaPermiso \/ ConPausada \/ ConInterrumpe \/ ConEliminaNew
              \/ ConNoEncuentra \/ ConTermina \/ ConSeTraba \/ Muere \/ UNCHANGED vars
    BY <1>17 DEF PlpSaca, PlpEncola, PcpConfirma, PcpRechaza, PcpDespacha, PcpRecibe, PcpTermina,
       PcpWaitAsigna, PcpWaitBloquea, PcpWaitDescuenta, IoDesbloquea, IoGuarda, IoElimina,
       IoDescarta, ConDetener, ConFinalizar, ConReanudar, ConTomaPermiso, ConPausada,
       ConInterrumpe, ConEliminaNew, ConNoEncuentra, ConTermina, ConSeTraba, DevolverEjecucion,
       Encolar, Maneja, Muere, vars, TypeContadores, ControlInv, ConsolaInv, PermisosInv
  <1>18. ASSUME NEW i \in Interfaces, IoAvanza(i) PROVE TypeContadores'
    BY <1>18, IoAvanzaDef DEF TypeContadores, ControlInv, ConsolaInv, PermisosInv
  <1>19. ASSUME NEW i \in Interfaces, IoSacaBloqueado(i) PROVE TypeContadores'
    BY <1>19 DEF IoSacaBloqueado, DevolverLugar, TypeContadores, ControlInv, ConsolaInv,
       PermisosInv
  <1>20. ASSUME NEW i \in Interfaces, NEW r \in Recursos, IoDespierta(i, r)
         PROVE  TypeContadores'
    BY <1>20 DEF IoDespierta, Despertar, TypeContadores, ControlInv, ConsolaInv, PermisosInv
  <1> QED  BY Pasos, <1>1, <1>2, <1>3, <1>4, <1>5, <1>6, <1>7, <1>8, <1>9, <1>10, <1>11, <1>12,
     <1>13, <1>14, <1>15, <1>16, <1>17, <1>18, <1>19, <1>20

\* TypeHilos: every thread is at one of its points, with what it carries there.
LEMMA HilosPaso ==
  ASSUME ControlInv, ControlInv', TypeHilos, [Next]_vars
  PROVE  TypeHilos'
  <1> USE DEF recs, plp, pcp, io, grado, consola, cpu
  <1>1. CASE PcpRecibe
    BY <1>1 DEF PcpRecibe, TypeHilos, ControlInv, PcInv, Posibles
  <1>2. CASE PcpFinQuantum
    BY <1>2 DEF PcpFinQuantum, Maneja, Encolar, TypeHilos, ControlInv, PcInv
  <1>3. CASE PcpElimina
    BY <1>3 DEF PcpElimina, Maneja, DevolverLugar, TypeHilos, ControlInv, PcInv
  <1>4. ASSUME NEW r \in Recursos, PcpWaitAsigna(r) PROVE TypeHilos'
    BY <1>4 DEF PcpWaitAsigna, Pide, DevolverEjecucion, TypeHilos, ControlInv, PcInv
  <1>5. ASSUME NEW r \in Recursos, PcpWaitBloquea(r) PROVE TypeHilos'
    BY <1>5 DEF PcpWaitBloquea, Pide, Encolar, TypeHilos, ControlInv, PcInv
  <1>6. ASSUME NEW r \in Recursos, PcpSignal(r) PROVE TypeHilos'
    BY <1>6 DEF PcpSignal, Maneja, DevolverEjecucion, TypeHilos, ControlInv, PcInv
  <1>7. ASSUME NEW i \in Interfaces, PcpIo(i) PROVE TypeHilos'
    BY <1>7 DEF PcpIo, Maneja, Encolar, TypeHilos, ControlInv, PcInv
  <1>8. ASSUME NEW i \in Interfaces, IoToma(i) PROVE TypeHilos'
    BY <1>8 DEF IoToma, Atiende, TypeHilos, ControlInv, PcInv
  <1>9. CASE Muere
    BY <1>9 DEF Muere, TypeHilos, ControlInv, PcInv
  <1>10. ASSUME NEW i \in Interfaces, IoAvanza(i) PROVE TypeHilos'
    BY <1>10, IoAvanzaDef DEF Atiende, TypeHilos, ControlInv, PcInv
  <1>11. ASSUME NEW r \in Recursos, PcpWaitDescuenta(r) PROVE TypeHilos'
    BY <1>11 DEF PcpWaitDescuenta, TypeHilos, ControlInv, PcInv
  <1>12. ASSUME NEW i \in Interfaces, IoDesbloquea(i) PROVE TypeHilos'
    BY <1>12 DEF IoDesbloquea, Atiende, TypeHilos, ControlInv, PcInv
  <1>13. ASSUME NEW i \in Interfaces, IoDescarta(i) PROVE TypeHilos'
    BY <1>13 DEF IoDescarta, Atiende, TypeHilos, ControlInv, PcInv
  <1>14. ASSUME NEW i \in Interfaces, IoAvisa(i) PROVE TypeHilos'
    BY <1>14 DEF IoAvisa, Atiende, TypeHilos, ControlInv, PcInv
  <1>15. ASSUME NEW p \in Pid, ConFinalizar(p) PROVE TypeHilos'
    BY <1>15 DEF ConFinalizar, TypeHilos, ControlInv, PcInv, PidONada
  <1>16. CASE ConReanudar
    BY <1>16 DEF ConReanudar, TypeHilos, ControlInv, PcInv, Reanudar
  <1>17. CASE ConPausada
    BY <1>17 DEF ConPausada, TypeHilos, ControlInv, PcInv
  <1>18. CASE ConInterrumpe
    BY <1>18 DEF ConInterrumpe, TypeHilos, ControlInv, PcInv, PidONada, FinDelComando, Reanudar
  <1>19. CASE ConEliminaNew
    BY <1>19 DEF ConEliminaNew, TypeHilos, ControlInv, PcInv, PidONada, FinDelComando, Reanudar
  <1>20. CASE ConNoEncuentra
    BY <1>20 DEF ConNoEncuentra, TypeHilos, ControlInv, PcInv, PidONada, FinDelComando, Reanudar
  <1>21. CASE ConTermina
    BY <1>21 DEF ConTermina, TypeHilos, ControlInv, PcInv, PidONada, FinDelComando, Reanudar
  <1>22. ASSUME NEW c \in Cola \ {"NEW", "EXIT"}, ConElimina(c) PROVE TypeHilos'
    BY <1>22 DEF ConElimina, DevolverLugar, TypeHilos, ControlInv, PcInv
  <1>23. CASE \/ PlpVeNew \/ PlpTomaLugar \/ PlpSaca \/ PlpDescarta \/ PlpEncola \/ PlpAvisa
              \/ PcpVeReady \/ PcpConfirma \/ PcpRechaza \/ PcpDespacha \/ PcpLibera
              \/ PcpTermina \/ ConIniciar \/ \E n \in 0..MaxGrado : ConGrado(n)
              \/ ConDetener \/ ConTomaPermiso \/ ConLibera \/ ConSeTraba \/ UNCHANGED vars
    BY <1>23 DEF PlpVeNew, PlpTomaLugar, PlpSaca, PlpDescarta, PlpEncola, PlpAvisa, PcpVeReady,
       PcpConfirma, PcpRechaza, PcpDespacha, PcpLibera, PcpTermina, ConIniciar, ConGrado,
       ConDetener, ConTomaPermiso, ConLibera, ConSeTraba, vars, TypeHilos, ControlInv, PcInv
  <1>24. ASSUME NEW i \in Interfaces, IoSacaBloqueado(i) PROVE TypeHilos'
    BY <1>24 DEF IoSacaBloqueado, Saliendo, TypeHilos, ControlInv, PcInv
  <1>25. ASSUME NEW i \in Interfaces, NEW r \in Recursos, IoDespierta(i, r) PROVE TypeHilos'
    BY <1>25 DEF IoDespierta, Saliendo, TypeHilos, ControlInv, PcInv
  <1>26. ASSUME NEW i \in Interfaces, NEW r \in Recursos, IoGuarda(i, r) PROVE TypeHilos'
    BY <1>26 DEF IoGuarda, Saliendo, TypeHilos, ControlInv, PcInv
  <1>27. ASSUME NEW i \in Interfaces, IoElimina(i) PROVE TypeHilos'
    BY <1>27 DEF IoElimina, Saliendo, TypeHilos, ControlInv, PcInv
  <1> QED  BY Pasos, <1>1, <1>2, <1>3, <1>4, <1>5, <1>6, <1>7, <1>8, <1>9, <1>10, <1>11, <1>12,
     <1>13, <1>14, <1>15, <1>16, <1>17, <1>18, <1>19, <1>20, <1>21, <1>22, <1>23, <1>24, <1>25,
     <1>26, <1>27

\* ManoInv: a thread has a PCB in hand exactly at the points where it should.
LEMMA ManoPaso ==
  ASSUME ControlInv, TypeColas, ManoInv, [Next]_vars
  PROVE  ManoInv'
  <1> USE DEF recs, plp, pcp, io, grado, consola, cpu
  <1>1. CASE PlpVeNew
    BY <1>1 DEF PlpVeNew, ManoInv, TypeColas, Hilo, Fijos
  <1>2. CASE PlpTomaLugar
    BY <1>2 DEF PlpTomaLugar, ManoInv, TypeColas, Hilo, Fijos
  <1>3. CASE PlpSaca
    BY <1>3 DEF PlpSaca, ManoInv, TypeColas, Hilo, Fijos, SigueEnNew
  <1>4. CASE PlpDescarta
    BY <1>4 DEF PlpDescarta, ManoInv, TypeColas, Hilo, Fijos
  <1>5. CASE PlpEncola
    BY <1>5 DEF PlpEncola, ManoInv, TypeColas, Hilo, Fijos
  <1>6. CASE PlpAvisa
    BY <1>6 DEF PlpAvisa, ManoInv, TypeColas, Hilo, Fijos
  <1>7. CASE PcpVeReady
    BY <1>7 DEF PcpVeReady, ManoInv, TypeColas, Hilo, Fijos
  <1>8. CASE PcpConfirma
    BY <1>8 DEF PcpConfirma, ManoInv, TypeColas, Hilo, Fijos, SigueSiguiente
  <1>9. CASE PcpRechaza
    BY <1>9 DEF PcpRechaza, ManoInv, TypeColas, Hilo, Fijos
  <1>10. CASE PcpDespacha
    BY <1>10 DEF PcpDespacha, ManoInv, TypeColas, Hilo, Fijos
  <1>11. CASE PcpRecibe
    BY <1>11 DEF PcpRecibe, ManoInv, TypeColas, Hilo, Fijos
  <1>12. CASE PcpFinQuantum
    BY <1>12 DEF PcpFinQuantum, Maneja, Encolar, ManoInv, TypeColas, Hilo, Fijos
  <1>13. CASE PcpElimina
    BY <1>13 DEF PcpElimina, Maneja, DevolverLugar, ManoInv, TypeColas, Hilo, Fijos
  <1>14. CASE PcpLibera
    BY <1>14 DEF PcpLibera, ManoInv, TypeColas, Hilo, Fijos
  <1>15. CASE PcpTermina
    BY <1>15 DEF PcpTermina, ManoInv, TypeColas, Hilo, Fijos
  <1>16. ASSUME NEW r \in Recursos, PcpWaitAsigna(r) PROVE ManoInv'
    BY <1>16 DEF PcpWaitAsigna, Pide, DevolverEjecucion, ManoInv, TypeColas, Hilo, Fijos
  <1>17. ASSUME NEW r \in Recursos, PcpWaitBloquea(r) PROVE ManoInv'
    BY <1>17 DEF PcpWaitBloquea, Pide, Encolar, ManoInv, TypeColas, Hilo, Fijos
  <1>18. ASSUME NEW r \in Recursos, PcpSignal(r) PROVE ManoInv'
    BY <1>18 DEF PcpSignal, Maneja, DevolverEjecucion, ManoInv, TypeColas, Hilo, Fijos
  <1>19. ASSUME NEW i \in Interfaces, PcpIo(i) PROVE ManoInv'
    BY <1>19 DEF PcpIo, Maneja, Encolar, ManoInv, TypeColas, Hilo, Fijos
  <1>20. CASE ConDetener
    BY <1>20 DEF ConDetener, ManoInv, TypeColas, Hilo, Fijos, ControlInv, ConsolaInv
  <1>21. ASSUME NEW p \in Pid, ConFinalizar(p) PROVE ManoInv'
    BY <1>21 DEF ConFinalizar, ManoInv, TypeColas, Hilo, Fijos
  <1>22. CASE ConPausada
    BY <1>22 DEF ConPausada, ManoInv, TypeColas, Hilo, Fijos, ControlInv, ConsolaInv
  <1>23. CASE ConInterrumpe
    BY <1>23 DEF ConInterrumpe, ManoInv, TypeColas, Hilo, Fijos, FinDelComando
  <1>24. CASE ConEliminaNew
    BY <1>24 DEF ConEliminaNew, ManoInv, TypeColas, Hilo, Fijos, FinDelComando
  <1>25. CASE ConNoEncuentra
    BY <1>25 DEF ConNoEncuentra, ManoInv, TypeColas, Hilo, Fijos, FinDelComando
  <1>26. CASE ConTermina
    BY <1>26 DEF ConTermina, ManoInv, TypeColas, Hilo, Fijos, FinDelComando
  <1>27. ASSUME NEW c \in Cola \ {"NEW", "EXIT"}, ConElimina(c) PROVE ManoInv'
    BY <1>27 DEF ConElimina, DevolverLugar, ManoInv, TypeColas, Hilo, Fijos, ControlInv, ConsolaInv
  <1>28. CASE ConSeTraba
    BY <1>28 DEF ConSeTraba, ManoInv, TypeColas, Hilo, Fijos, ControlInv, ConsolaInv
  <1>29. CASE \/ \E i \in Interfaces : IoToma(i)
              \/ \E i \in Interfaces : IoDesbloquea(i)
              \/ \E i \in Interfaces : IoDescarta(i)
              \/ \E i \in Interfaces : IoAvisa(i)
              \/ \E i \in Interfaces, r \in Recursos : IoDespierta(i, r)
              \/ \E i \in Interfaces, r \in Recursos : IoGuarda(i, r)
              \/ ConIniciar \/ \E n \in 0..MaxGrado : ConGrado(n)
              \/ ConReanudar \/ ConTomaPermiso \/ ConLibera \/ Muere \/ UNCHANGED vars
    BY <1>29 DEF IoToma, IoDesbloquea, IoDescarta, IoAvisa, IoDespierta, IoGuarda, Muere,
       ConIniciar, ConGrado, ConReanudar, ConTomaPermiso, ConLibera, vars, ManoInv, TypeColas,
       Hilo, Fijos
  <1>30. ASSUME NEW r \in Recursos, PcpWaitDescuenta(r) PROVE ManoInv'
    BY <1>30 DEF PcpWaitDescuenta, Maneja, ManoInv
  <1>31. ASSUME NEW i \in Interfaces, IoAvanza(i) PROVE ManoInv'
    BY <1>31, IoAvanzaDef DEF ManoInv
  <1>32. ASSUME NEW i \in Interfaces, IoSacaBloqueado(i) PROVE ManoInv'
    BY <1>32, NombresDeColas DEF IoSacaBloqueado, ManoInv, TypeColas, Hilo, Fijos
  <1>33. ASSUME NEW i \in Interfaces, IoElimina(i) PROVE ManoInv'
    BY <1>33, NombresDeColas DEF IoElimina, ManoInv, TypeColas, Hilo, Fijos
  <1> QED  BY Pasos, <1>1, <1>2, <1>3, <1>4, <1>5, <1>6, <1>7, <1>8, <1>9, <1>10, <1>11, <1>12,
     <1>13, <1>14, <1>15, <1>16, <1>17, <1>18, <1>19, <1>20, <1>21, <1>22, <1>23, <1>24, <1>25,
     <1>26, <1>27, <1>28, <1>29, <1>30, <1>31, <1>32, <1>33

\* The same for the interfaces that leave.
LEMMA ManoIoPaso ==
  ASSUME TypeColas, TypeHilos, ManoIoInv, [Next]_vars
  PROVE  ManoIoInv'
  <1> USE DEF recs, plp, pcp, io, grado, consola, cpu
  <1>1. CASE UNCHANGED <<mano, io_pc>>
    BY <1>1 DEF ManoIoInv
  <1>3. ASSUME NEW h \in Fijos, NEW p,
               mano' = [mano EXCEPT ![h] = p], UNCHANGED io_pc
        PROVE  ManoIoInv'
    BY <1>3, NombresDeColas DEF ManoIoInv, TypeColas
  <1>4. ASSUME NEW i \in Interfaces, \E x : io_pc' = [io_pc EXCEPT ![i] = x]
                                           /\ (x \in EnMano <=> io_pc[i] \in EnMano),
               UNCHANGED mano
        PROVE  ManoIoInv'
    BY <1>4 DEF ManoIoInv, TypeHilos
  <1>5. ASSUME NEW i \in Interfaces, IoSacaBloqueado(i) PROVE ManoIoInv'
    <2>1. squeue_peek(colas[i]) # NULL
      BY <1>5, NombresDeColas, PopLema, NullNoEsPid
         DEF IoSacaBloqueado, TypeColas, squeue_peek
    <2> QED  BY <1>5, <2>1, NombresDeColas DEF IoSacaBloqueado, EnMano, ManoIoInv, TypeColas, TypeHilos
  <1>6. ASSUME NEW i \in Interfaces, IoElimina(i) PROVE ManoIoInv'
    BY <1>6, NombresDeColas DEF IoElimina, EnMano, ManoIoInv, TypeColas, TypeHilos
  <1>7. CASE \/ PlpVeNew \/ PlpTomaLugar \/ PlpDescarta \/ PlpAvisa \/ PcpVeReady
             \/ PcpConfirma \/ PcpRechaza \/ PcpElimina \/ PcpLibera
             \/ \E r \in Recursos : PcpWaitDescuenta(r)
             \/ ConIniciar \/ \E n \in 0..MaxGrado : ConGrado(n)
             \/ ConDetener \/ \E p \in Pid : ConFinalizar(p)
             \/ ConReanudar \/ ConTomaPermiso \/ ConPausada \/ ConInterrumpe \/ ConEliminaNew
             \/ ConNoEncuentra \/ ConLibera \/ ConSeTraba \/ Muere \/ UNCHANGED vars
    <2>1. UNCHANGED <<mano, io_pc>>
      BY <1>7 DEF PlpVeNew, PlpTomaLugar, PlpDescarta, PlpAvisa, PcpVeReady, PcpConfirma,
         PcpRechaza, PcpElimina, PcpLibera, PcpWaitDescuenta, ConIniciar, ConGrado, ConDetener,
         ConFinalizar, ConReanudar, ConTomaPermiso, ConPausada, ConInterrumpe, ConEliminaNew,
         ConNoEncuentra, ConLibera, ConSeTraba, Muere, vars
    <2> QED  BY <2>1, <1>1
  <1>8. CASE PlpSaca
    BY <1>8, <1>3 DEF PlpSaca, Fijos
  <1>9. CASE PlpEncola
    BY <1>9, <1>3 DEF PlpEncola, Fijos
  <1>10. CASE PcpDespacha
    BY <1>10, <1>3 DEF PcpDespacha, Fijos
  <1>11. CASE PcpRecibe
    BY <1>11, NombresDeColas DEF PcpRecibe, Fijos, ManoIoInv, TypeColas
  <1>12. CASE PcpFinQuantum
    BY <1>12, <1>3 DEF PcpFinQuantum, Encolar, Fijos
  <1>13. CASE PcpTermina
    BY <1>13, <1>3 DEF PcpTermina, Fijos
  <1>14. CASE \E r \in Recursos : PcpWaitAsigna(r)
    BY <1>14, NombresDeColas DEF PcpWaitAsigna, DevolverEjecucion, Fijos, ManoIoInv, TypeColas
  <1>15. CASE \E r \in Recursos : PcpWaitBloquea(r)
    BY <1>15, <1>3 DEF PcpWaitBloquea, Encolar, Fijos
  <1>16. CASE \E r \in Recursos : PcpSignal(r)
    BY <1>16, NombresDeColas DEF PcpSignal, DevolverEjecucion, Fijos, ManoIoInv, TypeColas
  <1>17. CASE \E i \in Interfaces : PcpIo(i)
    BY <1>17, <1>3 DEF PcpIo, Encolar, Fijos
  <1>18. CASE ConTermina
    BY <1>18, <1>3 DEF ConTermina, Fijos
  <1>19. CASE \E c \in Cola \ {"NEW", "EXIT"} : ConElimina(c)
    BY <1>19, <1>3 DEF ConElimina, Fijos
  <1>20. ASSUME NEW i \in Interfaces, IoToma(i) PROVE ManoIoInv'
    BY <1>20 DEF IoToma, EnMano, ManoIoInv, TypeHilos
  <1>21. ASSUME NEW i \in Interfaces, IoDesbloquea(i) PROVE ManoIoInv'
    BY <1>21 DEF IoDesbloquea, EnMano, ManoIoInv, TypeHilos
  <1>22. ASSUME NEW i \in Interfaces, IoDescarta(i) PROVE ManoIoInv'
    BY <1>22 DEF IoDescarta, EnMano, ManoIoInv, TypeHilos
  <1>23. ASSUME NEW i \in Interfaces, IoAvisa(i) PROVE ManoIoInv'
    BY <1>23 DEF IoAvisa, EnMano, ManoIoInv, TypeHilos
  <1>24. ASSUME NEW i \in Interfaces, IoAvanza(i) PROVE ManoIoInv'
    BY <1>24, <1>4, IoAvanzaDef
  <1>25. ASSUME NEW i \in Interfaces, NEW r \in Recursos, IoDespierta(i, r) PROVE ManoIoInv'
    BY <1>25, <1>4 DEF IoDespierta, EnMano
  <1>26. ASSUME NEW i \in Interfaces, NEW r \in Recursos, IoGuarda(i, r) PROVE ManoIoInv'
    BY <1>26, <1>4 DEF IoGuarda, EnMano
  <1> QED  BY Pasos, <1>5, <1>6, <1>7, <1>8, <1>9, <1>10, <1>11, <1>12, <1>13, <1>14, <1>15,
     <1>16, <1>17, <1>18, <1>19, <1>20, <1>21, <1>22, <1>23, <1>24, <1>25, <1>26

\* What a queue's length becomes with each operation.
LEMMA Largos ==
  ASSUME TypeColas, NEW c \in Cola
  PROVE  /\ Len(colas[c]) \in Nat
         /\ \A x \in Pid : Len(squeue_push(colas[c], x)) = Len(colas[c]) + 1
         /\ colas[c] # <<>> => Len(Tail(colas[c])) = Len(colas[c]) - 1
         /\ \A x : Contiene(colas[c], x) => Len(Quitar(colas[c], x)) = Len(colas[c]) - 1
  <1>1. colas[c] \in Seq(Pid)
    BY DEF TypeColas
  <1>2. /\ Len(colas[c]) \in Nat
        /\ \A x \in Pid : Len(squeue_push(colas[c], x)) = Len(colas[c]) + 1
    BY <1>1, LenProperties, PushLema
  <1>3. colas[c] # <<>> => Len(Tail(colas[c])) = Len(colas[c]) - 1
    BY <1>1, PopLema
  <1>4. \A x : Contiene(colas[c], x) => Len(Quitar(colas[c], x)) = Len(colas[c]) - 1
    BY <1>1, QuitarLema
  <1> QED  BY <1>2, <1>3, <1>4

\* An interface that left does not come back.
LEMMA CompletasAntes ==
  ASSUME TypeHilos, [Next]_vars, Completas'
  PROVE  /\ Completas
         /\ \A i \in Interfaces : ~IoSacaBloqueado(i) /\ ~IoElimina(i)
         /\ \A i \in Interfaces, r \in Recursos : ~IoDespierta(i, r) /\ ~IoGuarda(i, r)
         /\ \A i \in Interfaces : IoAvanza(i) => UNCHANGED <<instancias, colas, consola, pcp>>
  <1> USE DEF recs, plp, pcp, io, grado, consola, cpu
  <1>1. ASSUME NEW i \in Interfaces, NEW x, io_pc' = [io_pc EXCEPT ![i] = x], io_pc[i] \in Atiende
        PROVE  Completas
    <2>1. ASSUME NEW j \in Interfaces PROVE io_pc[j] \in Atiende
      <3>1. CASE j = i
        BY <1>1, <3>1
      <3>2. CASE j # i
        <4>1. io_pc'[j] \in Atiende
          BY DEF Completas
        <4> QED  BY <1>1, <3>2, <4>1 DEF TypeHilos
      <3> QED  BY <3>1, <3>2
    <2> QED  BY <2>1 DEF Completas
  <1>2. ASSUME NEW i \in Interfaces, NEW x \in Saliendo \cup {"fuera"},
               io_pc' = [io_pc EXCEPT ![i] = x]
        PROVE  FALSE
    BY <1>2 DEF Completas, Atiende, Saliendo, TypeHilos
  <1>3. ASSUME NEW i \in Interfaces
        PROVE  ~IoSacaBloqueado(i) /\ ~IoElimina(i)
    <2>1. ASSUME IoSacaBloqueado(i) PROVE FALSE
      BY <2>1, <1>2 DEF IoSacaBloqueado, Saliendo
    <2>2. ASSUME IoElimina(i) PROVE FALSE
      BY <2>2, <1>2 DEF IoElimina, Saliendo
    <2> QED  BY <2>1, <2>2
  <1>4. ASSUME NEW i \in Interfaces, NEW r \in Recursos
        PROVE  ~IoDespierta(i, r) /\ ~IoGuarda(i, r)
    <2>1. ASSUME IoDespierta(i, r) PROVE FALSE
      BY <2>1, <1>2 DEF IoDespierta, Saliendo
    <2>2. ASSUME IoGuarda(i, r) PROVE FALSE
      BY <2>2, <1>2 DEF IoGuarda, Saliendo
    <2> QED  BY <2>1, <2>2
  <1>5. \A i \in Interfaces : IoAvanza(i) => UNCHANGED <<instancias, colas, consola, pcp>>
    BY IoAvanzaDef
  <1>6. Completas
    <2>1. CASE UNCHANGED io_pc
      BY <2>1 DEF Completas
    <2>2. ASSUME NEW i \in Interfaces, IoAvanza(i) PROVE Completas
      <3>1. PICK x \in {"espera_permiso"} \cup Saliendo \cup {"fuera"} :
               /\ io_pc' = [io_pc EXCEPT ![i] = x]
               /\ x = "espera_permiso" => io_pc[i] = "opera"
        BY <2>2, IoAvanzaDef
      <3>2. x = "espera_permiso"
        BY <3>1, <1>2
      <3> QED  BY <3>1, <3>2, <1>1 DEF Atiende
    <2>3. ASSUME NEW i \in Interfaces, IoToma(i) PROVE Completas
      BY <2>3, <1>1 DEF IoToma, Atiende
    <2>4. ASSUME NEW i \in Interfaces, IoDesbloquea(i) PROVE Completas
      BY <2>4, <1>1 DEF IoDesbloquea, Atiende
    <2>5. ASSUME NEW i \in Interfaces, IoDescarta(i) PROVE Completas
      BY <2>5, <1>1 DEF IoDescarta, Atiende
    <2>6. ASSUME NEW i \in Interfaces, IoAvisa(i) PROVE Completas
      BY <2>6, <1>1 DEF IoAvisa, Atiende
    <2>7. CASE \/ PlpVeNew \/ PlpTomaLugar \/ PlpSaca \/ PlpDescarta \/ PlpEncola \/ PlpAvisa
               \/ PcpVeReady \/ PcpConfirma \/ PcpRechaza \/ PcpDespacha \/ PcpRecibe
               \/ PcpFinQuantum \/ PcpElimina \/ PcpLibera \/ PcpTermina
               \/ \E r \in Recursos : PcpWaitDescuenta(r)
               \/ \E r \in Recursos : PcpWaitAsigna(r)
               \/ \E r \in Recursos : PcpWaitBloquea(r)
               \/ \E r \in Recursos : PcpSignal(r)
               \/ \E i \in Interfaces : PcpIo(i)
      <3>1. UNCHANGED io_pc
        BY <2>7 DEF PlpVeNew, PlpTomaLugar, PlpSaca, PlpDescarta, PlpEncola, PlpAvisa,
           PcpVeReady, PcpConfirma, PcpRechaza, PcpDespacha, PcpRecibe, PcpFinQuantum,
           PcpElimina, PcpLibera, PcpTermina, PcpWaitDescuenta, PcpWaitAsigna, PcpWaitBloquea,
           PcpSignal, PcpIo, Encolar, DevolverEjecucion
      <3> QED  BY <3>1, <2>1
    <2>8. CASE \/ ConIniciar \/ \E n \in 0..MaxGrado : ConGrado(n)
               \/ ConDetener \/ \E p \in Pid : ConFinalizar(p)
               \/ ConReanudar \/ ConTomaPermiso \/ ConPausada \/ ConInterrumpe \/ ConEliminaNew
               \/ ConNoEncuentra \/ ConTermina \/ \E c \in Cola \ {"NEW", "EXIT"} : ConElimina(c)
               \/ ConLibera \/ ConSeTraba \/ Muere \/ UNCHANGED vars
      <3>1. UNCHANGED io_pc
        BY <2>8 DEF ConIniciar, ConGrado, ConDetener, ConFinalizar, ConReanudar, ConTomaPermiso,
           ConPausada, ConInterrumpe, ConEliminaNew, ConNoEncuentra, ConTermina, ConElimina,
           ConLibera, ConSeTraba, Muere, vars
      <3> QED  BY <3>1, <2>1
    <2> QED  BY Pasos, <1>3, <1>4, <2>2, <2>3, <2>4, <2>5, <2>6, <2>7, <2>8
  <1> QED  BY <1>3, <1>4, <1>5, <1>6

\* What BloqueadosContados says of one resource.
Cuadra(r) == /\ instancias[r] < 0 => instancias[r] + Bloqueados(r) + Pidiendo(r) = 0
             /\ instancias[r] >= 0 => Bloqueados(r) = 0

\* It depends on the counter, on the queue's length and on two facts of the threads.
LEMMA CuadraIgual ==
  ASSUME NEW s \in Recursos, Cuadra(s), instancias'[s] = instancias[s], colas'[s] = colas[s],
         con_cola' = s <=> con_cola = s,
         pcp_pc' = "pide" /\ pcp_motivo' = <<"WAIT_RECURSO", s>>
            <=> pcp_pc = "pide" /\ pcp_motivo = <<"WAIT_RECURSO", s>>
  PROVE  Cuadra(s)'
  BY DEF Cuadra, Bloqueados, Pidiendo, Uno

\* One instance more, or one waiter less: the counter still counts the waiters.
LEMMA IncrementarBloqueados ==
  ASSUME TypeColas, NEW s \in Recursos, Cuadra(s), NEW r \in Recursos, NEW asig,
         instancias[r] < 0 => con_cola # r, pcp_pc # "pide",
         IncrementarRecurso(r, asig), con_cola' = con_cola, pcp_pc' # "pide"
  PROVE  Cuadra(s)'
  <1>1. /\ instancias[s] \in Int /\ Len(colas[s]) \in Nat
        /\ instancias'[s] = IF s = r THEN instancias[s] + 1 ELSE instancias[s]
    BY Largos, NombresDeColas DEF TypeColas, IncrementarRecurso
  <1>2. CASE instancias[r] < 0 /\ s = r
    <2>1. Despertar(r, asig)
      BY <1>1, <1>2 DEF IncrementarRecurso
    <2>2. colas[r] # <<>> /\ colas'[r] = Tail(colas[r])
      BY <2>1, NombresDeColas DEF Despertar, TypeColas
    <2>3. Len(colas'[s]) = Len(colas[s]) - 1
      BY <1>2, <2>2, Largos, NombresDeColas
    <2>a. con_cola # s /\ con_cola' # s /\ Len(colas'[s]) \in Int
      BY <1>1, <1>2, <2>3
    <2>4. Bloqueados(s) = Len(colas[s]) /\ Bloqueados(s)' = Len(colas'[s])
      BY <1>1, <2>a DEF Bloqueados, Uno
    <2>5. instancias[s] + Len(colas[s]) = 0 /\ instancias'[s] = instancias[s] + 1
      BY <1>1, <1>2, <2>4 DEF Cuadra, Pidiendo, Uno
    <2>6. Pidiendo(s)' = 0
      BY DEF Pidiendo, Uno
    <2>7. ASSUME NEW a \in Int, NEW b \in Nat, a < 0, a + b = 0
          PROVE  /\ a + 1 + (b - 1) + 0 = 0
                 /\ a + 1 >= 0 => b - 1 = 0
      BY <2>7
    <2>8. /\ instancias'[s] + Bloqueados(s)' + Pidiendo(s)' = 0
          /\ instancias'[s] >= 0 => Bloqueados(s)' = 0
      BY <1>1, <1>2, <2>3, <2>4, <2>5, <2>6, <2>7
    <2> QED  BY <2>8 DEF Cuadra
  <1>3. CASE instancias[r] < 0 /\ s # r
    <2>1. Despertar(r, asig)
      BY <1>3, <1>1 DEF IncrementarRecurso, TypeColas
    <2>2. colas'[s] = colas[s]
      BY <1>3, <2>1, NombresDeColas DEF Despertar, TypeColas
    <2> QED  BY <1>1, <1>3, <2>2, CuadraIgual
  <1>4. CASE ~(instancias[r] < 0)
    <2>1. colas'[s] = colas[s]
      BY <1>4 DEF IncrementarRecurso, TypeColas
    <2>2. CASE s = r
      <3>1. /\ Bloqueados(s) = 0 /\ Bloqueados(s)' = Bloqueados(s)
        BY <1>1, <1>4, <2>1, <2>2 DEF Cuadra, Bloqueados, TypeColas
      <3> QED  BY <1>1, <1>4, <2>2, <3>1 DEF Cuadra
    <2>3. CASE s # r
      BY <1>1, <2>1, <2>3, CuadraIgual
    <2> QED  BY <2>2, <2>3
  <1> QED  BY <1>2, <1>3, <1>4

\* BloqueadosContados: until an interface leaves, a negative counter keeps counting
\* the processes blocked.
LEMMA BloqueadosPaso ==
  ASSUME ControlInv, TypeColas, TypeHilos, ManoInv, BloqueadosContados, [Next]_vars
  PROVE  BloqueadosContados'
  <1> USE DEF recs, plp, pcp, io, grado, consola, cpu
  <1> SUFFICES ASSUME Completas', NEW s \in Recursos PROVE Cuadra(s)'
    BY DEF BloqueadosContados, Cuadra
  <1>a. Cuadra(s) /\ s \in Cola
    BY CompletasAntes, NombresDeColas DEF BloqueadosContados, Cuadra
  <1>b. instancias[s] \in Int /\ Len(colas[s]) \in Nat /\ s # "-"
        /\ s \notin {"NEW", "READY", "READY_PLUS", "EXIT"} /\ s \notin Interfaces
    BY Largos, NombresDeColas DEF TypeColas
  <1>c. con_cola \in Cola \cup {"-"}
    BY DEF TypeHilos
  <1> USE <1>a, <1>b
  <1>1. CASE PlpSaca
    BY <1>1, CuadraIgual DEF PlpSaca, TypeColas
  <1>2. CASE PlpEncola
    BY <1>2, CuadraIgual DEF PlpEncola, TypeColas
  <1>3. CASE PcpDespacha
    BY <1>3, CuadraIgual DEF PcpDespacha, TypeColas, ColaSiguiente
  <1>4. CASE PcpFinQuantum
    BY <1>4, CuadraIgual DEF PcpFinQuantum, Maneja, Encolar, TypeColas
  <1>5. CASE PcpLibera
    <2>1. con_cola = "-"
      BY <1>5, ManejoLibre DEF PcpLibera
    <2>a. PICK r \in Recursos : \E asig : IncrementarRecurso(r, asig)
      BY <1>5, PrimeraDeLema DEF PcpLibera, LiberarUna
    <2>2. PICK asig : IncrementarRecurso(r, asig)
      BY <2>a
    <2>3. con_cola # r
      BY <2>1, NombresDeColas
    <2> QED  BY <1>5, <2>2, <2>3, IncrementarBloqueados DEF PcpLibera
  <1>6. CASE PcpTermina
    BY <1>6, CuadraIgual DEF PcpTermina, TypeColas
  <1>7. ASSUME NEW r \in Recursos, PcpWaitDescuenta(r) PROVE Cuadra(s)'
    <2>1. /\ instancias'[s] = IF s = r THEN instancias[s] - 1 ELSE instancias[s]
          /\ colas' = colas /\ con_cola' = con_cola /\ pcp_motivo' = pcp_motivo
          /\ pcp_pc = "espera_desalojo" /\ pcp_pc' = "pide"
          /\ pcp_motivo = <<"WAIT_RECURSO", r>>
      BY <1>7 DEF PcpWaitDescuenta, Maneja, TypeColas
    <2>2. Bloqueados(s)' = Bloqueados(s) /\ Pidiendo(s) = 0 /\ Bloqueados(s) \in Int
      <3>1. Bloqueados(s) \in Int
        BY DEF Bloqueados, Uno
      <3>2. Bloqueados(s)' = Bloqueados(s)
        BY <2>1 DEF Bloqueados
      <3> QED  BY <2>1, <3>1, <3>2 DEF Pidiendo, Uno
    <2>3. Pidiendo(s)' = IF s = r THEN 1 ELSE 0
      BY <2>1 DEF Pidiendo, Uno
    <2>4. CASE s = r
      <3>1. ASSUME NEW a \in Int, NEW b \in Int,
                   a < 0 => a + b + 0 = 0, a >= 0 => b = 0
            PROVE  /\ a - 1 < 0 => (a - 1) + b + 1 = 0
                   /\ a - 1 >= 0 => b = 0
        BY <3>1
      <3>2. /\ instancias[s] < 0 => instancias[s] + Bloqueados(s) + 0 = 0
            /\ instancias[s] >= 0 => Bloqueados(s) = 0
        BY <2>2 DEF Cuadra
      <3>3. /\ instancias[s] - 1 < 0 => (instancias[s] - 1) + Bloqueados(s) + 1 = 0
            /\ instancias[s] - 1 >= 0 => Bloqueados(s) = 0
        BY <2>2, <3>1, <3>2
      <3> QED  BY <2>1, <2>2, <2>3, <2>4, <3>3 DEF Cuadra
    <2>5. CASE s # r
      <3>1. pcp_motivo # <<"WAIT_RECURSO", s>>
        BY <2>1, <2>5
      <3> QED  BY <2>1, <2>5, <3>1, CuadraIgual
    <2> QED  BY <2>4, <2>5
  <1>8. ASSUME NEW r \in Recursos, PcpWaitAsigna(r) PROVE Cuadra(s)'
    <2>1. /\ instancias'[s] = instancias[s] /\ colas'[s] = colas[s] /\ con_cola' = con_cola
          /\ pcp_pc' = "espera_cpu" /\ pcp_motivo = <<"WAIT_RECURSO", r>> /\ instancias[r] >= 0
      BY <1>8 DEF PcpWaitAsigna, Pide, DevolverEjecucion
    <2>2. CASE s = r
      <3>1. Bloqueados(s)' = Bloqueados(s) /\ instancias'[s] >= 0
        BY <2>1, <2>2 DEF Bloqueados
      <3> QED  BY <2>1, <2>2, <3>1 DEF Cuadra
    <2>3. CASE s # r
      BY <2>1, <2>3, CuadraIgual
    <2> QED  BY <2>2, <2>3
  <1>9. ASSUME NEW r \in Recursos, PcpWaitBloquea(r) PROVE Cuadra(s)'
    <2>1. mano["pcp"] \in Pid
      BY <1>9, NullNoEsPid DEF PcpWaitBloquea, Pide, ManoInv, TypeColas, PidONada, Hilo, Fijos
    <2>2. con_cola # s /\ con_cola' = con_cola
      BY <1>9, ManejoLibre DEF PcpWaitBloquea, Encolar, Pide
    <2>3. /\ instancias'[s] = instancias[s] /\ instancias[r] < 0
          /\ pcp_pc = "pide" /\ pcp_pc' = "espera_ready" /\ pcp_motivo = <<"WAIT_RECURSO", r>>
          /\ colas' = [colas EXCEPT ![r] = squeue_push(@, mano["pcp"])]
      BY <1>9 DEF PcpWaitBloquea, Encolar, Pide
    <2>4. CASE s = r
      <3>1. colas'[s] = squeue_push(colas[s], mano["pcp"])
        BY <2>3, <2>4 DEF TypeColas
      <3>2. Len(colas'[s]) = Len(colas[s]) + 1
        BY <2>1, <3>1, Largos
      <3>3. Pidiendo(s) = 1 /\ Pidiendo(s)' = 0
        BY <2>3, <2>4 DEF Pidiendo, Uno
      <3>4. Bloqueados(s) = Len(colas[s]) /\ Bloqueados(s)' = Len(colas[s]) + 1
        BY <2>2, <3>2 DEF Bloqueados, Uno
      <3>5. instancias[s] + Len(colas[s]) + 1 = 0
        BY <2>3, <2>4, <3>3, <3>4 DEF Cuadra
      <3>6. instancias'[s] < 0 /\ instancias'[s] + Bloqueados(s)' + Pidiendo(s)' = 0
        BY <2>3, <2>4, <3>3, <3>4, <3>5
      <3>7. instancias'[s] \in Int
        BY <2>3
      <3> QED  BY <3>6, <3>7 DEF Cuadra
    <2>5. CASE s # r
      <3>1. colas'[s] = colas[s]
        BY <2>3, <2>5 DEF TypeColas
      <3> QED  BY <2>2, <2>3, <2>5, <3>1, CuadraIgual
    <2> QED  BY <2>4, <2>5
  <1>10. ASSUME NEW r \in Recursos, PcpSignal(r) PROVE Cuadra(s)'
    <2>1. IncrementarRecurso(r, Quitar(asignaciones, [pid |-> mano["pcp"], recurso |-> r]))
          /\ con_cola' = con_cola /\ pcp_pc = "espera_desalojo" /\ pcp_pc' = "espera_cpu"
      BY <1>10 DEF PcpSignal, DevolverEjecucion, Maneja
    <2>2. con_cola # r
      BY <1>10, ManejoLibre, NombresDeColas DEF PcpSignal, Maneja
    <2> QED  BY <2>1, <2>2, IncrementarBloqueados
  <1>11. ASSUME NEW i \in Interfaces, PcpIo(i) PROVE Cuadra(s)'
    BY <1>11, CuadraIgual DEF PcpIo, Maneja, Encolar, TypeColas
  <1>12. ASSUME NEW i \in Interfaces, IoDesbloquea(i) PROVE Cuadra(s)'
    BY <1>12, CuadraIgual DEF IoDesbloquea, ColaDesbloqueados, TypeColas
  <1>13. CASE ConIniciar
    BY <1>13, CuadraIgual DEF ConIniciar, TypeColas
  <1>14. CASE ConInterrumpe \/ ConEliminaNew \/ ConNoEncuentra
    <2>1. con_cola = "-" /\ con_cola' = "-"
      BY <1>14 DEF ConInterrumpe, ConEliminaNew, ConNoEncuentra, FinDelComando, ControlInv,
         ConsolaInv
    <2>2. colas'[s] = colas[s]
      BY <1>14 DEF ConInterrumpe, ConEliminaNew, ConNoEncuentra, TypeColas
    <2> QED  BY <1>14, <2>1, <2>2, CuadraIgual DEF ConInterrumpe, ConEliminaNew, ConNoEncuentra
  <1>15. CASE ConTermina
    <2>1. con_cola' = "-" /\ colas'[s] = colas[s] /\ pcp' = pcp
          /\ instancias'[s] = IF s = con_cola THEN instancias[s] + 1 ELSE instancias[s]
      BY <1>15 DEF ConTermina, FinDelComando, DescontarEspera, TypeColas
    <2>2. CASE con_cola = s
      <3>1. instancias[s] < 0
        BY <1>15, <2>2 DEF ConTermina
      <3>2. pcp_pc # "pide"
        BY <1>15, <2>2, ManejoLibre DEF ConTermina
      <3>a. Bloqueados(s) = Len(colas[s]) + 1
        BY <2>2 DEF Bloqueados, Uno
      <3>b. Bloqueados(s)' = Len(colas[s])
        <4>1. con_cola' # s /\ Len(colas'[s]) = Len(colas[s]) /\ Len(colas[s]) \in Int
          BY <2>1
        <4> QED  BY <4>1 DEF Bloqueados, Uno
      <3>c. Pidiendo(s) = 0 /\ Pidiendo(s)' = 0
        BY <2>1, <3>2 DEF Pidiendo, Uno
      <3>3. Bloqueados(s) = Len(colas[s]) + 1 /\ Bloqueados(s)' = Len(colas[s])
            /\ Pidiendo(s) = 0 /\ Pidiendo(s)' = 0
        BY <3>a, <3>b, <3>c
      <3>4. instancias[s] + Len(colas[s]) + 1 = 0
        <4>1. instancias[s] + (Len(colas[s]) + 1) + 0 = 0
          BY <3>1, <3>3 DEF Cuadra
        <4>2. ASSUME NEW a \in Int, NEW b \in Nat, a + (b + 1) + 0 = 0 PROVE a + b + 1 = 0
          BY <4>2
        <4>3. instancias[s] \in Int /\ Len(colas[s]) \in Nat
          OBVIOUS
        <4> HIDE <1>a, <1>b
        <4> QED  BY <4>1, <4>2, <4>3
      <3>5. ASSUME NEW a \in Int, NEW b \in Nat, a < 0, a + b + 1 = 0
            PROVE  /\ a + 1 < 0 => a + 1 + b + 0 = 0
                   /\ a + 1 >= 0 => b = 0
        BY <3>5
      <3>6. /\ instancias'[s] < 0 => instancias'[s] + Bloqueados(s)' + Pidiendo(s)' = 0
            /\ instancias'[s] >= 0 => Bloqueados(s)' = 0
        BY <2>1, <2>2, <3>1, <3>3, <3>4, <3>5
      <3> QED  BY <3>6 DEF Cuadra
    <2>3. CASE con_cola # s
      BY <2>1, <2>3, CuadraIgual
    <2> QED  BY <2>2, <2>3
  <1>16. ASSUME NEW c \in Cola \ {"NEW", "EXIT"}, ConElimina(c) PROVE Cuadra(s)'
    <2>1. /\ con_cola = "-" /\ con_cola' = c /\ instancias' = instancias /\ pcp' = pcp
          /\ Contiene(colas[c], con_pid)
          /\ colas' = [colas EXCEPT ![c] = Quitar(@, con_pid)]
      BY <1>16 DEF ConElimina, ControlInv, ConsolaInv
    <2>2. CASE s = c
      <3>1. colas'[s] = Quitar(colas[s], con_pid)
        BY <2>1, <2>2 DEF TypeColas
      <3>2. Len(colas'[s]) = Len(colas[s]) - 1
        BY <2>1, <2>2, <3>1, Largos
      <3>a. Bloqueados(s) = Len(colas[s])
        <4>1. con_cola # s /\ Len(colas[s]) \in Int
          BY <2>1
        <4> QED  BY <4>1 DEF Bloqueados, Uno
      <3>b. Bloqueados(s)' = Len(colas[s])
        BY <2>1, <2>2, <3>2 DEF Bloqueados, Uno
      <3>3. Bloqueados(s) = Len(colas[s]) /\ Bloqueados(s)' = Len(colas[s])
        BY <3>a, <3>b
      <3> QED  BY <2>1, <3>3 DEF Cuadra, Pidiendo, Uno
    <2>3. CASE s # c
      <3>1. colas'[s] = colas[s]
        BY <2>1, <2>3 DEF TypeColas
      <3> QED  BY <2>1, <2>3, <3>1, CuadraIgual
    <2> QED  BY <2>2, <2>3
  <1>17. CASE ConLibera
    <2>a. PICK r \in Recursos : (\E asig : IncrementarRecurso(r, asig)) /\ ~Recierra(r)
      BY <1>17, PrimeraDeLema DEF ConLibera, LiberarUna
    <2>1. PICK asig : IncrementarRecurso(r, asig)
      BY <2>a
    <2>2. pcp_pc # "pide"
      BY <1>17, ManejoLibre DEF ConLibera
    <2> QED  BY <1>17, <2>a, <2>1, <2>2, IncrementarBloqueados DEF ConLibera, Recierra
  <1>18. CASE \/ PlpVeNew \/ PlpTomaLugar \/ PlpDescarta \/ PlpAvisa \/ PcpVeReady
              \/ PcpConfirma \/ PcpRechaza \/ PcpRecibe \/ PcpElimina
              \/ \E i \in Interfaces : IoToma(i)
              \/ \E i \in Interfaces : IoDescarta(i)
              \/ \E i \in Interfaces : IoAvisa(i)
              \/ \E n \in 0..MaxGrado : ConGrado(n)
              \/ ConDetener \/ \E p \in Pid : ConFinalizar(p)
              \/ ConReanudar \/ ConTomaPermiso \/ ConPausada \/ ConSeTraba \/ Muere
              \/ UNCHANGED vars
    <2>1. /\ instancias'[s] = instancias[s] /\ colas'[s] = colas[s] /\ con_cola' = con_cola
          /\ pcp_pc # pcp_pc' \/ pcp_motivo # pcp_motivo'
                => pcp_pc # "pide" /\ pcp_pc' # "pide"
      BY <1>18 DEF PlpVeNew, PlpTomaLugar, PlpDescarta, PlpAvisa, PcpVeReady, PcpConfirma,
         PcpRechaza, PcpRecibe, PcpElimina, IoToma, IoDescarta, IoAvisa,
         ConGrado, ConDetener, ConFinalizar, ConReanudar, ConTomaPermiso, ConPausada, ConSeTraba,
         Maneja, Muere, vars
    <2> QED  BY <2>1, CuadraIgual
  <1>19. ASSUME NEW i \in Interfaces, IoAvanza(i) PROVE Cuadra(s)'
    BY <1>19, CompletasAntes, CuadraIgual
  <1> QED  BY Pasos, CompletasAntes, <1>1, <1>2, <1>3, <1>4, <1>5, <1>6, <1>7, <1>8, <1>9, <1>10,
     <1>11, <1>12, <1>13, <1>14, <1>15, <1>16, <1>17, <1>18, <1>19

-----------------------------------------------------------------------------
\* Layer 2 holds at the start...
LEMMA DatosInit == Init => DatosInv
  <1> SUFFICES ASSUME Init PROVE DatosInv
    OBVIOUS
  <1> USE ConstantesOK, NombresDeColas
  <1>1. TypeColas
    <2>1. colas \in [Cola -> Seq(Pid)] /\ asignaciones \in Seq(Asignacion)
      BY EmptySeq DEF Init
    <2> QED  BY <2>1 DEF Init, TypeColas, PidONada, Asignacion
  <1>2. TypeContadores
    BY PermisoDef DEF Init, TypeContadores
  <1>3. TypeHilos
    BY DEF Init, TypeHilos, PidONada, Motivo, SinMotivo, Atiende
  <1>4. ManoInv
    BY DEF Init, ManoInv, Hilo, Fijos
  <1>5. BloqueadosContados
    <2> SUFFICES ASSUME NEW r \in Recursos
                 PROVE  instancias[r] >= 0 /\ Bloqueados(r) = 0
      BY DEF BloqueadosContados, Init
    <2>1. colas[r] = <<>> /\ con_cola # r
      BY DEF Init
    <2> QED  BY <2>1, EmptySeq DEF Init, Bloqueados, Uno
  <1>6. ManoIoInv
    BY DEF Init, ManoIoInv, EnMano
  <1> QED  BY <1>1, <1>2, <1>3, <1>4, <1>5, <1>6 DEF DatosInv, TypeOK

\* ... and every step keeps it, given layer 1 before and after.
LEMMA DatosPaso == ControlInv /\ ControlInv' /\ DatosInv /\ [Next]_vars => DatosInv'
  BY ColasPaso, ContadoresPaso, HilosPaso, ManoPaso, ManoIoPaso, BloqueadosPaso
     DEF DatosInv, TypeOK

\* Layer 2, for every configuration and algorithm.
THEOREM DatosSiempre == Spec => []DatosInv
  BY ControlSiempre, DatosInit, DatosPaso, PTL DEF Spec

\* Every variable keeps its type: no semaphore or counter goes negative, no queue
\* ever holds anything but processes, and every thread is at one of its points.
THEOREM TiposSiempre == Spec => []TypeOK
  <1>1. DatosInv => TypeOK
    BY DEF DatosInv
  <1> QED  BY <1>1, DatosSiempre, PTL

\* Until an interface leaves, the counter of a resource, when negative, is minus the
\* number of processes in its queue or on their way to or from it: incrementar_recurso
\* never pops an empty queue and the assertion of finalizar_proceso never fails.
THEOREM BloqueadosSiempre == Spec => []BloqueadosContados
  <1>1. DatosInv => BloqueadosContados
    BY DEF DatosInv
  <1> QED  BY <1>1, DatosSiempre, PTL

-----------------------------------------------------------------------------
\* With the planning paused and the console waiting for a command, every
\* permission is the console's: no thread is between taking one and giving it back.
LEMMA TodoTomado ==
  ASSUME ControlInv, planificacion_pausada, con_pc = "libre"
  PROVE  /\ \A x \in Permiso : permisos[x] = 0
         /\ plp_pc # "carga" /\ pcp_pc \notin {"saca", "pide", "elimina"}
  BY PermisoDef DEF ControlInv, ConsolaInv, PermisosInv

\* What can still happen moves nothing, or is an interface leaving.
LEMMA CongeladoPaso ==
  ASSUME ControlInv, TypeColas, ManoIoInv, planificacion_pausada, con_pc = "libre", [Next]_vars
  PROVE  Congelado
  <1> USE DEF recs, plp, pcp, io, grado, consola, cpu
  <1>a. /\ plp_pc # "carga" /\ pcp_pc \notin {"saca", "pide", "elimina"}
        /\ permisos["entrada_a_ready"] = 0 /\ permisos["entrada_a_exec"] = 0
        /\ permisos["manejo_desalojo_cpu"] = 0
    BY TodoTomado, PermisoDef
  <1>b. ASSUME UNCHANGED <<colas, mano>> PROVE Congelado
    BY <1>b DEF Congelado, Quieta
  <1>1. CASE PlpSaca \/ PlpEncola
    BY <1>1, <1>a DEF PlpSaca, PlpEncola
  <1>2. CASE PcpDespacha \/ PcpLibera \/ PcpTermina
    BY <1>2, <1>a DEF PcpDespacha, PcpLibera, PcpTermina
  <1>3. CASE PcpRecibe
    <2>1. /\ colas' = colas /\ mano'["cpu"] = NULL /\ mano'["plp"] = mano["plp"]
          /\ \A i \in Interfaces : mano'[i] = mano[i]
      BY <1>3, NombresDeColas DEF PcpRecibe, TypeColas, Hilo, Fijos
    <2> QED  BY <2>1 DEF Congelado, Quieta
  <1>4. CASE PcpFinQuantum \/ PcpElimina
    BY <1>4, <1>a DEF PcpFinQuantum, PcpElimina, Maneja
  <1>5. ASSUME NEW r \in Recursos,
               PcpWaitDescuenta(r) \/ PcpWaitAsigna(r) \/ PcpWaitBloquea(r) \/ PcpSignal(r)
        PROVE  Congelado
    BY <1>5, <1>a DEF PcpWaitDescuenta, PcpWaitAsigna, PcpWaitBloquea, PcpSignal, Pide, Maneja
  <1>6. ASSUME NEW i \in Interfaces, PcpIo(i) PROVE Congelado
    BY <1>6, <1>a DEF PcpIo, Maneja
  <1>7. ASSUME NEW i \in Interfaces, IoDesbloquea(i) PROVE Congelado
    BY <1>7, <1>a DEF IoDesbloquea
  <1>8. CASE ConIniciar
    <2>1. mano' = mano /\ \A c \in Cola \ {"NEW"} : colas'[c] = colas[c]
      BY <1>8, NombresDeColas DEF ConIniciar, TypeColas
    <2> QED  BY <2>1, NombresDeColas DEF Congelado, Quieta
  <1>9. CASE ConReanudar
    BY <1>9, <1>b DEF ConReanudar
  <1>10. ASSUME NEW i \in Interfaces, IoSacaBloqueado(i) PROVE Congelado
    <2>1. /\ io_pc[i] \notin Atiende
          /\ \A c \in Cola : c # i => colas'[c] = colas[c]
          /\ \A h \in Hilo : h # i => mano'[h] = mano[h]
      BY <1>10 DEF IoSacaBloqueado, Atiende, TypeColas
    <2> QED  BY <2>1, NombresDeColas DEF Congelado, Quieta, Completas, Fijos
  <1>11. ASSUME NEW i \in Interfaces, NEW r \in Recursos, IoDespierta(i, r) PROVE Congelado
    <2>1. /\ io_pc[i] \notin Atiende /\ mano' = mano
          /\ colas[r] # <<>>
          /\ colas' = [colas EXCEPT ![r] = Tail(@), !["READY"] = Append(@, Head(colas[r]))]
      BY <1>11 DEF IoDespierta, Despertar, squeue_push, Atiende
    <2>2. Head(colas[r]) \in Pid
      BY <2>1, PopLema, NombresDeColas DEF TypeColas
    <2>3. /\ colas'["READY"] = Append(colas["READY"], Head(colas[r]))
          /\ \A c \in Cola : c # r /\ c # "READY" => colas'[c] = colas[c]
      BY <2>1, NombresDeColas DEF TypeColas
    <2> QED  BY <2>1, <2>2, <2>3, NombresDeColas DEF Congelado, Quieta, Completas
  <1>12. ASSUME NEW i \in Interfaces, IoElimina(i) PROVE Congelado
    <2>1. /\ io_pc[i] \notin Atiende /\ mano[i] \in Pid
          /\ \A h \in Hilo : h # i => mano'[h] = mano[h]
      BY <1>12, NombresDeColas DEF IoElimina, Atiende, ManoIoInv, EnMano, TypeColas, PidONada
    <2>2. /\ colas'["EXIT"] = Append(colas["EXIT"], mano[i])
          /\ \A c \in Cola : c # "EXIT" => colas'[c] = colas[c]
      BY <1>12, NombresDeColas DEF IoElimina, squeue_push, TypeColas
    <2> QED  BY <2>1, <2>2, NombresDeColas DEF Congelado, Quieta, Completas, Fijos
  <1>13. ASSUME NEW i \in Interfaces, IoAvanza(i) PROVE Congelado
    BY <1>13, <1>b, IoAvanzaDef
  <1>14. CASE \/ PlpVeNew \/ PlpTomaLugar \/ PlpDescarta \/ PlpAvisa \/ PcpVeReady
              \/ PcpConfirma \/ PcpRechaza \/ \E i \in Interfaces : IoToma(i)
              \/ \E i \in Interfaces : IoDescarta(i)
              \/ \E i \in Interfaces : IoAvisa(i)
              \/ \E i \in Interfaces, r \in Recursos : IoGuarda(i, r)
              \/ \E n \in 0..MaxGrado : ConGrado(n)
              \/ ConDetener \/ \E p \in Pid : ConFinalizar(p)
              \/ ConTomaPermiso \/ ConPausada \/ Muere \/ UNCHANGED vars
    BY <1>14, <1>b DEF PlpVeNew, PlpTomaLugar, PlpDescarta, PlpAvisa, PcpVeReady, PcpConfirma,
       PcpRechaza, IoToma, IoDescarta, IoAvisa, IoGuarda, ConGrado, ConDetener, ConFinalizar,
       ConTomaPermiso, ConPausada, Muere, vars
  <1>15. CASE \/ ConInterrumpe \/ ConEliminaNew
              \/ ConNoEncuentra \/ ConTermina \/ \E c \in Cola \ {"NEW", "EXIT"} : ConElimina(c)
              \/ ConLibera \/ ConSeTraba
    BY <1>15 DEF ConInterrumpe, ConEliminaNew, ConNoEncuentra, ConTermina, ConElimina, ConLibera,
       ConSeTraba
  <1> QED  BY Pasos, <1>1, <1>2, <1>3, <1>4, <1>5, <1>6, <1>7, <1>8, <1>9, <1>10, <1>11, <1>12,
     <1>13, <1>14, <1>15

\* DETENER_PLANIFICACION freezes the system, under every algorithm, until it is
\* resumed or a process is killed: while every interface attends, no process changes
\* queue but for new ones arriving to NEW and the one executing coming back to the
\* PCP's hand; an interface that leaves sends its processes to EXIT and who waited for
\* their resources to READY, and nothing else.
THEOREM PausaCongelaSiempre == Spec => PausaCongela
  <1> DEFINE Congela == (planificacion_pausada /\ con_pc = "libre" /\ planificacion_pausada')
                            => Congelado
  <1>1. ControlInv /\ DatosInv /\ [Next]_vars => [Congela]_vars
    BY CongeladoPaso DEF DatosInv, TypeOK
  <1>2. Spec => [][Congela]_vars
    BY <1>1, ControlSiempre, DatosSiempre, PTL DEF Spec
  <1> QED  BY <1>2 DEF PausaCongela

-----------------------------------------------------------------------------
(* Layer 3, place.  A move takes one process from one place to another;     *)
(* each lemma below is one kind of move.                                    *)

\* What SinDuplicados and SinPerdidos say, in terms of the sets of elements.
LEMMA LugaresDef ==
    LugaresInv <=>
      /\ \A c \in Cola : Range(colas[c]) \subseteq Nacidos /\ IsInjective(colas[c])
      /\ \A h \in Hilo : mano[h] \in Nacidos \cup {NULL}
      /\ \A c, d \in Cola : c # d => Range(colas[c]) \cap Range(colas[d]) = {}
      /\ \A h, k \in Hilo : mano[h] = mano[k] /\ mano[h] # NULL => h = k
      /\ \A h \in Hilo, c \in Cola : mano[h] \notin Range(colas[c])
      /\ \A p \in Nacidos : \/ \E c \in Cola : p \in Range(colas[c])
                            \/ \E h \in Hilo : mano[h] = p
  BY DEF LugaresInv, UnSoloLugar, SinDuplicados, SinPerdidos, Contiene, Nacidos

\* No process has the pid NULL.
LEMMA NullNoNace == NULL \notin Nacidos
  BY DEF NULL, Nacidos

\* Pushing a process on a queue that does not hold it.
LEMMA PushNuevo ==
  ASSUME NEW q \in Seq(Pid), NEW x \in Pid, x \notin Range(q), IsInjective(q)
  PROVE  /\ Range(squeue_push(q, x)) = Range(q) \cup {x}
         /\ IsInjective(squeue_push(q, x))
  BY PushLema

\* A thread pushes the PCB it holds.
LEMMA DeManoACola ==
  ASSUME TypeColas, LugaresInv, NEW h \in Hilo, NEW c \in Cola, mano[h] # NULL,
         colas' = [colas EXCEPT ![c] = squeue_push(colas[c], mano[h])],
         mano' = [mano EXCEPT ![h] = NULL], ultimo_pid' = ultimo_pid
  PROVE  LugaresInv'
  <1>1. colas[c] \in Seq(Pid) /\ mano[h] \in Pid
    BY DEF TypeColas, PidONada
  <1>2. /\ Range(colas'[c]) = Range(colas[c]) \cup {mano[h]} /\ IsInjective(colas'[c])
        /\ \A d \in Cola : d # c => colas'[d] = colas[d]
    <2>1. mano[h] \notin Range(colas[c]) /\ IsInjective(colas[c])
      BY LugaresDef
    <2>2. /\ Range(squeue_push(colas[c], mano[h])) = Range(colas[c]) \cup {mano[h]}
          /\ IsInjective(squeue_push(colas[c], mano[h]))
      BY <1>1, <2>1, PushNuevo
    <2> QED  BY <2>2 DEF TypeColas
  <1>3. mano'[h] = NULL /\ (\A k \in Hilo : k # h => mano'[k] = mano[k]) /\ Nacidos' = Nacidos
    BY DEF TypeColas, Nacidos
  <1>4. \A d \in Cola : Range(colas'[d]) \subseteq Nacidos /\ IsInjective(colas'[d])
    BY <1>2, LugaresDef
  <1>5. \A k \in Hilo : mano'[k] \in Nacidos \cup {NULL}
    BY <1>3, LugaresDef
  <1>6. \A d, e \in Cola : d # e => Range(colas'[d]) \cap Range(colas'[e]) = {}
    BY <1>2, LugaresDef
  <1>7. \A j, k \in Hilo : mano'[j] = mano'[k] /\ mano'[j] # NULL => j = k
    BY <1>3, LugaresDef
  <1>8. \A k \in Hilo, d \in Cola : mano'[k] \notin Range(colas'[d])
    BY <1>2, <1>3, <1>4, LugaresDef, NullNoNace
  <1>9. \A p \in Nacidos : \/ \E d \in Cola : p \in Range(colas'[d])
                           \/ \E k \in Hilo : mano'[k] = p
    <2> SUFFICES ASSUME NEW p \in Nacidos
                 PROVE  \/ \E d \in Cola : p \in Range(colas'[d])
                        \/ \E k \in Hilo : mano'[k] = p
      OBVIOUS
    <2>1. CASE \E d \in Cola : p \in Range(colas[d])
      BY <2>1, <1>2
    <2>2. CASE \E k \in Hilo : mano[k] = p
      BY <2>2, <1>2, <1>3
    <2> QED  BY <2>1, <2>2, LugaresDef
  <1> QED
    BY <1>3, <1>4, <1>5, <1>6, <1>7, <1>8, <1>9
       DEF LugaresInv, UnSoloLugar, SinDuplicados, SinPerdidos, Contiene, Nacidos

\* A thread with free hands takes a process out of a queue.
LEMMA DeColaAMano ==
  ASSUME TypeColas, LugaresInv, NEW h \in Hilo, NEW c \in Cola, NEW p, NEW q,
         mano[h] = NULL, p \in Range(colas[c]),
         Range(q) = Range(colas[c]) \ {p}, IsInjective(q),
         colas' = [colas EXCEPT ![c] = q], mano' = [mano EXCEPT ![h] = p],
         ultimo_pid' = ultimo_pid
  PROVE  LugaresInv'
  <1>a. \A x \in Cola : Range(colas[x]) \subseteq Nacidos /\ IsInjective(colas[x])
    BY LugaresDef
  <1>b. \A k \in Hilo : mano[k] \in Nacidos \cup {NULL}
    BY LugaresDef
  <1>c. \A x, y \in Cola : x # y => Range(colas[x]) \cap Range(colas[y]) = {}
    BY LugaresDef
  <1>d. \A j, k \in Hilo : mano[j] = mano[k] /\ mano[j] # NULL => j = k
    BY LugaresDef
  <1>e. \A k \in Hilo, x \in Cola : mano[k] \notin Range(colas[x])
    BY LugaresDef
  <1>1. p \in Nacidos /\ p # NULL
    BY LugaresDef, NullNoNace
  <1>2. /\ Range(colas'[c]) = Range(colas[c]) \ {p} /\ IsInjective(colas'[c])
        /\ \A x \in Cola : x # c => colas'[x] = colas[x]
    BY DEF TypeColas
  <1>3. mano'[h] = p /\ (\A k \in Hilo : k # h => mano'[k] = mano[k]) /\ Nacidos' = Nacidos
    BY DEF TypeColas, Nacidos
  <1>4. \A x \in Cola : Range(colas'[x]) \subseteq Nacidos /\ IsInjective(colas'[x])
    BY <1>a, <1>2, <1>3
  <1>5. \A k \in Hilo : mano'[k] \in Nacidos \cup {NULL}
    BY <1>b, <1>1, <1>3
  <1>6. \A x, y \in Cola : x # y => Range(colas'[x]) \cap Range(colas'[y]) = {}
    BY <1>c, <1>2
  <1>7. \A j, k \in Hilo : mano'[j] = mano'[k] /\ mano'[j] # NULL => j = k
    BY <1>d, <1>e, <1>3
  <1>8. \A k \in Hilo, x \in Cola : mano'[k] \notin Range(colas'[x])
    BY <1>c, <1>e, <1>2, <1>3
  <1>9. \A z \in Nacidos : \/ \E x \in Cola : z \in Range(colas'[x])
                           \/ \E k \in Hilo : mano'[k] = z
    <2> SUFFICES ASSUME NEW z \in Nacidos
                 PROVE  \/ \E x \in Cola : z \in Range(colas'[x])
                        \/ \E k \in Hilo : mano'[k] = z
      OBVIOUS
    <2>1. CASE \E x \in Cola : z \in Range(colas[x])
      BY <2>1, <1>1, <1>2, <1>3
    <2>2. CASE \E k \in Hilo : mano[k] = z
      BY <2>2, <1>1, <1>2, <1>3, NullNoNace
    <2> QED  BY <2>1, <2>2, <1>2, LugaresDef
  <1> QED
    BY <1>3, <1>4, <1>5, <1>6, <1>7, <1>8, <1>9
       DEF LugaresInv, UnSoloLugar, SinDuplicados, SinPerdidos, Contiene, Nacidos

\* The PCB goes from one hand to another.
LEMMA DeManoAMano ==
  ASSUME TypeColas, LugaresInv, NEW h \in Hilo, NEW g \in Hilo, h # g, mano[g] = NULL,
         colas' = colas, mano' = [mano EXCEPT ![g] = mano[h], ![h] = NULL],
         ultimo_pid' = ultimo_pid
  PROVE  LugaresInv'
  <1>a. \A x \in Cola : Range(colas[x]) \subseteq Nacidos /\ IsInjective(colas[x])
    BY LugaresDef
  <1>b. \A k \in Hilo : mano[k] \in Nacidos \cup {NULL}
    BY LugaresDef
  <1>c. \A x, y \in Cola : x # y => Range(colas[x]) \cap Range(colas[y]) = {}
    BY LugaresDef
  <1>d. \A j, k \in Hilo : mano[j] = mano[k] /\ mano[j] # NULL => j = k
    BY LugaresDef
  <1>e. \A k \in Hilo, x \in Cola : mano[k] \notin Range(colas[x])
    BY LugaresDef
  <1>1. \A x \in Cola : colas'[x] = colas[x]
    OBVIOUS
  <1>2. mano'[g] = mano[h] /\ mano'[h] = NULL /\ mano[g] = NULL
    BY DEF TypeColas
  <1>3. (\A k \in Hilo : k # g /\ k # h => mano'[k] = mano[k]) /\ Nacidos' = Nacidos
    BY DEF TypeColas, Nacidos
  <1>4. \A x \in Cola : Range(colas'[x]) \subseteq Nacidos /\ IsInjective(colas'[x])
    BY <1>a, <1>1, <1>3
  <1>5. \A k \in Hilo : mano'[k] \in Nacidos \cup {NULL}
    BY <1>b, <1>2, <1>3
  <1>6. \A x, y \in Cola : x # y => Range(colas'[x]) \cap Range(colas'[y]) = {}
    BY <1>c, <1>1
  <1>7. \A j, k \in Hilo : mano'[j] = mano'[k] /\ mano'[j] # NULL => j = k
    BY <1>d, <1>2, <1>3
  <1>8. \A k \in Hilo, x \in Cola : mano'[k] \notin Range(colas'[x])
    BY <1>a, <1>e, <1>1, <1>2, <1>3, NullNoNace
  <1>9. \A z \in Nacidos : \/ \E x \in Cola : z \in Range(colas'[x])
                           \/ \E k \in Hilo : mano'[k] = z
    <2> SUFFICES ASSUME NEW z \in Nacidos
                 PROVE  \/ \E x \in Cola : z \in Range(colas'[x])
                        \/ \E k \in Hilo : mano'[k] = z
      OBVIOUS
    <2>1. CASE \E x \in Cola : z \in Range(colas[x])
      BY <2>1, <1>1, <1>2, <1>3
    <2>2. CASE \E k \in Hilo : mano[k] = z
      BY <2>2, <1>1, <1>2, <1>3, NullNoNace
    <2> QED  BY <2>1, <2>2, <1>2, LugaresDef
  <1> QED
    BY <1>3, <1>4, <1>5, <1>6, <1>7, <1>8, <1>9
       DEF LugaresInv, UnSoloLugar, SinDuplicados, SinPerdidos, Contiene, Nacidos

\* A process leaves a queue for the end of another, in one step.
LEMMA DeColaACola ==
  ASSUME TypeColas, LugaresInv, NEW c \in Cola, NEW d \in Cola, c # d, NEW p, NEW q,
         p \in Range(colas[c]), Range(q) = Range(colas[c]) \ {p}, IsInjective(q),
         colas' = [colas EXCEPT ![c] = q, ![d] = squeue_push(colas[d], p)], mano' = mano,
         ultimo_pid' = ultimo_pid
  PROVE  LugaresInv'
  <1>a. \A x \in Cola : Range(colas[x]) \subseteq Nacidos /\ IsInjective(colas[x])
    BY LugaresDef
  <1>b. \A k \in Hilo : mano[k] \in Nacidos \cup {NULL}
    BY LugaresDef
  <1>c. \A x, y \in Cola : x # y => Range(colas[x]) \cap Range(colas[y]) = {}
    BY LugaresDef
  <1>d. \A j, k \in Hilo : mano[j] = mano[k] /\ mano[j] # NULL => j = k
    BY LugaresDef
  <1>e. \A k \in Hilo, x \in Cola : mano[k] \notin Range(colas[x])
    BY LugaresDef
  <1>0. \A x \in Cola : x # c => p \notin Range(colas[x])
    BY <1>c
  <1>1. p \in Nacidos /\ p \notin Range(colas[d]) /\ p \in Pid /\ \A k \in Hilo : mano[k] # p
    <2>1. Range(colas[c]) \subseteq Pid
      BY RangoSeq DEF TypeColas
    <2> QED  BY <2>1, LugaresDef
  <1>2. /\ Range(colas'[c]) = Range(colas[c]) \ {p} /\ IsInjective(colas'[c])
        /\ Range(colas'[d]) = Range(colas[d]) \cup {p} /\ IsInjective(colas'[d])
        /\ \A x \in Cola : x # c /\ x # d => colas'[x] = colas[x]
    <2>1. colas[d] \in Seq(Pid) /\ IsInjective(colas[d])
      BY LugaresDef DEF TypeColas
    <2>2. /\ Range(squeue_push(colas[d], p)) = Range(colas[d]) \cup {p}
          /\ IsInjective(squeue_push(colas[d], p))
      BY <1>1, <2>1, PushNuevo
    <2> QED  BY <2>2 DEF TypeColas
  <1>3. mano' = mano /\ Nacidos' = Nacidos
    BY DEF Nacidos
  <1>4. \A x \in Cola : Range(colas'[x]) \subseteq Nacidos /\ IsInjective(colas'[x])
    BY <1>a, <1>1, <1>2, <1>3
  <1>5. \A k \in Hilo : mano'[k] \in Nacidos \cup {NULL}
    BY <1>b, <1>3
  <1>6. \A x, y \in Cola : x # y => Range(colas'[x]) \cap Range(colas'[y]) = {}
    <2> SUFFICES ASSUME NEW x \in Cola, NEW y \in Cola, x # y,
                        NEW z, z \in Range(colas'[x]), z \in Range(colas'[y])
                 PROVE  FALSE
      OBVIOUS
    <2>1. CASE z = p
      BY <2>1, <1>0, <1>1, <1>2
    <2>2. CASE z # p
      BY <2>2, <1>c, <1>1, <1>2
    <2> QED  BY <2>1, <2>2
  <1>7. \A j, k \in Hilo : mano'[j] = mano'[k] /\ mano'[j] # NULL => j = k
    BY <1>d, <1>3
  <1>8. \A k \in Hilo, x \in Cola : mano'[k] \notin Range(colas'[x])
    BY <1>e, <1>1, <1>2, <1>3
  <1>9. \A z \in Nacidos : \/ \E x \in Cola : z \in Range(colas'[x])
                           \/ \E k \in Hilo : mano'[k] = z
    <2> SUFFICES ASSUME NEW z \in Nacidos
                 PROVE  \/ \E x \in Cola : z \in Range(colas'[x])
                        \/ \E k \in Hilo : mano'[k] = z
      OBVIOUS
    <2>1. CASE \E x \in Cola : z \in Range(colas[x])
      BY <2>1, <1>1, <1>2, <1>3
    <2>2. CASE \E k \in Hilo : mano[k] = z
      BY <2>2, <1>1, <1>2, <1>3, NullNoNace
    <2> QED  BY <2>1, <2>2, <1>2, LugaresDef
  <1> QED
    BY <1>3, <1>4, <1>5, <1>6, <1>7, <1>8, <1>9
       DEF LugaresInv, UnSoloLugar, SinDuplicados, SinPerdidos, Contiene, Nacidos

\* The same, while a PCB goes from one hand to another.
LEMMA DeColaAColaYDeManoAMano ==
  ASSUME TypeColas, LugaresInv, NEW c \in Cola, NEW d \in Cola, c # d, NEW p, NEW q,
         p \in Range(colas[c]), Range(q) = Range(colas[c]) \ {p}, IsInjective(q),
         NEW h \in Hilo, NEW g \in Hilo, h # g, mano[g] = NULL,
         colas' = [colas EXCEPT ![c] = q, ![d] = squeue_push(colas[d], p)],
         mano' = [mano EXCEPT ![g] = mano[h], ![h] = NULL],
         ultimo_pid' = ultimo_pid
  PROVE  LugaresInv'
  <1>a. \A x \in Cola : Range(colas[x]) \subseteq Nacidos /\ IsInjective(colas[x])
    BY LugaresDef
  <1>b. \A k \in Hilo : mano[k] \in Nacidos \cup {NULL}
    BY LugaresDef
  <1>c. \A x, y \in Cola : x # y => Range(colas[x]) \cap Range(colas[y]) = {}
    BY LugaresDef
  <1>d. \A j, k \in Hilo : mano[j] = mano[k] /\ mano[j] # NULL => j = k
    BY LugaresDef
  <1>e. \A k \in Hilo, x \in Cola : mano[k] \notin Range(colas[x])
    BY LugaresDef
  <1>0. \A x \in Cola : x # c => p \notin Range(colas[x])
    BY <1>c
  <1>1. p \in Nacidos /\ p \notin Range(colas[d]) /\ p \in Pid /\ \A k \in Hilo : mano[k] # p
    <2>1. Range(colas[c]) \subseteq Pid
      BY RangoSeq DEF TypeColas
    <2> QED  BY <2>1, LugaresDef
  <1>2. /\ Range(colas'[c]) = Range(colas[c]) \ {p} /\ IsInjective(colas'[c])
        /\ Range(colas'[d]) = Range(colas[d]) \cup {p} /\ IsInjective(colas'[d])
        /\ \A x \in Cola : x # c /\ x # d => colas'[x] = colas[x]
    <2>1. colas[d] \in Seq(Pid) /\ IsInjective(colas[d])
      BY LugaresDef DEF TypeColas
    <2>2. /\ Range(squeue_push(colas[d], p)) = Range(colas[d]) \cup {p}
          /\ IsInjective(squeue_push(colas[d], p))
      BY <1>1, <2>1, PushNuevo
    <2> QED  BY <2>2 DEF TypeColas
  <1>3. /\ mano'[g] = mano[h] /\ mano'[h] = NULL /\ mano[g] = NULL
        /\ \A k \in Hilo : k # g /\ k # h => mano'[k] = mano[k]
        /\ Nacidos' = Nacidos
    BY DEF TypeColas, Nacidos
  <1>4. \A x \in Cola : Range(colas'[x]) \subseteq Nacidos /\ IsInjective(colas'[x])
    BY <1>a, <1>1, <1>2, <1>3
  <1>5. \A k \in Hilo : mano'[k] \in Nacidos \cup {NULL}
    BY <1>b, <1>1, <1>2, <1>3
  <1>6. \A x, y \in Cola : x # y => Range(colas'[x]) \cap Range(colas'[y]) = {}
    <2> SUFFICES ASSUME NEW x \in Cola, NEW y \in Cola, x # y,
                        NEW z, z \in Range(colas'[x]), z \in Range(colas'[y])
                 PROVE  FALSE
      OBVIOUS
    <2>1. CASE z = p
      BY <2>1, <1>0, <1>1, <1>2
    <2>2. CASE z # p
      BY <2>2, <1>c, <1>1, <1>2
    <2> QED  BY <2>1, <2>2
  <1>7. \A j, k \in Hilo : mano'[j] = mano'[k] /\ mano'[j] # NULL => j = k
    BY <1>d, <1>3
  <1>8. \A k \in Hilo, x \in Cola : mano'[k] \notin Range(colas'[x])
    <2>1. \A k \in Hilo, x \in Cola : mano[k] \notin Range(colas'[x])
      BY <1>e, <1>1, <1>2
    <2> QED  BY <1>3, <1>4, <2>1, NullNoNace
  <1>9. \A z \in Nacidos : \/ \E x \in Cola : z \in Range(colas'[x])
                           \/ \E k \in Hilo : mano'[k] = z
    <2> SUFFICES ASSUME NEW z \in Nacidos
                 PROVE  \/ \E x \in Cola : z \in Range(colas'[x])
                        \/ \E k \in Hilo : mano'[k] = z
      OBVIOUS
    <2>1. CASE \E x \in Cola : z \in Range(colas[x])
      BY <2>1, <1>1, <1>2, <1>3
    <2>2. CASE \E k \in Hilo : mano[k] = z
      BY <2>2, <1>1, <1>2, <1>3, NullNoNace
    <2> QED  BY <2>1, <2>2, <1>2, LugaresDef
  <1> QED
    BY <1>3, <1>4, <1>5, <1>6, <1>7, <1>8, <1>9
       DEF LugaresInv, UnSoloLugar, SinDuplicados, SinPerdidos, Contiene, Nacidos

\* A new process enters NEW with a pid nobody has had.
LEMMA Nace ==
  ASSUME TypeColas, LugaresInv, NEW c \in Cola, ultimo_pid \in Pid,
         colas' = [colas EXCEPT ![c] = squeue_push(colas[c], ultimo_pid)], mano' = mano,
         ultimo_pid' = ultimo_pid + 1
  PROVE  LugaresInv'
  <1>a. \A x \in Cola : Range(colas[x]) \subseteq Nacidos /\ IsInjective(colas[x])
    BY LugaresDef
  <1>b. \A k \in Hilo : mano[k] \in Nacidos \cup {NULL}
    BY LugaresDef
  <1>c. \A x, y \in Cola : x # y => Range(colas[x]) \cap Range(colas[y]) = {}
    BY LugaresDef
  <1>d. \A j, k \in Hilo : mano[j] = mano[k] /\ mano[j] # NULL => j = k
    BY LugaresDef
  <1>e. \A k \in Hilo, x \in Cola : mano[k] \notin Range(colas[x])
    BY LugaresDef
  <1>1. ultimo_pid \notin Nacidos /\ ultimo_pid # NULL /\ ultimo_pid \in Nat /\ ultimo_pid >= 1
    BY DEF Nacidos, NULL, Pid
  <1>2. /\ Range(colas'[c]) = Range(colas[c]) \cup {ultimo_pid} /\ IsInjective(colas'[c])
        /\ \A x \in Cola : x # c => colas'[x] = colas[x]
    <2>1. colas[c] \in Seq(Pid) /\ IsInjective(colas[c]) /\ ultimo_pid \notin Range(colas[c])
      BY <1>1, LugaresDef DEF TypeColas
    <2>2. /\ Range(squeue_push(colas[c], ultimo_pid)) = Range(colas[c]) \cup {ultimo_pid}
          /\ IsInjective(squeue_push(colas[c], ultimo_pid))
      BY <2>1, PushNuevo
    <2> QED  BY <2>2 DEF TypeColas
  <1>3. mano' = mano /\ Nacidos' = Nacidos \cup {ultimo_pid}
    <2>1. \A x : x \in 1..ultimo_pid <=> x \in 1..(ultimo_pid - 1) \/ x = ultimo_pid
      BY <1>1
    <2> QED  BY <1>1, <2>1 DEF Nacidos
  <1>4. \A x \in Cola : Range(colas'[x]) \subseteq Nacidos \cup {ultimo_pid} /\ IsInjective(colas'[x])
    BY <1>a, <1>2
  <1>5. \A k \in Hilo : mano'[k] \in Nacidos \cup {ultimo_pid} \cup {NULL}
    BY <1>b, <1>3
  <1>6. \A x, y \in Cola : x # y => Range(colas'[x]) \cap Range(colas'[y]) = {}
    BY <1>a, <1>c, <1>1, <1>2
  <1>7. \A j, k \in Hilo : mano'[j] = mano'[k] /\ mano'[j] # NULL => j = k
    BY <1>d, <1>3
  <1>8. \A k \in Hilo, x \in Cola : mano'[k] \notin Range(colas'[x])
    BY <1>b, <1>e, <1>1, <1>2, <1>3
  <1>9. \A z \in Nacidos \cup {ultimo_pid} : \/ \E x \in Cola : z \in Range(colas'[x])
                                             \/ \E k \in Hilo : mano'[k] = z
    <2> SUFFICES ASSUME NEW z \in Nacidos \cup {ultimo_pid}
                 PROVE  \/ \E x \in Cola : z \in Range(colas'[x])
                        \/ \E k \in Hilo : mano'[k] = z
      OBVIOUS
    <2>1. CASE \E x \in Cola : z \in Range(colas[x])
      BY <2>1, <1>1, <1>2, <1>3
    <2>2. CASE \E k \in Hilo : mano[k] = z
      BY <2>2, <1>1, <1>2, <1>3, NullNoNace
    <2> QED  BY <2>1, <2>2, <1>2, LugaresDef
  <1> QED
    BY <1>3, <1>4, <1>5, <1>6, <1>7, <1>8, <1>9
       DEF LugaresInv, UnSoloLugar, SinDuplicados, SinPerdidos, Contiene, Nacidos

\* The first of a queue, and the one finalizar_proceso found in it.
LEMMA Sacar ==
  ASSUME TypeColas, LugaresInv, NEW c \in Cola
  PROVE  /\ colas[c] # <<>> => /\ squeue_pop(colas[c]) = Tail(colas[c])
                               /\ squeue_peek(colas[c]) = Head(colas[c])
                               /\ Head(colas[c]) \in Range(colas[c])
                               /\ Range(Tail(colas[c])) = Range(colas[c]) \ {Head(colas[c])}
                               /\ IsInjective(Tail(colas[c]))
         /\ \A x : Contiene(colas[c], x) => /\ Range(Quitar(colas[c], x)) = Range(colas[c]) \ {x}
                                            /\ IsInjective(Quitar(colas[c], x))
         /\ squeue_peek(colas[c]) # NULL => colas[c] # <<>>
  <1>1. colas[c] \in Seq(Pid) /\ IsInjective(colas[c])
    BY LugaresDef DEF TypeColas
  <1>2. ASSUME colas[c] # <<>>
        PROVE  /\ squeue_pop(colas[c]) = Tail(colas[c])
               /\ squeue_peek(colas[c]) = Head(colas[c])
               /\ Head(colas[c]) \in Range(colas[c])
               /\ Range(Tail(colas[c])) = Range(colas[c]) \ {Head(colas[c])}
               /\ IsInjective(Tail(colas[c]))
    <2>1. /\ Range(colas[c]) = Range(Tail(colas[c])) \cup {Head(colas[c])}
          /\ IsInjective(Tail(colas[c])) /\ Head(colas[c]) \notin Range(Tail(colas[c]))
      BY <1>1, <1>2, PopLema
    <2>2. squeue_pop(colas[c]) = Tail(colas[c]) /\ squeue_peek(colas[c]) = Head(colas[c])
      BY <1>2 DEF squeue_pop, squeue_peek
    <2> QED  BY <2>1, <2>2
  <1>3. \A x : Contiene(colas[c], x) => /\ Range(Quitar(colas[c], x)) = Range(colas[c]) \ {x}
                                        /\ IsInjective(Quitar(colas[c], x))
    BY <1>1, QuitarLema
  <1>4. squeue_peek(colas[c]) # NULL => colas[c] # <<>>
    BY DEF squeue_peek
  <1> QED  BY <1>2, <1>3, <1>4

\* Waking somebody up moves the first one that waits to READY.
LEMMA DespertarLugares ==
  ASSUME TypeColas, LugaresInv, NEW r \in Recursos, NEW asig, Despertar(r, asig),
         mano' = mano, ultimo_pid' = ultimo_pid
  PROVE  LugaresInv'
  <1>1. colas' = [colas EXCEPT ![r] = Tail(colas[r]),
                               !["READY"] = squeue_push(colas["READY"], Head(colas[r]))]
    BY NombresDeColas DEF Despertar, TypeColas
  <1>2. /\ r \in Cola /\ "READY" \in Cola /\ r # "READY"
        /\ Head(colas[r]) \in Range(colas[r])
        /\ Range(Tail(colas[r])) = Range(colas[r]) \ {Head(colas[r])}
        /\ IsInjective(Tail(colas[r]))
    BY Sacar, NombresDeColas DEF Despertar
  <1> QED  BY <1>1, <1>2, DeColaACola

\* incrementar_recurso moves the first one that waits, if any, to READY.
LEMMA IncrementarLugares ==
  ASSUME TypeColas, LugaresInv, NEW r \in Recursos, NEW asig, IncrementarRecurso(r, asig),
         mano' = mano, ultimo_pid' = ultimo_pid
  PROVE  LugaresInv'
  <1>1. CASE Despertar(r, asig)
    BY <1>1, DespertarLugares
  <1>2. CASE colas' = colas
    BY <1>2 DEF LugaresInv, UnSoloLugar, SinDuplicados, SinPerdidos, Nacidos
  <1> QED  BY <1>1, <1>2 DEF IncrementarRecurso

\* Every step is one of those moves, or moves nothing.
LEMMA LugaresPaso ==
  ASSUME Algoritmo # "VRR", ControlInv, TypeColas, ManoInv, ManoIoInv,
         colas["READY_PLUS"] = <<>>, PopDelVisto, LugaresInv, [Next]_vars
  PROVE  LugaresInv'
  <1> USE DEF recs, plp, pcp, io, grado, consola, cpu
  <1>1. CASE PlpSaca
    <2>1. /\ mano["plp"] = NULL /\ squeue_peek(colas["NEW"]) = plp_visto /\ plp_visto # NULL
          /\ colas' = [colas EXCEPT !["NEW"] = squeue_pop(colas["NEW"])]
          /\ mano' = [mano EXCEPT !["plp"] = plp_visto] /\ ultimo_pid' = ultimo_pid
      BY <1>1 DEF PlpSaca, SigueEnNew, ManoInv
    <2>2. /\ plp_visto \in Range(colas["NEW"]) /\ IsInjective(squeue_pop(colas["NEW"]))
          /\ Range(squeue_pop(colas["NEW"])) = Range(colas["NEW"]) \ {plp_visto}
      BY <2>1, Sacar, NombresDeColas
    <2> QED  BY <2>1, <2>2, DeColaAMano, NombresDeColas DEF Hilo, Fijos
  <1>2. CASE PlpEncola
    <2>1. /\ mano["plp"] # NULL /\ ultimo_pid' = ultimo_pid
          /\ colas' = [colas EXCEPT !["READY"] = squeue_push(colas["READY"], mano["plp"])]
          /\ mano' = [mano EXCEPT !["plp"] = NULL]
      BY <1>2 DEF PlpEncola, ManoInv
    <2> QED  BY <2>1, DeManoACola, NombresDeColas DEF Hilo, Fijos
  <1>3. CASE PcpDespacha
    <2>1. /\ mano["cpu"] = NULL /\ squeue_peek(colas["READY"]) = pcp_visto /\ pcp_visto # NULL
          /\ colas' = [colas EXCEPT !["READY"] = squeue_pop(colas["READY"])]
          /\ mano' = [mano EXCEPT !["cpu"] = pcp_visto] /\ ultimo_pid' = ultimo_pid
      BY <1>3 DEF PcpDespacha, ColaSiguiente, ManoInv, PopDelVisto, peek_siguiente_pcb
    <2>2. /\ pcp_visto \in Range(colas["READY"]) /\ IsInjective(squeue_pop(colas["READY"]))
          /\ Range(squeue_pop(colas["READY"])) = Range(colas["READY"]) \ {pcp_visto}
      BY <2>1, Sacar, NombresDeColas
    <2> QED  BY <2>1, <2>2, DeColaAMano, NombresDeColas DEF Hilo, Fijos
  <1>4. CASE PcpRecibe
    <2>1. /\ mano["pcp"] = NULL /\ colas' = colas /\ ultimo_pid' = ultimo_pid
          /\ mano' = [mano EXCEPT !["pcp"] = mano["cpu"], !["cpu"] = NULL]
      BY <1>4 DEF PcpRecibe, ManoInv
    <2> QED  BY <2>1, DeManoAMano DEF Hilo, Fijos
  <1>5. CASE PcpFinQuantum
    <2>1. /\ mano["pcp"] # NULL /\ ultimo_pid' = ultimo_pid
          /\ colas' = [colas EXCEPT !["READY"] = squeue_push(colas["READY"], mano["pcp"])]
          /\ mano' = [mano EXCEPT !["pcp"] = NULL]
      BY <1>5 DEF PcpFinQuantum, Maneja, Encolar, ManoInv
    <2> QED  BY <2>1, DeManoACola, NombresDeColas DEF Hilo, Fijos
  <1>6. CASE PcpLibera
    <2> DEFINE k == PrimeraDe(mano["pcp"])
    <2>1. /\ AsignacionesDe(mano["pcp"]) # {} /\ mano' = mano /\ ultimo_pid' = ultimo_pid
          /\ IncrementarRecurso(asignaciones[k].recurso, RemoveAt(asignaciones, k))
      BY <1>6 DEF PcpLibera, LiberarUna
    <2>2. asignaciones[k].recurso \in Recursos
      BY <2>1, PrimeraDeLema
    <2> HIDE DEF k
    <2> QED  BY <2>1, <2>2, IncrementarLugares
  <1>7. CASE PcpTermina
    <2>1. /\ mano["pcp"] # NULL /\ ultimo_pid' = ultimo_pid
          /\ colas' = [colas EXCEPT !["EXIT"] = squeue_push(colas["EXIT"], mano["pcp"])]
          /\ mano' = [mano EXCEPT !["pcp"] = NULL]
      BY <1>7 DEF PcpTermina, ManoInv
    <2> QED  BY <2>1, DeManoACola, NombresDeColas DEF Hilo, Fijos
  <1>8. ASSUME NEW r \in Recursos, PcpWaitAsigna(r) PROVE LugaresInv'
    <2>1. /\ mano["cpu"] = NULL /\ colas' = colas /\ ultimo_pid' = ultimo_pid
          /\ mano' = [mano EXCEPT !["cpu"] = mano["pcp"], !["pcp"] = NULL]
      BY <1>8 DEF PcpWaitAsigna, Pide, DevolverEjecucion, ManoInv
    <2> QED  BY <2>1, DeManoAMano DEF Hilo, Fijos
  <1>9. ASSUME NEW r \in Recursos, PcpWaitBloquea(r) PROVE LugaresInv'
    <2>1. /\ mano["pcp"] # NULL /\ ultimo_pid' = ultimo_pid
          /\ colas' = [colas EXCEPT ![r] = squeue_push(colas[r], mano["pcp"])]
          /\ mano' = [mano EXCEPT !["pcp"] = NULL]
      BY <1>9 DEF PcpWaitBloquea, Pide, Encolar, ManoInv
    <2> QED  BY <2>1, DeManoACola, NombresDeColas DEF Hilo, Fijos
  <1>10. ASSUME NEW r \in Recursos, PcpSignal(r) PROVE LugaresInv'
    <2>1. /\ mano["cpu"] = NULL /\ ultimo_pid' = ultimo_pid
          /\ mano' = [mano EXCEPT !["cpu"] = mano["pcp"], !["pcp"] = NULL]
      BY <1>10 DEF PcpSignal, Maneja, DevolverEjecucion, ManoInv
    <2>2. ASSUME NEW asig, Despertar(r, asig) PROVE LugaresInv'
      <3> DEFINE p == Head(colas[r])
                 q == Tail(colas[r])
      <3>1. colas[r] # <<>>
        BY <2>2 DEF Despertar
      <3>2. colas' = [colas EXCEPT ![r] = q, !["READY"] = squeue_push(colas["READY"], p)]
        BY <2>2, NombresDeColas DEF Despertar, TypeColas
      <3>3. r \in Cola /\ "READY" \in Cola /\ r # "READY"
        BY NombresDeColas
      <3>4. p \in Range(colas[r]) /\ Range(q) = Range(colas[r]) \ {p} /\ IsInjective(q)
        BY <3>1, <3>3, Sacar
      <3>5. "pcp" \in Hilo /\ "cpu" \in Hilo /\ "pcp" # "cpu"
        BY DEF Hilo, Fijos
      <3> HIDE DEF p, q
      <3> QED  BY <2>1, <3>2, <3>3, <3>4, <3>5, DeColaAColaYDeManoAMano
    <2>3. CASE colas' = colas
      <3>1. "pcp" \in Hilo /\ "cpu" \in Hilo /\ "pcp" # "cpu"
        BY DEF Hilo, Fijos
      <3> QED  BY <2>1, <2>3, <3>1, DeManoAMano
    <2> QED  BY <1>10, <2>2, <2>3 DEF PcpSignal, IncrementarRecurso
  <1>11. ASSUME NEW i \in Interfaces, PcpIo(i) PROVE LugaresInv'
    <2>1. /\ mano["pcp"] # NULL /\ ultimo_pid' = ultimo_pid
          /\ colas' = [colas EXCEPT ![i] = squeue_push(colas[i], mano["pcp"])]
          /\ mano' = [mano EXCEPT !["pcp"] = NULL]
      BY <1>11 DEF PcpIo, Maneja, Encolar, ManoInv
    <2> QED  BY <2>1, DeManoACola, NombresDeColas DEF Hilo, Fijos
  <1>12. ASSUME NEW i \in Interfaces, IoDesbloquea(i) PROVE LugaresInv'
    <2> DEFINE p == io_actual[i]
    <2>1. /\ p # NULL /\ squeue_peek(colas[i]) = p /\ mano' = mano /\ ultimo_pid' = ultimo_pid
          /\ colas' = [colas EXCEPT ![i] = squeue_pop(colas[i]),
                                   !["READY"] = squeue_push(colas["READY"], p)]
      BY <1>12, NombresDeColas DEF IoDesbloquea, SigueBloqueado, ColaDesbloqueados, TypeColas
    <2>2. /\ p \in Range(colas[i]) /\ IsInjective(squeue_pop(colas[i]))
          /\ Range(squeue_pop(colas[i])) = Range(colas[i]) \ {p}
      BY <2>1, Sacar, NombresDeColas
    <2>3. i \in Cola /\ "READY" \in Cola /\ i # "READY"
      BY NombresDeColas
    <2> HIDE DEF p
    <2> QED  BY <2>1, <2>2, <2>3, DeColaACola
  <1>13. CASE ConIniciar
    <2>1. ultimo_pid \in Pid
      BY <1>13, ConstantesOK DEF ConIniciar, TypeColas, Pid
    <2>2. /\ colas' = [colas EXCEPT !["NEW"] = squeue_push(colas["NEW"], ultimo_pid)]
          /\ mano' = mano /\ ultimo_pid' = ultimo_pid + 1
      BY <1>13 DEF ConIniciar
    <2> QED  BY <2>1, <2>2, Nace, NombresDeColas
  <1>14. CASE ConEliminaNew
    <2>1. /\ Contiene(colas["NEW"], con_pid) /\ mano' = mano /\ ultimo_pid' = ultimo_pid
          /\ colas' = [colas EXCEPT !["NEW"] = Quitar(colas["NEW"], con_pid),
                                   !["EXIT"] = squeue_push(colas["EXIT"], con_pid)]
      BY <1>14, NombresDeColas DEF ConEliminaNew, TypeColas
    <2>2. /\ con_pid \in Range(colas["NEW"]) /\ IsInjective(Quitar(colas["NEW"], con_pid))
          /\ Range(Quitar(colas["NEW"], con_pid)) = Range(colas["NEW"]) \ {con_pid}
      BY <2>1, Sacar, NombresDeColas DEF Contiene
    <2> QED  BY <2>1, <2>2, DeColaACola, NombresDeColas
  <1>15. CASE ConTermina
    <2>1. /\ mano["consola"] = con_pid /\ con_pid \in Pid /\ ultimo_pid' = ultimo_pid
          /\ colas' = [colas EXCEPT !["EXIT"] = squeue_push(colas["EXIT"], con_pid)]
          /\ mano' = [mano EXCEPT !["consola"] = NULL]
      BY <1>15 DEF ConTermina, ManoInv, ControlInv, ConsolaInv
    <2> QED  BY <2>1, DeManoACola, NombresDeColas, NullNoEsPid DEF Hilo, Fijos
  <1>16. ASSUME NEW c \in Cola \ {"NEW", "EXIT"}, ConElimina(c) PROVE LugaresInv'
    <2>1. /\ mano["consola"] = NULL /\ Contiene(colas[c], con_pid)
          /\ colas' = [colas EXCEPT ![c] = Quitar(colas[c], con_pid)]
          /\ mano' = [mano EXCEPT !["consola"] = con_pid] /\ ultimo_pid' = ultimo_pid
      BY <1>16 DEF ConElimina, ManoInv
    <2>2. /\ con_pid \in Range(colas[c]) /\ IsInjective(Quitar(colas[c], con_pid))
          /\ Range(Quitar(colas[c], con_pid)) = Range(colas[c]) \ {con_pid}
      BY <2>1, Sacar DEF Contiene
    <2> QED  BY <2>1, <2>2, DeColaAMano DEF Hilo, Fijos
  <1>17. CASE ConLibera
    <2> DEFINE k == PrimeraDe(con_pid)
    <2>1. /\ AsignacionesDe(con_pid) # {} /\ mano' = mano /\ ultimo_pid' = ultimo_pid
          /\ IncrementarRecurso(asignaciones[k].recurso, RemoveAt(asignaciones, k))
      BY <1>17 DEF ConLibera, LiberarUna
    <2>2. asignaciones[k].recurso \in Recursos
      BY <2>1, PrimeraDeLema
    <2> HIDE DEF k
    <2> QED  BY <2>1, <2>2, IncrementarLugares
  <1>18. CASE \/ PlpVeNew \/ PlpTomaLugar \/ PlpDescarta \/ PlpAvisa \/ PcpVeReady
              \/ PcpConfirma \/ PcpRechaza \/ PcpElimina
              \/ \E r \in Recursos : PcpWaitDescuenta(r)
              \/ \E i \in Interfaces : IoToma(i)
              \/ \E i \in Interfaces : IoDescarta(i)
              \/ \E i \in Interfaces : IoAvisa(i)
              \/ \E i \in Interfaces, r \in Recursos : IoGuarda(i, r)
              \/ \E n \in 0..MaxGrado : ConGrado(n)
              \/ ConDetener \/ \E p \in Pid : ConFinalizar(p)
              \/ ConReanudar \/ ConTomaPermiso \/ ConPausada \/ ConInterrumpe \/ ConNoEncuentra
              \/ ConSeTraba \/ Muere \/ UNCHANGED vars
    <2>1. UNCHANGED <<colas, mano, ultimo_pid>>
      BY <1>18 DEF PlpVeNew, PlpTomaLugar, PlpDescarta, PlpAvisa, PcpVeReady, PcpConfirma,
         PcpRechaza, PcpElimina, PcpWaitDescuenta, IoToma, IoDescarta, IoAvisa, IoGuarda,
         ConGrado, ConDetener, ConFinalizar, ConReanudar, ConTomaPermiso, ConPausada,
         ConInterrumpe, ConNoEncuentra, ConSeTraba, Muere, vars
    <2> QED  BY <2>1 DEF LugaresInv, UnSoloLugar, SinDuplicados, SinPerdidos, Nacidos
  <1>19. ASSUME NEW i \in Interfaces, IoAvanza(i) PROVE LugaresInv'
    <2>1. UNCHANGED <<colas, mano, ultimo_pid>>
      BY <1>19, IoAvanzaDef
    <2> QED  BY <2>1 DEF LugaresInv, UnSoloLugar, SinDuplicados, SinPerdidos, Nacidos
  <1>20. ASSUME NEW i \in Interfaces, IoSacaBloqueado(i) PROVE LugaresInv'
    <2>1. /\ mano[i] = NULL /\ colas[i] # <<>>
          /\ colas' = [colas EXCEPT ![i] = squeue_pop(colas[i])]
          /\ mano' = [mano EXCEPT ![i] = squeue_peek(colas[i])] /\ ultimo_pid' = ultimo_pid
      BY <1>20 DEF IoSacaBloqueado, ManoIoInv, EnMano
    <2>2. /\ squeue_peek(colas[i]) \in Range(colas[i]) /\ IsInjective(squeue_pop(colas[i]))
          /\ Range(squeue_pop(colas[i])) = Range(colas[i]) \ {squeue_peek(colas[i])}
      BY <2>1, Sacar, NombresDeColas
    <2> QED  BY <2>1, <2>2, DeColaAMano, NombresDeColas
  <1>21. ASSUME NEW i \in Interfaces, NEW r \in Recursos, IoDespierta(i, r) PROVE LugaresInv'
    BY <1>21, DespertarLugares DEF IoDespierta
  <1>22. ASSUME NEW i \in Interfaces, IoElimina(i) PROVE LugaresInv'
    <2>1. /\ mano[i] # NULL /\ ultimo_pid' = ultimo_pid
          /\ colas' = [colas EXCEPT !["EXIT"] = squeue_push(colas["EXIT"], mano[i])]
          /\ mano' = [mano EXCEPT ![i] = NULL]
      BY <1>22 DEF IoElimina, ManoIoInv, EnMano
    <2> QED  BY <2>1, DeManoACola, NombresDeColas
  <1> QED  BY Pasos, <1>1, <1>2, <1>3, <1>4, <1>5, <1>6, <1>7, <1>8, <1>9, <1>10, <1>11, <1>12,
     <1>13, <1>14, <1>15, <1>16, <1>17, <1>18, <1>19, <1>20, <1>21, <1>22

-----------------------------------------------------------------------------
\* While the PCP is about to pop, the console holds no permission of EXEC.
LEMMA SacaSola ==
  ASSUME ControlInv, pcp_pc = "saca"
  PROVE  con_pc \notin {"busca", "elimina", "trabada"}
  BY PermisoDef DEF ControlInv, ConsolaInv, PermisosInv

\* Pushing does not change which element is the next one.
LEMMA PushNoAdelanta ==
  ASSUME TypeColas, NEW c \in Cola, NEW x \in Pid, squeue_peek(colas[c]) # NULL
  PROVE  squeue_peek(squeue_push(colas[c], x)) = squeue_peek(colas[c])
  <1>1. colas[c] \in Seq(Pid) /\ colas[c] # <<>>
    BY DEF TypeColas, squeue_peek
  <1> QED  BY <1>1, PushLema

\* Without VRR nothing enters READY_PLUS.
LEMMA ReadyPlusPaso ==
  ASSUME Algoritmo # "VRR", TypeColas, colas["READY_PLUS"] = <<>>, [Next]_vars
  PROVE  colas'["READY_PLUS"] = <<>>
  <1> USE DEF recs, plp, pcp, io, grado, consola, cpu
  <1>a. ASSUME NEW r \in Recursos, NEW asig, IncrementarRecurso(r, asig) \/ Despertar(r, asig)
        PROVE  colas'["READY_PLUS"] = <<>>
    BY <1>a, NombresDeColas DEF IncrementarRecurso, Despertar, TypeColas
  <1>1. CASE PlpSaca
    BY <1>1, NombresDeColas DEF PlpSaca, TypeColas
  <1>2. CASE PlpEncola
    BY <1>2, NombresDeColas DEF PlpEncola, TypeColas
  <1>3. CASE PcpDespacha
    BY <1>3, NombresDeColas DEF PcpDespacha, TypeColas, ColaSiguiente
  <1>4. CASE PcpFinQuantum
    BY <1>4, NombresDeColas DEF PcpFinQuantum, Maneja, Encolar, TypeColas
  <1>5. CASE PcpLibera
    BY <1>5, <1>a, PrimeraDeLema DEF PcpLibera, LiberarUna
  <1>6. CASE PcpTermina
    BY <1>6, NombresDeColas DEF PcpTermina, TypeColas
  <1>7. ASSUME NEW r \in Recursos, PcpWaitBloquea(r) PROVE colas'["READY_PLUS"] = <<>>
    BY <1>7, NombresDeColas DEF PcpWaitBloquea, Encolar, TypeColas
  <1>8. ASSUME NEW r \in Recursos, PcpSignal(r) PROVE colas'["READY_PLUS"] = <<>>
    BY <1>8, <1>a DEF PcpSignal
  <1>9. ASSUME NEW i \in Interfaces, PcpIo(i) PROVE colas'["READY_PLUS"] = <<>>
    BY <1>9, NombresDeColas DEF PcpIo, Maneja, Encolar, TypeColas
  <1>10. ASSUME NEW i \in Interfaces, IoDesbloquea(i) PROVE colas'["READY_PLUS"] = <<>>
    BY <1>10, NombresDeColas DEF IoDesbloquea, TypeColas, ColaDesbloqueados
  <1>11. CASE ConIniciar
    BY <1>11, NombresDeColas DEF ConIniciar, TypeColas
  <1>12. CASE ConEliminaNew
    BY <1>12, NombresDeColas DEF ConEliminaNew, TypeColas
  <1>13. CASE ConTermina
    BY <1>13, NombresDeColas DEF ConTermina, TypeColas
  <1>14. ASSUME NEW c \in Cola \ {"NEW", "EXIT"}, ConElimina(c) PROVE colas'["READY_PLUS"] = <<>>
    <2>1. c # "READY_PLUS"
      BY <1>14 DEF ConElimina, Contiene, Range
    <2> QED  BY <1>14, <2>1, NombresDeColas DEF ConElimina, TypeColas
  <1>15. CASE ConLibera
    BY <1>15, <1>a, PrimeraDeLema DEF ConLibera, LiberarUna
  <1>16. CASE \/ PlpVeNew \/ PlpTomaLugar \/ PlpDescarta \/ PlpAvisa \/ PcpVeReady
              \/ PcpConfirma \/ PcpRechaza \/ PcpRecibe \/ PcpElimina
              \/ \E r \in Recursos : PcpWaitDescuenta(r)
              \/ \E r \in Recursos : PcpWaitAsigna(r)
              \/ \E i \in Interfaces : IoToma(i)
              \/ \E i \in Interfaces : IoDescarta(i)
              \/ \E i \in Interfaces : IoAvisa(i)
              \/ \E i \in Interfaces, r \in Recursos : IoGuarda(i, r)
              \/ \E n \in 0..MaxGrado : ConGrado(n)
              \/ ConDetener \/ \E p \in Pid : ConFinalizar(p)
              \/ ConReanudar \/ ConTomaPermiso \/ ConPausada \/ ConInterrumpe \/ ConNoEncuentra
              \/ ConSeTraba \/ Muere \/ UNCHANGED vars
    BY <1>16 DEF PlpVeNew, PlpTomaLugar, PlpDescarta, PlpAvisa, PcpVeReady, PcpConfirma,
       PcpRechaza, PcpRecibe, PcpElimina, PcpWaitDescuenta, PcpWaitAsigna, IoToma, IoDescarta,
       IoAvisa, IoGuarda, ConGrado, ConDetener, ConFinalizar, ConReanudar, ConTomaPermiso,
       ConPausada, ConInterrumpe, ConNoEncuentra, ConSeTraba, Muere, vars
  <1>17. ASSUME NEW i \in Interfaces, IoAvanza(i) PROVE colas'["READY_PLUS"] = <<>>
    BY <1>17, IoAvanzaDef
  <1>18. ASSUME NEW i \in Interfaces, IoSacaBloqueado(i) PROVE colas'["READY_PLUS"] = <<>>
    BY <1>18, NombresDeColas DEF IoSacaBloqueado, TypeColas
  <1>19. ASSUME NEW i \in Interfaces, NEW r \in Recursos, IoDespierta(i, r)
         PROVE  colas'["READY_PLUS"] = <<>>
    BY <1>19, <1>a DEF IoDespierta
  <1>20. ASSUME NEW i \in Interfaces, IoElimina(i) PROVE colas'["READY_PLUS"] = <<>>
    BY <1>20, NombresDeColas DEF IoElimina, TypeColas
  <1> QED  BY Pasos, <1>1, <1>2, <1>3, <1>4, <1>5, <1>6, <1>7, <1>8, <1>9, <1>10, <1>11, <1>12,
     <1>13, <1>14, <1>15, <1>16, <1>17, <1>18, <1>19, <1>20

\* What the PCP saw stays first until it pops it.
LEMMA PopPaso ==
  ASSUME Algoritmo # "VRR", ControlInv, TypeColas, ManoInv, colas["READY_PLUS"] = <<>>,
         colas'["READY_PLUS"] = <<>>, PopDelVisto, [Next]_vars
  PROVE  PopDelVisto'
  <1> USE DEF recs, plp, pcp, io, grado, consola, cpu
  <1>1. CASE PlpSaca
    BY <1>1, NombresDeColas DEF PlpSaca, TypeColas, PopDelVisto, peek_siguiente_pcb, ColaSiguiente
  <1>2. CASE PlpEncola
    <2> SUFFICES ASSUME pcp_pc = "saca" PROVE squeue_peek(colas'["READY"]) = pcp_visto
      BY <1>2 DEF PlpEncola, PopDelVisto, peek_siguiente_pcb, ColaSiguiente
    <2>1. squeue_peek(colas["READY"]) = pcp_visto /\ pcp_visto # NULL
      BY DEF PopDelVisto, peek_siguiente_pcb, ColaSiguiente, ManoInv
    <2>2. mano["plp"] \in Pid
      BY <1>2 DEF PlpEncola, ManoInv, TypeColas, PidONada, Hilo, Fijos
    <2>3. colas'["READY"] = squeue_push(colas["READY"], mano["plp"])
      BY <1>2, NombresDeColas DEF PlpEncola, TypeColas
    <2> QED  BY <2>1, <2>2, <2>3, PushNoAdelanta, NombresDeColas
  <1>3. CASE PcpVeReady
    BY <1>3 DEF PcpVeReady, PopDelVisto
  <1>4. CASE PcpConfirma
    BY <1>4 DEF PcpConfirma, SigueSiguiente, PopDelVisto, peek_siguiente_pcb, ColaSiguiente
  <1>5. CASE PcpRechaza
    BY <1>5 DEF PcpRechaza, PopDelVisto
  <1>6. CASE PcpDespacha
    BY <1>6 DEF PcpDespacha, PopDelVisto
  <1>7. CASE PcpRecibe
    BY <1>7 DEF PcpRecibe, PopDelVisto
  <1>8. CASE PcpFinQuantum
    BY <1>8 DEF PcpFinQuantum, Maneja, Encolar, PopDelVisto
  <1>9. CASE PcpElimina
    BY <1>9 DEF PcpElimina, Maneja, DevolverLugar, PopDelVisto
  <1>10. CASE PcpLibera
    BY <1>10 DEF PcpLibera, PopDelVisto
  <1>11. CASE PcpTermina
    BY <1>11 DEF PcpTermina, PopDelVisto
  <1>12. ASSUME NEW r \in Recursos, PcpWaitAsigna(r) PROVE PopDelVisto'
    BY <1>12 DEF PcpWaitAsigna, DevolverEjecucion, PopDelVisto
  <1>13. ASSUME NEW r \in Recursos, PcpWaitBloquea(r) PROVE PopDelVisto'
    BY <1>13 DEF PcpWaitBloquea, Encolar, PopDelVisto
  <1>14. ASSUME NEW r \in Recursos, PcpSignal(r) PROVE PopDelVisto'
    BY <1>14 DEF PcpSignal, Maneja, DevolverEjecucion, PopDelVisto
  <1>15. ASSUME NEW i \in Interfaces, PcpIo(i) PROVE PopDelVisto'
    BY <1>15 DEF PcpIo, Maneja, Encolar, PopDelVisto
  <1>16. ASSUME NEW i \in Interfaces, IoDesbloquea(i) PROVE PopDelVisto'
    <2> SUFFICES ASSUME pcp_pc = "saca" PROVE squeue_peek(colas'["READY"]) = pcp_visto
      BY <1>16 DEF IoDesbloquea, PopDelVisto, peek_siguiente_pcb, ColaSiguiente
    <2>1. squeue_peek(colas["READY"]) = pcp_visto /\ pcp_visto # NULL
      BY DEF PopDelVisto, peek_siguiente_pcb, ColaSiguiente, ManoInv
    <2>2. io_actual[i] \in Pid
      BY <1>16 DEF IoDesbloquea, SigueBloqueado, TypeColas, PidONada
    <2>3. colas'["READY"] = squeue_push(colas["READY"], io_actual[i])
      BY <1>16, NombresDeColas DEF IoDesbloquea, ColaDesbloqueados, TypeColas
    <2> QED  BY <2>1, <2>2, <2>3, PushNoAdelanta, NombresDeColas
  <1>17. CASE ConIniciar
    BY <1>17, NombresDeColas DEF ConIniciar, TypeColas, PopDelVisto, peek_siguiente_pcb,
       ColaSiguiente
  <1>18. CASE ConEliminaNew
    BY <1>18, SacaSola DEF ConEliminaNew, PopDelVisto
  <1>19. CASE ConTermina
    BY <1>19, SacaSola DEF ConTermina, PopDelVisto
  <1>20. ASSUME NEW c \in Cola \ {"NEW", "EXIT"}, ConElimina(c) PROVE PopDelVisto'
    BY <1>20, SacaSola DEF ConElimina, DevolverLugar, PopDelVisto
  <1>21. CASE ConLibera
    BY <1>21, SacaSola DEF ConLibera, PopDelVisto
  <1>22. CASE \/ PlpVeNew \/ PlpTomaLugar \/ PlpDescarta \/ PlpAvisa
              \/ \E i \in Interfaces : IoToma(i)
              \/ \E i \in Interfaces : IoDescarta(i)
              \/ \E i \in Interfaces : IoAvisa(i)
              \/ \E i \in Interfaces, r \in Recursos : IoGuarda(i, r)
              \/ \E n \in 0..MaxGrado : ConGrado(n)
              \/ ConDetener \/ \E p \in Pid : ConFinalizar(p)
              \/ ConReanudar \/ ConTomaPermiso \/ ConPausada \/ ConInterrumpe \/ ConNoEncuentra
              \/ ConSeTraba \/ Muere \/ UNCHANGED vars
    <2>1. UNCHANGED <<colas, pcp_pc, pcp_visto>>
      BY <1>22 DEF PlpVeNew, PlpTomaLugar, PlpDescarta, PlpAvisa, IoToma, IoDescarta, IoAvisa,
         IoGuarda, ConGrado, ConDetener, ConFinalizar, ConReanudar, ConTomaPermiso, ConPausada,
         ConInterrumpe, ConNoEncuentra, ConSeTraba, Muere, vars
    <2> QED  BY <2>1 DEF PopDelVisto, peek_siguiente_pcb, ColaSiguiente
  <1>23. ASSUME NEW i \in Interfaces, IoAvanza(i) PROVE PopDelVisto'
    <2>1. UNCHANGED <<colas, pcp_pc, pcp_visto>>
      BY <1>23, IoAvanzaDef
    <2> QED  BY <2>1 DEF PopDelVisto, peek_siguiente_pcb, ColaSiguiente
  <1>24. ASSUME NEW r \in Recursos, PcpWaitDescuenta(r) PROVE PopDelVisto'
    BY <1>24 DEF PcpWaitDescuenta, PopDelVisto
  <1>25. ASSUME NEW i \in Interfaces, IoSacaBloqueado(i) PROVE PopDelVisto'
    BY <1>25, NombresDeColas DEF IoSacaBloqueado, TypeColas, PopDelVisto, peek_siguiente_pcb,
       ColaSiguiente
  <1>26. ASSUME NEW i \in Interfaces, IoElimina(i) PROVE PopDelVisto'
    BY <1>26, NombresDeColas DEF IoElimina, TypeColas, PopDelVisto, peek_siguiente_pcb,
       ColaSiguiente
  <1>27. ASSUME NEW i \in Interfaces, NEW r \in Recursos, IoDespierta(i, r) PROVE PopDelVisto'
    <2> SUFFICES ASSUME pcp_pc = "saca" PROVE squeue_peek(colas'["READY"]) = pcp_visto
      BY <1>27 DEF IoDespierta, PopDelVisto, peek_siguiente_pcb, ColaSiguiente
    <2>1. squeue_peek(colas["READY"]) = pcp_visto /\ pcp_visto # NULL
      BY DEF PopDelVisto, peek_siguiente_pcb, ColaSiguiente, ManoInv
    <2>2. colas[r] # <<>> /\ Head(colas[r]) \in Pid
      BY <1>27, PopLema, NombresDeColas DEF IoDespierta, Despertar, TypeColas
    <2>3. colas'["READY"] = squeue_push(colas["READY"], Head(colas[r]))
      BY <1>27, NombresDeColas DEF IoDespierta, Despertar, TypeColas
    <2> QED  BY <2>1, <2>2, <2>3, PushNoAdelanta, NombresDeColas
  <1> QED  BY Pasos, <1>1, <1>2, <1>3, <1>4, <1>5, <1>6, <1>7, <1>8, <1>9, <1>10, <1>11, <1>12,
     <1>13, <1>14, <1>15, <1>16, <1>17, <1>18, <1>19, <1>20, <1>21, <1>22, <1>23, <1>24, <1>25,
     <1>26, <1>27

-----------------------------------------------------------------------------
\* Layer 3 holds at the start, with no process...
LEMMA LugarInit == Init => LugarInv
  <1> SUFFICES ASSUME Init PROVE LugarInv
    OBVIOUS
  <1>1. /\ \A c \in Cola : colas[c] = <<>>
        /\ \A h \in Hilo : mano[h] = NULL
        /\ Nacidos = {} /\ pcp_pc # "saca"
    BY DEF Init, Nacidos
  <1>2. \A c \in Cola : Range(colas[c]) = {} /\ IsInjective(colas[c])
    BY <1>1 DEF Range, IsInjective
  <1>3. LugaresInv
    <2>1. \A c \in Cola : Range(colas[c]) \subseteq Nacidos
      BY <1>2
    <2>2. \A c, d \in Cola : Range(colas[c]) \cap Range(colas[d]) = {}
      BY <1>2
    <2>3. \A h \in Hilo, c \in Cola : mano[h] \notin Range(colas[c])
      BY <1>2
    <2>4. \A p \in Nacidos : FALSE
      BY <1>1
    <2>5. \A h \in Hilo : mano[h] \in Nacidos \cup {NULL} /\ ~(mano[h] # NULL)
      BY <1>1
    <2>6. \A c \in Cola : IsInjective(colas[c])
      BY <1>2
    <2> HIDE DEF Nacidos
    <2> QED  BY <2>1, <2>2, <2>3, <2>4, <2>5, <2>6, LugaresDef
  <1> QED  BY <1>1, <1>3, NombresDeColas DEF LugarInv, PopDelVisto

\* ... and every step keeps it, given the layers below.
LEMMA LugarPaso ==
  ASSUME Algoritmo # "VRR"
  PROVE  ControlInv /\ DatosInv /\ LugarInv /\ [Next]_vars => LugarInv'
  BY LugaresPaso, ReadyPlusPaso, PopPaso DEF LugarInv, DatosInv, TypeOK

\* Layer 3: under FIFO and RR the PCP pops what it saw, and every process keeps one
\* place.
THEOREM LugarSiempre ==
  ASSUME Algoritmo # "VRR"
  PROVE  Spec => []LugarInv
  <1>1. ControlInv /\ DatosInv /\ LugarInv /\ [Next]_vars => LugarInv'
    BY LugarPaso
  <1> QED  BY <1>1, ControlSiempre, DatosSiempre, LugarInit, PTL DEF Spec

\* Under FIFO and RR every process started is, at every moment, in exactly one
\* queue or one hand: no interleaving of the schedulers, the interfaces, kills,
\* pauses and changes of degree loses a PCB or leaves it in two places.
THEOREM UnSoloLugarSiempre ==
  ASSUME Algoritmo # "VRR"
  PROVE  Spec => []UnSoloLugar
  <1>1. LugarInv => UnSoloLugar
    BY DEF LugarInv, LugaresInv
  <1> QED  BY <1>1, LugarSiempre, PTL
=============================================================================
