---------------------------- MODULE PruebaCuentas ----------------------------
(***************************************************************************)
(* Layer 4 of the theorems of Planificacion, under FIFO and RR: no process  *)
(* waits in a queue without the semaphore unit that brings a thread to it,  *)
(* the degree of multiprogramming is kept, and who ended holds no resource. *)
(* Each follows a process out of one queue and into another: the lemmas     *)
(* Movimientos... say which, for every action.                              *)
(***************************************************************************)
EXTENDS PruebaPlanificacion, FiniteSetTheorems

\* What the proofs below start from: the three layers before.
Antes3 == ControlInv /\ DatosInv /\ LugarInv /\ Algoritmo # "VRR"

-----------------------------------------------------------------------------
(* Moves                                                                    *)

\* x leaves queue c; x enters it; from c to d, where "-" stands for a hand, and nowhere else.
Sale(c, x) ==
    /\ x \in Range(colas[c]) /\ Range(colas[c]') = Range(colas[c]) \ {x}
    /\ Len(colas[c]') = Len(colas[c]) - 1
    /\ x # squeue_peek(colas[c]) => squeue_peek(colas[c])' = squeue_peek(colas[c])
Entra(c, x) ==
    /\ x \notin Range(colas[c]) /\ Range(colas[c]') = Range(colas[c]) \cup {x}
    /\ Len(colas[c]') = Len(colas[c]) + 1
    /\ squeue_peek(colas[c]) # NULL => squeue_peek(colas[c])' = squeue_peek(colas[c])
Mueve(c, d, x) ==
    /\ c \in Cola => Sale(c, x)
    /\ d \in Cola => Entra(d, x)
    /\ \A e \in Cola : e # c /\ e # d => colas[e]' = colas[e]
    /\ c \in Cola \/ d \in Cola => x \in Pid

\* Pushing a process that is not there makes it enter.
LEMMA PushEntra ==
  ASSUME TypeColas, LugaresInv, NEW c \in Cola, NEW x \in Pid, x \notin Range(colas[c]),
         colas'[c] = squeue_push(colas[c], x)
  PROVE  Entra(c, x)
  <1>1. colas[c] \in Seq(Pid)
    BY DEF TypeColas
  <1>2. /\ Len(colas'[c]) = Len(colas[c]) + 1
        /\ Range(colas'[c]) = Range(colas[c]) \cup {x}
        /\ colas[c] # <<>> => squeue_peek(colas'[c]) = squeue_peek(colas[c])
    <2> DEFINE q == colas[c]
    <2>1. q \in Seq(Pid) /\ colas'[c] = squeue_push(q, x)
      BY <1>1
    <2> HIDE DEF q
    <2>2. /\ Len(squeue_push(q, x)) = Len(q) + 1
          /\ Range(squeue_push(q, x)) = Range(q) \cup {x}
          /\ q # <<>> => squeue_peek(squeue_push(q, x)) = squeue_peek(q)
      BY <2>1, PushLema
    <2> QED  BY <2>1, <2>2 DEF q
  <1>3. squeue_peek(colas[c]) # NULL => colas[c] # <<>>
    BY DEF squeue_peek
  <1> QED  BY <1>2, <1>3 DEF Entra

\* Popping a queue makes its first process leave.
LEMMA PopSale ==
  ASSUME TypeColas, LugaresInv, NEW c \in Cola, colas[c] # <<>>,
         colas'[c] = Tail(colas[c])
  PROVE  /\ Sale(c, Head(colas[c])) /\ Head(colas[c]) \in Pid
         /\ squeue_peek(colas[c]) = Head(colas[c])
  <1>1. colas[c] \in Seq(Pid)
    BY DEF TypeColas
  <1>2. Len(Tail(colas[c])) = Len(colas[c]) - 1 /\ Head(colas[c]) \in Pid
    BY <1>1, PopLema
  <1>3. /\ squeue_peek(colas[c]) = Head(colas[c]) /\ Head(colas[c]) \in Range(colas[c])
        /\ Range(Tail(colas[c])) = Range(colas[c]) \ {Head(colas[c])}
    BY Sacar
  <1> QED  BY <1>2, <1>3 DEF Sale

\* So does popping the process that was looked at.
LEMMA VistoSale ==
  ASSUME TypeColas, LugaresInv, NEW c \in Cola, NEW x, x # NULL, squeue_peek(colas[c]) = x,
         colas'[c] = squeue_pop(colas[c])
  PROVE  Sale(c, x) /\ x \in Pid
  <1>1. colas[c] # <<>>
    BY DEF squeue_peek
  <1>2. squeue_pop(colas[c]) = Tail(colas[c])
    BY <1>1, Sacar
  <1> QED  BY <1>1, <1>2, PopSale

\* finalizar_proceso makes the process it finds leave.
LEMMA QuitarSale ==
  ASSUME TypeColas, LugaresInv, NEW c \in Cola, NEW x, Contiene(colas[c], x),
         colas'[c] = Quitar(colas[c], x)
  PROVE  Sale(c, x) /\ x \in Pid
  <1>1. colas[c] \in Seq(Pid)
    BY DEF TypeColas
  <1>2. Len(Quitar(colas[c], x)) = Len(colas[c]) - 1
    BY <1>1, QuitarLema
  <1>3. x # squeue_peek(colas[c]) => squeue_peek(Quitar(colas[c], x)) = squeue_peek(colas[c])
    BY <1>1, QuitarPrimero
  <1>4. Range(Quitar(colas[c], x)) = Range(colas[c]) \ {x}
    BY Sacar
  <1>5. Range(colas[c]) \subseteq Pid
    BY <1>1, RangoSeq
  <1> QED  BY <1>2, <1>3, <1>4, <1>5 DEF Sale, Contiene

\* What is in a hand is a process and in no queue.
LEMMA LaDeLaMano ==
  ASSUME TypeColas, LugaresInv, NEW h \in Hilo, mano[h] # NULL
  PROVE  mano[h] \in Pid /\ \A c \in Cola : mano[h] \notin Range(colas[c])
  BY LugaresDef DEF TypeColas, PidONada

\* A push of the PCB in a hand.
LEMMA DeMano ==
  ASSUME TypeColas, LugaresInv, NEW h \in Hilo, mano[h] # NULL, NEW c \in Cola,
         colas' = [colas EXCEPT ![c] = squeue_push(colas[c], mano[h])]
  PROVE  \E x \in Pid : x = mano[h] /\ Mueve("-", c, x)
  <1>1. PICK x \in Pid : x = mano[h] /\ x \notin Range(colas[c])
    BY LaDeLaMano
  <1>2. colas'[c] = squeue_push(colas[c], x) /\ \A e \in Cola : e # c => colas'[e] = colas[e]
    BY <1>1 DEF TypeColas
  <1>3. Entra(c, x)
    BY <1>1, <1>2, PushEntra
  <1> QED  BY <1>1, <1>2, <1>3, NombresDeColas DEF Mueve

\* A process leaves a queue and enters another.
LEMMA DeColaEnCola ==
  ASSUME TypeColas, LugaresInv, NEW c \in Cola, NEW d \in Cola, c # d, NEW x \in Pid,
         Sale(c, x), colas'[d] = squeue_push(colas[d], x),
         \A e \in Cola : e # c /\ e # d => colas'[e] = colas[e]
  PROVE  Mueve(c, d, x)
  <1>1. x \notin Range(colas[d])
    BY LugaresDef DEF Sale
  <1>2. Entra(d, x)
    BY <1>1, PushEntra
  <1> QED  BY <1>2 DEF Mueve

\* incrementar_recurso moves the first that waits to READY, or nobody.
Incrementada == (\E c \in Recursos, x \in Pid : Mueve(c, "READY", x)) \/ Mueve("-", "-", NULL)

\* The wake-up of the first that waits.
LEMMA DespertarMueve ==
  ASSUME TypeColas, LugaresInv, NEW r \in Recursos, NEW asig, Despertar(r, asig)
  PROVE  \E x \in Pid : x = Head(colas[r]) /\ Mueve(r, "READY", x)
  <1>1. r \in Cola /\ "READY" \in Cola /\ r # "READY" /\ colas[r] # <<>>
    BY NombresDeColas DEF Despertar
  <1>2. PICK x \in Pid : x = Head(colas[r])
    BY <1>1, PopLema DEF TypeColas
  <1>3. colas' = [colas EXCEPT ![r] = Tail(colas[r]), !["READY"] = squeue_push(colas["READY"], x)]
    BY <1>2, NombresDeColas DEF Despertar, TypeColas
  <1>4. /\ colas'[r] = Tail(colas[r]) /\ colas'["READY"] = squeue_push(colas["READY"], x)
        /\ \A e \in Cola : e # r /\ e # "READY" => colas'[e] = colas[e]
    BY <1>1, <1>3 DEF TypeColas
  <1>5. Sale(r, x)
    BY <1>1, <1>2, <1>4, PopSale
  <1>6. Mueve(r, "READY", x)
    BY <1>1, <1>2, <1>4, <1>5, DeColaEnCola
  <1> QED  BY <1>2, <1>6

\* That is what it does.
LEMMA IncrementarMueve ==
  ASSUME TypeColas, LugaresInv, NEW r \in Recursos, NEW asig, IncrementarRecurso(r, asig)
  PROVE  Incrementada
  <1>1. CASE Despertar(r, asig)
    BY <1>1, DespertarMueve DEF Incrementada
  <1>2. CASE colas' = colas
    BY <1>2, NombresDeColas DEF Mueve, Incrementada
  <1> QED  BY <1>1, <1>2 DEF IncrementarRecurso

\* So does the release of one of the resources of a process.
LEMMA LiberaMueve ==
  ASSUME TypeColas, LugaresInv, NEW p, LiberarUna(p)
  PROVE  Incrementada
  <1> DEFINE k == PrimeraDe(p)
  <1>1. /\ AsignacionesDe(p) # {}
        /\ IncrementarRecurso(asignaciones[k].recurso, RemoveAt(asignaciones, k))
    BY DEF LiberarUna
  <1>2. PICK r \in Recursos : r = asignaciones[k].recurso
    BY <1>1, PrimeraDeLema
  <1>3. IncrementarRecurso(r, RemoveAt(asignaciones, k))
    BY <1>1, <1>2
  <1> HIDE DEF k
  <1> QED  BY <1>3, IncrementarMueve

\* What each action moves, from where to where.
LEMMA MovimientosPlp ==
  ASSUME Antes3
  PROVE  /\ PlpSaca => \E x \in Pid : x = plp_visto /\ Mueve("NEW", "-", x)
         /\ PlpEncola => \E x \in Pid : x = mano["plp"] /\ Mueve("-", "READY", x)
  <1> USE DEF Antes3, DatosInv, TypeOK, LugarInv
  <1>1. ASSUME PlpSaca PROVE \E x \in Pid : x = plp_visto /\ Mueve("NEW", "-", x)
    <2>1. PICK x : x = plp_visto
      OBVIOUS
    <2>2. /\ squeue_peek(colas["NEW"]) = x /\ x # NULL
          /\ colas' = [colas EXCEPT !["NEW"] = squeue_pop(colas["NEW"])]
      BY <1>1, <2>1 DEF PlpSaca, SigueEnNew
    <2>3. /\ colas'["NEW"] = squeue_pop(colas["NEW"])
          /\ \A e \in Cola : e # "NEW" => colas'[e] = colas[e]
      BY <2>2, NombresDeColas DEF TypeColas
    <2>4. Sale("NEW", x) /\ x \in Pid
      BY <2>2, <2>3, VistoSale, NombresDeColas
    <2> QED  BY <2>1, <2>3, <2>4, NombresDeColas DEF Mueve
  <1>2. ASSUME PlpEncola PROVE \E x \in Pid : x = mano["plp"] /\ Mueve("-", "READY", x)
    <2>1. PICK h \in Hilo : h = "plp"
      BY DEF Hilo, Fijos
    <2>2. /\ mano[h] # NULL
          /\ colas' = [colas EXCEPT !["READY"] = squeue_push(colas["READY"], mano[h])]
      BY <1>2, <2>1 DEF PlpEncola, ManoInv
    <2> QED  BY <2>1, <2>2, DeMano, LaDeLaMano, NombresDeColas
  <1> QED  BY <1>1, <1>2

\* The same of the short-term planner; the handler of a SIGNAL moves the first that waits.
LEMMA MovimientosPcp ==
  ASSUME Antes3
  PROVE  /\ PcpDespacha => \E x \in Pid : x = pcp_visto /\ Mueve("READY", "-", x)
         /\ PcpFinQuantum => \E x \in Pid : x = mano["pcp"] /\ Mueve("-", "READY", x)
         /\ PcpTermina => \E x \in Pid : x = mano["pcp"] /\ Mueve("-", "EXIT", x)
         /\ \A r \in Recursos : PcpWaitBloquea(r) =>
                \E x \in Pid : x = mano["pcp"] /\ Mueve("-", r, x)
         /\ \A i \in Interfaces : PcpIo(i) =>
                \E x \in Pid : x = mano["pcp"] /\ Mueve("-", i, x)
         /\ \A r \in Recursos : PcpSignal(r) => Incrementada
         /\ PcpLibera => Incrementada
  <1> USE DEF Antes3, DatosInv, TypeOK, LugarInv
  <1>0. PICK h \in Hilo : h = "pcp"
    BY DEF Hilo, Fijos
  <1>1. ASSUME PcpDespacha PROVE \E x \in Pid : x = pcp_visto /\ Mueve("READY", "-", x)
    <2>1. PICK x : x = pcp_visto
      OBVIOUS
    <2>2. /\ squeue_peek(colas["READY"]) = x /\ x # NULL
          /\ colas' = [colas EXCEPT !["READY"] = squeue_pop(colas["READY"])]
      BY <1>1, <2>1 DEF PcpDespacha, ColaSiguiente, ManoInv, PopDelVisto, peek_siguiente_pcb
    <2>3. /\ colas'["READY"] = squeue_pop(colas["READY"])
          /\ \A e \in Cola : e # "READY" => colas'[e] = colas[e]
      BY <2>2, NombresDeColas DEF TypeColas
    <2>4. Sale("READY", x) /\ x \in Pid
      BY <2>2, <2>3, VistoSale, NombresDeColas
    <2> QED  BY <2>1, <2>3, <2>4, NombresDeColas DEF Mueve
  <1>2. ASSUME PcpFinQuantum PROVE \E x \in Pid : x = mano["pcp"] /\ Mueve("-", "READY", x)
    <2>1. /\ mano[h] # NULL
          /\ colas' = [colas EXCEPT !["READY"] = squeue_push(colas["READY"], mano[h])]
      BY <1>0, <1>2 DEF PcpFinQuantum, Maneja, Encolar, ManoInv
    <2> QED  BY <1>0, <2>1, DeMano, LaDeLaMano, NombresDeColas
  <1>3. ASSUME PcpTermina PROVE \E x \in Pid : x = mano["pcp"] /\ Mueve("-", "EXIT", x)
    <2>1. /\ mano[h] # NULL
          /\ colas' = [colas EXCEPT !["EXIT"] = squeue_push(colas["EXIT"], mano[h])]
      BY <1>0, <1>3 DEF PcpTermina, ManoInv
    <2> QED  BY <1>0, <2>1, DeMano, LaDeLaMano, NombresDeColas
  <1>4. ASSUME NEW r \in Recursos, PcpWaitBloquea(r)
        PROVE  \E x \in Pid : x = mano["pcp"] /\ Mueve("-", r, x)
    <2>1. mano[h] # NULL /\ colas' = [colas EXCEPT ![r] = squeue_push(colas[r], mano[h])]
      BY <1>0, <1>4 DEF PcpWaitBloquea, Pide, Encolar, ManoInv
    <2> QED  BY <1>0, <2>1, DeMano, LaDeLaMano, NombresDeColas
  <1>5. ASSUME NEW i \in Interfaces, PcpIo(i)
        PROVE  \E x \in Pid : x = mano["pcp"] /\ Mueve("-", i, x)
    <2>1. mano[h] # NULL /\ colas' = [colas EXCEPT ![i] = squeue_push(colas[i], mano[h])]
      BY <1>0, <1>5 DEF PcpIo, Maneja, Encolar, ManoInv
    <2> QED  BY <1>0, <2>1, DeMano, LaDeLaMano, NombresDeColas
  <1>6. ASSUME NEW r \in Recursos, PcpSignal(r) PROVE Incrementada
    BY <1>6, IncrementarMueve DEF PcpSignal
  <1>7. ASSUME PcpLibera PROVE Incrementada
    BY <1>7, LiberaMueve DEF PcpLibera
  <1> QED  BY <1>1, <1>2, <1>3, <1>4, <1>5, <1>6, <1>7

\* And of the interfaces and the console.
LEMMA MovimientosIoConsola ==
  ASSUME Antes3
  PROVE  /\ \A i \in Interfaces : IoDesbloquea(i) =>
                \E x \in Pid : x = io_actual[i] /\ Mueve(i, "READY", x)
         /\ ConIniciar => \E x \in Pid : x = ultimo_pid /\ Mueve("-", "NEW", x)
         /\ ConEliminaNew => \E x \in Pid : x = con_pid /\ Mueve("NEW", "EXIT", x)
         /\ ConTermina => \E x \in Pid : x = con_pid /\ Mueve("-", "EXIT", x)
         /\ \A c \in Cola \ {"NEW", "EXIT"} : ConElimina(c) =>
                \E x \in Pid : x = con_pid /\ Mueve(c, "-", x)
         /\ ConLibera => Incrementada
  <1> USE DEF Antes3, DatosInv, TypeOK, LugarInv
  <1>1. ASSUME NEW i \in Interfaces, IoDesbloquea(i)
        PROVE  \E x \in Pid : x = io_actual[i] /\ Mueve(i, "READY", x)
    <2>1. PICK x : x = io_actual[i]
      OBVIOUS
    <2>2. /\ x # NULL /\ squeue_peek(colas[i]) = x
          /\ colas' = [colas EXCEPT ![i] = squeue_pop(colas[i]),
                                   !["READY"] = squeue_push(colas["READY"], x)]
      BY <1>1, <2>1, NombresDeColas
         DEF IoDesbloquea, SigueBloqueado, ColaDesbloqueados, TypeColas
    <2>3. i \in Cola /\ "READY" \in Cola /\ i # "READY"
      BY NombresDeColas
    <2>4. /\ colas'[i] = squeue_pop(colas[i]) /\ colas'["READY"] = squeue_push(colas["READY"], x)
          /\ \A e \in Cola : e # i /\ e # "READY" => colas'[e] = colas[e]
      BY <2>2, <2>3 DEF TypeColas
    <2>5. Sale(i, x) /\ x \in Pid
      BY <2>2, <2>3, <2>4, VistoSale
    <2> QED  BY <2>1, <2>3, <2>4, <2>5, DeColaEnCola
  <1>2. ASSUME ConIniciar PROVE \E x \in Pid : x = ultimo_pid /\ Mueve("-", "NEW", x)
    <2>1. ultimo_pid \in Pid
      BY <1>2, ConstantesOK DEF ConIniciar, TypeColas, Pid
    <2>2. PICK x \in Pid : x = ultimo_pid
      BY <2>1
    <2>3. x \notin Nacidos
      BY <2>2 DEF Nacidos, Pid
    <2>4. x \notin Range(colas["NEW"])
      BY <2>3, LugaresDef, NombresDeColas
    <2>5. /\ colas'["NEW"] = squeue_push(colas["NEW"], x)
          /\ \A e \in Cola : e # "NEW" => colas'[e] = colas[e]
      BY <1>2, <2>2, NombresDeColas DEF ConIniciar, TypeColas
    <2>6. Entra("NEW", x)
      BY <2>4, <2>5, PushEntra, NombresDeColas
    <2> QED  BY <2>2, <2>5, <2>6, NombresDeColas DEF Mueve
  <1>3. ASSUME ConEliminaNew PROVE \E x \in Pid : x = con_pid /\ Mueve("NEW", "EXIT", x)
    <2>1. PICK x : x = con_pid
      OBVIOUS
    <2>2. /\ Contiene(colas["NEW"], x)
          /\ colas'["NEW"] = Quitar(colas["NEW"], x)
          /\ colas'["EXIT"] = squeue_push(colas["EXIT"], x)
          /\ \A e \in Cola : e # "NEW" /\ e # "EXIT" => colas'[e] = colas[e]
      BY <1>3, <2>1, NombresDeColas DEF ConEliminaNew, TypeColas
    <2>3. Sale("NEW", x) /\ x \in Pid
      BY <2>2, QuitarSale, NombresDeColas
    <2> QED  BY <2>1, <2>2, <2>3, DeColaEnCola, NombresDeColas
  <1>4. ASSUME ConTermina PROVE \E x \in Pid : x = con_pid /\ Mueve("-", "EXIT", x)
    <2>0. PICK h \in Hilo : h = "consola"
      BY DEF Hilo, Fijos
    <2>1. /\ mano[h] = con_pid /\ con_pid \in Pid
          /\ colas' = [colas EXCEPT !["EXIT"] = squeue_push(colas["EXIT"], mano[h])]
      BY <1>4, <2>0 DEF ConTermina, ManoInv, ControlInv, ConsolaInv
    <2> QED  BY <2>1, DeMano, NullNoEsPid, NombresDeColas
  <1>5. ASSUME NEW c \in Cola \ {"NEW", "EXIT"}, ConElimina(c)
        PROVE  \E x \in Pid : x = con_pid /\ Mueve(c, "-", x)
    <2>1. PICK x : x = con_pid
      OBVIOUS
    <2>2. /\ Contiene(colas[c], x) /\ colas'[c] = Quitar(colas[c], x)
          /\ \A e \in Cola : e # c => colas'[e] = colas[e]
      BY <1>5, <2>1 DEF ConElimina, TypeColas
    <2>3. Sale(c, x) /\ x \in Pid
      BY <2>2, QuitarSale
    <2> QED  BY <2>1, <2>2, <2>3, NombresDeColas DEF Mueve
  <1>6. ASSUME ConLibera PROVE Incrementada
    BY <1>6, LiberaMueve DEF ConLibera
  <1> QED  BY <1>1, <1>2, <1>3, <1>4, <1>5, <1>6

\* And of an interface that leaves.
LEMMA MovimientosSalida ==
  ASSUME Antes3, NEW i \in Interfaces
  PROVE  /\ IoSacaBloqueado(i) => \E x \in Pid : x = mano'[i] /\ Mueve(i, "-", x)
         /\ \A r \in Recursos : IoDespierta(i, r) =>
                \E x \in Pid : x = Head(colas[r]) /\ Mueve(r, "READY", x)
         /\ IoElimina(i) => \E x \in Pid : x = mano[i] /\ Mueve("-", "EXIT", x)
  <1> USE DEF Antes3, DatosInv, TypeOK, LugarInv
  <1>1. ASSUME IoSacaBloqueado(i) PROVE \E x \in Pid : x = mano'[i] /\ Mueve(i, "-", x)
    <2>1. PICK x : x = squeue_peek(colas[i])
      OBVIOUS
    <2>2. x # NULL /\ mano'[i] = x
      <3>1. squeue_peek(colas[i]) = Head(colas[i]) /\ Head(colas[i]) \in Pid
        BY <1>1, PopLema, NombresDeColas DEF IoSacaBloqueado, TypeColas, squeue_peek
      <3> QED  BY <1>1, <2>1, <3>1, NullNoEsPid, NombresDeColas DEF IoSacaBloqueado, TypeColas
    <2>3. /\ colas'[i] = squeue_pop(colas[i])
          /\ \A e \in Cola : e # i => colas'[e] = colas[e]
      BY <1>1, NombresDeColas DEF IoSacaBloqueado, TypeColas
    <2>4. Sale(i, x) /\ x \in Pid
      BY <2>1, <2>2, <2>3, VistoSale, NombresDeColas
    <2> QED  BY <2>2, <2>3, <2>4, NombresDeColas DEF Mueve
  <1>2. ASSUME NEW r \in Recursos, IoDespierta(i, r)
        PROVE  \E x \in Pid : x = Head(colas[r]) /\ Mueve(r, "READY", x)
    BY <1>2, DespertarMueve DEF IoDespierta
  <1>3. ASSUME IoElimina(i) PROVE \E x \in Pid : x = mano[i] /\ Mueve("-", "EXIT", x)
    <2>1. /\ i \in Hilo /\ mano[i] # NULL
          /\ colas' = [colas EXCEPT !["EXIT"] = squeue_push(colas["EXIT"], mano[i])]
      BY <1>3, NombresDeColas DEF IoElimina, ManoIoInv, EnMano
    <2> QED  BY <2>1, DeMano, NombresDeColas
  <1> QED  BY <1>1, <1>2, <1>3

\* The steps that move nobody.
NoMueve ==
    \/ PlpVeNew \/ PlpTomaLugar \/ PlpDescarta \/ PlpAvisa \/ PcpVeReady
    \/ PcpConfirma \/ PcpRechaza \/ PcpElimina \/ Muere
    \/ \E r \in Recursos : PcpWaitDescuenta(r)
    \/ \E i \in Interfaces : IoToma(i) \/ IoAvanza(i) \/ IoDescarta(i) \/ IoAvisa(i)
    \/ \E n \in 0..MaxGrado : ConGrado(n)
    \/ ConDetener \/ \E p \in Pid : ConFinalizar(p)
    \/ ConReanudar \/ ConTomaPermiso \/ ConPausada \/ ConInterrumpe \/ ConNoEncuentra
    \/ ConSeTraba \/ UNCHANGED vars

\* They leave every queue, hand and allocation alone.
LEMMA Quietos ==
  ASSUME NoMueve
  PROVE  colas' = colas /\ mano' = mano /\ asignaciones' = asignaciones /\ ultimo_pid' = ultimo_pid
  BY IoAvanzaDef DEF NoMueve, recs, plp, pcp, io, grado, consola, cpu, PlpVeNew, PlpTomaLugar,
     PlpDescarta, PlpAvisa, PcpVeReady, PcpConfirma, PcpRechaza, PcpElimina, Muere,
     PcpWaitDescuenta, IoToma, IoDescarta, IoAvisa, ConGrado, ConDetener, ConFinalizar,
     ConReanudar, ConTomaPermiso, ConPausada, ConInterrumpe, ConNoEncuentra, ConSeTraba,
     DevolverLugar, Maneja, vars

\* The other ones.
LEMMA PasosQueMueven ==
  ASSUME [Next]_vars
  PROVE  \/ NoMueve
         \/ PlpSaca \/ PlpEncola \/ PcpDespacha \/ PcpRecibe \/ PcpFinQuantum \/ PcpLibera
         \/ PcpTermina
         \/ \E r \in Recursos : PcpWaitAsigna(r)
         \/ \E r \in Recursos : PcpWaitBloquea(r)
         \/ \E r \in Recursos : PcpSignal(r)
         \/ \E i \in Interfaces : PcpIo(i)
         \/ \E i \in Interfaces : IoDesbloquea(i)
         \/ \E i \in Interfaces : IoSacaBloqueado(i)
         \/ \E i \in Interfaces : \E r \in Recursos : IoDespierta(i, r)
         \/ \E i \in Interfaces : \E r \in Recursos : IoGuarda(i, r)
         \/ \E i \in Interfaces : IoElimina(i)
         \/ ConIniciar \/ ConEliminaNew \/ ConTermina
         \/ \E c \in Cola \ {"NEW", "EXIT"} : ConElimina(c)
         \/ ConLibera
  BY Pasos DEF NoMueve

-----------------------------------------------------------------------------
(* What a thread saw                                                        *)

\* Nobody leaves EXIT, and whom the console has in hand goes there.
LEMMA MatadoPaso ==
  ASSUME Antes3, [Next]_vars, NEW p \in Pid, Matado(p)
  PROVE  Matado(p)'
  <1> USE DEF recs, plp, pcp, io, grado, consola, cpu
  <1>0. "EXIT" \in Cola /\ "EXIT" \notin Recursos \cup Interfaces \cup {"NEW", "READY", "-"}
    BY NombresDeColas
  <1> DEFINE Crece == Range(colas["EXIT"]) \subseteq Range(colas'["EXIT"])
             Mano == mano'["consola"] = mano["consola"]
  <1>1. \A c, d, x : Mueve(c, d, x) /\ c # "EXIT" => Crece
    BY <1>0 DEF Mueve, Entra
  <1>2. Incrementada => Crece
    BY <1>0, <1>1 DEF Incrementada
  <1>3. colas' = colas => Crece
    OBVIOUS
  <1> HIDE DEF Crece
  <1>4. Crece /\ Mano => Matado(p)'
    BY DEF Matado, Contiene, Crece
  <1>5. CASE PlpSaca
    BY <1>0, <1>1, <1>4, <1>5, MovimientosPlp DEF PlpSaca, Antes3, DatosInv, TypeOK, TypeColas, Hilo, Fijos
  <1>6. CASE PlpEncola
    BY <1>0, <1>1, <1>4, <1>6, MovimientosPlp
       DEF PlpEncola, Antes3, DatosInv, TypeOK, TypeColas, Hilo, Fijos
  <1>7. CASE PcpDespacha
    BY <1>0, <1>1, <1>4, <1>7, MovimientosPcp
       DEF PcpDespacha, Antes3, DatosInv, TypeOK, TypeColas, Hilo, Fijos
  <1>8. CASE PcpRecibe
    BY <1>3, <1>4, <1>8 DEF PcpRecibe, Antes3, DatosInv, TypeOK, TypeColas, Hilo, Fijos
  <1>9. CASE PcpFinQuantum
    BY <1>0, <1>1, <1>4, <1>9, MovimientosPcp
       DEF PcpFinQuantum, Encolar, Antes3, DatosInv, TypeOK, TypeColas, Hilo, Fijos
  <1>10. CASE PcpLibera
    BY <1>2, <1>4, <1>10, MovimientosPcp DEF PcpLibera
  <1>11. CASE PcpTermina
    BY <1>0, <1>1, <1>4, <1>11, MovimientosPcp
       DEF PcpTermina, Antes3, DatosInv, TypeOK, TypeColas, Hilo, Fijos
  <1>12. ASSUME NEW r \in Recursos, PcpWaitAsigna(r) PROVE Matado(p)'
    BY <1>3, <1>4, <1>12
       DEF PcpWaitAsigna, DevolverEjecucion, Antes3, DatosInv, TypeOK, TypeColas, Hilo, Fijos
  <1>13. ASSUME NEW r \in Recursos, PcpWaitBloquea(r) PROVE Matado(p)'
    BY <1>0, <1>1, <1>4, <1>13, MovimientosPcp
       DEF PcpWaitBloquea, Encolar, Antes3, DatosInv, TypeOK, TypeColas, Hilo, Fijos
  <1>14. ASSUME NEW r \in Recursos, PcpSignal(r) PROVE Matado(p)'
    BY <1>2, <1>4, <1>14, MovimientosPcp
       DEF PcpSignal, DevolverEjecucion, Antes3, DatosInv, TypeOK, TypeColas, Hilo, Fijos
  <1>15. ASSUME NEW i \in Interfaces, PcpIo(i) PROVE Matado(p)'
    BY <1>0, <1>1, <1>4, <1>15, MovimientosPcp
       DEF PcpIo, Encolar, Antes3, DatosInv, TypeOK, TypeColas, Hilo, Fijos
  <1>16. ASSUME NEW i \in Interfaces, IoDesbloquea(i) PROVE Matado(p)'
    BY <1>0, <1>1, <1>4, <1>16, MovimientosIoConsola DEF IoDesbloquea
  <1>17. CASE ConIniciar
    BY <1>0, <1>1, <1>4, <1>17, MovimientosIoConsola DEF ConIniciar
  <1>18. CASE ConEliminaNew
    BY <1>0, <1>1, <1>4, <1>18, MovimientosIoConsola DEF ConEliminaNew
  <1>19. CASE ConTermina
    <2>1. PICK x \in Pid : x = con_pid /\ Mueve("-", "EXIT", x)
      BY <1>19, MovimientosIoConsola
    <2>2. mano["consola"] = x
      BY <1>19, <2>1 DEF ConTermina, Antes3, DatosInv, ManoInv
    <2>3. Range(colas'["EXIT"]) = Range(colas["EXIT"]) \cup {x}
      BY <1>0, <2>1 DEF Mueve, Entra
    <2> QED  BY <2>2, <2>3 DEF Matado, Contiene
  <1>20. ASSUME NEW c \in Cola \ {"NEW", "EXIT"}, ConElimina(c) PROVE Matado(p)'
    <2>1. mano["consola"] = NULL
      BY <1>20 DEF ConElimina, Antes3, DatosInv, ManoInv
    <2>2. Crece
      BY <1>1, <1>20, MovimientosIoConsola
    <2> QED  BY <2>1, <2>2, NullNoEsPid DEF Crece, Matado, Contiene
  <1>21. CASE ConLibera
    BY <1>2, <1>4, <1>21, MovimientosIoConsola DEF ConLibera
  <1>22. CASE NoMueve
    BY <1>3, <1>4, <1>22, Quietos
  <1>23. ASSUME NEW i \in Interfaces, IoSacaBloqueado(i) PROVE Matado(p)'
    <2>1. Mano
      BY <1>23, NombresDeColas DEF IoSacaBloqueado, Antes3, DatosInv, TypeOK, TypeColas, Fijos
    <2>2. i # "EXIT"
      BY <1>0
    <2>3. Crece
      BY <1>1, <1>23, <2>2, MovimientosSalida
    <2> QED  BY <1>4, <2>1, <2>3
  <1>24. ASSUME NEW i \in Interfaces, NEW r \in Recursos, IoDespierta(i, r) PROVE Matado(p)'
    BY <1>0, <1>1, <1>4, <1>24, MovimientosSalida DEF IoDespierta
  <1>25. ASSUME NEW i \in Interfaces, NEW r \in Recursos, IoGuarda(i, r) PROVE Matado(p)'
    BY <1>3, <1>4, <1>25 DEF IoGuarda
  <1>26. ASSUME NEW i \in Interfaces, IoElimina(i) PROVE Matado(p)'
    <2>1. Mano
      BY <1>26, NombresDeColas DEF IoElimina, Antes3, DatosInv, TypeOK, TypeColas, Fijos
    <2>2. Crece
      BY <1>0, <1>1, <1>26, MovimientosSalida
    <2> QED  BY <1>4, <2>1, <2>2
  <1> QED  BY PasosQueMueven, <1>5, <1>6, <1>7, <1>8, <1>9, <1>10, <1>11, <1>12, <1>13, <1>14, <1>15,
     <1>16, <1>17, <1>18, <1>19, <1>20, <1>21, <1>22, <1>23, <1>24, <1>25, <1>26

\* A move of somebody else, or of who was killed, leaves the first of a queue as it was seen.
LEMMA VistoMueve ==
  ASSUME NEW c \in Cola, NEW p, NEW a, NEW b, NEW x, Mueve(a, b, x), Visto(c, p),
         p # NULL => (Matado(p) => Matado(p)'), a = c => x # p \/ Matado(p)'
  PROVE  Visto(c, p)'
  <1>1. CASE p = NULL \/ Matado(p)
    BY <1>1 DEF Visto
  <1>2. CASE p # NULL /\ p = squeue_peek(colas[c])
    <2>1. CASE a # c /\ b # c
      BY <1>2, <2>1 DEF Mueve, Visto
    <2>2. CASE b = c
      BY <1>2, <2>2 DEF Mueve, Entra, Visto
    <2>3. CASE a = c
      BY <1>2, <2>3 DEF Mueve, Sale, Visto
    <2> QED  BY <2>1, <2>2, <2>3
  <1> QED  BY <1>1, <1>2 DEF Visto

\* The same of the steps that move nobody.
LEMMA VistoIgual ==
  ASSUME NEW c \in Cola, NEW p, colas' = colas, Visto(c, p),
         p # NULL => (Matado(p) => Matado(p)')
  PROVE  Visto(c, p)'
  BY DEF Visto

\* So what a thread saw stays as it saw it, but for its own pop.
LEMMA VistoSigue ==
  ASSUME Antes3, [Next]_vars, NEW c \in {"NEW", "READY"} \cup Interfaces, NEW p \in PidONada,
         Visto(c, p), c = "NEW" => ~PlpSaca, c = "READY" => ~PcpDespacha,
         c \in Interfaces => ~IoDesbloquea(c) /\ ~IoSacaBloqueado(c)
  PROVE  Visto(c, p)'
  <1>1. p # NULL => (Matado(p) => Matado(p)')
    BY MatadoPaso DEF PidONada
  <1>2. c \in Cola /\ c \notin Recursos \cup {"EXIT", "-"} /\ "NEW" \notin Interfaces
        /\ "READY" \notin Interfaces
    BY NombresDeColas
  <1>3. \A a, b, x : Mueve(a, b, x) /\ (a = c => x # p \/ Matado(p)') => Visto(c, p)'
    BY <1>1, <1>2, VistoMueve
  <1>4. colas' = colas => Visto(c, p)'
    BY <1>1, <1>2, VistoIgual
  <1>5. Incrementada => Visto(c, p)'
    BY <1>2, <1>3 DEF Incrementada
  <1>6. CASE PlpSaca
    BY <1>2, <1>3, <1>6, MovimientosPlp
  <1>7. CASE PlpEncola
    BY <1>2, <1>3, <1>7, MovimientosPlp
  <1>8. CASE PcpDespacha
    BY <1>2, <1>3, <1>8, MovimientosPcp
  <1>9. CASE PcpRecibe
    BY <1>4, <1>9 DEF PcpRecibe
  <1>10. CASE PcpFinQuantum
    BY <1>2, <1>3, <1>10, MovimientosPcp
  <1>11. CASE PcpLibera
    BY <1>5, <1>11, MovimientosPcp
  <1>12. CASE PcpTermina
    BY <1>2, <1>3, <1>12, MovimientosPcp
  <1>13. ASSUME NEW r \in Recursos, PcpWaitAsigna(r) PROVE Visto(c, p)'
    BY <1>4, <1>13 DEF PcpWaitAsigna
  <1>14. ASSUME NEW r \in Recursos, PcpWaitBloquea(r) PROVE Visto(c, p)'
    BY <1>2, <1>3, <1>14, MovimientosPcp
  <1>15. ASSUME NEW r \in Recursos, PcpSignal(r) PROVE Visto(c, p)'
    BY <1>5, <1>15, MovimientosPcp
  <1>16. ASSUME NEW i \in Interfaces, PcpIo(i) PROVE Visto(c, p)'
    BY <1>2, <1>3, <1>16, MovimientosPcp
  <1>17. ASSUME NEW i \in Interfaces, IoDesbloquea(i) PROVE Visto(c, p)'
    BY <1>2, <1>3, <1>17, MovimientosIoConsola
  <1>18. CASE ConIniciar
    BY <1>2, <1>3, <1>18, MovimientosIoConsola
  <1>19. CASE ConEliminaNew
    <2>1. PICK x \in Pid : x = con_pid /\ Mueve("NEW", "EXIT", x)
      BY <1>19, MovimientosIoConsola
    <2>2. x \in Range(colas'["EXIT"])
      BY <2>1, NombresDeColas DEF Mueve, Entra
    <2>3. x = p => Matado(p)'
      BY <2>2 DEF Matado, Contiene
    <2> QED  BY <1>3, <2>1, <2>3
  <1>20. CASE ConTermina
    BY <1>2, <1>3, <1>20, MovimientosIoConsola
  <1>21. ASSUME NEW d \in Cola \ {"NEW", "EXIT"}, ConElimina(d) PROVE Visto(c, p)'
    <2>1. PICK x \in Pid : x = con_pid /\ Mueve(d, "-", x)
      BY <1>21, MovimientosIoConsola
    <2>2. mano'["consola"] = x
      BY <1>21, <2>1 DEF ConElimina, Antes3, DatosInv, TypeOK, TypeColas, Hilo, Fijos
    <2>3. x = p => Matado(p)'
      BY <2>2 DEF Matado
    <2> QED  BY <1>3, <2>1, <2>3
  <1>22. CASE ConLibera
    BY <1>5, <1>22, MovimientosIoConsola
  <1>23. CASE NoMueve
    BY <1>4, <1>23, Quietos
  <1>24. ASSUME NEW i \in Interfaces, IoSacaBloqueado(i) PROVE Visto(c, p)'
    <2>1. PICK x \in Pid : Mueve(i, "-", x)
      BY <1>24, MovimientosSalida
    <2>2. i # c
      BY <1>2, <1>24
    <2> QED  BY <1>3, <2>1, <2>2
  <1>25. ASSUME NEW i \in Interfaces, NEW r \in Recursos, IoDespierta(i, r) PROVE Visto(c, p)'
    <2>1. PICK x \in Pid : Mueve(r, "READY", x)
      BY <1>25, MovimientosSalida
    <2>2. r # c
      BY <1>2
    <2> QED  BY <1>3, <2>1, <2>2
  <1>26. ASSUME NEW i \in Interfaces, NEW r \in Recursos, IoGuarda(i, r) PROVE Visto(c, p)'
    BY <1>4, <1>26 DEF IoGuarda
  <1>27. ASSUME NEW i \in Interfaces, IoElimina(i) PROVE Visto(c, p)'
    <2>1. PICK x \in Pid : Mueve("-", "EXIT", x)
      BY <1>27, MovimientosSalida
    <2> QED  BY <1>2, <1>3, <2>1
  <1> QED  BY PasosQueMueven, <1>6, <1>7, <1>8, <1>9, <1>10, <1>11, <1>12, <1>13, <1>14, <1>15,
     <1>16, <1>17, <1>18, <1>19, <1>20, <1>21, <1>22, <1>23, <1>24, <1>25, <1>26, <1>27

\* Who looks, and who only goes on with what it saw.
MiraPlp == plp_pc' \in {"espera_grado", "espera_permiso"} =>
    PlpVeNew \/ (plp_pc \in {"espera_grado", "espera_permiso"} /\ ~PlpSaca /\ plp_visto' = plp_visto)
MiraPcp == pcp_pc' = "espera_exec" =>
    PcpVeReady \/ (pcp_pc = "espera_exec" /\ ~PcpDespacha /\ pcp_visto' = pcp_visto)
MiraIo(i) == io_pc'[i] \in {"opera", "espera_permiso"} =>
    IoToma(i) \/ (io_pc[i] \in {"opera", "espera_permiso"} /\ ~IoDesbloquea(i)
                  /\ ~IoSacaBloqueado(i) /\ io_actual'[i] = io_actual[i])

\* An interface moves itself only.
LEMMA IoSolo ==
  ASSUME TypeOK, NEW j \in Interfaces, Io(j)
  PROVE  /\ UNCHANGED <<plp, pcp>> /\ MiraIo(j)
         /\ \A i \in Interfaces : i # j => io_pc'[i] = io_pc[i] /\ io_actual'[i] = io_actual[i]
  <1> USE DEF recs, plp, pcp, io, grado, consola, cpu, TypeOK, TypeColas, TypeHilos, MiraIo
  <1>1. CASE IoAvanza(j)
    <2>1. PICK x \in {"espera_permiso"} \cup Saliendo \cup {"fuera"} :
             /\ io_pc' = [io_pc EXCEPT ![j] = x]
             /\ x = "espera_permiso" => io_pc[j] = "opera" /\ UNCHANGED io_actual
      BY <1>1, IoAvanzaDef
    <2>2. io_actual' \in {io_actual, [io_actual EXCEPT ![j] = NULL]} /\ UNCHANGED <<plp, pcp>>
      BY <1>1, IoAvanzaDef
    <2>3. x \in {"opera", "espera_permiso"} => x = "espera_permiso"
      BY DEF Saliendo
    <2>4. MiraIo(j)
      BY <2>1, <2>3 DEF IoDesbloquea, IoSacaBloqueado
    <2> QED  BY <2>1, <2>2, <2>4
  <1>2. CASE Muere
    BY <1>2 DEF Muere, IoDesbloquea, IoSacaBloqueado
  <1>3. CASE IoToma(j) \/ IoDesbloquea(j) \/ IoDescarta(j) \/ IoAvisa(j)
    BY <1>3 DEF IoToma, IoDesbloquea, IoDescarta, IoAvisa
  <1>4. CASE IoSacaBloqueado(j) \/ IoElimina(j)
    BY <1>4 DEF IoSacaBloqueado, IoElimina
  <1>5. ASSUME NEW r \in Recursos, IoDespierta(j, r) \/ IoGuarda(j, r)
        PROVE  /\ UNCHANGED <<plp, pcp>> /\ MiraIo(j)
               /\ \A i \in Interfaces : i # j => io_pc'[i] = io_pc[i] /\ io_actual'[i] = io_actual[i]
    BY <1>5 DEF IoDespierta, IoGuarda
  <1> QED  BY <1>1, <1>2, <1>3, <1>4, <1>5 DEF Io, IoAvanza, IoLeeNull, IoLeeLiberado, IoSacaNull

\* A thread that has seen something has just looked, or had seen it before.
LEMMA QuienMira ==
  ASSUME TypeOK, [Next]_vars
  PROVE  MiraPlp /\ MiraPcp /\ \A i \in Interfaces : MiraIo(i)
  <1> USE DEF recs, plp, pcp, io, grado, consola, cpu, TypeOK
  <1>1. UNCHANGED plp => MiraPlp
    BY DEF MiraPlp, PlpSaca
  <1>2. UNCHANGED pcp => MiraPcp
    BY DEF MiraPcp, PcpDespacha
  <1>3. ASSUME NEW i \in Interfaces, io_pc'[i] = io_pc[i], io_actual'[i] = io_actual[i]
        PROVE  MiraIo(i)
    BY <1>3 DEF MiraIo, IoDesbloquea, IoSacaBloqueado, TypeColas, TypeHilos
  <1>4. CASE Plp
    <2>1. UNCHANGED <<pcp_pc, pcp_visto, io_pc, io_actual>>
      BY <1>4 DEF Plp, PlpVeNew, PlpTomaLugar, PlpSaca, PlpDescarta, PlpEncola, PlpAvisa
    <2>2. MiraPlp
      BY <1>4 DEF Plp, PlpVeNew, PlpTomaLugar, PlpSaca, PlpDescarta, PlpEncola, PlpAvisa, MiraPlp
    <2>3. MiraPcp
      BY <2>1 DEF MiraPcp, PcpDespacha
    <2> QED  BY <1>3, <2>1, <2>2, <2>3
  <1>5. CASE Pcp
    <2>1. UNCHANGED <<plp_pc, plp_visto, io_pc, io_actual>>
      BY <1>5 DEF Pcp, PcpVeReady, PcpConfirma, PcpRechaza, PcpDespacha, PcpRecibe, PcpFinQuantum,
         PcpElimina, PcpLibera, PcpTermina, PcpWaitDescuenta, PcpWaitAsigna, PcpWaitBloquea,
         PcpSignal, PcpSacaNull, PopDeNull, Muere, PcpIo, Encolar, DevolverEjecucion
    <2>2. MiraPcp
      BY <1>5 DEF Pcp, PcpVeReady, PcpConfirma, PcpRechaza, PcpDespacha, PcpRecibe, PcpFinQuantum,
         PcpElimina, PcpLibera, PcpTermina, PcpWaitDescuenta, PcpWaitAsigna, PcpWaitBloquea,
         PcpSignal, PcpSacaNull, PopDeNull, Muere, PcpIo, Encolar, DevolverEjecucion, MiraPcp
    <2>3. MiraPlp
      BY <2>1 DEF MiraPlp, PlpSaca
    <2> QED  BY <1>3, <2>1, <2>2, <2>3
  <1>6. ASSUME NEW j \in Interfaces, Io(j) PROVE MiraPlp /\ MiraPcp /\ \A i \in Interfaces : MiraIo(i)
    BY <1>1, <1>2, <1>3, <1>6, IoSolo
  <1>7. CASE Operador \/ Comando \/ UNCHANGED vars
    <2>1. UNCHANGED plp /\ UNCHANGED pcp /\ UNCHANGED <<io_pc, io_actual>>
      BY <1>7 DEF Operador, Comando, vars, ConIniciar, ConDetener, ConReanudar, ConGrado,
         ConFinalizar, ConTomaPermiso, ConPausada, ConInterrumpe, ConEliminaNew, ConElimina,
         ConNoEncuentra, ConLibera, ConSeTraba, ConTermina, ConSacaNull, ConAserto, PopDeNull, Muere
    <2> QED  BY <1>1, <1>2, <1>3, <2>1
  <1> QED  BY <1>4, <1>5, <1>6, <1>7 DEF Next

\* What the threads saw is still the first one of its queue, or was killed.
LEMMA VistosPaso ==
  ASSUME Antes3, VistosInv, [Next]_vars
  PROVE  VistosInv'
  <1> USE DEF recs, plp, pcp, io, grado, consola, cpu
  <1>0. TypeOK
    BY DEF Antes3, DatosInv
  <1>1. ASSUME plp_pc' \in {"espera_grado", "espera_permiso"} PROVE Visto("NEW", plp_visto)'
    <2>1. CASE PlpVeNew
      BY <2>1 DEF PlpVeNew, Visto
    <2>2. CASE ~PlpVeNew
      <3>1. plp_pc \in {"espera_grado", "espera_permiso"} /\ ~PlpSaca /\ plp_visto' = plp_visto
        BY <1>0, <1>1, <2>2, QuienMira DEF MiraPlp
      <3>2. PICK p \in PidONada : p = plp_visto
        BY <1>0 DEF TypeOK, TypeColas
      <3>3. Visto("NEW", p)
        BY <3>1, <3>2 DEF VistosInv
      <3>4. Visto("NEW", p)'
        BY <3>1, <3>3, VistoSigue, NombresDeColas
      <3> QED  BY <3>1, <3>2, <3>4 DEF Visto, Matado
    <2> QED  BY <2>1, <2>2
  <1>2. ASSUME pcp_pc' = "espera_exec" PROVE Visto("READY", pcp_visto)'
    <2>1. CASE PcpVeReady
      BY <2>1 DEF PcpVeReady, peek_siguiente_pcb, ColaSiguiente, Visto, Antes3, LugarInv
    <2>2. CASE ~PcpVeReady
      <3>1. pcp_pc = "espera_exec" /\ ~PcpDespacha /\ pcp_visto' = pcp_visto
        BY <1>0, <1>2, <2>2, QuienMira DEF MiraPcp
      <3>2. PICK p \in PidONada : p = pcp_visto
        BY <1>0 DEF TypeOK, TypeColas
      <3>3. Visto("READY", p)
        BY <3>1, <3>2 DEF VistosInv
      <3>4. Visto("READY", p)'
        BY <3>1, <3>3, VistoSigue, NombresDeColas
      <3> QED  BY <3>1, <3>2, <3>4 DEF Visto, Matado
    <2> QED  BY <2>1, <2>2
  <1>3. ASSUME NEW i \in Interfaces, io_pc'[i] \in {"opera", "espera_permiso"}
        PROVE  Visto(i, io_actual[i])'
    <2>1. CASE IoToma(i)
      BY <1>0, <2>1 DEF IoToma, Visto, TypeOK, TypeColas
    <2>2. CASE ~IoToma(i)
      <3>1. /\ io_pc[i] \in {"opera", "espera_permiso"} /\ ~IoDesbloquea(i)
            /\ ~IoSacaBloqueado(i) /\ io_actual'[i] = io_actual[i]
        BY <1>0, <1>3, <2>2, QuienMira DEF MiraIo
      <3>2. PICK p \in PidONada : p = io_actual[i]
        BY <1>0 DEF TypeOK, TypeColas
      <3>3. Visto(i, p)
        BY <3>1, <3>2 DEF VistosInv
      <3>4. Visto(i, p)'
        BY <3>1, <3>3, VistoSigue, NombresDeColas
      <3> QED  BY <3>1, <3>2, <3>4 DEF Visto, Matado
    <2> QED  BY <2>1, <2>2
  <1> QED  BY <1>1, <1>2, <1>3 DEF VistosInv

\* A process that was seen in a queue and is there is the first one.
LEMMA VistoPrimero ==
  ASSUME TypeColas, LugaresInv, NEW c \in Cola \ {"EXIT"}, NEW p, Visto(c, p),
         Contiene(colas[c], p)
  PROVE  p # NULL /\ p = squeue_peek(colas[c])
  <1>1. p \in Range(colas[c]) /\ "EXIT" \in Cola /\ "consola" \in Hilo
    BY NombresDeColas DEF Contiene, Hilo, Fijos
  <1>2. p # NULL
    BY <1>1, NullNoNace, LugaresDef
  <1>3. ~Matado(p)
    BY <1>1, LugaresDef DEF Matado, Contiene
  <1> QED  BY <1>2, <1>3 DEF Visto

-----------------------------------------------------------------------------
(* READY and its semaphore                                                  *)

\* The interfaces about to post, as they push and post.
LEMMA AvisanPaso ==
  ASSUME TypeOK, IsFiniteSet(Avisan), [Next]_vars
  PROVE  /\ IsFiniteSet(Avisan') /\ Cardinality(Avisan) \in Nat /\ Cardinality(Avisan') \in Nat
         /\ \A i \in Interfaces : IoDesbloquea(i) =>
                Cardinality(Avisan') = Cardinality(Avisan) + 1
         /\ \A i \in Interfaces : IoAvisa(i) => Cardinality(Avisan') = Cardinality(Avisan) - 1
         /\ (\A i \in Interfaces : ~IoDesbloquea(i) /\ ~IoAvisa(i)) => Avisan' = Avisan
  <1> USE DEF recs, plp, pcp, io, grado, consola, cpu
  <1>1. ASSUME NEW i \in Interfaces, IoDesbloquea(i)
        PROVE  Avisan' = Avisan \cup {i} /\ i \notin Avisan
    BY <1>1 DEF IoDesbloquea, Avisan, TypeOK, TypeHilos
  <1>2. ASSUME NEW i \in Interfaces, IoAvisa(i) PROVE Avisan' = Avisan \ {i} /\ i \in Avisan
    BY <1>2 DEF IoAvisa, Avisan, TypeOK, TypeHilos
  <1>3. ASSUME \A i \in Interfaces : ~IoDesbloquea(i) /\ ~IoAvisa(i) PROVE Avisan' = Avisan
    <2>1. CASE Plp
      BY <2>1 DEF Plp, PlpVeNew, PlpTomaLugar, PlpSaca, PlpDescarta, PlpEncola, PlpAvisa, Avisan
    <2>2. CASE Pcp
      BY <2>2 DEF Pcp, PcpVeReady, PcpConfirma, PcpRechaza, PcpDespacha, PcpRecibe, PcpFinQuantum,
         PcpElimina, PcpLibera, PcpTermina, PcpWaitDescuenta, PcpWaitAsigna, PcpWaitBloquea,
         PcpSignal, PcpSacaNull, PopDeNull, Muere, PcpIo, Encolar, DevolverEjecucion, Avisan
    <2>3. ASSUME NEW j \in Interfaces, Io(j) PROVE Avisan' = Avisan
      <3> USE DEF Avisan, TypeOK, TypeHilos
      <3>1. CASE IoAvanza(j)
        <4>1. PICK x \in {"espera_permiso"} \cup Saliendo \cup {"fuera"} :
                 io_pc' = [io_pc EXCEPT ![j] = x]
          BY <3>1, IoAvanzaDef
        <4>2. x # "avisa" /\ io_pc[j] # "avisa"
          BY <3>1, IoAvanzaDef DEF Saliendo
        <4> QED  BY <4>1, <4>2
      <3>2. CASE Muere
        BY <3>2 DEF Muere
      <3>3. CASE IoToma(j) \/ IoDescarta(j) \/ IoSacaBloqueado(j) \/ IoElimina(j)
        BY <3>3 DEF IoToma, IoDescarta, IoSacaBloqueado, IoElimina
      <3>4. ASSUME NEW r \in Recursos, IoDespierta(j, r) \/ IoGuarda(j, r) PROVE Avisan' = Avisan
        BY <3>4 DEF IoDespierta, IoGuarda
      <3> QED  BY <1>3, <2>3, <3>1, <3>2, <3>3, <3>4
             DEF Io, IoAvanza, IoLeeNull, IoLeeLiberado, IoSacaNull
    <2>4. CASE Operador \/ Comando \/ UNCHANGED vars
      BY <2>4 DEF Operador, Comando, vars, ConIniciar, ConDetener, ConReanudar, ConGrado,
         ConFinalizar, ConTomaPermiso, ConPausada, ConInterrumpe, ConEliminaNew, ConElimina,
         ConNoEncuentra, ConLibera, ConSeTraba, ConTermina, ConSacaNull, ConAserto, PopDeNull,
         Muere, Avisan
    <2> QED  BY <2>1, <2>2, <2>3, <2>4 DEF Next
  <1>4. Cardinality(Avisan) \in Nat
    BY FS_CardinalityType
  <1>5. ASSUME NEW i \in Interfaces, IoDesbloquea(i)
        PROVE  IsFiniteSet(Avisan') /\ Cardinality(Avisan') = Cardinality(Avisan) + 1
    BY <1>1, <1>5, FS_AddElement
  <1>6. ASSUME NEW i \in Interfaces, IoAvisa(i)
        PROVE  IsFiniteSet(Avisan') /\ Cardinality(Avisan') = Cardinality(Avisan) - 1
    BY <1>2, <1>6, FS_RemoveElement
  <1>7. IsFiniteSet(Avisan')
    BY <1>3, <1>5, <1>6
  <1> QED  BY <1>3, <1>4, <1>5, <1>6, <1>7, FS_CardinalityType

\* The process the PCP saw is still in READY, and its unit is the one the PCP took.
Mirado == pcp_pc \in {"espera_exec", "saca"} /\ Contiene(colas["READY"], pcp_visto)
ReadyAvisado ==
    Len(colas["READY"]) <= sem_elementos_en_ready + (IF plp_pc = "avisa" THEN 1 ELSE 0)
                           + Cardinality(Avisan) + (IF Mirado THEN 1 ELSE 0)

\* AvisosReady, when READY_PLUS is empty.
LEMMA AvisosReadyDef == TypeOK /\ colas["READY_PLUS"] = <<>> => (AvisosReady <=> ReadyAvisado)
  <1> SUFFICES ASSUME TypeOK, colas["READY_PLUS"] = <<>> PROVE AvisosReady <=> ReadyAvisado
    OBVIOUS
  <1>1. Len(colas["READY_PLUS"]) = 0 /\ \A x : ~Contiene(colas["READY_PLUS"], x)
    BY DEF Contiene, Range
  <1>2. (\E c \in {"READY", "READY_PLUS"} : Contiene(colas[c], pcp_visto))
            <=> Contiene(colas["READY"], pcp_visto)
    BY <1>1
  <1>3. Len(colas["READY"]) + Len(colas["READY_PLUS"]) = Len(colas["READY"])
    <2>1. Len(colas["READY"]) \in Nat
      BY NombresDeColas, LenProperties DEF TypeOK, TypeColas
    <2> QED  BY <1>1, <2>1
  <1> QED  BY <1>1, <1>2, <1>3 DEF AvisosReady, ReadyAvisado, Mirado, Avisan, Uno

\* The same in the next state.
LEMMA AvisosReadyDefSig ==
    (TypeOK /\ colas["READY_PLUS"] = <<>> => (AvisosReady <=> ReadyAvisado))'
  BY AvisosReadyDef, PTL

\* The units that READY has: posted, or about to be.
Haber == sem_elementos_en_ready + (IF plp_pc = "avisa" THEN 1 ELSE 0) + Cardinality(Avisan)

\* They are counted in naturals, and ReadyAvisado compares with them.
LEMMA HaberTipo ==
  ASSUME TypeOK, Cardinality(Avisan) \in Nat
  PROVE  Haber \in Nat /\ Len(colas["READY"]) \in Nat
         /\ (ReadyAvisado <=> Len(colas["READY"]) <= Haber + (IF Mirado THEN 1 ELSE 0))
  <1>1. sem_elementos_en_ready \in Nat /\ Len(colas["READY"]) \in Nat
    BY NombresDeColas, LenProperties DEF TypeOK, TypeContadores, TypeColas
  <1>2. PICK s \in Nat, n \in Nat : s = sem_elementos_en_ready /\ n = Cardinality(Avisan)
    BY <1>1
  <1> QED  BY <1>1, <1>2 DEF Haber, ReadyAvisado

\* The same in the next state.
LEMMA HaberTipoSig ==
    (TypeOK /\ Cardinality(Avisan) \in Nat
        => /\ Haber \in Nat /\ Len(colas["READY"]) \in Nat
           /\ ReadyAvisado <=> Len(colas["READY"]) <= Haber + (IF Mirado THEN 1 ELSE 0))'
  <1>1. TypeOK /\ Cardinality(Avisan) \in Nat
            => /\ Haber \in Nat /\ Len(colas["READY"]) \in Nat
               /\ ReadyAvisado <=> Len(colas["READY"]) <= Haber + (IF Mirado THEN 1 ELSE 0)
    BY HaberTipo
  <1> QED  BY <1>1, PTL

\* As many units come as processes, and the PCP does not lose the one it has.
LEMMA Alcanza ==
  ASSUME TypeOK, TypeOK', Cardinality(Avisan) \in Nat, Cardinality(Avisan)' \in Nat,
         ReadyAvisado, NEW k \in {0, 1}, Len(colas'["READY"]) = Len(colas["READY"]) + k,
         Haber' = Haber + k, Mirado => Mirado'
  PROVE  ReadyAvisado'
  <1>1. PICK a \in Nat, b \in Nat : a = Haber /\ b = Len(colas["READY"])
    BY HaberTipo
  <1>2. b <= a + (IF Mirado THEN 1 ELSE 0)
    BY <1>1, HaberTipo
  <1>3. b + k <= a + k + (IF Mirado' THEN 1 ELSE 0)
    BY <1>1, <1>2
  <1>4. (Haber \in Nat /\ Len(colas["READY"]) \in Nat
         /\ (ReadyAvisado <=> Len(colas["READY"]) <= Haber + (IF Mirado THEN 1 ELSE 0)))'
    BY HaberTipoSig
  <1> QED  BY <1>1, <1>3, <1>4

\* Neither comes.
LEMMA AlcanzaIgual ==
  ASSUME TypeOK, TypeOK', Cardinality(Avisan) \in Nat, Cardinality(Avisan)' \in Nat,
         ReadyAvisado, colas'["READY"] = colas["READY"], Haber' = Haber, Mirado => Mirado'
  PROVE  ReadyAvisado'
  <1>1. PICK k \in {0, 1} : k = 0
    OBVIOUS
  <1>2. Len(colas["READY"]) \in Nat /\ Haber \in Nat
    BY HaberTipo
  <1>3. Len(colas'["READY"]) = Len(colas["READY"]) + k /\ Haber' = Haber + k
    BY <1>1, <1>2
  <1> QED  BY <1>3, Alcanza

\* The steps that neither push to READY nor post, and leave the PCP alone.
LEMMA ReadyQuieto ==
  ASSUME TypeOK, TypeOK', Cardinality(Avisan) \in Nat, Cardinality(Avisan)' \in Nat,
         ReadyAvisado, colas'["READY"] = colas["READY"],
         UNCHANGED <<sem_elementos_en_ready, io_pc>>, plp_pc' = "avisa" <=> plp_pc = "avisa",
         UNCHANGED <<pcp_pc, pcp_visto>>
  PROVE  ReadyAvisado'
  <1>1. Avisan' = Avisan
    BY DEF Avisan
  <1>2. Haber' = Haber
    BY <1>1 DEF Haber
  <1>3. Mirado => Mirado'
    BY DEF Mirado
  <1> QED  BY <1>2, <1>3, AlcanzaIgual

\* A process enters READY and its unit comes with it.
LEMMA ReadyConPost ==
  ASSUME TypeOK, TypeOK', Cardinality(Avisan) \in Nat, Cardinality(Avisan)' \in Nat,
         ReadyAvisado, NEW x, Entra("READY", x), Haber' = Haber + 1,
         (pcp_pc' = pcp_pc /\ pcp_visto' = pcp_visto) \/ ~Mirado
  PROVE  ReadyAvisado'
  <1>1. Len(colas'["READY"]) = Len(colas["READY"]) + 1
    BY DEF Entra
  <1>2. Mirado => Mirado'
    BY DEF Mirado, Entra, Contiene
  <1>3. PICK k \in {0, 1} : k = 1
    OBVIOUS
  <1> QED  BY <1>1, <1>2, <1>3, Alcanza

\* incrementar_recurso posts for the process it pushes.
LEMMA ReadyDespertado ==
  ASSUME TypeOK, TypeOK', Cardinality(Avisan) \in Nat, Cardinality(Avisan)' \in Nat,
         ReadyAvisado, LugaresInv, NEW r \in Recursos, NEW asig, Despertar(r, asig),
         Avisan' = Avisan, UNCHANGED plp_pc,
         (pcp_pc' = pcp_pc /\ pcp_visto' = pcp_visto) \/ ~Mirado
  PROVE  ReadyAvisado'
  <1>1. PICK x \in Pid : Entra("READY", x)
    BY DespertarMueve, NombresDeColas DEF TypeOK, Mueve
  <1>2. sem_elementos_en_ready' = sem_elementos_en_ready + 1
    BY DEF Despertar
  <1>3. Haber' = Haber + 1
    <2>1. PICK s \in Nat, n \in Nat : s = sem_elementos_en_ready /\ n = Cardinality(Avisan)
      BY DEF TypeOK, TypeContadores
    <2> QED  BY <1>2, <2>1 DEF Haber
  <1> QED  BY <1>1, <1>3, ReadyConPost

\* The same of the PCP and the console, that may have nobody to wake.
LEMMA ReadyIncrementado ==
  ASSUME TypeOK, TypeOK', Cardinality(Avisan) \in Nat, Cardinality(Avisan)' \in Nat,
         ReadyAvisado, LugaresInv, NEW r \in Recursos, NEW asig, IncrementarRecurso(r, asig),
         UNCHANGED <<io_pc, plp_pc>>,
         (pcp_pc' = pcp_pc /\ pcp_visto' = pcp_visto) \/ ~Mirado
  PROVE  ReadyAvisado'
  <1>1. Avisan' = Avisan
    BY DEF Avisan
  <1>2. CASE Despertar(r, asig)
    BY <1>1, <1>2, ReadyDespertado
  <1>3. CASE colas' = colas /\ sem_elementos_en_ready' = sem_elementos_en_ready
    <2>1. Haber' = Haber
      BY <1>1, <1>3 DEF Haber
    <2>2. Mirado => Mirado'
      BY <1>3 DEF Mirado
    <2> QED  BY <1>3, <2>1, <2>2, AlcanzaIgual
  <1> QED  BY <1>2, <1>3 DEF IncrementarRecurso

\* A process leaves READY: the unit the PCP has can go with it.
LEMMA ReadySale ==
  ASSUME TypeOK, TypeOK', Cardinality(Avisan) \in Nat, Cardinality(Avisan)' \in Nat,
         ReadyAvisado, NEW x, Sale("READY", x), UNCHANGED <<sem_elementos_en_ready, io_pc, plp_pc>>
  PROVE  ReadyAvisado'
  <1>1. Avisan' = Avisan
    BY DEF Avisan
  <1>2. PICK a \in Nat, b \in Nat : a = Haber /\ b = Len(colas["READY"])
    BY HaberTipo
  <1>3. Haber' = a
    BY <1>1, <1>2 DEF Haber
  <1>4. Len(colas'["READY"]) = b - 1
    BY <1>2 DEF Sale
  <1>5. b <= a + (IF Mirado THEN 1 ELSE 0)
    BY <1>2, HaberTipo
  <1>6. b - 1 <= a
    BY <1>5
  <1>7. (Haber \in Nat /\ Len(colas["READY"]) \in Nat
         /\ (ReadyAvisado <=> Len(colas["READY"]) <= Haber + (IF Mirado THEN 1 ELSE 0)))'
    BY HaberTipoSig
  <1> QED  BY <1>3, <1>4, <1>6, <1>7

\* Every step keeps a unit for each process in READY.
LEMMA ReadyPaso ==
  ASSUME Antes3, TypeOK', VistosInv, IsFiniteSet(Avisan), ReadyAvisado, [Next]_vars
  PROVE  ReadyAvisado'
  <1> USE DEF recs, plp, pcp, io, grado, consola, cpu
  <1>0. /\ TypeOK /\ TypeColas /\ LugaresInv /\ BloqueadosContados /\ ManoInv /\ ControlInv
        /\ colas["READY_PLUS"] = <<>>
        /\ Cardinality(Avisan) \in Nat /\ Cardinality(Avisan)' \in Nat
        /\ "READY" \in Cola /\ "READY" \notin Recursos \cup Interfaces \cup {"NEW", "EXIT", "-"}
    BY AvisanPaso, NombresDeColas DEF Antes3, DatosInv, TypeOK, LugarInv
  <1>a. PICK s \in Nat, n \in Nat : s = sem_elementos_en_ready /\ n = Cardinality(Avisan)
    BY <1>0 DEF TypeOK, TypeContadores
  <1>1. CASE PlpVeNew \/ PlpTomaLugar \/ PlpDescarta
    BY <1>0, <1>1, ReadyQuieto DEF PlpVeNew, PlpTomaLugar, PlpDescarta
  <1>2. CASE PlpSaca
    <2>1. colas'["READY"] = colas["READY"]
      BY <1>0, <1>2, MovimientosPlp DEF Mueve
    <2> QED  BY <1>0, <1>2, <2>1, ReadyQuieto DEF PlpSaca
  <1>3. CASE PlpEncola
    <2>1. PICK x \in Pid : Entra("READY", x)
      BY <1>0, <1>3, MovimientosPlp DEF Mueve
    <2>2. Haber' = Haber + 1
      BY <1>3, <1>a DEF PlpEncola, Haber, Avisan
    <2> QED  BY <1>0, <1>3, <2>1, <2>2, ReadyConPost DEF PlpEncola
  <1>4. CASE PlpAvisa
    <2>1. Haber' = Haber
      BY <1>4, <1>a DEF PlpAvisa, Haber, Avisan
    <2>2. Mirado' = Mirado /\ colas' = colas
      BY <1>4 DEF PlpAvisa, Mirado
    <2> QED  BY <1>0, <2>1, <2>2, AlcanzaIgual
  <1>5. CASE PcpVeReady
    <2>1. Haber' = Haber - 1 /\ Haber > 0 /\ colas' = colas /\ ~Mirado
      BY <1>5, <1>a DEF PcpVeReady, Haber, Avisan, Mirado
    <2>2. PICK a \in Nat, b \in Nat : a = Haber /\ b = Len(colas["READY"])
      BY <1>0, HaberTipo
    <2>3. b <= a
      BY <1>0, <2>1, <2>2, HaberTipo
    <2>4. b # 0 => Mirado'
      <3>1. SUFFICES ASSUME b # 0 PROVE Mirado'
        OBVIOUS
      <3>2. colas["READY"] # <<>>
        BY <2>2, <3>1, <1>0, EmptySeq DEF TypeColas
      <3>3. pcp_visto' = Head(colas["READY"]) /\ pcp_pc' = "espera_exec"
        BY <1>0, <1>5, <3>2 DEF PcpVeReady, peek_siguiente_pcb, ColaSiguiente, squeue_peek
      <3>4. Head(colas["READY"]) \in Range(colas["READY"])
        BY <1>0, <3>2, Sacar
      <3> QED  BY <2>1, <3>3, <3>4 DEF Mirado, Contiene
    <2>5. b <= a - 1 + (IF Mirado' THEN 1 ELSE 0)
      BY <2>1, <2>2, <2>3, <2>4
    <2>6. (Haber \in Nat /\ Len(colas["READY"]) \in Nat
           /\ (ReadyAvisado <=> Len(colas["READY"]) <= Haber + (IF Mirado THEN 1 ELSE 0)))'
      BY <1>0, HaberTipoSig
    <2> QED  BY <2>1, <2>2, <2>5, <2>6
  <1>6. CASE PcpConfirma
    <2>1. Haber' = Haber /\ (Mirado => Mirado') /\ colas' = colas
      BY <1>6 DEF PcpConfirma, Haber, Avisan, Mirado
    <2> QED  BY <1>0, <2>1, AlcanzaIgual
  <1>7. CASE PcpRechaza
    <2>1. ~Mirado
      <3>1. SUFFICES ASSUME Mirado PROVE FALSE
        OBVIOUS
      <3>2. pcp_pc = "espera_exec" /\ Visto("READY", pcp_visto) /\ Contiene(colas["READY"], pcp_visto)
        BY <1>7, <3>1 DEF PcpRechaza, Mirado, VistosInv
      <3>3. pcp_visto # NULL /\ pcp_visto = squeue_peek(colas["READY"])
        BY <1>0, <3>2, VistoPrimero
      <3> QED  BY <1>0, <1>7, <3>3
            DEF PcpRechaza, SigueSiguiente, peek_siguiente_pcb, ColaSiguiente
    <2>2. Haber' = Haber /\ colas' = colas
      BY <1>7 DEF PcpRechaza, Haber, Avisan
    <2> QED  BY <1>0, <2>1, <2>2, AlcanzaIgual
  <1>8. CASE PcpDespacha
    <2>1. PICK x \in Pid : x = pcp_visto /\ Sale("READY", x)
      BY <1>0, <1>8, MovimientosPcp DEF Mueve
    <2>2. UNCHANGED <<sem_elementos_en_ready, io_pc, plp_pc>>
      BY <1>8 DEF PcpDespacha
    <2> QED  BY <1>0, <2>1, <2>2, ReadySale
  <1>9. CASE PcpRecibe
    <2>1. ~Mirado /\ colas' = colas /\ Haber' = Haber
      BY <1>9 DEF PcpRecibe, Mirado, Haber, Avisan
    <2> QED  BY <1>0, <2>1, AlcanzaIgual
  <1>10. CASE PcpFinQuantum
    <2>1. PICK x \in Pid : Entra("READY", x)
      BY <1>0, <1>10, MovimientosPcp DEF Mueve
    <2>2. Haber' = Haber + 1 /\ ~Mirado
      BY <1>10, <1>a DEF PcpFinQuantum, Maneja, Encolar, Haber, Avisan, Mirado
    <2> QED  BY <1>0, <2>1, <2>2, ReadyConPost
  <1>11. CASE PcpElimina \/ PcpTermina
         \/ \E r \in Recursos : PcpWaitAsigna(r) \/ PcpWaitBloquea(r)
    <2>1. ~Mirado
      BY <1>11 DEF PcpElimina, PcpTermina, PcpWaitAsigna, PcpWaitBloquea, Pide, Maneja, Mirado
    <2>2. colas'["READY"] = colas["READY"]
      BY <1>0, <1>11, MovimientosPcp DEF Mueve, PcpElimina, PcpWaitAsigna
    <2>3. Haber' = Haber
      BY <1>11 DEF PcpElimina, PcpTermina, PcpWaitAsigna, PcpWaitBloquea, Pide, Maneja, Encolar,
         DevolverEjecucion, DevolverLugar, Haber, Avisan
    <2> QED  BY <1>0, <2>1, <2>2, <2>3, AlcanzaIgual
  <1>12. ASSUME NEW i \in Interfaces, PcpIo(i) PROVE ReadyAvisado'
    <2>1. ~Mirado
      BY <1>12 DEF PcpIo, Maneja, Mirado
    <2>2. colas'["READY"] = colas["READY"]
      BY <1>0, <1>12, MovimientosPcp DEF Mueve
    <2>3. Haber' = Haber
      BY <1>12 DEF PcpIo, Maneja, Encolar, Haber, Avisan
    <2> QED  BY <1>0, <2>1, <2>2, <2>3, AlcanzaIgual
  <1>13. ASSUME NEW r \in Recursos, PcpSignal(r) PROVE ReadyAvisado'
    <2> DEFINE asig == Quitar(asignaciones, [pid |-> mano["pcp"], recurso |-> r])
    <2>1. IncrementarRecurso(r, asig) /\ UNCHANGED <<io_pc, plp_pc>> /\ ~Mirado
      BY <1>13 DEF PcpSignal, Maneja, DevolverEjecucion, Mirado
    <2> HIDE DEF asig
    <2> QED  BY <1>0, <2>1, ReadyIncrementado
  <1>14. ASSUME NEW p, LiberarUna(p), UNCHANGED <<io_pc, plp_pc, pcp_pc, pcp_visto>>
         PROVE  ReadyAvisado'
    <2> DEFINE k == PrimeraDe(p)
               asig == RemoveAt(asignaciones, k)
    <2>1. PICK r \in Recursos : r = asignaciones[k].recurso
      BY <1>0, <1>14, PrimeraDeLema DEF LiberarUna
    <2>2. IncrementarRecurso(r, asig)
      BY <1>14, <2>1 DEF LiberarUna
    <2> HIDE DEF k, asig
    <2> QED  BY <1>0, <1>14, <2>2, ReadyIncrementado
  <1>15. CASE PcpLibera
    BY <1>14, <1>15 DEF PcpLibera
  <1>16. CASE ConLibera
    BY <1>14, <1>16 DEF ConLibera
  <1>17. ASSUME NEW i \in Interfaces, IoDesbloquea(i) PROVE ReadyAvisado'
    <2>1. PICK x \in Pid : Entra("READY", x)
      BY <1>0, <1>17, MovimientosIoConsola DEF Mueve
    <2>2. Cardinality(Avisan') = Cardinality(Avisan) + 1
      BY <1>0, <1>17, AvisanPaso
    <2>3. Haber' = Haber + 1 /\ UNCHANGED <<pcp_pc, pcp_visto>>
      BY <1>17, <1>a, <2>2 DEF IoDesbloquea, Haber
    <2> QED  BY <1>0, <2>1, <2>3, ReadyConPost
  <1>18. ASSUME NEW i \in Interfaces, IoAvisa(i) PROVE ReadyAvisado'
    <2>1. Cardinality(Avisan') = Cardinality(Avisan) - 1
      BY <1>0, <1>18, AvisanPaso
    <2>2. Haber' = Haber /\ Mirado' = Mirado /\ colas' = colas
      BY <1>18, <1>a, <2>1 DEF IoAvisa, Haber, Mirado
    <2> QED  BY <1>0, <2>2, AlcanzaIgual
  <1>19. ASSUME colas' = colas, UNCHANGED <<sem_elementos_en_ready, plp_pc, pcp_pc, pcp_visto>>,
                Avisan' = Avisan
         PROVE  ReadyAvisado'
    <2>1. Haber' = Haber /\ Mirado' = Mirado
      BY <1>19 DEF Haber, Mirado
    <2> QED  BY <1>0, <1>19, <2>1, AlcanzaIgual
  <1>23. ASSUME NEW i \in Interfaces,
                \/ IoToma(i) \/ IoAvanza(i) \/ IoDescarta(i)
                \/ \E r \in Recursos : IoGuarda(i, r)
         PROVE  ReadyAvisado'
    <2>1. colas' = colas /\ UNCHANGED <<sem_elementos_en_ready, plp_pc, pcp_pc, pcp_visto>>
      BY <1>23, IoAvanzaDef DEF IoToma, IoDescarta, IoGuarda
    <2>2. \A j \in Interfaces : ~IoDesbloquea(j)
      <3>1. ASSUME NEW j \in Interfaces, IoDesbloquea(j) PROVE colas' # colas
        <4>1. PICK x \in Pid : Entra("READY", x)
          BY <1>0, <3>1, MovimientosIoConsola DEF Mueve
        <4> QED  BY <4>1 DEF Entra
      <3> QED  BY <2>1, <3>1
    <2>3. \A j \in Interfaces : ~IoAvisa(j)
      BY <1>a, <2>1 DEF IoAvisa
    <2> QED  BY <1>0, <1>19, <2>1, <2>2, <2>3, AvisanPaso
  <1>24. CASE Muere \/ \E r \in Recursos : PcpWaitDescuenta(r)
    <2>1. colas' = colas /\ UNCHANGED <<sem_elementos_en_ready, plp_pc, pcp_visto, io_pc>>
      BY <1>24 DEF Muere, PcpWaitDescuenta
    <2>2. Avisan' = Avisan
      BY <2>1 DEF Avisan
    <2>3. Mirado => Mirado'
      BY <1>24 DEF Muere, PcpWaitDescuenta, Maneja, Mirado
    <2>4. Haber' = Haber
      BY <2>1, <2>2 DEF Haber
    <2> QED  BY <1>0, <2>1, <2>3, <2>4, AlcanzaIgual
  <1>25. ASSUME NEW i \in Interfaces, IoSacaBloqueado(i) \/ IoElimina(i) PROVE ReadyAvisado'
    <2>1. colas'["READY"] = colas["READY"]
      BY <1>0, <1>25, MovimientosSalida DEF Mueve
    <2>2. UNCHANGED <<sem_elementos_en_ready, plp_pc, pcp_pc, pcp_visto>>
      BY <1>25 DEF IoSacaBloqueado, IoElimina
    <2>3. Avisan' = Avisan
      BY <1>25 DEF IoSacaBloqueado, IoElimina, Avisan, TypeOK, TypeHilos, Antes3, DatosInv
    <2>4. Haber' = Haber /\ Mirado' = Mirado
      BY <2>1, <2>2, <2>3 DEF Haber, Mirado
    <2> QED  BY <1>0, <2>1, <2>4, AlcanzaIgual
  <1>26. ASSUME NEW i \in Interfaces, NEW r \in Recursos, IoDespierta(i, r) PROVE ReadyAvisado'
    <2>1. Avisan' = Avisan
      BY <1>26 DEF IoDespierta, Avisan, TypeOK, TypeHilos, Antes3, DatosInv
    <2>2. Despertar(r, asignaciones) /\ UNCHANGED <<plp_pc, pcp_pc, pcp_visto>>
      BY <1>26 DEF IoDespierta
    <2> QED  BY <1>0, <2>1, <2>2, ReadyDespertado
  <1>20. CASE ConIniciar \/ ConEliminaNew \/ ConTermina
    <2>1. colas'["READY"] = colas["READY"]
      BY <1>0, <1>20, MovimientosIoConsola DEF Mueve
    <2> QED  BY <1>0, <1>20, <2>1, ReadyQuieto DEF ConIniciar, ConEliminaNew, ConTermina
  <1>21. ASSUME NEW c \in Cola \ {"NEW", "EXIT"}, ConElimina(c) PROVE ReadyAvisado'
    <2>1. PICK x \in Pid : Mueve(c, "-", x)
      BY <1>0, <1>21, MovimientosIoConsola
    <2>2. UNCHANGED <<sem_elementos_en_ready, io_pc, plp_pc, pcp_pc, pcp_visto>>
      BY <1>21 DEF ConElimina
    <2>3. CASE c = "READY"
      <3>1. Sale("READY", x)
        BY <1>0, <2>1, <2>3 DEF Mueve
      <3> QED  BY <1>0, <2>2, <3>1, ReadySale
    <2>4. CASE c # "READY"
      BY <1>0, <2>1, <2>2, <2>4, ReadyQuieto DEF Mueve
    <2> QED  BY <2>3, <2>4
  <1>22. CASE \/ \E n2 \in 0..MaxGrado : ConGrado(n2)
              \/ ConDetener \/ \E p \in Pid : ConFinalizar(p)
              \/ ConReanudar \/ ConTomaPermiso \/ ConPausada \/ ConInterrumpe \/ ConNoEncuentra
              \/ ConSeTraba \/ UNCHANGED vars
    BY <1>0, <1>22, ReadyQuieto
       DEF ConGrado, ConDetener, ConFinalizar, ConReanudar, ConTomaPermiso, ConPausada,
           ConInterrumpe, ConNoEncuentra, ConSeTraba, vars
  <1> QED
    BY PasosQueMueven, <1>1, <1>2, <1>3, <1>4, <1>5, <1>6, <1>7, <1>8, <1>9, <1>10, <1>11, <1>12,
       <1>13, <1>15, <1>16, <1>17, <1>18, <1>20, <1>21, <1>22, <1>23, <1>24, <1>25, <1>26
       DEF NoMueve

-----------------------------------------------------------------------------
(* NEW, the blocked queues of the interfaces, and their semaphores          *)

\* The process the PLP saw is still in NEW, and its unit is the one the PLP took.
NewMirado == plp_pc \in {"espera_grado", "espera_permiso"} /\ Contiene(colas["NEW"], plp_visto)
NewAvisado == Len(colas["NEW"]) <= sem_elementos_en_new + (IF NewMirado THEN 1 ELSE 0)

\* The same of the thread of interface i.
IoMirado(i) == io_pc[i] \in {"opera", "espera_permiso"} /\ Contiene(colas[i], io_actual[i])
IoAvisado(i) == Len(colas[i]) <= procesos_esperando[i] + (IF IoMirado(i) THEN 1 ELSE 0)

\* AvisosNewEIo is about NEW and about each interface that attends.
LEMMA AvisosNewEIoDef ==
    AvisosNewEIo <=> NewAvisado /\ \A i \in Interfaces : io_pc[i] \in Atiende => IoAvisado(i)
  BY DEF AvisosNewEIo, NewAvisado, IoAvisado, NewMirado, IoMirado, Uno

\* The same in the next state.
LEMMA AvisosNewEIoDefSig ==
    (AvisosNewEIo <=> NewAvisado /\ \A i \in Interfaces : io_pc[i] \in Atiende => IoAvisado(i))'
  BY AvisosNewEIoDef, PTL

\* The length of NEW and its semaphore are numbers.
LEMMA NewTipo ==
  ASSUME TypeOK
  PROVE  sem_elementos_en_new \in Nat /\ Len(colas["NEW"]) \in Nat
  BY NombresDeColas, LenProperties DEF TypeOK, TypeContadores, TypeColas

\* Those of interface i too.
LEMMA IoTipo ==
  ASSUME TypeOK, NEW i \in Interfaces
  PROVE  procesos_esperando[i] \in Nat /\ Len(colas[i]) \in Nat
  <1>1. i \in Cola
    BY NombresDeColas
  <1> QED  BY <1>1, LenProperties DEF TypeOK, TypeContadores, TypeColas

\* NEW and what the PLP saw in it stay.
LEMMA NewIgual ==
  ASSUME NewAvisado, colas'["NEW"] = colas["NEW"], sem_elementos_en_new' = sem_elementos_en_new,
         NewMirado => NewMirado', TypeOK
  PROVE  NewAvisado'
  BY NewTipo DEF NewAvisado

\* Every step keeps a unit for each process in NEW.
LEMMA NewPaso ==
  ASSUME Antes3, VistosInv, NewAvisado, [Next]_vars
  PROVE  NewAvisado'
  <1> USE DEF recs, plp, pcp, io, grado, consola, cpu
  <1>0. /\ TypeOK /\ TypeColas /\ LugaresInv
        /\ "NEW" \in Cola /\ "NEW" \notin Recursos \cup Interfaces \cup {"READY", "EXIT", "-"}
    BY NombresDeColas DEF Antes3, DatosInv, TypeOK, LugarInv
  <1>a. PICK s \in Nat, n \in Nat : s = sem_elementos_en_new /\ n = Len(colas["NEW"])
    BY <1>0, NewTipo
  <1>b. n <= s + (IF NewMirado THEN 1 ELSE 0)
    BY <1>a DEF NewAvisado
  <1>c. ASSUME colas'["NEW"] = colas["NEW"],
               UNCHANGED <<sem_elementos_en_new, plp_pc, plp_visto>>
        PROVE  NewAvisado'
    BY <1>0, <1>c, NewIgual DEF NewMirado
  <1>d. ASSUME NEW x, Sale("NEW", x), sem_elementos_en_new' = sem_elementos_en_new
        PROVE  NewAvisado'
    <2>1. Len(colas'["NEW"]) = n - 1 /\ sem_elementos_en_new' = s
      BY <1>a, <1>d DEF Sale
    <2>2. n - 1 <= s + (IF NewMirado' THEN 1 ELSE 0)
      BY <1>b
    <2> QED  BY <2>1, <2>2 DEF NewAvisado
  <1>1. CASE PlpVeNew
    <2>1. sem_elementos_en_new' = s - 1 /\ s > 0 /\ colas' = colas /\ ~NewMirado
      BY <1>1, <1>a DEF PlpVeNew, NewMirado
    <2>2. n # 0 => NewMirado'
      <3>1. SUFFICES ASSUME n # 0 PROVE NewMirado'
        OBVIOUS
      <3>2. colas["NEW"] # <<>>
        BY <1>a, <3>1, <1>0, EmptySeq DEF TypeColas
      <3>3. plp_visto' = Head(colas["NEW"]) /\ plp_pc' = "espera_grado"
        BY <1>1, <3>2 DEF PlpVeNew, squeue_peek
      <3>4. Head(colas["NEW"]) \in Range(colas["NEW"])
        BY <1>0, <3>2, Sacar
      <3> QED  BY <2>1, <3>3, <3>4 DEF NewMirado, Contiene
    <2>3. n <= s - 1 + (IF NewMirado' THEN 1 ELSE 0)
      BY <1>b, <2>1, <2>2
    <2> QED  BY <1>a, <2>1, <2>3 DEF NewAvisado
  <1>2. CASE PlpTomaLugar
    BY <1>0, <1>2, NewIgual DEF PlpTomaLugar, NewMirado
  <1>3. CASE PlpSaca
    <2>1. PICK x \in Pid : Sale("NEW", x)
      BY <1>0, <1>3, MovimientosPlp DEF Mueve
    <2> QED  BY <1>3, <1>d, <2>1 DEF PlpSaca
  <1>4. CASE PlpDescarta
    <2>1. ~NewMirado
      <3>1. SUFFICES ASSUME NewMirado PROVE FALSE
        OBVIOUS
      <3>2. Visto("NEW", plp_visto) /\ Contiene(colas["NEW"], plp_visto)
        BY <3>1 DEF NewMirado, VistosInv
      <3>3. plp_visto # NULL /\ plp_visto = squeue_peek(colas["NEW"])
        BY <1>0, <3>2, VistoPrimero
      <3> QED  BY <1>4, <3>3 DEF PlpDescarta, SigueEnNew
    <2> QED  BY <1>0, <1>4, <2>1, NewIgual DEF PlpDescarta
  <1>5. CASE PlpEncola
    <2>1. colas'["NEW"] = colas["NEW"] /\ ~NewMirado
      BY <1>0, <1>5, MovimientosPlp DEF Mueve, PlpEncola, NewMirado
    <2> QED  BY <1>0, <1>5, <2>1, NewIgual DEF PlpEncola
  <1>6. CASE PlpAvisa
    BY <1>0, <1>6, NewIgual DEF PlpAvisa, NewMirado
  <1>7. CASE PcpVeReady \/ PcpConfirma \/ PcpRechaza \/ PcpRecibe \/ PcpElimina
    BY <1>7, <1>c DEF PcpVeReady, PcpConfirma, PcpRechaza, PcpRecibe, PcpElimina
  <1>8. CASE PcpDespacha \/ PcpFinQuantum \/ PcpTermina
    <2>1. colas'["NEW"] = colas["NEW"]
      BY <1>0, <1>8, MovimientosPcp DEF Mueve
    <2> QED  BY <1>8, <1>c, <2>1 DEF PcpDespacha, PcpFinQuantum, PcpTermina, Encolar
  <1>9. ASSUME Incrementada, UNCHANGED <<sem_elementos_en_new, plp_pc, plp_visto>>
        PROVE  NewAvisado'
    BY <1>0, <1>9, <1>c DEF Incrementada, Mueve
  <1>10. CASE PcpLibera \/ ConLibera
    BY <1>9, <1>10, MovimientosPcp, MovimientosIoConsola DEF PcpLibera, ConLibera
  <1>11. ASSUME NEW r \in Recursos, PcpSignal(r) PROVE NewAvisado'
    BY <1>9, <1>11, MovimientosPcp DEF PcpSignal, DevolverEjecucion
  <1>12. ASSUME NEW r \in Recursos, PcpWaitAsigna(r) PROVE NewAvisado'
    BY <1>c, <1>12 DEF PcpWaitAsigna, DevolverEjecucion
  <1>13. ASSUME NEW r \in Recursos, PcpWaitBloquea(r) PROVE NewAvisado'
    <2>1. colas'["NEW"] = colas["NEW"]
      BY <1>0, <1>13, MovimientosPcp DEF Mueve
    <2> QED  BY <1>13, <1>c, <2>1 DEF PcpWaitBloquea, Encolar
  <1>14. ASSUME NEW i \in Interfaces, PcpIo(i) PROVE NewAvisado'
    <2>1. colas'["NEW"] = colas["NEW"]
      BY <1>0, <1>14, MovimientosPcp DEF Mueve
    <2> QED  BY <1>14, <1>c, <2>1 DEF PcpIo, Encolar
  <1>15. ASSUME NEW i \in Interfaces, IoDesbloquea(i) PROVE NewAvisado'
    <2>1. colas'["NEW"] = colas["NEW"]
      BY <1>0, <1>15, MovimientosIoConsola DEF Mueve
    <2> QED  BY <1>15, <1>c, <2>1 DEF IoDesbloquea
  <1>16. ASSUME NEW i \in Interfaces, IoToma(i) \/ IoAvanza(i) \/ IoDescarta(i) \/ IoAvisa(i)
         PROVE  NewAvisado'
    BY <1>c, <1>16, IoAvanzaDef DEF IoToma, IoDescarta, IoAvisa
  <1>22. CASE Muere \/ \E r \in Recursos : PcpWaitDescuenta(r)
    BY <1>c, <1>22 DEF Muere, PcpWaitDescuenta
  <1>23. ASSUME NEW i \in Interfaces, IoSacaBloqueado(i) \/ IoElimina(i) PROVE NewAvisado'
    <2>1. colas'["NEW"] = colas["NEW"]
      BY <1>0, <1>23, MovimientosSalida DEF Mueve
    <2> QED  BY <1>23, <1>c, <2>1 DEF IoSacaBloqueado, IoElimina
  <1>24. ASSUME NEW i \in Interfaces, NEW r \in Recursos, IoDespierta(i, r) \/ IoGuarda(i, r)
         PROVE  NewAvisado'
    <2>1. colas'["NEW"] = colas["NEW"]
      BY <1>0, <1>24, MovimientosSalida DEF Mueve, IoGuarda
    <2> QED  BY <1>24, <1>c, <2>1 DEF IoDespierta, IoGuarda
  <1>17. CASE ConIniciar
    <2>1. PICK x \in Pid : Entra("NEW", x)
      BY <1>0, <1>17, MovimientosIoConsola DEF Mueve
    <2>2. /\ sem_elementos_en_new' = s + 1 /\ Len(colas'["NEW"]) = n + 1
          /\ NewMirado => NewMirado'
      BY <1>17, <1>a, <2>1 DEF ConIniciar, Entra, NewMirado, Contiene
    <2>3. n + 1 <= s + 1 + (IF NewMirado' THEN 1 ELSE 0)
      BY <1>b, <2>2
    <2> QED  BY <2>2, <2>3 DEF NewAvisado
  <1>18. CASE ConEliminaNew
    <2>1. PICK x \in Pid : Sale("NEW", x)
      BY <1>0, <1>18, MovimientosIoConsola DEF Mueve
    <2> QED  BY <1>18, <1>d, <2>1 DEF ConEliminaNew
  <1>19. CASE ConTermina
    <2>1. colas'["NEW"] = colas["NEW"]
      BY <1>0, <1>19, MovimientosIoConsola DEF Mueve
    <2> QED  BY <1>19, <1>c, <2>1 DEF ConTermina
  <1>20. ASSUME NEW c \in Cola \ {"NEW", "EXIT"}, ConElimina(c) PROVE NewAvisado'
    <2>1. colas'["NEW"] = colas["NEW"]
      BY <1>0, <1>20, MovimientosIoConsola DEF Mueve
    <2> QED  BY <1>20, <1>c, <2>1 DEF ConElimina
  <1>21. CASE \/ \E g \in 0..MaxGrado : ConGrado(g)
              \/ ConDetener \/ \E p \in Pid : ConFinalizar(p)
              \/ ConReanudar \/ ConTomaPermiso \/ ConPausada \/ ConInterrumpe \/ ConNoEncuentra
              \/ ConSeTraba \/ UNCHANGED vars
    BY <1>21, <1>c
       DEF ConGrado, ConDetener, ConFinalizar, ConReanudar, ConTomaPermiso, ConPausada,
           ConInterrumpe, ConNoEncuentra, ConSeTraba, vars
  <1> QED
    BY PasosQueMueven, <1>1, <1>2, <1>3, <1>4, <1>5, <1>6, <1>7, <1>8, <1>10, <1>11, <1>12,
       <1>13, <1>14, <1>15, <1>16, <1>17, <1>18, <1>19, <1>20, <1>21, <1>22, <1>23, <1>24
       DEF NoMueve

\* An interface that left the loop does not attend again.
LEMMA NoVuelve ==
  ASSUME TypeOK, NEW i \in Interfaces, io_pc'[i] \in Atiende, [Next]_vars
  PROVE  io_pc[i] \in Atiende
  <1> USE DEF recs, plp, pcp, io, grado, consola, cpu, TypeOK, TypeHilos
  <1>1. CASE UNCHANGED io_pc
    BY <1>1
  <1>2. ASSUME NEW j \in Interfaces, IoAvanza(j) PROVE io_pc[i] \in Atiende
    <2>1. PICK x \in {"espera_permiso"} \cup Saliendo \cup {"fuera"} :
             /\ io_pc' = [io_pc EXCEPT ![j] = x]
             /\ x = "espera_permiso" => io_pc[j] = "opera" /\ UNCHANGED io_actual
      BY <1>2, IoAvanzaDef
    <2>2. x \in Atiende => io_pc[j] \in Atiende
      BY <2>1 DEF Saliendo, Atiende
    <2> QED  BY <2>1, <2>2
  <1>3. ASSUME NEW j \in Interfaces,
               IoToma(j) \/ IoDesbloquea(j) \/ IoDescarta(j) \/ IoAvisa(j)
               \/ IoSacaBloqueado(j) \/ IoElimina(j)
        PROVE  io_pc[i] \in Atiende
    BY <1>3 DEF IoToma, IoDesbloquea, IoDescarta, IoAvisa, IoSacaBloqueado, IoElimina, Atiende
  <1>4. ASSUME NEW j \in Interfaces, NEW r \in Recursos, IoDespierta(j, r) \/ IoGuarda(j, r)
        PROVE  io_pc[i] \in Atiende
    BY <1>4 DEF IoDespierta, IoGuarda, Atiende
  <1>5. CASE Plp
    BY <1>1, <1>5 DEF Plp, PlpVeNew, PlpTomaLugar, PlpSaca, PlpDescarta, PlpEncola, PlpAvisa
  <1>6. CASE Pcp
    BY <1>1, <1>6 DEF Pcp, PcpVeReady, PcpConfirma, PcpRechaza, PcpDespacha, PcpRecibe,
       PcpFinQuantum, PcpElimina, PcpLibera, PcpTermina, PcpWaitDescuenta, PcpWaitAsigna,
       PcpWaitBloquea, PcpSignal, PcpSacaNull, PopDeNull, Muere, PcpIo, Encolar, DevolverEjecucion
  <1>7. CASE Operador \/ Comando \/ UNCHANGED vars
    BY <1>1, <1>7 DEF Operador, Comando, vars, ConIniciar, ConDetener, ConReanudar, ConGrado,
       ConFinalizar, ConTomaPermiso, ConPausada, ConInterrumpe, ConEliminaNew, ConElimina,
       ConNoEncuentra, ConLibera, ConSeTraba, ConTermina, ConSacaNull, ConAserto, PopDeNull, Muere
  <1>8. CASE Muere
    BY <1>1, <1>8 DEF Muere
  <1> QED  BY <1>2, <1>3, <1>4, <1>5, <1>6, <1>7, <1>8
         DEF Next, Io, IoAvanza, IoLeeNull, IoLeeLiberado, IoSacaNull

\* The queue of interface i and what its thread saw in it stay.
LEMMA IoIgual ==
  ASSUME TypeOK, NEW i \in Interfaces, IoAvisado(i), colas'[i] = colas[i],
         procesos_esperando'[i] = procesos_esperando[i], IoMirado(i) => IoMirado(i)'
  PROVE  IoAvisado(i)'
  BY IoTipo DEF IoAvisado

\* Every step keeps a unit for each process blocked on an interface, until it leaves.
LEMMA IoPaso ==
  ASSUME Antes3, VistosInv, NEW i \in Interfaces, io_pc'[i] \in Atiende, IoAvisado(i), [Next]_vars
  PROVE  IoAvisado(i)'
  <1> USE DEF recs, plp, pcp, io, grado, consola, cpu
  <1>0. /\ TypeOK /\ TypeColas /\ LugaresInv
        /\ i \in Cola /\ i \notin Recursos \cup {"NEW", "READY", "EXIT", "-"}
    BY NombresDeColas DEF Antes3, DatosInv, TypeOK, LugarInv
  <1>a. PICK s \in Nat, n \in Nat : s = procesos_esperando[i] /\ n = Len(colas[i])
    BY <1>0, IoTipo
  <1>b. n <= s + (IF IoMirado(i) THEN 1 ELSE 0)
    BY <1>a DEF IoAvisado
  <1>c. ASSUME colas'[i] = colas[i], procesos_esperando'[i] = procesos_esperando[i],
               io_pc'[i] = io_pc[i], io_actual'[i] = io_actual[i]
        PROVE  IoAvisado(i)'
    BY <1>0, <1>c, IoIgual DEF IoMirado
  <1>d. ASSUME NEW x, Sale(i, x), procesos_esperando'[i] = procesos_esperando[i]
        PROVE  IoAvisado(i)'
    <2>1. Len(colas'[i]) = n - 1 /\ procesos_esperando'[i] = s
      BY <1>a, <1>d DEF Sale
    <2>2. n - 1 <= s + (IF IoMirado(i)' THEN 1 ELSE 0)
      BY <1>b
    <2> QED  BY <2>1, <2>2 DEF IoAvisado
  <1>1. CASE IoToma(i)
    <2>1. procesos_esperando'[i] = s - 1 /\ s > 0 /\ colas' = colas /\ ~IoMirado(i)
      BY <1>0, <1>1, <1>a DEF IoToma, IoMirado, TypeOK, TypeContadores
    <2>2. IoMirado(i)'
      <3>1. colas[i] # <<>>
        BY <1>1 DEF IoToma
      <3>2. io_actual'[i] = Head(colas[i]) /\ io_pc'[i] = "opera"
        BY <1>0, <1>1, <3>1 DEF IoToma, squeue_peek, TypeOK, TypeColas, TypeHilos
      <3>3. Head(colas[i]) \in Range(colas[i])
        BY <1>0, <3>1, Sacar
      <3> QED  BY <2>1, <3>2, <3>3 DEF IoMirado, Contiene
    <2>3. n <= s - 1 + (IF IoMirado(i)' THEN 1 ELSE 0)
      BY <1>b, <2>1, <2>2
    <2> QED  BY <1>a, <2>1, <2>3 DEF IoAvisado
  <1>2. CASE IoAvanza(i)
    <2>1. PICK x \in {"espera_permiso"} \cup Saliendo \cup {"fuera"} :
             /\ io_pc' = [io_pc EXCEPT ![i] = x]
             /\ x = "espera_permiso" => io_pc[i] = "opera" /\ UNCHANGED io_actual
      BY <1>2, IoAvanzaDef
    <2>2. x = "espera_permiso" /\ io_pc'[i] = x
      BY <1>0, <2>1 DEF Atiende, Saliendo, TypeOK, TypeHilos
    <2>3. colas' = colas /\ procesos_esperando' = procesos_esperando
      BY <1>2, IoAvanzaDef
    <2>4. IoMirado(i) => IoMirado(i)'
      BY <2>1, <2>2, <2>3 DEF IoMirado
    <2> QED  BY <1>0, <2>3, <2>4, IoIgual
  <1>3. CASE IoDesbloquea(i)
    <2>1. PICK x \in Pid : Sale(i, x)
      BY <1>0, <1>3, MovimientosIoConsola DEF Mueve
    <2> QED  BY <1>3, <1>d, <2>1 DEF IoDesbloquea
  <1>4. CASE IoDescarta(i)
    <2>1. ~IoMirado(i)
      <3>1. SUFFICES ASSUME IoMirado(i) PROVE FALSE
        OBVIOUS
      <3>2. PICK p : p = io_actual[i]
        OBVIOUS
      <3>3. Visto(i, p) /\ Contiene(colas[i], p)
        BY <3>1, <3>2 DEF IoMirado, VistosInv
      <3>4. p # NULL /\ p = squeue_peek(colas[i])
        BY <1>0, <3>3, VistoPrimero
      <3> QED  BY <1>4, <3>2, <3>4 DEF IoDescarta, SigueBloqueado
    <2> QED  BY <1>0, <1>4, <2>1, IoIgual DEF IoDescarta
  <1>5. CASE IoAvisa(i)
    BY <1>0, <1>5, IoIgual DEF IoAvisa, IoMirado
  <1>6. CASE Muere \/ \E r \in Recursos : PcpWaitDescuenta(r)
    BY <1>6, <1>c DEF Muere, PcpWaitDescuenta
  <1>7. ASSUME NEW j \in Interfaces, j # i, IoToma(j) \/ IoDescarta(j) \/ IoAvisa(j)
        PROVE  IoAvisado(i)'
    BY <1>0, <1>7, <1>c DEF IoToma, IoDescarta, IoAvisa, TypeOK, TypeColas, TypeContadores,
       TypeHilos
  <1>22. ASSUME NEW j \in Interfaces, j # i, IoAvanza(j) PROVE IoAvisado(i)'
    <2>1. PICK x : io_pc' = [io_pc EXCEPT ![j] = x]
      BY <1>22, IoAvanzaDef
    <2>2. io_actual' \in {io_actual, [io_actual EXCEPT ![j] = NULL]}
          /\ UNCHANGED <<colas, procesos_esperando>>
      BY <1>22, IoAvanzaDef
    <2> QED  BY <1>0, <1>22, <1>c, <2>1, <2>2 DEF TypeOK, TypeColas, TypeHilos
  <1>23. ASSUME NEW j \in Interfaces, IoSacaBloqueado(j) \/ IoElimina(j) PROVE IoAvisado(i)'
    <2>1. j # i
      BY <1>0, <1>23 DEF IoSacaBloqueado, IoElimina, Atiende, TypeOK, TypeHilos
    <2>2. colas'[i] = colas[i]
      BY <1>0, <1>23, <2>1, MovimientosSalida DEF Mueve
    <2> QED  BY <1>0, <1>23, <1>c, <2>1, <2>2 DEF IoSacaBloqueado, IoElimina, TypeOK, TypeHilos
  <1>24. ASSUME NEW j \in Interfaces, NEW r \in Recursos, IoDespierta(j, r) \/ IoGuarda(j, r)
         PROVE  IoAvisado(i)'
    <2>1. j # i
      BY <1>0, <1>24 DEF IoDespierta, IoGuarda, Atiende, TypeOK, TypeHilos
    <2>2. colas'[i] = colas[i]
      BY <1>0, <1>24, MovimientosSalida DEF Mueve, IoGuarda
    <2> QED  BY <1>0, <1>24, <1>c, <2>1, <2>2 DEF IoDespierta, IoGuarda, TypeOK, TypeHilos
  <1>8. ASSUME NEW j \in Interfaces, j # i, IoDesbloquea(j) PROVE IoAvisado(i)'
    <2>1. colas'[i] = colas[i]
      BY <1>0, <1>8, MovimientosIoConsola DEF Mueve
    <2> QED  BY <1>0, <1>8, <1>c, <2>1 DEF IoDesbloquea, TypeOK, TypeColas, TypeHilos
  <1>9. CASE PcpIo(i)
    <2>1. PICK x \in Pid : Entra(i, x)
      BY <1>0, <1>9, MovimientosPcp DEF Mueve
    <2>2. /\ procesos_esperando'[i] = s + 1 /\ Len(colas'[i]) = n + 1
          /\ IoMirado(i) => IoMirado(i)'
      BY <1>0, <1>9, <1>a, <2>1
         DEF PcpIo, Encolar, Entra, IoMirado, Contiene, TypeOK, TypeContadores
    <2>3. n + 1 <= s + 1 + (IF IoMirado(i)' THEN 1 ELSE 0)
      BY <1>b, <2>2
    <2> QED  BY <2>2, <2>3 DEF IoAvisado
  <1>10. ASSUME NEW j \in Interfaces, j # i, PcpIo(j) PROVE IoAvisado(i)'
    <2>1. colas'[i] = colas[i]
      BY <1>0, <1>10, MovimientosPcp DEF Mueve
    <2> QED  BY <1>0, <1>10, <1>c, <2>1 DEF PcpIo, Encolar, TypeOK, TypeContadores
  <1>11. ASSUME NEW c \in Cola \ {"NEW", "EXIT"}, ConElimina(c) PROVE IoAvisado(i)'
    <2>1. PICK x \in Pid : Mueve(c, "-", x)
      BY <1>0, <1>11, MovimientosIoConsola
    <2>2. CASE c = i
      BY <1>0, <1>11, <1>d, <2>1, <2>2 DEF Mueve, ConElimina
    <2>3. CASE c # i
      BY <1>0, <1>11, <1>c, <2>1, <2>3 DEF Mueve, ConElimina
    <2> QED  BY <2>2, <2>3
  <1>12. CASE PlpSaca \/ PlpEncola
    <2>1. colas'[i] = colas[i]
      BY <1>0, <1>12, MovimientosPlp DEF Mueve
    <2> QED  BY <1>12, <1>c, <2>1 DEF PlpSaca, PlpEncola
  <1>13. CASE PcpDespacha \/ PcpFinQuantum \/ PcpTermina
    <2>1. colas'[i] = colas[i]
      BY <1>0, <1>13, MovimientosPcp DEF Mueve
    <2> QED  BY <1>13, <1>c, <2>1 DEF PcpDespacha, PcpFinQuantum, PcpTermina, Encolar
  <1>14. ASSUME Incrementada, UNCHANGED <<procesos_esperando, io_pc, io_actual>>
         PROVE  IoAvisado(i)'
    BY <1>0, <1>14, <1>c DEF Incrementada, Mueve
  <1>15. CASE PcpLibera \/ ConLibera
    BY <1>14, <1>15, MovimientosPcp, MovimientosIoConsola DEF PcpLibera, ConLibera
  <1>16. ASSUME NEW r \in Recursos, PcpSignal(r) PROVE IoAvisado(i)'
    BY <1>14, <1>16, MovimientosPcp DEF PcpSignal, DevolverEjecucion
  <1>17. ASSUME NEW r \in Recursos, PcpWaitAsigna(r) PROVE IoAvisado(i)'
    BY <1>c, <1>17 DEF PcpWaitAsigna, DevolverEjecucion
  <1>18. ASSUME NEW r \in Recursos, PcpWaitBloquea(r) PROVE IoAvisado(i)'
    <2>1. colas'[i] = colas[i]
      BY <1>0, <1>18, MovimientosPcp DEF Mueve
    <2> QED  BY <1>18, <1>c, <2>1 DEF PcpWaitBloquea, Encolar
  <1>19. CASE ConIniciar \/ ConEliminaNew \/ ConTermina
    <2>1. colas'[i] = colas[i]
      BY <1>0, <1>19, MovimientosIoConsola DEF Mueve
    <2> QED  BY <1>19, <1>c, <2>1 DEF ConIniciar, ConEliminaNew, ConTermina
  <1>20. CASE PlpVeNew \/ PlpTomaLugar \/ PlpDescarta \/ PlpAvisa \/ PcpVeReady \/ PcpConfirma
              \/ PcpRechaza \/ PcpElimina \/ PcpRecibe
    BY <1>20, <1>c DEF PlpVeNew, PlpTomaLugar, PlpDescarta, PlpAvisa, PcpVeReady, PcpConfirma,
       PcpRechaza, PcpElimina, PcpRecibe
  <1>21. CASE \/ \E g \in 0..MaxGrado : ConGrado(g)
              \/ ConDetener \/ \E p \in Pid : ConFinalizar(p)
              \/ ConReanudar \/ ConTomaPermiso \/ ConPausada \/ ConInterrumpe \/ ConNoEncuentra
              \/ ConSeTraba \/ UNCHANGED vars
    BY <1>21, <1>c
       DEF ConGrado, ConDetener, ConFinalizar, ConReanudar, ConTomaPermiso, ConPausada,
           ConInterrumpe, ConNoEncuentra, ConSeTraba, vars
  <1> QED
    BY PasosQueMueven, <1>1, <1>2, <1>3, <1>4, <1>5, <1>6, <1>7, <1>8, <1>9, <1>10, <1>11, <1>12,
       <1>13, <1>15, <1>16, <1>17, <1>18, <1>19, <1>20, <1>21, <1>22, <1>23, <1>24 DEF NoMueve

-----------------------------------------------------------------------------
(* Whom the resources are allocated to                                      *)

\* The processes of a list of allocations.
PidsDe(asig) == {a.pid : a \in Range(asig)}

\* AsignadosInv and SinAsignacionesHuerfanas in terms of them.
Vivos(pids) == pids \subseteq Nacidos /\ \A c \in {"NEW", "EXIT"} : Range(colas[c]) \cap pids = {}

\* They are the same.
LEMMA VivosDef == AsignadosInv /\ SinAsignacionesHuerfanas <=> Vivos(PidsDe(asignaciones))
  <1>1. \A p : p \in PidsDe(asignaciones)
                  <=> \E k \in DOMAIN asignaciones : asignaciones[k].pid = p
    BY DEF PidsDe, Range
  <1> QED  BY <1>1 DEF AsignadosInv, SinAsignacionesHuerfanas, Vivos, Contiene

\* In the next state too.
LEMMA VivosDefSig == (AsignadosInv /\ SinAsignacionesHuerfanas <=> Vivos(PidsDe(asignaciones)))'
  BY VivosDef, PTL

\* An allocation more.
LEMMA UnaMas ==
  ASSUME NEW asig \in Seq(Asignacion), NEW a \in Asignacion
  PROVE  PidsDe(Append(asig, a)) = PidsDe(asig) \cup {a.pid}
  <1>1. Range(Append(asig, a)) = Range(asig) \cup {a}
    BY PushLema DEF squeue_push
  <1> QED  BY <1>1 DEF PidsDe

\* And one less.
LEMMA UnaMenos ==
  ASSUME NEW asig \in Seq(Asignacion)
  PROVE  /\ \A a : /\ Quitar(asig, a) \in Seq(Asignacion)
                   /\ PidsDe(Quitar(asig, a)) \subseteq PidsDe(asig)
         /\ \A k \in 1..Len(asig) : /\ RemoveAt(asig, k) \in Seq(Asignacion)
                                    /\ PidsDe(RemoveAt(asig, k)) \subseteq PidsDe(asig)
  <1>1. ASSUME NEW a
        PROVE  Quitar(asig, a) \in Seq(Asignacion) /\ PidsDe(Quitar(asig, a)) \subseteq PidsDe(asig)
    <2>1. Quitar(asig, a) \in Seq(Asignacion) /\ Range(Quitar(asig, a)) \subseteq Range(asig)
      BY QuitarLema
    <2> QED  BY <2>1 DEF PidsDe
  <1>2. ASSUME NEW k \in 1..Len(asig)
        PROVE  RemoveAt(asig, k) \in Seq(Asignacion) /\ PidsDe(RemoveAt(asig, k)) \subseteq PidsDe(asig)
    <2> DEFINE t == RemoveAt(asig, k)
    <2>1. /\ t \in Seq(Asignacion) /\ Len(t) = Len(asig) - 1
          /\ \A i \in 1..(Len(asig) - 1) : t[i] = IF i < k THEN asig[i] ELSE asig[i + 1]
      BY RemoveAtLema
    <2> HIDE DEF t
    <2>2. DOMAIN t = 1..Len(t) /\ DOMAIN asig = 1..Len(asig) /\ Len(asig) \in Nat
      BY <2>1, RangoSeq
    <2>3. ASSUME NEW i \in DOMAIN t PROVE \E j \in DOMAIN asig : t[i] = asig[j]
      <3>1. i \in 1..(Len(asig) - 1) /\ i \in DOMAIN asig /\ i + 1 \in DOMAIN asig
        BY <2>1, <2>2, <2>3
      <3>2. t[i] = asig[i] \/ t[i] = asig[i + 1]
        BY <2>1, <3>1
      <3> QED  BY <3>1, <3>2
    <2>4. Range(t) \subseteq Range(asig)
      BY <2>3 DEF Range
    <2> QED  BY <2>1, <2>4 DEF PidsDe, t
  <1> QED  BY <1>1, <1>2

\* Nobody that has an allocation goes to NEW or EXIT.
LEMMA VivosMueve ==
  ASSUME NEW a, NEW b, NEW x, Mueve(a, b, x), NEW pids, Vivos(pids),
         b \in {"NEW", "EXIT"} => x \notin pids, Nacidos \subseteq Nacidos'
  PROVE  Vivos(pids)'
  <1>1. ASSUME NEW c \in {"NEW", "EXIT"} PROVE Range(colas'[c]) \cap pids = {}
    <2>1. c \in Cola
      BY NombresDeColas
    <2> QED  BY <2>1 DEF Mueve, Entra, Sale, Vivos
  <1> QED  BY <1>1 DEF Vivos

\* incrementar_recurso allocates to a process that waits: it is in neither.
LEMMA VivosDespierta ==
  ASSUME TypeColas, LugaresInv, NEW r \in Recursos, NEW asig \in Seq(Asignacion),
         Vivos(PidsDe(asig)), Despertar(r, asig), ultimo_pid' = ultimo_pid
  PROVE  Vivos(PidsDe(asignaciones))'
  <1>1. Nacidos' = Nacidos
    BY DEF Nacidos
  <1>2. /\ r \in Cola /\ "READY" \in Cola /\ r \notin {"READY", "NEW", "EXIT"}
        /\ "NEW" \in Cola /\ "EXIT" \in Cola /\ colas[r] # <<>>
    BY NombresDeColas DEF Despertar
  <1>3. PICK x \in Pid : x = Head(colas[r])
    BY <1>2, PopLema DEF TypeColas
  <1>4. /\ colas' = [colas EXCEPT ![r] = Tail(@), !["READY"] = squeue_push(@, x)]
        /\ asignaciones' = Append(asig, [pid |-> x, recurso |-> r])
    BY <1>3 DEF Despertar
  <1>5. PidsDe(asignaciones') = PidsDe(asig) \cup {x}
    BY <1>4, UnaMas DEF Asignacion
  <1>6. x \in Nacidos /\ \A c \in {"NEW", "EXIT"} : x \notin Range(colas[c])
    BY <1>2, <1>3, Sacar, LugaresDef
  <1>7. \A c \in {"NEW", "EXIT"} : colas'[c] = colas[c]
    BY <1>2, <1>4 DEF TypeColas
  <1> QED  BY <1>1, <1>5, <1>6, <1>7 DEF Vivos

\* The same of the PCP and the console, that may have nobody to wake.
LEMMA VivosIncrementa ==
  ASSUME TypeColas, LugaresInv, NEW r \in Recursos, NEW asig \in Seq(Asignacion),
         Vivos(PidsDe(asig)), IncrementarRecurso(r, asig), ultimo_pid' = ultimo_pid
  PROVE  Vivos(PidsDe(asignaciones))'
  <1>1. CASE Despertar(r, asig)
    BY <1>1, VivosDespierta
  <1>2. CASE colas' = colas /\ asignaciones' = asig
    BY <1>2 DEF Vivos, Nacidos
  <1> QED  BY <1>1, <1>2 DEF IncrementarRecurso

\* Fewer allocations, fewer processes.
LEMMA VivosMenos == \A s, t : Vivos(s) /\ t \subseteq s => Vivos(t)
  BY DEF Vivos

\* So does the release of a resource.
LEMMA VivosLibera ==
  ASSUME TypeOK, LugaresInv, NEW p, LiberarUna(p), Vivos(PidsDe(asignaciones)),
         ultimo_pid' = ultimo_pid
  PROVE  Vivos(PidsDe(asignaciones))'
  <1>0. asignaciones \in Seq(Asignacion) /\ TypeColas
    BY DEF TypeOK, TypeColas
  <1> DEFINE k == PrimeraDe(p)
             asig == RemoveAt(asignaciones, k)
  <1>1. /\ asignaciones[k].recurso \in Recursos /\ k \in 1..Len(asignaciones)
    BY <1>0, PrimeraDeLema DEF LiberarUna
  <1>2. PICK r \in Recursos : r = asignaciones[k].recurso
    BY <1>1
  <1>3. IncrementarRecurso(r, asig)
    BY <1>2 DEF LiberarUna
  <1>4. asig \in Seq(Asignacion) /\ PidsDe(asig) \subseteq PidsDe(asignaciones)
    BY <1>0, <1>1, UnaMenos
  <1>5. Vivos(PidsDe(asig))
    BY <1>4, VivosMenos
  <1> HIDE DEF k, asig
  <1> QED  BY <1>0, <1>3, <1>4, <1>5, VivosIncrementa

\* No step gives a resource to who did not start, and nobody ends holding one.
LEMMA VivosPaso ==
  ASSUME Antes3, Vivos(PidsDe(asignaciones)), [Next]_vars
  PROVE  Vivos(PidsDe(asignaciones))'
  <1> USE DEF recs, plp, pcp, io, grado, consola, cpu
  <1> DEFINE pids == PidsDe(asignaciones)
  <1>0. /\ TypeOK /\ TypeColas /\ LugaresInv /\ BloqueadosContados /\ ManoInv /\ ControlInv
        /\ asignaciones \in Seq(Asignacion) /\ Vivos(pids)
        /\ {"NEW", "READY", "EXIT"} \subseteq Cola
        /\ (Recursos \cup Interfaces) \cap {"NEW", "READY", "EXIT", "-"} = {}
    BY NombresDeColas DEF Antes3, DatosInv, TypeOK, LugarInv, TypeColas
  <1>m. ASSUME NEW a, NEW b, NEW x, Mueve(a, b, x), b \in {"NEW", "EXIT"} => x \notin pids,
               UNCHANGED asignaciones, Nacidos \subseteq Nacidos'
        PROVE  Vivos(PidsDe(asignaciones))'
    <2>1. PICK s : s = pids
      OBVIOUS
    <2>2. Vivos(s)'
      BY <1>0, <1>m, <2>1, VivosMueve
    <2> QED  BY <1>m, <2>1, <2>2 DEF Vivos
  <1>n. ultimo_pid' = ultimo_pid => Nacidos \subseteq Nacidos'
    BY DEF Nacidos
  <1> HIDE DEF pids
  <1>s. ASSUME NEW p, AsignacionesDe(p) = {} PROVE p \notin pids
    BY <1>s DEF AsignacionesDe, pids, PidsDe, Range
  <1>1. CASE NoMueve
    BY <1>0, <1>1, Quietos DEF Vivos, Nacidos, pids
  <1>2. CASE PlpSaca \/ PlpEncola
    BY <1>0, <1>2, <1>m, <1>n, MovimientosPlp DEF PlpSaca, PlpEncola
  <1>3. CASE PcpDespacha \/ PcpFinQuantum
    BY <1>0, <1>3, <1>m, <1>n, MovimientosPcp DEF PcpDespacha, PcpFinQuantum, Encolar
  <1>4. CASE PcpRecibe
    BY <1>0, <1>4 DEF PcpRecibe, Vivos, Nacidos, pids
  <1>5. CASE PcpTermina
    <2>1. PICK x \in Pid : x = mano["pcp"] /\ Mueve("-", "EXIT", x)
      BY <1>5, MovimientosPcp
    <2>2. x \notin pids
      BY <1>5, <1>s, <2>1 DEF PcpTermina
    <2> QED  BY <1>5, <1>m, <1>n, <2>1, <2>2 DEF PcpTermina
  <1>6. ASSUME NEW r \in Recursos, PcpWaitAsigna(r) PROVE Vivos(PidsDe(asignaciones))'
    <2>1. PICK h \in Hilo : h = "pcp"
      BY DEF Hilo, Fijos
    <2>2. mano[h] # NULL
      BY <1>0, <1>6, <2>1 DEF PcpWaitAsigna, Pide, ManoInv
    <2>3. PICK x \in Pid : x = mano[h] /\ x \in Nacidos /\ \A c \in Cola : x \notin Range(colas[c])
      BY <1>0, <2>2, LaDeLaMano, LugaresDef
    <2>4. /\ asignaciones' = Append(asignaciones, [pid |-> x, recurso |-> r])
          /\ colas' = colas /\ ultimo_pid' = ultimo_pid
      BY <1>6, <2>1, <2>3 DEF PcpWaitAsigna, DevolverEjecucion
    <2>5. PidsDe(asignaciones') = pids \cup {x}
      BY <1>0, <2>4, UnaMas DEF Asignacion, pids
    <2> QED  BY <1>0, <2>3, <2>4, <2>5 DEF Vivos, Nacidos
  <1>7. ASSUME NEW r \in Recursos, PcpWaitBloquea(r) PROVE Vivos(PidsDe(asignaciones))'
    BY <1>0, <1>7, <1>m, <1>n, MovimientosPcp DEF PcpWaitBloquea, Encolar
  <1>8. ASSUME NEW r \in Recursos, PcpSignal(r) PROVE Vivos(PidsDe(asignaciones))'
    <2> DEFINE asig == Quitar(asignaciones, [pid |-> mano["pcp"], recurso |-> r])
    <2>1. asig \in Seq(Asignacion) /\ PidsDe(asig) \subseteq pids
      BY <1>0, UnaMenos DEF pids
    <2>2. IncrementarRecurso(r, asig) /\ ultimo_pid' = ultimo_pid
      BY <1>8 DEF PcpSignal, DevolverEjecucion
    <2>3. Vivos(PidsDe(asig))
      BY <1>0, <2>1, VivosMenos
    <2> HIDE DEF asig
    <2> QED  BY <1>0, <2>1, <2>2, <2>3, VivosIncrementa
  <1>9. CASE PcpLibera
    BY <1>0, <1>9, VivosLibera DEF PcpLibera, pids
  <1>10. CASE ConLibera
    BY <1>0, <1>10, VivosLibera DEF ConLibera, pids
  <1>11. ASSUME NEW i \in Interfaces, PcpIo(i) PROVE Vivos(PidsDe(asignaciones))'
    BY <1>0, <1>11, <1>m, <1>n, MovimientosPcp DEF PcpIo, Encolar
  <1>12. ASSUME NEW i \in Interfaces, IoDesbloquea(i) PROVE Vivos(PidsDe(asignaciones))'
    BY <1>0, <1>12, <1>m, <1>n, MovimientosIoConsola DEF IoDesbloquea
  <1>13. CASE ConIniciar
    <2>1. PICK x \in Pid : x = ultimo_pid /\ Mueve("-", "NEW", x)
      BY <1>13, MovimientosIoConsola
    <2>2. x \notin Nacidos /\ Nacidos \subseteq Nacidos'
      BY <1>0, <1>13, <2>1 DEF Nacidos, Pid, ConIniciar, TypeColas
    <2>3. x \notin pids
      BY <1>0, <2>2 DEF Vivos
    <2> QED  BY <1>13, <1>m, <2>1, <2>2, <2>3 DEF ConIniciar
  <1>14. CASE ConEliminaNew
    <2>1. PICK x \in Pid : x = con_pid /\ Mueve("NEW", "EXIT", x)
      BY <1>14, MovimientosIoConsola
    <2>2. x \notin pids
      BY <1>0, <2>1 DEF Vivos, Mueve, Sale
    <2> QED  BY <1>14, <1>m, <1>n, <2>1, <2>2 DEF ConEliminaNew
  <1>15. CASE ConTermina
    <2>1. PICK x \in Pid : x = con_pid /\ Mueve("-", "EXIT", x)
      BY <1>15, MovimientosIoConsola
    <2>2. x \notin pids
      BY <1>15, <1>s, <2>1 DEF ConTermina
    <2> QED  BY <1>15, <1>m, <1>n, <2>1, <2>2 DEF ConTermina
  <1>16. ASSUME NEW c \in Cola \ {"NEW", "EXIT"}, ConElimina(c)
         PROVE  Vivos(PidsDe(asignaciones))'
    BY <1>0, <1>16, <1>m, <1>n, MovimientosIoConsola DEF ConElimina
  <1>17. ASSUME NEW i \in Interfaces, IoSacaBloqueado(i) PROVE Vivos(PidsDe(asignaciones))'
    BY <1>0, <1>17, <1>m, <1>n, MovimientosSalida DEF IoSacaBloqueado
  <1>18. ASSUME NEW i \in Interfaces, NEW r \in Recursos, IoDespierta(i, r)
         PROVE  Vivos(PidsDe(asignaciones))'
    <2>1. Vivos(PidsDe(asignaciones))
      BY <1>0 DEF pids
    <2> QED  BY <1>0, <1>18, <2>1, VivosDespierta DEF IoDespierta
  <1>19. ASSUME NEW i \in Interfaces, NEW r \in Recursos, IoGuarda(i, r)
         PROVE  Vivos(PidsDe(asignaciones))'
    <2> DEFINE k == PrimeraDe(mano[i])
               asig == RemoveAt(asignaciones, k)
    <2>1. AsignacionesDe(mano[i]) # {} /\ k \in 1..Len(asignaciones)
      BY <1>0, <1>19, PrimeraDeLema DEF IoGuarda, Libera
    <2>2. asig \in Seq(Asignacion) /\ PidsDe(asig) \subseteq pids
      BY <1>0, <2>1, UnaMenos DEF pids
    <2>3. Vivos(PidsDe(asig))
      BY <1>0, <2>2, VivosMenos
    <2>4. asignaciones' = asig /\ colas' = colas /\ ultimo_pid' = ultimo_pid
      BY <1>19 DEF IoGuarda
    <2> HIDE DEF asig
    <2> QED  BY <2>3, <2>4 DEF Vivos, Nacidos
  <1>20. ASSUME NEW i \in Interfaces, IoElimina(i) PROVE Vivos(PidsDe(asignaciones))'
    <2>1. PICK x \in Pid : x = mano[i] /\ Mueve("-", "EXIT", x)
      BY <1>20, MovimientosSalida
    <2>2. x \notin pids
      BY <1>20, <1>s, <2>1 DEF IoElimina
    <2> QED  BY <1>20, <1>m, <1>n, <2>1, <2>2 DEF IoElimina
  <1> QED
    BY PasosQueMueven, <1>1, <1>2, <1>3, <1>4, <1>5, <1>6, <1>7, <1>8, <1>9, <1>10, <1>11, <1>12,
       <1>13, <1>14, <1>15, <1>16, <1>17, <1>18, <1>19, <1>20

-----------------------------------------------------------------------------
(* The degree of multiprogramming                                           *)

\* Activos, the processes of the queues and those of the hands.
Activa == Cola \ {"NEW", "EXIT"}
EnColas == {p \in Pid : \E c \in Activa : p \in Range(colas[c])}
EnManos == {p \in Pid : \/ mano["plp"] = p \/ mano["cpu"] = p
                        \/ mano["pcp"] = p /\ pcp_pc # "elimina"}

\* Those of the queues and those of the hands are all of them.
LEMMA ActivosDef == Activos = EnColas \cup EnManos
  BY DEF Activos, EnColas, EnManos, Contiene, Activa

\* The same in the next state.
LEMMA ActivosDefSig == (Activos = EnColas \cup EnManos)'
  BY ActivosDef, PTL

\* There are finitely many.
LEMMA ActivosFinitos == IsFiniteSet(Activos) /\ Cardinality(Activos) \in Nat
  <1>1. IsFiniteSet(Pid)
    BY ConstantesOK, FS_Interval DEF Pid
  <1>2. Activos \subseteq Pid
    BY DEF Activos
  <1> QED  BY <1>1, <1>2, FS_Subset, FS_CardinalityType

\* What a move does to the queues that count.
LEMMA EnColasMueve ==
  ASSUME LugaresInv, NEW a \in Cola \cup {"-"}, NEW b \in Cola \cup {"-"}, a # b, NEW x \in Pid,
         Mueve(a, b, x)
  PROVE  /\ a \in Activa /\ b \in Activa => EnColas' = EnColas
         /\ a \notin Activa /\ b \in Activa => EnColas' = EnColas \cup {x}
         /\ a \in Activa /\ b \notin Activa => EnColas' = EnColas \ {x} /\ x \in EnColas
         /\ a \notin Activa /\ b \notin Activa => EnColas' = EnColas
  <1> USE DEF Mueve, Entra, Sale, EnColas
  <1>0. Activa \subseteq Cola
    BY DEF Activa
  <1>1. ASSUME a \in Activa, b \in Activa PROVE EnColas' = EnColas
    <2>1. x \in Range(colas[a]) /\ x \in Range(colas'[b])
      BY <1>0, <1>1
    <2>2. \A c \in Activa, p \in Pid : p # x => (p \in Range(colas'[c]) <=> p \in Range(colas[c]))
      BY <1>0
    <2> QED  BY <1>1, <2>1, <2>2
  <1>2. ASSUME a \notin Activa, b \in Activa PROVE EnColas' = EnColas \cup {x}
    <2>1. x \in Range(colas'[b])
      BY <1>0, <1>2
    <2>2. \A c \in Activa, p \in Pid : p # x => (p \in Range(colas'[c]) <=> p \in Range(colas[c]))
      BY <1>0
    <2> QED  BY <1>2, <2>1, <2>2
  <1>3. ASSUME a \in Activa, b \notin Activa PROVE EnColas' = EnColas \ {x} /\ x \in EnColas
    <2>1. x \in Range(colas[a]) /\ x \notin Range(colas'[a])
      BY <1>0, <1>3
    <2>2. \A c \in Activa : c # a => colas'[c] = colas[c]
      BY <1>0, <1>3
    <2>3. \A c \in Activa : c # a => x \notin Range(colas[c])
      BY <1>0, <1>3, <2>1, LugaresDef
    <2>4. \A c \in Activa : x \notin Range(colas'[c])
      BY <2>1, <2>2, <2>3
    <2>5. \A c \in Activa, p \in Pid : p # x => (p \in Range(colas'[c]) <=> p \in Range(colas[c]))
      BY <1>0
    <2> QED  BY <1>3, <2>1, <2>4, <2>5
  <1>4. ASSUME a \notin Activa, b \notin Activa PROVE EnColas' = EnColas
    BY <1>0, <1>4
  <1> QED  BY <1>1, <1>2, <1>3, <1>4

\* The release of a resource moves a process from a queue that counts to another.
LEMMA EnColasIncrementada ==
  ASSUME LugaresInv, Incrementada
  PROVE  EnColas' = EnColas
  <1>1. /\ Recursos \subseteq Activa /\ "READY" \in Activa /\ "READY" \notin Recursos
        /\ "-" \notin Cola /\ Activa \subseteq Cola
    BY NombresDeColas DEF Activa
  <1>2. CASE \E c \in Recursos, x \in Pid : Mueve(c, "READY", x)
    BY <1>1, <1>2, EnColasMueve
  <1>3. CASE Mueve("-", "-", NULL)
    BY <1>1, <1>3 DEF Mueve, EnColas
  <1> QED  BY <1>2, <1>3 DEF Incrementada

\* Who starts to count, who stops and, for every other step, that nobody does.
LEMMA ActivosPaso ==
  ASSUME Antes3, [Next]_vars
  PROVE  /\ PlpSaca => \E x \in Pid : x \notin Activos /\ Activos' = Activos \cup {x}
         /\ PcpElimina \/ (\E c \in Cola \ {"NEW", "EXIT"} : ConElimina(c))
            \/ (\E i \in Interfaces : IoSacaBloqueado(i))
                => \E x \in Activos : Activos' = Activos \ {x}
         /\ \/ PlpSaca \/ PcpElimina \/ \E c \in Cola \ {"NEW", "EXIT"} : ConElimina(c)
            \/ \E i \in Interfaces : IoSacaBloqueado(i)
            \/ Activos' = Activos
  <1> USE DEF recs, plp, pcp, io, grado, consola, cpu
  <1>0. /\ TypeOK /\ TypeColas /\ LugaresInv /\ ManoInv /\ ControlInv
        /\ {"NEW", "READY", "EXIT"} \subseteq Cola
        /\ (Recursos \cup Interfaces) \cap {"NEW", "READY", "EXIT", "-"} = {}
        /\ Recursos \cup Interfaces \cup {"READY"} \subseteq Activa
        /\ Activa \cap {"NEW", "EXIT", "-"} = {} /\ Activa \subseteq Cola
        /\ {"plp", "cpu", "pcp"} \subseteq Hilo
        /\ \A h \in Hilo : mano[h] # NULL =>
               mano[h] \in Pid /\ \A c \in Cola : mano[h] \notin Range(colas[c])
    BY NombresDeColas, LaDeLaMano DEF Antes3, DatosInv, TypeOK, LugarInv, Activa, Hilo, Fijos
  <1>d. /\ \A h, k \in Hilo : mano[h] = mano[k] /\ mano[h] # NULL => h = k
        /\ \A c, d \in Cola : c # d => Range(colas[c]) \cap Range(colas[d]) = {}
        /\ \A h \in Hilo, c \in Cola : mano[h] \notin Range(colas[c])
    BY <1>0, LugaresDef
  <1>e. NULL \notin Pid
    BY NullNoEsPid
  <1>1. ASSUME PlpSaca PROVE \E x \in Pid : x \notin Activos /\ Activos' = Activos \cup {x}
    <2>1. PICK x \in Pid : x = plp_visto /\ Mueve("NEW", "-", x)
      BY <1>1, MovimientosPlp
    <2>2. EnColas' = EnColas
      BY <1>0, <2>1, EnColasMueve
    <2>3. EnManos' = EnManos \cup {x}
      BY <1>0, <1>1, <1>e, <2>1 DEF PlpSaca, EnManos, ManoInv, TypeColas
    <2>4. x \in Range(colas["NEW"])
      BY <1>0, <2>1 DEF Mueve, Sale
    <2>5. x \notin EnColas /\ x \notin EnManos
      BY <1>0, <1>d, <2>4 DEF EnColas, EnManos
    <2> QED  BY <2>1, <2>2, <2>3, <2>5, ActivosDef, ActivosDefSig
  <1>2. ASSUME PcpElimina PROVE \E x \in Activos : Activos' = Activos \ {x}
    <2>1. PICK x \in Pid : x = mano["pcp"]
      BY <1>0, <1>2 DEF PcpElimina, Maneja, ManoInv
    <2>2. EnColas' = EnColas
      BY <1>2 DEF PcpElimina, EnColas
    <2>3. EnManos' = EnManos \ {x} /\ x \in EnManos
      BY <1>0, <1>2, <1>d, <1>e, <2>1 DEF PcpElimina, Maneja, EnManos
    <2>4. x \notin EnColas
      BY <1>0, <1>d, <2>1 DEF EnColas
    <2> QED  BY <2>2, <2>3, <2>4, ActivosDef, ActivosDefSig
  <1>3. ASSUME NEW c \in Cola \ {"NEW", "EXIT"}, ConElimina(c)
        PROVE  \E x \in Activos : Activos' = Activos \ {x}
    <2>1. PICK x \in Pid : Mueve(c, "-", x)
      BY <1>0, <1>3, MovimientosIoConsola
    <2>2. EnColas' = EnColas \ {x} /\ x \in EnColas
      BY <1>0, <2>1, EnColasMueve DEF Activa
    <2>3. EnManos' = EnManos
      BY <1>0, <1>3 DEF ConElimina, EnManos, TypeColas
    <2>4. x \notin EnManos
      BY <1>0, <1>d, <2>1 DEF EnManos, Mueve, Sale
    <2> QED  BY <2>2, <2>3, <2>4, ActivosDef, ActivosDefSig
  <1>q. ASSUME EnColas' = EnColas, EnManos' = EnManos PROVE Activos' = Activos
    BY <1>q, ActivosDef, ActivosDefSig
  <1>r. ASSUME NEW x, EnColas' = EnColas \cup {x}, EnManos' = EnManos \ {x}, x \in EnManos
        PROVE  Activos' = Activos
    BY <1>r, ActivosDef, ActivosDefSig
  <1>4. ASSUME NoMueve PROVE PcpElimina \/ Activos' = Activos
    <2>1. colas' = colas /\ mano' = mano
      BY <1>4, Quietos
    <2>2. PcpElimina \/ (pcp_pc' = "elimina" <=> pcp_pc = "elimina")
      BY <1>4, IoAvanzaDef DEF NoMueve, PlpVeNew, PlpTomaLugar, PlpDescarta, PlpAvisa, PcpVeReady,
         PcpConfirma, PcpRechaza, PcpWaitDescuenta, Maneja, Muere, IoToma, IoDescarta, IoAvisa,
         ConGrado, ConDetener, ConFinalizar, ConReanudar, ConTomaPermiso, ConPausada,
         ConInterrumpe, ConNoEncuentra, ConSeTraba, vars
    <2>3. EnColas' = EnColas
      BY <2>1 DEF EnColas
    <2>4. PcpElimina \/ EnManos' = EnManos
      BY <2>1, <2>2 DEF EnManos
    <2> QED  BY <1>q, <2>3, <2>4
  <1>5. ASSUME PlpEncola PROVE Activos' = Activos
    <2>1. PICK x \in Pid : x = mano["plp"] /\ Mueve("-", "READY", x)
      BY <1>5, MovimientosPlp
    <2>2. EnColas' = EnColas \cup {x}
      BY <1>0, <2>1, EnColasMueve
    <2>3. EnManos' = EnManos \ {x} /\ x \in EnManos
      BY <1>0, <1>5, <1>d, <1>e, <2>1 DEF PlpEncola, EnManos, TypeColas
    <2> QED  BY <1>r, <2>2, <2>3
  <1>6. ASSUME PcpDespacha PROVE Activos' = Activos
    <2>1. PICK x \in Pid : x = pcp_visto /\ Mueve("READY", "-", x)
      BY <1>6, MovimientosPcp
    <2>2. EnColas' = EnColas \ {x} /\ x \in EnColas
      BY <1>0, <2>1, EnColasMueve
    <2>3. EnManos' = EnManos \cup {x}
      BY <1>0, <1>6, <1>e, <2>1 DEF PcpDespacha, EnManos, ManoInv, TypeColas
    <2> QED  BY <2>2, <2>3, ActivosDef, ActivosDefSig
  <1>7. ASSUME PcpRecibe PROVE Activos' = Activos
    <2>1. EnColas' = EnColas
      BY <1>7 DEF PcpRecibe, EnColas
    <2>2. EnManos' = EnManos
      BY <1>0, <1>7, <1>e DEF PcpRecibe, EnManos, ManoInv, TypeColas
    <2> QED  BY <1>q, <2>1, <2>2
  <1>8. ASSUME NEW c \in Activa, pcp_pc \in {"espera_desalojo", "pide"}, Encolar(c),
               \E x \in Pid : x = mano["pcp"] /\ Mueve("-", c, x)
        PROVE  Activos' = Activos
    <2>1. PICK x \in Pid : x = mano["pcp"] /\ Mueve("-", c, x)
      BY <1>8
    <2>2. EnColas' = EnColas \cup {x}
      BY <1>0, <2>1, EnColasMueve
    <2>3. EnManos' = EnManos \ {x} /\ x \in EnManos
      BY <1>0, <1>8, <1>d, <1>e, <2>1 DEF Encolar, EnManos, TypeColas
    <2> QED  BY <1>r, <2>2, <2>3
  <1>9. ASSUME PcpFinQuantum PROVE Activos' = Activos
    BY <1>0, <1>8, <1>9, MovimientosPcp DEF PcpFinQuantum, Maneja
  <1>10. ASSUME NEW r \in Recursos, PcpWaitBloquea(r) PROVE Activos' = Activos
    BY <1>0, <1>8, <1>10, MovimientosPcp DEF PcpWaitBloquea, Pide
  <1>11. ASSUME NEW i \in Interfaces, PcpIo(i) PROVE Activos' = Activos
    BY <1>0, <1>8, <1>11, MovimientosPcp DEF PcpIo, Maneja
  <1>12. ASSUME pcp_pc \in {"espera_desalojo", "pide"}, DevolverEjecucion PROVE EnManos' = EnManos
    BY <1>0, <1>12, <1>e DEF DevolverEjecucion, EnManos, ManoInv, TypeColas
  <1>13. ASSUME NEW r \in Recursos, PcpWaitAsigna(r) PROVE Activos' = Activos
    <2>1. EnColas' = EnColas
      BY <1>13 DEF PcpWaitAsigna, EnColas
    <2> QED  BY <1>12, <1>13, <1>q, <2>1 DEF PcpWaitAsigna, Pide
  <1>14. ASSUME NEW r \in Recursos, PcpSignal(r) PROVE Activos' = Activos
    <2>1. EnColas' = EnColas
      BY <1>0, <1>14, MovimientosPcp, EnColasIncrementada
    <2> QED  BY <1>12, <1>14, <1>q, <2>1 DEF PcpSignal, Maneja
  <1>15. ASSUME PcpLibera \/ ConLibera PROVE Activos' = Activos
    <2>1. EnColas' = EnColas
      BY <1>0, <1>15, MovimientosPcp, MovimientosIoConsola, EnColasIncrementada
    <2>2. EnManos' = EnManos
      BY <1>15 DEF PcpLibera, ConLibera, EnManos
    <2> QED  BY <1>q, <2>1, <2>2
  <1>16. ASSUME PcpTermina PROVE Activos' = Activos
    <2>1. EnColas' = EnColas
      BY <1>0, <1>16, MovimientosPcp, EnColasMueve
    <2>2. EnManos' = EnManos
      BY <1>0, <1>16, <1>e DEF PcpTermina, EnManos, TypeColas
    <2> QED  BY <1>q, <2>1, <2>2
  <1>17. ASSUME NEW i \in Interfaces, IoDesbloquea(i) PROVE Activos' = Activos
    <2>1. EnColas' = EnColas
      BY <1>0, <1>17, MovimientosIoConsola, EnColasMueve
    <2>2. EnManos' = EnManos
      BY <1>17 DEF IoDesbloquea, EnManos
    <2> QED  BY <1>q, <2>1, <2>2
  <1>18. ASSUME ConIniciar \/ ConEliminaNew \/ ConTermina PROVE Activos' = Activos
    <2>1. PICK a \in {"-", "NEW"}, b \in {"NEW", "EXIT"}, x \in Pid : a # b /\ Mueve(a, b, x)
      BY <1>0, <1>18, MovimientosIoConsola
    <2>2. EnColas' = EnColas
      BY <1>0, <2>1, EnColasMueve
    <2>3. EnManos' = EnManos
      BY <1>0, <1>18 DEF ConIniciar, ConEliminaNew, ConTermina, EnManos, TypeColas
    <2> QED  BY <1>q, <2>2, <2>3
  <1>m. ASSUME NEW i \in Interfaces, NEW x, mano' = [mano EXCEPT ![i] = x], pcp_pc' = pcp_pc
        PROVE  EnManos' = EnManos
    <2>1. i \notin {"plp", "cpu", "pcp"}
      BY NombresDeColas DEF Fijos
    <2> QED  BY <1>0, <1>m, <2>1 DEF EnManos, TypeColas
  <1>19. ASSUME NEW i \in Interfaces, IoSacaBloqueado(i)
         PROVE  \E x \in Activos : Activos' = Activos \ {x}
    <2>1. PICK x \in Pid : Mueve(i, "-", x)
      BY <1>19, MovimientosSalida
    <2>2. EnColas' = EnColas \ {x} /\ x \in EnColas
      BY <1>0, <2>1, EnColasMueve
    <2>3. EnManos' = EnManos
      BY <1>m, <1>19 DEF IoSacaBloqueado
    <2>4. x \notin EnManos
      BY <1>0, <1>d, <2>1 DEF EnManos, Mueve, Sale
    <2> QED  BY <2>2, <2>3, <2>4, ActivosDef, ActivosDefSig
  <1>20. ASSUME NEW i \in Interfaces, NEW r \in Recursos, IoDespierta(i, r)
         PROVE  Activos' = Activos
    <2>1. EnColas' = EnColas
      BY <1>0, <1>20, MovimientosSalida, EnColasMueve
    <2>2. EnManos' = EnManos
      BY <1>20 DEF IoDespierta, EnManos
    <2> QED  BY <1>q, <2>1, <2>2
  <1>21. ASSUME NEW i \in Interfaces, NEW r \in Recursos, IoGuarda(i, r) PROVE Activos' = Activos
    <2>1. EnColas' = EnColas /\ EnManos' = EnManos
      BY <1>21 DEF IoGuarda, EnColas, EnManos
    <2> QED  BY <1>q, <2>1
  <1>22. ASSUME NEW i \in Interfaces, IoElimina(i) PROVE Activos' = Activos
    <2>1. EnColas' = EnColas
      BY <1>0, <1>22, MovimientosSalida, EnColasMueve
    <2>2. EnManos' = EnManos
      BY <1>m, <1>22 DEF IoElimina
    <2> QED  BY <1>q, <2>1, <2>2
  <1> QED
    BY PasosQueMueven, <1>1, <1>2, <1>3, <1>4, <1>5, <1>6, <1>7, <1>9, <1>10, <1>11, <1>13, <1>14,
       <1>15, <1>16, <1>17, <1>18, <1>19, <1>20, <1>21, <1>22

\* The places that are free, taken by the PLP, or owed.
GradoContado ==
    sem_multiprogramacion + (IF plp_pc = "espera_permiso" THEN 1 ELSE 0) + Cardinality(Activos)
        = grado_multiprogramacion + procesos_extra

\* It is ConservacionGrado.
LEMMA GradoDef == ConservacionGrado <=> GradoContado
  BY DEF ConservacionGrado, GradoContado, Uno

\* In the next state too.
LEMMA GradoDefSig == (ConservacionGrado <=> GradoContado)'
  BY GradoDef, PTL

\* And the active ones are finitely many there.
LEMMA ActivosFinitosSig == (IsFiniteSet(Activos) /\ Cardinality(Activos) \in Nat)'
  BY ActivosFinitos, PTL

\* A process that stops counting gives its place back, or pays what is owed.
LEMMA GradoDevuelto ==
  ASSUME TypeOK, GradoContado, DevolverLugar, UNCHANGED plp_pc, NEW x \in Activos,
         Activos' = Activos \ {x}
  PROVE  GradoContado'
  <1>1. PICK s \in Nat, e \in Nat, g \in Nat, n \in Nat :
            /\ s = sem_multiprogramacion /\ e = procesos_extra /\ g = grado_multiprogramacion
            /\ n = Cardinality(Activos)
    BY ActivosFinitos DEF TypeOK, TypeContadores
  <1>2. Cardinality(Activos') = n - 1
    BY <1>1, ActivosFinitos, FS_RemoveElement
  <1> QED  BY <1>1, <1>2 DEF GradoContado, DevolverLugar

\* Every step keeps the places.
LEMMA GradoPaso ==
  ASSUME Antes3, GradoContado, [Next]_vars
  PROVE  GradoContado'
  <1> USE DEF recs, plp, pcp, io, grado, consola, cpu
  <1>0. TypeOK
    BY DEF Antes3, DatosInv
  <1>a. PICK s \in Nat, e \in Nat, g \in Nat, n \in Nat :
            /\ s = sem_multiprogramacion /\ e = procesos_extra /\ g = grado_multiprogramacion
            /\ n = Cardinality(Activos)
    BY <1>0, ActivosFinitos DEF TypeOK, TypeContadores
  <1>1. CASE PlpSaca
    <2>1. PICK x \in Pid : x \notin Activos /\ Activos' = Activos \cup {x}
      BY <1>1, ActivosPaso
    <2>2. Cardinality(Activos') = n + 1
      BY <1>a, <2>1, ActivosFinitos, FS_AddElement
    <2> QED  BY <1>1, <1>a, <2>2 DEF PlpSaca, GradoContado
  <1>2. CASE PcpElimina
    <2>1. PICK x \in Activos : Activos' = Activos \ {x}
      BY <1>2, ActivosPaso
    <2> QED  BY <1>0, <1>2, <2>1, GradoDevuelto DEF PcpElimina
  <1>3. ASSUME NEW c \in Cola \ {"NEW", "EXIT"}, ConElimina(c) PROVE GradoContado'
    <2>1. PICK x \in Activos : Activos' = Activos \ {x}
      BY <1>3, ActivosPaso
    <2> QED  BY <1>0, <1>3, <2>1, GradoDevuelto DEF ConElimina
  <1>5. ASSUME NEW i \in Interfaces, IoSacaBloqueado(i) PROVE GradoContado'
    <2>1. PICK x \in Activos : Activos' = Activos \ {x}
      BY <1>5, ActivosPaso
    <2> QED  BY <1>0, <1>5, <2>1, GradoDevuelto DEF IoSacaBloqueado
  <1>4. ASSUME ~PlpSaca, ~PcpElimina, \A c \in Cola \ {"NEW", "EXIT"} : ~ConElimina(c),
               \A i \in Interfaces : ~IoSacaBloqueado(i)
        PROVE  GradoContado'
    <2>1. Cardinality(Activos') = n
      BY <1>4, <1>a, ActivosPaso
    <2>2. CASE PlpTomaLugar \/ PlpDescarta
      BY <1>a, <2>1, <2>2 DEF PlpTomaLugar, PlpDescarta, GradoContado
    <2>3. ASSUME NEW m \in 0..MaxGrado, ConGrado(m) PROVE GradoContado'
      <3>1. m \in Int
        OBVIOUS
      <3> QED  BY <1>a, <2>1, <2>3, <3>1 DEF ConGrado, GradoContado
    <2>4. ASSUME UNCHANGED <<sem_multiprogramacion, grado_multiprogramacion, procesos_extra>>,
                 plp_pc' = "espera_permiso" <=> plp_pc = "espera_permiso"
          PROVE  GradoContado'
      BY <1>a, <2>1, <2>4 DEF GradoContado
    <2>5. CASE PlpVeNew \/ PlpEncola \/ PlpAvisa
      BY <2>4, <2>5 DEF PlpVeNew, PlpEncola, PlpAvisa
    <2>6. CASE Pcp
      BY <1>4, <2>4, <2>6
         DEF Pcp, PcpVeReady, PcpConfirma, PcpRechaza, PcpDespacha, PcpRecibe, PcpFinQuantum,
             PcpLibera, PcpTermina, PcpWaitDescuenta, PcpWaitAsigna, PcpWaitBloquea, PcpSignal,
             PcpSacaNull, PopDeNull, Muere, PcpIo, Encolar, DevolverEjecucion
    <2>7. ASSUME NEW i \in Interfaces, Io(i) PROVE GradoContado'
      <3>1. CASE IoAvanza(i) \/ Muere
        BY <2>4, <3>1, IoAvanzaDef DEF Muere
      <3> QED  BY <1>4, <2>4, <2>7, <3>1
             DEF Io, IoAvanza, IoLeeNull, IoLeeLiberado, IoSacaNull, IoToma, IoDesbloquea,
                 IoDescarta, IoAvisa, IoElimina, IoDespierta, IoGuarda
    <2>8. CASE \/ ConIniciar \/ ConDetener \/ ConReanudar \/ \E p \in Pid : ConFinalizar(p)
               \/ ConTomaPermiso \/ ConPausada \/ ConInterrumpe \/ ConEliminaNew
               \/ ConNoEncuentra \/ ConLibera \/ ConSeTraba \/ ConTermina \/ UNCHANGED vars
      BY <2>4, <2>8 DEF vars, ConIniciar, ConDetener, ConReanudar, ConFinalizar, ConTomaPermiso,
         ConPausada, ConInterrumpe, ConEliminaNew, ConNoEncuentra, ConLibera, ConSeTraba, ConTermina
    <2>9. CASE Muere
      BY <2>4, <2>9 DEF Muere
    <2> QED  BY <1>4, <2>2, <2>3, <2>5, <2>6, <2>7, <2>8, <2>9
           DEF Next, Plp, Operador, Comando, ConSacaNull, ConAserto, PopDeNull
  <1> QED  BY <1>1, <1>2, <1>3, <1>4, <1>5

-----------------------------------------------------------------------------
(* The theorems                                                             *)

\* Layer 4 holds at the start: the queues are empty and nobody runs.
LEMMA CuentasInit == Init => CuentasInv
  <1> SUFFICES ASSUME Init PROVE CuentasInv
    OBVIOUS
  <1>1. /\ \A c \in Cola : colas[c] = <<>>
        /\ \A h \in Hilo : mano[h] = NULL
        /\ {"NEW", "READY", "READY_PLUS"} \cup Interfaces \subseteq Cola
    BY NombresDeColas DEF Init, Cola
  <1>2. \A c \in Cola : Range(colas[c]) = {} /\ Len(colas[c]) = 0
    BY <1>1 DEF Range
  <1>3. VistosInv
    BY DEF Init, VistosInv
  <1>4. AsignadosInv /\ SinAsignacionesHuerfanas
    BY DEF Init, AsignadosInv, SinAsignacionesHuerfanas
  <1>5. Avisan = {}
    BY DEF Init, Avisan
  <1>6. IsFiniteSet(Avisan) /\ Cardinality(Avisan) = 0
    BY <1>5, FS_EmptySet
  <1>7. ReadyAvisado
    BY <1>1, <1>2, <1>6 DEF Init, ReadyAvisado, Mirado
  <1>8. AvisosReady
    BY <1>1, <1>7, AvisosReadyDef, DatosInit DEF DatosInv
  <1>9. NewAvisado /\ \A i \in Interfaces : IoAvisado(i)
    BY <1>1, <1>2 DEF Init, NewAvisado, IoAvisado, NewMirado, IoMirado
  <1>10. Activos = {}
    BY <1>1, <1>2, NullNoEsPid DEF Activos, Contiene, Hilo, Fijos
  <1>11. Cardinality(Activos) = 0
    BY <1>10, FS_EmptySet
  <1>12. GradoContado
    BY <1>11, ConstantesOK DEF Init, GradoContado
  <1> QED  BY <1>3, <1>4, <1>6, <1>8, <1>9, <1>12, AvisosNewEIoDef, GradoDef DEF CuentasInv

\* And every step keeps it, given the layers before.
LEMMA CuentasPaso ==
  ASSUME Algoritmo # "VRR"
  PROVE  /\ ControlInv /\ DatosInv /\ DatosInv' /\ LugarInv /\ LugarInv' /\ CuentasInv
         /\ [Next]_vars
         => CuentasInv'
  <1> SUFFICES ASSUME ControlInv, DatosInv, DatosInv', LugarInv, LugarInv', CuentasInv,
                      [Next]_vars
               PROVE  CuentasInv'
    OBVIOUS
  <1>1. /\ Antes3 /\ TypeOK /\ TypeOK' /\ VistosInv /\ IsFiniteSet(Avisan)
        /\ colas["READY_PLUS"] = <<>> /\ colas'["READY_PLUS"] = <<>>
    BY DEF Antes3, CuentasInv, DatosInv, LugarInv
  <1>2. VistosInv'
    BY <1>1, VistosPaso
  <1>3. IsFiniteSet(Avisan')
    BY <1>1, AvisanPaso
  <1>4. AvisosReady'
    BY <1>1, ReadyPaso, AvisosReadyDef, AvisosReadyDefSig DEF CuentasInv
  <1>5. NewAvisado /\ \A i \in Interfaces : io_pc[i] \in Atiende => IoAvisado(i)
    BY AvisosNewEIoDef DEF CuentasInv
  <1>6. NewAvisado' /\ \A i \in Interfaces : io_pc'[i] \in Atiende => IoAvisado(i)'
    BY <1>1, <1>5, NewPaso, IoPaso, NoVuelve
  <1>7. AvisosNewEIo'
    BY <1>6, AvisosNewEIoDefSig
  <1>8. AsignadosInv' /\ SinAsignacionesHuerfanas'
    BY <1>1, VivosPaso, VivosDef, VivosDefSig DEF CuentasInv
  <1>9. ConservacionGrado'
    BY <1>1, GradoPaso, GradoDef, GradoDefSig DEF CuentasInv
  <1> QED  BY <1>2, <1>3, <1>4, <1>7, <1>8, <1>9 DEF CuentasInv

\* Layer 4: under FIFO and RR, every wait on a queue is counted and so is every place.
THEOREM CuentasSiempre ==
  ASSUME Algoritmo # "VRR"
  PROVE  Spec => []CuentasInv
  <1>1. /\ ControlInv /\ DatosInv /\ DatosInv' /\ LugarInv /\ LugarInv' /\ CuentasInv
        /\ [Next]_vars
        => CuentasInv'
    BY CuentasPaso
  <1> QED  BY <1>1, ControlSiempre, DatosSiempre, LugarSiempre, CuentasInit, PTL DEF Spec

\* No lost wake-up of the short-term planner: however pauses, kills and completions
\* interleave, each process in READY has a unit of sem_elementos_en_ready posted, about to be
\* posted, or taken by the PCP for the process it saw.
THEOREM AvisosReadySiempre ==
  ASSUME Algoritmo # "VRR"
  PROVE  Spec => []AvisosReady
  <1>1. CuentasInv => AvisosReady
    BY DEF CuentasInv
  <1> QED  BY <1>1, CuentasSiempre, PTL

\* The same for the PLP and NEW, and for each interface that attends and its blocked queue: a
\* killed process never takes the unit of another one.
THEOREM AvisosNewEIoSiempre ==
  ASSUME Algoritmo # "VRR"
  PROVE  Spec => []AvisosNewEIo
  <1>1. CuentasInv => AvisosNewEIo
    BY DEF CuentasInv
  <1> QED  BY <1>1, CuentasSiempre, PTL

\* A process in EXIT, or that did not leave NEW, holds no instance of any resource.
THEOREM SinHuerfanasSiempre ==
  ASSUME Algoritmo # "VRR"
  PROVE  Spec => []SinAsignacionesHuerfanas
  <1>1. CuentasInv => SinAsignacionesHuerfanas
    BY DEF CuentasInv
  <1> QED  BY <1>1, CuentasSiempre, PTL

\* The places of the degree of multiprogramming, free, taken by the PLP or in use, are those
\* the operator asked for and those still owed, whatever is killed or changed meanwhile.
THEOREM ConservacionGradoSiempre ==
  ASSUME Algoritmo # "VRR"
  PROVE  Spec => []ConservacionGrado
  <1>1. CuentasInv => ConservacionGrado
    BY DEF CuentasInv
  <1> QED  BY <1>1, CuentasSiempre, PTL

\* The four layers together: the permissions have one holder each, every hand has a PCB
\* exactly where the code does and, but for VRR, the PCP pops the PCB it saw and the
\* semaphores count what the queues hold.
THEOREM InvarianteSiempre == Spec => []IInv
  <1>1. CASE Algoritmo # "VRR"
    <2>1. (Spec => []LugarInv) /\ (Spec => []CuentasInv)
      BY <1>1, LugarSiempre, CuentasSiempre
    <2>2. ControlInv /\ DatosInv /\ LugarInv /\ CuentasInv => IInv
      BY DEF IInv
    <2> QED  BY <2>1, <2>2, ControlSiempre, DatosSiempre, PTL
  <1>2. CASE ~(Algoritmo # "VRR")
    <2>1. ControlInv /\ DatosInv => IInv
      BY <1>2 DEF IInv
    <2> QED  BY <2>1, ControlSiempre, DatosSiempre, PTL
  <1> QED  BY <1>1, <1>2
=============================================================================
