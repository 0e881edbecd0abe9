--------------------------- MODULE PruebaDespacho ---------------------------
(***************************************************************************)
(* Proofs about Despacho: its invariant, what the planner may touch of a     *)
(* clock, the quantum of VRR, whom a kill hits, and that every program is    *)
(* executed as Programa promises, for any programs, processes and clocks.    *)
(***************************************************************************)
EXTENDS DespachoInv, SqueueLemas

\* One transition, by what it does.
LEMMA Transiciones ==
  ASSUME [Next]_vars
  PROVE  \/ \E plus \in BOOLEAN : PcpPrepara(plus)
         \/ PcpEnvia \/ PcpRecibe \/ PcpCancela
         \/ manejar_fin_quantum \/ Eliminar \/ Bloquear \/ DevolverEjecucion \/ Desbloquear
         \/ Pausa \/ ConVe \/ ConInterrumpe
         \/ CpuRecibe \/ FetchPasado \/ EjecutaCalculo \/ EjecutaDesborde \/ exec_jnz
         \/ EjecutaPedido \/ EjecutaFin \/ EjecutaResize \/ check_interrupt \/ servidor_interrupt
         \/ Tick
         \/ \E r \in Reloj : RelojDespierta(r) \/ RelojEnvia(r) \/ RelojTermina(r)
         \/ UNCHANGED vars
  BY DEF Next, Pcp, Consola, Cpu, reloj_rr

\* A PCB, and one with a field changed.
LEMMA PcbLema ==
  ASSUME NEW x \in Pcb
  PROVE  /\ x.pid \in Pids /\ x.program_counter \in Nat /\ x.quantum \in Int
         /\ x.registros \in [AX : 0..UINT8_MAX, EAX : 0..UINT32_MAX]
  BY DEF Pcb

\* The same PCB with another quantum, and with another program counter.
LEMMA ConQuantum ==
  ASSUME NEW x \in Pcb, NEW q \in Int
  PROVE  LET y == [x EXCEPT !.quantum = q] IN
         /\ y \in Pcb /\ y.pid = x.pid /\ y.program_counter = x.program_counter
         /\ y.registros = x.registros /\ y.quantum = q
  BY DEF Pcb

LEMMA ConContador ==
  ASSUME NEW x \in Pcb, NEW n \in Nat
  PROVE  LET y == [x EXCEPT !.program_counter = n] IN
         /\ y \in Pcb /\ y.pid = x.pid /\ y.program_counter = n
         /\ y.registros = x.registros /\ y.quantum = x.quantum
  BY DEF Pcb

\* A queue of one.
LEMMA UnoLema ==
  ASSUME NEW S, NEW q \in Seq(S), Len(q) = 1
  PROVE  /\ q # <<>> /\ Head(q) \in S /\ Range(q) = {Head(q)} /\ Tail(q) = <<>>
  <1>0. q # <<>> /\ DOMAIN q = 1..1
    <2>1. DOMAIN q = 1..Len(q)
      BY LenProperties
    <2>2. Len(<<>>) = 0
      OBVIOUS
    <2> QED  BY <2>1, <2>2
  <1>1. Head(q) = q[1]
    OBVIOUS
  <1>2. Range(q) = {Head(q)}
    <2>1. \A y : y \in 1..1 <=> y = 1
      OBVIOUS
    <2> QED  BY <1>0, <1>1, <2>1 DEF Range
  <1>3. Len(Tail(q)) = 0 /\ Tail(q) \in Seq(S) /\ Head(q) \in S
    BY <1>0, HeadTailProperties
  <1> QED  BY <1>0, <1>2, <1>3, EmptySeq

\* The empty queue, and the queue that gets its first element.
LEMMA VacioLema ==
  /\ Range(<<>>) = {} /\ Len(<<>>) = 0
  /\ \A S : <<>> \in Seq(S)
  /\ \A S, x : x \in S => /\ Append(<<>>, x) \in Seq(S) /\ Append(<<>>, x) # <<>>
                          /\ Len(Append(<<>>, x)) = 1 /\ Range(Append(<<>>, x)) = {x}
                          /\ Head(Append(<<>>, x)) = x
  <1>1. Range(<<>>) = {} /\ Len(<<>>) = 0
    BY DEF Range
  <1>2. ASSUME NEW S, NEW x \in S
        PROVE  /\ Append(<<>>, x) \in Seq(S) /\ Append(<<>>, x) # <<>>
               /\ Len(Append(<<>>, x)) = 1 /\ Range(Append(<<>>, x)) = {x}
               /\ Head(Append(<<>>, x)) = x
    <2>1. <<>> \in Seq(S) /\ Append(<<>>, x) \in Seq(S) /\ Len(Append(<<>>, x)) = 1
          /\ Append(<<>>, x)[1] = x
      BY AppendProperties
    <2>2. Append(<<>>, x) # <<>> /\ Range(Append(<<>>, x)) = {Head(Append(<<>>, x))}
      BY <2>1, UnoLema
    <2>3. Head(Append(<<>>, x)) = Append(<<>>, x)[1]
      BY <2>1, <2>2
    <2> QED  BY <2>1, <2>2, <2>3
  <1> QED  BY <1>1, <1>2

\* One thing in two places is in one of them.
LEMMA Suma == \A a, b \in Nat : a + b = 1 => (a = 1 /\ b = 0) \/ (a = 0 /\ b = 1)
  OBVIOUS

\* Where the PCB in execution is, by what tells.
Donde ==
    /\ pcp_pc = "planifica" => /\ mano = Nada /\ dispatch_cpu = <<>> /\ pcb = Nada
                               /\ dispatch_kernel = <<>> /\ EnEjecucion = {}
    /\ pcp_pc \in {"envia", "cancela", "maneja"} =>
           /\ mano \in Devuelto /\ mano.pcb \in Pcb /\ mano # Nada /\ dispatch_cpu = <<>>
           /\ dispatch_kernel = <<>> /\ pcb = Nada /\ EnEjecucion = {mano.pcb}
    /\ pcb # Nada =>
           /\ pcp_pc = "recibe" /\ mano = Nada /\ dispatch_cpu = <<>> /\ pcb \in Pcb
           /\ dispatch_kernel = <<>> /\ EnEjecucion = {pcb}
    /\ dispatch_cpu # <<>> =>
           /\ pcp_pc = "recibe" /\ mano = Nada /\ pcb = Nada /\ dispatch_kernel = <<>>
           /\ Tail(dispatch_cpu) = <<>> /\ Head(dispatch_cpu) \in Pcb
           /\ EnEjecucion = {Head(dispatch_cpu)}
    /\ dispatch_kernel # <<>> =>
           /\ pcp_pc = "recibe" /\ mano = Nada /\ pcb = Nada /\ dispatch_cpu = <<>>
           /\ Tail(dispatch_kernel) = <<>> /\ Head(dispatch_kernel) \in Devuelto
           /\ Head(dispatch_kernel).pcb \in Pcb
           /\ Range(dispatch_kernel) = {Head(dispatch_kernel)}
           /\ EnEjecucion = {Head(dispatch_kernel).pcb}

\* The invariant says where the PCB in execution is.
LEMMA VueloLema == TypeOK /\ VueloInv => Donde
  <1> SUFFICES ASSUME TypeOK, VueloInv PROVE Donde
    OBVIOUS
  <1> USE DEF TypeOK, VueloInv
  <1>0. /\ dispatch_cpu \in Seq(Pcb) /\ dispatch_kernel \in Seq(Devuelto)
        /\ Len(dispatch_cpu) + Len(dispatch_kernel) + (IF pcb = Nada THEN 0 ELSE 1)
           = IF pcp_pc = "recibe" THEN 1 ELSE 0
    OBVIOUS
  <1>1. /\ Len(dispatch_cpu) \in Nat /\ Len(dispatch_kernel) \in Nat
        /\ dispatch_cpu = <<>> <=> Len(dispatch_cpu) = 0
        /\ dispatch_kernel = <<>> <=> Len(dispatch_kernel) = 0
    BY <1>0, LenProperties, EmptySeq
  <1>6. Len(dispatch_cpu) \in Nat /\ Len(dispatch_kernel) \in Nat
    BY <1>1
  <1>4. pcp_pc = "recibe" /\ pcb = Nada => Len(dispatch_cpu) + Len(dispatch_kernel) = 1
    BY <1>0, <1>1
  <1>5. pcp_pc = "recibe" /\ pcb # Nada => Len(dispatch_cpu) + Len(dispatch_kernel) = 0
    BY <1>0, <1>1
  <1> HIDE DEF TypeOK, VueloInv
  <1>2. CASE pcp_pc # "recibe"
    <2>1. dispatch_cpu = <<>> /\ dispatch_kernel = <<>> /\ pcb = Nada
      BY <1>0, <1>1, <1>2
    <2>2. EnEjecucion = IF mano = Nada THEN {} ELSE {mano.pcb}
      BY <2>1, VacioLema DEF EnEjecucion
    <2>3. mano # Nada => mano \in Devuelto /\ mano.pcb \in Pcb
      BY DEF Devuelto, TypeOK
    <2> QED  BY <1>2, <2>1, <2>2, <2>3 DEF TypeOK, VueloInv, Donde
  <1>3. CASE pcp_pc = "recibe"
    <2>1. mano = Nada
      BY <1>3 DEF VueloInv
    <2>2. CASE pcb # Nada
      <3>1. dispatch_cpu = <<>> /\ dispatch_kernel = <<>> /\ pcb \in Pcb
        BY <1>0, <1>1, <1>3, <2>2 DEF TypeOK
      <3>2. EnEjecucion = {pcb}
        BY <3>1, <2>1, <2>2, VacioLema DEF EnEjecucion
      <3> QED  BY <3>1, <3>2, <2>1, <2>2, <1>3 DEF Donde
    <2>3. CASE dispatch_cpu # <<>>
      <3>0. Len(dispatch_cpu) # 0
        BY <1>1, <2>3
      <3>00. pcb = Nada
        <4> SUFFICES ASSUME pcb # Nada PROVE FALSE
          OBVIOUS
        <4>1. Len(dispatch_cpu) + Len(dispatch_kernel) = 0
          BY <1>3, <1>5
        <4> QED  BY <4>1, <3>0, <1>6
      <3>01. Len(dispatch_cpu) + Len(dispatch_kernel) = 1
        BY <3>00, <1>3, <1>4
      <3>02. Len(dispatch_cpu) = 1 /\ Len(dispatch_kernel) = 0
        BY <3>01, <3>0, <1>6, Suma
      <3>1. Len(dispatch_cpu) = 1 /\ dispatch_kernel = <<>> /\ pcb = Nada
        BY <1>1, <3>00, <3>02
      <3>2. /\ Head(dispatch_cpu) \in Pcb /\ Tail(dispatch_cpu) = <<>>
            /\ Range(dispatch_cpu) = {Head(dispatch_cpu)}
        BY <3>1, <1>0, UnoLema
      <3>3. EnEjecucion = {Head(dispatch_cpu)}
        BY <3>1, <3>2, <2>1, VacioLema DEF EnEjecucion
      <3> QED  BY <3>1, <3>2, <3>3, <2>1, <1>3 DEF Donde
    <2>4. CASE dispatch_kernel # <<>>
      <3>0. Len(dispatch_kernel) # 0
        BY <1>1, <2>4
      <3>00. pcb = Nada
        <4> SUFFICES ASSUME pcb # Nada PROVE FALSE
          OBVIOUS
        <4>1. Len(dispatch_cpu) + Len(dispatch_kernel) = 0
          BY <1>3, <1>5
        <4> QED  BY <4>1, <3>0, <1>6
      <3>01. Len(dispatch_cpu) + Len(dispatch_kernel) = 1
        BY <3>00, <1>3, <1>4
      <3>02. Len(dispatch_kernel) = 1 /\ Len(dispatch_cpu) = 0
        BY <3>01, <3>0, <1>6, Suma
      <3>1. Len(dispatch_kernel) = 1 /\ dispatch_cpu = <<>> /\ pcb = Nada
        BY <1>1, <3>00, <3>02
      <3>2. /\ Head(dispatch_kernel) \in Devuelto /\ Tail(dispatch_kernel) = <<>>
            /\ Range(dispatch_kernel) = {Head(dispatch_kernel)}
        BY <3>1, <1>0, UnoLema
      <3>3. Head(dispatch_kernel).pcb \in Pcb
        BY <3>2 DEF Devuelto
      <3>4. EnEjecucion = {Head(dispatch_kernel).pcb}
        BY <3>1, <3>2, <2>1, VacioLema DEF EnEjecucion
      <3> QED  BY <3>1, <3>2, <3>3, <3>4, <2>1, <1>3 DEF Donde
    <2> QED  BY <1>0, <1>1, <1>3, <2>2, <2>3, <2>4
  <1> QED  BY <1>2, <1>3 DEF Donde

\* The same of the next state.
LEMMA VueloLuego == (TypeOK /\ VueloInv => Donde)'
  BY VueloLema, PTL

\* What a queue gets and loses at its ends.
LEMMA ColaLema ==
  ASSUME NEW S, NEW q \in Seq(S)
  PROVE  /\ \A x \in S : /\ Append(q, x) \in Seq(S) /\ Range(Append(q, x)) = Range(q) \cup {x}
                         /\ IsInjective(q) /\ x \notin Range(q) => IsInjective(Append(q, x))
         /\ q # <<>> => /\ Head(q) \in S /\ Tail(q) \in Seq(S)
                        /\ Range(q) = Range(Tail(q)) \cup {Head(q)}
                        /\ IsInjective(q) => /\ IsInjective(Tail(q))
                                             /\ Head(q) \notin Range(Tail(q))
         /\ <<>> \in Seq(S) /\ Range(q) \subseteq S
  <1>1. ASSUME NEW x \in S
        PROVE  /\ Append(q, x) \in Seq(S) /\ Range(Append(q, x)) = Range(q) \cup {x}
               /\ IsInjective(q) /\ x \notin Range(q) => IsInjective(Append(q, x))
    BY PushLema DEF squeue_push
  <1>2. q # <<>> => /\ Head(q) \in S /\ Tail(q) \in Seq(S)
                    /\ Range(q) = Range(Tail(q)) \cup {Head(q)}
                    /\ IsInjective(q) => IsInjective(Tail(q)) /\ Head(q) \notin Range(Tail(q))
    BY PopLema
  <1>3. <<>> \in Seq(S) /\ Range(q) \subseteq S
    BY RangoSeq
  <1> QED  BY <1>1, <1>2, <1>3

-----------------------------------------------------------------------------
(* Types                                                                    *)

\* A process is dispatched with some quantum, and no more than there is.
LEMMA QuantumLema ==
  ASSUME DespachoInv, NEW plus \in BOOLEAN, PcpPrepara(plus)
  PROVE  LET x == Head(IF plus THEN cola_ready_plus ELSE cola_ready) IN
         /\ x \in Pcb /\ Quantum(x, plus) \in 1..QUANTUM
         /\ x \in Lugares[IF plus THEN "ready_plus" ELSE "ready"]
         /\ Vrr /\ plus /\ x.quantum > 0 => Quantum(x, plus) = x.quantum
  <1> DEFINE x == Head(IF plus THEN cola_ready_plus ELSE cola_ready)
             l == IF plus THEN "ready_plus" ELSE "ready"
  <1>1. x \in Pcb /\ x \in Lugares[l]
    <2>1. CASE plus
      <3>1. cola_ready_plus \in Seq(Pcb) /\ cola_ready_plus # <<>>
        BY <2>1 DEF DespachoInv, TypeOK, PcpPrepara
      <3>2. x \in Pcb /\ x \in Range(cola_ready_plus)
        BY <2>1, <3>1, ColaLema
      <3> QED  BY <2>1, <3>2 DEF Lugares
    <2>2. CASE ~plus
      <3>1. cola_ready \in Seq(Pcb) /\ cola_ready # <<>>
        BY <2>2 DEF DespachoInv, TypeOK, PcpPrepara
      <3>2. x \in Pcb /\ x \in Range(cola_ready)
        BY <2>2, <3>1, ColaLema
      <3> QED  BY <2>2, <3>2 DEF Lugares
    <2> QED  BY <2>1, <2>2
  <1>2. l \in DOMAIN Lugares
    BY DEF Lugares
  <1>3. x.quantum \in Int /\ QUANTUM \in Nat /\ QUANTUM > 0
    <2>1. \A y \in Pcb : y.quantum \in Int
      BY DEF Pcb
    <2>2. QUANTUM \in Nat /\ QUANTUM > 0
      BY DespachoOK
    <2> QED  BY <1>1, <2>1, <2>2
  <1>4. CASE Vrr
    <2>1. x.quantum <= QUANTUM
      BY <1>1, <1>2, <1>4 DEF DespachoInv, QuantumInv
    <2> QED  BY <1>1, <1>3, <1>4, <2>1 DEF Quantum
  <1>5. CASE ~Vrr
    <2>1. x.quantum = QUANTUM
      BY <1>1, <1>2, <1>5 DEF DespachoInv, QuantumInv
    <2> QED  BY <1>1, <1>3, <1>5, <2>1 DEF Quantum
  <1> QED  BY <1>4, <1>5

\* The parameters of a clock that is there.
LEMMA RelojLema ==
  ASSUME TypeOK
  PROVE  /\ Liberado \in Parametros
         /\ \A r \in Reloj : /\ relojes[r].pid \in Pids \cup {NULL}
                             /\ relojes[r].resta \in 0..QUANTUM
                             /\ relojes[r].cancelado \in BOOLEAN
  BY DespachoOK DEF TypeOK, Liberado, Parametros

\* What the CPU reads of a program is an instruction.
LEMMA FetchLema ==
  ASSUME TypeOK, pcb # Nada, pcb.program_counter < Len(codigo[pcb.pid])
  PROVE  fetch \in Instruccion
  <1>1. pcb \in Pcb /\ pcb.pid \in Pids /\ pcb.program_counter \in Nat
    BY DEF TypeOK, Pcb
  <1>2. codigo[pcb.pid] \in Seq(Instruccion)
    BY <1>1, DespachoOK DEF TypeOK
  <1>3. pcb.program_counter + 1 \in 1..Len(codigo[pcb.pid])
    BY <1>1, <1>2, LenProperties
  <1> QED  BY <1>2, <1>3, LenProperties DEF fetch

\* The operands of an instruction.
LEMMA InstruccionLema ==
  ASSUME NEW i \in Instruccion
  PROVE  /\ i.op \in {"SET", "JNZ"} => i.r \in Registro /\ i.v \in Nat
         /\ i.op \in {"SUM", "SUB"} => i.r \in Registro /\ i.s \in Registro
  BY DEF Instruccion

\* A result is a number, and where it fits the PCB goes on with it.
LEMMA CalculoLema ==
  ASSUME TypeOK, Ejecuta({"SET", "SUM", "SUB"}), Resultado <= tam_registro_max(fetch.r)
  PROVE  LET y == set_registro(pcb, fetch.r, Resultado) IN
         /\ fetch.r \in Registro /\ Resultado \in Nat
         /\ y \in Pcb /\ y.pid = pcb.pid /\ y.quantum = pcb.quantum
         /\ y.program_counter = IF fetch.r = "PC" THEN Resultado ELSE pcb.program_counter + 1
         /\ y.registros = IF fetch.r = "PC" THEN pcb.registros
                          ELSE [pcb.registros EXCEPT ![fetch.r] = Resultado]
  <1>1. pcb # Nada /\ pcb \in Pcb /\ pcb.program_counter < Len(codigo[pcb.pid])
        /\ fetch.op \in {"SET", "SUM", "SUB"}
    BY DEF Ejecuta, TypeOK
  <1>2. fetch.r \in Registro /\ (fetch.op = "SET" => fetch.v \in Nat)
        /\ (fetch.op # "SET" => fetch.s \in Registro)
    BY <1>1, FetchLema, InstruccionLema
  <1>3. \A r \in Registro : get_registro(r) \in Int
    <2>1. /\ pcb.program_counter \in Nat
          /\ pcb.registros \in [AX : 0..UINT8_MAX, EAX : 0..UINT32_MAX]
      BY <1>1 DEF Pcb
    <2> QED  BY <2>1, DespachoOK DEF get_registro, Registro
  <1>4. \A n \in Int : uint32(n) \in Nat
    BY DespachoOK DEF uint32
  <1>5. Resultado \in Nat
    <2>1. CASE fetch.op = "SET"
      <3>1. fetch.v \in Int
        BY <1>2, <2>1
      <3> QED  BY <2>1, <3>1, <1>4 DEF Resultado
    <2>2. CASE fetch.op = "SUM"
      <3>1. get_registro(fetch.r) + get_registro(fetch.s) \in Int
        BY <1>2, <1>3, <2>2
      <3> QED  BY <2>2, <3>1, <1>4 DEF Resultado
    <2>3. CASE fetch.op = "SUB"
      <3>1. get_registro(fetch.r) - get_registro(fetch.s) \in Int
        BY <1>2, <1>3, <2>3
      <3> QED  BY <2>3, <3>1, <1>4 DEF Resultado
    <2> QED  BY <1>1, <2>1, <2>2, <2>3
  <1>6. CASE fetch.r = "PC"
    BY <1>1, <1>2, <1>5, <1>6, ConContador DEF set_registro
  <1>7. CASE fetch.r # "PC"
    <2>1. fetch.r \in {"AX", "EAX"} /\ pcb.program_counter + 1 \in Nat
      BY <1>1, <1>2, <1>7 DEF Registro, Pcb
    <2>0. Resultado <= tam_registro_max(fetch.r)
      OBVIOUS
    <2>2. set_registro(pcb, fetch.r, Resultado) =
             [pcb EXCEPT !.registros[fetch.r] = Resultado, !.program_counter = @ + 1]
      BY <1>7 DEF set_registro
    <2>3. PICK r \in {"AX", "EAX"} : r = fetch.r
      BY <2>1
    <2>4. PICK v \in Nat : v = Resultado
      BY <1>5
    <2>5. PICK x \in Pcb : x = pcb
      BY <1>1
    <2>6. v <= tam_registro_max(r)
      BY <2>0, <2>3, <2>4
    <2> DEFINE z == [pid |-> x.pid, program_counter |-> x.program_counter,
                     registros |-> [x.registros EXCEPT ![r] = v], quantum |-> x.quantum]
               w == [pid |-> x.pid, program_counter |-> x.program_counter + 1,
                     registros |-> [x.registros EXCEPT ![r] = v], quantum |-> x.quantum]
    <2>7. [x EXCEPT !.registros[r] = v] = z
      BY DEF Pcb
    <2>8. [x EXCEPT !.registros[r] = v, !.program_counter = @ + 1]
          = [[x EXCEPT !.registros[r] = v] EXCEPT !.program_counter = @ + 1]
      BY DEF Pcb
    <2>9. [z EXCEPT !.program_counter = @ + 1] = w
      OBVIOUS
    <2>10. w \in Pcb
      <3>1. v \in IF r = "AX" THEN 0..UINT8_MAX ELSE 0..UINT32_MAX
        BY <2>6, DespachoOK DEF tam_registro_max
      <3>2. [x.registros EXCEPT ![r] = v] \in [AX : 0..UINT8_MAX, EAX : 0..UINT32_MAX]
        BY <3>1 DEF Pcb
      <3> QED  BY <3>2 DEF Pcb
    <2>11. set_registro(pcb, fetch.r, Resultado) = w
      BY <2>2, <2>3, <2>4, <2>5, <2>7, <2>8, <2>9
    <2> QED  BY <1>2, <1>5, <1>7, <2>3, <2>4, <2>5, <2>10, <2>11
  <1> QED  BY <1>6, <1>7

\* A jump, and a request, leave the registers as they are.
LEMMA JnzLema ==
  ASSUME TypeOK, exec_jnz
  PROVE  /\ pcb' \in Pcb /\ pcb'.pid = pcb.pid /\ pcb'.registros = pcb.registros
         /\ pcb'.quantum = pcb.quantum
         /\ pcb'.program_counter = IF get_registro(fetch.r) # 0 THEN uint32(fetch.v)
                                   ELSE pcb.program_counter + 1
  <1>1. pcb \in Pcb /\ uint32(fetch.v) \in Nat /\ pcb.program_counter + 1 \in Nat
    <2>1. pcb # Nada /\ pcb \in Pcb /\ pcb.program_counter < Len(codigo[pcb.pid])
          /\ fetch.op = "JNZ"
      BY DEF exec_jnz, Ejecuta, TypeOK
    <2>2. uint32(fetch.v) \in Nat
      <3>1. fetch.v \in Nat
        BY <2>1, FetchLema, InstruccionLema
      <3> QED  BY <3>1, DespachoOK DEF uint32
    <2>3. pcb.program_counter \in Nat
      BY <2>1, PcbLema
    <2> QED  BY <2>1, <2>2, <2>3
  <1>2. pcb' = IF get_registro(fetch.r) # 0 THEN [pcb EXCEPT !.program_counter = uint32(fetch.v)]
               ELSE [pcb EXCEPT !.program_counter = pcb.program_counter + 1]
    BY DEF exec_jnz, set_registro
  <1> QED  BY <1>1, <1>2, ConContador

\* A PCB that goes on to the next instruction.
LEMMA AvanzadoLema ==
  ASSUME NEW x \in Pcb
  PROVE  /\ Avanzado(x) \in Pcb /\ Avanzado(x).pid = x.pid
         /\ Avanzado(x).program_counter = x.program_counter + 1
         /\ Avanzado(x).registros = x.registros /\ Avanzado(x).quantum = x.quantum
  <1>1. x.program_counter + 1 \in Nat
    BY PcbLema
  <1> QED  BY <1>1, ConContador DEF Avanzado

\* What is left of a quantum.
LEMMA DescontadoLema ==
  ASSUME TypeOK, NEW x \in Pcb
  PROVE  /\ Descontado(x) \in Pcb /\ Descontado(x).pid = x.pid
         /\ Descontado(x).program_counter = x.program_counter
         /\ Descontado(x).registros = x.registros
         /\ Descontado(x).quantum = IF Vrr THEN x.quantum - cronometro ELSE x.quantum
  <1>1. x.quantum \in Int
    BY PcbLema
  <1>2. x.quantum - cronometro \in Int
    BY <1>1, DespachoOK DEF TypeOK
  <1> QED  BY <1>2, ConQuantum DEF Descontado

\* The interrupt that counts is for who executes.
LEMMA ParaEsteLema ==
  ASSUME TypeOK, NEW i \in ParaEste
  PROVE  /\ pcb # Nada /\ pcb \in Pcb /\ interrupts[i] \in Range(interrupts)
         /\ interrupts[i].pid = pcb.pid /\ interrupts[i].motivo \in Motivo \ Pedido
  <1>1. i \in DOMAIN interrupts /\ Es(i)
    BY DEF ParaEste
  <1>2. interrupts[i] \in Range(interrupts) /\ interrupts[i] \in Interrupcion
    BY <1>1, RangoSeq DEF TypeOK, Range
  <1> QED  BY <1>1, <1>2 DEF Es, TypeOK, Interrupcion, Motivo, Pedido

\* Every step keeps the types.
LEMMA TipoPaso ==
  ASSUME DespachoInv, [Next]_vars
  PROVE  TypeOK'
  <1>0. TypeOK /\ VueloInv /\ Donde
    BY VueloLema DEF DespachoInv
  <1> USE <1>0 DEF kernel, tiempo, consola, red, cpu
  <1>1. ASSUME NEW plus \in BOOLEAN, PcpPrepara(plus) PROVE TypeOK'
    <2> DEFINE x == Head(IF plus THEN cola_ready_plus ELSE cola_ready)
               y == [x EXCEPT !.quantum = Quantum(x, plus)]
    <2>1. x \in Pcb /\ Quantum(x, plus) \in 1..QUANTUM
      BY <1>1, QuantumLema
    <2>2. y \in Pcb /\ x.pid \in Pids
      BY <2>1, ConQuantum, PcbLema
    <2>3. mano' = [pcb |-> y, motivo |-> "-"]
      BY <1>1 DEF PcpPrepara
    <2>4. mano' \in Devuelto
      BY <2>2, <2>3 DEF Devuelto
    <2>5. cola_ready' \in Seq(Pcb) /\ cola_ready_plus' \in Seq(Pcb)
      <3>1. cola_ready \in Seq(Pcb) /\ cola_ready_plus \in Seq(Pcb)
        BY DEF TypeOK
      <3>2. CASE plus
        <4>1. cola_ready_plus # <<>> /\ cola_ready_plus' = Tail(cola_ready_plus)
              /\ UNCHANGED cola_ready
          BY <1>1, <3>2 DEF PcpPrepara
        <4> QED  BY <3>1, <4>1, ColaLema
      <3>3. CASE ~plus
        <4>1. cola_ready # <<>> /\ cola_ready' = Tail(cola_ready) /\ UNCHANGED cola_ready_plus
          BY <1>1, <3>3 DEF PcpPrepara
        <4> QED  BY <3>1, <4>1, ColaLema
      <3> QED  BY <3>2, <3>3
    <2>6. /\ cronometro' \in 0..QUANTUM /\ ultimo' \in Reloj /\ en_ejecucion_ultimo_reloj' \in BOOLEAN
          /\ relojes' \in [Reloj -> Parametros]
          /\ consumido' \in [Pids -> 0..QUANTUM]
      <3>1. CASE ConReloj
        <4>0. CrearReloj(x, plus)
          BY <1>1, <3>1 DEF PcpPrepara
        <4> HIDE DEF x
        <4>1. PICK r \in Reloj : /\ relojes' = [relojes EXCEPT ![r] =
                                       [paso |-> "duerme", pid |-> x.pid,
                                        resta |-> Quantum(x, plus), cancelado |-> FALSE]]
                                 /\ ultimo' = r
          BY <4>0 DEF CrearReloj
        <4>2. [paso |-> "duerme", pid |-> x.pid, resta |-> Quantum(x, plus), cancelado |-> FALSE]
              \in Parametros
          BY <2>1, <2>2, DespachoOK DEF Parametros
        <4>3. consumido' \in [Pids -> 0..QUANTUM]
          <5>1. consumido \in [Pids -> 0..QUANTUM] /\ 0 \in 0..QUANTUM
            BY DespachoOK DEF TypeOK
          <5>2. PICK u \in 0..QUANTUM : consumido' = [consumido EXCEPT ![x.pid] = u]
            <6>1. CASE plus /\ x.quantum > 0
              BY <4>0, <2>2, <5>1, <6>1 DEF CrearReloj
            <6>2. CASE ~(plus /\ x.quantum > 0)
              BY <4>0, <2>2, <5>1, <6>2 DEF CrearReloj
            <6> QED  BY <6>1, <6>2
          <5> QED  BY <2>2, <5>1, <5>2
        <4>4. relojes' \in [Reloj -> Parametros] /\ ultimo' \in Reloj
          BY <4>1, <4>2 DEF TypeOK
        <4>5. cronometro' = 0 /\ en_ejecucion_ultimo_reloj' = TRUE /\ 0 \in 0..QUANTUM
          BY <4>0, DespachoOK DEF CrearReloj
        <4> QED  BY <4>3, <4>4, <4>5
      <3>2. CASE ~ConReloj
        BY <1>1, <3>2 DEF PcpPrepara, TypeOK
      <3> QED  BY <3>1, <3>2
    <2> QED  BY <1>1, <2>4, <2>5, <2>6 DEF PcpPrepara, TypeOK
  <1>2. CASE PcpEnvia
    <2>1. mano.pcb \in Pcb /\ mano.pcb.pid \in Pids
      BY <1>2, PcbLema DEF PcpEnvia, Donde
    <2>2. dispatch_cpu' \in Seq(Pcb)
      BY <1>2, <2>1, ColaLema DEF PcpEnvia, TypeOK
    <2> QED  BY <1>2, <2>1, <2>2 DEF PcpEnvia, TypeOK
  <1>3. CASE PcpRecibe
    <2> DEFINE m == Head(dispatch_kernel)
    <2>1. m \in Devuelto /\ m.pcb \in Pcb
      BY <1>3 DEF PcpRecibe, Donde
    <2>2. Descontado(m.pcb) \in Pcb
      BY <2>1, DescontadoLema
    <2>3. mano' \in Devuelto
      BY <1>3, <2>1, <2>2 DEF PcpRecibe, Devuelto
    <2>4. dispatch_kernel' \in Seq(Devuelto)
      BY <1>3, ColaLema DEF PcpRecibe, TypeOK
    <2> QED  BY <1>3, <2>3, <2>4 DEF PcpRecibe, TypeOK
  <1>4. CASE PcpCancela
    <2>1. relojes' \in [Reloj -> Parametros]
      <3>1. ultimo \in Reloj /\ relojes \in [Reloj -> Parametros]
        BY DEF TypeOK
      <3>2. [relojes EXCEPT ![ultimo].cancelado = TRUE] \in [Reloj -> Parametros]
        BY <3>1 DEF Parametros
      <3> QED  BY <1>4, <3>1, <3>2 DEF PcpCancela
    <2> QED  BY <1>4, <2>1 DEF PcpCancela, TypeOK
  <1>5. ASSUME NEW motivos, Maneja(motivos)
        PROVE  /\ mano.pcb \in Pcb /\ mano' = Nada /\ mano.motivo \in motivos
               /\ pedidos' \in [Pids -> Seq(Pedido)]
               /\ UNCHANGED <<tiempo, consola, cpu, codigo>>
    <2>1. mano \in Devuelto /\ mano.pcb \in Pcb /\ mano.pcb.pid \in Pids /\ mano.motivo # "-"
      BY <1>5, PcbLema DEF Maneja, Donde, VueloInv
    <2>2. mano.motivo \notin {"FIN_QUANTUM", "INTERRUMPIDO_POR_USUARIO"} => mano.motivo \in Pedido
      BY <2>1 DEF Devuelto, Motivo
    <2>3. pedidos' \in [Pids -> Seq(Pedido)]
      <3>1. pedidos[mano.pcb.pid] \in Seq(Pedido)
        BY <2>1 DEF TypeOK
      <3>2. mano.motivo \notin {"FIN_QUANTUM", "INTERRUMPIDO_POR_USUARIO"} =>
               Append(pedidos[mano.pcb.pid], mano.motivo) \in Seq(Pedido)
        BY <2>2, <3>1, ColaLema
      <3> QED  BY <1>5, <3>1, <3>2 DEF Maneja, TypeOK
    <2> QED  BY <1>5, <2>1, <2>3 DEF Maneja
  <1>6. CASE manejar_fin_quantum
    <2>1. cola_ready' \in Seq(Pcb)
      BY <1>5, <1>6, ColaLema DEF manejar_fin_quantum, squeue_push, TypeOK
    <2> QED  BY <1>5, <1>6, <2>1 DEF manejar_fin_quantum, TypeOK
  <1>7. CASE Eliminar
    BY <1>5, <1>7 DEF Eliminar, TypeOK
  <1>8. CASE Bloquear
    <2>1. [pcb |-> mano.pcb, por |-> mano.motivo] \in [pcb : Pcb, por : {"WAIT", "IO"}]
      BY <1>5, <1>8 DEF Bloquear
    <2> QED  BY <1>5, <1>8, <2>1 DEF Bloquear, TypeOK
  <1>9. CASE DevolverEjecucion
    <2>1. dispatch_cpu' \in Seq(Pcb)
      BY <1>5, <1>9, ColaLema DEF DevolverEjecucion, TypeOK
    <2> QED  BY <1>5, <1>9, <2>1 DEF DevolverEjecucion, TypeOK
  <1>10. CASE Desbloquear
    <2>1. PICK b \in bloqueados :
             /\ bloqueados' = bloqueados \ {b}
             /\ IF Vrr /\ b.por = "IO"
                THEN cola_ready_plus' = Append(cola_ready_plus, b.pcb) /\ UNCHANGED cola_ready
                ELSE cola_ready' = Append(cola_ready, b.pcb) /\ UNCHANGED cola_ready_plus
      BY <1>10 DEF Desbloquear, squeue_push
    <2>2. b.pcb \in Pcb
      BY DEF TypeOK
    <2>3. cola_ready' \in Seq(Pcb) /\ cola_ready_plus' \in Seq(Pcb)
      <3>1. cola_ready \in Seq(Pcb) /\ cola_ready_plus \in Seq(Pcb)
        BY DEF TypeOK
      <3>2. Append(cola_ready, b.pcb) \in Seq(Pcb) /\ Append(cola_ready_plus, b.pcb) \in Seq(Pcb)
        BY <2>2, <3>1, ColaLema
      <3>3. CASE Vrr /\ b.por = "IO"
        BY <2>1, <3>1, <3>2, <3>3
      <3>4. CASE ~(Vrr /\ b.por = "IO")
        BY <2>1, <3>1, <3>2, <3>4
      <3> QED  BY <3>3, <3>4
    <2> QED  BY <1>10, <2>1, <2>3 DEF Desbloquear, TypeOK
  <1>11. CASE Pausa \/ ConVe
    BY <1>11 DEF Pausa, pausar_planificacion, reanudar_planificacion, ConVe, TypeOK
  <1>12. CASE ConInterrumpe
    <2>1. [pid |-> con_pid, motivo |-> "INTERRUMPIDO_POR_USUARIO"] \in Interrupcion
      BY <1>12 DEF ConInterrumpe, TypeOK, Interrupcion
    <2>2. interrupt' \in Seq(Interrupcion)
      BY <1>12, <2>1, ColaLema DEF ConInterrumpe, TypeOK
    <2> QED  BY <1>12, <2>2 DEF ConInterrumpe, TypeOK
  <1>13. CASE CpuRecibe
    <2>1. dispatch_cpu' \in Seq(Pcb) /\ pcb' \in Pcb
      BY <1>13, ColaLema DEF CpuRecibe, TypeOK
    <2> QED  BY <1>13, <2>1 DEF CpuRecibe, TypeOK
  <1>14. CASE FetchPasado
    BY <1>14 DEF FetchPasado, TypeOK
  <1>15. CASE EjecutaCalculo
    <2>1. pcb' \in Pcb
      BY <1>15, CalculoLema DEF EjecutaCalculo
    <2> QED  BY <1>15, <2>1 DEF EjecutaCalculo, Ejecuta, TypeOK
  <1>16. CASE EjecutaDesborde
    BY <1>16 DEF EjecutaDesborde, Ejecuta, TypeOK
  <1>17. CASE exec_jnz
    <2>1. pcb' \in Pcb
      BY <1>17, JnzLema
    <2> QED  BY <1>17, <2>1 DEF exec_jnz, Ejecuta, TypeOK
  <1>18. ASSUME pcb # Nada
         PROVE  /\ pcb \in Pcb /\ Avanzado(pcb) \in Pcb
                /\ \A y \in Pcb, z \in Motivo :
                       Append(dispatch_kernel, [pcb |-> y, motivo |-> z]) \in Seq(Devuelto)
    <2>1. pcb \in Pcb
      BY <1>18 DEF TypeOK
    <2>2. Avanzado(pcb) \in Pcb
      BY <2>1, AvanzadoLema
    <2>3. ASSUME NEW y \in Pcb, NEW z \in Motivo
          PROVE  Append(dispatch_kernel, [pcb |-> y, motivo |-> z]) \in Seq(Devuelto)
      <3>1. [pcb |-> y, motivo |-> z] \in Devuelto
        BY DEF Devuelto
      <3> QED  BY <3>1, ColaLema DEF TypeOK
    <2> QED  BY <2>1, <2>2, <2>3
  <1>19. CASE EjecutaPedido
    BY <1>18, <1>19 DEF EjecutaPedido, Ejecuta, devolver_pcb, Motivo, Pedido, TypeOK
  <1>20. CASE EjecutaFin
    BY <1>18, <1>20 DEF EjecutaFin, Ejecuta, devolver_pcb, Motivo, Pedido, TypeOK
  <1>21. CASE EjecutaResize
    BY <1>18, <1>21 DEF EjecutaResize, Ejecuta, TypeOK
  <1>22. CASE check_interrupt
    <2>1. <<>> \in Seq(Interrupcion)
      OBVIOUS
    <2>2. CASE \E i \in ParaEste : devolver_pcb(pcb, interrupts[i].motivo)
      <3>1. PICK i \in ParaEste : devolver_pcb(pcb, interrupts[i].motivo)
        BY <2>2
      <3>2. pcb # Nada /\ interrupts[i].motivo \in Motivo
        BY ParaEsteLema
      <3>4. dispatch_kernel' \in Seq(Devuelto) /\ pcb' = Nada
        BY <3>1, <3>2, <1>18 DEF devolver_pcb
      <3> QED  BY <1>22, <2>1, <3>4 DEF check_interrupt, TypeOK
    <2>3. CASE UNCHANGED <<pcb, dispatch_kernel>>
      BY <1>22, <2>1, <2>3 DEF check_interrupt, TypeOK
    <2> QED  BY <1>22, <2>2, <2>3 DEF check_interrupt
  <1>23. CASE servidor_interrupt
    <2>1. interrupt' \in Seq(Interrupcion) /\ interrupts' \in Seq(Interrupcion)
      BY <1>23, ColaLema DEF servidor_interrupt, TypeOK
    <2> QED  BY <1>23, <2>1 DEF servidor_interrupt, TypeOK
  <1>24. CASE Tick
    <2>1. cronometro' \in 0..QUANTUM
      BY <1>24, DespachoOK DEF Tick, Topado, TypeOK
    <2>2. consumido' \in [Pids -> 0..QUANTUM]
      <3>1. CASE pcb = Nada
        BY <1>24, <3>1 DEF Tick, TypeOK
      <3>2. CASE pcb # Nada
        <4>1. pcb.pid \in Pids
          BY <3>2, PcbLema DEF TypeOK
        <4>2. Topado(consumido[pcb.pid] + 1) \in 0..QUANTUM
          <5>1. PICK c \in 0..QUANTUM : c = consumido[pcb.pid]
            BY <4>1 DEF TypeOK
          <5>2. QUANTUM \in Nat
            BY DespachoOK
          <5>3. Topado(c + 1) \in 0..QUANTUM
            BY <5>2 DEF Topado
          <5> QED  BY <5>1, <5>3
        <4>3. consumido' = [consumido EXCEPT ![pcb.pid] = Topado(consumido[pcb.pid] + 1)]
          BY <1>24, <3>2 DEF Tick
        <4> QED  BY <4>1, <4>2, <4>3 DEF TypeOK
      <3> QED  BY <3>1, <3>2
    <2>3. relojes' \in [Reloj -> Parametros]
      <3>1. ASSUME NEW x \in Parametros
            PROVE  [x EXCEPT !.resta = IF @ > 0 THEN @ - 1 ELSE @] \in Parametros
        <4>1. x.resta \in 0..QUANTUM
          BY DEF Parametros
        <4>2. (IF x.resta > 0 THEN x.resta - 1 ELSE x.resta) \in 0..QUANTUM
          BY <4>1, DespachoOK
        <4> QED  BY <4>2 DEF Parametros
      <3> QED  BY <1>24, <3>1 DEF Tick, TypeOK
    <2> QED  BY <1>24, <2>1, <2>2, <2>3 DEF Tick, TypeOK
  <1>25. ASSUME NEW r \in Reloj, RelojDespierta(r) \/ RelojEnvia(r) \/ RelojTermina(r)
         PROVE  TypeOK'
    <2>1. relojes \in [Reloj -> Parametros] /\ Liberado \in Parametros
      BY RelojLema DEF TypeOK
    <2>2. CASE RelojDespierta(r)
      <3>1. relojes' \in [Reloj -> Parametros]
        BY <2>1, <2>2 DEF RelojDespierta, Parametros
      <3> QED  BY <2>2, <3>1 DEF RelojDespierta, TypeOK
    <2>3. CASE RelojEnvia(r)
      <3>1. [pid |-> relojes[r].pid, motivo |-> "FIN_QUANTUM"] \in Interrupcion
        BY <2>3 DEF RelojEnvia, Interrupcion, DespachoInv, RelojInv
      <3>2. interrupt' \in Seq(Interrupcion)
        BY <2>3, <3>1, ColaLema DEF RelojEnvia, TypeOK
      <3>3. relojes' \in [Reloj -> Parametros]
        BY <2>1, <2>3 DEF RelojEnvia, Parametros
      <3> QED  BY <2>3, <3>2, <3>3 DEF RelojEnvia, TypeOK
    <2>4. CASE RelojTermina(r)
      <3>1. relojes' \in [Reloj -> Parametros]
        BY <2>1, <2>4 DEF RelojTermina
      <3> QED  BY <2>4, <3>1 DEF RelojTermina, AvisarFin, TypeOK
    <2> QED  BY <1>25, <2>2, <2>3, <2>4
  <1>26. CASE UNCHANGED vars
    BY <1>26 DEF vars, TypeOK
  <1> QED  BY Transiciones, <1>1, <1>2, <1>3, <1>4, <1>6, <1>7, <1>8, <1>9, <1>10, <1>11, <1>12,
              <1>13, <1>14, <1>15, <1>16, <1>17, <1>19, <1>20, <1>21, <1>22, <1>23, <1>24, <1>25,
              <1>26

-----------------------------------------------------------------------------
(* Where the PCBs are                                                       *)

\* The PCB in execution goes from hand to hand.
LEMMA VueloPaso ==
  ASSUME DespachoInv, [Next]_vars
  PROVE  VueloInv'
  <1>0. TypeOK /\ VueloInv /\ Donde /\ TypeOK'
    BY VueloLema, TipoPaso DEF DespachoInv
  <1> USE DEF kernel, tiempo, consola, red, cpu
  <1>a. Nada \notin Devuelto /\ Nada \notin Pcb
    BY DespachoOK
  <1>b. UNCHANGED <<pcp_pc, mano, dispatch_cpu, dispatch_kernel, pcb>> => VueloInv'
    BY <1>0 DEF VueloInv
  <1>c. \A x \in Pcb : Len(Append(<<>>, x)) = 1
    BY VacioLema
  <1>d. ASSUME mano' \in Devuelto, pcp_pc' \in {"envia", "cancela", "maneja"},
               mano'.motivo = "-" <=> pcp_pc' = "envia",
               dispatch_cpu' = <<>>, dispatch_kernel' = <<>>, pcb' = Nada
        PROVE  VueloInv'
    BY <1>d, <1>a, VacioLema DEF VueloInv
  <1>e. ASSUME mano' = Nada, pcp_pc' = "planifica", dispatch_cpu' = <<>>, dispatch_kernel' = <<>>,
               pcb' = Nada
        PROVE  VueloInv'
    BY <1>e, VacioLema DEF VueloInv
  <1>f. ASSUME NEW x \in Pcb, mano' = Nada, pcp_pc' = "recibe", dispatch_cpu' = Append(<<>>, x),
               dispatch_kernel' = <<>>, pcb' = Nada
        PROVE  VueloInv'
    BY <1>f, VacioLema DEF VueloInv
  <1>g. ASSUME mano' = Nada, pcp_pc' = "recibe", dispatch_cpu' = <<>>, dispatch_kernel' = <<>>,
               pcb' \in Pcb
        PROVE  VueloInv'
    BY <1>g, <1>a, VacioLema DEF VueloInv
  <1>h. ASSUME NEW x \in Devuelto, x.motivo # "-", mano' = Nada, pcp_pc' = "recibe",
               dispatch_cpu' = <<>>, dispatch_kernel' = Append(<<>>, x), pcb' = Nada
        PROVE  VueloInv'
    BY <1>h, VacioLema DEF VueloInv
  <1>1. ASSUME NEW plus \in BOOLEAN, PcpPrepara(plus) PROVE VueloInv'
    <2>1. pcp_pc = "planifica" /\ pcp_pc' = "envia" /\ mano'.motivo = "-"
          /\ UNCHANGED <<dispatch_cpu, dispatch_kernel, pcb>>
      BY <1>1 DEF PcpPrepara
    <2>2. mano' \in Devuelto
      <3>1. mano' \in Devuelto \cup {Nada}
        BY <1>0 DEF TypeOK
      <3> DEFINE x == Head(IF plus THEN cola_ready_plus ELSE cola_ready)
                 y == [x EXCEPT !.quantum = Quantum(x, plus)]
      <3>2. x \in Pcb /\ Quantum(x, plus) \in Int
        BY <1>1, QuantumLema
      <3>3. y \in Pcb
        BY <3>2, ConQuantum
      <3>4. mano' = [pcb |-> y, motivo |-> "-"]
        BY <1>1 DEF PcpPrepara
      <3> QED  BY <3>3, <3>4 DEF Devuelto
    <2> QED  BY <1>0, <1>d, <2>1, <2>2 DEF Donde
  <1>2. CASE PcpEnvia
    <2>1. /\ mano.pcb \in Pcb /\ dispatch_cpu = <<>> /\ dispatch_kernel = <<>> /\ pcb = Nada
          /\ pcp_pc' = "recibe" /\ mano' = Nada /\ dispatch_cpu' = Append(dispatch_cpu, mano.pcb)
          /\ UNCHANGED <<dispatch_kernel, pcb>>
      BY <1>0, <1>2 DEF PcpEnvia, Donde
    <2> QED  BY <1>f, <2>1
  <1>3. CASE PcpRecibe
    <2>1. /\ Head(dispatch_kernel) \in Devuelto /\ dispatch_cpu = <<>> /\ pcb = Nada
          /\ Tail(dispatch_kernel) = <<>> /\ Head(dispatch_kernel) \in Range(dispatch_kernel)
      BY <1>0, <1>3 DEF PcpRecibe, Donde
    <2>2. mano' = [Head(dispatch_kernel) EXCEPT !.pcb = Descontado(Head(dispatch_kernel).pcb)]
      BY <1>3 DEF PcpRecibe
    <2>3. mano'.motivo = Head(dispatch_kernel).motivo /\ mano' \in Devuelto
      <3>1. Descontado(Head(dispatch_kernel).pcb) \in Pcb
        BY <1>0, <1>3, DescontadoLema DEF PcpRecibe, Donde
      <3> QED  BY <2>1, <2>2, <3>1 DEF Devuelto
    <2>4. mano'.motivo # "-"
      BY <1>0, <2>1, <2>3 DEF VueloInv
    <2>5. /\ pcp_pc' = "cancela" /\ dispatch_kernel' = Tail(dispatch_kernel)
          /\ UNCHANGED <<dispatch_cpu, pcb>>
      BY <1>3 DEF PcpRecibe
    <2> QED  BY <1>d, <2>1, <2>3, <2>4, <2>5
  <1>4. CASE PcpCancela
    <2>1. /\ mano \in Devuelto /\ mano.motivo # "-" /\ dispatch_cpu = <<>>
          /\ dispatch_kernel = <<>> /\ pcb = Nada
          /\ pcp_pc' = "maneja" /\ UNCHANGED <<mano, dispatch_cpu, dispatch_kernel, pcb>>
      BY <1>0, <1>4 DEF PcpCancela, Donde, VueloInv
    <2> QED  BY <1>d, <2>1
  <1>5. CASE manejar_fin_quantum \/ Eliminar \/ Bloquear
    <2>1. /\ dispatch_cpu = <<>> /\ dispatch_kernel = <<>> /\ pcb = Nada
          /\ pcp_pc' = "planifica" /\ mano' = Nada
          /\ UNCHANGED <<dispatch_cpu, dispatch_kernel, pcb>>
      BY <1>0, <1>5 DEF manejar_fin_quantum, Eliminar, Bloquear, Maneja, Donde
    <2> QED  BY <1>e, <2>1
  <1>6. CASE DevolverEjecucion
    <2>1. /\ mano.pcb \in Pcb /\ dispatch_cpu = <<>> /\ dispatch_kernel = <<>> /\ pcb = Nada
          /\ pcp_pc' = "recibe" /\ mano' = Nada /\ dispatch_cpu' = Append(dispatch_cpu, mano.pcb)
          /\ UNCHANGED <<dispatch_kernel, pcb>>
      BY <1>0, <1>6 DEF DevolverEjecucion, Maneja, Donde
    <2> QED  BY <1>f, <2>1
  <1>7. CASE CpuRecibe
    <2>1. /\ pcp_pc = "recibe" /\ mano = Nada /\ dispatch_kernel = <<>>
          /\ Tail(dispatch_cpu) = <<>> /\ Head(dispatch_cpu) \in Pcb
          /\ pcb' = Head(dispatch_cpu) /\ dispatch_cpu' = Tail(dispatch_cpu)
          /\ UNCHANGED <<pcp_pc, mano, dispatch_kernel>>
      BY <1>0, <1>7 DEF CpuRecibe, Donde
    <2> QED  BY <1>g, <2>1
  <1>8. ASSUME pcb # Nada
        PROVE  /\ pcp_pc = "recibe" /\ mano = Nada /\ dispatch_cpu = <<>> /\ pcb \in Pcb
               /\ dispatch_kernel = <<>>
    BY <1>0, <1>8 DEF Donde
  <1>9. CASE EjecutaCalculo \/ exec_jnz \/ EjecutaResize
    <2>1. pcb' \in Pcb
      <3>1. CASE EjecutaCalculo
        BY <1>0, <3>1, CalculoLema DEF EjecutaCalculo
      <3>2. CASE exec_jnz
        BY <1>0, <3>2, JnzLema
      <3>3. CASE EjecutaResize
        BY <1>8, <3>3, AvanzadoLema DEF EjecutaResize, Ejecuta
      <3> QED  BY <1>9, <3>1, <3>2, <3>3
    <2>2. pcb # Nada /\ UNCHANGED <<pcp_pc, mano, dispatch_cpu, dispatch_kernel>>
      BY <1>9 DEF EjecutaCalculo, exec_jnz, EjecutaResize, Ejecuta
    <2> QED  BY <1>8, <1>g, <2>1, <2>2
  <1>10. ASSUME NEW x \in Pcb, NEW z \in Motivo, pcb # Nada, devolver_pcb(x, z),
                UNCHANGED <<pcp_pc, mano, dispatch_cpu>>
         PROVE  VueloInv'
    <2>1. [pcb |-> x, motivo |-> z] \in Devuelto /\ z # "-"
      BY DEF Devuelto, Motivo, Pedido
    <2> QED  BY <1>8, <1>10, <1>h, <2>1 DEF devolver_pcb
  <1>11. CASE EjecutaPedido \/ EjecutaFin
    <2>1. pcb # Nada /\ fetch.op \in Motivo /\ UNCHANGED <<pcp_pc, mano, dispatch_cpu>>
      BY <1>11 DEF EjecutaPedido, EjecutaFin, Ejecuta, Motivo, Pedido
    <2>2. pcb \in Pcb /\ Avanzado(pcb) \in Pcb
      BY <1>8, <2>1, AvanzadoLema
    <2>3. devolver_pcb(pcb, fetch.op) \/ devolver_pcb(Avanzado(pcb), fetch.op)
      BY <1>11 DEF EjecutaPedido, EjecutaFin
    <2> QED  BY <1>10, <2>1, <2>2, <2>3
  <1>12. CASE check_interrupt
    <2>1. UNCHANGED <<pcp_pc, mano, dispatch_cpu>>
      BY <1>12 DEF check_interrupt
    <2>2. CASE \E i \in ParaEste : devolver_pcb(pcb, interrupts[i].motivo)
      <3>1. PICK i \in ParaEste : devolver_pcb(pcb, interrupts[i].motivo)
        BY <2>2
      <3>2. pcb # Nada /\ interrupts[i].motivo \in Motivo
        BY <1>0, ParaEsteLema
      <3> QED  BY <1>8, <1>10, <2>1, <3>1, <3>2
    <2>3. CASE UNCHANGED <<pcb, dispatch_kernel>>
      BY <1>b, <2>1, <2>3
    <2> QED  BY <1>12, <2>2, <2>3 DEF check_interrupt
  <1>13. CASE \/ Desbloquear \/ Pausa \/ ConVe \/ ConInterrumpe \/ FetchPasado \/ EjecutaDesborde
              \/ servidor_interrupt \/ Tick \/ UNCHANGED vars
              \/ \E r \in Reloj : RelojDespierta(r) \/ RelojEnvia(r) \/ RelojTermina(r)
    <2>1. UNCHANGED <<pcp_pc, mano, dispatch_cpu, dispatch_kernel, pcb>>
      BY <1>13 DEF Desbloquear, Pausa, pausar_planificacion, reanudar_planificacion, ConVe,
                   ConInterrumpe, FetchPasado, EjecutaDesborde, Ejecuta, servidor_interrupt, Tick,
                   vars, RelojDespierta, RelojEnvia, RelojTermina
    <2> QED  BY <1>b, <2>1
  <1> QED  BY Transiciones, <1>1, <1>2, <1>3, <1>4, <1>5, <1>6, <1>7, <1>9, <1>11, <1>12, <1>13

Nombre == {"ready", "ready_plus", "bloqueado", "salida", "ejecucion"}

\* The PCB x, of the place a, becomes y and goes to b.
Mueve(a, x, b, y) ==
    /\ a \in Nombre /\ b \in Nombre /\ x \in Lugares[a] /\ y \in Pcb /\ y.pid = x.pid
    /\ \A l \in Nombre : Lugares'[l] = (Lugares[l] \ {x}) \cup (IF l = b THEN {y} ELSE {})

\* The places of LugarInv.
LEMMA LugaresLema ==
  /\ DOMAIN Lugares = Nombre
  /\ Lugares["ready"] = Range(cola_ready) /\ Lugares["ready_plus"] = Range(cola_ready_plus)
  /\ Lugares["bloqueado"] = {b.pcb : b \in bloqueados} /\ Lugares["salida"] = salida
  /\ Lugares["ejecucion"] = EnEjecucion
  BY DEF Lugares, Nombre

\* The same of the next state.
LEMMA LugaresLuego ==
  (/\ DOMAIN Lugares = Nombre
   /\ Lugares["ready"] = Range(cola_ready) /\ Lugares["ready_plus"] = Range(cola_ready_plus)
   /\ Lugares["bloqueado"] = {b.pcb : b \in bloqueados} /\ Lugares["salida"] = salida
   /\ Lugares["ejecucion"] = EnEjecucion)'
  BY LugaresLema, PTL

\* Every PCB is a PCB.
LEMMA LugarTipo ==
  ASSUME TypeOK, VueloInv, NEW l \in Nombre, NEW x \in Lugares[l]
  PROVE  x \in Pcb
  <1>1. Range(cola_ready) \subseteq Pcb /\ Range(cola_ready_plus) \subseteq Pcb
    BY RangoSeq DEF TypeOK
  <1>2. salida \subseteq Pcb /\ {b.pcb : b \in bloqueados} \subseteq Pcb
    BY DEF TypeOK
  <1>3. EnEjecucion \subseteq Pcb
    <2>1. Range(dispatch_cpu) \subseteq Pcb /\ Range(dispatch_kernel) \subseteq Devuelto
      BY RangoSeq DEF TypeOK
    <2>2. \A m \in Devuelto : m.pcb \in Pcb
      BY DEF Devuelto
    <2> QED  BY <2>1, <2>2 DEF EnEjecucion, TypeOK
  <1> QED  BY <1>1, <1>2, <1>3, LugaresLema DEF Nombre

\* A PCB that moves keeps every process with one PCB in one place.
LEMMA MueveLema ==
  ASSUME LugarInv, NEW a, NEW x, NEW b, NEW y, Mueve(a, x, b, y)
  PROVE  Unicos(Lugares)' /\ Todos(Lugares)'
  <1> DEFINE L == Lugares
             M == Lugares'
  <1>0. DOMAIN L = Nombre /\ DOMAIN M = Nombre
    BY LugaresLema, LugaresLuego
  <1>1. /\ a \in Nombre /\ b \in Nombre /\ x \in L[a] /\ y.pid = x.pid
        /\ \A l \in Nombre : M[l] = (L[l] \ {x}) \cup (IF l = b THEN {y} ELSE {})
    BY DEF Mueve
  <1>2. \A l, m \in Nombre : \A u \in L[l], v \in L[m] : u.pid = v.pid => l = m /\ u = v
    BY <1>0 DEF LugarInv, Unicos
  <1>3. \A p \in Pids : \E l \in Nombre : \E u \in L[l] : u.pid = p
    BY <1>0 DEF LugarInv, Todos
  <1> HIDE DEF L, M
  <1>4. ASSUME NEW l \in Nombre, NEW m \in Nombre, NEW u \in M[l], NEW v \in M[m], u.pid = v.pid
        PROVE  l = m /\ u = v
    <2>1. (u \in L[l] /\ u # x) \/ (u = y /\ l = b)
      BY <1>1
    <2>2. (v \in L[m] /\ v # x) \/ (v = y /\ m = b)
      BY <1>1
    <2>3. ASSUME NEW n \in Nombre, NEW w \in L[n], w # x PROVE w.pid # y.pid
      BY <1>1, <1>2, <2>3
    <2> QED  BY <2>1, <2>2, <2>3, <1>2, <1>4
  <1>5. ASSUME NEW p \in Pids PROVE \E l \in Nombre : \E u \in M[l] : u.pid = p
    <2>1. PICK l \in Nombre : \E u \in L[l] : u.pid = p
      BY <1>3
    <2>2. PICK u \in L[l] : u.pid = p
      BY <2>1
    <2>3. CASE u = x
      BY <1>1, <2>2, <2>3
    <2>4. CASE u # x
      BY <1>1, <2>2, <2>4
    <2> QED  BY <2>3, <2>4
  <1>6. Unicos(Lugares')
    BY <1>0, <1>4 DEF Unicos, M
  <1>7. Todos(Lugares')
    BY <1>0, <1>5 DEF Todos, M
  <1> QED  BY <1>6, <1>7 DEF Unicos, Todos

\* What is in a place is in no other.
LEMMA LugarAjeno ==
  ASSUME LugarInv, NEW a \in Nombre, NEW x \in Lugares[a]
  PROVE  /\ \A l \in Nombre : l # a => Lugares[l] \ {x} = Lugares[l]
         /\ \A l \in Nombre : \A z \in Lugares[l] : z.pid = x.pid => l = a /\ z = x
  BY LugaresLema DEF LugarInv, Unicos

\* Who executes goes on executing, maybe with something changed.
LEMMA EnEjecucionLema ==
  ASSUME DespachoInv, NEW x, NEW y \in Pcb, y.pid = x.pid, EnEjecucion = {x}, EnEjecucion' = {y},
         UNCHANGED <<cola_ready, cola_ready_plus, bloqueados, salida>>
  PROVE  Mueve("ejecucion", x, "ejecucion", y)
  <1>1. x \in Lugares["ejecucion"]
    BY LugaresLema
  <1>2. \A l \in Nombre : l # "ejecucion" => Lugares[l] \ {x} = Lugares[l]
    BY <1>1, LugarAjeno DEF DespachoInv, Nombre
  <1>3. \A l \in Nombre : l # "ejecucion" => Lugares'[l] = Lugares[l]
    BY LugaresLema, LugaresLuego DEF Nombre
  <1>4. Lugares'["ejecucion"] = {y} /\ Lugares["ejecucion"] = {x}
    BY LugaresLema, LugaresLuego
  <1> QED  BY <1>1, <1>2, <1>3, <1>4 DEF Mueve, Nombre

\* What was put in the planner's hand leaves it for the place b.
LEMMA SaleLema ==
  ASSUME DespachoInv, NEW x \in Pcb, NEW b \in {"ready", "bloqueado", "salida"},
         EnEjecucion = {x}, EnEjecucion' = {},
         \A l \in {"ready", "ready_plus", "bloqueado", "salida"} :
             Lugares'[l] = Lugares[l] \cup (IF l = b THEN {x} ELSE {})
  PROVE  Mueve("ejecucion", x, b, x)
  <1>1. x \in Lugares["ejecucion"]
    BY LugaresLema
  <1>2. \A l \in Nombre : l # "ejecucion" => Lugares[l] \ {x} = Lugares[l]
    BY <1>1, LugarAjeno DEF DespachoInv, Nombre
  <1>3. Lugares'["ejecucion"] = {} /\ Lugares["ejecucion"] = {x}
    BY LugaresLema, LugaresLuego
  <1>4. ASSUME NEW l \in Nombre
        PROVE  Lugares'[l] = (Lugares[l] \ {x}) \cup (IF l = b THEN {x} ELSE {})
    <2>1. CASE l = "ejecucion"
      BY <1>3, <2>1
    <2>2. CASE l # "ejecucion"
      <3>1. Lugares'[l] = Lugares[l] \cup (IF l = b THEN {x} ELSE {})
        BY <2>2 DEF Nombre
      <3> QED  BY <1>2, <2>2, <3>1
    <2> QED  BY <2>1, <2>2
  <1>5. b \in Nombre /\ "ejecucion" \in Nombre
    BY DEF Nombre
  <1> QED  BY <1>1, <1>4, <1>5 DEF Mueve

\* What the kernel's step does with the PCBs.
LEMMA MuevePrepara ==
  ASSUME DespachoInv, TypeOK', VueloInv', NEW plus \in BOOLEAN, PcpPrepara(plus)
  PROVE  LET x == Head(IF plus THEN cola_ready_plus ELSE cola_ready)
             y == [x EXCEPT !.quantum = Quantum(x, plus)] IN
         /\ mano' = [pcb |-> y, motivo |-> "-"] /\ EnEjecucion' = {y}
         /\ Mueve(IF plus THEN "ready_plus" ELSE "ready", x, "ejecucion", y)
  <1> DEFINE x == Head(IF plus THEN cola_ready_plus ELSE cola_ready)
             y == [x EXCEPT !.quantum = Quantum(x, plus)]
             a == IF plus THEN "ready_plus" ELSE "ready"
  <1>0. Donde /\ Donde' /\ TypeOK /\ LugarInv
    BY VueloLema, VueloLuego DEF DespachoInv
  <1>1. x \in Pcb /\ Quantum(x, plus) \in Int /\ x \in Lugares[a]
    BY QuantumLema
  <1>2. y \in Pcb /\ y.pid = x.pid
    BY <1>1, ConQuantum
  <1>3. mano' = [pcb |-> y, motivo |-> "-"] /\ EnEjecucion = {} /\ EnEjecucion' = {y}
    BY <1>0 DEF PcpPrepara, Donde
  <1>4. a \in Nombre /\ "ejecucion" \in Nombre
    BY DEF Nombre
  <1>5. \A l \in Nombre : l # a => Lugares[l] \ {x} = Lugares[l]
    BY <1>0, <1>1, <1>4, LugarAjeno
  <1>6. Lugares'[a] = Lugares[a] \ {x}
    <2>1. CASE plus
      <3>1. /\ cola_ready_plus \in Seq(Pcb) /\ cola_ready_plus # <<>> /\ x = Head(cola_ready_plus)
            /\ cola_ready_plus' = Tail(cola_ready_plus) /\ IsInjective(cola_ready_plus)
        BY <1>0, <2>1 DEF PcpPrepara, TypeOK, LugarInv
      <3>2. Range(cola_ready_plus') = Range(cola_ready_plus) \ {x}
        BY <3>1, ColaLema
      <3> QED  BY <2>1, <3>2, LugaresLema, LugaresLuego
    <2>2. CASE ~plus
      <3>1. /\ cola_ready \in Seq(Pcb) /\ cola_ready # <<>> /\ x = Head(cola_ready)
            /\ cola_ready' = Tail(cola_ready) /\ IsInjective(cola_ready)
        BY <1>0, <2>2 DEF PcpPrepara, TypeOK, LugarInv
      <3>2. Range(cola_ready') = Range(cola_ready) \ {x}
        BY <3>1, ColaLema
      <3> QED  BY <2>2, <3>2, LugaresLema, LugaresLuego
    <2> QED  BY <2>1, <2>2
  <1>7. \A l \in Nombre : l # a /\ l # "ejecucion" => Lugares'[l] = Lugares[l]
    BY LugaresLema, LugaresLuego DEF PcpPrepara, Nombre
  <1>8. Lugares'["ejecucion"] = {y} /\ Lugares["ejecucion"] = {} /\ a # "ejecucion"
    BY <1>3, LugaresLema, LugaresLuego
  <1> HIDE DEF x, y, a
  <1>9. Mueve(a, x, "ejecucion", y)
    BY <1>1, <1>2, <1>4, <1>5, <1>6, <1>7, <1>8 DEF Mueve
  <1> QED  BY <1>3, <1>9 DEF x, y, a

\* What came back is charged what it used of its quantum.
LEMMA MueveRecibe ==
  ASSUME DespachoInv, TypeOK', VueloInv', PcpRecibe
  PROVE  LET x == Head(dispatch_kernel).pcb IN
         /\ mano'.pcb = Descontado(x) /\ mano'.motivo = Head(dispatch_kernel).motivo
         /\ EnEjecucion = {x} /\ EnEjecucion' = {Descontado(x)}
         /\ Mueve("ejecucion", x, "ejecucion", Descontado(x))
  <1> DEFINE m == Head(dispatch_kernel)
  <1>0. Donde /\ Donde' /\ TypeOK
    BY VueloLema, VueloLuego DEF DespachoInv
  <1>1. m \in Devuelto /\ m.pcb \in Pcb /\ EnEjecucion = {m.pcb}
    BY <1>0 DEF PcpRecibe, Donde
  <1>2. mano' = [m EXCEPT !.pcb = Descontado(m.pcb)] /\ pcp_pc' = "cancela"
    BY DEF PcpRecibe
  <1>3. mano'.pcb = Descontado(m.pcb) /\ mano'.motivo = m.motivo
    BY <1>1, <1>2 DEF Devuelto
  <1>4. EnEjecucion' = {Descontado(m.pcb)}
    BY <1>0, <1>2, <1>3 DEF Donde
  <1>5. Descontado(m.pcb) \in Pcb /\ Descontado(m.pcb).pid = m.pcb.pid
    BY <1>0, <1>1, DescontadoLema
  <1>6. UNCHANGED <<cola_ready, cola_ready_plus, bloqueados, salida>>
    BY DEF PcpRecibe
  <1> QED  BY <1>1, <1>3, <1>4, <1>5, <1>6, EnEjecucionLema

\* The planner files the PCB in its hand.
LEMMA MueveManeja ==
  ASSUME DespachoInv, TypeOK', VueloInv'
  PROVE  /\ manejar_fin_quantum => Mueve("ejecucion", mano.pcb, "ready", mano.pcb)
         /\ Eliminar => Mueve("ejecucion", mano.pcb, "salida", mano.pcb)
         /\ Bloquear => Mueve("ejecucion", mano.pcb, "bloqueado", mano.pcb)
  <1>0. Donde /\ Donde' /\ TypeOK
    BY VueloLema, VueloLuego DEF DespachoInv
  <1>1. ASSUME NEW motivos, Maneja(motivos), pcp_pc' = "planifica"
        PROVE  mano.pcb \in Pcb /\ EnEjecucion = {mano.pcb} /\ EnEjecucion' = {}
    BY <1>0, <1>1 DEF Maneja, Donde
  <1>2. ASSUME manejar_fin_quantum PROVE Mueve("ejecucion", mano.pcb, "ready", mano.pcb)
    <2>1. /\ mano.pcb \in Pcb /\ EnEjecucion = {mano.pcb} /\ EnEjecucion' = {}
          /\ cola_ready' = Append(cola_ready, mano.pcb)
          /\ UNCHANGED <<cola_ready_plus, bloqueados, salida>>
      BY <1>1, <1>2 DEF manejar_fin_quantum, squeue_push
    <2>2. cola_ready \in Seq(Pcb)
      BY <1>0 DEF TypeOK
    <2>3. Range(Append(cola_ready, mano.pcb)) = Range(cola_ready) \cup {mano.pcb}
      BY <2>1, <2>2, ColaLema
    <2>4. Range(cola_ready') = Range(cola_ready) \cup {mano.pcb}
      BY <2>1, <2>3
    <2> QED  BY <2>1, <2>4, SaleLema, LugaresLema, LugaresLuego
  <1>3. ASSUME Eliminar PROVE Mueve("ejecucion", mano.pcb, "salida", mano.pcb)
    <2>1. /\ mano.pcb \in Pcb /\ EnEjecucion = {mano.pcb} /\ EnEjecucion' = {}
          /\ salida' = salida \cup {mano.pcb}
          /\ UNCHANGED <<cola_ready, cola_ready_plus, bloqueados>>
      BY <1>1, <1>3 DEF Eliminar
    <2> QED  BY <2>1, SaleLema, LugaresLema, LugaresLuego
  <1>4. ASSUME Bloquear PROVE Mueve("ejecucion", mano.pcb, "bloqueado", mano.pcb)
    <2>1. /\ mano.pcb \in Pcb /\ EnEjecucion = {mano.pcb} /\ EnEjecucion' = {}
          /\ bloqueados' = bloqueados \cup {[pcb |-> mano.pcb, por |-> mano.motivo]}
          /\ UNCHANGED <<cola_ready, cola_ready_plus, salida>>
      BY <1>1, <1>4 DEF Bloquear
    <2>2. {b.pcb : b \in bloqueados'} = {b.pcb : b \in bloqueados} \cup {mano.pcb}
      <3>1. PICK r : r = [pcb |-> mano.pcb, por |-> mano.motivo]
        OBVIOUS
      <3>2. r.pcb = mano.pcb /\ bloqueados' = bloqueados \cup {r}
        BY <2>1, <3>1
      <3> QED  BY <3>2
    <2>3. Lugares'["bloqueado"] = {b.pcb : b \in bloqueados'}
      BY LugaresLuego
    <2> QED  BY <2>1, <2>2, <2>3, SaleLema, LugaresLema, LugaresLuego
  <1> QED  BY <1>2, <1>3, <1>4

\* A blocked PCB goes to a queue of READY.
LEMMA MueveDesbloquear ==
  ASSUME DespachoInv, TypeOK', VueloInv', NEW b \in bloqueados,
         bloqueados' = bloqueados \ {b}, UNCHANGED <<salida, EnEjecucion>>,
         \/ cola_ready_plus' = squeue_push(cola_ready_plus, b.pcb) /\ UNCHANGED cola_ready
         \/ cola_ready' = squeue_push(cola_ready, b.pcb) /\ UNCHANGED cola_ready_plus
  PROVE  \E l \in {"ready", "ready_plus"} : Mueve("bloqueado", b.pcb, l, b.pcb)
  <1> DEFINE x == b.pcb
  <1>0. TypeOK /\ LugarInv
    BY DEF DespachoInv
  <1>1. x \in Pcb /\ x \in Lugares["bloqueado"]
    BY <1>0, LugaresLema DEF TypeOK
  <1>2. \A l \in Nombre : l # "bloqueado" => Lugares[l] \ {x} = Lugares[l]
    BY <1>0, <1>1, LugarAjeno DEF Nombre
  <1>3. Lugares'["bloqueado"] = Lugares["bloqueado"] \ {x}
    <2>1. {c.pcb : c \in bloqueados'} = {c.pcb : c \in bloqueados} \ {x}
      BY <1>0 DEF LugarInv
    <2>2. Lugares'["bloqueado"] = {c.pcb : c \in bloqueados'}
      BY LugaresLuego
    <2> QED  BY <2>1, <2>2, LugaresLema
  <1>4. Lugares'["ejecucion"] = Lugares["ejecucion"] /\ Lugares'["salida"] = Lugares["salida"]
    BY LugaresLema, LugaresLuego
  <1>5. PICK l \in {"ready", "ready_plus"} :
           \A k \in {"ready", "ready_plus"} : Lugares'[k] = Lugares[k] \cup (IF k = l THEN {x} ELSE {})
    <2>1. CASE cola_ready_plus' = squeue_push(cola_ready_plus, b.pcb) /\ UNCHANGED cola_ready
      <3>0. cola_ready_plus \in Seq(Pcb) /\ cola_ready_plus' = squeue_push(cola_ready_plus, x)
        BY <1>0, <2>1 DEF TypeOK
      <3>00. Range(squeue_push(cola_ready_plus, x)) = Range(cola_ready_plus) \cup {x}
        BY <1>1, <3>0, ColaLema DEF squeue_push
      <3>1. Range(cola_ready_plus') = Range(cola_ready_plus) \cup {x}
        BY <3>0, <3>00
      <3>2. \A k \in {"ready", "ready_plus"} :
               Lugares'[k] = Lugares[k] \cup (IF k = "ready_plus" THEN {x} ELSE {})
        BY <2>1, <3>1, LugaresLema, LugaresLuego
      <3> QED  BY <3>2
    <2>2. CASE cola_ready' = squeue_push(cola_ready, b.pcb) /\ UNCHANGED cola_ready_plus
      <3>0. cola_ready \in Seq(Pcb) /\ cola_ready' = squeue_push(cola_ready, x)
        BY <1>0, <2>2 DEF TypeOK
      <3>00. Range(squeue_push(cola_ready, x)) = Range(cola_ready) \cup {x}
        BY <1>1, <3>0, ColaLema DEF squeue_push
      <3>1. Range(cola_ready') = Range(cola_ready) \cup {x}
        BY <3>0, <3>00
      <3>2. \A k \in {"ready", "ready_plus"} :
               Lugares'[k] = Lugares[k] \cup (IF k = "ready" THEN {x} ELSE {})
        BY <2>2, <3>1, LugaresLema, LugaresLuego
      <3> QED  BY <3>2
    <2> QED  BY <2>1, <2>2
  <1> HIDE DEF x
  <1>6. \A k \in Nombre : Lugares'[k] = (Lugares[k] \ {x}) \cup (IF k = l THEN {x} ELSE {})
    BY <1>2, <1>3, <1>4, <1>5 DEF Nombre
  <1>7. Mueve("bloqueado", x, l, x)
    BY <1>1, <1>6 DEF Mueve, Nombre
  <1> QED  BY <1>7 DEF x

\* What the CPU's step does with the PCB it has.
LEMMA MueveCpu ==
  ASSUME DespachoInv, TypeOK', VueloInv', pcb # Nada,
         NEW y \in Pcb, y.pid = pcb.pid,
         UNCHANGED <<cola_ready, cola_ready_plus, bloqueados, salida>>,
         pcb' = y \/ \E z \in Motivo : devolver_pcb(y, z)
  PROVE  /\ Mueve("ejecucion", pcb, "ejecucion", y) /\ EnEjecucion = {pcb} /\ EnEjecucion' = {y}
         /\ mano = Nada /\ dispatch_kernel = <<>>
  <1>0. Donde /\ Donde' /\ TypeOK
    BY VueloLema, VueloLuego DEF DespachoInv
  <1>1. EnEjecucion = {pcb} /\ dispatch_kernel = <<>> /\ mano = Nada
    BY <1>0 DEF Donde
  <1>2. EnEjecucion' = {y}
    <2>1. CASE pcb' = y
      BY <1>0, <2>1, DespachoOK DEF Donde
    <2>2. CASE \E z \in Motivo : devolver_pcb(y, z)
      <3>1. PICK z \in Motivo : dispatch_kernel' = Append(dispatch_kernel, [pcb |-> y, motivo |-> z])
        BY <2>2 DEF devolver_pcb
      <3>2. Head(dispatch_kernel') = [pcb |-> y, motivo |-> z] /\ dispatch_kernel' # <<>>
        BY <1>1, <3>1, VacioLema
      <3> QED  BY <1>0, <3>2 DEF Donde
    <2> QED  BY <2>1, <2>2
  <1> QED  BY <1>1, <1>2, EnEjecucionLema

\* The steps of the CPU over the PCB it has.
LEMMA MueveCpuPasos ==
  ASSUME DespachoInv, TypeOK', VueloInv'
  PROVE  /\ EjecutaCalculo => /\ Mueve("ejecucion", pcb, "ejecucion", pcb')
                              /\ EnEjecucion = {pcb} /\ EnEjecucion' = {pcb'}
         /\ exec_jnz => /\ Mueve("ejecucion", pcb, "ejecucion", pcb')
                        /\ EnEjecucion = {pcb} /\ EnEjecucion' = {pcb'}
         /\ EjecutaResize \/ EjecutaPedido =>
                /\ Mueve("ejecucion", pcb, "ejecucion", Avanzado(pcb))
                /\ EnEjecucion = {pcb} /\ EnEjecucion' = {Avanzado(pcb)}
         /\ EjecutaFin => /\ Mueve("ejecucion", pcb, "ejecucion", pcb)
                          /\ EnEjecucion = {pcb} /\ EnEjecucion' = {pcb}
         /\ check_interrupt /\ pcb # Nada => /\ Mueve("ejecucion", pcb, "ejecucion", pcb)
                                             /\ EnEjecucion = {pcb} /\ EnEjecucion' = {pcb}
  <1>0. TypeOK
    BY DEF DespachoInv
  <1>a. ASSUME NEW ops, Ejecuta(ops)
        PROVE  /\ pcb # Nada /\ pcb \in Pcb /\ Avanzado(pcb) \in Pcb /\ Avanzado(pcb).pid = pcb.pid
               /\ UNCHANGED <<cola_ready, cola_ready_plus, bloqueados, salida>> /\ fetch.op \in ops
    <2>1. pcb # Nada /\ pcb \in Pcb /\ fetch.op \in ops
          /\ UNCHANGED <<cola_ready, cola_ready_plus, bloqueados, salida>>
      BY <1>0, <1>a DEF Ejecuta, kernel, TypeOK
    <2> QED  BY <2>1, AvanzadoLema
  <1>1. ASSUME EjecutaCalculo
        PROVE  /\ Mueve("ejecucion", pcb, "ejecucion", pcb')
               /\ EnEjecucion = {pcb} /\ EnEjecucion' = {pcb'}
    <2>1. pcb' \in Pcb /\ pcb'.pid = pcb.pid
      BY <1>0, <1>1, CalculoLema DEF EjecutaCalculo
    <2> QED  BY <1>a, <1>1, <2>1, MueveCpu DEF EjecutaCalculo
  <1>2. ASSUME exec_jnz
        PROVE  /\ Mueve("ejecucion", pcb, "ejecucion", pcb')
               /\ EnEjecucion = {pcb} /\ EnEjecucion' = {pcb'}
    <2>1. pcb' \in Pcb /\ pcb'.pid = pcb.pid
      BY <1>0, <1>2, JnzLema
    <2> QED  BY <1>a, <1>2, <2>1, MueveCpu DEF exec_jnz
  <1>3. ASSUME EjecutaResize \/ EjecutaPedido
        PROVE  /\ Mueve("ejecucion", pcb, "ejecucion", Avanzado(pcb))
               /\ EnEjecucion = {pcb} /\ EnEjecucion' = {Avanzado(pcb)}
    <2>1. pcb' = Avanzado(pcb) \/ \E z \in Motivo : devolver_pcb(Avanzado(pcb), z)
      <3>1. CASE EjecutaResize
        BY <3>1 DEF EjecutaResize
      <3>2. CASE EjecutaPedido
        BY <1>a, <3>2 DEF EjecutaPedido, Motivo, Pedido
      <3> QED  BY <1>3, <3>1, <3>2
    <2>2. /\ pcb # Nada /\ pcb \in Pcb /\ Avanzado(pcb) \in Pcb /\ Avanzado(pcb).pid = pcb.pid
          /\ UNCHANGED <<cola_ready, cola_ready_plus, bloqueados, salida>>
      BY <1>a, <1>3 DEF EjecutaResize, EjecutaPedido
    <2> QED  BY <2>1, <2>2, MueveCpu
  <1>4. ASSUME EjecutaFin
        PROVE  /\ Mueve("ejecucion", pcb, "ejecucion", pcb)
               /\ EnEjecucion = {pcb} /\ EnEjecucion' = {pcb}
    <2>1. \E z \in Motivo : devolver_pcb(pcb, z)
      BY <1>a, <1>4 DEF EjecutaFin, Motivo, Pedido
    <2> QED  BY <1>a, <1>4, <2>1, MueveCpu DEF EjecutaFin
  <1>5. ASSUME check_interrupt, pcb # Nada
        PROVE  /\ Mueve("ejecucion", pcb, "ejecucion", pcb)
               /\ EnEjecucion = {pcb} /\ EnEjecucion' = {pcb}
    <2>1. UNCHANGED <<cola_ready, cola_ready_plus, bloqueados, salida>> /\ pcb \in Pcb
      BY <1>0, <1>5 DEF check_interrupt, kernel, TypeOK
    <2>2. pcb' = pcb \/ \E z \in Motivo : devolver_pcb(pcb, z)
      BY <1>0, <1>5, ParaEsteLema DEF check_interrupt
    <2> QED  BY <1>5, <2>1, <2>2, MueveCpu
  <1> QED  BY <1>1, <1>2, <1>3, <1>4, <1>5

\* The steps that only take a PCB from hand to hand, or touch none.
LEMMA QuietoLema ==
  ASSUME DespachoInv, TypeOK', VueloInv',
         \/ PcpEnvia \/ PcpCancela \/ DevolverEjecucion \/ CpuRecibe
         \/ UNCHANGED <<cola_ready, cola_ready_plus, bloqueados, salida, mano, dispatch_cpu,
                        dispatch_kernel, pcb>>
  PROVE  UNCHANGED <<cola_ready, cola_ready_plus, bloqueados, salida, EnEjecucion>>
  <1>0. Donde /\ Donde' /\ TypeOK
    BY VueloLema, VueloLuego DEF DespachoInv
  <1>a. ASSUME NEW x \in Pcb, dispatch_cpu = <<>>, dispatch_cpu' = Append(dispatch_cpu, x)
        PROVE  EnEjecucion' = {x}
    <2>1. dispatch_cpu' # <<>> /\ Head(dispatch_cpu') = x
      BY <1>a, VacioLema
    <2> QED  BY <1>0, <2>1 DEF Donde
  <1>1. CASE PcpEnvia
    BY <1>0, <1>1, <1>a DEF PcpEnvia, Donde
  <1>2. CASE PcpCancela
    BY <1>0, <1>2 DEF PcpCancela, Donde
  <1>3. CASE DevolverEjecucion
    BY <1>0, <1>3, <1>a DEF DevolverEjecucion, Maneja, Donde
  <1>4. CASE CpuRecibe
    <2>1. pcb' = Head(dispatch_cpu) /\ pcb' \in Pcb /\ EnEjecucion = {Head(dispatch_cpu)}
          /\ UNCHANGED <<cola_ready, cola_ready_plus, bloqueados, salida>>
      BY <1>0, <1>4 DEF CpuRecibe, Donde, kernel
    <2>2. EnEjecucion' = {pcb'}
      BY <1>0, <2>1, DespachoOK DEF Donde
    <2> QED  BY <2>1, <2>2
  <1>5. CASE UNCHANGED <<cola_ready, cola_ready_plus, bloqueados, salida, mano, dispatch_cpu,
                         dispatch_kernel, pcb>>
    BY <1>5 DEF EnEjecucion
  <1> QED  BY <1>1, <1>2, <1>3, <1>4, <1>5

\* Nothing else touches a PCB.
LEMMA AjenoLema ==
  ASSUME \/ Pausa \/ ConVe \/ ConInterrumpe \/ FetchPasado \/ EjecutaDesborde \/ servidor_interrupt \/ Tick
         \/ (check_interrupt /\ pcb = Nada) \/ UNCHANGED vars
         \/ \E r \in Reloj : RelojDespierta(r) \/ RelojEnvia(r) \/ RelojTermina(r)
  PROVE  UNCHANGED <<cola_ready, cola_ready_plus, bloqueados, salida, mano, dispatch_cpu,
                     dispatch_kernel, pcb, pedidos, codigo>>
  <1>1. ParaEste = {} \/ pcb # Nada
    BY DEF ParaEste, Es
  <1> QED  BY <1>1 DEF Pausa, pausar_planificacion, reanudar_planificacion, ConVe, ConInterrumpe,
              FetchPasado, EjecutaDesborde, Ejecuta, servidor_interrupt, Tick, check_interrupt,
              vars, kernel, red, cpu,
              RelojDespierta, RelojEnvia, RelojTermina

\* Every step moves one PCB, or none.
LEMMA MudanzaLema ==
  ASSUME DespachoInv, TypeOK', VueloInv', [Next]_vars
  PROVE  UNCHANGED Lugares \/ \E a, x, b, y : Mueve(a, x, b, y)
  <1>1. ASSUME NEW plus \in BOOLEAN, PcpPrepara(plus) PROVE \E a, x, b, y : Mueve(a, x, b, y)
    BY <1>1, MuevePrepara
  <1>2. CASE PcpRecibe
    BY <1>2, MueveRecibe
  <1>3. CASE manejar_fin_quantum \/ Eliminar \/ Bloquear
    BY <1>3, MueveManeja
  <1>4. CASE Desbloquear
    <2>1. PICK b \in bloqueados :
             /\ bloqueados' = bloqueados \ {b}
             /\ \/ /\ cola_ready_plus' = squeue_push(cola_ready_plus, b.pcb)
                   /\ UNCHANGED cola_ready
                \/ cola_ready' = squeue_push(cola_ready, b.pcb) /\ UNCHANGED cola_ready_plus
      BY <1>4 DEF Desbloquear
    <2>2. UNCHANGED <<salida, EnEjecucion>>
      BY <1>4 DEF Desbloquear, EnEjecucion, red, cpu
    <2> QED  BY <2>1, <2>2, MueveDesbloquear
  <1>5. CASE \/ EjecutaCalculo \/ exec_jnz \/ EjecutaResize \/ EjecutaPedido \/ EjecutaFin
             \/ (check_interrupt /\ pcb # Nada)
    BY <1>5, MueveCpuPasos
  <1>6. CASE \/ PcpEnvia \/ PcpCancela \/ DevolverEjecucion \/ CpuRecibe
             \/ Pausa \/ ConVe \/ ConInterrumpe \/ FetchPasado \/ EjecutaDesborde \/ servidor_interrupt
             \/ Tick \/ (check_interrupt /\ pcb = Nada) \/ UNCHANGED vars
             \/ \E r \in Reloj : RelojDespierta(r) \/ RelojEnvia(r) \/ RelojTermina(r)
    <2>1. UNCHANGED <<cola_ready, cola_ready_plus, bloqueados, salida, EnEjecucion>>
      BY <1>6, QuietoLema, AjenoLema
    <2> QED  BY <2>1 DEF Lugares
  <1> QED  BY Transiciones, <1>1, <1>2, <1>3, <1>4, <1>5, <1>6

\* No process loses its PCB or gets a second one.
LEMMA LugarPaso ==
  ASSUME DespachoInv, TypeOK', VueloInv', [Next]_vars
  PROVE  LugarInv'
  <1>0. TypeOK /\ LugarInv /\ Donde
    BY VueloLema DEF DespachoInv
  <1>1. Unicos(Lugares)' /\ Todos(Lugares)'
    <2>1. CASE UNCHANGED Lugares
      BY <1>0, <2>1 DEF LugarInv, Unicos, Todos
    <2>2. CASE \E a, x, b, y : Mueve(a, x, b, y)
      BY <1>0, <2>2, MueveLema
    <2> QED  BY <2>1, <2>2, MudanzaLema
  <1>a. /\ cola_ready \in Seq(Pcb) /\ cola_ready_plus \in Seq(Pcb)
        /\ IsInjective(cola_ready) /\ IsInjective(cola_ready_plus)
        /\ \A a, b \in bloqueados : a.pcb = b.pcb => a = b
    BY <1>0 DEF TypeOK, LugarInv
  <1>b. /\ pcp_pc = "maneja" => /\ mano.pcb \in Pcb /\ mano.pcb \in Lugares["ejecucion"]
                                /\ mano.pcb \notin Range(cola_ready)
                                /\ \A b \in bloqueados : b.pcb # mano.pcb
        /\ \A b \in bloqueados : /\ b.pcb \in Pcb /\ b.pcb \notin Range(cola_ready)
                                 /\ b.pcb \notin Range(cola_ready_plus)
    <2>1. \A l, m \in Nombre : l # m => Lugares[l] \cap Lugares[m] = {}
      BY <1>0, LugarAjeno
    <2>2. pcp_pc = "maneja" => mano.pcb \in Pcb /\ mano.pcb \in Lugares["ejecucion"]
      BY <1>0, LugaresLema DEF Donde
    <2>3. \A b \in bloqueados : b.pcb \in Pcb /\ b.pcb \in Lugares["bloqueado"]
      BY <1>0, LugaresLema DEF TypeOK
    <2>4. /\ Lugares["ejecucion"] \cap Lugares["ready"] = {}
          /\ Lugares["ejecucion"] \cap Lugares["bloqueado"] = {}
          /\ Lugares["bloqueado"] \cap Lugares["ready"] = {}
          /\ Lugares["bloqueado"] \cap Lugares["ready_plus"] = {}
      BY <2>1 DEF Nombre
    <2> QED  BY <2>2, <2>3, <2>4, LugaresLema
  <1>2. /\ IsInjective(cola_ready)' /\ IsInjective(cola_ready_plus)'
        /\ (\A a, b \in bloqueados : a.pcb = b.pcb => a = b)'
    <2>a. CASE UNCHANGED <<cola_ready, cola_ready_plus, bloqueados>>
      BY <1>a, <2>a
    <2>1. ASSUME NEW plus \in BOOLEAN, PcpPrepara(plus)
          PROVE  /\ IsInjective(cola_ready') /\ IsInjective(cola_ready_plus')
                 /\ UNCHANGED bloqueados
      <3>1. CASE plus
        <4>1. /\ cola_ready_plus # <<>> /\ cola_ready_plus' = Tail(cola_ready_plus)
              /\ UNCHANGED <<cola_ready, bloqueados>>
          BY <2>1, <3>1 DEF PcpPrepara
        <4>2. IsInjective(Tail(cola_ready_plus))
          BY <1>a, <4>1, ColaLema
        <4> QED  BY <1>a, <4>1, <4>2
      <3>2. CASE ~plus
        <4>1. /\ cola_ready # <<>> /\ cola_ready' = Tail(cola_ready)
              /\ UNCHANGED <<cola_ready_plus, bloqueados>>
          BY <2>1, <3>2 DEF PcpPrepara
        <4>2. IsInjective(Tail(cola_ready))
          BY <1>a, <4>1, ColaLema
        <4> QED  BY <1>a, <4>1, <4>2
      <3> QED  BY <3>1, <3>2
    <2>2. CASE manejar_fin_quantum
      <3>1. mano.pcb \in Pcb /\ mano.pcb \notin Range(cola_ready)
            /\ cola_ready' = Append(cola_ready, mano.pcb) /\ UNCHANGED <<cola_ready_plus, bloqueados>>
        BY <1>b, <2>2 DEF manejar_fin_quantum, Maneja, squeue_push
      <3>2. IsInjective(Append(cola_ready, mano.pcb))
        BY <1>a, <3>1, ColaLema
      <3> QED  BY <1>a, <3>1, <3>2
    <2>3. CASE Bloquear
      <3>1. PICK r : r.pcb = mano.pcb /\ bloqueados' = bloqueados \cup {r}
                     /\ UNCHANGED <<cola_ready, cola_ready_plus>>
        BY <2>3 DEF Bloquear
      <3>2. \A b \in bloqueados : b.pcb # mano.pcb
        BY <1>b, <2>3 DEF Bloquear, Maneja
      <3> QED  BY <1>a, <3>1, <3>2
    <2>4. CASE Desbloquear
      <3>1. PICK b \in bloqueados :
               /\ bloqueados' = bloqueados \ {b}
               /\ \/ (cola_ready_plus' = Append(cola_ready_plus, b.pcb) /\ UNCHANGED cola_ready)
                  \/ cola_ready' = Append(cola_ready, b.pcb) /\ UNCHANGED cola_ready_plus
        BY <2>4 DEF Desbloquear, squeue_push
      <3>2. b.pcb \in Pcb /\ b.pcb \notin Range(cola_ready) /\ b.pcb \notin Range(cola_ready_plus)
        BY <1>b
      <3>3. IsInjective(Append(cola_ready, b.pcb)) /\ IsInjective(Append(cola_ready_plus, b.pcb))
        BY <1>a, <3>2, ColaLema
      <3>4. IsInjective(cola_ready') /\ IsInjective(cola_ready_plus')
        BY <1>a, <3>1, <3>3
      <3> QED  BY <1>a, <3>1, <3>4
    <2>5. CASE Eliminar
      BY <2>a, <2>5 DEF Eliminar
    <2>6. CASE \/ EjecutaCalculo \/ exec_jnz \/ EjecutaResize \/ EjecutaPedido \/ EjecutaFin
               \/ check_interrupt \/ PcpRecibe
      BY <2>a, <2>6 DEF EjecutaCalculo, exec_jnz, EjecutaResize, EjecutaPedido, EjecutaFin,
                        Ejecuta, check_interrupt, PcpRecibe, kernel
    <2>7. CASE \/ PcpEnvia \/ PcpCancela \/ DevolverEjecucion \/ CpuRecibe
               \/ Pausa \/ ConVe \/ ConInterrumpe \/ FetchPasado \/ EjecutaDesborde \/ servidor_interrupt
               \/ Tick \/ UNCHANGED vars
               \/ \E r \in Reloj : RelojDespierta(r) \/ RelojEnvia(r) \/ RelojTermina(r)
      BY <2>a, <2>7, QuietoLema, AjenoLema
    <2> QED  BY Transiciones, <1>a, <2>1, <2>2, <2>3, <2>4, <2>5, <2>6, <2>7
  <1> QED  BY <1>1, <1>2 DEF LugarInv

-----------------------------------------------------------------------------
(* Clocks, interrupts and requests                                          *)

\* A clock whose parameters the planner may write is still there.
LEMMA RelojPaso ==
  ASSUME DespachoInv, [Next]_vars
  PROVE  RelojInv'
  <1>0. /\ relojes \in [Reloj -> Parametros] /\ ultimo \in Reloj
        /\ en_ejecucion_ultimo_reloj \in BOOLEAN
        /\ \A r \in Reloj : relojes[r].paso # "libre" => relojes[r].pid \in Pids
        /\ en_ejecucion_ultimo_reloj => /\ ConReloj /\ relojes[ultimo].paso # "libre"
                                        /\ ~relojes[ultimo].cancelado
    BY DEF DespachoInv, TypeOK, RelojInv
  <1>a. CASE UNCHANGED <<relojes, ultimo, en_ejecucion_ultimo_reloj>>
    BY <1>a DEF DespachoInv, RelojInv
  <1>1. ASSUME NEW plus \in BOOLEAN, PcpPrepara(plus) PROVE RelojInv'
    <2> DEFINE x == Head(IF plus THEN cola_ready_plus ELSE cola_ready)
    <2>1. CASE ConReloj
      <3>1. CrearReloj(x, plus) /\ x.pid \in Pids
        BY <1>1, <2>1, QuantumLema, PcbLema DEF PcpPrepara
      <3> HIDE DEF x
      <3>2. PICK r \in Reloj, n \in [paso : {"duerme"}, pid : Pids, resta : {Quantum(x, plus)},
                                     cancelado : {FALSE}] :
               relojes' = [relojes EXCEPT ![r] = n] /\ ultimo' = r
        BY <3>1 DEF CrearReloj
      <3> QED  BY <1>0, <2>1, <3>2 DEF RelojInv
    <2>2. CASE ~ConReloj
      BY <1>1, <1>a, <2>2 DEF PcpPrepara, tiempo
    <2> QED  BY <2>1, <2>2
  <1>2. CASE PcpCancela
    <2>1. /\ \A r \in Reloj : /\ relojes'[r].pid = relojes[r].pid
                              /\ relojes'[r].paso = relojes[r].paso
          /\ en_ejecucion_ultimo_reloj' = FALSE
      BY <1>0, <1>2 DEF PcpCancela, Parametros
    <2> QED  BY <1>0, <2>1 DEF RelojInv
  <1>3. ASSUME NEW r \in Reloj, RelojDespierta(r) \/ RelojEnvia(r) \/ RelojTermina(r)
        PROVE  RelojInv'
    <2>1. CASE RelojDespierta(r)
      <3>1. CASE relojes[r].cancelado
        <4>1. /\ relojes' = [relojes EXCEPT ![r] = Liberado] /\ Liberado.paso = "libre"
              /\ UNCHANGED <<ultimo, en_ejecucion_ultimo_reloj>>
          BY <2>1, <3>1 DEF RelojDespierta, Liberado
        <4> QED  BY <1>0, <3>1, <4>1 DEF RelojInv
      <3>2. CASE ~relojes[r].cancelado
        <4>1. /\ relojes[r].paso = "duerme"
              /\ relojes' = [relojes EXCEPT ![r].paso = "envia"]
              /\ UNCHANGED <<ultimo, en_ejecucion_ultimo_reloj>>
          BY <2>1, <3>2 DEF RelojDespierta
        <4>2. /\ \A s \in Reloj : /\ relojes'[s].pid = relojes[s].pid
                                  /\ relojes'[s].cancelado = relojes[s].cancelado
                                  /\ relojes'[s].paso = "libre" <=> relojes[s].paso = "libre"
          BY <1>0, <4>1 DEF Parametros
        <4> QED  BY <1>0, <4>1, <4>2 DEF RelojInv
      <3> QED  BY <3>1, <3>2
    <2>2. CASE RelojEnvia(r)
      <3>1. /\ relojes[r].paso = "envia"
            /\ relojes' = [relojes EXCEPT ![r].paso = "avisa"]
            /\ UNCHANGED <<ultimo, en_ejecucion_ultimo_reloj>>
        BY <2>2 DEF RelojEnvia
      <3>2. /\ \A s \in Reloj : /\ relojes'[s].pid = relojes[s].pid
                                /\ relojes'[s].cancelado = relojes[s].cancelado
                                /\ relojes'[s].paso = "libre" <=> relojes[s].paso = "libre"
        BY <1>0, <3>1 DEF Parametros
      <3> QED  BY <1>0, <3>1, <3>2 DEF RelojInv
    <2>3. CASE RelojTermina(r)
      <3>1. /\ relojes' = [relojes EXCEPT ![r] = Liberado] /\ Liberado.paso = "libre"
            /\ en_ejecucion_ultimo_reloj' = FALSE
        BY <2>3 DEF RelojTermina, AvisarFin, Liberado
      <3> QED  BY <1>0, <3>1 DEF RelojInv
    <2> QED  BY <1>3, <2>1, <2>2, <2>3
  <1>4. CASE Tick
    <2>1. /\ \A r \in Reloj : /\ relojes'[r].pid = relojes[r].pid
                              /\ relojes'[r].cancelado = relojes[r].cancelado
                              /\ relojes'[r].paso = relojes[r].paso
          /\ UNCHANGED <<ultimo, en_ejecucion_ultimo_reloj>>
      BY <1>0, <1>4 DEF Tick, Parametros
    <2> QED  BY <1>0, <2>1 DEF RelojInv
  <1>5. CASE \/ PcpEnvia \/ PcpRecibe \/ manejar_fin_quantum \/ Eliminar \/ Bloquear
             \/ DevolverEjecucion \/ Desbloquear \/ Pausa \/ ConVe \/ ConInterrumpe
             \/ CpuRecibe \/ FetchPasado \/ EjecutaCalculo \/ EjecutaDesborde \/ exec_jnz
             \/ EjecutaPedido \/ EjecutaFin \/ EjecutaResize \/ check_interrupt
             \/ servidor_interrupt \/ UNCHANGED vars
    BY <1>a, <1>5 DEF PcpEnvia, PcpRecibe, manejar_fin_quantum, Eliminar, Bloquear,
       DevolverEjecucion, Maneja, Desbloquear, Pausa, pausar_planificacion, reanudar_planificacion,
       ConVe, ConInterrumpe, CpuRecibe, FetchPasado, EjecutaCalculo, EjecutaDesborde, exec_jnz,
       EjecutaPedido, EjecutaFin, EjecutaResize,
       Ejecuta, check_interrupt, servidor_interrupt, vars, tiempo
  <1> QED  BY Transiciones, <1>1, <1>2, <1>3, <1>4, <1>5

\* A list of interrupts that gets one more, or loses its first, names nobody else.
LEMMA NombradosLema ==
  ASSUME NEW q \in Seq(Interrupcion), Nombrados(q)
  PROVE  /\ \A i \in Interrupcion :
                (i.motivo = "INTERRUMPIDO_POR_USUARIO" => i.pid \in finalizados)
                => Nombrados(Append(q, i))
         /\ q # <<>> => /\ Nombrados(Tail(q)) /\ Head(q) \in Interrupcion
                        /\ Head(q).motivo = "INTERRUMPIDO_POR_USUARIO"
                           => Head(q).pid \in finalizados
         /\ Nombrados(<<>>)
  <1>1. \A i \in Interrupcion : Range(Append(q, i)) = Range(q) \cup {i}
    BY ColaLema
  <1>2. q # <<>> => Range(q) = Range(Tail(q)) \cup {Head(q)} /\ Head(q) \in Interrupcion
    BY ColaLema
  <1> QED  BY <1>1, <1>2, VacioLema DEF Nombrados

\* What the operator interrupts is what the operator named.
LEMMA InterrupcionPaso ==
  ASSUME DespachoInv, [Next]_vars
  PROVE  InterrupcionInv'
  <1> DEFINE Nombrado(m) == m.motivo = "INTERRUMPIDO_POR_USUARIO" => m.pcb.pid \in finalizados
  <1>0. TypeOK /\ VueloInv /\ Donde
    BY VueloLema DEF DespachoInv
  <1>i. /\ con_pid # NULL => con_pid \in finalizados
        /\ Nombrados(interrupt) /\ Nombrados(interrupts)
        /\ \A m \in Range(dispatch_kernel) : Nombrado(m)
        /\ mano # Nada => Nombrado(mano)
        /\ interrupt \in Seq(Interrupcion) /\ interrupts \in Seq(Interrupcion)
    BY <1>0 DEF DespachoInv, InterrupcionInv, TypeOK
  <1>a. ASSUME UNCHANGED <<con_pid, finalizados, interrupt, interrupts>>,
               \A m \in Range(dispatch_kernel') : Nombrado(m),
               mano' # Nada => Nombrado(mano')
        PROVE  InterrupcionInv'
    BY <1>a, <1>i DEF InterrupcionInv, Nombrados
  <1>b. ASSUME UNCHANGED <<finalizados, dispatch_kernel, mano>>,
               con_pid' # NULL => con_pid' \in finalizados,
               Nombrados(interrupt'), Nombrados(interrupts')
        PROVE  InterrupcionInv'
    BY <1>b, <1>i DEF InterrupcionInv, Nombrados
  <1>1. ASSUME NEW plus \in BOOLEAN, PcpPrepara(plus) PROVE InterrupcionInv'
    <2>1. /\ mano'.motivo = "-"
          /\ UNCHANGED <<con_pid, finalizados, interrupt, interrupts, dispatch_kernel>>
      BY <1>1 DEF PcpPrepara, consola, red, cpu
    <2> QED  BY <1>a, <1>i, <2>1
  <1>2. CASE PcpEnvia \/ manejar_fin_quantum \/ Eliminar \/ Bloquear \/ DevolverEjecucion
    <2>1. /\ mano' = Nada
          /\ UNCHANGED <<con_pid, finalizados, interrupt, interrupts, dispatch_kernel>>
      BY <1>2 DEF PcpEnvia, manejar_fin_quantum, Eliminar, Bloquear, DevolverEjecucion, Maneja,
                  consola, red, cpu
    <2> QED  BY <1>a, <1>i, <2>1
  <1>3. CASE PcpRecibe
    <2>1. /\ Head(dispatch_kernel) \in Range(dispatch_kernel) /\ Tail(dispatch_kernel) = <<>>
          /\ Head(dispatch_kernel) \in Devuelto /\ Head(dispatch_kernel).pcb \in Pcb
      BY <1>0, <1>3 DEF PcpRecibe, Donde
    <2>2. /\ dispatch_kernel' = Tail(dispatch_kernel)
          /\ mano' = [Head(dispatch_kernel) EXCEPT !.pcb = Descontado(Head(dispatch_kernel).pcb)]
          /\ UNCHANGED <<con_pid, finalizados, interrupt, interrupts>>
      BY <1>3 DEF PcpRecibe, cpu
    <2>3. /\ mano'.motivo = Head(dispatch_kernel).motivo
          /\ mano'.pcb = Descontado(Head(dispatch_kernel).pcb)
      BY <2>1, <2>2 DEF Devuelto
    <2>4. mano'.pcb.pid = Head(dispatch_kernel).pcb.pid
      BY <1>0, <2>1, <2>3, DescontadoLema
    <2>5. Range(dispatch_kernel') = {}
      BY <2>1, <2>2, VacioLema
    <2> QED  BY <1>a, <1>i, <2>1, <2>2, <2>3, <2>4, <2>5
  <1>4. ASSUME NEW x, NEW z, devolver_pcb(x, z), pcb # Nada, Nombrado([pcb |-> x, motivo |-> z]),
               x \in Pcb, z \in Motivo
        PROVE  \A m \in Range(dispatch_kernel') : Nombrado(m)
    <2>1. dispatch_kernel = <<>> /\ [pcb |-> x, motivo |-> z] \in Devuelto
      BY <1>0, <1>4 DEF Donde, Devuelto
    <2>2. Range(dispatch_kernel') = {[pcb |-> x, motivo |-> z]}
      BY <1>4, <2>1, VacioLema DEF devolver_pcb
    <2> QED  BY <1>4, <2>2
  <1>5. CASE EjecutaPedido \/ EjecutaFin
    <2>1. /\ pcb # Nada /\ pcb \in Pcb /\ fetch.op \in Motivo
          /\ fetch.op # "INTERRUMPIDO_POR_USUARIO"
          /\ UNCHANGED <<con_pid, finalizados, interrupt, interrupts, mano>>
      BY <1>0, <1>5 DEF EjecutaPedido, EjecutaFin, Ejecuta, consola, kernel, TypeOK, Motivo, Pedido
    <2>2. Avanzado(pcb) \in Pcb
      BY <2>1, AvanzadoLema
    <2>3. PICK x \in Pcb : devolver_pcb(x, fetch.op)
      BY <1>5, <2>1, <2>2 DEF EjecutaPedido, EjecutaFin
    <2>4. Nombrado([pcb |-> x, motivo |-> fetch.op])
      BY <2>1
    <2>5. \A m \in Range(dispatch_kernel') : Nombrado(m)
      BY <1>4, <2>1, <2>3, <2>4
    <2> QED  BY <1>a, <1>i, <2>1, <2>5
  <1>6. CASE check_interrupt
    <2>1. /\ interrupts' = <<>> /\ UNCHANGED <<con_pid, finalizados, interrupt, mano>>
          /\ Nombrados(<<>>)
      BY <1>6, VacioLema DEF check_interrupt, consola, kernel, Nombrados
    <2>2. \A m \in Range(dispatch_kernel') : Nombrado(m)
      <3>1. CASE \E i \in ParaEste : devolver_pcb(pcb, interrupts[i].motivo)
        <4>1. PICK i \in ParaEste : devolver_pcb(pcb, interrupts[i].motivo)
          BY <3>1
        <4>2. /\ pcb # Nada /\ pcb \in Pcb /\ interrupts[i] \in Range(interrupts)
              /\ interrupts[i].pid = pcb.pid /\ interrupts[i].motivo \in Motivo
          BY <1>0, ParaEsteLema
        <4>3. Nombrado([pcb |-> pcb, motivo |-> interrupts[i].motivo])
          BY <1>i, <4>2 DEF Nombrados
        <4> QED  BY <1>4, <4>1, <4>2, <4>3
      <3>2. CASE UNCHANGED dispatch_kernel
        BY <1>i, <3>2
      <3> QED  BY <1>6, <3>1, <3>2 DEF check_interrupt
    <2> QED  BY <1>i, <2>1, <2>2 DEF InterrupcionInv, Nombrados
  <1>7. CASE ConVe
    <2>1. /\ con_pid' \in finalizados' /\ finalizados \subseteq finalizados'
          /\ UNCHANGED <<interrupt, interrupts, mano, dispatch_kernel>>
      BY <1>7 DEF ConVe, kernel, red, cpu
    <2> QED  BY <1>i, <2>1 DEF InterrupcionInv, Nombrados
  <1>8. CASE ConInterrumpe
    <2>1. [pid |-> con_pid, motivo |-> "INTERRUMPIDO_POR_USUARIO"] \in Interrupcion
          /\ con_pid \in finalizados
      BY <1>0, <1>8, <1>i DEF ConInterrumpe, TypeOK, Interrupcion
    <2>2. Nombrados(Append(interrupt, [pid |-> con_pid, motivo |-> "INTERRUMPIDO_POR_USUARIO"]))
      BY <1>i, <2>1, NombradosLema
    <2> QED  BY <1>8, <1>b, <1>i, <2>2 DEF ConInterrumpe, kernel, cpu
  <1>9. CASE servidor_interrupt
    <2>1. /\ Head(interrupt) \in Interrupcion /\ Nombrados(Tail(interrupt))
          /\ Head(interrupt).motivo = "INTERRUMPIDO_POR_USUARIO" => Head(interrupt).pid \in finalizados
      BY <1>9, <1>i, NombradosLema DEF servidor_interrupt
    <2>2. Nombrados(Append(interrupts, Head(interrupt)))
      BY <1>i, <2>1, NombradosLema
    <2> QED  BY <1>9, <1>b, <1>i, <2>1, <2>2 DEF servidor_interrupt, kernel, consola
  <1>10. ASSUME NEW r \in Reloj, RelojEnvia(r) PROVE InterrupcionInv'
    <2>1. [pid |-> relojes[r].pid, motivo |-> "FIN_QUANTUM"] \in Interrupcion
      BY <1>10 DEF RelojEnvia, Interrupcion, DespachoInv, RelojInv
    <2>2. Nombrados(Append(interrupt, [pid |-> relojes[r].pid, motivo |-> "FIN_QUANTUM"]))
      BY <1>i, <2>1, NombradosLema
    <2> QED  BY <1>10, <1>b, <1>i, <2>2 DEF RelojEnvia, kernel, cpu, consola
  <1>11. CASE \/ PcpCancela \/ Desbloquear \/ Pausa \/ CpuRecibe \/ FetchPasado \/ EjecutaCalculo
              \/ EjecutaDesborde \/ exec_jnz \/ EjecutaResize \/ Tick \/ UNCHANGED vars
              \/ \E r \in Reloj : RelojDespierta(r) \/ RelojTermina(r)
    <2>1. UNCHANGED <<con_pid, finalizados, interrupt, interrupts, dispatch_kernel, mano>>
      BY <1>11 DEF PcpCancela, Desbloquear, Pausa, pausar_planificacion, reanudar_planificacion,
                   CpuRecibe, FetchPasado, EjecutaCalculo,
                   EjecutaDesborde, exec_jnz, EjecutaResize, Ejecuta, Tick, RelojDespierta,
                   RelojTermina, vars, kernel, red, cpu, consola
    <2> QED  BY <1>a, <1>i, <2>1
  <1> QED  BY Transiciones, <1>1, <1>2, <1>3, <1>5, <1>6, <1>7, <1>8, <1>9, <1>10, <1>11

\* Nobody who asked for its end stays.
LEMMA PedidosPaso ==
  ASSUME DespachoInv, [Next]_vars
  PROVE  PedidosInv'
  <1>0. TypeOK /\ VueloInv /\ Donde /\ PedidosInv
    BY VueloLema DEF DespachoInv
  <1>a. CASE UNCHANGED pedidos /\ salida \subseteq salida'
    BY <1>a, <1>0 DEF PedidosInv
  <1>1. CASE manejar_fin_quantum \/ Eliminar \/ Bloquear \/ DevolverEjecucion
    <2>1. /\ mano.pcb.pid \in Pids /\ mano.motivo \in Motivo /\ salida \subseteq salida'
          /\ mano.motivo \in {"EXIT", "RESIZE"} => mano.pcb \in salida'
          /\ pedidos' = [pedidos EXCEPT ![mano.pcb.pid] =
                            IF mano.motivo \in {"FIN_QUANTUM", "INTERRUMPIDO_POR_USUARIO"} THEN @
                            ELSE Append(@, mano.motivo)]
      <3>1. mano.pcb.pid \in Pids /\ mano.motivo \in Motivo
        BY <1>0, <1>1, PcbLema DEF manejar_fin_quantum, Eliminar, Bloquear, DevolverEjecucion,
           Maneja, Donde, Motivo, Pedido
      <3>2. salida \subseteq salida'
        BY <1>1 DEF manejar_fin_quantum, Eliminar, Bloquear, DevolverEjecucion
      <3>3. mano.motivo \in {"EXIT", "RESIZE"} => mano.pcb \in salida'
        BY <1>1 DEF manejar_fin_quantum, Eliminar, Bloquear, DevolverEjecucion, Maneja
      <3> QED  BY <1>1, <3>1, <3>2, <3>3 DEF manejar_fin_quantum, Eliminar, Bloquear,
                  DevolverEjecucion, Maneja
    <2>2. ASSUME NEW p \in Pids, NEW k \in DOMAIN pedidos'[p], pedidos'[p][k] \in {"EXIT", "RESIZE"}
          PROVE  \E x \in salida' : x.pid = p
      <3>1. pedidos \in [Pids -> Seq(Pedido)]
        BY <1>0 DEF TypeOK
      <3>2. CASE pedidos'[p] = pedidos[p]
        BY <1>0, <2>1, <2>2, <3>2 DEF PedidosInv
      <3>3. CASE pedidos'[p] = Append(pedidos[p], mano.motivo) /\ p = mano.pcb.pid
                 /\ mano.motivo \in Pedido
        <4>1. \/ k \in DOMAIN pedidos[p] /\ pedidos'[p][k] = pedidos[p][k]
              \/ pedidos'[p][k] = mano.motivo
          <5>1. pedidos[p] \in Seq(Pedido) /\ pedidos'[p] \in Seq(Pedido)
                /\ Len(pedidos'[p]) = Len(pedidos[p]) + 1
            BY <3>1, <3>3, AppendProperties
          <5>2. k \in 1..(Len(pedidos[p]) + 1) /\ Len(pedidos[p]) \in Nat
                /\ DOMAIN pedidos[p] = 1..Len(pedidos[p])
            BY <5>1, LenProperties
          <5>3. CASE k \in 1..Len(pedidos[p])
            BY <3>3, <5>1, <5>2, <5>3, AppendProperties
          <5>4. CASE k = Len(pedidos[p]) + 1
            BY <3>3, <5>1, <5>4, AppendProperties
          <5> QED  BY <5>2, <5>3, <5>4
        <4>2. CASE k \in DOMAIN pedidos[p] /\ pedidos'[p][k] = pedidos[p][k]
          BY <1>0, <2>1, <2>2, <4>2 DEF PedidosInv
        <4>3. CASE pedidos'[p][k] = mano.motivo
          BY <2>1, <2>2, <3>3, <4>3
        <4> QED  BY <4>1, <4>2, <4>3
      <3> QED  BY <2>1, <3>1, <3>2, <3>3 DEF Motivo
    <2> QED  BY <2>2 DEF PedidosInv
  <1>2. ASSUME NEW plus \in BOOLEAN, PcpPrepara(plus) PROVE PedidosInv'
    BY <1>2, <1>a DEF PcpPrepara
  <1>3. CASE PcpEnvia \/ PcpRecibe \/ PcpCancela \/ Desbloquear \/ CpuRecibe
    BY <1>3, <1>a DEF PcpEnvia, PcpRecibe, PcpCancela, Desbloquear, CpuRecibe, kernel
  <1>4. CASE \/ EjecutaCalculo \/ exec_jnz \/ EjecutaPedido \/ EjecutaFin \/ EjecutaResize
             \/ check_interrupt
    BY <1>4, <1>a DEF EjecutaCalculo, exec_jnz, EjecutaPedido, EjecutaFin, EjecutaResize, Ejecuta,
                      check_interrupt, kernel
  <1>5. CASE \/ Pausa \/ ConVe \/ ConInterrumpe \/ FetchPasado \/ EjecutaDesborde \/ servidor_interrupt \/ Tick
             \/ UNCHANGED vars
             \/ \E r \in Reloj : RelojDespierta(r) \/ RelojEnvia(r) \/ RelojTermina(r)
    BY <1>5, <1>a, AjenoLema
  <1> QED  BY Transiciones, <1>1, <1>2, <1>3, <1>4, <1>5

-----------------------------------------------------------------------------
(* The quantum                                                              *)

\* QuantumInv under VRR, place by place.
LEMMA QuantumVrr ==
  Vrr => (QuantumInv <=>
           /\ \A l \in Nombre : \A z \in Lugares[l] : z.quantum <= QUANTUM
           /\ \A l \in {"ready_plus", "bloqueado"} : \A z \in Lugares[l] : Alcanza(z)
           /\ pcp_pc # "recibe" => \A z \in EnEjecucion : Alcanza(z)
           /\ \A z \in EnEjecucion : z.quantum + consumido[z.pid] <= QUANTUM + cronometro
           /\ pcp_pc = "envia" => mano.pcb.quantum > 0)
  BY LugaresLema DEF QuantumInv

\* The same of the next state.
LEMMA QuantumVrrLuego ==
  (Vrr => (QuantumInv <=>
           /\ \A l \in Nombre : \A z \in Lugares[l] : z.quantum <= QUANTUM
           /\ \A l \in {"ready_plus", "bloqueado"} : \A z \in Lugares[l] : Alcanza(z)
           /\ pcp_pc # "recibe" => \A z \in EnEjecucion : Alcanza(z)
           /\ \A z \in EnEjecucion : z.quantum + consumido[z.pid] <= QUANTUM + cronometro
           /\ pcp_pc = "envia" => mano.pcb.quantum > 0))'
  BY QuantumVrr, PTL

\* What a move asks of the PCB that moves, for the places.
LEMMA QuantumMueve ==
  ASSUME DespachoInv, Vrr, NEW a, NEW x, NEW b, NEW y, Mueve(a, x, b, y), y.quantum <= QUANTUM,
         b \in {"ready_plus", "bloqueado"} => y.quantum + consumido'[y.pid] <= QUANTUM,
         \A p \in Pids : p # x.pid => consumido'[p] = consumido[p]
  PROVE  /\ \A l \in Nombre : \A z \in Lugares'[l] : z.quantum <= QUANTUM
         /\ \A l \in {"ready_plus", "bloqueado"} : \A z \in Lugares'[l] :
                z.quantum + consumido'[z.pid] <= QUANTUM
  <1>0. TypeOK /\ VueloInv /\ LugarInv /\ QuantumInv
    BY DEF DespachoInv
  <1>1. /\ a \in Nombre /\ b \in Nombre /\ x \in Lugares[a]
        /\ \A l \in Nombre : \A z \in Lugares'[l] :
               \/ z \in Lugares[l] /\ z # x
               \/ z = y /\ l = b
    BY DEF Mueve
  <1>2. ASSUME NEW l \in Nombre, NEW z \in Lugares[l], z # x
        PROVE  z.pid \in Pids /\ z.pid # x.pid /\ consumido'[z.pid] = consumido[z.pid]
    <2>1. z.pid \in Pids
      BY <1>0, LugarTipo, PcbLema
    <2>2. z.pid # x.pid
      BY <1>0, <1>1, <1>2, LugarAjeno
    <2> QED  BY <2>1, <2>2
  <1>3. ASSUME NEW l \in Nombre, NEW z \in Lugares'[l] PROVE z.quantum <= QUANTUM
    <2>1. CASE z \in Lugares[l]
      BY <1>0, <2>1, QuantumVrr
    <2>2. CASE z = y
      BY <2>2
    <2> QED  BY <1>1, <2>1, <2>2
  <1>4. ASSUME NEW l \in {"ready_plus", "bloqueado"}, NEW z \in Lugares'[l]
        PROVE  z.quantum + consumido'[z.pid] <= QUANTUM
    <2>0. l \in Nombre
      BY DEF Nombre
    <2>1. CASE z \in Lugares[l] /\ z # x
      <3>1. Alcanza(z) /\ consumido'[z.pid] = consumido[z.pid]
        BY <1>0, <1>2, <2>0, <2>1, QuantumVrr
      <3> QED  BY <3>1 DEF Alcanza
    <2>2. CASE z = y /\ l = b
      BY <2>2
    <2> QED  BY <1>1, <2>0, <2>1, <2>2
  <1> QED  BY <1>3, <1>4

\* A process keeps what is left of its quantum, and no more.
LEMMA QuantumPasoVrr ==
  ASSUME DespachoInv, TypeOK', VueloInv', [Next]_vars, Vrr
  PROVE  QuantumInv'
  <1>0. TypeOK /\ VueloInv /\ LugarInv /\ QuantumInv /\ Donde /\ Donde'
    BY VueloLema, VueloLuego DEF DespachoInv
  <1>t. /\ QUANTUM \in Nat /\ QUANTUM > 0 /\ cronometro \in 0..QUANTUM
        /\ consumido \in [Pids -> 0..QUANTUM]
    BY <1>0, DespachoOK DEF TypeOK
  <1>e. /\ \A z \in EnEjecucion : /\ z \in Pcb /\ z.pid \in Pids /\ z.quantum \in Int
                                  /\ z.quantum <= QUANTUM
                                  /\ z.quantum + consumido[z.pid] <= QUANTUM + cronometro
                                  /\ pcp_pc # "recibe" => z.quantum + consumido[z.pid] <= QUANTUM
        /\ pcp_pc = "envia" => mano.pcb.quantum > 0
    <2>1. \A z \in EnEjecucion : z \in Lugares["ejecucion"] /\ "ejecucion" \in Nombre
      BY LugaresLema DEF Nombre
    <2>2. \A z \in EnEjecucion : z \in Pcb
      BY <1>0, <2>1, LugarTipo
    <2>3. \A z \in EnEjecucion : z.quantum <= QUANTUM
      BY <1>0, <2>1, QuantumVrr
    <2>4. /\ \A z \in EnEjecucion : /\ z.quantum + consumido[z.pid] <= QUANTUM + cronometro
                                    /\ pcp_pc # "recibe" => Alcanza(z)
          /\ pcp_pc = "envia" => mano.pcb.quantum > 0
      BY <1>0, QuantumVrr
    <2> QED  BY <2>2, <2>3, <2>4, PcbLema DEF Alcanza
  \* What is left to show once the places are settled.
  <1>q. ASSUME \A l \in Nombre : \A z \in Lugares'[l] : z.quantum <= QUANTUM,
               \A l \in {"ready_plus", "bloqueado"} : \A z \in Lugares'[l] :
                   z.quantum + consumido'[z.pid] <= QUANTUM,
               \A z \in EnEjecucion' :
                   /\ z.quantum + consumido'[z.pid] <= QUANTUM + cronometro'
                   /\ pcp_pc' # "recibe" => z.quantum + consumido'[z.pid] <= QUANTUM,
               pcp_pc' = "envia" => mano'.pcb.quantum > 0
        PROVE  QuantumInv'
    BY <1>q, QuantumVrrLuego DEF Alcanza
  \* One PCB moves, and no time goes by.
  <1>m. ASSUME NEW a, NEW x, NEW b, NEW y, Mueve(a, x, b, y), UNCHANGED consumido,
               y.quantum <= QUANTUM,
               b \in {"ready_plus", "bloqueado"} => y.quantum + consumido[y.pid] <= QUANTUM,
               \A z \in EnEjecucion' :
                   /\ z.quantum + consumido[z.pid] <= QUANTUM + cronometro'
                   /\ pcp_pc' # "recibe" => z.quantum + consumido[z.pid] <= QUANTUM,
               pcp_pc' # "envia"
        PROVE  QuantumInv'
    <2>1. /\ \A l \in Nombre : \A z \in Lugares'[l] : z.quantum <= QUANTUM
          /\ \A l \in {"ready_plus", "bloqueado"} : \A z \in Lugares'[l] :
                z.quantum + consumido'[z.pid] <= QUANTUM
      BY <1>m, QuantumMueve
    <2> QED  BY <1>m, <1>q, <2>1
  \* None moves.
  <1>n. ASSUME UNCHANGED Lugares, UNCHANGED EnEjecucion, UNCHANGED <<consumido, cronometro>>,
               pcp_pc' # "recibe" => pcp_pc # "recibe",
               pcp_pc' = "envia" => pcp_pc = "envia" /\ UNCHANGED mano
        PROVE  QuantumInv'
    <2>1. /\ \A l \in Nombre : \A z \in Lugares'[l] : z.quantum <= QUANTUM
          /\ \A l \in {"ready_plus", "bloqueado"} : \A z \in Lugares'[l] :
                z.quantum + consumido'[z.pid] <= QUANTUM
      BY <1>0, <1>n, QuantumVrr DEF Alcanza
    <2> QED  BY <1>e, <1>n, <1>q, <2>1
  <1>1. ASSUME NEW plus \in BOOLEAN, PcpPrepara(plus) PROVE QuantumInv'
    <2> DEFINE x == Head(IF plus THEN cola_ready_plus ELSE cola_ready)
               y == [x EXCEPT !.quantum = Quantum(x, plus)]
               a == IF plus THEN "ready_plus" ELSE "ready"
    <2>1. /\ x \in Pcb /\ Quantum(x, plus) \in 1..QUANTUM /\ x \in Lugares[a]
          /\ plus /\ x.quantum > 0 => Quantum(x, plus) = x.quantum
      BY <1>1, QuantumLema
    <2>2. y.pid = x.pid /\ y.quantum = Quantum(x, plus) /\ x.pid \in Pids /\ y.quantum \in 1..QUANTUM
      BY <2>1, ConQuantum, PcbLema
    <2>3. mano' = [pcb |-> y, motivo |-> "-"] /\ EnEjecucion' = {y} /\ Mueve(a, x, "ejecucion", y)
      BY <1>1, MuevePrepara
    <2>4. CrearReloj(x, plus) /\ pcp_pc' = "envia"
      BY <1>1 DEF PcpPrepara, ConReloj, Vrr
    <2>5. plus => x.quantum + consumido[x.pid] <= QUANTUM
      <3>1. plus => Alcanza(x)
        BY <1>0, <2>1, QuantumVrr
      <3> QED  BY <3>1 DEF Alcanza
    <2> HIDE DEF x, y, a
    <2>6. /\ cronometro' = 0
          /\ consumido' = [consumido EXCEPT ![x.pid] = IF plus /\ x.quantum > 0 THEN @ ELSE 0]
      BY <2>4 DEF CrearReloj
    <2>7. /\ \A p \in Pids : p # x.pid => consumido'[p] = consumido[p]
          /\ plus /\ x.quantum > 0 => consumido'[x.pid] = consumido[x.pid]
          /\ ~(plus /\ x.quantum > 0) => consumido'[x.pid] = 0
      BY <1>t, <2>2, <2>6
    <2>8. y.quantum + consumido'[y.pid] <= QUANTUM
      <3>1. CASE plus /\ x.quantum > 0
        BY <2>1, <2>2, <2>5, <2>7, <3>1
      <3>2. CASE ~(plus /\ x.quantum > 0)
        BY <1>t, <2>2, <2>7, <3>2
      <3> QED  BY <3>1, <3>2
    <2>9. /\ \A l \in Nombre : \A z \in Lugares'[l] : z.quantum <= QUANTUM
          /\ \A l \in {"ready_plus", "bloqueado"} : \A z \in Lugares'[l] :
                z.quantum + consumido'[z.pid] <= QUANTUM
      BY <1>t, <2>2, <2>3, <2>7, QuantumMueve
    <2>10. QUANTUM + cronometro' = QUANTUM /\ mano'.pcb.quantum > 0
      BY <1>t, <2>2, <2>3, <2>6
    <2> QED  BY <1>q, <2>3, <2>8, <2>9, <2>10
  <1>2. CASE PcpRecibe
    <2> DEFINE x == Head(dispatch_kernel).pcb
               y == Descontado(x)
    <2>1. EnEjecucion = {x} /\ EnEjecucion' = {y} /\ Mueve("ejecucion", x, "ejecucion", y)
      BY <1>2, MueveRecibe
    <2>2. /\ x \in Pcb /\ x.pid \in Pids /\ x.quantum \in Int /\ x.quantum <= QUANTUM
          /\ x.quantum + consumido[x.pid] <= QUANTUM + cronometro
      BY <1>e, <2>1
    <2>3. y.quantum = x.quantum - cronometro /\ y.pid = x.pid
      BY <1>0, <2>2, DescontadoLema
    <2> HIDE DEF x, y
    <2>4. y.quantum <= QUANTUM /\ y.quantum + consumido[y.pid] <= QUANTUM
      BY <1>t, <2>2, <2>3
    <2>5. y.quantum + consumido[y.pid] <= QUANTUM + cronometro
      BY <1>t, <2>2, <2>3, <2>4
    <2>6. UNCHANGED <<cronometro, consumido>> /\ pcp_pc' = "cancela"
      BY <1>2 DEF PcpRecibe, tiempo
    <2> QED  BY <1>m, <2>1, <2>4, <2>5, <2>6
  <1>3. CASE manejar_fin_quantum \/ Eliminar \/ Bloquear
    <2>1. PICK b : Mueve("ejecucion", mano.pcb, b, mano.pcb)
      BY <1>3, MueveManeja
    <2>2. EnEjecucion = {mano.pcb} /\ EnEjecucion' = {} /\ pcp_pc = "maneja" /\ pcp_pc' = "planifica"
          /\ UNCHANGED consumido
      BY <1>0, <1>3 DEF manejar_fin_quantum, Eliminar, Bloquear, Maneja, Donde, tiempo
    <2>3. mano.pcb.quantum <= QUANTUM /\ mano.pcb.quantum + consumido[mano.pcb.pid] <= QUANTUM
      BY <1>e, <2>2
    <2> QED  BY <1>m, <2>1, <2>2, <2>3
  <1>4. CASE Desbloquear
    <2>1. PICK b \in bloqueados :
             /\ bloqueados' = bloqueados \ {b}
             /\ \/ /\ cola_ready_plus' = squeue_push(cola_ready_plus, b.pcb)
                   /\ UNCHANGED cola_ready
                \/ cola_ready' = squeue_push(cola_ready, b.pcb) /\ UNCHANGED cola_ready_plus
      BY <1>4 DEF Desbloquear
    <2>2. UNCHANGED <<salida, pcp_pc, mano, cronometro, consumido, EnEjecucion>>
      BY <1>4 DEF Desbloquear, EnEjecucion, red, cpu, tiempo
    <2>3. PICK l : Mueve("bloqueado", b.pcb, l, b.pcb)
      BY <2>1, <2>2, MueveDesbloquear
    <2>4. b.pcb \in Lugares["bloqueado"] /\ "bloqueado" \in Nombre
      BY LugaresLema DEF Nombre
    <2>5. b.pcb.quantum <= QUANTUM /\ b.pcb.quantum + consumido[b.pcb.pid] <= QUANTUM
      BY <1>0, <2>4, QuantumVrr DEF Alcanza
    <2>6. /\ \A l_ \in Nombre : \A z \in Lugares'[l_] : z.quantum <= QUANTUM
          /\ \A l_ \in {"ready_plus", "bloqueado"} : \A z \in Lugares'[l_] :
                z.quantum + consumido'[z.pid] <= QUANTUM
      BY <2>2, <2>3, <2>5, QuantumMueve
    <2> QED  BY <1>e, <1>q, <2>2, <2>6
  <1>5. CASE \/ EjecutaCalculo \/ exec_jnz \/ EjecutaResize \/ EjecutaPedido \/ EjecutaFin
             \/ (check_interrupt /\ pcb # Nada)
    <2>1. /\ pcb # Nada /\ pcb \in Pcb /\ pcp_pc = "recibe"
          /\ UNCHANGED <<pcp_pc, cronometro, consumido>>
      BY <1>0, <1>5 DEF EjecutaCalculo, exec_jnz, EjecutaResize, EjecutaPedido, EjecutaFin, Ejecuta,
                        check_interrupt, kernel, tiempo, Donde
    <2>2. PICK y : /\ Mueve("ejecucion", pcb, "ejecucion", y)
                   /\ EnEjecucion = {pcb} /\ EnEjecucion' = {y} /\ y.quantum = pcb.quantum
      <3>1. CASE EjecutaCalculo
        <4>1. pcb'.quantum = pcb.quantum
          BY <1>0, <3>1, CalculoLema DEF EjecutaCalculo
        <4> QED  BY <3>1, <4>1, MueveCpuPasos
      <3>2. CASE exec_jnz
        BY <1>0, <3>2, JnzLema, MueveCpuPasos
      <3>3. CASE EjecutaResize \/ EjecutaPedido
        BY <2>1, <3>3, AvanzadoLema, MueveCpuPasos
      <3>4. CASE EjecutaFin \/ (check_interrupt /\ pcb # Nada)
        BY <3>4, MueveCpuPasos
      <3> QED  BY <1>5, <3>1, <3>2, <3>3, <3>4
    <2>3. y.pid = pcb.pid
      BY <2>2 DEF Mueve
    <2>4. /\ pcb.quantum <= QUANTUM
          /\ pcb.quantum + consumido[pcb.pid] <= QUANTUM + cronometro
      BY <1>e, <2>2
    <2> QED  BY <1>m, <2>1, <2>2, <2>3, <2>4
  <1>6. CASE \/ PcpEnvia \/ PcpCancela \/ DevolverEjecucion \/ CpuRecibe
    <2>1. UNCHANGED <<cola_ready, cola_ready_plus, bloqueados, salida, EnEjecucion>>
      BY <1>6, QuietoLema
    <2>2. UNCHANGED Lugares
      BY <2>1 DEF Lugares
    <2>3. UNCHANGED <<cronometro, consumido>> /\ pcp_pc' # "envia"
      BY <1>0, <1>6 DEF PcpEnvia, PcpCancela, DevolverEjecucion, Maneja, CpuRecibe, tiempo, kernel, Donde
    <2>4. pcp_pc' # "recibe" => pcp_pc # "recibe"
      BY <1>0, <1>6 DEF PcpEnvia, PcpCancela, DevolverEjecucion, Maneja, CpuRecibe, kernel
    <2> QED  BY <1>n, <2>1, <2>2, <2>3, <2>4
  <1>7. CASE \/ Pausa \/ ConVe \/ ConInterrumpe \/ FetchPasado \/ EjecutaDesborde \/ servidor_interrupt
             \/ (check_interrupt /\ pcb = Nada) \/ UNCHANGED vars
             \/ \E r \in Reloj : RelojDespierta(r) \/ RelojEnvia(r) \/ RelojTermina(r)
    <2>1. UNCHANGED <<cola_ready, cola_ready_plus, bloqueados, salida, EnEjecucion, mano>>
      BY <1>7, QuietoLema, AjenoLema
    <2>2. UNCHANGED Lugares
      BY <2>1 DEF Lugares
    <2>3. UNCHANGED <<cronometro, consumido, pcp_pc>>
      BY <1>7 DEF Pausa, pausar_planificacion, reanudar_planificacion, ConVe, ConInterrumpe,
                  FetchPasado, EjecutaDesborde, Ejecuta, servidor_interrupt,
                  check_interrupt, vars, RelojDespierta, RelojEnvia, RelojTermina, tiempo, kernel
    <2> QED  BY <1>n, <2>1, <2>2, <2>3
  <1>8. CASE Tick
    <2>1. UNCHANGED <<cola_ready, cola_ready_plus, bloqueados, salida, EnEjecucion, mano>>
      BY <1>8, QuietoLema, AjenoLema
    <2>2. UNCHANGED Lugares /\ UNCHANGED pcp_pc
      BY <1>8, <2>1 DEF Lugares, Tick, kernel
    <2>3. cronometro' = Topado(cronometro + 1)
      BY <1>8 DEF Tick
    <2>4. cronometro' >= cronometro /\ cronometro' \in 0..QUANTUM
          /\ (cronometro' = cronometro + 1 \/ cronometro' = QUANTUM)
      BY <1>t, <2>3 DEF Topado
    <2>5. CASE pcb = Nada
      <3>1. UNCHANGED consumido
        BY <1>8, <2>5 DEF Tick
      <3>2. \A z \in EnEjecucion : z.quantum + consumido[z.pid] <= QUANTUM + cronometro'
        <4> SUFFICES ASSUME NEW z \in EnEjecucion
                     PROVE  z.quantum + consumido[z.pid] <= QUANTUM + cronometro'
          OBVIOUS
        <4>1. PICK n \in Int : n = z.quantum + consumido[z.pid]
          BY <1>e, <1>t
        <4>2. n <= QUANTUM + cronometro
          BY <1>e, <4>1
        <4>3. n <= QUANTUM + cronometro'
          BY <1>t, <2>4, <4>1, <4>2
        <4> QED  BY <4>1, <4>3
      <3>3. /\ \A l \in Nombre : \A z \in Lugares'[l] : z.quantum <= QUANTUM
            /\ \A l \in {"ready_plus", "bloqueado"} : \A z \in Lugares'[l] :
                  z.quantum + consumido'[z.pid] <= QUANTUM
        BY <1>0, <2>2, <3>1, QuantumVrr DEF Alcanza
      <3> QED  BY <1>e, <1>q, <2>1, <2>2, <3>1, <3>2, <3>3
    <2>6. CASE pcb # Nada
      <3>1. pcp_pc = "recibe" /\ EnEjecucion = {pcb}
        BY <1>0, <2>6 DEF Donde
      <3>2. /\ pcb \in Pcb /\ pcb.pid \in Pids /\ pcb.quantum \in Int /\ pcb.quantum <= QUANTUM
            /\ pcb.quantum + consumido[pcb.pid] <= QUANTUM + cronometro
        BY <1>e, <3>1
      <3>3. consumido' = [consumido EXCEPT ![pcb.pid] = Topado(consumido[pcb.pid] + 1)]
        BY <1>8, <2>6 DEF Tick
      <3>4. PICK c, d \in Int : c = consumido[pcb.pid] /\ d = consumido'[pcb.pid]
        BY <1>t, <3>2, <3>3 DEF Topado
      <3>5. c \in 0..QUANTUM /\ d <= c + 1 /\ d <= QUANTUM
        BY <1>t, <3>2, <3>3, <3>4 DEF Topado
      <3>6. PICK q \in Int : q = pcb.quantum
        BY <3>2
      <3>7. q <= QUANTUM /\ q + c <= QUANTUM + cronometro
        BY <3>2, <3>4, <3>6
      <3>8. q + d <= QUANTUM + cronometro'
        <4>1. CASE cronometro' = cronometro + 1
          BY <1>t, <3>5, <3>7, <4>1
        <4>2. CASE cronometro' = QUANTUM
          BY <1>t, <3>5, <3>7, <4>2
        <4> QED  BY <2>4, <4>1, <4>2
      <3>9. pcb.quantum + consumido'[pcb.pid] <= QUANTUM + cronometro'
        BY <3>4, <3>6, <3>8
      <3>10. Mueve("ejecucion", pcb, "ejecucion", pcb)
        BY <2>1, <3>1, <3>2, EnEjecucionLema
      <3>11. \A p \in Pids : p # pcb.pid => consumido'[p] = consumido[p]
        BY <1>t, <3>3
      <3>12. /\ \A l \in Nombre : \A z \in Lugares'[l] : z.quantum <= QUANTUM
             /\ \A l \in {"ready_plus", "bloqueado"} : \A z \in Lugares'[l] :
                   z.quantum + consumido'[z.pid] <= QUANTUM
        BY <3>2, <3>10, <3>11, QuantumMueve
      <3> QED  BY <1>q, <2>1, <2>2, <3>1, <3>9, <3>12
    <2> QED  BY <2>5, <2>6
  <1> QED  BY Transiciones, <1>1, <1>2, <1>3, <1>4, <1>5, <1>6, <1>7, <1>8

\* Without VRR a process always has the whole quantum.
LEMMA QuantumPasoOtro ==
  ASSUME DespachoInv, TypeOK', VueloInv', [Next]_vars, ~Vrr
  PROVE  QuantumInv'
  <1>0. /\ TypeOK /\ VueloInv /\ LugarInv /\ cola_ready_plus = <<>>
        /\ \A l \in Nombre : \A x \in Lugares[l] : x.quantum = QUANTUM
    BY LugaresLema DEF DespachoInv, QuantumInv
  <1>a. ASSUME cola_ready_plus' = <<>>, \A l \in Nombre : \A x \in Lugares'[l] : x.quantum = QUANTUM
        PROVE  QuantumInv'
    BY <1>a, LugaresLuego DEF QuantumInv
  <1>m. ASSUME UNCHANGED cola_ready_plus, NEW a, NEW x, NEW b, NEW y, Mueve(a, x, b, y),
               y.quantum = x.quantum
        PROVE  QuantumInv'
    <2>1. y.quantum = QUANTUM
      BY <1>0, <1>m DEF Mueve
    <2> QED  BY <1>0, <1>a, <1>m, <2>1 DEF Mueve
  <1>1. ASSUME NEW plus \in BOOLEAN, PcpPrepara(plus) PROVE QuantumInv'
    <2> DEFINE x == Head(IF plus THEN cola_ready_plus ELSE cola_ready)
               y == [x EXCEPT !.quantum = Quantum(x, plus)]
               a == IF plus THEN "ready_plus" ELSE "ready"
    <2>1. ~plus /\ UNCHANGED cola_ready_plus
      BY <1>0, <1>1 DEF PcpPrepara
    <2>2. Mueve(a, x, "ejecucion", y)
      BY <1>1, MuevePrepara
    <2>3. y.quantum = x.quantum
      <3>1. x \in Pcb /\ x.quantum \in Int
        BY <1>1, QuantumLema, PcbLema
      <3>2. Quantum(x, plus) = x.quantum
        BY DEF Quantum
      <3> QED  BY <3>1, <3>2, ConQuantum
    <2> QED  BY <1>m, <2>1, <2>2, <2>3
  <1>2. CASE PcpRecibe
    <2> DEFINE x == Head(dispatch_kernel).pcb
    <2>1. Mueve("ejecucion", x, "ejecucion", Descontado(x))
      BY <1>2, MueveRecibe
    <2>2. Descontado(x).quantum = x.quantum
      BY DEF Descontado
    <2> QED  BY <1>2, <1>m, <2>1, <2>2 DEF PcpRecibe
  <1>3. CASE manejar_fin_quantum \/ Eliminar \/ Bloquear
    <2>1. PICK b : Mueve("ejecucion", mano.pcb, b, mano.pcb)
      BY <1>3, MueveManeja
    <2> QED  BY <1>3, <1>m, <2>1 DEF manejar_fin_quantum, Eliminar, Bloquear
  <1>4. CASE Desbloquear
    <2>1. PICK b \in bloqueados : /\ bloqueados' = bloqueados \ {b}
                                  /\ cola_ready' = squeue_push(cola_ready, b.pcb)
                                  /\ UNCHANGED cola_ready_plus
      BY <1>4 DEF Desbloquear
    <2>2. UNCHANGED <<salida, EnEjecucion>>
      BY <1>4 DEF Desbloquear, EnEjecucion, red, cpu
    <2>3. PICK l : Mueve("bloqueado", b.pcb, l, b.pcb)
      BY <2>1, <2>2, MueveDesbloquear
    <2> QED  BY <1>m, <2>1, <2>3
  <1>5. CASE \/ EjecutaCalculo \/ exec_jnz \/ EjecutaResize \/ EjecutaPedido \/ EjecutaFin
             \/ (check_interrupt /\ pcb # Nada)
    <2>1. pcb # Nada /\ pcb \in Pcb /\ UNCHANGED cola_ready_plus
      BY <1>0, <1>5 DEF EjecutaCalculo, exec_jnz, EjecutaResize, EjecutaPedido, EjecutaFin, Ejecuta,
                        check_interrupt, kernel, TypeOK
    <2>2. PICK y : Mueve("ejecucion", pcb, "ejecucion", y) /\ y.quantum = pcb.quantum
      <3>1. CASE EjecutaCalculo
        <4>1. pcb'.quantum = pcb.quantum
          BY <1>0, <3>1, CalculoLema DEF EjecutaCalculo
        <4> QED  BY <3>1, <4>1, MueveCpuPasos
      <3>2. CASE exec_jnz
        BY <1>0, <3>2, JnzLema, MueveCpuPasos
      <3>3. CASE EjecutaResize \/ EjecutaPedido
        BY <2>1, <3>3, AvanzadoLema, MueveCpuPasos
      <3>4. CASE EjecutaFin \/ (check_interrupt /\ pcb # Nada)
        BY <3>4, MueveCpuPasos
      <3> QED  BY <1>5, <3>1, <3>2, <3>3, <3>4
    <2> QED  BY <1>m, <2>1, <2>2
  <1>6. CASE \/ PcpEnvia \/ PcpCancela \/ DevolverEjecucion \/ CpuRecibe
             \/ Pausa \/ ConVe \/ ConInterrumpe \/ FetchPasado \/ EjecutaDesborde \/ servidor_interrupt
             \/ Tick \/ (check_interrupt /\ pcb = Nada) \/ UNCHANGED vars
             \/ \E r \in Reloj : RelojDespierta(r) \/ RelojEnvia(r) \/ RelojTermina(r)
    <2>1. UNCHANGED <<cola_ready, cola_ready_plus, bloqueados, salida, EnEjecucion>>
      BY <1>6, QuietoLema, AjenoLema
    <2>2. UNCHANGED Lugares
      BY <2>1 DEF Lugares
    <2> QED  BY <1>0, <1>a, <2>1, <2>2
  <1> QED  BY Transiciones, <1>1, <1>2, <1>3, <1>4, <1>5, <1>6

-----------------------------------------------------------------------------
(* The invariant                                                            *)

\* The invariant holds when the system starts...
LEMMA DespachoInit ==
  ASSUME Init
  PROVE  DespachoInv
  <1> USE DEF Init
  <1>0. /\ MaxProcesos \in Nat /\ QUANTUM \in Nat /\ QUANTUM > 0 /\ UINT8_MAX \in Nat
        /\ UINT32_MAX \in Nat /\ MaxRelojes \in Nat /\ MaxRelojes > 0
    BY DespachoOK
  <1>1. /\ \A p \in Pids : /\ Nuevo(p) \in Pcb /\ Nuevo(p).pid = p
                           /\ Nuevo(p).quantum = QUANTUM
    BY <1>0 DEF Nuevo, Pcb
  <1>2. /\ cola_ready \in Seq(Pcb) /\ DOMAIN cola_ready = Pids
        /\ \A k \in Pids : cola_ready[k] = Nuevo(k)
    <2>1. \A k \in 1..MaxProcesos : cola_ready[k] \in Pcb
      BY <1>1 DEF Pids
    <2>2. cola_ready = [k \in 1..MaxProcesos |-> cola_ready[k]]
      BY DEF Pids
    <2> QED  BY <1>0, <2>1, <2>2, IsASeq
  <1>3. Range(cola_ready) = {Nuevo(p) : p \in Pids} /\ Range(<<>>) = {}
    BY <1>2, VacioLema DEF Range
  <1>4. TypeOK
    <2>1. Liberado \in Parametros
      BY <1>0 DEF Liberado, Parametros
    <2>2. 1 \in Reloj
      BY <1>0 DEF Reloj
    <2>3. relojes \in [Reloj -> Parametros] /\ pedidos \in [Pids -> Seq(Pedido)]
      BY <2>1
    <2>4. consumido \in [Pids -> 0..QUANTUM] /\ cronometro \in 0..QUANTUM
      BY <1>0
    <2> QED  BY <1>2, <2>2, <2>3, <2>4, VacioLema DEF TypeOK
  <1>5. VueloInv
    BY VacioLema DEF VueloInv
  <1>6. EnEjecucion = {}
    BY <1>3 DEF EnEjecucion
  <1>7. /\ \A l \in Nombre : Lugares[l] = IF l = "ready" THEN {Nuevo(p) : p \in Pids} ELSE {}
        /\ DOMAIN Lugares = Nombre
    BY <1>3, <1>6, LugaresLema DEF Nombre
  <1>8. LugarInv
    <2>1. IsInjective(cola_ready) /\ IsInjective(cola_ready_plus)
      <3>1. IsInjective(cola_ready)
        BY <1>1, <1>2 DEF IsInjective
      <3>2. IsInjective(<<>>)
        BY DEF IsInjective
      <3> QED  BY <3>1, <3>2
    <2>2. Unicos(Lugares)
      BY <1>1, <1>7 DEF Unicos
    <2>3. Todos(Lugares)
      <3>1. "ready" \in DOMAIN Lugares /\ Lugares["ready"] = {Nuevo(p) : p \in Pids}
        BY <1>7 DEF Nombre
      <3> QED  BY <1>1, <3>1 DEF Todos
    <2> QED  BY <2>1, <2>2, <2>3 DEF LugarInv
  <1>9. RelojInv
    BY DEF RelojInv, Liberado
  <1>10. QuantumInv
    <2>1. \A l \in Nombre : \A x \in Lugares[l] : x.quantum = QUANTUM
      BY <1>1, <1>7
    <2>2. Lugares["ready_plus"] = {} /\ Lugares["bloqueado"] = {}
      BY <1>7 DEF Nombre
    <2> QED  BY <1>0, <1>6, <1>7, <2>1, <2>2 DEF QuantumInv
  <1>11. InterrupcionInv
    BY <1>3 DEF InterrupcionInv, Nombrados
  <1>12. PedidosInv
    BY DEF PedidosInv
  <1> QED  BY <1>4, <1>5, <1>8, <1>9, <1>10, <1>11, <1>12 DEF DespachoInv

\* ...and every step keeps it.
LEMMA DespachoPaso ==
  ASSUME DespachoInv, [Next]_vars
  PROVE  DespachoInv'
  <1>1. TypeOK' /\ VueloInv'
    BY TipoPaso, VueloPaso
  <1>2. LugarInv' /\ RelojInv' /\ InterrupcionInv' /\ PedidosInv'
    BY <1>1, LugarPaso, RelojPaso, InterrupcionPaso, PedidosPaso
  <1>3. QuantumInv'
    BY <1>1, QuantumPasoVrr, QuantumPasoOtro
  <1> QED  BY <1>1, <1>2, <1>3 DEF DespachoInv

\* The dispatch, planificador_corto_plazo.c and cpu/src/main.c: every PCB is in one place, a
\* clock that can be cancelled is there, the quantum of VRR is what is left of it, and who asked
\* for its end and was answered is gone.
THEOREM DespachoSiempre == Spec => []DespachoInv
  <1>1. Init => DespachoInv
    BY DespachoInit
  <1>2. DespachoInv /\ [Next]_vars => DespachoInv'
    BY DespachoPaso
  <1> QED  BY <1>1, <1>2, PTL DEF Spec

\* planificador_corto_plazo.c:137: when the planner cancels a clock its parameters are not freed.
THEOREM CancelarSinSegfaultSiempre == Spec => []CancelarSinSegfault
  <1>1. DespachoInv => CancelarSinSegfault
    BY DEF DespachoInv, RelojInv, CancelarSinSegfault, DebeCancelar
  <1> QED  BY <1>1, DespachoSiempre, PTL

\* planificador_corto_plazo.c:93-98 and :129: no process is dispatched without quantum, and one
\* that comes back from an interface has no more than what it left unused.
THEOREM QuantumRestanteSiempre == Spec => []QuantumRestante
  <1>1. ASSUME DespachoInv PROVE QuantumRestante
    <2>0. TypeOK /\ VueloInv /\ QuantumInv /\ Donde
      BY <1>1, VueloLema DEF DespachoInv
    <2>1. ASSUME pcp_pc = "envia"
          PROVE  mano.pcb \in Lugares["ejecucion"] /\ mano.pcb.quantum \in Int
                 /\ "ejecucion" \in Nombre /\ EnEjecucion = {mano.pcb}
      <3>1. EnEjecucion = {mano.pcb} /\ mano.pcb \in Pcb
        BY <2>0, <2>1 DEF Donde
      <3> QED  BY <3>1, LugaresLema, PcbLema DEF Nombre
    <2>2. QUANTUM \in Nat /\ QUANTUM > 0
      BY DespachoOK
    <2>3. CASE Vrr
      <3>1. pcp_pc = "envia" => mano.pcb.quantum \in 1..QUANTUM
        BY <2>0, <2>1, <2>2, <2>3, QuantumVrr
      <3>2. \A x \in Range(cola_ready_plus) \cup {b.pcb : b \in bloqueados}
                     \cup (IF pcp_pc = "envia" THEN {mano.pcb} ELSE {}) : Alcanza(x)
        BY <2>0, <2>1, <2>3, QuantumVrr, LugaresLema
      <3> QED  BY <3>1, <3>2 DEF QuantumRestante, Alcanza
    <2>4. CASE ~Vrr
      <3>1. pcp_pc = "envia" => mano.pcb.quantum = QUANTUM
        BY <2>0, <2>1, <2>4, LugaresLema DEF QuantumInv
      <3> QED  BY <2>2, <2>4, <3>1 DEF QuantumRestante
    <2> QED  BY <2>3, <2>4
  <1> QED  BY <1>1, DespachoSiempre, PTL

\* consola.c:133: a process that ends by interruption was named by the operator.
THEOREM InterrupcionAlSuyoSiempre == Spec => []InterrupcionAlSuyo
  <1>1. ASSUME DespachoInv PROVE InterrupcionAlSuyo
    <2>1. pcp_pc = "maneja" => mano # Nada
      BY <1>1 DEF DespachoInv, VueloInv
    <2> QED  BY <1>1, <2>1 DEF DespachoInv, InterrupcionInv, InterrupcionAlSuyo
  <1> QED  BY <1>1, DespachoSiempre, PTL

-----------------------------------------------------------------------------
(* Despacho implements Programa                                             *)

\* The PCB of a process is the one there is.
LEMMA PcbDeLema ==
  TypeOK /\ VueloInv /\ LugarInv =>
     /\ \A l \in Nombre : \A x \in Lugares[l] : PcbDe(x.pid) = x
     /\ \A p \in Pids : \E l \in Nombre : \E x \in Lugares[l] : x.pid = p
  <1> SUFFICES ASSUME TypeOK, VueloInv, LugarInv
               PROVE  /\ \A l \in Nombre : \A x \in Lugares[l] : PcbDe(x.pid) = x
                      /\ \A p \in Pids : \E l \in Nombre : \E x \in Lugares[l] : x.pid = p
    OBVIOUS
  <1>1. \A z : z \in Pcbs <=> \E l \in Nombre : z \in Lugares[l]
    BY LugaresLema DEF Pcbs, Nombre
  <1>2. ASSUME NEW l \in Nombre, NEW x \in Lugares[l] PROVE PcbDe(x.pid) = x
    <2>1. x \in Pcbs
      BY <1>1
    <2>2. \A z \in Pcbs : z.pid = x.pid => z = x
      BY <1>1, LugarAjeno
    <2> QED  BY <2>1, <2>2 DEF PcbDe
  <1>3. \A p \in Pids : \E l \in Nombre : \E x \in Lugares[l] : x.pid = p
    BY LugaresLema DEF LugarInv, Todos
  <1> QED  BY <1>2, <1>3

\* The same of the next state.
LEMMA PcbDeLuego ==
  (TypeOK /\ VueloInv /\ LugarInv =>
     /\ \A l \in Nombre : \A x \in Lugares[l] : PcbDe(x.pid) = x
     /\ \A p \in Pids : \E l \in Nombre : \E x \in Lugares[l] : x.pid = p)'
  BY PcbDeLema, PTL

\* What is seen of a process whose PCB moves.
LEMMA VistaMueve ==
  ASSUME DespachoInv, DespachoInv', NEW a, NEW x, NEW b, NEW y, Mueve(a, x, b, y)
  PROVE  /\ x.pid \in Pids /\ ContadorDe[x.pid] = x.program_counter
         /\ RegistrosDe[x.pid] = x.registros
         /\ ContadorDe' = [ContadorDe EXCEPT ![x.pid] = y.program_counter]
         /\ RegistrosDe' = [RegistrosDe EXCEPT ![x.pid] = y.registros]
  <1>0. /\ TypeOK /\ VueloInv /\ LugarInv /\ TypeOK' /\ VueloInv' /\ LugarInv'
    BY DEF DespachoInv
  <1>1. /\ a \in Nombre /\ b \in Nombre /\ x \in Lugares[a] /\ y.pid = x.pid
        /\ \A l \in Nombre : Lugares'[l] = (Lugares[l] \ {x}) \cup (IF l = b THEN {y} ELSE {})
    BY DEF Mueve
  <1>2. x.pid \in Pids
    BY <1>0, <1>1, LugarTipo, PcbLema
  <1>3. PcbDe(x.pid) = x
    BY <1>0, <1>1, PcbDeLema
  <1>4. PcbDe(x.pid)' = y
    <2>1. y \in Lugares'[b]
      BY <1>1
    <2>2. \A z \in Lugares'[b] : (CHOOSE w \in Pcbs' : w.pid = z.pid) = z
      BY <1>0, <1>1, PcbDeLuego DEF PcbDe
    <2> QED  BY <1>1, <2>1, <2>2 DEF PcbDe
  <1>5. ASSUME NEW p \in Pids, p # x.pid PROVE PcbDe(p)' = PcbDe(p)
    <2>1. PICK l \in Nombre : \E z \in Lugares[l] : z.pid = p
      BY <1>0, PcbDeLema
    <2>2. PICK z \in Lugares[l] : z.pid = p
      BY <2>1
    <2>3. PcbDe(p) = z
      BY <1>0, <2>2, PcbDeLema
    <2>4. z \in Lugares'[l]
      BY <1>1, <1>5, <2>2
    <2>5. \A w \in Lugares'[l] : (CHOOSE v \in Pcbs' : v.pid = w.pid) = w
      BY <1>0, PcbDeLuego DEF PcbDe
    <2>6. PcbDe(p)' = z
      BY <2>2, <2>4, <2>5 DEF PcbDe
    <2> QED  BY <2>3, <2>6
  <1>6. /\ \A p \in Pids : ContadorDe[p] = PcbDe(p).program_counter
        /\ \A p \in Pids : RegistrosDe[p] = PcbDe(p).registros
    BY DEF ContadorDe, RegistrosDe
  <1>7. ContadorDe' = [ContadorDe EXCEPT ![x.pid] = y.program_counter]
    BY <1>2, <1>4, <1>5 DEF ContadorDe
  <1>8. RegistrosDe' = [RegistrosDe EXCEPT ![x.pid] = y.registros]
    BY <1>2, <1>4, <1>5 DEF RegistrosDe
  <1> QED  BY <1>2, <1>3, <1>6, <1>7, <1>8

\* What a process has asked for, by what is on its way.
LEMMA PedidosVista ==
  TypeOK => /\ EnViaje = {} => PedidosDe = pedidos
            /\ \A m \in Devuelto : EnViaje = {m} =>
                   PedidosDe = [pedidos EXCEPT ![m.pcb.pid] = Append(@, m.motivo)]
  <1> SUFFICES ASSUME TypeOK
               PROVE  /\ EnViaje = {} => PedidosDe = pedidos
                      /\ \A m \in Devuelto : EnViaje = {m} =>
                             PedidosDe = [pedidos EXCEPT ![m.pcb.pid] = Append(@, m.motivo)]
    OBVIOUS
  <1>1. pedidos \in [Pids -> Seq(Pedido)]
    BY DEF TypeOK
  <1>2. ASSUME NEW m \in Devuelto, EnViaje = {m}
        PROVE  PedidosDe = [pedidos EXCEPT ![m.pcb.pid] = Append(@, m.motivo)]
    <2>1. m.pcb.pid \in Pids
      BY PcbLema DEF Devuelto
    <2>2. \A p \in Pids : (\E n \in EnViaje : n.pcb.pid = p) <=> p = m.pcb.pid
      BY <1>2
    <2>3. (CHOOSE n \in EnViaje : n.pcb.pid = m.pcb.pid) = m
      BY <1>2
    <2>4. /\ DOMAIN PedidosDe = Pids
          /\ PedidosDe = [p \in Pids |-> PedidosDe[p]]
      BY DEF PedidosDe
    <2>5. ASSUME NEW p \in Pids, p # m.pcb.pid PROVE PedidosDe[p] = pedidos[p]
      BY <2>2, <2>5 DEF PedidosDe
    <2>6. PedidosDe[m.pcb.pid] = Append(pedidos[m.pcb.pid], m.motivo)
      BY <2>1, <2>2, <2>3 DEF PedidosDe
    <2> QED  BY <1>1, <2>1, <2>4, <2>5, <2>6
  <1>3. EnViaje = {} => PedidosDe = pedidos
    BY <1>1 DEF PedidosDe
  <1> QED  BY <1>2, <1>3

\* The same of the next state.
LEMMA PedidosVistaLuego ==
  (TypeOK => /\ EnViaje = {} => PedidosDe = pedidos
             /\ \A m \in Devuelto : EnViaje = {m} =>
                    PedidosDe = [pedidos EXCEPT ![m.pcb.pid] = Append(@, m.motivo)])'
  BY PedidosVista, PTL

\* What is on its way, by where the PCB in execution is.
LEMMA ViajeLema ==
  TypeOK /\ VueloInv =>
     /\ mano # Nada => EnViaje = IF mano.motivo \in Pedido THEN {mano} ELSE {}
     /\ dispatch_kernel # <<>> => EnViaje = IF Head(dispatch_kernel).motivo \in Pedido
                                            THEN {Head(dispatch_kernel)} ELSE {}
     /\ mano = Nada /\ dispatch_kernel = <<>> => EnViaje = {}
  <1> SUFFICES ASSUME TypeOK, VueloInv
               PROVE  /\ mano # Nada => EnViaje = IF mano.motivo \in Pedido THEN {mano} ELSE {}
                      /\ dispatch_kernel # <<>> => EnViaje = IF Head(dispatch_kernel).motivo \in Pedido
                                                             THEN {Head(dispatch_kernel)} ELSE {}
                      /\ mano = Nada /\ dispatch_kernel = <<>> => EnViaje = {}
    OBVIOUS
  <1>1. Donde
    BY VueloLema
  <1>2. CASE mano # Nada
    <2>1. dispatch_kernel = <<>>
      BY <1>1, <1>2 DEF VueloInv, Donde
    <2> QED  BY <1>2, <2>1, VacioLema DEF EnViaje
  <1>3. CASE dispatch_kernel # <<>>
    <2>1. mano = Nada /\ Range(dispatch_kernel) = {Head(dispatch_kernel)}
      BY <1>1, <1>3 DEF Donde
    <2> QED  BY <1>3, <2>1 DEF EnViaje
  <1>4. CASE mano = Nada /\ dispatch_kernel = <<>>
    BY <1>4, VacioLema DEF EnViaje
  <1> QED  BY <1>2, <1>3, <1>4

\* The same of the next state.
LEMMA ViajeLuego ==
  (TypeOK /\ VueloInv =>
     /\ mano # Nada => EnViaje = IF mano.motivo \in Pedido THEN {mano} ELSE {}
     /\ dispatch_kernel # <<>> => EnViaje = IF Head(dispatch_kernel).motivo \in Pedido
                                            THEN {Head(dispatch_kernel)} ELSE {}
     /\ mano = Nada /\ dispatch_kernel = <<>> => EnViaje = {})'
  BY ViajeLema, PTL

\* A process in the CPU lives, as Programa sees it, and stands where its PCB says.
LEMMA ViveLema ==
  ASSUME DespachoInv, pcb # Nada
  PROVE  /\ pcb \in Pcb /\ pcb.pid \in Pids /\ Promesa!Vive(pcb.pid)
         /\ ContadorDe[pcb.pid] = pcb.program_counter /\ RegistrosDe[pcb.pid] = pcb.registros
         /\ EnViaje = {} /\ PedidosDe = pedidos
  <1>0. TypeOK /\ VueloInv /\ LugarInv /\ PedidosInv /\ Donde
    BY VueloLema DEF DespachoInv
  <1>1. /\ pcb \in Pcb /\ pcb.pid \in Pids /\ EnEjecucion = {pcb} /\ mano = Nada
        /\ dispatch_kernel = <<>>
    BY <1>0, PcbLema DEF Donde
  <1>2. EnViaje = {} /\ PedidosDe = pedidos
    BY <1>0, <1>1, ViajeLema, PedidosVista
  <1>3. pcb \in Lugares["ejecucion"] /\ "ejecucion" \in Nombre /\ "salida" \in Nombre
    BY <1>1, LugaresLema DEF Nombre
  <1>4. PcbDe(pcb.pid) = pcb
    BY <1>0, <1>3, PcbDeLema
  <1>5. ~ \E x \in salida : x.pid = pcb.pid
    <2>1. \A x \in Lugares["salida"] : x.pid # pcb.pid
      BY <1>0, <1>3, LugarAjeno
    <2> QED  BY <2>1, LugaresLema
  <1>6. \A k \in DOMAIN pedidos[pcb.pid] : pedidos[pcb.pid][k] \notin {"EXIT", "RESIZE"}
    BY <1>0, <1>1, <1>5 DEF PedidosInv
  <1>7. ~Terminados[pcb.pid]
    BY <1>1, <1>5 DEF Terminados
  <1>8. Promesa!Vive(pcb.pid)
    BY <1>2, <1>6, <1>7 DEF Promesa!Vive
  <1> QED  BY <1>1, <1>2, <1>4, <1>8 DEF ContadorDe, RegistrosDe

\* What Programa says of the instruction is what the CPU reads and computes.
LEMMA InstruccionVista ==
  ASSUME DespachoInv, NEW ops, Ejecuta(ops)
  PROVE  /\ pcb # Nada /\ fetch.op \in ops
         /\ ContadorDe[pcb.pid] < Len(codigo[pcb.pid])
         /\ Promesa!Instruccion(pcb.pid) = fetch
         /\ \A r : Promesa!Valor(pcb.pid, r) = get_registro(r)
         /\ Promesa!Calculado(pcb.pid) = Resultado
         /\ UNCHANGED <<codigo, mano, pedidos, salida, dispatch_cpu>>
  <1>1. /\ pcb # Nada /\ fetch.op \in ops /\ pcb.program_counter < Len(codigo[pcb.pid])
        /\ UNCHANGED <<codigo, mano, pedidos, salida, dispatch_cpu>>
    BY DEF Ejecuta, kernel
  <1>2. ContadorDe[pcb.pid] = pcb.program_counter /\ RegistrosDe[pcb.pid] = pcb.registros
    BY <1>1, ViveLema
  <1>3. Promesa!Instruccion(pcb.pid) = fetch
    BY <1>2 DEF Promesa!Instruccion, fetch
  <1>4. \A r : Promesa!Valor(pcb.pid, r) = get_registro(r)
    BY <1>2 DEF Promesa!Valor, get_registro
  <1>5. Promesa!Calculado(pcb.pid) = Resultado
    BY <1>3, <1>4 DEF Promesa!Calculado, Resultado, uint32
  <1> QED  BY <1>1, <1>2, <1>3, <1>4, <1>5

\* The processes that ended are those in EXIT.
LEMMA TerminadosQuieto ==
  ASSUME UNCHANGED salida
  PROVE  UNCHANGED Terminados
  BY DEF Terminados

\* A step of the CPU is a step of its process.
LEMMA PromesaCpu ==
  ASSUME DespachoInv, DespachoInv',
         \/ EjecutaCalculo \/ exec_jnz \/ EjecutaResize \/ EjecutaPedido \/ EjecutaFin
  PROVE  Promesa!Next
  <1> DEFINE p == pcb.pid
  <1>0. TypeOK /\ TypeOK' /\ VueloInv /\ VueloInv' /\ Donde /\ Donde'
    BY VueloLema, VueloLuego DEF DespachoInv
  <1>1. PICK ops : Ejecuta(ops)
    BY DEF EjecutaCalculo, exec_jnz, EjecutaResize, EjecutaPedido, EjecutaFin
  <1>2. /\ pcb # Nada /\ pcb \in Pcb /\ p \in Pids /\ Promesa!Vive(p)
        /\ ContadorDe[p] = pcb.program_counter /\ RegistrosDe[p] = pcb.registros
        /\ EnViaje = {} /\ PedidosDe = pedidos
        /\ ContadorDe[p] < Len(codigo[p])
        /\ Promesa!Instruccion(p) = fetch
        /\ \A r : Promesa!Valor(p, r) = get_registro(r)
        /\ Promesa!Calculado(p) = Resultado
        /\ UNCHANGED <<codigo, mano, pedidos, salida, dispatch_cpu>>
    BY <1>1, InstruccionVista, ViveLema
  <1>3. UNCHANGED Terminados
    BY <1>2, TerminadosQuieto
  <1>4. mano = Nada /\ dispatch_kernel = <<>>
    BY <1>0, <1>2 DEF Donde
  <1>5. UNCHANGED dispatch_kernel => UNCHANGED PedidosDe
    BY <1>0, <1>2, <1>4, ViajeLuego, PedidosVistaLuego
  <1>6. ASSUME NEW y \in Pcb, NEW z \in Pedido, y.pid = p, devolver_pcb(y, z)
        PROVE  PedidosDe' = [PedidosDe EXCEPT ![p] = Append(@, z)]
    <2>1. PICK m \in Devuelto : m.pcb = y /\ m.motivo = z /\ dispatch_kernel' = Append(<<>>, m)
      <3>1. [pcb |-> y, motivo |-> z] \in Devuelto
        BY DEF Devuelto, Motivo
      <3> QED  BY <1>4, <1>6, <3>1 DEF devolver_pcb
    <2>2. dispatch_kernel' # <<>> /\ Head(dispatch_kernel') = m
      BY <2>1, VacioLema
    <2>3. EnViaje' = {m}
      BY <1>0, <2>1, <2>2, ViajeLuego
    <2>4. PedidosDe' = [pedidos' EXCEPT ![m.pcb.pid] = Append(@, m.motivo)]
      BY <1>0, <2>3, PedidosVistaLuego
    <2> QED  BY <1>2, <1>6, <2>1, <2>4
  <1>7. ASSUME NEW y, Mueve("ejecucion", pcb, "ejecucion", y)
        PROVE  /\ ContadorDe' = [ContadorDe EXCEPT ![p] = y.program_counter]
               /\ RegistrosDe' = [RegistrosDe EXCEPT ![p] = y.registros]
               /\ y.registros = pcb.registros => RegistrosDe' = RegistrosDe
               /\ y.program_counter = pcb.program_counter => ContadorDe' = ContadorDe
    <2>1. /\ ContadorDe' = [ContadorDe EXCEPT ![p] = y.program_counter]
          /\ RegistrosDe' = [RegistrosDe EXCEPT ![p] = y.registros]
      BY <1>7, VistaMueve
    <2>2. /\ ContadorDe = [q \in Pids |-> ContadorDe[q]]
          /\ RegistrosDe = [q \in Pids |-> RegistrosDe[q]]
      BY DEF ContadorDe, RegistrosDe
    <2> HIDE DEF p
    <2> QED  BY <1>2, <2>1, <2>2
  <1> HIDE DEF p
  <1>8. Promesa!Calcula(p) \/ Promesa!Salta(p) \/ Promesa!Pide(p) \/ Promesa!Redimensiona(p)
        \/ Promesa!PideTerminar(p)
    <2>1. CASE EjecutaCalculo
      <3>1. /\ Ejecuta({"SET", "SUM", "SUB"}) /\ Resultado <= tam_registro_max(fetch.r)
            /\ pcb' = set_registro(pcb, fetch.r, Resultado) /\ UNCHANGED dispatch_kernel
        BY <2>1 DEF EjecutaCalculo
      <3>2. /\ pcb'.program_counter = IF fetch.r = "PC" THEN Resultado ELSE pcb.program_counter + 1
            /\ pcb'.registros = IF fetch.r = "PC" THEN pcb.registros
                                ELSE [pcb.registros EXCEPT ![fetch.r] = Resultado]
        BY <1>0, <3>1, CalculoLema
      <3>3. fetch.op \in {"SET", "SUM", "SUB"} /\ (fetch.r = "AX" => Resultado <= UINT8_MAX)
        BY <3>1 DEF Ejecuta, tam_registro_max
      <3>4. Mueve("ejecucion", pcb, "ejecucion", pcb')
        BY <1>0, <2>1, MueveCpuPasos
      <3>5. UNCHANGED PedidosDe
        BY <1>5, <3>1
      <3>6. CASE fetch.r = "PC"
        <4>1. ContadorDe' = [ContadorDe EXCEPT ![p] = Resultado] /\ RegistrosDe' = RegistrosDe
          BY <1>7, <3>2, <3>4, <3>6
        <4> QED  BY <1>2, <3>3, <3>5, <3>6, <4>1 DEF Promesa!Calcula
      <3>7. CASE fetch.r # "PC"
        <4>1. /\ ContadorDe' = [ContadorDe EXCEPT ![p] = @ + 1]
              /\ RegistrosDe' = [RegistrosDe EXCEPT ![p] =
                                    [pcb.registros EXCEPT ![fetch.r] = Resultado]]
          BY <1>2, <1>7, <3>2, <3>4, <3>7
        <4>2. RegistrosDe' = [RegistrosDe EXCEPT ![p][fetch.r] = Resultado]
          BY <1>2, <4>1
        <4> QED  BY <1>2, <3>3, <3>5, <3>7, <4>1, <4>2 DEF Promesa!Calcula
      <3> QED  BY <3>6, <3>7
    <2>2. CASE exec_jnz
      <3>1. /\ pcb'.registros = pcb.registros
            /\ pcb'.program_counter = IF get_registro(fetch.r) # 0 THEN uint32(fetch.v)
                                      ELSE pcb.program_counter + 1
        BY <1>0, <2>2, JnzLema
      <3>2. Mueve("ejecucion", pcb, "ejecucion", pcb')
        BY <1>0, <2>2, MueveCpuPasos
      <3>3. UNCHANGED PedidosDe /\ fetch.op = "JNZ"
        BY <1>5, <2>2 DEF exec_jnz, Ejecuta
      <3>4. /\ ContadorDe' = [ContadorDe EXCEPT ![p] = IF get_registro(fetch.r) # 0
                                                       THEN uint32(fetch.v) ELSE @ + 1]
            /\ RegistrosDe' = RegistrosDe
        BY <1>2, <1>7, <3>1, <3>2
      <3>5. Promesa!Valor(p, Promesa!Instruccion(p).r) = get_registro(fetch.r)
        BY <1>2
      <3>6. Promesa!Instruccion(p).op = "JNZ" /\ Promesa!Instruccion(p).v = fetch.v
        BY <1>2, <3>3
      <3> QED  BY <3>3, <3>4, <3>5, <3>6 DEF Promesa!Salta, uint32
    <2>3. CASE EjecutaResize
      <3>1. Mueve("ejecucion", pcb, "ejecucion", Avanzado(pcb))
        BY <1>0, <2>3, MueveCpuPasos
      <3>2. UNCHANGED PedidosDe /\ fetch.op = "RESIZE"
        BY <1>5, <2>3 DEF EjecutaResize, Ejecuta
      <3>3. ContadorDe' = [ContadorDe EXCEPT ![p] = @ + 1] /\ RegistrosDe' = RegistrosDe
        BY <1>2, <1>7, <3>1, AvanzadoLema
      <3> QED  BY <1>2, <3>2, <3>3 DEF Promesa!Redimensiona
    <2>4. CASE EjecutaPedido
      <3>1. Mueve("ejecucion", pcb, "ejecucion", Avanzado(pcb))
        BY <1>0, <2>4, MueveCpuPasos
      <3>2. fetch.op \in {"WAIT", "SIGNAL", "IO"} /\ devolver_pcb(Avanzado(pcb), fetch.op)
        BY <2>4 DEF EjecutaPedido, Ejecuta
      <3>3. Avanzado(pcb) \in Pcb /\ Avanzado(pcb).pid = p /\ fetch.op \in Pedido
        BY <1>2, <3>2, AvanzadoLema DEF p, Pedido
      <3>4. PedidosDe' = [PedidosDe EXCEPT ![p] = Append(@, fetch.op)]
        BY <1>6, <3>2, <3>3
      <3>5. ContadorDe' = [ContadorDe EXCEPT ![p] = @ + 1] /\ RegistrosDe' = RegistrosDe
        BY <1>2, <1>7, <3>1, AvanzadoLema
      <3> QED  BY <1>2, <3>2, <3>4, <3>5 DEF Promesa!Pide
    <2>5. CASE EjecutaFin
      <3>1. Mueve("ejecucion", pcb, "ejecucion", pcb)
        BY <1>0, <2>5, MueveCpuPasos
      <3>2. fetch.op \in {"EXIT", "RESIZE"} /\ devolver_pcb(pcb, fetch.op)
        BY <2>5 DEF EjecutaFin, Ejecuta
      <3>3. pcb \in Pcb /\ pcb.pid = p /\ fetch.op \in Pedido
        BY <1>2, <3>2 DEF p, Pedido
      <3>4. PedidosDe' = [PedidosDe EXCEPT ![p] = Append(@, fetch.op)]
        BY <1>6, <3>2, <3>3
      <3>5. ContadorDe' = ContadorDe /\ RegistrosDe' = RegistrosDe
        BY <1>7, <3>1
      <3> QED  BY <1>2, <3>2, <3>4, <3>5 DEF Promesa!PideTerminar
    <2> QED  BY <2>1, <2>2, <2>3, <2>4, <2>5
  <1>9. Promesa!Paso(p)
    BY <1>2, <1>3, <1>8 DEF Promesa!Paso
  <1> QED  BY <1>2, <1>9 DEF Promesa!Next

\* What the planner does with a PCB that came back is seen by nobody, but for its end.
LEMMA VistaManeja ==
  ASSUME DespachoInv, DespachoInv', NEW motivos, Maneja(motivos),
         mano' = Nada, dispatch_kernel' = dispatch_kernel
  PROVE  UNCHANGED PedidosDe /\ UNCHANGED codigo
  <1>0. TypeOK /\ TypeOK' /\ VueloInv /\ VueloInv' /\ Donde
    BY VueloLema DEF DespachoInv
  <1>1. /\ mano # Nada /\ mano \in Devuelto /\ mano.motivo # "-" /\ dispatch_kernel = <<>>
        /\ pedidos' = [pedidos EXCEPT ![mano.pcb.pid] =
                          IF mano.motivo \in {"FIN_QUANTUM", "INTERRUMPIDO_POR_USUARIO"} THEN @
                          ELSE Append(@, mano.motivo)]
        /\ UNCHANGED codigo
    BY <1>0 DEF Maneja, Donde, VueloInv
  <1>2. PedidosDe' = pedidos'
    BY <1>0, <1>1, ViajeLuego, PedidosVistaLuego
  <1>3. CASE mano.motivo \in Pedido
    <2>1. mano.motivo \notin {"FIN_QUANTUM", "INTERRUMPIDO_POR_USUARIO"}
      BY <1>3 DEF Pedido
    <2>2. EnViaje = {mano}
      BY <1>0, <1>1, <1>3, ViajeLema
    <2>3. PedidosDe = [pedidos EXCEPT ![mano.pcb.pid] = Append(@, mano.motivo)]
      BY <1>0, <1>1, <2>2, PedidosVista
    <2> QED  BY <1>1, <1>2, <2>1, <2>3
  <1>4. CASE mano.motivo \notin Pedido
    <2>1. mano.motivo \in {"FIN_QUANTUM", "INTERRUMPIDO_POR_USUARIO"}
      BY <1>1, <1>4 DEF Devuelto, Motivo
    <2>2. EnViaje = {}
      BY <1>0, <1>1, <1>4, ViajeLema
    <2>3. PedidosDe = pedidos
      BY <1>0, <2>2, PedidosVista
    <2>4. pedidos' = pedidos
      BY <1>0, <1>1, <2>1 DEF TypeOK
    <2> QED  BY <1>1, <1>2, <2>3, <2>4
  <1> QED  BY <1>1, <1>3, <1>4

\* A PCB that moves as it is, as far as its process sees, changes nothing for it.
LEMMA VistaIgual ==
  ASSUME DespachoInv, DespachoInv', NEW a, NEW x, NEW b, NEW y, Mueve(a, x, b, y),
         y.program_counter = x.program_counter, y.registros = x.registros
  PROVE  UNCHANGED <<ContadorDe, RegistrosDe>>
  <1>1. /\ x.pid \in Pids /\ ContadorDe[x.pid] = x.program_counter
        /\ RegistrosDe[x.pid] = x.registros
        /\ ContadorDe' = [ContadorDe EXCEPT ![x.pid] = y.program_counter]
        /\ RegistrosDe' = [RegistrosDe EXCEPT ![x.pid] = y.registros]
    BY VistaMueve
  <1>2. ContadorDe = [q \in Pids |-> ContadorDe[q]] /\ RegistrosDe = [q \in Pids |-> RegistrosDe[q]]
    BY DEF ContadorDe, RegistrosDe
  <1> QED  BY <1>1, <1>2

\* The kernel takes a process out once.
LEMMA PromesaEliminar ==
  ASSUME DespachoInv, DespachoInv', Eliminar
  PROVE  Promesa!Next
  <1> DEFINE p == mano.pcb.pid
  <1>0. TypeOK /\ TypeOK' /\ VueloInv /\ VueloInv' /\ LugarInv /\ Donde
    BY VueloLema DEF DespachoInv
  <1>1. Mueve("ejecucion", mano.pcb, "salida", mano.pcb)
    BY <1>0, MueveManeja
  <1>2. UNCHANGED <<ContadorDe, RegistrosDe>>
    BY <1>1, VistaIgual
  <1>3. UNCHANGED PedidosDe /\ UNCHANGED codigo
    BY VistaManeja DEF Eliminar, Maneja, red
  <1>4. p \in Pids /\ salida' = salida \cup {mano.pcb}
    BY <1>1, VistaMueve DEF Eliminar
  <1>5. ~ \E x \in salida : x.pid = p
    <2>1. mano.pcb \in Lugares["ejecucion"] /\ "ejecucion" \in Nombre /\ "salida" \in Nombre
      BY <1>1 DEF Mueve, Nombre
    <2>2. \A x \in Lugares["salida"] : x.pid # p
      BY <1>0, <2>1, LugarAjeno
    <2> QED  BY <2>2, LugaresLema
  <1>6. ~Terminados[p] /\ Terminados' = [Terminados EXCEPT ![p] = TRUE]
    <2>1. ~Terminados[p]
      BY <1>4, <1>5 DEF Terminados
    <2>2. \A q \in Pids : (\E x \in salida' : x.pid = q) <=> (q = p \/ \E x \in salida : x.pid = q)
      BY <1>4
    <2> HIDE DEF p
    <2>3. Terminados' = [Terminados EXCEPT ![p] = TRUE]
      BY <1>4, <2>2 DEF Terminados
    <2> QED  BY <2>1, <2>3
  <1> HIDE DEF p
  <1>7. Promesa!Termina(p)
    BY <1>2, <1>3, <1>6 DEF Promesa!Termina
  <1> QED  BY <1>3, <1>4, <1>7 DEF Promesa!Next

\* The PCBs are seen the same when none is touched.
LEMMA VistaQuieta ==
  ASSUME UNCHANGED <<cola_ready, cola_ready_plus, bloqueados, salida, EnEjecucion>>
  PROVE  UNCHANGED <<ContadorDe, RegistrosDe, Terminados>>
  <1>1. UNCHANGED Pcbs
    BY DEF Pcbs
  <1> QED  BY <1>1 DEF ContadorDe, RegistrosDe, Terminados, PcbDe

\* Every step of the system is one of Programa, or one its author does not see.
LEMMA PromesaPaso ==
  ASSUME DespachoInv, DespachoInv', [Next]_vars
  PROVE  [Promesa!Next]_(Promesa!vars)
  <1>0. TypeOK /\ TypeOK' /\ VueloInv /\ VueloInv' /\ LugarInv /\ Donde /\ Donde'
    BY VueloLema, VueloLuego DEF DespachoInv
  <1>a. ASSUME UNCHANGED <<codigo, ContadorDe, RegistrosDe, PedidosDe, Terminados>>
        PROVE  [Promesa!Next]_(Promesa!vars)
    BY <1>a DEF Promesa!vars
  <1>b. ASSUME EnViaje = {}, EnViaje' = {}, UNCHANGED pedidos
        PROVE  UNCHANGED PedidosDe
    BY <1>0, <1>b, PedidosVista, PedidosVistaLuego
  <1>c. ASSUME UNCHANGED <<mano, dispatch_kernel, pedidos>> PROVE UNCHANGED PedidosDe
    BY <1>c DEF PedidosDe, EnViaje
  <1>1. ASSUME NEW plus \in BOOLEAN, PcpPrepara(plus) PROVE [Promesa!Next]_(Promesa!vars)
    <2> DEFINE x == Head(IF plus THEN cola_ready_plus ELSE cola_ready)
               y == [x EXCEPT !.quantum = Quantum(x, plus)]
    <2>1. /\ mano' = [pcb |-> y, motivo |-> "-"]
          /\ Mueve(IF plus THEN "ready_plus" ELSE "ready", x, "ejecucion", y)
      BY <1>0, <1>1, MuevePrepara
    <2>2. y.program_counter = x.program_counter /\ y.registros = x.registros
      <3>1. x \in Pcb /\ Quantum(x, plus) \in Int
        BY <1>1, QuantumLema
      <3> QED  BY <3>1, ConQuantum
    <2>3. UNCHANGED <<ContadorDe, RegistrosDe>>
      BY <2>1, <2>2, VistaIgual
    <2>4. UNCHANGED <<codigo, pedidos, salida>> /\ mano = Nada /\ dispatch_kernel = <<>>
      BY <1>0, <1>1 DEF PcpPrepara, Donde
    <2>5. UNCHANGED Terminados
      BY <2>4, TerminadosQuieto
    <2>6. mano' # Nada /\ mano'.motivo \notin Pedido
      BY <1>0, <1>1, <2>1 DEF Pedido, PcpPrepara, VueloInv
    <2>7. EnViaje = {} /\ EnViaje' = {}
      BY <1>0, <2>4, <2>6, ViajeLema, ViajeLuego
    <2> QED  BY <1>a, <1>b, <2>3, <2>4, <2>5, <2>7
  <1>2. CASE PcpRecibe
    <2> DEFINE m == Head(dispatch_kernel)
    <2>1. /\ mano'.pcb = Descontado(m.pcb) /\ mano'.motivo = m.motivo
          /\ Mueve("ejecucion", m.pcb, "ejecucion", Descontado(m.pcb))
      BY <1>0, <1>2, MueveRecibe
    <2>2. dispatch_kernel # <<>> /\ m \in Devuelto /\ m.pcb \in Pcb
      BY <1>0, <1>2 DEF PcpRecibe, Donde
    <2>3. /\ Descontado(m.pcb).pid = m.pcb.pid
          /\ Descontado(m.pcb).program_counter = m.pcb.program_counter
          /\ Descontado(m.pcb).registros = m.pcb.registros
      BY <1>0, <2>2, DescontadoLema
    <2>4. UNCHANGED <<ContadorDe, RegistrosDe>>
      BY <2>1, <2>3, VistaIgual
    <2>5. UNCHANGED <<codigo, pedidos, salida>> /\ mano' # Nada /\ mano' \in Devuelto
      BY <1>0, <1>2 DEF PcpRecibe, Donde, VueloInv
    <2>6. UNCHANGED PedidosDe
      <3>1. CASE m.motivo \in Pedido
        <4>1. EnViaje = {m} /\ EnViaje' = {mano'}
          BY <1>0, <2>1, <2>2, <2>5, <3>1, ViajeLema, ViajeLuego
        <4>2. PedidosDe = [pedidos EXCEPT ![m.pcb.pid] = Append(@, m.motivo)]
          BY <1>0, <2>2, <4>1, PedidosVista
        <4>3. PedidosDe' = [pedidos' EXCEPT ![mano'.pcb.pid] = Append(@, mano'.motivo)]
          BY <1>0, <2>5, <4>1, PedidosVistaLuego
        <4> QED  BY <2>1, <2>3, <2>5, <4>2, <4>3
      <3>2. CASE m.motivo \notin Pedido
        <4>1. EnViaje = {} /\ EnViaje' = {}
          BY <1>0, <2>1, <2>2, <2>5, <3>2, ViajeLema, ViajeLuego
        <4> QED  BY <1>b, <2>5, <4>1
      <3> QED  BY <3>1, <3>2
    <2> QED  BY <1>a, <2>4, <2>5, <2>6, TerminadosQuieto
  <1>3. CASE manejar_fin_quantum \/ Bloquear
    <2>1. UNCHANGED salida /\ UNCHANGED dispatch_kernel
      BY <1>3 DEF manejar_fin_quantum, Bloquear, red
    <2>2. UNCHANGED PedidosDe /\ UNCHANGED codigo
      BY <1>3, <2>1, VistaManeja DEF manejar_fin_quantum, Bloquear, Maneja
    <2>3. UNCHANGED <<ContadorDe, RegistrosDe>>
      BY <1>0, <1>3, MueveManeja, VistaIgual
    <2> QED  BY <1>a, <2>1, <2>2, <2>3, TerminadosQuieto
  <1>4. CASE Eliminar
    BY <1>4, PromesaEliminar
  <1>5. CASE DevolverEjecucion
    <2>1. UNCHANGED PedidosDe /\ UNCHANGED codigo
      BY <1>5, VistaManeja DEF DevolverEjecucion, Maneja
    <2>2. UNCHANGED <<cola_ready, cola_ready_plus, bloqueados, salida, EnEjecucion>>
      BY <1>0, <1>5, QuietoLema
    <2> QED  BY <1>a, <2>1, <2>2, VistaQuieta
  <1>6. CASE Desbloquear
    <2>1. PICK b \in bloqueados :
             /\ bloqueados' = bloqueados \ {b}
             /\ \/ /\ cola_ready_plus' = squeue_push(cola_ready_plus, b.pcb)
                   /\ UNCHANGED cola_ready
                \/ cola_ready' = squeue_push(cola_ready, b.pcb) /\ UNCHANGED cola_ready_plus
      BY <1>6 DEF Desbloquear
    <2>2. UNCHANGED <<salida, EnEjecucion, mano, dispatch_kernel, pedidos, codigo>>
      BY <1>6 DEF Desbloquear, EnEjecucion, red, cpu
    <2>3. PICK l : Mueve("bloqueado", b.pcb, l, b.pcb)
      BY <1>0, <2>1, <2>2, MueveDesbloquear
    <2>4. UNCHANGED <<ContadorDe, RegistrosDe>>
      BY <2>3, VistaIgual
    <2> QED  BY <1>a, <1>c, <2>2, <2>4, TerminadosQuieto
  <1>7. CASE PcpEnvia \/ PcpCancela \/ CpuRecibe
    <2>1. UNCHANGED <<cola_ready, cola_ready_plus, bloqueados, salida, EnEjecucion>>
      BY <1>0, <1>7, QuietoLema
    <2>2. UNCHANGED PedidosDe
      <3>1. CASE PcpEnvia
        <4>1. UNCHANGED pedidos /\ mano # Nada /\ mano.motivo = "-" /\ mano' = Nada
              /\ dispatch_kernel = <<>> /\ UNCHANGED dispatch_kernel
          BY <1>0, <3>1 DEF PcpEnvia, Donde, VueloInv
        <4>2. EnViaje = {} /\ EnViaje' = {}
          BY <1>0, <4>1, ViajeLema, ViajeLuego DEF Pedido
        <4> QED  BY <1>b, <4>1, <4>2
      <3>2. CASE PcpCancela \/ CpuRecibe
        BY <1>c, <3>2 DEF PcpCancela, CpuRecibe, kernel, red
      <3> QED  BY <1>7, <3>1, <3>2
    <2>3. UNCHANGED codigo
      BY <1>7 DEF PcpEnvia, PcpCancela, CpuRecibe
    <2> QED  BY <1>a, <2>1, <2>2, <2>3, VistaQuieta
  <1>8. CASE EjecutaCalculo \/ exec_jnz \/ EjecutaResize \/ EjecutaPedido \/ EjecutaFin
    BY <1>8, PromesaCpu
  <1>9. CASE check_interrupt /\ pcb # Nada
    <2>1. UNCHANGED <<codigo, pedidos, salida, mano>>
      BY <1>9 DEF check_interrupt, kernel
    <2>2. UNCHANGED <<ContadorDe, RegistrosDe>>
      BY <1>0, <1>9, MueveCpuPasos, VistaIgual
    <2>3. UNCHANGED PedidosDe
      <3>1. CASE \E i \in ParaEste : devolver_pcb(pcb, interrupts[i].motivo)
        <4>1. PICK i \in ParaEste : devolver_pcb(pcb, interrupts[i].motivo)
          BY <3>1
        <4>2. interrupts[i].motivo \in Motivo \ Pedido /\ pcb \in Pcb
          BY <1>0, ParaEsteLema
        <4>3. mano = Nada /\ dispatch_kernel = <<>>
          BY <1>0, <1>9 DEF Donde
        <4>4. PICK m \in Devuelto : m.motivo \notin Pedido /\ dispatch_kernel' = Append(<<>>, m)
          <5>1. [pcb |-> pcb, motivo |-> interrupts[i].motivo] \in Devuelto
            BY <4>2 DEF Devuelto
          <5> QED  BY <4>1, <4>2, <4>3, <5>1 DEF devolver_pcb
        <4>5. dispatch_kernel' # <<>> /\ Head(dispatch_kernel') = m
          BY <4>4, VacioLema
        <4>6. EnViaje = {} /\ EnViaje' = {}
          BY <1>0, <4>3, <4>4, <4>5, ViajeLema, ViajeLuego
        <4> QED  BY <1>b, <2>1, <4>6
      <3>2. CASE UNCHANGED <<pcb, dispatch_kernel>>
        BY <1>c, <2>1, <3>2
      <3> QED  BY <1>9, <3>1, <3>2 DEF check_interrupt
    <2> QED  BY <1>a, <2>1, <2>2, <2>3, TerminadosQuieto
  <1>10. CASE \/ Pausa \/ ConVe \/ ConInterrumpe \/ FetchPasado \/ EjecutaDesborde \/ servidor_interrupt
              \/ Tick \/ (check_interrupt /\ pcb = Nada) \/ UNCHANGED vars
              \/ \E r \in Reloj : RelojDespierta(r) \/ RelojEnvia(r) \/ RelojTermina(r)
    <2>1. UNCHANGED <<cola_ready, cola_ready_plus, bloqueados, salida, mano, dispatch_cpu,
                      dispatch_kernel, pcb, pedidos, codigo>>
      BY <1>10, AjenoLema
    <2>2. UNCHANGED EnEjecucion
      BY <2>1 DEF EnEjecucion
    <2> QED  BY <1>a, <1>c, <2>1, <2>2, VistaQuieta
  <1> QED  BY Transiciones, <1>1, <1>2, <1>3, <1>4, <1>5, <1>6, <1>7, <1>8, <1>9, <1>10

\* Nobody has executed anything yet.
LEMMA PromesaInit ==
  ASSUME Init
  PROVE  Promesa!Init
  <1>1. TypeOK /\ VueloInv /\ LugarInv
    BY DespachoInit DEF DespachoInv
  <1>2. cola_ready = [k \in Pids |-> Nuevo(k)] /\ mano = Nada /\ dispatch_kernel = <<>> /\ salida = {}
        /\ pedidos = [p \in Pids |-> <<>>]
    BY DEF Init
  <1>3. \A p \in Pids : PcbDe(p) = Nuevo(p)
    <2>1. \A p \in Pids : Nuevo(p) \in Range(cola_ready) /\ Nuevo(p).pid = p
      BY <1>2 DEF Range, Nuevo
    <2>2. Lugares["ready"] = Range(cola_ready) /\ "ready" \in Nombre
      BY LugaresLema DEF Nombre
    <2> QED  BY <1>1, <2>1, <2>2, PcbDeLema
  <1>4. ContadorDe = [p \in Pids |-> 0] /\ RegistrosDe = [p \in Pids |-> [AX |-> 0, EAX |-> 0]]
    BY <1>3 DEF ContadorDe, RegistrosDe, Nuevo
  <1>5. PedidosDe = [p \in Pids |-> <<>>]
    BY <1>1, <1>2, ViajeLema, PedidosVista
  <1>6. Terminados = [p \in Pids |-> FALSE]
    BY <1>2 DEF Terminados
  <1> QED  BY <1>4, <1>5, <1>6 DEF Promesa!Init

\* planificador_corto_plazo.c:70-72 and executer.c:300: whatever interrupts it, a process executes
\* its program and nothing else, instruction by instruction, and each request reaches the kernel once.
THEOREM ImplementaProgramaSiempre == Spec => ImplementaPrograma
  <1>1. Init => Promesa!Init
    BY PromesaInit
  <1>2. DespachoInv /\ DespachoInv' /\ [Next]_vars => [Promesa!Next]_(Promesa!vars)
    BY PromesaPaso
  <1> QED  BY <1>1, <1>2, DespachoSiempre, PTL DEF Spec, ImplementaPrograma, Promesa!Spec
=============================================================================
