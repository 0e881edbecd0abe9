-------------------------- MODULE PruebaInterfaces --------------------------
(***************************************************************************)
(* The theorems of Interfaces, for any number of processes, names,          *)
(* connections and requests: what the console looks at is not freed, nobody *)
(* is eliminated twice or left without a unit, and, until malloc gives out  *)
(* again an address an interface holds, nobody goes on without what it      *)
(* asked for.  Each part of InterfacesInv has a lemma of its own, with one  *)
(* step per action.                                                         *)
(***************************************************************************)
EXTENDS InterfacesInv, SqueueLemas

-----------------------------------------------------------------------------
(* Lemmas about the queues                                                  *)

\* Adding at the end.
LEMMA ColaAgrega ==
  ASSUME NEW q \in Seq(Dir), NEW x \in Dir
  PROVE  /\ Append(q, x) \in Seq(Dir)
         /\ Len(q) \in Nat /\ Len(Append(q, x)) = Len(q) + 1
         /\ Range(Append(q, x)) = Range(q) \cup {x}
         /\ IsInjective(q) /\ x \notin Range(q) => IsInjective(Append(q, x))
         /\ Append(q, x) # <<>>
         /\ q # <<>> => Head(Append(q, x)) = Head(q)
  <1>1. /\ squeue_push(q, x) \in Seq(Dir)
        /\ Len(squeue_push(q, x)) = Len(q) + 1
        /\ Range(squeue_push(q, x)) = Range(q) \cup {x}
        /\ IsInjective(q) /\ x \notin Range(q) => IsInjective(squeue_push(q, x))
    BY PushLema
  <1>2. Append(q, x) # <<>> /\ (q # <<>> => Head(Append(q, x)) = Head(q))
    BY AppendProperties, HeadTailAppend
  <1> QED  BY <1>1, <1>2, LenProperties DEF squeue_push

\* Taking the first out.
LEMMA ColaPrimero ==
  ASSUME NEW q \in Seq(Dir), q # <<>>
  PROVE  /\ Tail(q) \in Seq(Dir) /\ Head(q) \in Range(q) /\ Head(q) \in Dir
         /\ Len(q) \in Nat /\ Len(q) > 0 /\ Len(Tail(q)) = Len(q) - 1
         /\ Range(q) = Range(Tail(q)) \cup {Head(q)}
         /\ IsInjective(q) => IsInjective(Tail(q)) /\ Head(q) \notin Range(Tail(q))
  BY PopLema, LenProperties

\* Taking any out: the first is the same unless it is the one taken out.
LEMMA ColaQuita ==
  ASSUME NEW q \in Seq(Dir), NEW x \in Range(q), IsInjective(q)
  PROVE  /\ Quitar(q, x) \in Seq(Dir)
         /\ Len(q) \in Nat /\ Len(Quitar(q, x)) = Len(q) - 1
         /\ Range(Quitar(q, x)) = Range(q) \ {x}
         /\ IsInjective(Quitar(q, x))
         /\ q # <<>>
         /\ Head(q) # x => Quitar(q, x) # <<>> /\ Head(Quitar(q, x)) = Head(q)
  <1>1. /\ DOMAIN q = 1..Len(q) /\ Len(q) \in Nat /\ Contiene(q, x)
        /\ q = <<>> <=> Len(q) = 0
    BY RangoSeq DEF Contiene
  <1>2. /\ Quitar(q, x) \in Seq(Dir) /\ Len(Quitar(q, x)) = Len(q) - 1
        /\ Range(Quitar(q, x)) \subseteq Range(q) /\ Range(q) \ {x} \subseteq Range(Quitar(q, x))
        /\ IsInjective(Quitar(q, x)) /\ x \notin Range(Quitar(q, x))
    BY <1>1, QuitarLema
  <1>3. q # <<>>
    BY <1>1, RangoSeq
  <1>4. ASSUME Head(q) # x PROVE Quitar(q, x) # <<>> /\ Head(Quitar(q, x)) = Head(q)
    <2> DEFINE k == Primera(q, x)
    <2>1. k \in 1..Len(q) /\ q[k] = x
      BY <1>1, PrimeraLema
    <2>2. Quitar(q, x) = RemoveAt(q, k)
      BY <1>1 DEF Quitar
    <2>3. Head(q) = q[1]
      BY <1>3
    <2>4. 1 < k /\ 1 \in 1..(Len(q) - 1)
      BY <1>1, <1>4, <2>1, <2>3
    <2> HIDE DEF k
    <2>5. RemoveAt(q, k)[1] = q[1]
      BY <2>1, <2>4, RemoveAtLema
    <2>6. Len(Quitar(q, x)) # 0
      BY <1>1, <1>2, <2>4
    <2>7. Quitar(q, x) # <<>>
      BY <1>2, <2>6
    <2> QED  BY <1>2, <2>2, <2>3, <2>5, <2>7
  <1> QED  BY <1>1, <1>2, <1>3, <1>4

\* The first element of a queue that is of the process the console looks for.
LEMMA ElDeLema ==
  ASSUME NEW q \in Seq(Dir), \E k \in DOMAIN q : EsDe(q[k])
  PROVE  ElDe(q) \in Range(q) /\ ElDe(q) \in Dir /\ EsDe(ElDe(q))
  <1> DEFINE T == {k \in DOMAIN q : EsDe(q[k])}
  <1>1. DOMAIN q = 1..Len(q) /\ Range(q) \subseteq Dir /\ T \subseteq Nat /\ T # {}
    BY RangoSeq
  <1>2. PICK k \in T : \A j \in T : k <= j
    BY <1>1, MinimoNat
  <1>3. \A j \in 1..(k - 1) : ~EsDe(q[j])
    <2> SUFFICES ASSUME NEW j \in 1..(k - 1), EsDe(q[j]) PROVE FALSE
      OBVIOUS
    <2>1. j \in T /\ ~(k <= j)
      BY <1>1
    <2> QED  BY <1>2, <2>1
  <1> DEFINE i == CHOOSE m \in DOMAIN q : EsDe(q[m]) /\ \A j \in 1..(m - 1) : ~EsDe(q[j])
  <1>4. i \in DOMAIN q /\ EsDe(q[i])
    BY <1>2, <1>3
  <1>5. ElDe(q) = q[i]
    BY DEF ElDe
  <1> HIDE DEF i
  <1>6. q[i] \in Range(q)
    BY <1>4 DEF Range
  <1> QED  BY <1>1, <1>4, <1>5, <1>6

-----------------------------------------------------------------------------
(* Types and the place of each thread                                       *)

\* While the PCP handles an instruction it has its process, and the instruction a name.
LEMMA BuscadaLema ==
  ASSUME TypeOK, HilosInv, pcp_pc # "libre"
  PROVE  /\ pcp_pid \in Pids /\ pedida[pcp_pid] \in Instrucciones /\ Buscada \in Nombres
         /\ pedidos \in Dir
  BY InterfacesOK DEF TypeOK, HilosInv, PcpInv, Buscada, Dir

\* The steps in which the kernel dies change nothing else.
LEMMA MuerteLema ==
  ASSUME \/ \E c \in Interfaz : RegistraNada(c) \/ TomaNull(c) \/ LeeLiberado(c) \/ EliminaNull(c)
         \/ PcpSinInterfaz \/ ObtenerNull
  PROVE  /\ UNCHANGED <<proceso, registro, conexion, hilo, interfaz, heap, pcp, con, historia>>
         /\ caido' = TRUE
  BY DEF RegistraNada, TomaNull, LeeLiberado, EliminaNull, PcpSinInterfaz, ObtenerNull, Muere

\* What is in a queue of an interface: an address with the operation of a blocked process.
LEMMA EncoladoLema ==
  ASSUME TypeOK, ColasInv, NEW c \in Interfaz, NEW d \in Range(bloqueados[c])
  PROVE  /\ d \in Dir /\ heap[d] # Nada /\ Pid(d) \in Pids /\ lugar[Pid(d)] = "bloqueado"
         /\ bloqueados[c] \in Seq(Dir) /\ IsInjective(bloqueados[c])
  <1>1. bloqueados[c] \in Seq(Dir) /\ d \in Dir
    BY RangoSeq DEF TypeOK
  <1>2. heap[d] # Nada /\ lugar[Pid(d)] = "bloqueado" /\ IsInjective(bloqueados[c])
    BY DEF ColasInv
  <1>3. PICK p \in Pids, i \in Instrucciones : heap[d] = Bloqueado(p, i)
    BY <1>1, <1>2 DEF TypeOK, Encolables
  <1> QED  BY <1>1, <1>2, <1>3 DEF Pid, Bloqueado

\* What the first of a queue is, and what the console finds in one.
LEMMA PrimeroLema ==
  ASSUME TypeOK, ColasInv, NEW c \in Interfaz, bloqueados[c] # <<>>
  PROVE  LET d == Head(bloqueados[c]) IN
         d \in Range(bloqueados[c]) /\ d \in Dir /\ Pid(d) \in Pids /\ lugar[Pid(d)] = "bloqueado"
  <1>1. Head(bloqueados[c]) \in Range(bloqueados[c])
    BY ColaPrimero DEF TypeOK
  <1> QED  BY <1>1, EncoladoLema

\* What a search by name finds.
LEMMA EncontradoLema ==
  ASSUME TypeOK, HilosInv, ColasInv, Busca
  PROVE  LET d == ElDe(bloqueados[con_interfaz]) IN
         /\ con_interfaz \in Interfaz /\ d \in Range(bloqueados[con_interfaz]) /\ d \in Dir
         /\ Pid(d) = con_pid /\ con_pid \in Pids /\ lugar[con_pid] = "bloqueado"
  <1>1. con_interfaz \in Interfaz
    BY DEF Busca, HilosInv, ConInv, TypeOK
  <1>2. /\ ElDe(bloqueados[con_interfaz]) \in Range(bloqueados[con_interfaz])
        /\ EsDe(ElDe(bloqueados[con_interfaz]))
    BY <1>1, ElDeLema DEF Busca, Encontrado, TypeOK
  <1> QED  BY <1>1, <1>2, EncoladoLema DEF EsDe

\* Every step keeps the types.
LEMMA TipoPaso == TypeOK /\ HilosInv /\ ColasInv /\ [Next]_vars => TypeOK'
  <1> SUFFICES ASSUME TypeOK, HilosInv, ColasInv, [Next]_vars PROVE TypeOK'
    OBVIOUS
  <1> USE InterfacesOK DEF proceso, registro, conexion, hilo, interfaz, pcp, con, historia, Va
  <1>1. CASE \E c \in Interfaz : Registra(c)
    <2> PICK c \in Interfaz : Registra(c)
      BY <1>1
    <2>1. nombre[c] \in Nombres
      BY DEF Registra, HilosInv, TurnosInv
    <2> QED  BY <2>1 DEF Registra, TypeOK
  <1>2. CASE \E c \in Interfaz : AgregaNombre(c)
    <2> PICK c \in Interfaz : AgregaNombre(c)
      BY <1>2
    <2>1. nombre[c] \in Nombres
      BY DEF AgregaNombre, HilosInv, TurnosInv
    <2>2. Append(nombres_interfaces, nombre[c]) \in Seq(Nombres)
      BY <2>1, AppendProperties DEF TypeOK
    <2> QED  BY <2>2 DEF AgregaNombre, TypeOK
  <1>3. CASE \E c \in Interfaz : Toma(c)
    <2> PICK c \in Interfaz : Toma(c)
      BY <1>3
    <2>1. Head(bloqueados[c]) \in Dir
      BY ColaPrimero DEF Toma, TypeOK
    <2>2. procesos_esperando[c] - 1 \in Nat
      BY DEF Toma, HayAvisos, TypeOK
    <2> QED  BY <2>1, <2>2, SMTT(60) DEF Toma, TypeOK
  <1>4. CASE \E c \in Interfaz : Envia(c)
    <2> PICK c \in Interfaz : Envia(c)
      BY <1>4
    <2> DEFINE d == hilo_pb[c]
    <2>1. d \in Dir /\ heap[d] # Nada
      BY DEF Envia, HilosInv, TurnosInv, Atendiendo
    <2>2. PICK p \in Pids, i \in Instrucciones : heap[d] = Bloqueado(p, i)
      BY <2>1 DEF TypeOK, Encolables
    <2>3. Pid(d) = p /\ heap[d].operacion = Empaqueta(decode(i))
      BY <2>2 DEF Pid, Bloqueado
    <2>4. Reenvia(Pid(d), heap[d].operacion) \in Paquetes
      BY <2>3 DEF Paquetes
    <2>5. CASE abierta[c]
      <3>1. a_interfaz' \in [Interfaz -> Paquetes \cup {Nada}]
        BY <2>4, <2>5 DEF Envia, TypeOK
      <3>2. hilo_pc' = [hilo_pc EXCEPT ![c] = "recibe"]
        BY <2>5 DEF Envia
      <3> QED  BY <3>1, <3>2 DEF Envia, TypeOK
    <2>6. CASE ~abierta[c]
      <3>1. UNCHANGED a_interfaz /\ hilo_pc' = [hilo_pc EXCEPT ![c] = "elimina"]
        BY <2>6 DEF Envia, TrasCaerse
      <3> QED  BY <3>1 DEF Envia, TypeOK
    <2> QED  BY <2>5, <2>6
  <1>5. CASE \E c \in Interfaz : Recibe(c)
    BY <1>5 DEF Recibe, TypeOK
  <1>6. CASE \E c \in Interfaz : RecibeError(c)
    BY <1>6 DEF RecibeError, TrasCaerse, TypeOK
  <1>7. CASE \E c \in Interfaz : Desbloquea(c)
    <2> PICK c \in Interfaz : Desbloquea(c)
      BY <1>7
    <2>1. Tail(bloqueados[c]) \in Seq(Dir)
      BY ColaPrimero DEF Desbloquea, Sigue, TypeOK
    <2> QED  BY <2>1 DEF Desbloquea, TypeOK
  <1>8. CASE \E c \in Interfaz : Descarta(c)
    BY <1>8 DEF Descarta, TypeOK
  <1>9. CASE \E c \in Interfaz : EliminaVe(c)
    BY <1>9 DEF EliminaVe, TypeOK
  <1>10. CASE \E c \in Interfaz : EliminaSaca(c)
    <2> PICK c \in Interfaz : EliminaSaca(c)
      BY <1>10
    <2>1. Tail(bloqueados[c]) \in Seq(Dir)
      BY ColaPrimero DEF EliminaSaca, TypeOK
    <2>2. Head(bloqueados[c]) \in Dir /\ Pid(Head(bloqueados[c])) \in Pids
      BY PrimeroLema DEF EliminaSaca
    <2> QED  BY <2>1, <2>2 DEF EliminaSaca, Saca, Eliminar, TypeOK
  <1>11. CASE \E c \in Interfaz : QuitaDic(c)
    <2> PICK c \in Interfaz : QuitaDic(c)
      BY <1>11
    <2>1. nombre[c] \in Nombres
      BY DEF QuitaDic, HilosInv, TurnosInv
    <2> QED  BY <2>1 DEF QuitaDic, TypeOK
  <1>12. CASE \E c \in Interfaz : QuitaNombre(c)
    <2> PICK c \in Interfaz : QuitaNombre(c)
      BY <1>12
    <2>1. Quitar(nombres_interfaces, nombre[c]) \in Seq(Nombres)
      BY QuitarLema DEF TypeOK
    <2> QED  BY <2>1 DEF QuitaNombre, TypeOK
  <1>13. CASE \E c \in Interfaz : Libera(c)
    BY <1>13 DEF Libera, TypeOK
  <1>14. CASE \E c \in Interfaz : Hace(c)
    <2> PICK c \in Interfaz : Hace(c)
      BY <1>14
    <2>1. Interpreta(a_interfaz[c]) \in Hechas
      BY DEF Hace, Hechas, TypeOK
    <2>2. hecha' \in [Pids -> Hechas \cup {Nada}]
      BY <2>1 DEF Hace, TypeOK
    <2>3. /\ a_interfaz' \in [Interfaz -> Paquetes \cup {Nada}]
          /\ de_interfaz' \in [Interfaz -> {"MENSAJE_FIN_IO", Nada}]
      BY DEF Hace, TypeOK
    <2> QED  BY <2>2, <2>3 DEF Hace, TypeOK
  <1>15. CASE \E c \in Interfaz : Cae(c)
    BY <1>15 DEF Cae, TypeOK
  <1>16. CASE \E c \in Interfaz, n \in Nombres : Conecta(c, n)
    BY <1>16 DEF Conecta, TypeOK
  <1>17. CASE Existe
    BY <1>17 DEF Existe, TypeOK
  <1>18. CASE interfaz_invalida
    <2>1. pcp_pid \in Pids
      BY <1>18, BuscadaLema DEF interfaz_invalida
    <2> QED  BY <1>18, <2>1 DEF interfaz_invalida, Eliminar, TypeOK
  <1>19. CASE interfaz_soporta_operacion
    BY <1>19 DEF interfaz_soporta_operacion, TypeOK
  <1>20. CASE Obtiene
    <2>1. interfaces_conectadas[Buscada] \in Interfaz
      BY <1>20, BuscadaLema DEF Obtiene, Conectada, TypeOK
    <2> QED  BY <1>20, <2>1 DEF Obtiene, TypeOK
  <1>21. CASE Encola
    <2>1. /\ pcp_pid \in Pids /\ pedida[pcp_pid] \in Instrucciones /\ pedidos \in Dir
          /\ pcp_interfaz \in Interfaz
      BY <1>21, BuscadaLema DEF Encola, HilosInv, PcpInv, TypeOK
    <2>2. PICK d \in Malloc :
              /\ heap' = [heap EXCEPT ![d] = Bloqueado(pcp_pid, pedida[pcp_pid])]
              /\ bloqueados' = [bloqueados EXCEPT ![pcp_interfaz] =
                                   Append(bloqueados[pcp_interfaz], d)]
      BY <1>21 DEF Encola
    <2>3. d \in Dir
      BY <2>1, <2>2 DEF Malloc, Dir
    <2>4. Append(bloqueados[pcp_interfaz], d) \in Seq(Dir)
      BY <2>1, <2>3, ColaAgrega DEF TypeOK
    <2>5. Bloqueado(pcp_pid, pedida[pcp_pid]) \in Encolables
      BY <2>1 DEF Encolables
    <2>6. reuso' \in BOOLEAN
      BY <1>21 DEF Encola, TypeOK
    <2> QED  BY <1>21, <2>1, <2>2, <2>4, <2>5, <2>6 DEF Encola, TypeOK
  <1>22. CASE Avisa
    <2>1. pcp_interfaz \in Interfaz
      BY <1>22 DEF Avisa, HilosInv, PcpInv, TypeOK
    <2> QED  BY <1>22, <2>1 DEF Avisa, Avisar, TypeOK
  <1>23. CASE Obtener
    <2>1. /\ con_i \in 1..Len(nombres_interfaces)
          /\ nombres_interfaces[con_i] \in Nombres
      BY <1>23, LenProperties DEF Obtener, HilosInv, ConInv, TypeOK
    <2>2. interfaces_conectadas[nombres_interfaces[con_i]] \in Interfaz
      BY <1>23, <2>1 DEF Obtener, Conectada, TypeOK
    <2> QED  BY <1>23, <2>2 DEF Obtener, TypeOK
  <1>24. CASE Busca
    <2>1. con_interfaz \in Interfaz
      BY <1>24 DEF Busca, HilosInv, ConInv, TypeOK
    <2>2. Quitar(bloqueados[con_interfaz], ElDe(bloqueados[con_interfaz])) \in Seq(Dir)
      BY <2>1, QuitarLema DEF TypeOK
    <2>3. ElDe(bloqueados[con_interfaz]) \in Dir /\ con_pid \in Pids
      BY <1>24, EncontradoLema
    <2> QED  BY <1>24, <2>1, <2>2, <2>3 DEF Busca, Eliminar, TypeOK
  <1>25. CASE NoEsta \/ NoEncontrado
    <2>1. CASE NoEsta
      <3>1. con_i' \in Nat
        BY <2>1 DEF NoEsta, TypeOK
      <3> QED  BY <2>1, <3>1 DEF NoEsta, TypeOK
    <2>2. CASE NoEncontrado
      BY <2>2 DEF NoEncontrado, TypeOK
    <2> QED  BY <1>25, <2>1, <2>2
  <1>26. CASE \E p \in Pids : Finaliza(p)
    BY <1>26 DEF Finaliza, TypeOK
  <1>29. CASE Pausa
    <2>1. planificacion_pausada' \in BOOLEAN
      BY <1>29 DEF Pausa, pausar_planificacion, reanudar_planificacion
    <2> QED  BY <1>29, <2>1, SMTT(60) DEF Pausa, pausar_planificacion, reanudar_planificacion,
                                          TypeOK
  <1>27. CASE \E p \in Pids, i \in Instrucciones : Pide(p, i)
    BY <1>27 DEF Pide, TypeOK
  <1>28. CASE UNCHANGED <<proceso, registro, conexion, hilo, interfaz, heap, pcp, con, historia>>
              /\ (caido' = TRUE \/ UNCHANGED caido)
    <2>1. caido' \in BOOLEAN
      BY <1>28 DEF TypeOK
    <2> QED  BY <1>28, <2>1, SMTT(60) DEF TypeOK
  <1> QED
    BY <1>1, <1>2, <1>3, <1>4, <1>5, <1>6, <1>7, <1>8, <1>9, <1>10, <1>11, <1>12, <1>13, <1>14,
       <1>15, <1>16, <1>17, <1>18, <1>19, <1>20, <1>21, <1>22, <1>23, <1>24, <1>25, <1>26,
       <1>27, <1>28, <1>29, MuerteLema DEF Next, atender_io, Pcp, Consola, vars

\* The PCP's part is kept while nobody touches its process.
LEMMA PcpQuieto ==
  ASSUME PcpInv, UNCHANGED <<pcp, pedidos>>, UNCHANGED pedida,
         lugar \in [Pids -> {"otro", "pcp", "bloqueado", "EXIT"}], pcp_pid \in Pids \cup {Nada},
         \A p \in Pids : lugar[p] = "pcp" => lugar'[p] = "pcp"
  PROVE  PcpInv'
  BY DEF PcpInv, pcp

\* Every step keeps what each thread has in hand.
LEMMA TurnosPaso == TypeOK /\ TurnosInv /\ [Next]_vars => TurnosInv'
  <1> SUFFICES ASSUME TypeOK, TurnosInv, [Next]_vars PROVE TurnosInv'
    OBVIOUS
  <1> USE InterfacesOK DEF TurnosInv, proceso, registro, conexion, hilo, interfaz, pcp, con, historia,
                           Va, Atendiendo, TypeOK
  <1>1. CASE \E c \in Interfaz : Registra(c)
    BY <1>1 DEF Registra
  <1>2. CASE \E c \in Interfaz : AgregaNombre(c)
    BY <1>2 DEF AgregaNombre
  <1>3. CASE \E c \in Interfaz : Toma(c)
    <2> PICK c \in Interfaz : Toma(c)
      BY <1>3
    <2>1. Head(bloqueados[c]) \in Dir
      BY ColaPrimero DEF Toma
    <2> QED  BY <2>1 DEF Toma
  <1>4. CASE \E c \in Interfaz : Envia(c)
    BY <1>4 DEF Envia, TrasCaerse
  <1>5. CASE \E c \in Interfaz : Recibe(c) \/ RecibeError(c)
    BY <1>5 DEF Recibe, RecibeError, TrasCaerse
  <1>6. CASE \E c \in Interfaz : Desbloquea(c)
    BY <1>6 DEF Desbloquea
  <1>7. CASE \E c \in Interfaz : Descarta(c)
    BY <1>7 DEF Descarta
  <1>8. CASE \E c \in Interfaz : EliminaVe(c)
    BY <1>8 DEF EliminaVe
  <1>9. CASE \E c \in Interfaz : EliminaSaca(c)
    BY <1>9 DEF EliminaSaca
  <1>10. CASE \E c \in Interfaz : QuitaDic(c) \/ QuitaNombre(c)
    BY <1>10 DEF QuitaDic, QuitaNombre
  <1>11. CASE \E c \in Interfaz : Libera(c)
    BY <1>11 DEF Libera
  <1>12. CASE \E c \in Interfaz : Hace(c) \/ Cae(c)
    BY <1>12 DEF Hace, Cae
  <1>13. CASE \E c \in Interfaz, n \in Nombres : Conecta(c, n)
    BY <1>13 DEF Conecta
  <1>14. CASE \/ Pcp \/ Pausa \/ Consola
              \/ \E p \in Pids : Finaliza(p) \/ \E i \in Instrucciones : Pide(p, i)
    BY <1>14 DEF Pcp, Consola, Existe, interfaz_invalida, interfaz_soporta_operacion, Obtiene,
                 Encola, Avisa, PcpSinInterfaz, Obtener, ObtenerNull, Busca, NoEsta, NoEncontrado,
                 Finaliza, Pausa, pausar_planificacion, reanudar_planificacion, Pide, Muere
  <1>15. CASE \E c \in Interfaz : RegistraNada(c) \/ TomaNull(c) \/ LeeLiberado(c) \/ EliminaNull(c)
    BY <1>15 DEF RegistraNada, TomaNull, LeeLiberado, EliminaNull, Muere
  <1>16. CASE UNCHANGED vars
    BY <1>16 DEF vars
  <1> QED
    BY <1>1, <1>2, <1>3, <1>4, <1>5, <1>6, <1>7, <1>8, <1>9, <1>10, <1>11, <1>12, <1>13, <1>14,
       <1>15, <1>16 DEF Next, atender_io

\* Every step keeps what each thread holds.
LEMMA HilosPaso == TypeOK /\ HilosInv /\ ColasInv /\ [Next]_vars => HilosInv'
  <1> SUFFICES ASSUME TypeOK, HilosInv, ColasInv, [Next]_vars PROVE HilosInv'
    OBVIOUS
  <1> USE InterfacesOK DEF proceso, registro, conexion, hilo, interfaz, pcp, con, historia
  <1>1. TurnosInv'
    BY TurnosPaso DEF HilosInv
  <1>2. PcpInv'
    <2> USE DEF HilosInv, TypeOK
    <2>1. CASE \E c \in Interfaz : Desbloquea(c)
      <3> PICK c \in Interfaz : Desbloquea(c)
        BY <2>1
      <3>1. lugar[Pid(Head(bloqueados[c]))] = "bloqueado"
        BY PrimeroLema DEF Desbloquea, Sigue
      <3> QED  BY <3>1, PcpQuieto DEF Desbloquea
    <2>2. CASE \E c \in Interfaz : EliminaSaca(c)
      <3> PICK c \in Interfaz : EliminaSaca(c)
        BY <2>2
      <3>1. lugar[Pid(Head(bloqueados[c]))] = "bloqueado"
        BY PrimeroLema DEF EliminaSaca
      <3> QED  BY <3>1, PcpQuieto DEF EliminaSaca, Eliminar
    <2>3. CASE Busca
      BY <2>3, EncontradoLema, PcpQuieto DEF Busca, Eliminar
    <2>4. CASE \E p \in Pids, i \in Instrucciones : Pide(p, i)
      BY <2>4 DEF Pide, PcpInv
    <2>5. CASE Existe
      BY <2>5 DEF Existe, PcpInv
    <2>6. CASE interfaz_invalida
      BY <2>6 DEF interfaz_invalida, Eliminar, PcpInv
    <2>7. CASE interfaz_soporta_operacion
      BY <2>7 DEF interfaz_soporta_operacion, PcpInv
    <2>8. CASE Obtiene
      <3>1. interfaces_conectadas[Buscada] \in Interfaz
        BY <2>8, BuscadaLema DEF Obtiene, Conectada
      <3> QED  BY <2>8, <3>1 DEF Obtiene, PcpInv
    <2>9. CASE Encola
      BY <2>9 DEF Encola, PcpInv
    <2>10. CASE Avisa
      BY <2>10 DEF Avisa, PcpInv
    <2>11. CASE UNCHANGED <<pcp, pedidos, pedida, lugar>>
      BY <2>11, PcpQuieto
    <2>12. CASE \E c \in Interfaz : atender_io(c) /\ ~Desbloquea(c) /\ ~EliminaSaca(c)
      BY <2>12, <2>11 DEF atender_io, Registra, RegistraNada, AgregaNombre, Toma, TomaNull,
                          Envia, LeeLiberado,
                   Recibe, RecibeError, Descarta, EliminaVe, EliminaNull, QuitaDic, QuitaNombre,
                   Libera, Muere
    <2>13. CASE (\E c \in Interfaz : Hace(c) \/ Cae(c) \/ \E n \in Nombres : Conecta(c, n))
                \/ PcpSinInterfaz \/ Obtener \/ ObtenerNull \/ NoEsta \/ NoEncontrado
                \/ Pausa \/ (\E p \in Pids : Finaliza(p)) \/ UNCHANGED vars
      BY <2>13, <2>11 DEF Hace, Cae, Conecta, PcpSinInterfaz, Obtener, ObtenerNull, NoEsta,
                   NoEncontrado, Finaliza, Pausa, pausar_planificacion, reanudar_planificacion,
                   Muere, vars
    <2> QED
      BY <2>1, <2>2, <2>3, <2>4, <2>5, <2>6, <2>7, <2>8, <2>9, <2>10, <2>12, <2>13
         DEF Next, Pcp, Consola
  <1>3. ConInv'
    <2> USE DEF HilosInv, ConInv, TypeOK
    <2>1. CASE Obtener
      <3>1. /\ con_i \in 1..Len(nombres_interfaces)
            /\ nombres_interfaces[con_i] \in Nombres
        BY <2>1, LenProperties DEF Obtener
      <3>2. interfaces_conectadas[nombres_interfaces[con_i]] \in Interfaz
        BY <2>1, <3>1 DEF Obtener, Conectada
      <3> QED  BY <2>1, <3>2 DEF Obtener
    <2>2. CASE Busca \/ NoEsta \/ NoEncontrado
      BY <2>2 DEF Busca, NoEsta, NoEncontrado
    <2>3. CASE Pausa \/ \E p \in Pids : Finaliza(p)
      BY <2>3 DEF Finaliza, Pausa, pausar_planificacion, reanudar_planificacion
    <2>4. CASE UNCHANGED <<con, pcp_pc>>
      BY <2>4
    <2>5. CASE \E c \in Interfaz : atender_io(c)
      BY <2>5, <2>4 DEF atender_io, Registra, RegistraNada, AgregaNombre, Toma, TomaNull, Envia,
                        LeeLiberado,
                   Recibe, RecibeError, Desbloquea, Descarta, EliminaVe, EliminaSaca, EliminaNull,
                   QuitaDic, QuitaNombre, Libera, Muere
    <2>6. CASE \E c \in Interfaz : Hace(c) \/ Cae(c) \/ \E n \in Nombres : Conecta(c, n)
      BY <2>6, <2>4 DEF Hace, Cae, Conecta
    <2>7. CASE PcpSinInterfaz \/ ObtenerNull \/ UNCHANGED vars
      BY <2>7, <2>4 DEF PcpSinInterfaz, ObtenerNull, Muere, vars
    <2>8. CASE UNCHANGED con /\ ~planificacion_pausada
      BY <2>8
    <2>9. CASE \/ Existe \/ interfaz_invalida \/ interfaz_soporta_operacion \/ Obtiene \/ Encola
               \/ Avisa \/ \E p \in Pids, i \in Instrucciones : Pide(p, i)
      <3>1. UNCHANGED con
        BY <2>9 DEF Existe, interfaz_invalida, interfaz_soporta_operacion, Obtiene, Encola, Avisa,
                    Pide
      <3>2. ~planificacion_pausada
        BY <2>9 DEF Existe, interfaz_invalida, interfaz_soporta_operacion, Obtiene, Encola, Avisa,
                    Pide
      <3> QED  BY <3>1, <3>2, <2>8
    <2> QED  BY <2>1, <2>2, <2>3, <2>5, <2>6, <2>7, <2>9 DEF Next, Pcp, Consola
  <1> QED  BY <1>1, <1>2, <1>3 DEF HilosInv

-----------------------------------------------------------------------------
(* The dictionary                                                           *)

\* What a thread does while it is in the dictionary does not take it out.
LEMMA DiccionarioQuieto ==
  ASSUME TypeOK, DiccionarioInv, UNCHANGED <<interfaces_conectadas, nombre, con_interfaz>>,
         \/ UNCHANGED hilo_pc
         \/ \E c \in Interfaz, x \in EnElDiccionario :
               hilo_pc[c] \in EnElDiccionario /\ hilo_pc' = [hilo_pc EXCEPT ![c] = x]
  PROVE  DiccionarioInv'
  <1>1. \A e \in Interfaz : hilo_pc[e] \in EnElDiccionario => hilo_pc'[e] \in EnElDiccionario
    BY DEF TypeOK
  <1>2. \A e \in Interfaz : hilo_pc[e] \in EnElDiccionario \cup {"quita_nombre"}
                            => hilo_pc'[e] \in EnElDiccionario \cup {"quita_nombre"}
    BY DEF TypeOK, EnElDiccionario, Atendiendo
  <1> QED  BY <1>1, <1>2 DEF DiccionarioInv, TypeOK

\* Every step keeps what the dictionary has and what the console looks at.
LEMMA DiccionarioPaso == TypeOK /\ HilosInv /\ DiccionarioInv /\ [Next]_vars => DiccionarioInv'
  <1> SUFFICES ASSUME TypeOK, HilosInv, DiccionarioInv, [Next]_vars PROVE DiccionarioInv'
    OBVIOUS
  <1>0. /\ \A n \in Nombres : interfaces_conectadas[n] \in Interfaz \cup {Nada}
        /\ con_interfaz \in Interfaz \cup {Nada}
    BY DEF TypeOK
  <1> USE InterfacesOK DEF proceso, registro, conexion, hilo, interfaz, pcp, con, historia, Va
  <1>1. CASE \E c \in Interfaz : Registra(c)
    <2> PICK c \in Interfaz : Registra(c)
      BY <1>1
    <2>1. nombre[c] \in Nombres
      BY DEF Registra, HilosInv, TurnosInv
    <2>2. hilo_pc[c] \notin EnElDiccionario \cup {"quita_nombre"} /\ hilo_pc'[c] \in EnElDiccionario
      BY DEF Registra, EnElDiccionario, Atendiendo, TypeOK
    <2>3. \A n \in Nombres \ {nombre[c]} : interfaces_conectadas'[n] = interfaces_conectadas[n]
      BY DEF Registra, TypeOK
    <2>4. interfaces_conectadas'[nombre[c]] = c
      BY <2>1 DEF Registra, TypeOK
    <2>5. \A e \in Interfaz \ {c} : hilo_pc'[e] = hilo_pc[e]
      BY DEF Registra, TypeOK
    <2>6. UNCHANGED <<nombre, con_interfaz>>
      BY DEF Registra
    <2>8. \A n \in Nombres : interfaces_conectadas'[n] # Nada =>
             /\ nombre'[interfaces_conectadas'[n]] = n
             /\ hilo_pc'[interfaces_conectadas'[n]] \in EnElDiccionario
      BY <2>1, <2>2, <2>3, <2>4, <2>5, <2>6, <1>0 DEF DiccionarioInv
    <2>9. con_interfaz' # Nada =>
             hilo_pc'[con_interfaz'] \in EnElDiccionario \cup {"quita_nombre"}
      BY <2>1, <2>2, <2>3, <2>4, <2>5, <2>6, <1>0 DEF DiccionarioInv
    <2> QED  BY <2>8, <2>9 DEF DiccionarioInv
  <1>2. CASE \E c \in Interfaz : QuitaDic(c)
    <2> PICK c \in Interfaz : QuitaDic(c)
      BY <1>2
    <2>1. nombre[c] \in Nombres
      BY DEF QuitaDic, HilosInv, TurnosInv
    <2>2. hilo_pc'[c] = "quita_nombre"
      BY DEF QuitaDic, TypeOK
    <2>3. \A n \in Nombres \ {nombre[c]} : interfaces_conectadas'[n] = interfaces_conectadas[n]
      BY DEF QuitaDic, TypeOK
    <2>4. interfaces_conectadas'[nombre[c]] = Nada
      BY <2>1 DEF QuitaDic, TypeOK
    <2>5. \A e \in Interfaz \ {c} : hilo_pc'[e] = hilo_pc[e]
      BY DEF QuitaDic, TypeOK
    <2>6. UNCHANGED <<nombre, con_interfaz>>
      BY DEF QuitaDic
    <2>8. \A n \in Nombres : interfaces_conectadas'[n] # Nada =>
             /\ nombre'[interfaces_conectadas'[n]] = n
             /\ hilo_pc'[interfaces_conectadas'[n]] \in EnElDiccionario
      BY <2>1, <2>2, <2>3, <2>4, <2>5, <2>6, <1>0 DEF DiccionarioInv
    <2>9. con_interfaz' # Nada =>
             hilo_pc'[con_interfaz'] \in EnElDiccionario \cup {"quita_nombre"}
      BY <2>1, <2>2, <2>3, <2>4, <2>5, <2>6, <1>0 DEF DiccionarioInv
    <2> QED  BY <2>8, <2>9 DEF DiccionarioInv
  <1>3. CASE \E c \in Interfaz : QuitaNombre(c) \/ Libera(c)
    <2> PICK c \in Interfaz : QuitaNombre(c) \/ Libera(c)
      BY <1>3
    <2>1. hilo_pc[c] \in {"quita_nombre", "libera"} /\ (hilo_pc[c] = "quita_nombre" => con_pc = "libre")
      BY DEF QuitaNombre, Libera, ConNombres, NombresLibres
    <2>2. hilo_pc[c] = "quita_nombre" => con_interfaz = Nada
      BY <2>1 DEF HilosInv, ConInv
    <2>3. hilo_pc[c] \notin EnElDiccionario
      BY <2>1 DEF EnElDiccionario, Atendiendo
    <2>4. \A e \in Interfaz \ {c} : hilo_pc'[e] = hilo_pc[e]
      BY DEF QuitaNombre, Libera, TypeOK
    <2>5. UNCHANGED <<interfaces_conectadas, nombre, con_interfaz>>
      BY DEF QuitaNombre, Libera
    <2>8. \A n \in Nombres : interfaces_conectadas'[n] # Nada =>
             /\ nombre'[interfaces_conectadas'[n]] = n
             /\ hilo_pc'[interfaces_conectadas'[n]] \in EnElDiccionario
      BY <2>1, <2>2, <2>3, <2>4, <2>5, <1>0 DEF DiccionarioInv
    <2>9. con_interfaz' # Nada =>
             hilo_pc'[con_interfaz'] \in EnElDiccionario \cup {"quita_nombre"}
      BY <2>1, <2>2, <2>3, <2>4, <2>5, <1>0 DEF DiccionarioInv
    <2> QED  BY <2>8, <2>9 DEF DiccionarioInv
  <1>4. CASE \E c \in Interfaz, n \in Nombres : Conecta(c, n)
    <2> PICK c \in Interfaz, m \in Nombres : Conecta(c, m)
      BY <1>4
    <2>1. hilo_pc[c] \notin EnElDiccionario \cup {"quita_nombre"}
      BY DEF Conecta, EnElDiccionario, Atendiendo
    <2>2. \A e \in Interfaz \ {c} : hilo_pc'[e] = hilo_pc[e] /\ nombre'[e] = nombre[e]
      BY DEF Conecta, TypeOK
    <2>3. UNCHANGED <<interfaces_conectadas, con_interfaz>>
      BY DEF Conecta
    <2>8. \A n \in Nombres : interfaces_conectadas'[n] # Nada =>
             /\ nombre'[interfaces_conectadas'[n]] = n
             /\ hilo_pc'[interfaces_conectadas'[n]] \in EnElDiccionario
      BY <2>1, <2>2, <2>3, <1>0 DEF DiccionarioInv
    <2>9. con_interfaz' # Nada =>
             hilo_pc'[con_interfaz'] \in EnElDiccionario \cup {"quita_nombre"}
      BY <2>1, <2>2, <2>3, <1>0 DEF DiccionarioInv
    <2> QED  BY <2>8, <2>9 DEF DiccionarioInv
  <1>5. CASE Obtener
    <2>1. /\ con_i \in 1..Len(nombres_interfaces)
          /\ nombres_interfaces[con_i] \in Nombres
      BY <1>5, LenProperties DEF Obtener, HilosInv, ConInv, TypeOK
    <2>2. con_interfaz' = interfaces_conectadas[nombres_interfaces[con_i]] /\ con_interfaz' # Nada
      BY <1>5 DEF Obtener, Conectada
    <2>3. UNCHANGED <<interfaces_conectadas, nombre, hilo_pc>>
      BY <1>5 DEF Obtener
    <2> QED  BY <2>1, <2>2, <2>3 DEF DiccionarioInv, TypeOK
  <1>6. CASE Busca \/ NoEsta \/ NoEncontrado
    <2>1. UNCHANGED <<interfaces_conectadas, nombre, hilo_pc>> /\ (con_interfaz' = Nada \/ UNCHANGED con_interfaz)
      BY <1>6 DEF Busca, NoEsta, NoEncontrado
    <2> QED  BY <2>1 DEF DiccionarioInv, TypeOK
  <1>7. CASE \E c \in Interfaz : \/ AgregaNombre(c) \/ Toma(c) \/ Envia(c) \/ Recibe(c)
                                 \/ RecibeError(c) \/ Desbloquea(c) \/ Descarta(c)
                                 \/ EliminaVe(c) \/ EliminaSaca(c)
    <2> PICK c \in Interfaz : \/ AgregaNombre(c) \/ Toma(c) \/ Envia(c) \/ Recibe(c)
                             \/ RecibeError(c) \/ Desbloquea(c) \/ Descarta(c)
                             \/ EliminaVe(c) \/ EliminaSaca(c)
      BY <1>7
    <2>1. UNCHANGED <<interfaces_conectadas, nombre, con_interfaz>>
      BY DEF AgregaNombre, Toma, Envia, Recibe, RecibeError, Desbloquea, Descarta, EliminaVe,
             EliminaSaca
    <2>2. \E x \in EnElDiccionario :
             hilo_pc[c] \in EnElDiccionario /\ hilo_pc' = [hilo_pc EXCEPT ![c] = x]
      BY DEF AgregaNombre, Toma, Envia, Recibe, RecibeError, Desbloquea, Descarta, EliminaVe,
             EliminaSaca, TrasCaerse, EnElDiccionario, Atendiendo
    <2> QED  BY <2>1, <2>2, DiccionarioQuieto
  <1>8. CASE UNCHANGED <<interfaces_conectadas, nombre, hilo_pc, con_interfaz>>
    BY <1>8, DiccionarioQuieto
  <1>9. CASE \E c \in Interfaz : Hace(c) \/ Cae(c)
    BY <1>9, <1>8 DEF Hace, Cae
  <1>10. CASE \/ Pcp \/ Pausa \/ ObtenerNull
              \/ \E p \in Pids : Finaliza(p) \/ \E i \in Instrucciones : Pide(p, i)
    BY <1>10, <1>8 DEF Pcp, Existe, interfaz_invalida, interfaz_soporta_operacion, Obtiene, Encola,
                 Avisa, PcpSinInterfaz, ObtenerNull, Finaliza, Pausa, pausar_planificacion,
                 reanudar_planificacion, Pide, Muere
  <1>11. CASE \/ \E c \in Interfaz : \/ RegistraNada(c) \/ TomaNull(c) \/ LeeLiberado(c)
                                    \/ EliminaNull(c)
              \/ UNCHANGED vars
    BY <1>11, <1>8 DEF RegistraNada, TomaNull, LeeLiberado, EliminaNull, Muere, vars
  <1> QED
    BY <1>1, <1>2, <1>3, <1>4, <1>5, <1>6, <1>7, <1>9, <1>10, <1>11 DEF Next, atender_io, Consola

-----------------------------------------------------------------------------
(* The queues                                                               *)

\* Taking an operation out of its queue takes it out of every queue.
LEMMA RangosSaca ==
  ASSUME TypeOK, ColasInv, NEW c \in Interfaz, NEW d \in Range(bloqueados[c]), NEW q \in Seq(Dir),
         IsInjective(q), Range(q) = Range(bloqueados[c]) \ {d},
         bloqueados' = [bloqueados EXCEPT ![c] = q]
  PROVE  \A e \in Interfaz : /\ Range(bloqueados'[e]) = Range(bloqueados[e]) \ {d}
                            /\ IsInjective(bloqueados'[e])
  <1> SUFFICES ASSUME NEW e \in Interfaz
               PROVE  /\ Range(bloqueados'[e]) = Range(bloqueados[e]) \ {d}
                      /\ IsInjective(bloqueados'[e])
    OBVIOUS
  <1>1. CASE e = c
    BY <1>1 DEF TypeOK
  <1>2. CASE e # c
    <2>1. d \notin Range(bloqueados[e])
      BY <1>2 DEF ColasInv
    <2> QED  BY <1>2, <2>1 DEF ColasInv, TypeOK
  <1> QED  BY <1>1, <1>2

\* Taking an operation out of its queue, whoever does it, and freeing it.
LEMMA ColasSaca ==
  ASSUME TypeOK, ColasInv, NEW c \in Interfaz, NEW d \in Range(bloqueados[c]), NEW q \in Seq(Dir),
         IsInjective(q), Range(q) = Range(bloqueados[c]) \ {d},
         bloqueados' = [bloqueados EXCEPT ![c] = q], heap' = [heap EXCEPT ![d] = Nada],
         \A p \in Pids \ {Pid(d)} : lugar'[p] = lugar[p]
  PROVE  ColasInv'
  <1>1. \A e \in Interfaz : /\ Range(bloqueados'[e]) = Range(bloqueados[e]) \ {d}
                            /\ IsInjective(bloqueados'[e])
    BY RangosSaca
  <1>2. \A e \in Interfaz : \A f \in Range(bloqueados[e]) \ {d} :
           /\ heap'[f] = heap[f] /\ heap[f] # Nada /\ f \in Dir /\ Pid(f)' = Pid(f)
           /\ lugar[Pid(f)] = "bloqueado" /\ lugar'[Pid(f)] = lugar[Pid(f)]
    <2> SUFFICES ASSUME NEW e \in Interfaz, NEW f \in Range(bloqueados[e]), f # d
                 PROVE  /\ heap'[f] = heap[f] /\ heap[f] # Nada /\ f \in Dir /\ Pid(f)' = Pid(f)
                        /\ lugar[Pid(f)] = "bloqueado" /\ lugar'[Pid(f)] = lugar[Pid(f)]
      OBVIOUS
    <2>1. f \in Dir /\ heap[f] # Nada /\ Pid(f) \in Pids /\ lugar[Pid(f)] = "bloqueado"
      BY EncoladoLema
    <2>2. heap'[f] = heap[f]
      BY <2>1 DEF TypeOK
    <2>3. Pid(f) # Pid(d)
      BY DEF ColasInv
    <2> QED  BY <2>1, <2>2, <2>3 DEF Pid
  <1>3. \A e \in Interfaz : \A f \in Range(bloqueados'[e]) : heap'[f] # Nada /\ lugar'[Pid(f)'] = "bloqueado"
    BY <1>1, <1>2
  <1>4. \A e, g \in Interfaz : \A f \in Range(bloqueados'[e]), h \in Range(bloqueados'[g]) :
           Pid(f)' = Pid(h)' => e = g /\ f = h
    <2>1. \A e, g \in Interfaz : \A f \in Range(bloqueados[e]), h \in Range(bloqueados[g]) :
             Pid(f) = Pid(h) => e = g /\ f = h
      BY DEF ColasInv
    <2> SUFFICES ASSUME NEW e \in Interfaz, NEW g \in Interfaz, NEW f \in Range(bloqueados'[e]),
                        NEW h \in Range(bloqueados'[g]), Pid(f)' = Pid(h)'
                 PROVE  e = g /\ f = h
      BY DEF Pid
    <2>2. /\ f \in Range(bloqueados[e]) \ {d} /\ h \in Range(bloqueados[g]) \ {d}
      BY <1>1
    <2>3. Pid(f) = Pid(h)
      BY <1>2, <2>2
    <2> QED  BY <2>1, <2>2, <2>3
  <1> QED  BY <1>1, <1>3, <1>4 DEF ColasInv, Pid

\* What does not touch the queues nor a blocked process.
LEMMA ColasQuietas ==
  ASSUME TypeOK, ColasInv, UNCHANGED <<bloqueados, heap>>,
         \A p \in Pids : lugar[p] = "bloqueado" => lugar'[p] = "bloqueado"
  PROVE  ColasInv'
  <1>1. \A e \in Interfaz : \A f \in Range(bloqueados[e]) :
           heap[f] # Nada /\ Pid(f) \in Pids /\ lugar'[Pid(f)] = "bloqueado"
    BY EncoladoLema
  <1> QED  BY <1>1 DEF ColasInv, Pid

\* The first of a queue goes out of it when it is unblocked, or eliminated with its interface.
LEMMA PrimeroSale ==
  ASSUME TypeOK, ColasInv, NEW c \in Interfaz, Desbloquea(c) \/ EliminaSaca(c)
  PROVE  \E d \in Range(bloqueados[c]), q \in Seq(Dir) :
            /\ d = Head(bloqueados[c]) /\ d \in Dir /\ IsInjective(q) /\ Range(q) = Range(bloqueados[c]) \ {d}
            /\ bloqueados' = [bloqueados EXCEPT ![c] = q] /\ heap' = [heap EXCEPT ![d] = Nada]
            /\ \A p \in Pids \ {Pid(d)} : lugar'[p] = lugar[p]
  <1> DEFINE d == Head(bloqueados[c])
             q == Tail(bloqueados[c])
  <1>1. bloqueados[c] # <<>> /\ bloqueados[c] \in Seq(Dir) /\ IsInjective(bloqueados[c])
    BY DEF Desbloquea, Sigue, EliminaSaca, TypeOK, ColasInv
  <1>2. /\ d \in Range(bloqueados[c]) /\ d \in Dir /\ q \in Seq(Dir) /\ IsInjective(q)
        /\ Range(q) = Range(bloqueados[c]) \ {d}
    BY <1>1, ColaPrimero
  <1>3. /\ bloqueados' = [bloqueados EXCEPT ![c] = q] /\ heap' = [heap EXCEPT ![d] = Nada]
        /\ \A p \in Pids \ {Pid(d)} : lugar'[p] = lugar[p]
    BY DEF Desbloquea, EliminaSaca, Saca, Eliminar, TypeOK
  <1> QED  BY <1>2, <1>3

\* The one of the process the console looks for goes out of its queue.
LEMMA BuscadoSale ==
  ASSUME TypeOK, HilosInv, ColasInv, Busca
  PROVE  /\ con_interfaz \in Interfaz
         /\ \E d \in Range(bloqueados[con_interfaz]), q \in Seq(Dir) :
              /\ Pid(d) = con_pid /\ d \in Dir
              /\ IsInjective(q) /\ Range(q) = Range(bloqueados[con_interfaz]) \ {d}
              /\ bloqueados' = [bloqueados EXCEPT ![con_interfaz] = q]
              /\ heap' = [heap EXCEPT ![d] = Nada]
              /\ \A p \in Pids \ {Pid(d)} : lugar'[p] = lugar[p]
  <1> DEFINE c == con_interfaz
             d == ElDe(bloqueados[c])
             q == Quitar(bloqueados[c], d)
  <1>1. /\ c \in Interfaz /\ d \in Range(bloqueados[c]) /\ Pid(d) = con_pid /\ d \in Dir
        /\ bloqueados[c] \in Seq(Dir) /\ IsInjective(bloqueados[c])
    BY EncontradoLema, EncoladoLema
  <1>2. bloqueados' = [bloqueados EXCEPT ![c] = q] /\ heap' = [heap EXCEPT ![d] = Nada]
    BY DEF Busca
  <1>3. \A p \in Pids \ {Pid(d)} : lugar'[p] = lugar[p]
    BY <1>1 DEF Busca, Eliminar, TypeOK
  <1> HIDE DEF c, d
  <1>4. q \in Seq(Dir) /\ IsInjective(q) /\ Range(q) = Range(bloqueados[c]) \ {d}
    BY <1>1, ColaQuita
  <1> HIDE DEF q
  <1>5. \E x \in Range(bloqueados[c]), y \in Seq(Dir) :
           /\ Pid(x) = con_pid /\ x \in Dir /\ IsInjective(y) /\ Range(y) = Range(bloqueados[c]) \ {x}
           /\ bloqueados' = [bloqueados EXCEPT ![c] = y] /\ heap' = [heap EXCEPT ![x] = Nada]
           /\ \A p \in Pids \ {Pid(x)} : lugar'[p] = lugar[p]
    BY <1>1, <1>2, <1>3, <1>4
  <1> QED  BY <1>1, <1>5 DEF c

\* Every step keeps the queues.
LEMMA ColasPaso ==
  TypeOK /\ HilosInv /\ ColasInv /\ [Next]_vars => ColasInv'
  <1> SUFFICES ASSUME TypeOK, HilosInv, ColasInv, [Next]_vars PROVE ColasInv'
    OBVIOUS
  <1> USE InterfacesOK DEF proceso, registro, conexion, hilo, interfaz, pcp, con, historia, Va
  <1>1. CASE \E c \in Interfaz : Desbloquea(c) \/ EliminaSaca(c)
    BY <1>1, PrimeroSale, ColasSaca
  <1>2. CASE Busca
    BY <1>2, BuscadoSale, ColasSaca
  <1>3. CASE Encola
    <2> DEFINE c == pcp_interfaz
    <2>1. /\ pcp_pid \in Pids /\ pedida[pcp_pid] \in Instrucciones /\ pedidos \in Dir
          /\ c \in Interfaz /\ lugar[pcp_pid] = "pcp" /\ pcp_pc = "encola"
      BY <1>3, BuscadaLema DEF Encola, HilosInv, PcpInv, TypeOK
    <2>2. PICK d \in Malloc :
              /\ heap' = [heap EXCEPT ![d] = Bloqueado(pcp_pid, pedida[pcp_pid])]
              /\ bloqueados' = [bloqueados EXCEPT ![c] = Append(bloqueados[c], d)]
      BY <1>3 DEF Encola
    <2>3. d \in Dir /\ heap[d] = Nada
      BY <2>1, <2>2 DEF Malloc, Dir
    <2> HIDE DEF c
    <2>4. \A e \in Interfaz : \A f \in Range(bloqueados[e]) :
             /\ f # d /\ heap'[f] = heap[f] /\ heap[f] # Nada /\ Pid(f)' = Pid(f)
             /\ Pid(f) # pcp_pid /\ lugar'[Pid(f)] = "bloqueado"
      <3> SUFFICES ASSUME NEW e \in Interfaz, NEW f \in Range(bloqueados[e])
                   PROVE  /\ f # d /\ heap'[f] = heap[f] /\ heap[f] # Nada /\ Pid(f)' = Pid(f)
                          /\ Pid(f) # pcp_pid /\ lugar'[Pid(f)] = "bloqueado"
        OBVIOUS
      <3>1. f \in Dir /\ heap[f] # Nada /\ Pid(f) \in Pids /\ lugar[Pid(f)] = "bloqueado"
        BY EncoladoLema
      <3>2. f # d /\ heap'[f] = heap[f]
        BY <3>1, <2>2, <2>3 DEF TypeOK
      <3>3. Pid(f) # pcp_pid /\ lugar'[Pid(f)] = "bloqueado"
        BY <3>1, <2>1, <1>3 DEF Encola, TypeOK
      <3> QED  BY <3>1, <3>2, <3>3 DEF Pid
    <2>5. /\ heap'[d] = Bloqueado(pcp_pid, pedida[pcp_pid]) /\ lugar'[pcp_pid] = "bloqueado"
      BY <1>3, <2>1, <2>2, <2>3 DEF Encola, TypeOK
    <2>6. heap'[d] # Nada /\ Pid(d)' = pcp_pid
      BY <2>1, <2>5 DEF Pid, Bloqueado
    <2>7. \A e \in Interfaz : /\ IsInjective(bloqueados'[e])
                              /\ Range(bloqueados'[e]) = IF e = c THEN Range(bloqueados[e]) \cup {d}
                                                         ELSE Range(bloqueados[e])
      <3> SUFFICES ASSUME NEW e \in Interfaz
                   PROVE  /\ IsInjective(bloqueados'[e])
                          /\ Range(bloqueados'[e]) = IF e = c THEN Range(bloqueados[e]) \cup {d}
                                                     ELSE Range(bloqueados[e])
        OBVIOUS
      <3>1. bloqueados[e] \in Seq(Dir) /\ IsInjective(bloqueados[e]) /\ d \notin Range(bloqueados[e])
        BY <2>4 DEF ColasInv, TypeOK
      <3>2. CASE e = c
        <4>1. bloqueados'[e] = Append(bloqueados[e], d)
          BY <3>2, <2>2 DEF TypeOK
        <4> QED  BY <4>1, <3>1, <3>2, <2>3, ColaAgrega
      <3>3. CASE e # c
        BY <3>1, <3>3, <2>2 DEF TypeOK
      <3> QED  BY <3>2, <3>3
    <2>8. \A e \in Interfaz : \A f \in Range(bloqueados'[e]) :
             heap'[f] # Nada /\ lugar'[Pid(f)'] = "bloqueado"
      <3> SUFFICES ASSUME NEW e \in Interfaz, NEW f \in Range(bloqueados'[e])
                   PROVE  heap'[f] # Nada /\ lugar'[heap'[f].pid] = "bloqueado"
        BY DEF Pid
      <3>1. CASE f = d
        BY <3>1, <2>5, <2>6 DEF Pid
      <3>2. CASE f # d
        <4>1. f \in Range(bloqueados[e])
          BY <3>2, <2>7
        <4> QED  BY <4>1, <2>4 DEF Pid
      <3> QED  BY <3>1, <3>2
    <2>9. \A e, g \in Interfaz : \A f \in Range(bloqueados'[e]), h \in Range(bloqueados'[g]) :
             Pid(f)' = Pid(h)' => e = g /\ f = h
      <3>1. \A e, g \in Interfaz : \A f \in Range(bloqueados[e]), h \in Range(bloqueados[g]) :
               Pid(f) = Pid(h) => e = g /\ f = h
        BY DEF ColasInv
      <3> SUFFICES ASSUME NEW e \in Interfaz, NEW g \in Interfaz, NEW f \in Range(bloqueados'[e]),
                          NEW h \in Range(bloqueados'[g]), Pid(f)' = Pid(h)'
                   PROVE  e = g /\ f = h
        BY DEF Pid
      <3>2. CASE f = d \/ h = d
        <4>0. heap'[f].pid = heap'[h].pid /\ heap'[d].pid = pcp_pid
          BY <2>6 DEF Pid
        <4>1. \A x \in Interfaz : \A y \in Range(bloqueados[x]) : heap'[y].pid # pcp_pid
          BY <2>4 DEF Pid
        <4>2. \A x \in Interfaz : \A y \in Range(bloqueados'[x]) :
                 heap'[y].pid = pcp_pid => x = c /\ y = d
          BY <4>1, <2>7
        <4> QED  BY <3>2, <4>0, <4>2
      <3>3. CASE f # d /\ h # d
        <4>1. f \in Range(bloqueados[e]) /\ h \in Range(bloqueados[g])
          BY <3>3, <2>7
        <4>2. Pid(f) = Pid(h)
          BY <4>1, <2>4
        <4> QED  BY <4>1, <4>2, <3>1
      <3> QED  BY <3>2, <3>3
    <2> QED  BY <2>7, <2>8, <2>9 DEF ColasInv, Pid
  <1>4. CASE \E p \in Pids, i \in Instrucciones : Pide(p, i)
    BY <1>4, ColasQuietas DEF Pide, TypeOK
  <1>5. CASE interfaz_invalida
    <2>1. lugar[pcp_pid] = "pcp"
      BY <1>5 DEF interfaz_invalida, HilosInv, PcpInv
    <2> QED  BY <1>5, <2>1, ColasQuietas DEF interfaz_invalida, Eliminar, TypeOK
  <1>6. CASE UNCHANGED <<bloqueados, heap, lugar>>
    BY <1>6, ColasQuietas
  <1>7. CASE \E c \in Interfaz : \/ atender_io(c) /\ ~Desbloquea(c) /\ ~EliminaSaca(c)
                                 \/ Hace(c) \/ Cae(c) \/ \E n \in Nombres : Conecta(c, n)
    BY <1>7, <1>6 DEF atender_io, Registra, RegistraNada, AgregaNombre, Toma, TomaNull, Envia,
                      LeeLiberado, Recibe,
                 RecibeError, Descarta, EliminaVe, EliminaNull, QuitaDic, QuitaNombre, Libera,
                 Muere, Hace, Cae, Conecta
  <1>8. CASE Existe \/ interfaz_soporta_operacion \/ Obtiene \/ Avisa \/ PcpSinInterfaz
    BY <1>8, <1>6 DEF Existe, interfaz_soporta_operacion, Obtiene, Avisa, PcpSinInterfaz, Muere
  <1>9. CASE \/ Obtener \/ ObtenerNull \/ NoEsta \/ NoEncontrado \/ Pausa
             \/ (\E p \in Pids : Finaliza(p)) \/ UNCHANGED vars
    BY <1>9, <1>6 DEF Obtener, ObtenerNull, NoEsta, NoEncontrado, Finaliza, Pausa,
                      pausar_planificacion, reanudar_planificacion, Muere, vars
  <1> QED  BY <1>1, <1>2, <1>3, <1>4, <1>5, <1>7, <1>8, <1>9 DEF Next, Pcp, Consola

\* Every step keeps the count of eliminations.
LEMMA EliminadosPaso ==
  TypeOK /\ HilosInv /\ EliminadosInv /\ ColasInv /\ [Next]_vars => EliminadosInv'
  <1> SUFFICES ASSUME TypeOK, HilosInv, EliminadosInv, ColasInv, [Next]_vars PROVE EliminadosInv'
    OBVIOUS
  <1> USE InterfacesOK DEF proceso, registro, conexion, hilo, interfaz, pcp, con, historia, Va
  <1>0. ASSUME NEW x \in Pids, lugar[x] # "EXIT", Eliminar(x) PROVE EliminadosInv'
    BY <1>0 DEF Eliminar, EliminadosInv, TypeOK
  <1>1. CASE \E c \in Interfaz : Desbloquea(c)
    <2> PICK c \in Interfaz : Desbloquea(c)
      BY <1>1
    <2>1. lugar[Pid(Head(bloqueados[c]))] = "bloqueado"
      BY PrimeroLema DEF Desbloquea, Sigue
    <2> QED  BY <2>1 DEF Desbloquea, EliminadosInv, TypeOK
  <1>2. CASE \E c \in Interfaz : EliminaSaca(c)
    <2> PICK c \in Interfaz : EliminaSaca(c)
      BY <1>2
    <2>1. Pid(Head(bloqueados[c])) \in Pids /\ lugar[Pid(Head(bloqueados[c]))] = "bloqueado"
      BY PrimeroLema DEF EliminaSaca
    <2> QED  BY <2>1, <1>0 DEF EliminaSaca
  <1>3. CASE Busca
    BY <1>3, EncontradoLema, <1>0 DEF Busca
  <1>4. CASE interfaz_invalida
    <2>1. pcp_pid \in Pids /\ lugar[pcp_pid] = "pcp"
      BY <1>4, BuscadaLema DEF interfaz_invalida, HilosInv, PcpInv
    <2> QED  BY <1>4, <2>1, <1>0 DEF interfaz_invalida
  <1>5. CASE Encola
    <2>1. lugar[pcp_pid] = "pcp"
      BY <1>5 DEF Encola, HilosInv, PcpInv
    <2> QED  BY <1>5, <2>1 DEF Encola, EliminadosInv, TypeOK
  <1>6. CASE \E p \in Pids, i \in Instrucciones : Pide(p, i)
    BY <1>6 DEF Pide, EliminadosInv, TypeOK
  <1>7. CASE UNCHANGED <<lugar, eliminado>>
    BY <1>7 DEF EliminadosInv
  <1>8. CASE \E c \in Interfaz : \/ atender_io(c) /\ ~Desbloquea(c) /\ ~EliminaSaca(c)
                                 \/ Hace(c) \/ Cae(c) \/ \E n \in Nombres : Conecta(c, n)
    BY <1>8, <1>7 DEF atender_io, Registra, RegistraNada, AgregaNombre, Toma, TomaNull, Envia,
                      LeeLiberado, Recibe,
                 RecibeError, Descarta, EliminaVe, EliminaNull, QuitaDic, QuitaNombre, Libera,
                 Muere, Hace, Cae, Conecta
  <1>9. CASE Existe \/ interfaz_soporta_operacion \/ Obtiene \/ Avisa \/ PcpSinInterfaz
    BY <1>9, <1>7 DEF Existe, interfaz_soporta_operacion, Obtiene, Avisa, PcpSinInterfaz, Muere
  <1>10. CASE \/ Obtener \/ ObtenerNull \/ NoEsta \/ NoEncontrado \/ Pausa
             \/ (\E p \in Pids : Finaliza(p)) \/ UNCHANGED vars
    BY <1>10, <1>7 DEF Obtener, ObtenerNull, NoEsta, NoEncontrado, Finaliza, Pausa,
                       pausar_planificacion, reanudar_planificacion, Muere, vars
  <1> QED  BY <1>1, <1>2, <1>3, <1>4, <1>5, <1>6, <1>8, <1>9, <1>10 DEF Next, Pcp, Consola

-----------------------------------------------------------------------------
(* The units of the semaphores                                              *)

\* What AvisosDe counts.
LEMMA AtendidosTipo ==
  ASSUME TypeOK, NEW c \in Interfaz
  PROVE  /\ procesos_esperando[c] \in Nat /\ Atendidos(c) \in Nat
         /\ bloqueados[c] \in Seq(Dir) /\ Len(bloqueados[c]) \in Nat
  BY LenProperties DEF TypeOK, Atendidos

\* An interface that a step does not touch.
LEMMA AvisosIgual ==
  ASSUME NEW e \in Interfaz, AvisosDe(e), hilo_pc'[e] = hilo_pc[e], hilo_pb'[e] = hilo_pb[e],
         bloqueados'[e] = bloqueados[e], procesos_esperando'[e] = procesos_esperando[e],
         (pcp_pc' = "avisa" /\ pcp_interfaz' = e) <=> (pcp_pc = "avisa" /\ pcp_interfaz = e)
  PROVE  AvisosDe(e)'
  BY DEF AvisosDe, Atendidos

\* A step of the thread of an interface leaves the others as they were.
LEMMA AvisosOtras ==
  ASSUME TypeOK, AvisosInv, NEW c \in Interfaz, NEW e \in Interfaz, e # c, UNCHANGED pcp,
         \A f \in Interfaz \ {c} :
            /\ hilo_pc'[f] = hilo_pc[f] /\ hilo_pb'[f] = hilo_pb[f]
            /\ bloqueados'[f] = bloqueados[f] /\ procesos_esperando'[f] = procesos_esperando[f]
  PROVE  AvisosDe(e)'
  BY AvisosIgual DEF AvisosInv, pcp

\* One that goes on with the same units, and no process in hand or the same.
LEMMA AvisosPc ==
  ASSUME TypeOK, AvisosInv, NEW c \in Interfaz, UNCHANGED <<pcp, interfaz, hilo_pb>>,
         \A e \in Interfaz \ {c} : hilo_pc'[e] = hilo_pc[e],
         \/ hilo_pc'[c] \notin Atendiendo \cup {"nadie", "registra", "agrega_nombre", "espera"}
         \/ hilo_pc[c] \in Atendiendo /\ hilo_pc'[c] \in Atendiendo
         \/ /\ hilo_pc[c] \in {"nadie", "registra", "agrega_nombre", "espera"}
            /\ hilo_pc'[c] \in {"registra", "agrega_nombre", "espera"}
  PROVE  AvisosInv'
  <1>1. AvisosDe(c)'
    BY DEF AvisosInv, AvisosDe, Atendidos, Atendiendo, TypeOK, pcp, interfaz
  <1>2. \A e \in Interfaz \ {c} : AvisosDe(e)'
    BY AvisosIgual DEF AvisosInv, TypeOK, pcp, interfaz
  <1> QED  BY <1>1, <1>2 DEF AvisosInv

\* Every step keeps the units.
LEMMA AvisosPaso ==
  TypeOK /\ HilosInv /\ ColasInv /\ AvisosInv /\ [Next]_vars => AvisosInv'
  <1> SUFFICES ASSUME TypeOK, HilosInv, ColasInv, AvisosInv, [Next]_vars PROVE AvisosInv'
    OBVIOUS
  <1> USE InterfacesOK DEF proceso, registro, conexion, hilo, interfaz, pcp, con, historia, Va
  <1>1. CASE \E c \in Interfaz : Toma(c)
    <2> PICK c \in Interfaz : Toma(c)
      BY <1>1
    <2>1. AvisosDe(c)
      BY DEF AvisosInv
    <2>2. /\ hilo_pc'[c] = "envia" /\ bloqueados'[c] = bloqueados[c]
          /\ hilo_pb'[c] = Head(bloqueados[c]) /\ bloqueados[c] # <<>>
      BY DEF Toma, TypeOK
    <2>3. Atendidos(c)' = Atendidos(c)
      BY AtendidosTipo DEF Toma, Atendidos, TypeOK
    <2>4. AvisosDe(c)'
      BY <2>1, <2>2, <2>3 DEF AvisosDe, Atendiendo, Toma
    <2>5. \A e \in Interfaz \ {c} : AvisosDe(e)'
      BY AvisosOtras DEF Toma, TypeOK
    <2> QED  BY <2>4, <2>5 DEF AvisosInv
  <1>2. CASE \E c \in Interfaz : Desbloquea(c)
    <2> PICK c \in Interfaz : Desbloquea(c)
      BY <1>2
    <2>1. AvisosDe(c)
      BY DEF AvisosInv
    <2>2. /\ hilo_pc[c] = "desbloquea" /\ hilo_pc'[c] = "espera"
          /\ bloqueados'[c] = Tail(bloqueados[c]) /\ bloqueados[c] # <<>>
      BY DEF Desbloquea, Sigue, TypeOK
    <2>3. Len(bloqueados'[c]) = Len(bloqueados[c]) - 1
      BY <2>2, AtendidosTipo, ColaPrimero
    <2>4. Atendidos(c)' = Atendidos(c) - 1
      BY <2>2, AtendidosTipo DEF Desbloquea, Atendidos
    <2>5. Len(bloqueados[c]) <= Atendidos(c)
      BY <2>1, <2>2 DEF AvisosDe, Atendiendo
    <2>6. AvisosDe(c)'
      BY <2>2, <2>3, <2>4, <2>5, AtendidosTipo DEF AvisosDe, Atendiendo
    <2>7. \A e \in Interfaz \ {c} : AvisosDe(e)'
      BY AvisosOtras DEF Desbloquea, TypeOK
    <2> QED  BY <2>6, <2>7 DEF AvisosInv
  <1>3. CASE \E c \in Interfaz : Descarta(c)
    <2> PICK c \in Interfaz : Descarta(c)
      BY <1>3
    <2>1. AvisosDe(c)
      BY DEF AvisosInv
    <2>2. /\ hilo_pc[c] = "desbloquea" /\ hilo_pc'[c] = "espera" /\ bloqueados'[c] = bloqueados[c]
      BY DEF Descarta, TypeOK
    <2>3. Len(bloqueados[c]) < Atendidos(c)
      BY <2>1, <2>2 DEF AvisosDe, Atendiendo, Descarta, Sigue
    <2>4. Atendidos(c)' = Atendidos(c) - 1
      BY <2>2, AtendidosTipo DEF Descarta, Atendidos
    <2>5. AvisosDe(c)'
      BY <2>2, <2>3, <2>4, AtendidosTipo DEF AvisosDe, Atendiendo
    <2>6. \A e \in Interfaz \ {c} : AvisosDe(e)'
      BY AvisosOtras DEF Descarta, TypeOK
    <2> QED  BY <2>5, <2>6 DEF AvisosInv
  <1>4. CASE \E c \in Interfaz : EliminaSaca(c)
    <2> PICK c \in Interfaz : EliminaSaca(c)
      BY <1>4
    <2>1. AvisosDe(c)'
      BY DEF EliminaSaca, AvisosDe, Atendiendo, TypeOK
    <2>2. \A e \in Interfaz \ {c} : AvisosDe(e)'
      BY AvisosOtras DEF EliminaSaca, Saca, TypeOK
    <2> QED  BY <2>1, <2>2 DEF AvisosInv
  <1>5. CASE \E c \in Interfaz : Libera(c)
    <2> PICK c \in Interfaz : Libera(c)
      BY <1>5
    <2>1. AvisosDe(c)'
      BY DEF Libera, AvisosDe, Atendiendo, TypeOK
    <2>2. \A e \in Interfaz \ {c} : AvisosDe(e)'
      BY AvisosOtras DEF Libera, TypeOK
    <2> QED  BY <2>1, <2>2 DEF AvisosInv
  <1>6. CASE Encola
    <2>0. pcp_interfaz \in Interfaz
      BY <1>6 DEF Encola, HilosInv, PcpInv, TypeOK
    <2> PICK c \in Interfaz : c = pcp_interfaz
      BY <2>0
    <2>1. /\ pedidos \in Dir /\ c \in Interfaz /\ AvisosDe(c) /\ pcp_pc = "encola"
          /\ pcp_pc' = "avisa" /\ pcp_interfaz' = c
      BY <1>6, BuscadaLema DEF Encola, HilosInv, PcpInv, TypeOK, AvisosInv
    <2>2. PICK d \in Malloc : bloqueados' = [bloqueados EXCEPT ![c] = Append(bloqueados[c], d)]
      BY <1>6 DEF Encola
    <2>3. d \in Dir
      BY <2>1, <2>2 DEF Malloc, Dir
    <2>4. bloqueados'[c] = Append(bloqueados[c], d)
      BY <2>1, <2>2 DEF TypeOK
    <2>5. /\ Len(bloqueados'[c]) = Len(bloqueados[c]) + 1 /\ bloqueados'[c] # <<>>
          /\ bloqueados[c] # <<>> => Head(bloqueados'[c]) = Head(bloqueados[c])
      BY <2>1, <2>3, <2>4, ColaAgrega, AtendidosTipo
    <2>6. UNCHANGED <<hilo_pc, hilo_pb, procesos_esperando>>
      BY <1>6 DEF Encola
    <2>7. Atendidos(c)' = Atendidos(c) + 1
      BY <2>1, <2>6, AtendidosTipo DEF Atendidos
    <2>8. AvisosDe(c)'
      BY <2>1, <2>5, <2>6, <2>7, AtendidosTipo DEF AvisosDe
    <2>9. \A e \in Interfaz \ {c} : AvisosDe(e)'
      BY <2>1, <2>2, <2>6, AvisosIgual DEF AvisosInv, TypeOK
    <2> QED  BY <2>8, <2>9 DEF AvisosInv
  <1>7. CASE Avisa
    <2>0. pcp_interfaz \in Interfaz
      BY <1>7 DEF Avisa, HilosInv, PcpInv, TypeOK
    <2> PICK c \in Interfaz : c = pcp_interfaz
      BY <2>0
    <2>1. /\ c \in Interfaz /\ AvisosDe(c) /\ pcp_pc = "avisa" /\ pcp_pc' = "libre"
      BY <1>7 DEF Avisa, HilosInv, PcpInv, TypeOK, AvisosInv
    <2>2. procesos_esperando' = [procesos_esperando EXCEPT ![c] = procesos_esperando[c] + 1]
      BY <1>7 DEF Avisa, Avisar
    <2>3. UNCHANGED <<hilo_pc, hilo_pb, bloqueados>>
      BY <1>7 DEF Avisa
    <2>4. Atendidos(c)' = Atendidos(c)
      BY <2>1, <2>2, <2>3, AtendidosTipo DEF Atendidos, TypeOK
    <2>5. AvisosDe(c)'
      BY <2>1, <2>3, <2>4 DEF AvisosDe
    <2>6. \A e \in Interfaz \ {c} : AvisosDe(e)'
      BY <2>1, <2>2, <2>3, AvisosIgual DEF AvisosInv, TypeOK
    <2> QED  BY <2>5, <2>6 DEF AvisosInv
  <1>8. CASE Busca
    <2>0. con_interfaz \in Interfaz
      BY <1>8, EncontradoLema
    <2> PICK c \in Interfaz : c = con_interfaz
      BY <2>0
    <2> DEFINE d == ElDe(bloqueados[c])
    <2>1. /\ d \in Range(bloqueados[c]) /\ bloqueados[c] \in Seq(Dir)
          /\ IsInjective(bloqueados[c])
      BY <1>8, EncontradoLema, EncoladoLema
    <2>2. bloqueados' = [bloqueados EXCEPT ![c] = Quitar(bloqueados[c], d)]
      BY <1>8 DEF Busca
    <2>3. UNCHANGED <<hilo_pc, hilo_pb, procesos_esperando, pcp>>
      BY <1>8 DEF Busca
    <2> HIDE DEF d
    <2>4. /\ AvisosDe(c) /\ bloqueados'[c] = Quitar(bloqueados[c], d)
      BY <2>1, <2>2 DEF AvisosInv, TypeOK
    <2>5. /\ Len(bloqueados'[c]) = Len(bloqueados[c]) - 1
          /\ Head(bloqueados[c]) # d => /\ bloqueados'[c] # <<>>
                                        /\ Head(bloqueados'[c]) = Head(bloqueados[c])
      BY <2>1, <2>4, ColaQuita
    <2>6. Atendidos(c)' = Atendidos(c)
      BY <2>3 DEF Atendidos
    <2>7. AvisosDe(c)'
      BY <2>1, <2>3, <2>4, <2>5, <2>6, AtendidosTipo DEF AvisosDe, Atendiendo
    <2>8. \A e \in Interfaz \ {c} : AvisosDe(e)'
      BY <2>1, <2>2, <2>3, AvisosIgual DEF AvisosInv, TypeOK
    <2> QED  BY <2>7, <2>8 DEF AvisosInv
  <1>9. CASE \E c \in Interfaz : \/ Registra(c) \/ AgregaNombre(c) \/ \E n \in Nombres : Conecta(c, n)
    <2> PICK c \in Interfaz : \/ Registra(c) \/ AgregaNombre(c) \/ \E n \in Nombres : Conecta(c, n)
      BY <1>9
    <2>1. UNCHANGED <<pcp, interfaz, hilo_pb>>
      BY DEF Registra, RegistraNada, AgregaNombre, Conecta
    <2>2. /\ \A e \in Interfaz \ {c} : hilo_pc'[e] = hilo_pc[e]
          /\ hilo_pc[c] \in {"nadie", "registra", "agrega_nombre", "espera"}
          /\ hilo_pc'[c] \in {"registra", "agrega_nombre", "espera"}
      BY DEF Registra, RegistraNada, AgregaNombre, Conecta, TypeOK
    <2> QED  BY <2>1, <2>2, AvisosPc
  <1>10. CASE \E c \in Interfaz : \/ Envia(c) \/ Recibe(c) \/ RecibeError(c) \/ EliminaVe(c)
                                  \/ QuitaDic(c) \/ QuitaNombre(c)
    <2> PICK c \in Interfaz : \/ Envia(c) \/ Recibe(c) \/ RecibeError(c) \/ EliminaVe(c)
                             \/ QuitaDic(c) \/ QuitaNombre(c)
      BY <1>10
    <2>1. UNCHANGED <<pcp, interfaz, hilo_pb>>
      BY DEF Envia, Recibe, RecibeError, EliminaVe, QuitaDic, QuitaNombre
    <2>2. /\ \A e \in Interfaz \ {c} : hilo_pc'[e] = hilo_pc[e]
          /\ \/ hilo_pc'[c] \notin Atendiendo \cup {"nadie", "registra", "agrega_nombre", "espera"}
             \/ hilo_pc[c] \in Atendiendo /\ hilo_pc'[c] \in Atendiendo
      BY DEF Envia, Recibe, RecibeError, EliminaVe, QuitaDic, QuitaNombre, TrasCaerse, Atendiendo,
             TypeOK
    <2> QED  BY <2>1, <2>2, AvisosPc
  <1>11. CASE /\ UNCHANGED <<hilo_pc, hilo_pb, bloqueados, procesos_esperando>>
              /\ UNCHANGED pcp \/ (pcp_pc # "avisa" /\ pcp_pc' # "avisa")
    BY <1>11, AvisosIgual DEF AvisosInv
  <1>12. CASE \E c \in Interfaz : \/ RegistraNada(c) \/ TomaNull(c) \/ LeeLiberado(c) \/ EliminaNull(c)
                                  \/ Hace(c) \/ Cae(c)
    BY <1>12, <1>11 DEF RegistraNada, TomaNull, LeeLiberado, EliminaNull, Muere, Hace, Cae
  <1>13. CASE Existe \/ interfaz_invalida \/ interfaz_soporta_operacion \/ Obtiene
              \/ PcpSinInterfaz \/ (\E p \in Pids, i \in Instrucciones : Pide(p, i))
    BY <1>13, <1>11 DEF Existe, interfaz_invalida, interfaz_soporta_operacion, Obtiene,
                 PcpSinInterfaz, Pide, Muere
  <1>14. CASE \/ Obtener \/ ObtenerNull \/ NoEsta \/ NoEncontrado \/ Pausa
              \/ (\E p \in Pids : Finaliza(p)) \/ UNCHANGED vars
    BY <1>14, <1>11 DEF Obtener, ObtenerNull, NoEsta, NoEncontrado, Finaliza, Pausa,
                        pausar_planificacion, reanudar_planificacion, Muere, vars
  <1> QED
    BY <1>1, <1>2, <1>3, <1>4, <1>5, <1>6, <1>7, <1>8, <1>9, <1>10, <1>12, <1>13, <1>14
       DEF Next, atender_io, Pcp, Consola
-----------------------------------------------------------------------------
(* An operation on its way: the packets are taken apart where they were put *)
(* together                                                                 *)

\* What follows the first part of a packet, and the elements of that part.
LEMMA RestoLema ==
  ASSUME NEW S, NEW s \in Seq(S), NEW t \in Seq(S)
  PROVE  /\ s \o t \in Seq(S) /\ Len(s \o t) = Len(s) + Len(t) /\ Len(s) \in Nat /\ Len(t) \in Nat
         /\ \A k \in 1..Len(s) : (s \o t)[k] = s[k]
         /\ SubSeq(s \o t, Len(s) + 1, Len(s) + Len(t)) = t
  <1> DEFINE u == s \o t
             n == Len(s)
             m == Len(t)
  <1>1. n \in Nat /\ m \in Nat /\ u \in Seq(S) /\ Len(u) = n + m
    BY ConcatProperties, LenProperties
  <1>2. \A k \in 1..(n + m) : u[k] = IF k <= n THEN s[k] ELSE t[k - n]
    BY ConcatProperties
  <1>3. \A k \in 1..n : u[k] = s[k]
    BY <1>1, <1>2
  <1>4. \A k \in 1..m : u[n + k] = t[k]
    BY <1>1, <1>2
  <1>5. \A k \in 1..(n + m) : u[k] \in S
    BY <1>1, ElementOfSeq
  <1> HIDE DEF u
  <1>6. \A k \in (n + 1)..(n + m) : u[k] \in S
    BY <1>1, <1>5
  <1> DEFINE v == SubSeq(u, n + 1, n + m)
  <1>7. /\ v \in Seq(S) /\ Len(v) = IF n + 1 <= n + m THEN (n + m) - (n + 1) + 1 ELSE 0
        /\ \A k \in 1..((n + m) - (n + 1) + 1) : v[k] = u[(n + 1) + k - 1]
    <2>1. n + 1 \in Int /\ n + m \in Int
      BY <1>1
    <2> HIDE DEF n, m
    <2> QED  BY <2>1, <1>6, SubSeqProperties
  <1> HIDE DEF n, m, v
  <1>8. Len(v) = m
    BY <1>1, <1>7
  <1>9. \A k \in 1..m : v[k] = t[k]
    <2> TAKE k \in 1..m
    <2>1. k \in 1..((n + m) - (n + 1) + 1) /\ (n + 1) + k - 1 = n + k
      BY <1>1
    <2> QED  BY <2>1, <1>4, <1>7
  <1>10. v = t
    BY <1>7, <1>8, <1>9, SeqEqual DEF m
  <1> QED  BY <1>1, <1>3, <1>10 DEF u, n, m, v

\* Short packets, written out.
LEMMA Tupla3 == ASSUME NEW a, NEW b, NEW c PROVE <<a, b>> \o <<c>> = <<a, b, c>>
  <1> DEFINE S == {a, b, c}
  <1>1. <<a, b>> \in Seq(S) /\ <<c>> \in Seq(S) /\ <<a, b, c>> \in Seq(S)
    OBVIOUS
  <1>2. /\ <<a, b>> \o <<c>> \in Seq(S) /\ Len(<<a, b>> \o <<c>>) = 3
        /\ \A k \in 1..3 : (<<a, b>> \o <<c>>)[k] = <<a, b, c>>[k]
    BY <1>1, ConcatProperties
  <1> HIDE DEF S
  <1> QED  BY <1>1, <1>2, SeqEqual

\* Words put together, two and two...
LEMMA Tupla4 == ASSUME NEW a, NEW b, NEW c, NEW d PROVE <<a, b>> \o <<c, d>> = <<a, b, c, d>>
  <1> DEFINE S == {a, b, c, d}
  <1>1. <<a, b>> \in Seq(S) /\ <<c, d>> \in Seq(S) /\ <<a, b, c, d>> \in Seq(S)
    OBVIOUS
  <1>2. /\ <<a, b>> \o <<c, d>> \in Seq(S) /\ Len(<<a, b>> \o <<c, d>>) = 4
        /\ \A k \in 1..4 : (<<a, b>> \o <<c, d>>)[k] = <<a, b, c, d>>[k]
    BY <1>1, ConcatProperties
  <1> HIDE DEF S
  <1> QED  BY <1>1, <1>2, SeqEqual

\* ...and two and three.
LEMMA Tupla5 == ASSUME NEW a, NEW b, NEW c, NEW d, NEW e PROVE <<a, b>> \o <<c, d, e>> = <<a, b, c, d, e>>
  <1> DEFINE S == {a, b, c, d, e}
  <1>1. <<a, b>> \in Seq(S) /\ <<c, d, e>> \in Seq(S) /\ <<a, b, c, d, e>> \in Seq(S)
    OBVIOUS
  <1>2. /\ <<a, b>> \o <<c, d, e>> \in Seq(S) /\ Len(<<a, b>> \o <<c, d, e>>) = 5
        /\ \A k \in 1..5 : (<<a, b>> \o <<c, d, e>>)[k] = <<a, b, c, d, e>>[k]
    BY <1>1, ConcatProperties
  <1> HIDE DEF S
  <1> QED  BY <1>1, <1>2, SeqEqual

\* The words of an instruction, and what the decoder keeps of them.
LEMMA PalabrasLema ==
  ASSUME NEW i, BienEscrita(i)
  PROVE  /\ Len(i) = Largo[i[1]] /\ Largo[i[1]] \in {3, 4, 6}
         /\ \A k \in 1..(Largo[i[1]] - 1) : decode(i).parametros[k] = i[k + 1]
         /\ decode(i).opcode = i[1]
  <1> DEFINE n == Largo[i[1]]
             T == {i[k] : k \in 1..n}
  <1>1. n \in {3, 4, 6} /\ i = [k \in 1..n |-> i[k]]
    BY DEF BienEscrita, Largo
  <1> HIDE DEF n
  <1>2. i \in [1..n -> T]
    BY <1>1
  <1>3. i \in Seq(T) /\ Len(i) = n
    BY <1>1, <1>2, LenProperties
  <1>4. i # <<>>
    BY <1>1, <1>3, EmptySeq
  <1>5. Len(Tail(i)) = n - 1 /\ \A k \in 1..Len(Tail(i)) : Tail(i)[k] = i[k + 1]
    BY <1>3, <1>4, HeadTailProperties
  <1> QED  BY <1>1, <1>3, <1>5 DEF decode, parsear_io, n

\* The blocks of a buffer: what the interface does with each is what the instruction says.
LEMMA BloquesLema ==
  ASSUME NEW dir \in Nat, NEW tamanio \in Nat
  PROVE  /\ obtener_bloques(dir, tamanio) \in Seq(Int) /\ Len(obtener_bloques(dir, tamanio)) = tamanio
         /\ \A desde : Posiciones(desde, obtener_bloques(dir, tamanio)) = Bytes(desde, dir, tamanio)
  <1> DEFINE b == obtener_bloques(dir, tamanio)
  <1>1. b \in [1..tamanio -> Int] /\ \A k \in 1..tamanio : b[k] = dir + k - 1
    BY DEF obtener_bloques
  <1>2. b \in Seq(Int) /\ Len(b) = tamanio /\ DOMAIN b = 1..tamanio
    BY <1>1
  <1> HIDE DEF b
  <1>3. ASSUME NEW desde PROVE Posiciones(desde, b) = Bytes(desde, dir, tamanio)
    BY <1>1, <1>2 DEF Posiciones, Bytes
  <1> QED  BY <1>2, <1>3 DEF b

\* What an interface gets for each instruction.
LEMMA PaqueteLema ==
  ASSUME NEW p, NEW i, BienEscrita(i)
  PROVE  LET op == Operacion[i[1]]
             R(k) == Registros[i[k]]
             paquete == Reenvia(p, Empaqueta(decode(i))) IN
         /\ i[1] \in {"IO_GEN_SLEEP", "IO_FS_CREATE", "IO_FS_DELETE"} => paquete = <<p, op>> \o <<i[3]>>
         /\ i[1] = "IO_FS_TRUNCATE" => paquete = <<p, op>> \o <<i[3], R(4)>>
         /\ i[1] \in {"IO_STDIN_READ", "IO_STDOUT_WRITE"} =>
                paquete = <<p, op>> \o (<<R(4)>> \o obtener_bloques(R(3), R(4)))
         /\ i[1] \in {"IO_FS_WRITE", "IO_FS_READ"} =>
                paquete = <<p, op>> \o (<<i[3], R(6), R(5)>> \o obtener_bloques(R(4), R(5)))
  <1> DEFINE op == Operacion[i[1]]
             R(k) == Registros[i[k]]
             q == decode(i).parametros
             S == Int \cup {op, q[1], i[3], R(4)}
  <1>1. i[1] \in DOMAIN Largo
    BY DEF BienEscrita
  <1>2. /\ Largo[i[1]] \in {3, 4, 6} /\ decode(i).opcode = i[1]
        /\ \A k \in 1..(Largo[i[1]] - 1) : q[k] = i[k + 1]
    BY PalabrasLema
  <1>3. op \in S /\ q[1] \in S /\ i[3] \in S /\ R(4) \in S /\ Int \subseteq S
    OBVIOUS
  <1>r. ASSUME NEW resto \in Seq(S), LlevaBloques(op) \/ Len(resto) = Cuantos(op)
        PROVE  Reenvia(p, <<q[1], op>> \o resto) = <<p, op>> \o resto
    <2> DEFINE s == <<q[1], op>>
               o == s \o resto
    <2>1. s \in Seq(S) /\ Len(s) = 2 /\ s[2] = op
      BY <1>3
    <2> HIDE DEF op, q, S, s
    <2>2. Len(o) = 2 + Len(resto) /\ o[2] = op /\ SubSeq(o, 3, 2 + Len(resto)) = resto
      <3>1. /\ Len(o) = Len(s) + Len(resto) /\ Len(resto) \in Nat /\ \A k \in 1..Len(s) : o[k] = s[k]
            /\ SubSeq(o, Len(s) + 1, Len(s) + Len(resto)) = resto
        BY <2>1, RestoLema
      <3> QED  BY <2>1, <3>1
    <2> HIDE DEF o
    <2>3. Reenvia(p, o) = <<p, op>> \o resto
      BY <1>r, <2>2 DEF Reenvia
    <2> QED  BY <2>3 DEF o, s
  <1>4. CASE i[1] \in {"IO_GEN_SLEEP", "IO_FS_CREATE", "IO_FS_DELETE"}
    <2>1. op \in {"GEN_SLEEP", "FS_CREATE", "FS_DELETE"} /\ Largo[i[1]] = 3
      BY <1>4 DEF Operacion, Largo
    <2>2. q[2] = i[3]
      BY <1>2, <2>1
    <2>3. Empaqueta(decode(i)) = <<q[1], op>> \o <<i[3]>>
      BY <1>2, <2>1, <2>2 DEF Empaqueta
    <2> HIDE DEF op, R, q, S
    <2>4. <<i[3]>> \in Seq(S) /\ Len(<<i[3]>>) = Cuantos(op)
      BY <2>1, <1>3 DEF Cuantos
    <2>5. Reenvia(p, <<q[1], op>> \o <<i[3]>>) = <<p, op>> \o <<i[3]>>
      BY <2>4, <1>r
    <2> QED  BY <1>4, <2>3, <2>5 DEF op
  <1>5. CASE i[1] = "IO_FS_TRUNCATE"
    <2>1. op = "FS_TRUNCATE" /\ Largo[i[1]] = 4
      BY <1>5 DEF Operacion, Largo
    <2>2. q[2] = i[3] /\ q[3] = i[4]
      BY <1>2, <2>1
    <2>3. Empaqueta(decode(i)) = <<q[1], op>> \o <<i[3], R(4)>>
      BY <1>2, <2>1, <2>2 DEF Empaqueta, get_registro
    <2> HIDE DEF op, q, S
    <2>4. <<i[3], R(4)>> \in Seq(S) /\ Len(<<i[3], R(4)>>) = Cuantos(op)
      BY <2>1, <1>3 DEF Cuantos
    <2>5. Reenvia(p, <<q[1], op>> \o <<i[3], R(4)>>) = <<p, op>> \o <<i[3], R(4)>>
      BY <2>4, <1>r
    <2> QED  BY <1>5, <2>3, <2>5 DEF op
  <1>6. CASE i[1] \in {"IO_STDIN_READ", "IO_STDOUT_WRITE"}
    <2>1. op \in {"STDIN_READ", "STDOUT_WRITE"} /\ Largo[i[1]] = 4
      BY <1>6 DEF Operacion, Largo
    <2>2. q[2] = i[3] /\ q[3] = i[4]
      BY <1>2, <2>1
    <2> DEFINE b == obtener_bloques(R(3), R(4))
    <2>3. Empaqueta(decode(i)) = <<q[1], op>> \o (<<R(4)>> \o b)
      BY <1>2, <2>1, <2>2 DEF Empaqueta, BloquesYTamanio, get_registro
    <2>4. R(3) \in Nat /\ R(4) \in Nat
      BY <1>6 DEF BienEscrita
    <2>5. b \in Seq(Int)
      BY <2>4, BloquesLema
    <2> HIDE DEF op, q, b
    <2>6. <<R(4)>> \o b \in Seq(S)
      <3>1. <<R(4)>> \in Seq(Int)
        BY <2>4
      <3>2. <<R(4)>> \o b \in Seq(Int)
        BY <3>1, <2>5, ConcatProperties
      <3> QED  BY <3>2, SeqMonotonic
    <2>7. LlevaBloques(op)
      BY <2>1 DEF LlevaBloques
    <2> HIDE DEF S, R
    <2>8. Reenvia(p, <<q[1], op>> \o (<<R(4)>> \o b)) = <<p, op>> \o (<<R(4)>> \o b)
      BY <2>6, <2>7, <1>r
    <2> QED  BY <1>6, <2>3, <2>8 DEF op, b, R
  <1>7. CASE i[1] \in {"IO_FS_WRITE", "IO_FS_READ"}
    <2>1. op \in {"FS_WRITE", "FS_READ"} /\ Largo[i[1]] = 6
      BY <1>7 DEF Operacion, Largo
    <2>2. q[2] = i[3] /\ q[3] = i[4] /\ q[4] = i[5] /\ q[5] = i[6]
      BY <1>2, <2>1
    <2> DEFINE b == obtener_bloques(R(4), R(5))
               a == <<i[3], R(6), R(5)>>
    <2>3. Empaqueta(decode(i)) = <<q[1], op>> \o (a \o b)
      BY <1>2, <2>1, <2>2 DEF Empaqueta, ArchivoYBloques, get_registro
    <2>4. R(4) \in Nat /\ R(5) \in Nat /\ R(6) \in Nat
      BY <1>7 DEF BienEscrita
    <2>5. b \in Seq(Int)
      BY <2>4, BloquesLema
    <2> HIDE DEF op, q, b
    <2>6. a \o b \in Seq(S)
      <3>1. a \in Seq(S)
        BY <2>4
      <3>2. b \in Seq(S)
        BY <2>5, SeqMonotonic
      <3> QED  BY <3>1, <3>2, ConcatProperties
    <2>7. LlevaBloques(op)
      BY <2>1 DEF LlevaBloques
    <2> HIDE DEF S, R, a
    <2>8. Reenvia(p, <<q[1], op>> \o (a \o b)) = <<p, op>> \o (a \o b)
      BY <2>6, <2>7, <1>r
    <2> QED  BY <1>7, <2>3, <2>8 DEF op, b, R, a
  <1> QED
    <2>1. i[1] \in {"IO_GEN_SLEEP", "IO_FS_CREATE", "IO_FS_DELETE", "IO_FS_TRUNCATE",
                    "IO_STDIN_READ", "IO_STDOUT_WRITE", "IO_FS_WRITE", "IO_FS_READ"}
      BY <1>1 DEF Largo
    <2> QED  BY <2>1, <1>4, <1>5, <1>6, <1>7

\* The pid goes first, what the interface does is what the words say, and a STDIN_READ fits.
LEMMA FielLema ==
  ASSUME NEW p, NEW i, BienEscrita(i)
  PROVE  LET paquete == Reenvia(p, Empaqueta(decode(i))) IN
         /\ paquete[1] = p
         /\ Interpreta(paquete) = Pedido(p, i)
         /\ EntraEnLoTipeado(paquete)
  <1> DEFINE op == Operacion[i[1]]
             R(k) == Registros[i[k]]
             paquete == Reenvia(p, Empaqueta(decode(i)))
  <1>1. CASE i[1] \in {"IO_GEN_SLEEP", "IO_FS_CREATE", "IO_FS_DELETE"}
    <2>1. op \in {"GEN_SLEEP", "FS_CREATE", "FS_DELETE"}
      BY <1>1 DEF Operacion
    <2>2. paquete = <<p, op, i[3]>>
      <3>1. paquete = <<p, op>> \o <<i[3]>>
        BY <1>1, PaqueteLema
      <3> QED  BY <3>1, Tupla3
    <2> HIDE DEF paquete, op
    <2>3. Interpreta(paquete) = [pid |-> p, op |-> op, efecto |-> <<i[3]>>]
      BY <2>1, <2>2 DEF Interpreta
    <2>4. Pedido(p, i) = [pid |-> p, op |-> op, efecto |-> <<i[3]>>]
      BY <1>1 DEF Pedido, op
    <2>5. paquete[1] = p /\ EntraEnLoTipeado(paquete)
      BY <2>1, <2>2 DEF EntraEnLoTipeado
    <2> QED  BY <2>3, <2>4, <2>5 DEF paquete
  <1>2. CASE i[1] = "IO_FS_TRUNCATE"
    <2>1. op = "FS_TRUNCATE"
      BY <1>2 DEF Operacion
    <2>2. paquete = <<p, op, i[3], R(4)>>
      <3>1. paquete = <<p, op>> \o <<i[3], R(4)>>
        BY <1>2, PaqueteLema
      <3> QED  BY <3>1, Tupla4
    <2> HIDE DEF paquete, op
    <2>3. Interpreta(paquete) = [pid |-> p, op |-> op, efecto |-> <<i[3], R(4)>>]
      BY <2>1, <2>2 DEF Interpreta
    <2>4. Pedido(p, i) = [pid |-> p, op |-> op, efecto |-> <<i[3], R(4)>>]
      BY <1>2 DEF Pedido, op
    <2>5. paquete[1] = p /\ EntraEnLoTipeado(paquete)
      BY <2>1, <2>2 DEF EntraEnLoTipeado
    <2> QED  BY <2>3, <2>4, <2>5 DEF paquete
  <1>3. CASE i[1] \in {"IO_STDIN_READ", "IO_STDOUT_WRITE"}
    <2> DEFINE b == obtener_bloques(R(3), R(4))
               a == <<p, op, R(4)>>
               S == Int \cup {p, op}
    <2>1. op \in {"STDIN_READ", "STDOUT_WRITE"}
      BY <1>3 DEF Operacion
    <2>2. R(3) \in Nat /\ R(4) \in Nat
      BY <1>3 DEF BienEscrita
    <2>3. b \in Seq(Int) /\ Len(b) = R(4) /\ Posiciones(0, b) = Bytes(0, R(3), R(4))
      BY <2>2, BloquesLema
    <2>4. paquete = <<p, op>> \o (<<R(4)>> \o b)
      BY <1>3, PaqueteLema
    <2> HIDE DEF op, paquete, b
    <2>5. /\ <<p, op>> \in Seq(S) /\ <<R(4)>> \in Seq(S) /\ a \in Seq(S) /\ b \in Seq(S)
          /\ <<p, op>> \o <<R(4)>> = a
      <3>1. b \in Seq(S)
        BY <2>3, SeqMonotonic
      <3> QED  BY <3>1, <2>2, Tupla3
    <2> HIDE DEF S
    <2>6. paquete = a \o b
      BY <2>4, <2>5, ConcatAssociative
    <2>7. Len(a) = 3 /\ a[1] = p /\ a[2] = op /\ a[3] = R(4)
      OBVIOUS
    <2> HIDE DEF a, R
    <2>8. /\ Len(paquete) = 3 + R(4) /\ SubSeq(paquete, 4, Len(paquete)) = b
          /\ paquete[1] = p /\ paquete[2] = op /\ paquete[3] = R(4)
      <3>1. /\ Len(a \o b) = Len(a) + Len(b) /\ \A k \in 1..Len(a) : (a \o b)[k] = a[k]
            /\ SubSeq(a \o b, Len(a) + 1, Len(a) + Len(b)) = b
        BY <2>5, RestoLema
      <3> QED  BY <3>1, <2>2, <2>3, <2>6, <2>7
    <2>9. Interpreta(paquete) = [pid |-> p, op |-> op, efecto |-> Bytes(0, R(3), R(4))]
      BY <2>1, <2>3, <2>8 DEF Interpreta
    <2>10. Pedido(p, i) = [pid |-> p, op |-> op, efecto |-> Bytes(0, R(3), R(4))]
      BY <1>3 DEF Pedido, op, R
    <2>11. EntraEnLoTipeado(paquete)
      BY <2>2, <2>8 DEF EntraEnLoTipeado
    <2> QED  BY <2>8, <2>9, <2>10, <2>11 DEF paquete
  <1>4. CASE i[1] \in {"IO_FS_WRITE", "IO_FS_READ"}
    <2> DEFINE b == obtener_bloques(R(4), R(5))
               a == <<p, op, i[3], R(6), R(5)>>
               S == Int \cup {p, op, i[3]}
    <2>1. op \in {"FS_WRITE", "FS_READ"}
      BY <1>4 DEF Operacion
    <2>2. R(4) \in Nat /\ R(5) \in Nat /\ R(6) \in Nat
      BY <1>4 DEF BienEscrita
    <2>3. b \in Seq(Int) /\ Len(b) = R(5) /\ Posiciones(R(6), b) = Bytes(R(6), R(4), R(5))
      BY <2>2, BloquesLema
    <2>4. paquete = <<p, op>> \o (<<i[3], R(6), R(5)>> \o b)
      BY <1>4, PaqueteLema
    <2> HIDE DEF op, paquete, b
    <2>5. /\ <<p, op>> \in Seq(S) /\ <<i[3], R(6), R(5)>> \in Seq(S) /\ a \in Seq(S) /\ b \in Seq(S)
          /\ <<p, op>> \o <<i[3], R(6), R(5)>> = a
      <3>1. b \in Seq(S)
        BY <2>3, SeqMonotonic
      <3> QED  BY <3>1, <2>2, Tupla5
    <2> HIDE DEF S
    <2>6. paquete = a \o b
      BY <2>4, <2>5, ConcatAssociative
    <2>7. Len(a) = 5 /\ a[1] = p /\ a[2] = op /\ a[3] = i[3] /\ a[4] = R(6)
      OBVIOUS
    <2> HIDE DEF a, R
    <2>8. /\ Len(paquete) = 5 + R(5) /\ SubSeq(paquete, 6, Len(paquete)) = b
          /\ paquete[1] = p /\ paquete[2] = op /\ paquete[3] = i[3] /\ paquete[4] = R(6)
      <3>1. /\ Len(a \o b) = Len(a) + Len(b) /\ \A k \in 1..Len(a) : (a \o b)[k] = a[k]
            /\ SubSeq(a \o b, Len(a) + 1, Len(a) + Len(b)) = b
        BY <2>5, RestoLema
      <3> QED  BY <3>1, <2>2, <2>3, <2>6, <2>7
    <2>9. Interpreta(paquete) =
              [pid |-> p, op |-> op, efecto |-> <<i[3], Bytes(R(6), R(4), R(5))>>]
      BY <2>1, <2>3, <2>8 DEF Interpreta
    <2>10. Pedido(p, i) = [pid |-> p, op |-> op, efecto |-> <<i[3], Bytes(R(6), R(4), R(5))>>]
      BY <1>4 DEF Pedido, op, R
    <2>11. EntraEnLoTipeado(paquete)
      BY <2>1, <2>8 DEF EntraEnLoTipeado
    <2> QED  BY <2>8, <2>9, <2>10, <2>11 DEF paquete
  <1>5. i[1] \in {"IO_GEN_SLEEP", "IO_FS_CREATE", "IO_FS_DELETE", "IO_FS_TRUNCATE",
                  "IO_STDIN_READ", "IO_STDOUT_WRITE", "IO_FS_WRITE", "IO_FS_READ"}
    BY DEF BienEscrita, Largo
  <1> QED  BY <1>1, <1>2, <1>3, <1>4, <1>5

-----------------------------------------------------------------------------
(* The operations on their way, when addresses are not given out again      *)

\* What a living t_bloqueado_io has, and what it makes the kernel send.
LEMMA VivoLema ==
  ASSUME TypeOK, ColasInv, NEW d \in Dir, heap[d] # Nada, Vivo(d)
  PROVE  /\ Pid(d) \in Pids /\ pedida[Pid(d)] \in Instrucciones /\ lugar[Pid(d)] = "bloqueado"
         /\ Enviado(d)[1] = Pid(d) /\ Interpreta(Enviado(d)) = Pedido(Pid(d), pedida[Pid(d)])
  <1>1. PICK c \in Interfaz : d \in Range(bloqueados[c])
    BY DEF Vivo
  <1>2. Pid(d) \in Pids /\ lugar[Pid(d)] = "bloqueado"
    BY <1>1, EncoladoLema
  <1>3. PICK p \in Pids, i \in Instrucciones :
            p = Pid(d) /\ i = pedida[p] /\ heap[d] = Bloqueado(p, i)
    BY <1>2 DEF Vivo
  <1>4. Enviado(d) = Reenvia(p, Empaqueta(decode(i)))
    BY <1>3 DEF Enviado, Bloqueado
  <1>5. BienEscrita(i)
    BY InterfacesOK
  <1>6. /\ Reenvia(p, Empaqueta(decode(i)))[1] = p
        /\ Interpreta(Reenvia(p, Empaqueta(decode(i)))) = Pedido(p, i)
    BY <1>5, FielLema
  <1> QED  BY <1>2, <1>3, <1>4, <1>6

\* What the kernel sends begins with the pid.
LEMMA PaquetesLema == ASSUME NEW m \in Paquetes PROVE m[1] \in Pids
  <1>1. PICK p \in Pids, i \in Instrucciones : m = Reenvia(p, Empaqueta(decode(i)))
    BY DEF Paquetes
  <1>2. BienEscrita(i)
    BY InterfacesOK
  <1> QED  BY <1>1, <1>2, FielLema

\* What a step takes out of a queue is not what another thread attends.
LEMMA OtroEncargo ==
  ASSUME TypeOK, ColasInv, NEW c \in Interfaz, NEW d \in Range(bloqueados[c]),
         NEW e \in Interfaz, EncargoDe(e), hilo_pc[e] \in Atendiendo, e # c \/ hilo_pb[e] # d
  PROVE  hilo_pb[e] # d
  BY DEF ColasInv, EncargoDe

\* What a thread attends does not change while its connection, its operation and the process
\* of that operation do not.
LEMMA EncargoIgual ==
  ASSUME TypeOK, HilosInv, [Next]_vars, NEW e \in Interfaz, EncargoDe(e),
         hilo_pc'[e] = hilo_pc[e], hilo_pb'[e] = hilo_pb[e], a_interfaz'[e] = a_interfaz[e],
         de_interfaz'[e] = de_interfaz[e], abierta'[e] = abierta[e],
         hilo_pc[e] \in Atendiendo =>
            /\ heap'[hilo_pb[e]] = heap[hilo_pb[e]]
            /\ heap[hilo_pb[e]] # Nada =>
                  /\ hilo_pb[e] \in Range(bloqueados[e]) => hilo_pb[e] \in Range(bloqueados'[e])
                  /\ hecha'[Pid(hilo_pb[e])] = hecha[Pid(hilo_pb[e])]
            /\ a_interfaz[e] # Nada /\ lugar[a_interfaz[e][1]] = "EXIT" =>
                  lugar'[a_interfaz[e][1]] = "EXIT"
  PROVE  EncargoDe(e)'
  <1> DEFINE d == hilo_pb[e]
  <1>1. CASE hilo_pc[e] \in Atendiendo
    <2>1. d \in Dir
      BY <1>1 DEF HilosInv, TurnosInv
    <2>4. Pid(hilo_pb[e])' = Pid(hilo_pb[e]) /\ Enviado(hilo_pb[e])' = Enviado(hilo_pb[e])
      BY <1>1 DEF Pid, Enviado
    <2> QED  BY <1>1, <2>4 DEF EncargoDe, Pid, Enviado
  <1>2. CASE hilo_pc[e] \notin Atendiendo
    BY <1>2 DEF EncargoDe, Atendiendo
  <1> QED  BY <1>1, <1>2

\* A thread that attends nobody, with nothing on its connection.
LEMMA EncargoVacio ==
  ASSUME NEW e \in Interfaz, hilo_pc'[e] \notin Atendiendo, a_interfaz'[e] = Nada,
         de_interfaz'[e] = Nada
  PROVE  EncargoDe(e)'
  BY DEF EncargoDe, Atendiendo

\* A step that takes an operation out of its queue leaves the other threads as they were.
LEMMA EncargoSaca ==
  ASSUME TypeOK, HilosInv, ColasInv, PedidosInv, [Next]_vars,
         NEW c \in Interfaz, NEW d \in Range(bloqueados[c]), NEW q \in Seq(Dir),
         IsInjective(q), Range(q) = Range(bloqueados[c]) \ {d},
         bloqueados' = [bloqueados EXCEPT ![c] = q], heap' = [heap EXCEPT ![d] = Nada],
         \A p \in Pids \ {Pid(d)} : lugar'[p] = lugar[p], UNCHANGED <<conexion, hecha>>,
         NEW e \in Interfaz, hilo_pc'[e] = hilo_pc[e], hilo_pb'[e] = hilo_pb[e],
         e # c \/ hilo_pb[e] # d
  PROVE  EncargoDe(e)'
  <1>1. EncargoDe(e)
    BY DEF PedidosInv
  <1>2. Range(bloqueados'[e]) = Range(bloqueados[e]) \ {d}
    BY RangosSaca
  <1>3. ASSUME hilo_pc[e] \in Atendiendo
        PROVE  /\ heap'[hilo_pb[e]] = heap[hilo_pb[e]]
               /\ hilo_pb[e] \in Range(bloqueados[e]) => hilo_pb[e] \in Range(bloqueados'[e])
    <2>1. hilo_pb[e] # d /\ hilo_pb[e] \in Dir
      BY <1>1, <1>3, OtroEncargo DEF HilosInv, TurnosInv
    <2> QED  BY <1>2, <2>1 DEF TypeOK
  <1>4. ASSUME a_interfaz[e] # Nada, lugar[a_interfaz[e][1]] = "EXIT"
        PROVE  lugar'[a_interfaz[e][1]] = "EXIT"
    <2>1. a_interfaz[e][1] \in Pids
      BY <1>4, PaquetesLema DEF TypeOK
    <2>2. lugar[Pid(d)] = "bloqueado"
      BY EncoladoLema
    <2> QED  BY <1>4, <2>1, <2>2
  <1> QED  BY <1>1, <1>3, <1>4, EncargoIgual DEF conexion

\* Every step keeps what the living operations ask.
LEMMA VivosPaso ==
  ASSUME TypeOK, HilosInv, ColasInv, PedidosInv, [Next]_vars, NEW x \in Dir
  PROVE  Vivo(x)'
  <1> USE InterfacesOK DEF proceso, registro, conexion, hilo, interfaz, pcp, con, historia, Va
  <1>0. Vivo(x)
    BY DEF PedidosInv
  <1>s. ASSUME NEW c \in Interfaz, NEW d \in Range(bloqueados[c]), NEW q \in Seq(Dir),
               IsInjective(q), Range(q) = Range(bloqueados[c]) \ {d},
               bloqueados' = [bloqueados EXCEPT ![c] = q], heap' = [heap EXCEPT ![d] = Nada],
               UNCHANGED pedida
        PROVE  Vivo(x)'
    <2>1. \A e \in Interfaz : Range(bloqueados'[e]) = Range(bloqueados[e]) \ {d}
      BY <1>s, RangosSaca
    <2>2. d \in Dir
      BY EncoladoLema
    <2>3. heap'[x] # Nada => x # d /\ heap'[x] = heap[x]
      BY <1>s, <2>2 DEF TypeOK
    <2> QED  BY <1>s, <1>0, <2>1, <2>3 DEF Vivo, Pid
  <1>1. CASE \E c \in Interfaz : Desbloquea(c) \/ EliminaSaca(c)
    <2> PICK c \in Interfaz : Desbloquea(c) \/ EliminaSaca(c)
      BY <1>1
    <2>1. UNCHANGED pedida
      BY DEF Desbloquea, EliminaSaca, Eliminar
    <2> QED  BY <2>1, PrimeroSale, <1>s
  <1>2. CASE Busca
    <2>1. UNCHANGED pedida
      BY <1>2 DEF Busca, Eliminar
    <2> QED  BY <1>2, <2>1, BuscadoSale, <1>s
  <1>3. CASE Encola
    <2>1. /\ pcp_pid \in Pids /\ pedida[pcp_pid] \in Instrucciones /\ pedidos \in Dir
          /\ pcp_interfaz \in Interfaz
      BY <1>3, BuscadaLema DEF Encola, HilosInv, PcpInv, TypeOK
    <2> PICK c \in Interfaz : c = pcp_interfaz
      BY <2>1
    <2>2. PICK d \in Malloc :
              /\ heap' = [heap EXCEPT ![d] = Bloqueado(pcp_pid, pedida[pcp_pid])]
              /\ bloqueados' = [bloqueados EXCEPT ![c] = Append(bloqueados[c], d)]
      BY <1>3 DEF Encola
    <2>3. d \in Dir /\ UNCHANGED pedida
      BY <1>3, <2>1, <2>2 DEF Malloc, Dir, Encola
    <2>4. Range(Append(bloqueados[c], d)) = Range(bloqueados[c]) \cup {d}
      BY <2>3, ColaAgrega DEF TypeOK
    <2>5. \A e \in Interfaz : Range(bloqueados[e]) \subseteq Range(bloqueados'[e])
      <3> TAKE e \in Interfaz
      <3>1. CASE e = c
        BY <3>1, <2>2, <2>4 DEF TypeOK
      <3>2. CASE e # c
        BY <3>2, <2>2 DEF TypeOK
      <3> QED  BY <3>1, <3>2
    <2>6. d \in Range(bloqueados'[c])
      BY <2>2, <2>4 DEF TypeOK
    <2>7. CASE x = d
      <3>1. heap'[x] = Bloqueado(pcp_pid, pedida[pcp_pid])
        BY <2>2, <2>3, <2>7 DEF TypeOK
      <3>2. Pid(x)' = pcp_pid
        BY <3>1 DEF Pid, Bloqueado
      <3> QED  BY <2>1, <2>3, <2>6, <2>7, <3>1, <3>2 DEF Vivo, Pid
    <2>8. CASE x # d
      <3>1. heap'[x] = heap[x]
        BY <2>2, <2>8 DEF TypeOK
      <3> QED  BY <1>0, <2>3, <2>5, <3>1 DEF Vivo, Pid
    <2> QED  BY <2>7, <2>8
  <1>4. CASE \E p \in Pids, i \in Instrucciones : Pide(p, i)
    <2> PICK p \in Pids, i \in Instrucciones : Pide(p, i)
      BY <1>4
    <2>1. heap'[x] = heap[x] /\ bloqueados' = bloqueados
      BY DEF Pide
    <2>2. ASSUME heap[x] # Nada PROVE pedida'[Pid(x)] = pedida[Pid(x)]
      <3>1. lugar[Pid(x)] = "bloqueado" /\ Pid(x) \in Pids
        BY <1>0, <2>2, VivoLema
      <3> QED  BY <3>1 DEF Pide, TypeOK
    <2> QED  BY <1>0, <2>1, <2>2 DEF Vivo, Pid
  <1>5. CASE UNCHANGED <<heap, bloqueados, pedida>>
    BY <1>0, <1>5 DEF Vivo, Pid
  <1>6. CASE \E c \in Interfaz : \/ atender_io(c) /\ ~Desbloquea(c) /\ ~EliminaSaca(c)
                                 \/ Hace(c) \/ Cae(c) \/ \E n \in Nombres : Conecta(c, n)
    BY <1>6, <1>5 DEF atender_io, Registra, RegistraNada, AgregaNombre, Toma, TomaNull, Envia,
                      LeeLiberado, Recibe,
                 RecibeError, Descarta, EliminaVe, EliminaNull, QuitaDic, QuitaNombre, Libera,
                 Muere, Hace, Cae, Conecta
  <1>7. CASE Existe \/ interfaz_invalida \/ interfaz_soporta_operacion \/ Obtiene \/ Avisa
             \/ PcpSinInterfaz
    BY <1>7, <1>5 DEF Existe, interfaz_invalida, interfaz_soporta_operacion, Obtiene, Avisa,
                 PcpSinInterfaz, Eliminar, Muere
  <1>8. CASE \/ Obtener \/ ObtenerNull \/ NoEsta \/ NoEncontrado \/ Pausa
             \/ (\E p \in Pids : Finaliza(p)) \/ UNCHANGED vars
    BY <1>8, <1>5 DEF Obtener, ObtenerNull, NoEsta, NoEncontrado, Finaliza, Pausa,
                      pausar_planificacion, reanudar_planificacion, Muere, vars
  <1> QED  BY <1>1, <1>2, <1>3, <1>4, <1>6, <1>7, <1>8 DEF Next, Pcp, Consola

\* What was once given out again stays so.
LEMMA ReusoPaso == [Next]_vars /\ reuso => reuso'
  <1> SUFFICES ASSUME [Next]_vars, reuso PROVE reuso'
    OBVIOUS
  <1> USE DEF proceso, registro, conexion, hilo, interfaz, pcp, con, historia
  <1>1. CASE Encola
    BY <1>1, Zenon DEF Encola
  <1>2. CASE UNCHANGED reuso
    BY <1>2
  <1>3. CASE \E c \in Interfaz : Hace(c) \/ Cae(c) \/ \E n \in Nombres : Conecta(c, n)
    BY <1>3, <1>2 DEF Hace, Cae, Conecta
  <1>6. CASE \E c \in Interfaz : \/ RegistraNada(c) \/ TomaNull(c) \/ LeeLiberado(c)
                                 \/ EliminaNull(c)
    BY <1>6, <1>2, MuerteLema
  <1>7. CASE \E c \in Interfaz : \/ Registra(c) \/ AgregaNombre(c) \/ Toma(c) \/ Envia(c)
                                 \/ Recibe(c) \/ RecibeError(c) \/ QuitaDic(c) \/ QuitaNombre(c)
    BY <1>7, <1>2 DEF Registra, AgregaNombre, Toma, Envia, Recibe, RecibeError, QuitaDic,
                      QuitaNombre
  <1>8. CASE \E c \in Interfaz : \/ Desbloquea(c) \/ Descarta(c) \/ EliminaVe(c)
                                 \/ EliminaSaca(c) \/ Libera(c)
    BY <1>8, <1>2 DEF Desbloquea, Descarta, EliminaVe, EliminaSaca, Libera
  <1>4. CASE Existe \/ interfaz_invalida \/ interfaz_soporta_operacion \/ Obtiene \/ Avisa
             \/ PcpSinInterfaz
    BY <1>4, <1>2 DEF Existe, interfaz_invalida, interfaz_soporta_operacion, Obtiene, Avisa,
                 PcpSinInterfaz, Muere
  <1>5. CASE \/ Consola \/ Pausa \/ UNCHANGED vars
             \/ \E p \in Pids : Finaliza(p) \/ \E i \in Instrucciones : Pide(p, i)
    BY <1>5, <1>2 DEF Consola, Obtener, ObtenerNull, Busca, NoEsta, NoEncontrado, Finaliza, Pide,
                 Pausa, pausar_planificacion, reanudar_planificacion, Muere, vars
  <1> QED  BY <1>1, <1>3, <1>4, <1>5, <1>6, <1>7, <1>8 DEF Next, Pcp, atender_io

\* Every step keeps what is known of what the interfaces were sent and did.
LEMMA EncargosPaso ==
  ASSUME TypeOK, HilosInv, ColasInv, PedidosInv, ~reuso', [Next]_vars, NEW e \in Interfaz
  PROVE  EncargoDe(e)'
  <1> USE InterfacesOK DEF proceso, registro, conexion, hilo, interfaz, pcp, con, historia, Va
  <1>0. EncargoDe(e) /\ \A d \in Dir : Vivo(d)
    BY DEF PedidosInv
  <1>v. ASSUME hilo_pc[e] \in Atendiendo
        PROVE  /\ hilo_pb[e] \in Dir
               /\ heap[hilo_pb[e]] # Nada => /\ Pid(hilo_pb[e]) \in Pids
                                            /\ lugar[Pid(hilo_pb[e])] = "bloqueado"
    BY <1>0, <1>v, VivoLema DEF HilosInv, TurnosInv
  <1>p. a_interfaz[e] # Nada => a_interfaz[e][1] \in Pids
    BY PaquetesLema DEF TypeOK
  <1>q. ASSUME UNCHANGED <<heap, bloqueados, hecha, lugar>>, hilo_pc'[e] = hilo_pc[e],
               hilo_pb'[e] = hilo_pb[e], a_interfaz'[e] = a_interfaz[e],
               de_interfaz'[e] = de_interfaz[e], abierta'[e] = abierta[e]
        PROVE  EncargoDe(e)'
    BY <1>0, <1>q, EncargoIgual
  <1>1. CASE \E c \in Interfaz : Toma(c)
    <2> PICK c \in Interfaz : Toma(c)
      BY <1>1
    <2>1. CASE e = c
      <3> DEFINE d == Head(bloqueados[c])
      <3>1. d \in Range(bloqueados[c]) /\ d \in Dir
        BY PrimeroLema DEF Toma
      <3>2. heap[d] # Nada
        BY <3>1, EncoladoLema
      <3>4. hilo_pc[e] = "espera" /\ hilo_pc'[e] = "envia" /\ hilo_pb'[e] = d
        BY <2>1 DEF Toma, TypeOK
      <3>5. UNCHANGED <<a_interfaz, de_interfaz, bloqueados, heap>>
        BY DEF Toma
      <3>6. a_interfaz'[e] = Nada /\ de_interfaz'[e] = Nada
        BY <1>0, <3>4, <3>5 DEF EncargoDe
      <3> HIDE DEF d
      <3> QED  BY <2>1, <3>1, <3>4, <3>5, <3>6 DEF EncargoDe, Atendiendo
    <2>2. CASE e # c
      BY <2>2, <1>q DEF Toma, TypeOK
    <2> QED  BY <2>1, <2>2
  <1>2. CASE \E c \in Interfaz : Envia(c)
    <2> PICK c \in Interfaz : Envia(c)
      BY <1>2
    <2>1. CASE e = c
      <3>1. hilo_pc[e] = "envia" /\ heap[hilo_pb[e]] # Nada
        BY <2>1 DEF Envia
      <3>2. a_interfaz[e] = Nada /\ de_interfaz[e] = Nada
        BY <1>0, <3>1 DEF EncargoDe
      <3>3. CASE abierta[e]
        <4>1. /\ hilo_pc'[e] = "recibe" /\ a_interfaz'[e] = Enviado(hilo_pb[e])
              /\ UNCHANGED <<heap, bloqueados, hilo_pb, de_interfaz, abierta>>
          BY <2>1, <3>3 DEF Envia, Enviado, TypeOK
        <4>2. Enviado(hilo_pb[e])' = Enviado(hilo_pb[e]) /\ hilo_pb'[e] = hilo_pb[e]
          BY <4>1 DEF Enviado, Pid
        <4> QED  BY <1>0, <3>1, <3>2, <3>3, <4>1, <4>2 DEF EncargoDe, Enviado, Pid, Atendiendo
      <3>4. CASE ~abierta[e]
        <4>1. hilo_pc'[e] \notin Atendiendo /\ a_interfaz'[e] = Nada /\ de_interfaz'[e] = Nada
          BY <2>1, <3>2, <3>4 DEF Envia, TrasCaerse, Atendiendo, TypeOK
        <4> QED  BY <4>1, EncargoVacio
      <3> QED  BY <3>3, <3>4
    <2>2. CASE e # c
      BY <2>2, <1>q DEF Envia, TypeOK
    <2> QED  BY <2>1, <2>2
  <1>3. CASE \E c \in Interfaz : Recibe(c)
    <2> PICK c \in Interfaz : Recibe(c)
      BY <1>3
    <2>1. CASE e = c
      <3>1. /\ hilo_pc[e] = "recibe" /\ hilo_pc'[e] = "desbloquea" /\ de_interfaz[e] # Nada
            /\ de_interfaz'[e] = Nada
            /\ UNCHANGED <<heap, bloqueados, hilo_pb, a_interfaz, hecha>>
        BY <2>1 DEF Recibe, TypeOK
      <3>2. a_interfaz'[e] = Nada
        BY <1>0, <3>1 DEF EncargoDe
      <3> QED  BY <1>0, <3>1, <3>2 DEF EncargoDe, Enviado, Pid, Atendiendo
    <2>2. CASE e # c
      BY <2>2, <1>q DEF Recibe, TypeOK
    <2> QED  BY <2>1, <2>2
  <1>4. CASE \E c \in Interfaz : \/ RecibeError(c) \/ Descarta(c) \/ EliminaVe(c) \/ QuitaDic(c)
                                 \/ QuitaNombre(c) \/ Libera(c) \/ Registra(c) \/ AgregaNombre(c)
                                 \/ \E n \in Nombres : Conecta(c, n)
    <2> PICK c \in Interfaz : \/ RecibeError(c) \/ Descarta(c) \/ EliminaVe(c) \/ QuitaDic(c)
                             \/ QuitaNombre(c) \/ Libera(c) \/ Registra(c) \/ AgregaNombre(c)
                             \/ \E n \in Nombres : Conecta(c, n)
      BY <1>4
    <2>0. UNCHANGED <<heap, bloqueados, hecha, lugar, a_interfaz, de_interfaz>>
      BY DEF RecibeError, Descarta, EliminaVe, QuitaDic, QuitaNombre, Libera, Registra,
             RegistraNada, AgregaNombre,
             Conecta
    <2>1. CASE e = c
      <3>1. hilo_pc'[e] \notin Atendiendo
        BY <2>1 DEF RecibeError, TrasCaerse, Descarta, EliminaVe, QuitaDic, QuitaNombre, Libera,
                    Registra, RegistraNada, AgregaNombre, Conecta, Atendiendo, TypeOK
      <3>2. \/ hilo_pc[e] # "recibe"
            \/ hilo_pc[e] = "recibe" /\ de_interfaz[e] = Nada /\ ~abierta[e]
        BY <2>1 DEF RecibeError, Descarta, EliminaVe, QuitaDic, QuitaNombre, Libera, Registra,
                    AgregaNombre, Conecta
      <3>3. a_interfaz[e] = Nada /\ de_interfaz[e] = Nada
        BY <1>0, <3>2 DEF EncargoDe
      <3> QED  BY <2>0, <3>1, <3>3, EncargoVacio
    <2>2. CASE e # c
      <3>1. hilo_pc'[e] = hilo_pc[e] /\ hilo_pb'[e] = hilo_pb[e] /\ abierta'[e] = abierta[e]
        BY <2>2 DEF RecibeError, Descarta, EliminaVe, QuitaDic, QuitaNombre, Libera, Registra,
                    AgregaNombre, Conecta, TypeOK
      <3> QED  BY <2>0, <3>1, <1>q
    <2> QED  BY <2>1, <2>2
  <1>5. CASE \E c \in Interfaz : Desbloquea(c) \/ EliminaSaca(c)
    <2> PICK c \in Interfaz : Desbloquea(c) \/ EliminaSaca(c)
      BY <1>5
    <2>0. UNCHANGED <<conexion, hecha>>
      BY DEF Desbloquea, EliminaSaca, Eliminar
    <2>1. CASE e = c
      <3>1. hilo_pc[e] # "recibe" /\ hilo_pc'[e] \notin Atendiendo
        BY <2>1 DEF Desbloquea, EliminaSaca, Atendiendo, TypeOK
      <3>2. a_interfaz[e] = Nada /\ de_interfaz[e] = Nada
        BY <1>0, <3>1 DEF EncargoDe
      <3> QED  BY <2>0, <3>1, <3>2, EncargoVacio
    <2>2. CASE e # c
      <3>1. hilo_pc'[e] = hilo_pc[e] /\ hilo_pb'[e] = hilo_pb[e]
        BY <2>2 DEF Desbloquea, EliminaSaca, TypeOK
      <3> QED  BY <2>0, <2>2, <3>1, PrimeroSale, EncargoSaca
    <2> QED  BY <2>1, <2>2
  <1>6. CASE Busca
    <2>0. UNCHANGED <<conexion, hecha, hilo>>
      BY <1>6 DEF Busca, Eliminar
    <2>1. con_interfaz \in Interfaz
      BY <1>6, BuscadoSale
    <2> PICK c \in Interfaz : c = con_interfaz
      BY <2>1
    <2>2. PICK d \in Range(bloqueados[c]), q \in Seq(Dir) :
              /\ Pid(d) = con_pid /\ d \in Dir /\ IsInjective(q) /\ Range(q) = Range(bloqueados[c]) \ {d}
              /\ bloqueados' = [bloqueados EXCEPT ![c] = q] /\ heap' = [heap EXCEPT ![d] = Nada]
              /\ \A p \in Pids \ {Pid(d)} : lugar'[p] = lugar[p]
      BY <1>6, BuscadoSale
    <2>3. CASE e # c \/ hilo_pb[e] # d
      BY <2>0, <2>2, <2>3, EncargoSaca
    <2>4. CASE e = c /\ hilo_pb[e] = d
      <3>1. heap[d] # Nada /\ Pid(d) \in Pids
        BY EncoladoLema
      <3>2. heap'[d] = Nada
        BY <2>2 DEF TypeOK
      <3>3. lugar'[Pid(d)] = "EXIT"
        BY <1>6, <2>2, <3>1 DEF Busca, Eliminar, TypeOK
      <3>4. ASSUME a_interfaz[e] # Nada PROVE a_interfaz[e][1] = Pid(d)
        <4>1. a_interfaz[e] = Enviado(d)
          BY <1>0, <2>4, <3>1, <3>4 DEF EncargoDe
        <4> QED  BY <1>0, <2>2, <3>1, <4>1, VivoLema
      <3> QED  BY <1>0, <2>0, <2>4, <3>2, <3>3, <3>4 DEF EncargoDe
    <2> QED  BY <2>3, <2>4
  <1>7. CASE Encola
    <2>1. /\ pcp_pid \in Pids /\ pedida[pcp_pid] \in Instrucciones /\ pedidos \in Dir
          /\ pcp_interfaz \in Interfaz /\ lugar[pcp_pid] = "pcp" /\ pcp_pc = "encola"
      BY <1>7, BuscadaLema DEF Encola, HilosInv, PcpInv, TypeOK
    <2> PICK c \in Interfaz : c = pcp_interfaz
      BY <2>1
    <2>2. PICK d \in Malloc :
              /\ heap' = [heap EXCEPT ![d] = Bloqueado(pcp_pid, pedida[pcp_pid])]
              /\ bloqueados' = [bloqueados EXCEPT ![c] = Append(bloqueados[c], d)]
              /\ reuso' = (reuso \/ \E f \in Interfaz : Tiene(f, d))
      BY <1>7 DEF Encola
    <2>3. d \in Dir
      BY <2>1, <2>2 DEF Malloc, Dir
    <2>4. UNCHANGED <<hecha, conexion, hilo>>
      BY <1>7 DEF Encola
    <2>5. hilo_pc[e] \in Atendiendo => hilo_pb[e] # d
      <3>1. ~Tiene(e, d)
        BY <2>2, Zenon
      <3> QED  BY <3>1 DEF Tiene, Atendiendo
    <2>6. Range(Append(bloqueados[c], d)) = Range(bloqueados[c]) \cup {d}
      BY <2>1, <2>3, ColaAgrega DEF TypeOK
    <2>7. Range(bloqueados[e]) \subseteq Range(bloqueados'[e])
      <3>1. CASE e = c
        BY <3>1, <2>2, <2>6 DEF TypeOK
      <3>2. CASE e # c
        BY <3>2, <2>2 DEF TypeOK
      <3> QED  BY <3>1, <3>2
    <2>8. ASSUME hilo_pc[e] \in Atendiendo PROVE heap'[hilo_pb[e]] = heap[hilo_pb[e]]
      BY <1>v, <2>2, <2>5, <2>8 DEF TypeOK
    <2>9. ASSUME a_interfaz[e] # Nada, lugar[a_interfaz[e][1]] = "EXIT"
          PROVE  lugar'[a_interfaz[e][1]] = "EXIT"
      BY <1>7, <1>p, <2>1, <2>9 DEF Encola, TypeOK
    <2> QED  BY <1>0, <2>4, <2>7, <2>8, <2>9, EncargoIgual
  <1>8. CASE \E p \in Pids, i \in Instrucciones : Pide(p, i)
    <2> PICK p \in Pids, i \in Instrucciones : Pide(p, i)
      BY <1>8
    <2>1. UNCHANGED <<heap, bloqueados, conexion, hilo>> /\ lugar[p] = "otro"
      BY DEF Pide
    <2>2. ASSUME hilo_pc[e] \in Atendiendo, heap[hilo_pb[e]] # Nada
          PROVE  hecha'[Pid(hilo_pb[e])] = hecha[Pid(hilo_pb[e])]
      BY <1>v, <2>1, <2>2 DEF Pide, TypeOK
    <2>3. ASSUME a_interfaz[e] # Nada, lugar[a_interfaz[e][1]] = "EXIT"
          PROVE  lugar'[a_interfaz[e][1]] = "EXIT"
      BY <1>p, <2>1, <2>3 DEF Pide, TypeOK
    <2> QED  BY <1>0, <2>1, <2>2, <2>3, EncargoIgual
  <1>9. CASE interfaz_invalida
    <2>1. UNCHANGED <<heap, bloqueados, conexion, hilo, hecha>>
      BY <1>9 DEF interfaz_invalida, Eliminar
    <2>2. ASSUME a_interfaz[e] # Nada, lugar[a_interfaz[e][1]] = "EXIT"
          PROVE  lugar'[a_interfaz[e][1]] = "EXIT"
      BY <1>9, <1>p, <2>2 DEF interfaz_invalida, Eliminar, TypeOK
    <2> QED  BY <1>0, <2>1, <2>2, EncargoIgual
  <1>10. CASE \E c \in Interfaz : Hace(c)
    <2> PICK c \in Interfaz : Hace(c)
      BY <1>10
    <2>0. EncargoDe(c) /\ a_interfaz[c] # Nada /\ a_interfaz[c][1] \in Pids
      BY PaquetesLema DEF PedidosInv, Hace, TypeOK
    <2>1. /\ hecha' = [hecha EXCEPT ![a_interfaz[c][1]] = Interpreta(a_interfaz[c])]
          /\ UNCHANGED <<heap, bloqueados, lugar, abierta, hilo>>
      BY DEF Hace
    <2>2. hilo_pc[c] = "recibe" /\ hilo_pb[c] \in Dir
      BY <2>0 DEF EncargoDe, HilosInv, TurnosInv, Atendiendo
    <2>3. CASE e = c
      <3>1. a_interfaz'[e] = Nada
        BY <2>3 DEF Hace, TypeOK
      <3>2. ASSUME heap[hilo_pb[e]] # Nada
            PROVE  hecha'[Pid(hilo_pb[e])] = Interpreta(Enviado(hilo_pb[e]))
        <4>1. a_interfaz[e] = Enviado(hilo_pb[e])
          BY <2>0, <2>3, <3>2 DEF EncargoDe
        <4>2. a_interfaz[e][1] = Pid(hilo_pb[e]) /\ Pid(hilo_pb[e]) \in Pids
          BY <1>0, <2>2, <2>3, <3>2, <4>1, VivoLema
        <4> QED  BY <2>1, <2>3, <4>1, <4>2 DEF TypeOK
      <3>3. /\ Enviado(hilo_pb[e])' = Enviado(hilo_pb[e]) /\ Pid(hilo_pb[e])' = Pid(hilo_pb[e])
        BY <2>1 DEF Enviado, Pid
      <3> QED  BY <1>0, <2>1, <2>2, <2>3, <3>1, <3>2, <3>3 DEF EncargoDe, Enviado, Pid
    <2>4. CASE e # c
      <3>1. ASSUME hilo_pc[e] \in Atendiendo, heap[hilo_pb[e]] # Nada
            PROVE  Pid(hilo_pb[e]) # a_interfaz[c][1]
        <4>1. hilo_pb[e] \in Range(bloqueados[e]) /\ lugar[Pid(hilo_pb[e])] = "bloqueado"
          BY <1>0, <1>v, <3>1 DEF EncargoDe
        <4>2. CASE heap[hilo_pb[c]] # Nada
          <5>1. hilo_pb[c] \in Range(bloqueados[c]) /\ a_interfaz[c] = Enviado(hilo_pb[c])
            BY <2>0, <2>2, <4>2 DEF EncargoDe, Atendiendo
          <5>2. a_interfaz[c][1] = Pid(hilo_pb[c])
            BY <1>0, <2>2, <4>2, <5>1, VivoLema
          <5> QED  BY <2>4, <4>1, <5>1, <5>2 DEF ColasInv
        <4>3. CASE heap[hilo_pb[c]] = Nada
          BY <2>0, <4>1, <4>3 DEF EncargoDe
        <4> QED  BY <4>2, <4>3
      <3>2. ASSUME hilo_pc[e] \in Atendiendo, heap[hilo_pb[e]] # Nada
            PROVE  hecha'[Pid(hilo_pb[e])] = hecha[Pid(hilo_pb[e])]
        BY <1>v, <2>1, <3>1, <3>2 DEF TypeOK
      <3>3. a_interfaz'[e] = a_interfaz[e] /\ de_interfaz'[e] = de_interfaz[e]
        BY <2>4 DEF Hace, TypeOK
      <3> QED  BY <1>0, <2>1, <3>2, <3>3, EncargoIgual
    <2> QED  BY <2>3, <2>4
  <1>11. CASE \E c \in Interfaz : Cae(c)
    <2> PICK c \in Interfaz : Cae(c)
      BY <1>11
    <2>1. CASE e = c
      <3>1. /\ a_interfaz'[e] = Nada
            /\ UNCHANGED <<heap, bloqueados, hecha, hilo, de_interfaz>>
        BY <2>1 DEF Cae, TypeOK
      <3>2. /\ Enviado(hilo_pb[e])' = Enviado(hilo_pb[e]) /\ Pid(hilo_pb[e])' = Pid(hilo_pb[e])
        BY <3>1 DEF Enviado, Pid
      <3> QED  BY <1>0, <3>1, <3>2 DEF EncargoDe, Enviado, Pid
    <2>2. CASE e # c
      BY <2>2, <1>q DEF Cae, TypeOK
    <2> QED  BY <2>1, <2>2
  <1>12. CASE UNCHANGED <<heap, bloqueados, hecha, lugar, conexion, hilo>>
    BY <1>12, <1>q
  <1>13. CASE \E c \in Interfaz : RegistraNada(c) \/ TomaNull(c) \/ LeeLiberado(c) \/ EliminaNull(c)
    BY <1>13, <1>12 DEF RegistraNada, TomaNull, LeeLiberado, EliminaNull, Muere
  <1>14. CASE Existe \/ interfaz_soporta_operacion \/ Obtiene \/ Avisa \/ PcpSinInterfaz
    BY <1>14, <1>12 DEF Existe, interfaz_soporta_operacion, Obtiene, Avisa, PcpSinInterfaz, Muere
  <1>15. CASE \/ Obtener \/ ObtenerNull \/ NoEsta \/ NoEncontrado \/ Pausa
             \/ (\E p \in Pids : Finaliza(p)) \/ UNCHANGED vars
    BY <1>15, <1>12 DEF Obtener, ObtenerNull, NoEsta, NoEncontrado, Finaliza, Pausa,
                        pausar_planificacion, reanudar_planificacion, Muere, vars
  <1> QED
    BY <1>1, <1>2, <1>3, <1>4, <1>5, <1>6, <1>7, <1>8, <1>9, <1>10, <1>11, <1>13, <1>14, <1>15
       DEF Next, atender_io, Pcp, Consola

-----------------------------------------------------------------------------
(* The theorems                                                             *)

\* The invariant at the start.
THEOREM InterfacesInit == Init => InterfacesInv
  <1> SUFFICES ASSUME Init PROVE InterfacesInv
    OBVIOUS
  <1> USE InterfacesOK DEF Init
  <1>1. TypeOK
    <2>1. <<>> \in Seq(Nombres) /\ <<>> \in Seq(Dir)
      OBVIOUS
    <2>2. /\ hilo_pc \in [Interfaz -> {"nadie", "fin", "registra", "agrega_nombre", "espera",
                                       "envia", "recibe", "desbloquea", "elimina",
                                       "elimina_saca", "quita_dic", "quita_nombre", "libera"}]
          /\ bloqueados \in [Interfaz -> Seq(Dir)] /\ nombres_interfaces \in Seq(Nombres)
      BY <2>1
    <2>3. /\ hilo_pb \in [Interfaz -> Dir \cup {Nada}]
          /\ procesos_esperando \in [Interfaz -> Nat] /\ liberada \in [Interfaz -> BOOLEAN]
          /\ a_interfaz \in [Interfaz -> Paquetes \cup {Nada}]
          /\ de_interfaz \in [Interfaz -> {"MENSAJE_FIN_IO", Nada}]
          /\ heap \in [Dir -> Encolables \cup {Nada}]
      OBVIOUS
    <2>4. /\ lugar \in [Pids -> {"otro", "pcp", "bloqueado", "EXIT"}]
          /\ pedida \in [Pids -> Instrucciones \cup {Nada}] /\ hecha \in [Pids -> Hechas \cup {Nada}]
          /\ eliminado \in [Pids -> Nat] /\ nombre \in [Interfaz -> Nombres \cup {Nada}]
          /\ interfaces_conectadas \in [Nombres -> Interfaz \cup {Nada}]
          /\ abierta \in [Interfaz -> BOOLEAN]
      OBVIOUS
    <2>5. pedidos \in 0..MaxPedidos /\ finalizados \in 0..MaxFinalizar /\ con_i \in Nat
      OBVIOUS
    <2>6. /\ pcp_pc = "libre" /\ con_pc = "libre" /\ pcp_pid = Nada /\ pcp_interfaz = Nada
          /\ con_pid = Nada /\ con_interfaz = Nada /\ caido = FALSE
          /\ planificacion_pausada = FALSE /\ reuso = FALSE
      OBVIOUS
    <2> HIDE DEF Init
    <2> QED  BY <2>2, <2>3, <2>4, <2>5, <2>6 DEF TypeOK
  <1>2. HilosInv /\ DiccionarioInv
    BY DEF HilosInv, TurnosInv, PcpInv, ConInv, DiccionarioInv, Atendiendo
  <1>3. \A c \in Interfaz : bloqueados[c] = <<>>
    OBVIOUS
  <1>4. Range(<<>>) = {} /\ IsInjective(<<>>)
    BY DEF Range, IsInjective
  <1>5. EliminadosInv /\ ColasInv
    BY <1>3, <1>4 DEF EliminadosInv, ColasInv
  <1>6. AvisosInv
    BY <1>3 DEF AvisosInv, AvisosDe, Atendidos, Atendiendo
  <1>7. PedidosInv
    BY DEF PedidosInv, Vivo, EncargoDe, Atendiendo
  <1> QED  BY <1>1, <1>2, <1>5, <1>6, <1>7 DEF InterfacesInv

\* The invariant is kept by every step.
THEOREM InterfacesPaso == InterfacesInv /\ [Next]_vars => InterfacesInv'
  <1> SUFFICES ASSUME InterfacesInv, [Next]_vars PROVE InterfacesInv'
    OBVIOUS
  <1> USE DEF InterfacesInv
  <1>1. TypeOK' /\ HilosInv' /\ DiccionarioInv'
    BY TipoPaso, HilosPaso, DiccionarioPaso
  <1>2. EliminadosInv' /\ ColasInv'
    BY EliminadosPaso, ColasPaso
  <1>3. AvisosInv'
    BY AvisosPaso
  <1>4. ASSUME ~reuso' PROVE PedidosInv'
    <2>1. PedidosInv
      BY <1>4, ReusoPaso
    <2> QED  BY <1>4, <2>1, VivosPaso, EncargosPaso DEF PedidosInv
  <1> QED  BY <1>1, <1>2, <1>3, <1>4

\* The invariant of the interfaces, always.
THEOREM InterfacesSiempre == Spec => []InterfacesInv
  BY InterfacesInit, InterfacesPaso, PTL DEF Spec

\* The console never follows a pointer to a t_interfaz that its thread freed.
THEOREM ConsolaSeguraSiempre == Spec => []ConsolaSegura
  <1>1. InterfacesInv => ConsolaSegura
    <2> SUFFICES ASSUME InterfacesInv, con_interfaz # Nada PROVE ~liberada[con_interfaz]
      BY DEF ConsolaSegura
    <2>1. con_interfaz \in Interfaz
      BY DEF InterfacesInv, TypeOK
    <2>2. hilo_pc[con_interfaz] # "fin"
      BY DEF InterfacesInv, DiccionarioInv, EnElDiccionario, Atendiendo
    <2> QED  BY <2>1, <2>2 DEF InterfacesInv, HilosInv, TurnosInv
  <1> QED  BY <1>1, InterfacesSiempre, PTL

\* Nobody is eliminated twice, and no queue has what was freed.
THEOREM EliminadoUnaVezSiempre == Spec => []EliminadoUnaVez
  <1>1. InterfacesInv => EliminadoUnaVez
    <2> SUFFICES ASSUME InterfacesInv PROVE EliminadoUnaVez
      OBVIOUS
    <2>1. ASSUME NEW c \in Interfaz, NEW k \in DOMAIN bloqueados[c] PROVE heap[bloqueados[c][k]] # Nada
      <3>1. bloqueados[c][k] \in Range(bloqueados[c])
        BY <2>1 DEF Range
      <3> QED  BY <3>1 DEF InterfacesInv, ColasInv
    <2> QED  BY <2>1 DEF EliminadoUnaVez, InterfacesInv, EliminadosInv
  <1> QED  BY <1>1, InterfacesSiempre, PTL

\* No blocked process is left without the unit that wakes its interface.
THEOREM SinAvisosPerdidosSiempre == Spec => []SinAvisosPerdidos
  <1>1. InterfacesInv => SinAvisosPerdidos
    BY DEF InterfacesInv, AvisosInv, AvisosDe, SinAvisosPerdidos, Atendiendo
  <1> QED  BY <1>1, InterfacesSiempre, PTL

\* Every instruction, whatever its registers hold, is done as it is written.
THEOREM OperacionFielSiempre == Spec => []OperacionFiel
  <1>1. OperacionFiel
    <2> SUFFICES ASSUME NEW p \in Pids, NEW i \in Repertorio
                 PROVE  LET paquete == Reenvia(p, Empaqueta(decode(i))) IN
                        Interpreta(paquete) = Pedido(p, i) /\ EntraEnLoTipeado(paquete)
      BY DEF OperacionFiel
    <2>1. BienEscrita(i)
      BY InterfacesOK
    <2> QED  BY <2>1, FielLema
  <1> QED  BY <1>1, PTL

\* Who leaves the queue of an interface for READY had its instruction done, whatever malloc gives,
\* until it gives out again an address that an interface still holds: from then on, what
\* interfaces.c:57-60 compares is not enough (TLC finds the interface that unblocks another).
THEOREM HaceLoPedidoSiempre == Spec => HaceLoPedido
  <1>1. ASSUME InterfacesInv, [Next]_vars, ~reuso,
               NEW p \in Pids, lugar[p] = "bloqueado", lugar'[p] = "otro"
        PROVE  hecha[p] = Pedido(p, pedida[p])
    <2> USE <1>1, InterfacesOK DEF proceso, registro, conexion, hilo, interfaz, pcp, con, historia, Va
    <2>1. TypeOK /\ HilosInv /\ ColasInv /\ PedidosInv
      BY DEF InterfacesInv
    <2>2. ASSUME NEW c \in Interfaz, Desbloquea(c) PROVE hecha[p] = Pedido(p, pedida[p])
      <3> DEFINE d == Head(bloqueados[c])
      <3>1. d \in Range(bloqueados[c]) /\ d \in Dir /\ d = hilo_pb[c] /\ hilo_pc[c] = "desbloquea"
        BY <2>1, <2>2, PrimeroLema DEF Desbloquea, Sigue
      <3>2. heap[d] # Nada /\ Vivo(d) /\ EncargoDe(c)
        BY <2>1, <3>1, EncoladoLema DEF PedidosInv
      <3>3. p = Pid(d)
        BY <2>1, <2>2 DEF Desbloquea, TypeOK
      <3> HIDE DEF d
      <3>4. hecha[Pid(d)] = Interpreta(Enviado(d))
        BY <3>1, <3>2 DEF EncargoDe
      <3>5. Interpreta(Enviado(d)) = Pedido(Pid(d), pedida[Pid(d)])
        BY <2>1, <3>1, <3>2, VivoLema
      <3> QED  BY <3>3, <3>4, <3>5
    <2>3. CASE lugar' = lugar
      BY <2>3
    <2>4. CASE \E c \in Interfaz : EliminaSaca(c)
      BY <2>1, <2>4 DEF EliminaSaca, Eliminar, TypeOK
    <2>5. CASE Busca \/ interfaz_invalida
      BY <2>1, <2>5 DEF Busca, interfaz_invalida, Eliminar, TypeOK
    <2>6. CASE Encola
      BY <2>1, <2>6 DEF Encola, TypeOK
    <2>7. CASE \E q \in Pids, i \in Instrucciones : Pide(q, i)
      BY <2>1, <2>7 DEF Pide, TypeOK
    <2>8. CASE \E c \in Interfaz : \/ atender_io(c) /\ ~Desbloquea(c) /\ ~EliminaSaca(c)
                                   \/ Hace(c) \/ Cae(c) \/ \E n \in Nombres : Conecta(c, n)
      BY <2>8, <2>3 DEF atender_io, Registra, RegistraNada, AgregaNombre, Toma, TomaNull, Envia,
                        LeeLiberado, Recibe,
                   RecibeError, Descarta, EliminaVe, EliminaNull, QuitaDic, QuitaNombre, Libera,
                   Muere, Hace, Cae, Conecta
    <2>9. CASE Existe \/ interfaz_soporta_operacion \/ Obtiene \/ Avisa \/ PcpSinInterfaz
      BY <2>9, <2>3 DEF Existe, interfaz_soporta_operacion, Obtiene, Avisa, PcpSinInterfaz, Muere
    <2>10. CASE \/ Obtener \/ ObtenerNull \/ NoEsta \/ NoEncontrado \/ Pausa
               \/ (\E q \in Pids : Finaliza(q)) \/ UNCHANGED vars
      BY <2>10, <2>3 DEF Obtener, ObtenerNull, NoEsta, NoEncontrado, Finaliza, Pausa,
                         pausar_planificacion, reanudar_planificacion, Muere, vars
    <2> QED  BY <2>2, <2>4, <2>5, <2>6, <2>7, <2>8, <2>9, <2>10 DEF Next, Pcp, Consola
  <1>2. InterfacesInv /\ [Next]_vars =>
            [\A p \in Pids : lugar[p] = "bloqueado" /\ lugar'[p] = "otro" /\ ~reuso =>
                hecha[p] = Pedido(p, pedida[p])]_vars
    BY <1>1
  <1> QED  BY <1>2, InterfacesSiempre, PTL DEF Spec, HaceLoPedido
=============================================================================
