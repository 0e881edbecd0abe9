--------------------------- MODULE PruebaConexion ---------------------------
(***************************************************************************)
(* The theorems of Conexion, for any number of processes, of threads that   *)
(* eliminate them and of paths that cannot be opened.  The invariant is     *)
(* ConexionInv: each of its parts is kept by a lemma of its own, with one   *)
(* step per action.                                                         *)
(***************************************************************************)
EXTENDS Conexion, SequenceTheorems, FiniteSetTheorems, TLAPS

-----------------------------------------------------------------------------
(* Lemmas about a queue of messages                                         *)

\* How many operations a queue of messages has.
Cuenta(q) == Cardinality({k \in DOMAIN q : EsOperacion(q[k])})

\* Counting the operations of a queue gives a natural number.
LEMMA CuentaTipo ==
  ASSUME NEW S, NEW q \in Seq(S)
  PROVE  /\ IsFiniteSet({k \in DOMAIN q : EsOperacion(q[k])})
         /\ Cuenta(q) \in Nat
  <1>1. DOMAIN q = 1..Len(q) /\ Len(q) \in Nat
    BY LenProperties
  <1>2. IsFiniteSet(1..Len(q))
    BY <1>1, FS_Interval
  <1>3. IsFiniteSet({k \in DOMAIN q : EsOperacion(q[k])})
    BY <1>1, <1>2, FS_Subset
  <1> QED  BY <1>3, FS_CardinalityType DEF Cuenta

\* A message that arrives is one more operation, or none.
LEMMA CuentaAppend ==
  ASSUME NEW S, NEW q \in Seq(S), NEW m \in S
  PROVE  Cuenta(Append(q, m)) = Cuenta(q) + (IF EsOperacion(m) THEN 1 ELSE 0)
  <1> DEFINE a == Append(q, m)
             n == Len(q) + 1
             K == {k \in DOMAIN q : EsOperacion(q[k])}
             L == {k \in DOMAIN a : EsOperacion(a[k])}
  <1>1. /\ DOMAIN q = 1..Len(q) /\ Len(q) \in Nat /\ DOMAIN a = 1..n
        /\ a[n] = m /\ \A k \in 1..Len(q) : a[k] = q[k]
    BY AppendProperties, LenProperties
  <1>2. n \notin K /\ IsFiniteSet(K) /\ Cardinality(K) \in Nat
    BY <1>1, CuentaTipo, FS_CardinalityType
  <1>0. Cuenta(q) = Cardinality(K) /\ Cuenta(a) = Cardinality(L)
    BY DEF Cuenta
  <1>3. CASE EsOperacion(m)
    <2>1. L = K \cup {n}
      BY <1>1, <1>3
    <2>2. Cardinality(K \cup {n}) = Cardinality(K) + 1
      BY <1>2, FS_AddElement
    <2> HIDE DEF a, K, L
    <2> QED  BY <1>0, <1>3, <2>1, <2>2 DEF a
  <1>4. CASE ~EsOperacion(m)
    <2>1. L = K
      BY <1>1, <1>4
    <2> HIDE DEF a, K, L
    <2> QED  BY <1>0, <1>2, <1>4, <2>1 DEF a
  <1> QED  BY <1>3, <1>4

\* So is a message that is read.
LEMMA CuentaTail ==
  ASSUME NEW S, NEW q \in Seq(S), q # <<>>
  PROVE  Cuenta(q) = Cuenta(Tail(q)) + (IF EsOperacion(Head(q)) THEN 1 ELSE 0)
  <1> DEFINE t == Tail(q)
             K == {k \in DOMAIN q : EsOperacion(q[k])}
             L == {k \in DOMAIN t : EsOperacion(t[k])}
             R == K \ {1}
  <1>1. /\ DOMAIN q = 1..Len(q) /\ Len(q) \in Nat /\ Len(q) > 0 /\ Head(q) = q[1]
        /\ DOMAIN t = 1..(Len(q) - 1) /\ \A k \in 1..(Len(q) - 1) : t[k] = q[k + 1]
    BY HeadTailProperties, LenProperties, EmptySeq
  <1>2. IsFiniteSet(K) /\ IsFiniteSet(L) /\ Cardinality(K) \in Nat /\ Cardinality(L) \in Nat
    BY CuentaTipo, HeadTailProperties, FS_CardinalityType
  <1>3. Cardinality(R) = Cardinality(L)
    <2> DEFINE f == [k \in L |-> k + 1]
    <2>1. f \in [L -> R]
      BY <1>1
    <2>2. IsInjective(f)
      BY <1>1 DEF IsInjective
    <2>3. \A j \in R : \E k \in L : f[k] = j
      <3> SUFFICES ASSUME NEW j \in R PROVE j - 1 \in L /\ f[j - 1] = j
        OBVIOUS
      <3>1. j \in 2..Len(q) /\ EsOperacion(q[j])
        BY <1>1
      <3>2. j - 1 \in 1..(Len(q) - 1) /\ (j - 1) + 1 = j
        BY <1>1, <3>1
      <3> QED  BY <1>1, <3>1, <3>2
    <2>4. ExistsBijection(L, R)
      BY <2>1, <2>2, <2>3 DEF ExistsBijection, Bijection, Injection, Surjection
    <2> QED  BY <1>2, <2>4, FS_Bijection
  <1>4. Cardinality(R) = IF 1 \in K THEN Cardinality(K) - 1 ELSE Cardinality(K)
    BY <1>2, FS_RemoveElement
  <1>5. 1 \in K <=> EsOperacion(Head(q))
    BY <1>1
  <1>6. Cuenta(q) = Cardinality(K) /\ Cuenta(t) = Cardinality(L)
    BY DEF Cuenta
  <1> HIDE DEF K, L, R
  <1> QED  BY <1>2, <1>3, <1>4, <1>5, <1>6

\* What the queues of messages are after one arrives...
LEMMA Agrega ==
  ASSUME TypeOK, NEW m \in Mensaje, a_memoria' = Append(a_memoria, m)
  PROVE  /\ a_memoria' \in Seq(Mensaje)
         /\ Len(a_memoria) \in Nat /\ Len(a_memoria') = Len(a_memoria) + 1
         /\ a_memoria'[Len(a_memoria) + 1] = m
         /\ \A k \in 1..Len(a_memoria) : a_memoria'[k] = a_memoria[k]
  BY AppendProperties, LenProperties DEF TypeOK

\* ...and after one is read.
LEMMA Saca ==
  ASSUME TypeOK, a_memoria # <<>>, a_memoria' = Tail(a_memoria)
  PROVE  /\ a_memoria' \in Seq(Mensaje)
         /\ Len(a_memoria) \in Nat /\ Len(a_memoria) > 0
         /\ Len(a_memoria') = Len(a_memoria) - 1
         /\ Head(a_memoria) = a_memoria[1] /\ a_memoria[1] \in Mensaje
         /\ \A k \in 1..(Len(a_memoria) - 1) : a_memoria'[k] = a_memoria[k + 1]
  BY HeadTailProperties, LenProperties, EmptySeq DEF TypeOK

-----------------------------------------------------------------------------
(* Types, the mutex and who has each process                                *)

\* Every step keeps the types: a thread that sends a pid has one.
LEMMA TipoPaso == TypeOK /\ DuenosInv /\ [Next]_vars => TypeOK'
  <1> SUFFICES ASSUME TypeOK, DuenosInv, [Next]_vars PROVE TypeOK'
    OBVIOUS
  <1> USE ConexionOK DEF plp, el, memoria
  <1>1. CASE \E p \in Pids : PlpToma(p)
    BY <1>1 DEF PlpToma, Bloquear, TypeOK
  <1>2. CASE PlpEnviaOp
    <2>1. Entero("OPCODE_INICIO_PROCESO") \in Mensaje
      BY DEF Entero, Mensaje, Opcode
    <2>2. a_memoria' \in Seq(Mensaje)
      BY <1>2, <2>1, Agrega DEF PlpEnviaOp
    <2> QED  BY <1>2, <2>2 DEF PlpEnviaOp, TypeOK
  <1>3. CASE PlpEnviaPaquete
    <2>1. Paquete(plp_pid) \in Mensaje
      BY <1>3 DEF PlpEnviaPaquete, Paquete, Mensaje, TypeOK, DuenosInv
    <2>2. a_memoria' \in Seq(Mensaje)
      BY <1>3, <2>1, Agrega DEF PlpEnviaPaquete
    <2> QED  BY <1>3, <2>2 DEF PlpEnviaPaquete, Desbloquear, TypeOK
  <1>4. CASE PlpBloquea
    BY <1>4 DEF PlpBloquea, Bloquear, TypeOK
  <1>5. CASE PlpRecibe
    <2>1. Tail(a_kernel) \in Seq({"MENSAJE_OP_TERMINADA"})
      BY <1>5, HeadTailProperties DEF PlpRecibe, TypeOK
    <2> QED  BY <1>5, <2>1 DEF PlpRecibe, Desbloquear, TypeOK
  <1>6. CASE \E h \in Eliminadores, p \in Pids : Elimina(h, p)
    BY <1>6 DEF Elimina, TypeOK
  <1>7. CASE \E h \in Eliminadores : ElBloquea(h)
    BY <1>7 DEF ElBloquea, Bloquear, TypeOK
  <1>8. CASE \E h \in Eliminadores : ElEnviaOp(h)
    <2>1. Entero("OPCODE_FIN_PROCESO") \in Mensaje
      BY DEF Entero, Mensaje, Opcode
    <2>2. a_memoria' \in Seq(Mensaje)
      BY <1>8, <2>1, Agrega DEF ElEnviaOp
    <2> QED  BY <1>8, <2>2 DEF ElEnviaOp, TypeOK
  <1>9. CASE \E h \in Eliminadores : ElEnviaPid(h)
    <2> PICK h \in Eliminadores : ElEnviaPid(h)
      BY <1>9
    <2>1. Entero(el_pid[h]) \in Mensaje
      BY DEF ElEnviaPid, Entero, Mensaje, TypeOK, DuenosInv
    <2>2. a_memoria' \in Seq(Mensaje)
      BY <2>1, Agrega DEF ElEnviaPid, PidDe
    <2> QED  BY <2>2 DEF ElEnviaPid, Desbloquear, TypeOK
  <1>10. CASE MemOperacion
    BY <1>10, Saca DEF MemOperacion, Es, Mensaje, TypeOK
  <1>11. CASE recibir_crear_proceso
    BY <1>11, Saca DEF recibir_crear_proceso, Es, TypeOK
  <1>12. CASE recibir_liberar_proceso
    BY <1>12, Saca DEF recibir_liberar_proceso, Es, TypeOK
  <1>13. CASE MemResponde
    <2>1. a_kernel' \in Seq({"MENSAJE_OP_TERMINADA"})
      BY <1>13, AppendProperties DEF MemResponde, Responder, TypeOK
    <2> QED  BY <1>13, <2>1 DEF MemResponde, TypeOK
  <1>14. CASE LiberaNull \/ \E p \in Pids : FetchNull(p)
    BY <1>14 DEF LiberaNull, FetchNull, TypeOK
  <1>15. CASE UNCHANGED vars
    BY <1>15 DEF vars, TypeOK
  <1> QED
    BY <1>1, <1>2, <1>3, <1>4, <1>5, <1>6, <1>7, <1>8, <1>9, <1>10, <1>11, <1>12, <1>13, <1>14,
       <1>15 DEF Next, Plp, Eliminador, atender_kernel

\* Every step keeps the mutex and the owners: memoria and the fetch touch neither.
LEMMA DuenosPaso == TypeOK /\ MutexInv /\ DuenosInv /\ [Next]_vars => MutexInv' /\ DuenosInv'
  <1> SUFFICES ASSUME TypeOK, MutexInv, DuenosInv, [Next]_vars PROVE MutexInv' /\ DuenosInv'
    OBVIOUS
  <1> USE ConexionOK DEF plp, el, memoria, MutexInv, DuenosInv, TypeOK
  <1>1. CASE \E p \in Pids : PlpToma(p)
    BY <1>1 DEF PlpToma, Bloquear
  <1>2. CASE PlpEnviaOp
    BY <1>2 DEF PlpEnviaOp
  <1>3. CASE PlpEnviaPaquete
    BY <1>3 DEF PlpEnviaPaquete, Desbloquear
  <1>4. CASE PlpBloquea
    BY <1>4 DEF PlpBloquea, Bloquear
  <1>5. CASE PlpRecibe
    BY <1>5 DEF PlpRecibe, Desbloquear
  <1>6. CASE \E h \in Eliminadores, p \in Pids : Elimina(h, p)
    BY <1>6 DEF Elimina
  <1>7. CASE \E h \in Eliminadores : ElBloquea(h)
    BY <1>7 DEF ElBloquea, Bloquear
  <1>8. CASE \E h \in Eliminadores : ElEnviaOp(h)
    BY <1>8 DEF ElEnviaOp
  <1>9. CASE \E h \in Eliminadores : ElEnviaPid(h)
    BY <1>9 DEF ElEnviaPid, Desbloquear
  <1>10. CASE UNCHANGED <<lugar, plp, el, mutex_conexion_memoria>>
    BY <1>10
  <1> QED
    BY <1>1, <1>2, <1>3, <1>4, <1>5, <1>6, <1>7, <1>8, <1>9, <1>10
       DEF Next, Plp, Eliminador, atender_kernel, MemOperacion, recibir_crear_proceso,
           recibir_liberar_proceso, MemResponde, LiberaNull, FetchNull, vars

-----------------------------------------------------------------------------
(* The messages, in order                                                   *)

\* A message that fits after the last one leaves every message after one it fits.
LEMMA AgregaEncaja ==
  ASSUME TypeOK, NEW m \in Mensaje, a_memoria' = Append(a_memoria, m), mem_pc' = mem_pc,
         \A k \in 1..Len(a_memoria) : Encaja(Antes(k), a_memoria[k]),
         Encaja(Ultimo, m)
  PROVE  /\ \A k \in 1..Len(a_memoria') : Encaja(Antes(k)', a_memoria'[k])
         /\ Ultimo' = m.valor
  <1>1. /\ Len(a_memoria) \in Nat /\ Len(a_memoria') = Len(a_memoria) + 1
        /\ a_memoria'[Len(a_memoria) + 1] = m
        /\ \A k \in 1..Len(a_memoria) : a_memoria'[k] = a_memoria[k]
    BY Agrega
  <1>2. \A k \in 1..(Len(a_memoria) + 1) : Antes(k)' = Antes(k)
    BY <1>1 DEF Antes
  <1>3. Ultimo' = m.valor
    BY <1>1 DEF Ultimo, Antes
  <1>4. ASSUME NEW k \in 1..Len(a_memoria') PROVE Encaja(Antes(k)', a_memoria'[k])
    <2>1. CASE k = Len(a_memoria) + 1
      BY <1>1, <1>2, <2>1 DEF Ultimo
    <2>2. CASE k # Len(a_memoria) + 1
      <3>1. k \in 1..Len(a_memoria)
        BY <1>1, <2>2
      <3> QED  BY <1>1, <1>2, <3>1
    <2> QED  BY <2>1, <2>2
  <1> QED  BY <1>3, <1>4

\* So does reading one, when memoria goes on as what it read asks.
LEMMA SacaEncaja ==
  ASSUME TypeOK, a_memoria # <<>>, a_memoria' = Tail(a_memoria),
         \A k \in 1..Len(a_memoria) : Encaja(Antes(k), a_memoria[k]),
         mem_pc' = a_memoria[1].valor \/ {mem_pc', a_memoria[1].valor} \cap Opcode = {}
  PROVE  /\ \A k \in 1..Len(a_memoria') : Encaja(Antes(k)', a_memoria'[k])
         /\ \A op \in Opcode :
                Ultimo' = op <=> Ultimo = op
  <1>1. /\ Len(a_memoria) \in Nat /\ Len(a_memoria) > 0
        /\ Len(a_memoria') = Len(a_memoria) - 1
        /\ \A k \in 1..(Len(a_memoria) - 1) : a_memoria'[k] = a_memoria[k + 1]
    BY Saca
  <1>2. \A k \in 2..Len(a_memoria) : Antes(k)' = Antes(k + 1)
    <2> SUFFICES ASSUME NEW k \in 2..Len(a_memoria) PROVE Antes(k)' = Antes(k + 1)
      OBVIOUS
    <2>1. k - 1 \in 1..(Len(a_memoria) - 1) /\ (k - 1) + 1 = k /\ k # 1 /\ k + 1 # 1
          /\ (k + 1) - 1 = k
      BY <1>1
    <2>2. a_memoria'[k - 1] = a_memoria[k]
      BY <1>1, <2>1
    <2> QED  BY <2>1, <2>2 DEF Antes
  <1>3. Antes(1)' = mem_pc' /\ Antes(2) = a_memoria[1].valor
    BY DEF Antes
  <1>4. ASSUME NEW k \in 1..Len(a_memoria') PROVE Encaja(Antes(k)', a_memoria'[k])
    <2>1. k \in 1..Len(a_memoria) /\ k + 1 \in 1..Len(a_memoria) /\ a_memoria'[k] = a_memoria[k + 1]
      BY <1>1
    <2>2. Encaja(Antes(k + 1), a_memoria[k + 1])
      BY <2>1
    <2>3. CASE k = 1
      <3>1. Encaja(a_memoria[1].valor, a_memoria[2])
        BY <1>3, <2>2, <2>3
      <3>2. Encaja(mem_pc', a_memoria[2])
        BY <3>1 DEF Encaja, Opcode
      <3> QED  BY <1>3, <2>1, <2>3, <3>2
    <2>4. CASE k # 1
      BY <1>1, <1>2, <2>1, <2>2, <2>4
    <2> QED  BY <2>3, <2>4
  <1>5. ASSUME NEW op \in Opcode
        PROVE  Ultimo' = op <=> Ultimo = op
    <2>0. PICK n \in Nat : n = Len(a_memoria)
      BY <1>1
    <2>1. Ultimo' = Antes(n)' /\ Ultimo = Antes(n + 1)
      BY <1>1, <2>0 DEF Ultimo, Antes
    <2>2. CASE n = 1
      <3>1. mem_pc' = op <=> a_memoria[1].valor = op
        OBVIOUS
      <3>2. Ultimo' = mem_pc' /\ Ultimo = a_memoria[1].valor
        BY <1>3, <2>1, <2>2
      <3> QED  BY <3>1, <3>2
    <2>3. CASE n # 1
      <3>1. n \in 2..Len(a_memoria)
        BY <1>1, <2>0, <2>3
      <3> QED  BY <1>2, <2>1, <3>1
    <2> QED  BY <2>2, <2>3
  <1> QED  BY <1>4, <1>5

\* Every step keeps the order of the messages: the mutex keeps a request's two together.
LEMMA MensajesPaso ==
  TypeOK /\ MutexInv /\ DuenosInv /\ MensajesInv /\ [Next]_vars => MensajesInv'
  <1> SUFFICES ASSUME TypeOK, MutexInv, DuenosInv, MensajesInv, [Next]_vars PROVE MensajesInv'
    OBVIOUS
  <1> DEFINE n == Len(a_memoria)
  <1> USE ConexionOK DEF plp, el, memoria
  <1>0. /\ \A k \in 1..n : Encaja(Antes(k), a_memoria[k])
        /\ Ultimo = "OPCODE_INICIO_PROCESO" <=> plp_pc = "envia_paquete"
        /\ Ultimo = "OPCODE_FIN_PROCESO" <=> \E h \in Eliminadores : el_pc[h] = "envia_pid"
    BY DEF MensajesInv
  \* Nothing of it changes.
  <1>1. ASSUME a_memoria' = a_memoria, mem_pc' = mem_pc,
               plp_pc' = "envia_paquete" <=> plp_pc = "envia_paquete",
               \A h \in Eliminadores : el_pc'[h] = "envia_pid" <=> el_pc[h] = "envia_pid"
        PROVE  MensajesInv'
    <2>1. \A k : Antes(k)' = Antes(k)
      BY <1>1 DEF Antes
    <2> QED  BY <1>0, <1>1, <2>1 DEF MensajesInv, Ultimo
  <1>2. CASE \E p \in Pids : PlpToma(p)
    BY <1>1, <1>2 DEF PlpToma
  <1>3. CASE PlpEnviaOp
    <2>1. \A h \in Eliminadores : el_pc[h] # "envia_pid"
      BY <1>3 DEF PlpEnviaOp, MutexInv
    <2>2. Ultimo \notin Opcode
      BY <1>0, <1>3, <2>1 DEF PlpEnviaOp, Opcode
    <2>3. /\ Entero("OPCODE_INICIO_PROCESO") \in Mensaje
          /\ Encaja(Ultimo, Entero("OPCODE_INICIO_PROCESO"))
      BY <2>2 DEF Entero, Mensaje, Opcode, Encaja, Es
    <2>4. /\ \A k \in 1..Len(a_memoria') : Encaja(Antes(k)', a_memoria'[k])
          /\ Ultimo' = "OPCODE_INICIO_PROCESO"
      BY <1>0, <1>3, <2>3, AgregaEncaja DEF PlpEnviaOp, Entero
    <2> QED  BY <1>3, <2>1, <2>4 DEF PlpEnviaOp, MensajesInv
  <1>4. CASE PlpEnviaPaquete
    <2>1. \A h \in Eliminadores : el_pc[h] # "envia_pid"
      BY <1>4 DEF PlpEnviaPaquete, MutexInv
    <2>2. Ultimo = "OPCODE_INICIO_PROCESO" /\ plp_pid \in Pids
      BY <1>0, <1>4 DEF PlpEnviaPaquete, DuenosInv, TypeOK
    <2>3. Paquete(plp_pid) \in Mensaje /\ Encaja(Ultimo, Paquete(plp_pid))
      BY <2>2 DEF Paquete, Mensaje, Opcode, Encaja, Es
    <2>4. /\ \A k \in 1..Len(a_memoria') : Encaja(Antes(k)', a_memoria'[k])
          /\ Ultimo' = plp_pid
      BY <1>0, <1>4, <2>3, AgregaEncaja DEF PlpEnviaPaquete, Paquete
    <2> QED  BY <1>4, <2>1, <2>2, <2>4 DEF PlpEnviaPaquete, MensajesInv, Opcode
  <1>5. CASE PlpBloquea
    BY <1>1, <1>5 DEF PlpBloquea
  <1>6. CASE PlpRecibe
    BY <1>1, <1>6 DEF PlpRecibe
  <1>7. CASE \E h \in Eliminadores, p \in Pids : Elimina(h, p)
    BY <1>1, <1>7 DEF Elimina, TypeOK
  <1>8. CASE \E h \in Eliminadores : ElBloquea(h)
    BY <1>1, <1>8 DEF ElBloquea, TypeOK
  <1>9. CASE \E h \in Eliminadores : ElEnviaOp(h)
    <2> PICK h \in Eliminadores : ElEnviaOp(h)
      BY <1>9
    <2>1. plp_pc # "envia_paquete" /\ \A g \in Eliminadores : el_pc[g] # "envia_pid"
      BY DEF ElEnviaOp, MutexInv
    <2>2. Ultimo \notin Opcode
      BY <1>0, <2>1 DEF Opcode
    <2>3. /\ Entero("OPCODE_FIN_PROCESO") \in Mensaje
          /\ Encaja(Ultimo, Entero("OPCODE_FIN_PROCESO"))
      BY <2>2 DEF Entero, Mensaje, Opcode, Encaja, Es
    <2>4. /\ \A k \in 1..Len(a_memoria') : Encaja(Antes(k)', a_memoria'[k])
          /\ Ultimo' = "OPCODE_FIN_PROCESO"
      BY <1>0, <2>3, AgregaEncaja DEF ElEnviaOp, Entero
    <2>5. el_pc'[h] = "envia_pid" /\ plp_pc' = plp_pc
      BY DEF ElEnviaOp, TypeOK
    <2> QED  BY <2>1, <2>4, <2>5 DEF MensajesInv
  <1>10. CASE \E h \in Eliminadores : ElEnviaPid(h)
    <2> PICK h \in Eliminadores : ElEnviaPid(h)
      BY <1>10
    <2>1. plp_pc # "envia_paquete" /\ \A g \in Eliminadores : el_pc'[g] # "envia_pid"
      BY DEF ElEnviaPid, MutexInv, TypeOK
    <2>2. Ultimo = "OPCODE_FIN_PROCESO" /\ el_pid[h] \in Pids
      BY <1>0 DEF ElEnviaPid, DuenosInv, TypeOK
    <2>3. Entero(el_pid[h]) \in Mensaje /\ Encaja(Ultimo, Entero(el_pid[h]))
      BY <2>2 DEF Entero, Mensaje, Opcode, Encaja, Es
    <2>4. /\ \A k \in 1..Len(a_memoria') : Encaja(Antes(k)', a_memoria'[k])
          /\ Ultimo' = el_pid[h]
      BY <1>0, <2>3, AgregaEncaja DEF ElEnviaPid, PidDe, Entero
    <2>5. plp_pc' = plp_pc
      BY DEF ElEnviaPid
    <2> QED  BY <2>1, <2>2, <2>4, <2>5 DEF MensajesInv, Opcode
  \* Memoria reads the message it waits for.
  <1>11. ASSUME a_memoria # <<>>, a_memoria' = Tail(a_memoria),
                mem_pc' = a_memoria[1].valor \/ {mem_pc', a_memoria[1].valor} \cap Opcode = {},
                UNCHANGED <<plp_pc, el_pc>>
         PROVE  MensajesInv'
    BY <1>0, <1>11, SacaEncaja DEF MensajesInv, Opcode
  <1>12. CASE MemOperacion
    BY <1>11, <1>12, Saca DEF MemOperacion
  <1>13. CASE recibir_crear_proceso
    BY <1>11, <1>13, Saca DEF recibir_crear_proceso, Es, Opcode
  <1>14. CASE recibir_liberar_proceso
    BY <1>11, <1>14, Saca DEF recibir_liberar_proceso, Es, Opcode
  <1>15. CASE MemResponde
    <2>1. /\ a_memoria' = a_memoria /\ mem_pc = "responde" /\ mem_pc' = "operacion"
          /\ UNCHANGED <<plp_pc, el_pc>>
      BY <1>15 DEF MemResponde
    <2>2. \A k : Antes(k)' = Antes(k) \/ {Antes(k)', Antes(k)} \cap Opcode = {}
      BY <2>1 DEF Antes, Opcode
    <2> QED  BY <1>0, <2>1, <2>2 DEF MensajesInv, Encaja, Ultimo, Opcode
  <1>16. CASE UNCHANGED <<a_memoria, mem_pc, plp_pc, el_pc>>
    BY <1>1, <1>16
  <1> QED
    BY <1>2, <1>3, <1>4, <1>5, <1>6, <1>7, <1>8, <1>9, <1>10, <1>12, <1>13, <1>14, <1>15, <1>16
       DEF Next, Plp, Eliminador, atender_kernel, LiberaNull, FetchNull, vars

-----------------------------------------------------------------------------
(* The end of a process, after its start and once                           *)

\* A message that arrives leaves before each other what was there.
LEMMA AgregaEmpieza ==
  ASSUME TypeOK, NEW m \in Mensaje, a_memoria' = Append(a_memoria, m), procesos' = procesos,
         NEW p \in Pids
  PROVE  /\ \A n \in 0..Len(a_memoria) : Empieza(p, n) => Empieza(p, n)'
         /\ Empieza(p, Len(a_memoria)) => Empieza(p, Len(a_memoria))'
         /\ m = Paquete(p) => Empieza(p, Len(a_memoria))'
  <1>1. /\ Len(a_memoria) \in Nat /\ Len(a_memoria') = Len(a_memoria) + 1
        /\ a_memoria'[Len(a_memoria) + 1] = m
        /\ \A k \in 1..Len(a_memoria) : a_memoria'[k] = a_memoria[k]
    BY Agrega
  <1>2. Paquete(p)' = Paquete(p)
    BY DEF Paquete
  <1>3. \A n \in 0..Len(a_memoria) : Empieza(p, n) => Empieza(p, n)'
    BY <1>1, <1>2 DEF Empieza
  <1>4. Empieza(p, Len(a_memoria)) => Empieza(p, Len(a_memoria))'
    BY <1>1, <1>2 DEF Empieza
  <1>5. m = Paquete(p) => Empieza(p, Len(a_memoria))'
    BY <1>1, <1>2 DEF Empieza
  <1> QED  BY <1>3, <1>4, <1>5

\* A message that is read, too, unless it ends the process; the start leaves the process there.
LEMMA SacaEmpieza ==
  ASSUME TypeOK, a_memoria # <<>>, a_memoria' = Tail(a_memoria), NEW p \in Pids,
         procesos[p] # "ausente" \/ a_memoria[1] = Paquete(p) => procesos'[p] # "ausente"
  PROVE  /\ \A n \in 1..Len(a_memoria) : Empieza(p, n) => Empieza(p, n - 1)'
         /\ Empieza(p, Len(a_memoria)) => Empieza(p, Len(a_memoria))'
  <1>1. /\ Len(a_memoria) \in Nat /\ Len(a_memoria) > 0
        /\ Len(a_memoria') = Len(a_memoria) - 1
        /\ \A k \in 1..(Len(a_memoria) - 1) : a_memoria'[k] = a_memoria[k + 1]
    BY Saca
  <1>2. Paquete(p)' = Paquete(p)
    BY DEF Paquete
  <1>3. ASSUME NEW n \in 1..Len(a_memoria), Empieza(p, n) PROVE Empieza(p, n - 1)'
    <2>1. CASE procesos'[p] # "ausente"
      BY <2>1 DEF Empieza
    <2>2. CASE procesos'[p] = "ausente"
      <3>1. PICK j \in 1..n : a_memoria[j] = Paquete(p) /\ j # 1
        BY <1>3, <2>2 DEF Empieza
      <3>2. j - 1 \in 1..(n - 1) /\ j - 1 \in 1..(Len(a_memoria) - 1) /\ (j - 1) + 1 = j
        BY <1>1, <3>1
      <3>3. a_memoria'[j - 1] = Paquete(p)'
        BY <1>1, <1>2, <3>1, <3>2
      <3> QED  BY <3>2, <3>3 DEF Empieza
    <2> QED  BY <2>1, <2>2
  <1>4. Empieza(p, Len(a_memoria)) => Empieza(p, Len(a_memoria))'
    <2>0. Len(a_memoria) \in 1..Len(a_memoria)
      BY <1>1
    <2>1. PICK n \in 1..Len(a_memoria) : n = Len(a_memoria)
      BY <2>0
    <2>2. Len(a_memoria') = n - 1
      BY <1>1, <2>1
    <2>3. Empieza(p, Len(a_memoria)) <=> Empieza(p, n)
      BY <2>1
    <2>4. Empieza(p, Len(a_memoria))' <=> Empieza(p, n - 1)'
      BY <2>2 DEF Empieza
    <2> QED  BY <1>3, <2>3, <2>4
  <1> QED  BY <1>3, <1>4

\* An end is not an operation, nor a start.
LEMMA MensajesDistintos ==
  ASSUME NEW p \in Pids
  PROVE  /\ \A op \in Opcode : Entero(op) # Entero(p)
         /\ \A q : Paquete(q) # Entero(p) /\ (Entero(q) = Entero(p) => q = p)
         /\ \A op : Entero(op) # Paquete(p)
  BY ConexionOK DEF Entero, Paquete, Opcode

\* Every step keeps the order of starts and ends.
LEMMA FinesPaso ==
  TypeOK /\ DuenosInv /\ FinesInv /\ [Next]_vars => FinesInv'
  <1> SUFFICES ASSUME TypeOK, DuenosInv, FinesInv, [Next]_vars PROVE FinesInv'
    OBVIOUS
  <1> DEFINE n == Len(a_memoria)
  <1> USE DEF plp, el, memoria
  <1>0. /\ \A p \in Pids : Eliminable(p) => Empieza(p, Len(a_memoria))
        /\ \A k \in 1..n, p \in Pids : a_memoria[k] = Entero(p) =>
              /\ lugar[p] = "EXIT" /\ \A h \in Eliminadores : el_pid[h] # p
              /\ Empieza(p, k - 1)
              /\ \A j \in 1..n : a_memoria[j] = Entero(p) => j = k
    BY DEF FinesInv
  <1>a. \A p : Entero(p)' = Entero(p)
    BY DEF Entero
  \* A step that touches no message: what may be eliminated could be before.
  <1>1. ASSUME a_memoria' = a_memoria, procesos' = procesos,
               \A p \in Pids : Eliminable(p)' => Eliminable(p),
               \A p \in Pids : lugar[p] = "EXIT" => lugar'[p] = "EXIT",
               \A p \in Pids, h \in Eliminadores :
                   lugar[p] = "EXIT" /\ el_pid'[h] = p => el_pid[h] = p
        PROVE  FinesInv'
    <2>1. \A p, k : Empieza(p, k)' <=> Empieza(p, k)
      BY <1>1 DEF Empieza, Paquete
    <2>2. \A p : Empieza(p, Len(a_memoria))' <=> Empieza(p, Len(a_memoria))
      BY <1>1 DEF Empieza, Paquete
    <2> QED  BY <1>0, <1>a, <1>1, <2>1, <2>2 DEF FinesInv
  \* A step that sends something other than an end.
  <1>2. ASSUME NEW m \in Mensaje, a_memoria' = Append(a_memoria, m), procesos' = procesos,
               \A p \in Pids : m # Entero(p),
               \A p \in Pids : Eliminable(p)' => Eliminable(p) \/ m = Paquete(p),
               lugar' = lugar, el_pid' = el_pid
        PROVE  FinesInv'
    <2>1. /\ n \in Nat /\ Len(a_memoria') = n + 1 /\ a_memoria'[n + 1] = m
          /\ \A k \in 1..n : a_memoria'[k] = a_memoria[k]
      BY <1>2, Agrega
    <2>2. ASSUME NEW p \in Pids, Eliminable(p)' PROVE Empieza(p, Len(a_memoria))'
      BY <1>0, <1>2, <2>2, AgregaEmpieza
    <2>3. ASSUME NEW k \in 1..Len(a_memoria'), NEW p \in Pids, a_memoria'[k] = Entero(p)
          PROVE  /\ lugar'[p] = "EXIT" /\ \A h \in Eliminadores : el_pid'[h] # p
                 /\ Empieza(p, k - 1)'
                 /\ \A j \in 1..Len(a_memoria') : a_memoria'[j] = Entero(p) => j = k
      <3>1. \A j \in 1..Len(a_memoria') :
                a_memoria'[j] = Entero(p) => j \in 1..n /\ a_memoria[j] = Entero(p)
        BY <1>2, <2>1
      <3>2. k \in 1..n /\ a_memoria[k] = Entero(p) /\ k - 1 \in 0..n
        BY <2>1, <2>3, <3>1
      <3>3. Empieza(p, k - 1)'
        BY <1>0, <1>2, <3>2, AgregaEmpieza
      <3> QED  BY <1>0, <1>2, <3>1, <3>2, <3>3
    <2> QED  BY <1>a, <2>2, <2>3 DEF FinesInv
  \* A step that reads a message: what it leaves had its start before it or has it still.
  <1>3. ASSUME a_memoria # <<>>, a_memoria' = Tail(a_memoria),
               \A p \in Pids : \/ a_memoria[1] = Entero(p)
                               \/ procesos[p] # "ausente" \/ a_memoria[1] = Paquete(p) =>
                                      procesos'[p] # "ausente",
               UNCHANGED <<lugar, plp, el>>
        PROVE  FinesInv'
    <2>1. /\ n \in Nat /\ n > 0 /\ Len(a_memoria') = n - 1
          /\ \A k \in 1..(n - 1) : a_memoria'[k] = a_memoria[k + 1]
      BY <1>3, Saca
    <2>2. \A p \in Pids : Eliminable(p)' <=> Eliminable(p)
      BY <1>3 DEF Eliminable
    <2>3. ASSUME NEW p \in Pids, a_memoria[1] = Entero(p)
          PROVE  /\ ~Eliminable(p)
                 /\ \A j \in 1..n : a_memoria[j] = Entero(p) => j = 1
      <3>1. lugar[p] = "EXIT" /\ (\A h \in Eliminadores : el_pid[h] # p)
            /\ \A j \in 1..n : a_memoria[j] = Entero(p) => j = 1
        BY <1>0, <2>1, <2>3
      <3> QED  BY <3>1, ConexionOK DEF Eliminable, DuenosInv
    <2>4. ASSUME NEW p \in Pids, Eliminable(p)' PROVE Empieza(p, Len(a_memoria))'
      <3>1. procesos[p] # "ausente" \/ a_memoria[1] = Paquete(p) => procesos'[p] # "ausente"
        BY <1>3, <2>2, <2>3, <2>4
      <3> QED  BY <1>0, <1>3, <2>2, <2>4, <3>1, SacaEmpieza
    <2>5. ASSUME NEW k \in 1..Len(a_memoria'), NEW p \in Pids, a_memoria'[k] = Entero(p)
          PROVE  /\ lugar'[p] = "EXIT" /\ \A h \in Eliminadores : el_pid'[h] # p
                 /\ Empieza(p, k - 1)'
                 /\ \A j \in 1..Len(a_memoria') : a_memoria'[j] = Entero(p) => j = k
      <3>1. \A j \in 1..Len(a_memoria') : j + 1 \in 1..n /\ j + 1 # 1
                                          /\ a_memoria'[j] = a_memoria[j + 1]
        BY <2>1
      <3>2. k \in 1..n /\ k + 1 \in 1..n /\ a_memoria[k + 1] = Entero(p) /\ (k + 1) - 1 = k
        BY <2>1, <2>5, <3>1
      <3>3. Empieza(p, k)
        BY <1>0, <3>2
      <3>4. a_memoria[1] # Entero(p)
        BY <2>3, <3>1, <3>2
      <3>5. procesos[p] # "ausente" \/ a_memoria[1] = Paquete(p) => procesos'[p] # "ausente"
        BY <1>3, <3>4
      <3>6. Empieza(p, k - 1)'
        BY <1>3, <3>2, <3>3, <3>5, SacaEmpieza
      <3>7. ASSUME NEW j \in 1..Len(a_memoria'), a_memoria'[j] = Entero(p) PROVE j = k
        <4>1. j + 1 \in 1..n /\ a_memoria[j + 1] = Entero(p)
          BY <3>1, <3>7
        <4>2. j + 1 = k + 1
          BY <1>0, <3>2, <4>1
        <4> QED  BY <2>1, <4>2
      <3> QED  BY <1>0, <1>3, <3>2, <3>6, <3>7
    <2> QED  BY <1>a, <2>4, <2>5 DEF FinesInv
  <1>4. CASE \E p \in Pids : PlpToma(p)
    <2> PICK p \in Pids : PlpToma(p)
      BY <1>4
    <2>1. /\ a_memoria' = a_memoria /\ procesos' = procesos /\ el_pid' = el_pid
          /\ plp_pc' = "envia_op" /\ lugar[p] = "NEW" /\ lugar'[p] = "cargando"
          /\ \A q \in Pids : q # p => lugar'[q] = lugar[q]
      BY DEF PlpToma, TypeOK
    <2>2. \A q \in Pids : Eliminable(q)' => Eliminable(q)
      BY <2>1 DEF Eliminable
    <2> QED  BY <1>1, <2>1, <2>2
  <1>5. CASE PlpEnviaOp
    <2>1. Entero("OPCODE_INICIO_PROCESO") \in Mensaje
      BY DEF Entero, Mensaje, Opcode
    <2>2. \A q \in Pids : Eliminable(q)' => Eliminable(q)
      BY <1>5 DEF PlpEnviaOp, Eliminable
    <2>3. \A q \in Pids : Entero("OPCODE_INICIO_PROCESO") # Entero(q)
      BY MensajesDistintos DEF Opcode
    <2> QED  BY <1>2, <1>5, <2>1, <2>2, <2>3 DEF PlpEnviaOp
  <1>6. CASE PlpEnviaPaquete
    <2>1. plp_pid \in Pids
      BY <1>6 DEF PlpEnviaPaquete, DuenosInv, TypeOK
    <2>2. Paquete(plp_pid) \in Mensaje
      BY <2>1 DEF Paquete, Mensaje
    <2>3. \A q \in Pids : Eliminable(q)' => Eliminable(q) \/ Paquete(plp_pid) = Paquete(q)
      BY <1>6 DEF PlpEnviaPaquete, Eliminable
    <2>4. \A q \in Pids : Paquete(plp_pid) # Entero(q)
      BY MensajesDistintos
    <2> QED  BY <1>2, <1>6, <2>2, <2>3, <2>4 DEF PlpEnviaPaquete
  <1>7. CASE PlpBloquea
    <2>1. \A q \in Pids : Eliminable(q)' => Eliminable(q)
      BY <1>7 DEF PlpBloquea, Eliminable
    <2> QED  BY <1>1, <1>7, <2>1 DEF PlpBloquea
  <1>8. CASE PlpRecibe
    <2>1. plp_pid \in Pids /\ lugar[plp_pid] = "cargando"
      BY <1>8 DEF PlpRecibe, DuenosInv, TypeOK
    <2>2. \A q \in Pids : q # plp_pid => lugar'[q] = lugar[q]
      BY <1>8 DEF PlpRecibe, TypeOK
    <2>3. \A q \in Pids : Eliminable(q)' => Eliminable(q)
      BY <1>8, <2>1, <2>2 DEF PlpRecibe, Eliminable
    <2> QED  BY <1>1, <1>8, <2>1, <2>2, <2>3 DEF PlpRecibe
  <1>9. CASE \E h \in Eliminadores, p \in Pids : Elimina(h, p)
    <2> PICK h \in Eliminadores, p \in Pids : Elimina(h, p)
      BY <1>9
    <2>1. /\ a_memoria' = a_memoria /\ procesos' = procesos /\ UNCHANGED plp
          /\ lugar[p] = "READY" /\ lugar'[p] = "EXIT" /\ el_pid'[h] = p
          /\ \A q \in Pids : q # p => lugar'[q] = lugar[q]
          /\ \A g \in Eliminadores : g # h => el_pid'[g] = el_pid[g]
      BY DEF Elimina, TypeOK
    <2>2. \A q \in Pids : Eliminable(q)' => Eliminable(q)
      BY <2>1 DEF Eliminable
    <2> QED  BY <1>1, <2>1, <2>2
  <1>10. CASE \E h \in Eliminadores : ElBloquea(h)
    <2>1. \A q \in Pids : Eliminable(q)' => Eliminable(q)
      BY <1>10 DEF ElBloquea, Eliminable
    <2> QED  BY <1>1, <1>10, <2>1 DEF ElBloquea
  <1>11. CASE \E h \in Eliminadores : ElEnviaOp(h)
    <2>1. Entero("OPCODE_FIN_PROCESO") \in Mensaje
      BY DEF Entero, Mensaje, Opcode
    <2>2. \A q \in Pids : Eliminable(q)' => Eliminable(q)
      BY <1>11 DEF ElEnviaOp, Eliminable
    <2>3. \A q \in Pids : Entero("OPCODE_FIN_PROCESO") # Entero(q)
      BY MensajesDistintos DEF Opcode
    <2> QED  BY <1>2, <1>11, <2>1, <2>2, <2>3 DEF ElEnviaOp
  <1>12. CASE \E h \in Eliminadores : ElEnviaPid(h)
    <2> PICK h \in Eliminadores : ElEnviaPid(h)
      BY <1>12
    <2> DEFINE m == Entero(el_pid[h])
    <2>1. /\ el_pid[h] \in Pids /\ lugar[el_pid[h]] = "EXIT"
          /\ a_memoria' = Append(a_memoria, m) /\ UNCHANGED <<lugar, plp, procesos>>
          /\ el_pid' = [el_pid EXCEPT ![h] = Nadie]
      BY DEF ElEnviaPid, PidDe, DuenosInv, TypeOK
    <2>2. PICK p \in Pids : p = el_pid[h]
      BY <2>1
    <2>3. m \in Mensaje
      BY <2>1 DEF Entero, Mensaje
    <2>4. /\ n \in Nat /\ Len(a_memoria') = n + 1 /\ a_memoria'[n + 1] = Entero(p)
          /\ \A k \in 1..n : a_memoria'[k] = a_memoria[k]
      BY <2>1, <2>2, <2>3, Agrega
    <2>5. \A g \in Eliminadores : el_pid'[g] # p /\ (el_pid'[g] = el_pid[g] \/ el_pid'[g] = Nadie)
      BY <2>1, <2>2, ConexionOK DEF DuenosInv, TypeOK
    <2>6. \A q \in Pids : Eliminable(q)' => Eliminable(q)
      BY <2>1, <2>5, ConexionOK DEF Eliminable
    <2>7. ASSUME NEW q \in Pids, Eliminable(q)' PROVE Empieza(q, Len(a_memoria))'
      BY <1>0, <2>1, <2>3, <2>6, <2>7, AgregaEmpieza
    <2>8. \A j \in 1..n : a_memoria[j] # Entero(p)
      BY <1>0, <2>2
    <2>9. ASSUME NEW k \in 1..Len(a_memoria'), NEW q \in Pids, a_memoria'[k] = Entero(q)
          PROVE  /\ lugar'[q] = "EXIT" /\ \A g \in Eliminadores : el_pid'[g] # q
                 /\ Empieza(q, k - 1)'
                 /\ \A j \in 1..Len(a_memoria') : a_memoria'[j] = Entero(q) => j = k
      <3>1. CASE k = n + 1
        <4>1. q = p
          BY <2>4, <2>9, <3>1, MensajesDistintos
        <4>2. Eliminable(p)
          BY <2>2 DEF Eliminable
        <4>3. Empieza(p, n) /\ n \in 0..n /\ k - 1 = n
          BY <1>0, <2>4, <3>1, <4>2
        <4>4. PICK i \in 0..n : i = k - 1 /\ i = n
          BY <4>3
        <4>5. Empieza(p, i)'
          BY <2>1, <2>3, <4>3, <4>4, AgregaEmpieza
        <4>6. \A j \in 1..Len(a_memoria') : a_memoria'[j] = Entero(q) => j = k
          BY <2>4, <2>8, <3>1, <4>1
        <4> QED  BY <2>1, <2>2, <2>5, <4>1, <4>4, <4>5, <4>6
      <3>2. CASE k # n + 1
        <4>1. k \in 1..n /\ k - 1 \in 0..n /\ a_memoria[k] = Entero(q)
          BY <2>4, <2>9, <3>2
        <4>2. q # p
          BY <2>8, <4>1
        <4>3. Empieza(q, k - 1)'
          BY <1>0, <2>1, <2>3, <4>1, AgregaEmpieza
        <4>4. \A j \in 1..Len(a_memoria') :
                  a_memoria'[j] = Entero(q) => j \in 1..n /\ a_memoria[j] = Entero(q)
          BY <2>4, <4>2, MensajesDistintos
        <4>5. \A g \in Eliminadores : el_pid'[g] # q
          BY <1>0, <2>5, <4>1, ConexionOK
        <4> QED  BY <1>0, <2>1, <4>1, <4>3, <4>4, <4>5
      <3> QED  BY <3>1, <3>2
    <2> QED  BY <1>a, <2>7, <2>9 DEF FinesInv
  <1>13. CASE MemOperacion
    <2>1. /\ a_memoria # <<>> /\ a_memoria' = Tail(a_memoria) /\ UNCHANGED <<lugar, plp, el>>
          /\ procesos' = procesos
      BY <1>13 DEF MemOperacion
    <2>2. a_memoria[1].tipo = "OP_MENSAJE_INT"
      BY <1>13, Saca DEF MemOperacion, Es
    <2>3. \A p \in Pids : a_memoria[1] # Paquete(p)
      BY <2>2 DEF Paquete
    <2> QED  BY <1>3, <2>1, <2>3
  <1>14. CASE recibir_crear_proceso
    <2>1. /\ a_memoria # <<>> /\ a_memoria' = Tail(a_memoria) /\ UNCHANGED <<lugar, plp, el>>
          /\ procesos' = [procesos EXCEPT ![a_memoria[1].valor] =
                             IF a_memoria[1].valor \in Ilegibles THEN "sin_codigo" ELSE "cargado"]
      BY <1>14, Saca DEF recibir_crear_proceso
    <2>2. \A p \in Pids : a_memoria[1] = Paquete(p) => p = a_memoria[1].valor
      BY DEF Paquete
    <2>3. \A p \in Pids : procesos[p] # "ausente" \/ a_memoria[1] = Paquete(p) =>
                              procesos'[p] # "ausente"
      BY <2>1, <2>2 DEF TypeOK
    <2> QED  BY <1>3, <2>1, <2>3
  <1>15. CASE recibir_liberar_proceso
    <2>1. /\ a_memoria # <<>> /\ a_memoria' = Tail(a_memoria) /\ UNCHANGED <<lugar, plp, el>>
          /\ procesos' = [procesos EXCEPT ![a_memoria[1].valor] = "ausente"]
          /\ a_memoria[1].tipo = "OP_MENSAJE_INT" /\ a_memoria[1].valor \in Pids
          /\ a_memoria[1] \in Mensaje
      BY <1>15, Saca DEF recibir_liberar_proceso, Es
    <2>2. a_memoria[1] = Entero(a_memoria[1].valor)
      BY <2>1 DEF Mensaje, Entero
    <2>3. \A p \in Pids : a_memoria[1] # Paquete(p)
      BY <2>1 DEF Paquete
    <2>4. \A p \in Pids : p # a_memoria[1].valor => procesos'[p] = procesos[p]
      BY <2>1 DEF TypeOK
    <2> QED  BY <1>3, <2>1, <2>2, <2>3, <2>4
  <1>16. CASE UNCHANGED <<lugar, plp, el, a_memoria, procesos>>
    <2>1. \A q \in Pids : Eliminable(q)' => Eliminable(q)
      BY <1>16 DEF Eliminable
    <2> QED  BY <1>1, <1>16, <2>1
  <1> QED
    BY <1>4, <1>5, <1>6, <1>7, <1>8, <1>9, <1>10, <1>11, <1>12, <1>13, <1>14, <1>15, <1>16
       DEF Next, Plp, Eliminador, atender_kernel, MemResponde, LiberaNull, FetchNull, vars

-----------------------------------------------------------------------------
(* Requests and answers                                                     *)

\* Every step keeps the balance of requests and answers.
LEMMA RespuestasPaso ==
  TypeOK /\ DuenosInv /\ RespuestasContadas /\ [Next]_vars => RespuestasContadas'
  <1> SUFFICES ASSUME TypeOK, DuenosInv, RespuestasContadas, [Next]_vars
               PROVE  RespuestasContadas'
    OBVIOUS
  <1> DEFINE sirve == IF mem_pc = "operacion" THEN 0 ELSE 1
             pide == IF plp_pc \in {"envia_paquete", "bloquea", "recibe"} THEN 1 ELSE 0
             c == Cuenta(a_memoria)
             r == Len(a_kernel)
  <1> USE DEF plp, el, memoria
  <1>0. /\ c + sirve + r = fines + pide
        /\ RespuestasContadas' <=> c' + sirve' + r' = fines' + pide'
    BY DEF RespuestasContadas, Operaciones, Cuenta
  <1>a. c \in Nat /\ r \in Nat /\ fines \in Nat /\ sirve \in Nat /\ pide \in Nat
    BY CuentaTipo, LenProperties DEF TypeOK
  \* What a message sent, or one read, adds to the operations on their way.
  <1>b. ASSUME NEW m \in Mensaje, a_memoria' = Append(a_memoria, m)
        PROVE  c' = c + (IF EsOperacion(m) THEN 1 ELSE 0)
    <2>1. Cuenta(Append(a_memoria, m)) = Cuenta(a_memoria) + (IF EsOperacion(m) THEN 1 ELSE 0)
      BY CuentaAppend DEF TypeOK
    <2>2. c' = Cuenta(Append(a_memoria, m))
      BY <1>b DEF Cuenta, EsOperacion
    <2> QED  BY <2>1, <2>2
  <1>c. ASSUME a_memoria # <<>>, a_memoria' = Tail(a_memoria)
        PROVE  c' \in Nat /\ c = c' + (IF EsOperacion(Head(a_memoria)) THEN 1 ELSE 0)
    <2>1. /\ Cuenta(a_memoria)
             = Cuenta(Tail(a_memoria)) + (IF EsOperacion(Head(a_memoria)) THEN 1 ELSE 0)
          /\ Cuenta(Tail(a_memoria)) \in Nat
      BY <1>c, CuentaTail, CuentaTipo, HeadTailProperties DEF TypeOK
    <2>2. c' = Cuenta(Tail(a_memoria))
      BY <1>c DEF Cuenta, EsOperacion
    <2> QED  BY <2>1, <2>2
  <1>d. a_memoria' = a_memoria => c' = c
    BY DEF Cuenta, EsOperacion
  <1>e. a_kernel' = a_kernel => r' = r
    OBVIOUS
  <1> HIDE DEF c, r
  <1>1. CASE \E p \in Pids : PlpToma(p)
    BY <1>0, <1>1, <1>d, <1>e DEF PlpToma
  <1>2. CASE PlpEnviaOp
    <2>1. /\ Entero("OPCODE_INICIO_PROCESO") \in Mensaje
          /\ EsOperacion(Entero("OPCODE_INICIO_PROCESO"))
      BY DEF Entero, Mensaje, EsOperacion, Opcode
    <2>2. c' = c + 1
      BY <1>2, <1>b, <2>1 DEF PlpEnviaOp
    <2> QED  BY <1>0, <1>2, <1>a, <1>e, <2>2 DEF PlpEnviaOp
  <1>3. CASE PlpEnviaPaquete
    <2>1. Paquete(plp_pid) \in Mensaje /\ ~EsOperacion(Paquete(plp_pid))
      BY <1>3, ConexionOK DEF PlpEnviaPaquete, DuenosInv, TypeOK, Paquete, Mensaje, EsOperacion
    <2>2. c' = c
      BY <1>3, <1>a, <1>b, <2>1 DEF PlpEnviaPaquete
    <2> QED  BY <1>0, <1>3, <1>a, <1>e, <2>2 DEF PlpEnviaPaquete
  <1>4. CASE PlpBloquea
    BY <1>0, <1>4, <1>d, <1>e DEF PlpBloquea
  <1>5. CASE PlpRecibe
    <2>1. r' = r - 1
      BY <1>5, HeadTailProperties DEF PlpRecibe, TypeOK, r
    <2> QED  BY <1>0, <1>5, <1>a, <1>d, <2>1 DEF PlpRecibe
  <1>6. CASE \E h \in Eliminadores, p \in Pids : Elimina(h, p)
    BY <1>0, <1>6, <1>d, <1>e DEF Elimina
  <1>7. CASE \E h \in Eliminadores : ElBloquea(h)
    BY <1>0, <1>7, <1>d, <1>e DEF ElBloquea
  <1>8. CASE \E h \in Eliminadores : ElEnviaOp(h)
    <2>1. /\ Entero("OPCODE_FIN_PROCESO") \in Mensaje
          /\ EsOperacion(Entero("OPCODE_FIN_PROCESO"))
      BY DEF Entero, Mensaje, EsOperacion, Opcode
    <2>2. c' = c + 1
      BY <1>8, <1>b, <2>1 DEF ElEnviaOp
    <2> QED  BY <1>0, <1>8, <1>a, <1>e, <2>2 DEF ElEnviaOp
  <1>9. CASE \E h \in Eliminadores : ElEnviaPid(h)
    <2> PICK h \in Eliminadores : ElEnviaPid(h)
      BY <1>9
    <2>1. Entero(el_pid[h]) \in Mensaje /\ ~EsOperacion(Entero(el_pid[h]))
      BY ConexionOK DEF ElEnviaPid, DuenosInv, TypeOK, Entero, Mensaje, EsOperacion
    <2>2. c' = c
      BY <1>a, <1>b, <2>1 DEF ElEnviaPid, PidDe
    <2> QED  BY <1>0, <1>e, <2>2 DEF ElEnviaPid
  <1>10. CASE MemOperacion
    <2>1. /\ a_memoria # <<>> /\ a_memoria' = Tail(a_memoria) /\ EsOperacion(Head(a_memoria))
          /\ mem_pc = "operacion" /\ mem_pc' # "operacion" /\ UNCHANGED <<plp, a_kernel, fines>>
      BY <1>10 DEF MemOperacion, Es, EsOperacion, Opcode
    <2>2. c' \in Nat /\ c = c' + 1
      BY <1>c, <2>1
    <2>3. sirve = 0 /\ sirve' = 1 /\ pide' = pide /\ fines' = fines /\ r' = r
      BY <1>e, <2>1
    <2>4. c' + 1 + r = c + 0 + r
      BY <1>a, <2>2
    <2> QED  BY <1>0, <2>3, <2>4
  <1>11. CASE recibir_crear_proceso \/ recibir_liberar_proceso
    <2>1. /\ a_memoria # <<>> /\ a_memoria' = Tail(a_memoria) /\ ~EsOperacion(Head(a_memoria))
          /\ mem_pc # "operacion" /\ mem_pc' # "operacion" /\ UNCHANGED <<plp, a_kernel, fines>>
      BY <1>11, ConexionOK
         DEF recibir_crear_proceso, recibir_liberar_proceso, Es, EsOperacion, Opcode
    <2>2. c' = c
      BY <1>c, <2>1
    <2>3. sirve' = sirve /\ pide' = pide /\ fines' = fines /\ r' = r
      BY <1>e, <2>1
    <2> QED  BY <1>0, <2>2, <2>3
  <1>12. CASE MemResponde
    <2>1. r' = r + 1
      BY <1>12, AppendProperties DEF MemResponde, Responder, TypeOK, r
    <2> QED  BY <1>0, <1>12, <1>a, <1>d, <2>1 DEF MemResponde
  <1>13. CASE UNCHANGED <<plp, a_memoria, a_kernel, memoria, fines>>
    BY <1>0, <1>13, <1>d, <1>e
  <1> QED
    BY <1>1, <1>2, <1>3, <1>4, <1>5, <1>6, <1>7, <1>8, <1>9, <1>10, <1>11, <1>12, <1>13
       DEF Next, Plp, Eliminador, atender_kernel, LiberaNull, FetchNull, vars

-----------------------------------------------------------------------------

\* The invariant of the connection holds at the start...
THEOREM ConexionInit == Init => ConexionInv
  <1> SUFFICES ASSUME Init PROVE ConexionInv
    OBVIOUS
  <1> USE ConexionOK DEF Init
  <1>1. TypeOK
    BY EmptySeq DEF TypeOK
  <1>2. MutexInv /\ DuenosInv
    BY DEF MutexInv, DuenosInv
  <1>3. Len(a_memoria) = 0 /\ Len(a_kernel) = 0 /\ 1..0 = {}
    OBVIOUS
  <1>4. MensajesInv
    BY <1>3 DEF MensajesInv, Ultimo, Antes
  <1>5. FinesInv
    BY <1>3 DEF FinesInv, Eliminable
  <1>6. RespuestasContadas
    <2>1. {k \in DOMAIN a_memoria : EsOperacion(a_memoria[k])} = {}
      OBVIOUS
    <2>2. Operaciones = 0
      BY <2>1, FS_EmptySet DEF Operaciones
    <2> QED  BY <1>3, <2>2 DEF RespuestasContadas
  <1> QED  BY <1>1, <1>2, <1>4, <1>5, <1>6 DEF ConexionInv

\* ...and every step keeps it.
THEOREM ConexionPaso == ConexionInv /\ [Next]_vars => ConexionInv'
  BY TipoPaso, DuenosPaso, MensajesPaso, FinesPaso, RespuestasPaso DEF ConexionInv

\* The connection of the kernel with the memory is in order whatever the processes and the
\* threads: the two messages of each request together, ends after starts, answers counted.
THEOREM ConexionSiempre == Spec => []ConexionInv
  BY ConexionInit, ConexionPaso, PTL DEF Spec

\* What memoria reads next, if anything, is what it expects: the message that fits, and of an
\* end, a process whose start it read.
LEMMA ConexionEntiende == ConexionInv => MemoriaEntiende
  <1> SUFFICES ASSUME ConexionInv, a_memoria # <<>> PROVE ~NoEntiende(Head(a_memoria))
    BY DEF MemoriaEntiende
  <1> DEFINE m == Head(a_memoria)
  <1>1. m = a_memoria[1] /\ 1 \in 1..Len(a_memoria) /\ m \in Mensaje
    BY HeadTailProperties, LenProperties, EmptySeq DEF ConexionInv, TypeOK
  <1>2. Encaja(mem_pc, m)
    BY <1>1 DEF ConexionInv, MensajesInv, Antes
  <1>3. CASE mem_pc = "OPCODE_FIN_PROCESO"
    <2>1. m.tipo = "OP_MENSAJE_INT" /\ m.valor \in Pids
      BY <1>2, <1>3 DEF Encaja, Es
    <2>2. m = Entero(m.valor)
      BY <1>1, <2>1 DEF Mensaje, Entero
    <2>3. Empieza(m.valor, 1 - 1)
      BY <1>1, <2>1, <2>2 DEF ConexionInv, FinesInv
    <2>4. procesos[m.valor] # "ausente"
      BY <2>3 DEF Empieza
    <2> QED  BY <1>3, <2>1, <2>4 DEF NoEntiende, Es
  <1>4. CASE mem_pc # "OPCODE_FIN_PROCESO"
    BY <1>2, <1>4 DEF NoEntiende, Encaja, Opcode
  <1> QED  BY <1>3, <1>4

\* Memoria never aborts for a message it did not expect, nor looks for a process it does not
\* have (the default branches and receptions of atender_kernel).
THEOREM EntiendeSiempre == Spec => []MemoriaEntiende
  BY ConexionSiempre, ConexionEntiende, PTL

\* An answer is on its way for every load, and one more is left unread for every process that
\* ended: the balance of atender_kernel's answers (atender_kernel.c:38).
THEOREM RespuestasSiempre == Spec => []RespuestasContadas
  <1>1. ConexionInv => RespuestasContadas
    BY DEF ConexionInv
  <1> QED  BY <1>1, ConexionSiempre, PTL
=============================================================================
