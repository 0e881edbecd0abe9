---------------------------- MODULE PruebaMemoria ----------------------------
(***************************************************************************)
(* Theorems of Memoria, whatever the number of processes, frames, pages and *)
(* interfaces.  No frame is given twice and none is lost; the TLB and every *)
(* translated address agree with the page tables; with them, that each      *)
(* process has its own bytes: the memory implements Almacen; and that LRU   *)
(* keeps the pages used last.                                               *)
(***************************************************************************)
EXTENDS MemoriaHistoria, SqueueLemas, FiniteSetTheorems

\* A page table is never NULL, and its Range is the set of its elements.
LEMMA TablaLema ==
  ASSUME NEW t \in Seq(Marco)
  PROVE  /\ t # NoExiste /\ Len(t) \in Nat /\ DOMAIN t = 1..Len(t)
         /\ \A n \in 1..Len(t) : t[n] \in Marco
         /\ Range(t) \subseteq Marco
         /\ \A x : x \in Range(t) <=> \E n \in DOMAIN t : t[n] = x
  <1>1. Len(t) \in Nat /\ DOMAIN t = 1..Len(t) /\ \A n \in 1..Len(t) : t[n] \in Marco
    BY LenProperties
  <1>2. t \in [1..Len(t) -> Nat]
    BY <1>1, LenProperties, MemoriaOK DEF Marco
  <1>3. t \in Seq(Nat)
    BY <1>1, <1>2, SeqDef
  <1> QED  BY <1>1, <1>3, MemoriaOK DEF Range

\* The number of pages of a size.
LEMMA PaginasLema ==
  ASSUME tamanio \in Nat
  PROVE  Paginas \in Nat
  <1>1. TAM_PAGINA \in Nat \ {0}
    BY MemoriaOK
  <1>2. tamanio + TAM_PAGINA - 1 \in Nat
    BY <1>1
  <1>3. \A a \in Nat, b \in Nat \ {0} : a \div b \in Nat
    OBVIOUS
  <1> QED  BY <1>1, <1>2, <1>3 DEF Paginas, ceil_div

\* The invariant holds at the start.
LEMMA InitMarcos == Init => MarcosInv
  <1> SUFFICES ASSUME Init PROVE MarcosInv
    OBVIOUS
  <1>1. \A p \in Pid : ~Vivo(p)
    BY DEF Init, Vivo
  <1>2. MarcosExclusivos
    BY <1>1 DEF Init, MarcosExclusivos, Vivos
  <1> QED  BY <1>1, <1>2 DEF Init, MarcosInv, Estado

\* The tables of the processes are not touched, and no process is born or ends.
LEMMA NoTocaMarcos ==
  ASSUME MarcosInv, UNCHANGED <<procesos, bitmap_marcos, a_liberar>>, tamanio' \in Nat,
         estado' \in [Pid -> Estado],
         \A p \in Pid : \/ estado'[p] = estado[p]
                        \/ {estado[p], estado'[p]} \subseteq {"listo", "cpu", "io", "termina"}
  PROVE  MarcosInv'
  <1>1. MarcosExclusivos'
    BY DEF MarcosInv, MarcosExclusivos, Vivos, Vivo
  <1>2. \A p \in Pid : Vivo(p)' <=> estado'[p] \in {"listo", "cpu", "io", "termina"}
    BY DEF MarcosInv, Vivo
  <1> QED  BY <1>1, <1>2 DEF MarcosInv

\* A process comes with an empty table.
LEMMA CreaMarcos ==
  ASSUME MarcosInv, NEW p \in Pid, recibir_crear_proceso(p)
  PROVE  MarcosInv'
  <1>1. <<>> \in Seq(Marco) /\ <<>> # NoExiste /\ Range(<<>>) = {} /\ DOMAIN <<>> = {}
    <2>1. <<>> \in Seq(Marco) /\ Len(<<>>) = 0
      BY EmptySeq
    <2>2. ASSUME NEW t \in Seq(Marco), Len(t) = 0
          PROVE  t # NoExiste /\ DOMAIN t = {} /\ Range(t) = {}
      <3>1. 1..0 = {}
        OBVIOUS
      <3>2. t # NoExiste /\ DOMAIN t = {}
        BY <2>2, <3>1, TablaLema
      <3> QED  BY <3>2 DEF Range
    <2> QED  BY <2>1, <2>2
  <1>2. /\ procesos' = [procesos EXCEPT ![p] = <<>>]
        /\ estado' = [estado EXCEPT ![p] = "listo"] /\ estado[p] = "nuevo"
        /\ UNCHANGED <<bitmap_marcos, a_liberar, tamanio>>
    BY DEF recibir_crear_proceso, cpu
  <1>3. ~Vivo(p) /\ Vivo(p)' /\ \A q \in Pid \ {p} : procesos'[q] = procesos[q]
    BY <1>1, <1>2 DEF MarcosInv, Vivo
  <1>4. Vivos' = Vivos \cup {p} /\ p \notin Vivos
    BY <1>3 DEF Vivos, Vivo
  <1>5. procesos'[p] = <<>>
    BY <1>2 DEF MarcosInv
  <1>6. UNION {Range(procesos'[q]) : q \in Vivos'} = UNION {Range(procesos[q]) : q \in Vivos}
    BY <1>1, <1>3, <1>4, <1>5 DEF Vivos
  <1>7. MarcosExclusivos'
    <2>1. ASSUME NEW q \in Vivos', NEW r \in Vivos',
                 NEW m \in DOMAIN procesos'[q], NEW n \in DOMAIN procesos'[r],
                 procesos'[q][m] = procesos'[r][n]
          PROVE  q = r /\ m = n
      <3>1. q # p /\ r # p
        BY <1>1, <1>5
      <3> QED  BY <2>1, <3>1, <1>3, <1>4 DEF MarcosInv, MarcosExclusivos, Vivos
    <2>2. \A q \in Vivos' : Range(procesos'[q]) \cap a_liberar' = {}
      BY <1>1, <1>2, <1>3, <1>4, <1>5 DEF MarcosInv, MarcosExclusivos, Vivos
    <2>3. bitmap_marcos' = a_liberar' \cup UNION {Range(procesos'[q]) : q \in Vivos'}
      BY <1>2, <1>6 DEF MarcosInv, MarcosExclusivos
    <2> QED  BY <2>1, <2>2, <2>3 DEF MarcosExclusivos
  <1> QED  BY <1>1, <1>2, <1>3, <1>7 DEF MarcosInv, Vivo, Estado

\* The frames of a process that ends wait to be freed: still marked, of nobody.
LEMMA LiberaMarcos ==
  ASSUME MarcosInv, NEW p \in Pid, LiberarProceso(p)
  PROVE  MarcosInv'
  <1>1. /\ procesos' = [procesos EXCEPT ![p] = NoExiste]
        /\ estado' = [estado EXCEPT ![p] = "fin"] /\ estado[p] \in {"listo", "termina", "io"}
        /\ a_liberar = {} /\ a_liberar' = Range(procesos[p])
        /\ UNCHANGED <<bitmap_marcos, tamanio>>
    BY DEF LiberarProceso, cpu
  <1>2. /\ Vivo(p) /\ procesos[p] \in Seq(Marco)
        /\ procesos'[p] = NoExiste /\ \A q \in Pid \ {p} : procesos'[q] = procesos[q]
    BY <1>1 DEF MarcosInv, Vivo
  <1>3. p \in Vivos /\ Vivos' = Vivos \ {p} /\ Vivos \subseteq Pid
    BY <1>2 DEF Vivos, Vivo
  <1>4. UNION {Range(procesos[q]) : q \in Vivos}
          = Range(procesos[p]) \cup UNION {Range(procesos'[q]) : q \in Vivos'}
    BY <1>2, <1>3
  <1>5. MarcosExclusivos'
    <2>1. \A q, r \in Vivos' : \A m \in DOMAIN procesos'[q], n \in DOMAIN procesos'[r] :
              procesos'[q][m] = procesos'[r][n] => q = r /\ m = n
      BY <1>2, <1>3 DEF MarcosInv, MarcosExclusivos
    <2>2. ASSUME NEW q \in Vivos', NEW x \in Range(procesos'[q]) \cap a_liberar'
          PROVE  FALSE
      <3>1. q # p /\ q \in Vivos /\ procesos'[q] = procesos[q]
        BY <1>2, <1>3
      <3>2. procesos[q] \in Seq(Marco)
        BY <3>1 DEF MarcosInv, Vivos, Vivo
      <3>3. PICK m \in DOMAIN procesos[q] : procesos[q][m] = x
        BY <2>2, <3>1, <3>2, TablaLema
      <3>4. PICK n \in DOMAIN procesos[p] : procesos[p][n] = x
        BY <2>2, <1>1, <1>2, TablaLema
      <3> QED  BY <3>1, <3>3, <3>4, <1>3 DEF MarcosInv, MarcosExclusivos
    <2>3. bitmap_marcos' = a_liberar' \cup UNION {Range(procesos'[q]) : q \in Vivos'}
      BY <1>1, <1>4 DEF MarcosInv, MarcosExclusivos
    <2> QED  BY <2>1, <2>2, <2>3 DEF MarcosExclusivos
  <1> QED  BY <1>1, <1>2, <1>5 DEF MarcosInv, Vivo, Estado

\* Then they are free, and no table has them.
LEMMA LiberaPendientes ==
  ASSUME MarcosInv, LiberarMarcos
  PROVE  MarcosInv'
  <1>1. /\ bitmap_marcos' = bitmap_marcos \ a_liberar /\ a_liberar' = {}
        /\ UNCHANGED <<procesos, estado, tamanio>>
    BY DEF LiberarMarcos, cpu
  <1>2. Vivos' = Vivos
    BY <1>1 DEF Vivos, Vivo
  <1>3. MarcosExclusivos'
    BY <1>1, <1>2 DEF MarcosInv, MarcosExclusivos
  <1> QED  BY <1>1, <1>3 DEF MarcosInv, Vivo

\* A table grows with frames that were free.
LEMMA AmpliaMarcos ==
  ASSUME MarcosInv, NEW p \in Pid, ampliar_proceso(p)
  PROVE  MarcosInv'
  <1> DEFINE t == procesos[p]
             t2 == procesos'[p]
  <1>1. Vivo(p) /\ t \in Seq(Marco) /\ Len(t) \in Nat
    BY LenProperties DEF MarcosInv, Vivo, ampliar_proceso, Redimensiona, EnCpu
  <1>2. Faltan(p) \in Nat
    <2>1. Paginas \in Nat
      BY PaginasLema DEF MarcosInv
    <2>2. Faltan(p) = Paginas - Len(t) /\ Faltan(p) > 0
      BY DEF Faltan, ampliar_proceso
    <2> HIDE DEF t
    <2> QED  BY <1>1, <2>1, <2>2
  <1>3. PICK marcos \in [1..Faltan(p) -> Libres] :
            /\ procesos' = [procesos EXCEPT ![p] = t \o marcos]
            /\ bitmap_marcos' = bitmap_marcos \cup Range(marcos)
            /\ SonPrimerosLibres(marcos)
    BY DEF ampliar_proceso
  <1>4. UNCHANGED <<a_liberar, estado>> /\ tamanio' = 0
    BY DEF ampliar_proceso, FinInstruccion
  <1>5. marcos \in Seq(Marco) /\ Len(marcos) = Faltan(p)
    <2>1. marcos \in Seq(Libres)
      BY <1>2, <1>3, SeqDef
    <2>2. Len(marcos) = Faltan(p)
      BY <1>2, <1>3, <2>1, LenProperties
    <2>3. marcos \in [1..Faltan(p) -> Marco]
      BY <1>3 DEF Libres
    <2> QED  BY <1>2, <2>2, <2>3, SeqDef
  <1>6. \A n \in DOMAIN marcos : marcos[n] \notin bitmap_marcos
    BY <1>3 DEF Libres
  <1>7. \A m, n \in DOMAIN marcos : marcos[m] = marcos[n] => m = n
    <2>1. DOMAIN marcos \subseteq Nat /\ \A n \in DOMAIN marcos : marcos[n] \in Nat
      BY <1>5, TablaLema, MemoriaOK DEF Marco
    <2> QED  BY <2>1, <1>3 DEF SonPrimerosLibres
  <1>8. /\ t2 = t \o marcos
        /\ \A q \in Pid \ {p} : procesos'[q] = procesos[q]
    BY <1>3 DEF MarcosInv
  <1>9. /\ t2 \in Seq(Marco) /\ DOMAIN t2 = 1..(Len(t) + Len(marcos))
        /\ \A n \in 1..(Len(t) + Len(marcos)) :
               t2[n] = IF n <= Len(t) THEN t[n] ELSE marcos[n - Len(t)]
    <2> HIDE DEF t, t2
    <2>1. /\ t2 \in Seq(Marco) /\ Len(t2) = Len(t) + Len(marcos)
          /\ \A n \in 1..(Len(t) + Len(marcos)) :
                 t2[n] = IF n <= Len(t) THEN t[n] ELSE marcos[n - Len(t)]
      BY <1>1, <1>5, <1>8, ConcatProperties
    <2> QED  BY <2>1, TablaLema
  <1>10. DOMAIN t = 1..Len(t) /\ DOMAIN marcos = 1..Len(marcos) /\ Len(marcos) \in Nat
    BY <1>1, <1>5, TablaLema
  <1>11. \A n \in DOMAIN t2 :
            \/ n \in DOMAIN t /\ t2[n] = t[n]
            \/ n \notin DOMAIN t /\ n - Len(t) \in DOMAIN marcos /\ t2[n] = marcos[n - Len(t)]
    <2> HIDE DEF t, t2
    <2> QED  BY <1>1, <1>9, <1>10
  <1>12. Range(t2) = Range(t) \cup Range(marcos)
    <2> HIDE DEF t, t2
    <2>1. ASSUME NEW x \in Range(t2) PROVE x \in Range(t) \cup Range(marcos)
      BY <1>1, <1>5, <1>9, <1>11, TablaLema
    <2>2. ASSUME NEW x \in Range(t) PROVE x \in Range(t2)
      <3>1. PICK n \in DOMAIN t : t[n] = x
        BY <1>1, TablaLema
      <3>2. n \in DOMAIN t2 /\ t2[n] = x
        BY <1>1, <1>9, <1>10, <3>1
      <3> QED  BY <1>9, <3>2, TablaLema
    <2>3. ASSUME NEW x \in Range(marcos) PROVE x \in Range(t2)
      <3>1. PICK n \in DOMAIN marcos : marcos[n] = x
        BY <1>5, TablaLema
      <3>2. n + Len(t) \in DOMAIN t2 /\ t2[n + Len(t)] = x
        BY <1>1, <1>9, <1>10, <3>1
      <3> QED  BY <1>9, <3>2, TablaLema
    <2> QED  BY <2>1, <2>2, <2>3
  <1>13. Vivos' = Vivos /\ p \in Vivos /\ Vivos \subseteq Pid
    BY <1>1, <1>8, <1>9, TablaLema DEF Vivos, Vivo
  <1> HIDE DEF t2
  <1>14. MarcosExclusivos'
    <2>1. ASSUME NEW q \in Vivos, q # p, NEW m \in DOMAIN procesos[q], NEW n \in DOMAIN t2,
                 procesos[q][m] = t2[n]
          PROVE  FALSE
      <3>1. procesos[q] \in Seq(Marco)
        BY DEF MarcosInv, Vivos, Vivo
      <3>2. procesos[q][m] \in bitmap_marcos
        BY <3>1, TablaLema DEF MarcosInv, MarcosExclusivos
      <3>3. n \in DOMAIN t /\ t2[n] = t[n]
        BY <1>6, <1>11, <2>1, <3>2
      <3> QED  BY <1>13, <2>1, <3>3 DEF MarcosInv, MarcosExclusivos
    <2>2. ASSUME NEW m \in DOMAIN t2, NEW n \in DOMAIN t2, t2[m] = t2[n]
          PROVE  m = n
      <3>1. \A k \in DOMAIN t : t[k] \in bitmap_marcos
        BY <1>1, <1>13, TablaLema DEF MarcosInv, MarcosExclusivos
      <3>2. CASE m \in DOMAIN t /\ n \in DOMAIN t
        <4>1. t[m] = t[n]
          BY <1>11, <2>2, <3>2
        <4> QED  BY <1>13, <3>2, <4>1 DEF MarcosInv, MarcosExclusivos
      <3>3. CASE m \notin DOMAIN t /\ n \notin DOMAIN t
        <4>1. m - Len(t) = n - Len(t)
          BY <1>7, <1>11, <2>2, <3>3
        <4>2. m \in Int /\ n \in Int
          BY <1>1, <1>9, <1>10
        <4> HIDE DEF t
        <4> QED  BY <1>1, <4>1, <4>2
      <3>4. CASE (m \in DOMAIN t) # (n \in DOMAIN t)
        BY <1>6, <1>11, <2>2, <3>1, <3>4
      <3> QED  BY <3>2, <3>3, <3>4
    <2>3. \A q, r \in Vivos' : \A m \in DOMAIN procesos'[q], n \in DOMAIN procesos'[r] :
              procesos'[q][m] = procesos'[r][n] => q = r /\ m = n
      <3> SUFFICES ASSUME NEW q \in Vivos, NEW r \in Vivos,
                          NEW m \in DOMAIN procesos'[q], NEW n \in DOMAIN procesos'[r],
                          procesos'[q][m] = procesos'[r][n]
                   PROVE  q = r /\ m = n
        BY <1>13
      <3>1. CASE q = p /\ r = p
        BY <2>2, <3>1 DEF t2
      <3>2. CASE q = p /\ r # p
        BY <1>8, <1>13, <2>1, <3>2 DEF t2
      <3>3. CASE q # p /\ r = p
        BY <1>8, <1>13, <2>1, <3>3 DEF t2
      <3>4. CASE q # p /\ r # p
        BY <1>8, <1>13, <3>4 DEF MarcosInv, MarcosExclusivos
      <3> QED  BY <3>1, <3>2, <3>3, <3>4
    <2>4. \A q \in Vivos' : Range(procesos'[q]) \cap a_liberar' = {}
      <3>1. Range(marcos) \cap a_liberar = {}
        BY <1>5, <1>6, TablaLema DEF MarcosInv, MarcosExclusivos
      <3>2. Range(t2) \cap a_liberar' = {}
        BY <1>4, <1>12, <1>13, <3>1 DEF MarcosInv, MarcosExclusivos
      <3> QED  BY <1>4, <1>8, <1>13, <3>2 DEF MarcosInv, MarcosExclusivos, t2
    <2>5. UNION {Range(procesos'[q]) : q \in Vivos'}
            = Range(marcos) \cup UNION {Range(procesos[q]) : q \in Vivos}
      <3>1. \A q \in Vivos \ {p} : procesos'[q] = procesos[q]
        BY <1>8, <1>13
      <3>2. Range(procesos'[p]) = Range(procesos[p]) \cup Range(marcos)
        BY <1>12 DEF t2
      <3> QED  BY <1>13, <3>1, <3>2
    <2>6. bitmap_marcos' = a_liberar' \cup UNION {Range(procesos'[q]) : q \in Vivos'}
      BY <1>3, <1>4, <2>5 DEF MarcosInv, MarcosExclusivos
    <2> QED  BY <2>3, <2>4, <2>6 DEF MarcosExclusivos
  <1>15. procesos' \in [Pid -> Seq(Marco) \cup {NoExiste}]
    BY <1>3, <1>8, <1>9 DEF MarcosInv, t2
  <1>16. \A q \in Pid : Vivo(q)' <=> Vivo(q)
    BY <1>13 DEF Vivos, Vivo
  <1> QED  BY <1>4, <1>14, <1>15, <1>16 DEF MarcosInv

\* A table shrinks: the frames it loses are its own, and no other table has them.
LEMMA ReduceMarcos ==
  ASSUME MarcosInv, NEW p \in Pid, reducir_proceso(p)
  PROVE  MarcosInv'
  <1> DEFINE t == procesos[p]
             t2 == procesos'[p]
             idos == {t[n] : n \in UltimasPaginas(p)}
  <1>1. Vivo(p) /\ t \in Seq(Marco) /\ Len(t) \in Nat /\ DOMAIN t = 1..Len(t)
    BY TablaLema DEF MarcosInv, Vivo, reducir_proceso, Redimensiona, EnCpu
  <1>2. Paginas \in Nat /\ Paginas <= Len(t)
    <2>1. Paginas \in Nat
      BY PaginasLema DEF MarcosInv
    <2>2. Faltan(p) = Paginas - Len(t) /\ Faltan(p) <= 0
      BY DEF Faltan, reducir_proceso
    <2> HIDE DEF t
    <2> QED  BY <1>1, <2>1, <2>2
  <1>3. /\ procesos' = [procesos EXCEPT ![p] = SubSeq(t, 1, Paginas)]
        /\ bitmap_marcos' = bitmap_marcos \ idos
    BY DEF reducir_proceso
  <1>4. UNCHANGED <<a_liberar, estado>> /\ tamanio' = 0
    BY DEF reducir_proceso, FinInstruccion
  <1>5. t2 = SubSeq(t, 1, Paginas) /\ \A q \in Pid \ {p} : procesos'[q] = procesos[q]
    BY <1>3 DEF MarcosInv
  <1>6. UltimasPaginas(p) = {n \in DOMAIN t : n > Paginas}
    BY DEF UltimasPaginas
  <1> HIDE DEF t, t2
  <1>7. /\ t2 \in Seq(Marco) /\ DOMAIN t2 = 1..Paginas
        /\ \A n \in 1..Paginas : n \in DOMAIN t /\ t2[n] = t[n]
    <2>1. \A n \in 1..Paginas : n \in DOMAIN t /\ t[n] \in Marco
      BY <1>1, <1>2, TablaLema
    <2>2. /\ t2 \in Seq(Marco)
          /\ Len(t2) = IF 1 <= Paginas THEN Paginas - 1 + 1 ELSE 0
          /\ \A n \in 1..(Paginas - 1 + 1) : t2[n] = t[1 + n - 1]
      BY <1>2, <1>5, <2>1, SubSeqProperties
    <2>3. Len(t2) = Paginas /\ \A n \in 1..Paginas : t2[n] = t[n]
      BY <1>2, <2>2
    <2> QED  BY <2>1, <2>2, <2>3, TablaLema
  <1>8. \A m, n \in DOMAIN t : t[m] = t[n] => m = n
    BY <1>1 DEF MarcosInv, MarcosExclusivos, Vivos, t
  <1>9. Range(t2) = Range(t) \ idos
    <2>1. ASSUME NEW x \in Range(t2) PROVE x \in Range(t) \ idos
      <3>1. PICK n \in 1..Paginas : t2[n] = x
        BY <1>7, TablaLema
      <3>2. n \in DOMAIN t /\ t[n] = x
        BY <1>7, <3>1
      <3>3. x \notin idos
        BY <1>2, <1>6, <1>8, <3>1, <3>2
      <3> QED  BY <1>1, <3>2, <3>3, TablaLema
    <2>2. ASSUME NEW x \in Range(t) \ idos PROVE x \in Range(t2)
      <3>1. PICK n \in DOMAIN t : t[n] = x
        BY <1>1, TablaLema
      <3>2. n \in 1..Paginas
        BY <1>1, <1>2, <1>6, <2>2, <3>1
      <3> QED  BY <1>7, <3>1, <3>2, TablaLema
    <2> QED  BY <2>1, <2>2
  <1>10. Vivos' = Vivos /\ p \in Vivos /\ Vivos \subseteq Pid
    BY <1>1, <1>5, <1>7, TablaLema DEF Vivos, Vivo, t2
  <1>11. idos \subseteq Range(t)
    BY <1>1, <1>6, TablaLema
  <1> HIDE DEF idos
  <1>12. MarcosExclusivos'
    <2>1. \A q \in Vivos \ {p} : Range(procesos[q]) \cap Range(t) = {}
      <3> SUFFICES ASSUME NEW q \in Vivos \ {p}, NEW x \in Range(procesos[q]) \cap Range(t)
                   PROVE  FALSE
        OBVIOUS
      <3>1. procesos[q] \in Seq(Marco)
        BY DEF MarcosInv, Vivos, Vivo
      <3>2. PICK m \in DOMAIN procesos[q], n \in DOMAIN t : procesos[q][m] = t[n]
        BY <1>1, <3>1, TablaLema
      <3> QED  BY <1>10, <3>2 DEF MarcosInv, MarcosExclusivos, t
    <2>2. \A q \in Vivos : \A n \in DOMAIN procesos'[q] :
              n \in DOMAIN procesos[q] /\ procesos'[q][n] = procesos[q][n]
      BY <1>5, <1>7, <1>10 DEF t, t2
    <2>3. \A q, r \in Vivos' : \A m \in DOMAIN procesos'[q], n \in DOMAIN procesos'[r] :
              procesos'[q][m] = procesos'[r][n] => q = r /\ m = n
      BY <1>10, <2>2 DEF MarcosInv, MarcosExclusivos
    <2>4. \A q \in Vivos' : Range(procesos'[q]) \cap a_liberar' = {}
      BY <1>4, <1>5, <1>9, <1>10 DEF MarcosInv, MarcosExclusivos, t, t2
    <2>5. UNION {Range(procesos'[q]) : q \in Vivos'}
            = (UNION {Range(procesos[q]) : q \in Vivos}) \ idos
      <3>1. \A q \in Vivos \ {p} : /\ Range(procesos'[q]) = Range(procesos[q])
                                   /\ Range(procesos[q]) \cap idos = {}
        BY <1>5, <1>10, <1>11, <2>1
      <3>2. Range(procesos'[p]) = Range(procesos[p]) \ idos
        BY <1>9 DEF t, t2
      <3> QED  BY <1>10, <3>1, <3>2
    <2>6. a_liberar \cap idos = {}
      BY <1>10, <1>11 DEF MarcosInv, MarcosExclusivos, t
    <2>7. bitmap_marcos' = a_liberar' \cup UNION {Range(procesos'[q]) : q \in Vivos'}
      BY <1>3, <1>4, <2>5, <2>6 DEF MarcosInv, MarcosExclusivos
    <2> QED  BY <2>3, <2>4, <2>7 DEF MarcosExclusivos
  <1>13. procesos' \in [Pid -> Seq(Marco) \cup {NoExiste}]
    BY <1>3, <1>5, <1>7 DEF MarcosInv, t2
  <1>14. \A q \in Pid : Vivo(q)' <=> Vivo(q)
    BY <1>10 DEF Vivos, Vivo
  <1> QED  BY <1>4, <1>12, <1>13, <1>14 DEF MarcosInv

\* The steps that leave the tables alone.
LEMMA OtrosPasos ==
  ASSUME MarcosInv, NEW p \in Pid,
         \/ Despachar(p) \/ Desalojar(p) \/ Accesos(p) \/ PaginaInexistente(p) \/ Traducir(p)
         \/ leer_una_pagina(p) \/ escribir_una_pagina(p) \/ AgregarBloque(p)
         \/ TerminarAcceso(p) \/ \E i \in Interfaces : DevolverPorIo(p, i)
         \/ \E tam \in 0..MaxTam : exec_resize(p, tam)
         \/ SinMemoria(p)
  PROVE  MarcosInv'
  <1>1. UNCHANGED <<procesos, bitmap_marcos, a_liberar>>
    BY DEF memoria, Despachar, Desalojar, Accesos, Empezar, PaginaInexistente, Traducir,
           leer_una_pagina, escribir_una_pagina, AgregarBloque, TerminarAcceso,
           DevolverPorIo, exec_resize, SinMemoria
  <1>2. tamanio' \in Nat
    <2>1. \A tam \in 0..MaxTam : tam \in Nat
      BY MemoriaOK
    <2> QED  BY <2>1 DEF MarcosInv, cpu, FinInstruccion, Despachar, Desalojar, Accesos, Empezar,
           PaginaInexistente, Traducir, leer_una_pagina, escribir_una_pagina, AgregarBloque,
           TerminarAcceso, DevolverPorIo, exec_resize, SinMemoria
  <1>3. \/ estado' = estado
        \/ /\ estado[p] \in {"listo", "cpu", "io", "termina"}
           /\ \E e \in {"listo", "cpu", "io", "termina"} : estado' = [estado EXCEPT ![p] = e]
    BY DEF Despachar, Desalojar, Accesos, Empezar, PaginaInexistente, Traducir,
           leer_una_pagina, escribir_una_pagina, AgregarBloque, TerminarAcceso,
           DevolverPorIo, exec_resize, SinMemoria, EnCpu, Redimensiona, Completa, EnAcceso
  <1>4. /\ estado' \in [Pid -> Estado]
        /\ \A q \in Pid : \/ estado'[q] = estado[q]
                          \/ {estado[q], estado'[q]} \subseteq {"listo", "cpu", "io", "termina"}
    BY <1>3 DEF MarcosInv, Estado
  <1> QED  BY <1>1, <1>2, <1>4, NoTocaMarcos

\* Those of the interfaces: io[i].pid is whatever it is, but only who is in "io" moves.
LEMMA PasosDeIo ==
  ASSUME MarcosInv, NEW i \in Interfaces,
         IoVerifica(i) \/ IoSinProceso(i) \/ IoCopia(i) \/ IoTermina(i)
  PROVE  MarcosInv'
  <1>1. UNCHANGED <<procesos, bitmap_marcos, a_liberar, tamanio>>
    BY DEF memoria, cpu, IoVerifica, IoSinProceso, IoCopia, IoTermina
  <1>2. \/ estado' = estado
        \/ estado' = [estado EXCEPT ![io[i].pid] = IF @ = "io" THEN "listo" ELSE @]
    BY DEF IoVerifica, IoSinProceso, IoCopia, IoTermina
  <1>3. /\ estado' \in [Pid -> Estado]
        /\ \A q \in Pid : \/ estado'[q] = estado[q]
                          \/ {estado[q], estado'[q]} \subseteq {"listo", "cpu", "io", "termina"}
    <2>1. CASE estado' = estado
      BY <2>1 DEF MarcosInv
    <2>2. CASE estado' = [estado EXCEPT ![io[i].pid] = IF @ = "io" THEN "listo" ELSE @]
      BY <2>2 DEF MarcosInv, Estado
    <2> QED  BY <1>2, <2>1, <2>2
  <1>4. tamanio' \in Nat
    BY <1>1 DEF MarcosInv
  <1> QED  BY <1>1, <1>3, <1>4, NoTocaMarcos

\* No step disturbs it.
LEMMA MarcosPaso == MarcosInv /\ [Next]_vars => MarcosInv'
  <1> SUFFICES ASSUME MarcosInv, [Next]_vars PROVE MarcosInv'
    OBVIOUS
  <1>1. ASSUME NEW p \in Pid, recibir_crear_proceso(p) PROVE MarcosInv'
    BY <1>1, CreaMarcos
  <1>2. ASSUME NEW p \in Pid, LiberarProceso(p) PROVE MarcosInv'
    BY <1>2, LiberaMarcos
  <1>3. CASE LiberarMarcos
    BY <1>3, LiberaPendientes
  <1>4. ASSUME NEW p \in Pid, ampliar_proceso(p) PROVE MarcosInv'
    BY <1>4, AmpliaMarcos
  <1>5. ASSUME NEW p \in Pid, reducir_proceso(p) PROVE MarcosInv'
    BY <1>5, ReduceMarcos
  <1>6. ASSUME NEW p \in Pid,
          \/ Despachar(p) \/ Desalojar(p) \/ Accesos(p) \/ PaginaInexistente(p)
          \/ Traducir(p) \/ leer_una_pagina(p) \/ escribir_una_pagina(p) \/ AgregarBloque(p)
          \/ TerminarAcceso(p) \/ \E i \in Interfaces : DevolverPorIo(p, i)
          \/ \E tam \in 0..MaxTam : exec_resize(p, tam)
          \/ SinMemoria(p)
        PROVE  MarcosInv'
    BY <1>6, OtrosPasos
  <1>7. ASSUME NEW i \in Interfaces,
               IoVerifica(i) \/ IoSinProceso(i) \/ IoCopia(i) \/ IoTermina(i)
        PROVE  MarcosInv'
    BY <1>7, PasosDeIo
  <1>8. CASE UNCHANGED vars
    BY <1>8 DEF vars, memoria, cpu, MarcosInv, MarcosExclusivos, Vivos, Vivo
  <1> QED  BY <1>1, <1>2, <1>3, <1>4, <1>5, <1>6, <1>7, <1>8 DEF Next

\* At every moment the tables of the processes, the frames waiting to be freed and the
\* bitmap of the memoria agree.
THEOREM MarcosInvSiempre == Spec => []MarcosInv
  BY InitMarcos, MarcosPaso, PTL DEF Spec

\* No frame is given to two pages, and none is marked that nobody has: through RESIZE, the
\* end of a process and a kill in the middle of its operation of an interface.
THEOREM MarcosSiempre == Spec => []MarcosExclusivos
  <1>1. MarcosInv => MarcosExclusivos
    BY DEF MarcosInv
  <1> QED  BY <1>1, MarcosInvSiempre, PTL
-----------------------------------------------------------------------------
(* The TLB.  What each operation of Mmu leaves is the entries that were at  *)
(* some positions, each with its process, page and frame, and at most one   *)
(* more.                                                                    *)

\* The positions of a set can be put in order.
LEMMA EnOrdenLema ==
  ASSUME NEW N \in Nat, NEW S \in SUBSET (1..N)
  PROVE  /\ Cardinality(S) \in Nat /\ Cardinality(S) <= N
         /\ EnOrden(S) \in [1..Cardinality(S) -> S]
         /\ \A i, j \in 1..Cardinality(S) : i < j => EnOrden(S)[i] < EnOrden(S)[j]
  <1> DEFINE Ordena(s, n, T) == s \in [1..n -> T] /\ \A i, j \in 1..n : i < j => s[i] < s[j]
             Malos == {n \in Nat : \E T \in SUBSET (1..N) :
                          Cardinality(T) = n /\ \A s : ~Ordena(s, n, T)}
  <1>1. IsFiniteSet(1..N) /\ Cardinality(1..N) = N
    <2>1. 1 \in Int /\ N \in Int
      OBVIOUS
    <2>2. IsFiniteSet(1..N) /\ Cardinality(1..N) = IF 1 > N THEN 0 ELSE N - 1 + 1
      BY <2>1, FS_Interval
    <2> QED  BY <2>2
  <1>2. \A T \in SUBSET (1..N) : IsFiniteSet(T) /\ Cardinality(T) \in Nat /\ Cardinality(T) <= N
    BY <1>1, FS_Subset, FS_CardinalityType
  <1>3. Malos = {}
    <2> SUFFICES ASSUME Malos # {} PROVE FALSE
      OBVIOUS
    <2>1. PICK n \in Malos : \A k \in Malos : n <= k
      <3>1. Malos \subseteq Nat
        OBVIOUS
      <3> HIDE DEF Malos
      <3> QED  BY <3>1, MinimoNat
    <2>2. PICK T \in SUBSET (1..N) : Cardinality(T) = n /\ \A s : ~Ordena(s, n, T)
      BY <2>1
    <2>3. n \in Nat
      BY <2>1
    <2>4. n # 0
      <3> SUFFICES ASSUME n = 0 PROVE FALSE
        OBVIOUS
      <3>1. 1..n = {}
        OBVIOUS
      <3>2. Ordena([k \in {} |-> 1], n, T)
        BY <3>1
      <3> QED  BY <2>2, <3>2
    <2>5. T # {}
      BY <2>2, <2>4, FS_EmptySet
    <2>15. \A x \in T : x \in Nat /\ x <= N
      <3> SUFFICES ASSUME NEW x \in T PROVE x \in Nat /\ x <= N
        OBVIOUS
      <3>1. x \in 1..N
        OBVIOUS
      <3> QED  BY <3>1
    <2>6. PICK m \in T : \A x \in T : x <= m
      <3> DEFINE D == {N - x : x \in T}
      <3>1. D \subseteq Nat /\ D # {}
        <4>1. \A x \in T : N - x \in Nat
          BY <2>15
        <4> QED  BY <2>5, <4>1
      <3>2. PICK d \in D : \A e \in D : d <= e
        <4> HIDE DEF D
        <4> QED  BY <3>1, MinimoNat
      <3>3. PICK m \in T : d = N - m
        BY <3>2
      <3>4. ASSUME NEW x \in T PROVE x <= m
        <4>1. d <= N - x
          BY <3>2
        <4>2. x \in Nat /\ m \in Nat
          BY <2>15
        <4> QED  BY <3>3, <4>1, <4>2
      <3> QED  BY <3>4
    <2>7. Cardinality(T \ {m}) = n - 1 /\ T \ {m} \in SUBSET (1..N)
      BY <1>2, <2>2, FS_RemoveElement
    <2>8. n - 1 \in Nat /\ n - 1 < n
      BY <2>3, <2>4
    <2>9. n - 1 \notin Malos
      BY <2>1, <2>3, <2>8
    <2>10. PICK s : Ordena(s, n - 1, T \ {m})
      <3> HIDE DEF Ordena
      <3> QED  BY <2>7, <2>8, <2>9
    <2> DEFINE s2 == [k \in 1..n |-> IF k = n THEN m ELSE s[k]]
    <2>11. \A k \in 1..n : k # n => k \in 1..(n - 1) /\ s[k] \in T \ {m}
      BY <2>3, <2>10
    <2>12. s2 \in [1..n -> T]
      BY <2>11
    <2>13. ASSUME NEW i \in 1..n, NEW j \in 1..n, i < j PROVE s2[i] < s2[j]
      <3>1. i # n
        BY <2>3, <2>13
      <3>2. s[i] \in T /\ s[i] # m /\ s[i] <= m /\ m \in Nat /\ s[i] \in Nat
        BY <2>6, <2>11, <2>15, <3>1
      <3>3. CASE j = n
        BY <3>1, <3>2, <3>3
      <3>4. CASE j # n
        BY <2>10, <2>11, <2>13, <3>1, <3>4
      <3> QED  BY <3>3, <3>4
    <2>14. Ordena(s2, n, T)
      <3> HIDE DEF s2
      <3> QED  BY <2>12, <2>13
    <2> QED  BY <2>2, <2>14
  <1>4. PICK s : Ordena(s, Cardinality(S), S)
    BY <1>2, <1>3
  <1>5. PICK c : c = Cardinality(S)
    OBVIOUS
  <1>6. \E z \in [1..c -> S] : \A i, j \in DOMAIN z : i < j => z[i] < z[j]
    BY <1>4, <1>5
  <1>7. EnOrden(S) \in [1..c -> S] /\ \A i, j \in DOMAIN EnOrden(S) : i < j => EnOrden(S)[i] < EnOrden(S)[j]
    BY <1>5, <1>6 DEF EnOrden
  <1> QED  BY <1>2, <1>5, <1>7

\* None is left out.
LEMMA EnOrdenTodos ==
  ASSUME NEW N \in Nat, NEW S \in SUBSET (1..N)
  PROVE  \A x \in S : \E k \in DOMAIN EnOrden(S) : EnOrden(S)[k] = x
  <1>0. PICK c \in Nat : c = Cardinality(S)
    BY EnOrdenLema
  <1>1. PICK s \in [1..c -> S] :
            s = EnOrden(S) /\ \A i, j \in 1..c : i < j => s[i] < s[j]
    BY <1>0, EnOrdenLema
  <1>2. IsFiniteSet(S) /\ IsFiniteSet(1..c) /\ Cardinality(1..c) = c
    <2>1. IsFiniteSet(1..N)
      BY FS_Interval
    <2>2. IsFiniteSet(S)
      BY <2>1, FS_Subset
    <2>3. IsFiniteSet(1..c) /\ Cardinality(1..c) = IF 1 > c THEN 0 ELSE c - 1 + 1
      BY FS_Interval
    <2> QED  BY <2>2, <2>3
  <1>3. s \in Injection(1..c, S)
    <2>1. ASSUME NEW i \in 1..c PROVE s[i] \in Nat
      <3>1. s[i] \in S /\ S \subseteq Nat
        OBVIOUS
      <3> QED  BY <3>1
    <2>2. \A i, j \in 1..c : s[i] = s[j] => i = j
      BY <1>1, <2>1
    <2> QED  BY <2>2 DEF Injection, IsInjective
  <1>4. s \in Surjection(1..c, S)
    BY <1>0, <1>2, <1>3, FS_Injection
  <1> QED  BY <1>1, <1>4 DEF Surjection

\* q has the entries of t at some positions, but for when they were used.
Conserva(t, q) ==
    \E s \in [DOMAIN q -> DOMAIN t] :
        /\ \A i, j \in DOMAIN q : s[i] = s[j] => i = j
        /\ \A i \in DOMAIN q : /\ q[i].pid = t[s[i]].pid
                               /\ q[i].num_pagina = t[s[i]].num_pagina
                               /\ q[i].num_marco = t[s[i]].num_marco

\* Leaving the entries at some positions.
LEMMA DejarLema ==
  ASSUME NEW t \in Seq(Entrada), NEW P \in SUBSET DOMAIN t
  PROVE  /\ Dejar(t, P) \in Seq(Entrada) /\ Len(Dejar(t, P)) <= Len(t)
         /\ Conserva(t, Dejar(t, P))
         /\ \A i \in DOMAIN Dejar(t, P) : \E j \in P : Dejar(t, P)[i] = t[j]
  <1>1. DOMAIN t = 1..Len(t) /\ Len(t) \in Nat /\ \A i \in 1..Len(t) : t[i] \in Entrada
    BY LenProperties
  <1>2. PICK c, s : c = Cardinality(P) /\ s = EnOrden(P)
    OBVIOUS
  <1>3. /\ c \in Nat /\ c <= Len(t) /\ s \in [1..c -> P]
        /\ \A i, j \in 1..c : i < j => s[i] < s[j]
    BY <1>1, <1>2, EnOrdenLema
  <1> DEFINE q == [k \in DOMAIN s |-> t[s[k]]]
  <1>4. Dejar(t, P) = q
    BY <1>2 DEF Dejar
  <1>5. DOMAIN q = 1..c /\ \A i \in 1..c : q[i] = t[s[i]] /\ s[i] \in P
    BY <1>3
  <1>6. q \in [1..c -> Entrada]
    BY <1>1, <1>3
  <1> HIDE DEF q
  <1>7. q \in Seq(Entrada) /\ Len(q) = c
    <2>1. q \in Seq(Entrada)
      BY <1>3, <1>6, SeqDef
    <2> QED  BY <1>3, <1>5, <2>1, LenProperties
  <1>8. \A i, j \in 1..c : s[i] = s[j] => i = j
    <2>1. \A i \in 1..c : s[i] \in Nat
      BY <1>1, <1>5
    <2> QED  BY <1>3, <2>1
  <1>9. Conserva(t, q)
    <2>1. s \in [DOMAIN q -> DOMAIN t]
      BY <1>3, <1>5
    <2>2. \A i, j \in DOMAIN q : s[i] = s[j] => i = j
      BY <1>5, <1>8
    <2>3. \A i \in DOMAIN q : /\ q[i].pid = t[s[i]].pid
                              /\ q[i].num_pagina = t[s[i]].num_pagina
                              /\ q[i].num_marco = t[s[i]].num_marco
      BY <1>5
    <2> QED  BY <2>1, <2>2, <2>3 DEF Conserva
  <1> QED  BY <1>3, <1>4, <1>5, <1>7, <1>9
\* Nothing but when an entry was used changes.
LEMMA ConservaLema ==
  ASSUME NEW t \in Seq(Entrada), NEW q \in Seq(Entrada), Len(q) = Len(t),
         \A i \in 1..Len(t) : /\ q[i].pid = t[i].pid /\ q[i].num_pagina = t[i].num_pagina
                              /\ q[i].num_marco = t[i].num_marco
  PROVE  Conserva(t, q)
  <1>1. DOMAIN t = 1..Len(t) /\ DOMAIN q = 1..Len(t)
    BY LenProperties
  <1> DEFINE s == [i \in 1..Len(t) |-> i]
  <1>2. s \in [DOMAIN q -> DOMAIN t]
    BY <1>1
  <1>3. \A i \in DOMAIN q : s[i] = i
    BY <1>1
  <1> HIDE DEF s
  <1>4. \A i, j \in DOMAIN q : s[i] = s[j] => i = j
    BY <1>3
  <1>5. \A i \in DOMAIN q : /\ q[i].pid = t[s[i]].pid
                            /\ q[i].num_pagina = t[s[i]].num_pagina
                            /\ q[i].num_marco = t[s[i]].num_marco
    BY <1>1, <1>3
  <1> QED  BY <1>2, <1>4, <1>5 DEF Conserva

\* The entry at i was used just now.
Marcada(t, i, ahora) == [t EXCEPT ![i].ultimo_acceso = ahora]

\* tlb_get finds an entry for the page...
LEMMA TlbGetDa ==
  ASSUME NEW t \in Seq(Entrada), NEW p, NEW n, TlbHit(t, p, n)
  PROVE  \E i \in 1..Len(t) :
             /\ Es(t[i], p, n) /\ MarcoEnTlb(t, p, n) = t[i].num_marco
             /\ \A ahora : tlb_get(t, p, n, ahora) = Marcada(t, i, ahora)
  <1>1. DOMAIN t = 1..Len(t) /\ Len(t) \in Nat
    BY LenProperties
  <1> DEFINE I == {i \in 1..Len(t) : Es(t[i], p, n)}
  <1>2. I # {} /\ I \subseteq Nat
    BY <1>1 DEF TlbHit
  <1>3. PICK i : i = Min(I)
    OBVIOUS
  <1>4. i \in I
    <2>1. \E m \in I : \A x \in I : m <= x
      <3> HIDE DEF I
      <3> QED  BY <1>2, MinimoNat
    <2> HIDE DEF I
    <2> QED  BY <1>3, <2>1 DEF Min
  <1>5. SelectInSeq(t, LAMBDA e : Es(e, p, n)) = i
    BY <1>2, <1>3 DEF SelectInSeq
  <1>6. i \in 1..Len(t) /\ Es(t[i], p, n)
    BY <1>4
  <1>7. MarcoEnTlb(t, p, n) = t[i].num_marco
    BY <1>5 DEF MarcoEnTlb
  <1>8. \A ahora : tlb_get(t, p, n, ahora) = Marcada(t, i, ahora)
    BY <1>5 DEF tlb_get, Marcada
  <1> QED  BY <1>6, <1>7, <1>8

\* ...and marks it, and nothing else...
LEMMA MarcarLema ==
  ASSUME NEW t \in Seq(Entrada), NEW i \in 1..Len(t), NEW ahora \in Nat,
         NEW q, q = Marcada(t, i, ahora)
  PROVE  /\ q \in Seq(Entrada) /\ Len(q) = Len(t)
         /\ \A k \in 1..Len(t) :
                /\ q[k].pid = t[k].pid /\ q[k].num_pagina = t[k].num_pagina
                /\ q[k].num_marco = t[k].num_marco
                /\ q[k].ultimo_acceso = IF k = i THEN ahora ELSE t[k].ultimo_acceso
  <1>1. DOMAIN t = 1..Len(t) /\ Len(t) \in Nat /\ \A k \in 1..Len(t) : t[k] \in Entrada
    BY LenProperties
  <1>2. DOMAIN q = 1..Len(t)
    BY <1>1 DEF Marcada
  <1>3. ASSUME NEW k \in 1..Len(t)
        PROVE  /\ q[k] \in Entrada /\ q[k].pid = t[k].pid
               /\ q[k].num_pagina = t[k].num_pagina /\ q[k].num_marco = t[k].num_marco
               /\ q[k].ultimo_acceso = IF k = i THEN ahora ELSE t[k].ultimo_acceso
    <2>1. t[k] \in Entrada
      BY <1>1
    <2>2. CASE k = i
      <3>1. PICK f \in Entrada : f = t[k]
        BY <2>1
      <3>2. q[k] = [f EXCEPT !.ultimo_acceso = ahora]
        BY <1>1, <2>2, <3>1 DEF Marcada
      <3>3. /\ [f EXCEPT !.ultimo_acceso = ahora] \in Entrada
            /\ [f EXCEPT !.ultimo_acceso = ahora].pid = f.pid
            /\ [f EXCEPT !.ultimo_acceso = ahora].num_pagina = f.num_pagina
            /\ [f EXCEPT !.ultimo_acceso = ahora].num_marco = f.num_marco
            /\ [f EXCEPT !.ultimo_acceso = ahora].ultimo_acceso = ahora
        BY ONLY <3>1, f \in Entrada, ahora \in Nat DEF Entrada
      <3> QED  BY <2>2, <3>1, <3>2, <3>3
    <2>3. CASE k # i
      <3>1. q[k] = t[k]
        BY <1>1, <2>3 DEF Marcada
      <3> QED  BY <2>1, <2>3, <3>1
    <2> QED  BY <2>2, <2>3
  <1>4. q = [k \in 1..Len(t) |-> q[k]]
    BY <1>2 DEF Marcada
  <1>5. q \in [1..Len(t) -> Entrada]
    BY <1>3, <1>4
  <1>6. q \in Seq(Entrada)
    BY <1>1, <1>5, SeqDef
  <1>7. Len(q) = Len(t)
    BY <1>1, <1>2, <1>6, LenProperties
  <1> QED  BY <1>3, <1>6, <1>7

\* ...so the entries stay.
LEMMA TlbGetLema ==
  ASSUME NEW t \in Seq(Entrada), NEW p, NEW n, TlbHit(t, p, n)
  PROVE  /\ \E i \in DOMAIN t : Es(t[i], p, n) /\ MarcoEnTlb(t, p, n) = t[i].num_marco
         /\ \A ahora \in Nat : LET q == tlb_get(t, p, n, ahora)
                               IN q \in Seq(Entrada) /\ Len(q) = Len(t) /\ Conserva(t, q)
  <1>1. DOMAIN t = 1..Len(t)
    BY LenProperties
  <1>2. PICK i \in 1..Len(t) :
            /\ Es(t[i], p, n) /\ MarcoEnTlb(t, p, n) = t[i].num_marco
            /\ \A ahora : tlb_get(t, p, n, ahora) = Marcada(t, i, ahora)
    BY TlbGetDa
  <1>3. ASSUME NEW ahora \in Nat, NEW q, q = Marcada(t, i, ahora)
        PROVE  q \in Seq(Entrada) /\ Len(q) = Len(t) /\ Conserva(t, q)
    <2>1. /\ q \in Seq(Entrada) /\ Len(q) = Len(t)
          /\ \A k \in 1..Len(t) :
                 /\ q[k].pid = t[k].pid /\ q[k].num_pagina = t[k].num_pagina
                 /\ q[k].num_marco = t[k].num_marco
      BY <1>3, MarcarLema
    <2> QED  BY <2>1, ConservaLema
  <1> QED  BY <1>1, <1>2, <1>3

\* Taking out the entry at one position.
LEMMA SacarLema ==
  ASSUME NEW t \in Seq(Entrada), NEW v \in 1..Len(t)
  PROVE  /\ RemoveAt(t, v) \in Seq(Entrada) /\ Len(RemoveAt(t, v)) = Len(t) - 1
         /\ Conserva(t, RemoveAt(t, v))
  <1> DEFINE q == RemoveAt(t, v)
  <1>1. DOMAIN t = 1..Len(t) /\ Len(t) \in Nat
    BY LenProperties
  <1>2. /\ q \in Seq(Entrada) /\ Len(q) = Len(t) - 1
        /\ \A i \in 1..(Len(t) - 1) : q[i] = IF i < v THEN t[i] ELSE t[i + 1]
    BY RemoveAtLema
  <1> HIDE DEF q
  <1>3. DOMAIN q = 1..(Len(t) - 1)
    BY <1>2, LenProperties
  <1> DEFINE s == [i \in 1..(Len(t) - 1) |-> IF i < v THEN i ELSE i + 1]
  <1>4. \A i \in DOMAIN q : s[i] \in DOMAIN t /\ q[i] = t[s[i]]
    BY <1>1, <1>2, <1>3
  <1>5. \A i, j \in DOMAIN q : s[i] = s[j] => i = j
    BY <1>1, <1>3
  <1>6. s \in [DOMAIN q -> DOMAIN t]
    BY <1>1, <1>3
  <1> HIDE DEF s
  <1>7. \A i \in DOMAIN q : /\ q[i].pid = t[s[i]].pid
                            /\ q[i].num_pagina = t[s[i]].num_pagina
                            /\ q[i].num_marco = t[s[i]].num_marco
    BY <1>4
  <1>8. Conserva(t, q)
    BY <1>5, <1>6, <1>7 DEF Conserva
  <1> QED  BY <1>2, <1>8 DEF q

\* The oldest is the first.
LEMMA TailEsRemoveAt ==
  ASSUME NEW t \in Seq(Entrada), Len(t) > 0
  PROVE  Tail(t) = RemoveAt(t, 1)
  <1>1. Len(t) \in Nat /\ 1 \in 1..Len(t)
    BY LenProperties
  <1>2. t # <<>>
    BY EmptySeq
  <1> DEFINE a == Tail(t)
             q == RemoveAt(t, 1)
  <1>3. /\ a \in Seq(Entrada) /\ Len(a) = Len(t) - 1
        /\ \A i \in 1..Len(a) : a[i] = t[i + 1]
    BY <1>2, HeadTailProperties
  <1>4. /\ q \in Seq(Entrada) /\ Len(q) = Len(t) - 1
        /\ \A i \in 1..(Len(t) - 1) : q[i] = IF i < 1 THEN t[i] ELSE t[i + 1]
    BY <1>1, RemoveAtLema
  <1> HIDE DEF a, q
  <1>5. \A i \in 1..Len(a) : a[i] = q[i]
    BY <1>1, <1>3, <1>4
  <1>6. a = q
    BY <1>3, <1>4, <1>5, SeqEqual
  <1> QED  BY <1>6 DEF a, q

\* There is a victim, of those used longest ago the first.
LEMMA LruLema ==
  ASSUME NEW t \in Seq(Entrada), Len(t) > 0
  PROVE  \E v \in 1..Len(t) :
             /\ lru_remover_victima(t) = RemoveAt(t, v)
             /\ \A j \in 1..Len(t) : t[v].ultimo_acceso <= t[j].ultimo_acceso
  <1>1. DOMAIN t = 1..Len(t) /\ Len(t) \in Nat /\ \A i \in 1..Len(t) : t[i] \in Entrada
    BY LenProperties
  <1>2. \A i \in 1..Len(t) : t[i].ultimo_acceso \in Nat
    BY <1>1 DEF Entrada
  <1> DEFINE U == {t[i].ultimo_acceso : i \in 1..Len(t)}
  <1>3. PICK u \in U : \A x \in U : u <= x
    <2>1. 1 \in 1..Len(t)
      BY <1>1
    <2>2. U # {} /\ U \subseteq Nat
      BY <1>2, <2>1
    <2> HIDE DEF U
    <2> QED  BY <2>2, MinimoNat
  <1> DEFINE J == {i \in 1..Len(t) : t[i].ultimo_acceso = u}
  <1>4. PICK i \in J : \A x \in J : i <= x
    <2>1. J # {} /\ J \subseteq Nat
      BY <1>3
    <2> HIDE DEF J
    <2> QED  BY <2>1, MinimoNat
  <1>5. \A j \in DOMAIN t : \/ t[i].ultimo_acceso < t[j].ultimo_acceso
                            \/ t[i].ultimo_acceso = t[j].ultimo_acceso /\ i <= j
    <2> SUFFICES ASSUME NEW j \in 1..Len(t)
                 PROVE  \/ t[i].ultimo_acceso < t[j].ultimo_acceso
                        \/ t[i].ultimo_acceso = t[j].ultimo_acceso /\ i <= j
      BY <1>1
    <2>1. u <= t[j].ultimo_acceso /\ t[i].ultimo_acceso = u /\ u \in Nat /\ t[j].ultimo_acceso \in Nat
      BY <1>2, <1>3, <1>4
    <2>2. t[j].ultimo_acceso = u => i <= j
      BY <1>4
    <2> QED  BY <2>1, <2>2
  <1>6. i \in DOMAIN t
    BY <1>1, <1>4
  <1>7. \E x \in DOMAIN t : \A j \in DOMAIN t :
            \/ t[x].ultimo_acceso < t[j].ultimo_acceso
            \/ t[x].ultimo_acceso = t[j].ultimo_acceso /\ x <= j
    BY <1>5, <1>6
  <1>8. PICK v : v = CHOOSE x \in DOMAIN t : \A j \in DOMAIN t :
                         \/ t[x].ultimo_acceso < t[j].ultimo_acceso
                         \/ t[x].ultimo_acceso = t[j].ultimo_acceso /\ x <= j
    OBVIOUS
  <1>9. v \in DOMAIN t
    BY <1>7, <1>8
  <1>10. lru_remover_victima(t) = RemoveAt(t, v)
    BY <1>8 DEF lru_remover_victima
  <1>11. \A j \in DOMAIN t : \/ t[v].ultimo_acceso < t[j].ultimo_acceso
                             \/ t[v].ultimo_acceso = t[j].ultimo_acceso /\ v <= j
    BY <1>7, <1>8
  <1>12. ASSUME NEW j \in 1..Len(t) PROVE t[v].ultimo_acceso <= t[j].ultimo_acceso
    <2>1. t[v].ultimo_acceso \in Nat /\ t[j].ultimo_acceso \in Nat
      BY <1>1, <1>2, <1>9
    <2> QED  BY <1>1, <1>11, <2>1
  <1> QED  BY <1>1, <1>9, <1>10, <1>12

\* A new entry comes last, in the place of the victim if there was no room.
LEMMA TlbSaveLema ==
  ASSUME NEW t \in Seq(Entrada), Len(t) <= CANTIDAD_ENTRADAS_TLB, NEW e \in Entrada
  PROVE  /\ tlb_save(t, e) \in Seq(Entrada) /\ Len(tlb_save(t, e)) <= CANTIDAD_ENTRADAS_TLB
         /\ \/ tlb_save(t, e) = t
            \/ \E r \in Seq(Entrada) : Conserva(t, r) /\ tlb_save(t, e) = Append(r, e)
  <1>1. Len(t) \in Nat /\ CANTIDAD_ENTRADAS_TLB \in Nat
    BY TlbOK, LenProperties
  <1>2. CASE CANTIDAD_ENTRADAS_TLB = 0
    BY <1>2 DEF tlb_save
  <1>3. CASE CANTIDAD_ENTRADAS_TLB # 0
    <2> DEFINE r == SacarVictima(t)
    <2>1. tlb_save(t, e) = Append(r, e)
      BY <1>3 DEF tlb_save
    <2>2. r \in Seq(Entrada) /\ Len(r) < CANTIDAD_ENTRADAS_TLB /\ Conserva(t, r)
      <3>1. CASE Len(t) < CANTIDAD_ENTRADAS_TLB
        <4>1. r = t
          BY <3>1 DEF SacarVictima
        <4> QED  BY <3>1, <4>1, ConservaLema
      <3>2. CASE ~(Len(t) < CANTIDAD_ENTRADAS_TLB)
        <4>1. Len(t) > 0
          BY <1>1, <1>3, <3>2
        <4>2. \E v \in 1..Len(t) : r = RemoveAt(t, v)
          <5>1. 1 \in 1..Len(t)
            BY <1>1, <4>1
          <5> QED  BY <3>2, <4>1, <5>1, LruLema, TailEsRemoveAt
                   DEF SacarVictima, fifo_remover_victima
        <4>3. r \in Seq(Entrada) /\ Len(r) = Len(t) - 1 /\ Conserva(t, r)
          <5> HIDE DEF r
          <5> QED  BY <4>2, SacarLema
        <4> QED  BY <1>1, <3>2, <4>3
      <3> QED  BY <3>1, <3>2
    <2> HIDE DEF r
    <2>3. Append(r, e) \in Seq(Entrada) /\ Len(Append(r, e)) = Len(r) + 1
      BY <2>2, AppendProperties
    <2>4. Len(r) \in Nat
      BY <2>2, LenProperties
    <2> QED  BY <1>1, <2>1, <2>2, <2>3, <2>4
  <1> QED  BY <1>2, <1>3

\* Every entry of t is right, by the page tables, and of a process that came...
Fiel(t) ==
    \A i \in DOMAIN t :
        /\ estado[t[i].pid] # "nuevo"
        /\ Vivo(t[i].pid) => /\ t[i].num_pagina < Len(procesos[t[i].pid])
                             /\ t[i].num_marco = procesos[t[i].pid][t[i].num_pagina + 1]

\* ...and no page is in t twice.
Unica(t) == \A i, j \in DOMAIN t : Es(t[i], t[j].pid, t[j].num_pagina) => i = j

\* TlbCoherente in its three parts.
LEMMA CoherenteDef ==
  /\ TlbCoherente <=> /\ Unica(tlb_entries) /\ Len(tlb_entries) <= CANTIDAD_ENTRADAS_TLB
                      /\ \A i \in DOMAIN tlb_entries :
                             Vivo(tlb_entries[i].pid) =>
                                 /\ tlb_entries[i].num_pagina < Len(procesos[tlb_entries[i].pid])
                                 /\ tlb_entries[i].num_marco =
                                        procesos[tlb_entries[i].pid][tlb_entries[i].num_pagina + 1]
  /\ CpuInv /\ TlbCoherente => /\ Fiel(tlb_entries) /\ Unica(tlb_entries)
                               /\ Len(tlb_entries) <= CANTIDAD_ENTRADAS_TLB
  /\ (/\ Fiel(tlb_entries) /\ Unica(tlb_entries)
      /\ Len(tlb_entries) <= CANTIDAD_ENTRADAS_TLB) => TlbCoherente
  BY DEF TlbCoherente, CpuInv, Fiel, Unica

\* What is kept of a right TLB is right.
LEMMA ConservaFiel ==
  ASSUME NEW t, NEW q, Conserva(t, q), Fiel(t), Unica(t)
  PROVE  /\ Fiel(q) /\ Unica(q)
         /\ \A p, n : TlbHit(q, p, n) => TlbHit(t, p, n)
  <1>1. PICK s \in [DOMAIN q -> DOMAIN t] :
            /\ \A i, j \in DOMAIN q : s[i] = s[j] => i = j
            /\ \A i \in DOMAIN q : /\ q[i].pid = t[s[i]].pid
                                   /\ q[i].num_pagina = t[s[i]].num_pagina
                                   /\ q[i].num_marco = t[s[i]].num_marco
    BY DEF Conserva
  <1>2. \A i \in DOMAIN q : s[i] \in DOMAIN t
    BY <1>1
  <1>3. Fiel(q)
    BY <1>1, <1>2 DEF Fiel
  <1>4. Unica(q)
    <2> SUFFICES ASSUME NEW i \in DOMAIN q, NEW j \in DOMAIN q, Es(q[i], q[j].pid, q[j].num_pagina)
                 PROVE  i = j
      BY DEF Unica
    <2>1. Es(t[s[i]], t[s[j]].pid, t[s[j]].num_pagina)
      BY <1>1 DEF Es
    <2>2. s[i] = s[j]
      BY <1>2, <2>1 DEF Unica
    <2> QED  BY <1>1, <2>2
  <1>5. \A p, n : TlbHit(q, p, n) => TlbHit(t, p, n)
    BY <1>1, <1>2 DEF TlbHit, Es
  <1> QED  BY <1>3, <1>4, <1>5

\* A right entry for a page that has none.
LEMMA AppendFiel ==
  ASSUME NEW r \in Seq(Entrada), NEW e \in Entrada, Fiel(r), Unica(r),
         ~TlbHit(r, e.pid, e.num_pagina), estado[e.pid] # "nuevo",
         e.num_pagina < Len(procesos[e.pid]),
         e.num_marco = procesos[e.pid][e.num_pagina + 1]
  PROVE  Fiel(Append(r, e)) /\ Unica(Append(r, e))
  <1> DEFINE q == Append(r, e)
  <1>1. /\ q \in Seq(Entrada) /\ Len(q) = Len(r) + 1 /\ Len(r) \in Nat /\ DOMAIN r = 1..Len(r)
        /\ \A i \in 1..Len(r) : q[i] = r[i]
        /\ q[Len(r) + 1] = e
    BY AppendProperties, LenProperties
  <1>2. DOMAIN q = 1..(Len(r) + 1)
    BY <1>1, LenProperties
  <1> HIDE DEF q
  <1>3. \A i \in DOMAIN q : (i \in DOMAIN r /\ q[i] = r[i]) \/ (i = Len(r) + 1 /\ q[i] = e)
    BY <1>1, <1>2
  <1>4. Fiel(q)
    BY <1>3 DEF Fiel
  <1>5. Unica(q)
    BY <1>3 DEF Unica, TlbHit, Es
  <1> QED  BY <1>4, <1>5 DEF q
-----------------------------------------------------------------------------
(* Arithmetic of pages                                                      *)

\* What a division of naturals gives.
LEMMA Division ==
  ASSUME NEW a \in Nat, NEW b \in Nat \ {0}
  PROVE  a \div b \in Nat /\ a % b \in 0..(b - 1) /\ a = (a \div b) * b + (a % b)
  OBVIOUS

\* A smaller page ends before the next one begins.
LEMMA Producto ==
  ASSUME NEW m \in Nat, NEW n \in Nat, NEW b \in Nat \ {0}, m < n
  PROVE  m * b + b <= n * b /\ m * b \in Nat /\ n * b \in Nat
  <1>1. PICK d \in Nat : n = m + 1 + d
    <2>1. n - m - 1 \in Nat
      OBVIOUS
    <2> QED  BY <2>1
  <1>2. n * b = m * b + b + d * b
    BY <1>1
  <1>3. d * b \in Nat /\ m * b \in Nat /\ n * b \in Nat
    BY <1>1
  <1> QED  BY <1>2, <1>3

\* The frame and the offset of an address are unique.
LEMMA Unico ==
  ASSUME NEW m \in Nat, NEW n \in Nat, NEW b \in Nat \ {0},
         NEW r \in 0..(b - 1), NEW s \in 0..(b - 1), m * b + r = n * b + s
  PROVE  m = n /\ r = s
  <1>1. m * b \in Nat /\ n * b \in Nat
    OBVIOUS
  <1>2. ~(m < n)
    <2> SUFFICES ASSUME m < n PROVE FALSE
      OBVIOUS
    <2>1. m * b + b <= n * b
      BY Producto
    <2> QED  BY <1>1, <2>1
  <1>3. ~(n < m)
    <2> SUFFICES ASSUME n < m PROVE FALSE
      OBVIOUS
    <2>1. n * b + b <= m * b
      BY Producto
    <2> QED  BY <1>1, <2>1
  <1>4. m = n
    BY <1>2, <1>3
  <1> QED  BY <1>1, <1>4

\* The page of a logical address, and what is left of it.
LEMMA PaginaDe ==
  ASSUME NEW dir \in Nat
  PROVE  /\ TAM_PAGINA \in Nat /\ TAM_PAGINA >= 1
         /\ num_pagina(dir) \in Nat /\ dir % TAM_PAGINA \in 0..(TAM_PAGINA - 1)
         /\ num_pagina(dir) * TAM_PAGINA \in Nat
         /\ dir = num_pagina(dir) * TAM_PAGINA + (dir % TAM_PAGINA)
         /\ tam_restante_pag(dir) \in 1..TAM_PAGINA
  <1>1. TAM_PAGINA \in Nat \ {0}
    BY MemoriaOK
  <1>2. /\ num_pagina(dir) \in Nat /\ dir % TAM_PAGINA \in 0..(TAM_PAGINA - 1)
        /\ dir = num_pagina(dir) * TAM_PAGINA + (dir % TAM_PAGINA)
    BY <1>1, Division DEF num_pagina
  <1>3. num_pagina(dir) * TAM_PAGINA \in Nat
    BY <1>1, <1>2
  <1>4. tam_restante_pag(dir) \in 1..TAM_PAGINA
    BY <1>1, <1>2 DEF tam_restante_pag
  <1> QED  BY <1>1, <1>2, <1>3, <1>4

\* A page number and an offset make an address of that page.
LEMMA DireccionDe ==
  ASSUME NEW n \in Nat, NEW r \in 0..(TAM_PAGINA - 1)
  PROVE  /\ n * TAM_PAGINA \in Nat /\ n * TAM_PAGINA + r \in Nat
         /\ num_pagina(n * TAM_PAGINA + r) = n
         /\ (n * TAM_PAGINA + r) % TAM_PAGINA = r
  <1>1. TAM_PAGINA \in Nat \ {0}
    BY MemoriaOK
  <1>2. n * TAM_PAGINA \in Nat
    BY <1>1
  <1>3. PICK a \in Nat : a = n * TAM_PAGINA + r
    BY <1>2, <1>1
  <1>4. /\ num_pagina(a) \in Nat /\ a % TAM_PAGINA \in 0..(TAM_PAGINA - 1)
        /\ a = num_pagina(a) * TAM_PAGINA + (a % TAM_PAGINA)
    BY PaginaDe
  <1>5. num_pagina(a) = n /\ a % TAM_PAGINA = r
    <2>1. PICK x \in Nat, y \in 0..(TAM_PAGINA - 1) : x = num_pagina(a) /\ y = a % TAM_PAGINA
      BY <1>4
    <2>2. x * TAM_PAGINA + y = n * TAM_PAGINA + r
      BY <1>3, <1>4, <2>1
    <2> QED  BY ONLY <1>1, <2>1, <2>2, Unico, n \in Nat, r \in 0..(TAM_PAGINA - 1)
  <1> QED  BY <1>2, <1>3, <1>5

\* An address is in the first n pages when its page is one of them.
LEMMA PaginaMenor ==
  ASSUME NEW dir \in Nat, NEW n \in Nat, NEW tam \in Nat,
         (dir % TAM_PAGINA) + tam <= TAM_PAGINA
  PROVE  /\ n * TAM_PAGINA \in Nat
         /\ num_pagina(dir) < n => dir + tam <= n * TAM_PAGINA /\ dir < n * TAM_PAGINA
         /\ dir < n * TAM_PAGINA => num_pagina(dir) < n
  <1>1. /\ TAM_PAGINA \in Nat \ {0} /\ num_pagina(dir) \in Nat
        /\ dir % TAM_PAGINA \in 0..(TAM_PAGINA - 1)
        /\ num_pagina(dir) * TAM_PAGINA \in Nat
        /\ dir = num_pagina(dir) * TAM_PAGINA + (dir % TAM_PAGINA)
    BY PaginaDe, MemoriaOK
  <1>2. n * TAM_PAGINA \in Nat
    BY <1>1
  <1>3. ASSUME num_pagina(dir) < n PROVE dir + tam <= n * TAM_PAGINA /\ dir < n * TAM_PAGINA
    <2>1. num_pagina(dir) * TAM_PAGINA + TAM_PAGINA <= n * TAM_PAGINA
      BY <1>1, <1>3, Producto
    <2> QED  BY <1>1, <1>2, <2>1
  <1>4. ASSUME dir < n * TAM_PAGINA, ~(num_pagina(dir) < n) PROVE FALSE
    <2>1. n * TAM_PAGINA <= num_pagina(dir) * TAM_PAGINA
      <3>1. CASE n = num_pagina(dir)
        BY <1>1, <1>2, <3>1
      <3>2. CASE n < num_pagina(dir)
        <4>1. n * TAM_PAGINA + TAM_PAGINA <= num_pagina(dir) * TAM_PAGINA
          BY <1>1, <3>2, Producto
        <4> QED  BY <1>1, <1>2, <4>1
      <3> QED  BY <1>1, <1>4, <3>1, <3>2
    <2> QED  BY <1>1, <1>2, <1>4, <2>1
  <1> QED  BY <1>2, <1>3, <1>4

\* A frame and an offset make an address of the memory.
LEMMA FisicaDe ==
  ASSUME NEW m \in Marco, NEW r \in 0..(TAM_PAGINA - 1)
  PROVE  /\ m * TAM_PAGINA + r \in Direccion /\ (m * TAM_PAGINA + r) % TAM_PAGINA = r
         /\ (m * TAM_PAGINA + r) \div TAM_PAGINA = m
  <1>1. TAM_PAGINA \in Nat \ {0} /\ num_marcos \in Nat /\ m \in Nat /\ m < num_marcos
    BY MemoriaOK DEF Marco
  <1>2. /\ m * TAM_PAGINA \in Nat /\ m * TAM_PAGINA + r \in Nat
        /\ num_pagina(m * TAM_PAGINA + r) = m /\ (m * TAM_PAGINA + r) % TAM_PAGINA = r
    BY <1>1, DireccionDe
  <1>3. m * TAM_PAGINA + TAM_PAGINA <= num_marcos * TAM_PAGINA /\ num_marcos * TAM_PAGINA \in Nat
    BY <1>1, Producto
  <1> QED  BY <1>1, <1>2, <1>3 DEF Direccion, num_pagina

\* The bytes of a piece are bytes of the memory.
LEMMA EnLaMemoria ==
  ASSUME NEW a \in Direccion, NEW tam \in Nat, (a % TAM_PAGINA) + tam <= TAM_PAGINA,
         NEW k \in 1..tam
  PROVE  a + k - 1 \in Direccion
  <1>1. /\ TAM_PAGINA \in Nat \ {0} /\ num_marcos \in Nat /\ a \in Nat
        /\ num_marcos * TAM_PAGINA \in Nat /\ a < num_marcos * TAM_PAGINA
    BY MemoriaOK DEF Direccion
  <1>2. a + tam <= num_marcos * TAM_PAGINA
    <2>1. num_pagina(a) < num_marcos
      BY <1>1, PaginaMenor
    <2> QED  BY <1>1, <2>1, PaginaMenor
  <1> QED  BY <1>1, <1>2 DEF Direccion
-----------------------------------------------------------------------------
(* The access under way                                                     *)

OpDeCpu == {"leer", "escribir"}
OpDeIo == {"stdin", "stdout"}

\* The fields of an access that is not a RESIZE.
LEMMA AccesoLema ==
  ASSUME CpuInv, acceso # NoExiste, acceso.op # "resize"
  PROVE  /\ acceso.op \in OpDeCpu \cup OpDeIo /\ acceso.inicio \in Nat /\ acceso.dir \in Nat
         /\ acceso.restante \in Nat /\ acceso.dato \in Datos
         /\ acceso.fisica \in Direccion \cup {NoExiste}
         /\ acceso.op \in OpDeCpu => acceso.buffer \in Seq(Datos)
         /\ acceso.op \in OpDeIo => acceso.buffer \in Seq(BloqueFisico)
         /\ acceso = [op |-> acceso.op, inicio |-> acceso.inicio, dir |-> acceso.dir,
                      restante |-> acceso.restante, dato |-> acceso.dato,
                      fisica |-> acceso.fisica, buffer |-> acceso.buffer]
  <1>1. acceso \in AccesoDe({"leer", "escribir"}, Seq(Datos))
            \cup AccesoDe({"stdin", "stdout"}, Seq(BloqueFisico))
    BY DEF CpuInv, Acceso
  <1>2. CASE acceso \in AccesoDe({"leer", "escribir"}, Seq(Datos))
    BY <1>2 DEF AccesoDe, OpDeCpu, OpDeIo
  <1>3. CASE acceso \in AccesoDe({"stdin", "stdout"}, Seq(BloqueFisico))
    BY <1>3 DEF AccesoDe, OpDeCpu, OpDeIo
  <1> QED  BY <1>1, <1>2, <1>3

\* And the other way around.
LEMMA AccesoTipo ==
  ASSUME NEW op \in OpDeCpu \cup OpDeIo, NEW inicio \in Nat, NEW dir \in Nat,
         NEW restante \in Nat, NEW dato \in Datos, NEW fisica \in Direccion \cup {NoExiste},
         NEW buffer, op \in OpDeCpu => buffer \in Seq(Datos),
         op \in OpDeIo => buffer \in Seq(BloqueFisico)
  PROVE  [op |-> op, inicio |-> inicio, dir |-> dir, restante |-> restante, dato |-> dato,
          fisica |-> fisica, buffer |-> buffer] \in Acceso
  <1>1. CASE op \in OpDeCpu
    BY <1>1 DEF Acceso, AccesoDe, OpDeCpu
  <1>2. CASE op \in OpDeIo
    BY <1>2 DEF Acceso, AccesoDe, OpDeIo
  <1> QED  BY <1>1, <1>2

\* What the code takes at a time is in one page.
LEMMA PiezaLema ==
  ASSUME NEW restante \in Nat, NEW dir \in Nat, restante > 0,
         acceso.restante = restante, acceso.dir = dir
  PROVE  /\ Pieza \in 1..TAM_PAGINA /\ Pieza <= restante
         /\ (dir % TAM_PAGINA) + Pieza <= TAM_PAGINA
         /\ Pieza < restante => (dir % TAM_PAGINA) + Pieza = TAM_PAGINA
  <1>1. /\ TAM_PAGINA \in Nat /\ TAM_PAGINA >= 1
        /\ dir % TAM_PAGINA \in 0..(TAM_PAGINA - 1) /\ tam_restante_pag(dir) \in 1..TAM_PAGINA
    BY PaginaDe
  <1>2. tam_restante_pag(dir) = TAM_PAGINA - (dir % TAM_PAGINA)
    BY DEF tam_restante_pag
  <1>3. Pieza = IF restante < tam_restante_pag(dir) THEN restante ELSE tam_restante_pag(dir)
    BY DEF Pieza, Minimo
  <1> QED  BY <1>1, <1>2, <1>3

\* The process of an access has its table.
LEMMA TablaDe ==
  ASSUME MarcosInv, NEW p \in Pid, Vivo(p)
  PROVE  /\ procesos[p] \in Seq(Marco) /\ Len(procesos[p]) \in Nat
         /\ DOMAIN procesos[p] = 1..Len(procesos[p])
         /\ \A n \in Nat : n < Len(procesos[p]) => procesos[p][n + 1] \in Marco
         /\ p \in Vivos
  <1>1. procesos[p] \in Seq(Marco)
    BY DEF MarcosInv, Vivo
  <1>2. PICK t \in Seq(Marco) : t = procesos[p]
    BY <1>1
  <1>3. Len(t) \in Nat /\ DOMAIN t = 1..Len(t) /\ \A n \in 1..Len(t) : t[n] \in Marco
    BY TablaLema
  <1>4. ASSUME NEW n \in Nat, n < Len(t) PROVE t[n + 1] \in Marco
    BY <1>3, <1>4
  <1> QED  BY <1>1, <1>2, <1>3, <1>4 DEF Vivos

\* Who executes has its memory.
LEMMA EnCpuVivo ==
  ASSUME MarcosInv, NEW p \in Pid, EnCpu(p)
  PROVE  Vivo(p) /\ p \in Vivos /\ estado[p] = "cpu"
  BY DEF MarcosInv, EnCpu, Vivos

\* The physical address of a page the process has.
LEMMA FisicaLema ==
  ASSUME MarcosInv, NEW p \in Pid, Vivo(p), NEW dir \in Nat,
         num_pagina(dir) < Len(procesos[p])
  PROVE  /\ Fisica(p, dir) \in Direccion /\ Fisica(p, dir) % TAM_PAGINA = dir % TAM_PAGINA
         /\ Fisica(p, dir) \div TAM_PAGINA = procesos[p][num_pagina(dir) + 1]
         /\ procesos[p][num_pagina(dir) + 1] \in Marco
  <1>1. PICK m, r : m = procesos[p][num_pagina(dir) + 1] /\ r = dir % TAM_PAGINA
    OBVIOUS
  <1>2. m \in Marco /\ r \in 0..(TAM_PAGINA - 1) /\ Fisica(p, dir) = m * TAM_PAGINA + r
    BY <1>1, TablaDe, PaginaDe DEF Fisica
  <1> QED  BY <1>1, <1>2, FisicaDe

\* The MMU answers what the page table has.
LEMMA TraduceLema ==
  ASSUME MarcosInv, CpuInv, TlbCoherente, NEW p \in Pid, EnAcceso(p),
         \/ TlbHit(tlb_entries, p, num_pagina(acceso.dir))
         \/ num_pagina(acceso.dir) < Len(procesos[p])
  PROVE  /\ num_pagina(acceso.dir) < Len(procesos[p])
         /\ obtener_direccion_fisica(p, acceso.dir) = Fisica(p, acceso.dir)
  <1> DEFINE n == num_pagina(acceso.dir)
  <1>1. Vivo(p)
    BY EnCpuVivo DEF EnAcceso
  <1>2. PICK t \in Seq(Entrada) : t = tlb_entries
    BY DEF CpuInv
  <1>3. PICK pg : pg = num_pagina(acceso.dir)
    OBVIOUS
  <1>4. CASE TlbHit(tlb_entries, p, n)
    <2>1. PICK i \in DOMAIN t : Es(t[i], p, pg) /\ MarcoEnTlb(t, p, pg) = t[i].num_marco
      BY <1>2, <1>3, <1>4, TlbGetLema
    <2>2. t[i].pid = p /\ t[i].num_pagina = pg
      BY <2>1 DEF Es
    <2>3. pg < Len(procesos[p]) /\ t[i].num_marco = procesos[p][pg + 1]
      BY <1>1, <1>2, <2>2 DEF TlbCoherente
    <2>4. MarcoDe(p, n) = procesos[p][n + 1]
      BY <1>2, <1>3, <1>4, <2>1, <2>3 DEF MarcoDe
    <2> QED  BY <1>3, <2>3, <2>4 DEF obtener_direccion_fisica, Fisica
  <1>5. CASE ~TlbHit(tlb_entries, p, n)
    BY <1>5 DEF MarcoDe, obtener_direccion_fisica, Fisica
  <1> QED  BY <1>4, <1>5

\* The bytes at a piece are bytes.
LEMMA LeidaLema ==
  ASSUME memoria_de_usuario \in [Direccion -> Datos], NEW a \in Direccion,
         NEW tam \in Nat, (a % TAM_PAGINA) + tam <= TAM_PAGINA
  PROVE  /\ Leida(a, tam) \in Seq(Datos) /\ Len(Leida(a, tam)) = tam
         /\ \A k \in 1..tam : Leida(a, tam)[k] = memoria_de_usuario[a + k - 1]
  <1>1. \A k \in 1..tam : memoria_de_usuario[a + k - 1] \in Datos
    BY EnLaMemoria
  <1>2. Leida(a, tam) = [k \in 1..tam |-> memoria_de_usuario[a + k - 1]]
    BY DEF Leida
  <1>3. Leida(a, tam) \in [1..tam -> Datos]
    BY <1>1, <1>2
  <1>4. Leida(a, tam) \in Seq(Datos)
    BY <1>3, SeqDef
  <1>5. Len(Leida(a, tam)) = tam
    BY <1>2, <1>4, LenProperties
  <1> QED  BY <1>2, <1>4, <1>5
-----------------------------------------------------------------------------
(* What a step that leaves the CPU or the interfaces alone keeps            *)

\* The TLB is as right as the tables it was copied from.
LEMMA FielSigue ==
  ASSUME NEW t \in Seq(Entrada), Fiel(t),
         \A i \in DOMAIN t :
             /\ estado'[t[i].pid] # "nuevo"
             /\ Vivo(t[i].pid)' =>
                    /\ Vivo(t[i].pid) /\ t[i].num_pagina < Len(procesos'[t[i].pid])
                    /\ procesos'[t[i].pid][t[i].num_pagina + 1] = procesos[t[i].pid][t[i].num_pagina + 1]
  PROVE  Fiel(t)'
  BY DEF Fiel

\* The TLB stays coherent while it and the tables of its processes stay.
LEMMA TlbSigue ==
  ASSUME CpuInv, TlbCoherente, UNCHANGED tlb_entries,
         \A q \in Pid : estado[q] # "nuevo" =>
             estado'[q] # "nuevo" /\ (Vivo(q)' => procesos'[q] = procesos[q])
  PROVE  TlbCoherente' /\ \A i \in DOMAIN tlb_entries : estado'[tlb_entries[i].pid] # "nuevo"
  <1>1. PICK t \in Seq(Entrada) : t = tlb_entries
    BY DEF CpuInv
  <1>2. Fiel(t) /\ Unica(t) /\ Len(t) <= CANTIDAD_ENTRADAS_TLB
    BY <1>1, CoherenteDef
  <1>3. \A i \in DOMAIN t : t[i].pid \in Pid
    <2>1. \A i \in DOMAIN t : t[i] \in Entrada
      BY LenProperties
    <2> QED  BY <2>1 DEF Entrada
  <1>4. Fiel(t)'
    BY <1>2, <1>3, FielSigue DEF Fiel, Vivo
  <1>5. TlbCoherente'
    BY <1>1, <1>2, <1>4 DEF TlbCoherente, Fiel, Unica
  <1> QED  BY <1>1, <1>4, <1>5 DEF Fiel

\* The CPU goes on as it was.
LEMMA CpuQuieta ==
  ASSUME MarcosInv, CpuInv, AvanceInv, TlbCoherente, VigenteEnCpu,
         UNCHANGED cpu, caida' = caida \/ caida' = TRUE,
         \A p, q \in Pid : estado'[p] = "cpu" /\ estado'[q] = "cpu" => p = q,
         \A q \in Pid :
             /\ estado'[q] = "cpu" => acceso = NoExiste \/ estado[q] = "cpu"
             /\ estado[q] = "cpu" => /\ acceso = NoExiste \/ estado'[q] = "cpu"
                                     /\ procesos'[q] = procesos[q]
             /\ estado[q] # "nuevo" => /\ estado'[q] # "nuevo"
                                       /\ Vivo(q)' => procesos'[q] = procesos[q]
  PROVE  CpuInv' /\ AvanceInv' /\ TlbCoherente' /\ VigenteEnCpu'
  <1>1. UNCHANGED <<tlb_entries, num_instruccion_actual, acceso, tamanio>>
    BY DEF cpu
  <1>2. TlbCoherente' /\ \A i \in DOMAIN tlb_entries : estado'[tlb_entries[i].pid] # "nuevo"
    BY <1>1, TlbSigue
  <1>3. Paginas' = Paginas
    BY <1>1 DEF Paginas
  <1>4. \A p \in Pid : EnCpu(p)' /\ acceso # NoExiste => EnCpu(p)
    BY DEF EnCpu
  <1>5. \A p \in Pid : /\ EnAcceso(p)' => EnAcceso(p)
                       /\ Redimensiona(p)' => Redimensiona(p)
    BY <1>1, <1>4 DEF EnAcceso, Redimensiona
  <1>6. CpuInv'
    BY <1>1, <1>2, <1>3, <1>5 DEF CpuInv
  <1>7. \A p \in Pid : EnAcceso(p)' => p \in Vivos /\ procesos'[p] = procesos[p]
    <2> SUFFICES ASSUME NEW p \in Pid, EnAcceso(p)' PROVE p \in Vivos /\ procesos'[p] = procesos[p]
      OBVIOUS
    <2>1. EnCpu(p)
      BY <1>5 DEF EnAcceso
    <2> QED  BY <2>1, EnCpuVivo
  <1>8. AvanceInv'
    BY <1>1, <1>5, <1>7 DEF AvanceInv, Posicion, num_pagina
  <1>9. VigenteEnCpu'
    <2> SUFFICES ASSUME NEW p \in Pid, EnAcceso(p)'
                 PROVE  (/\ acceso.fisica # NoExiste =>
                               /\ num_pagina(acceso.dir) < Len(procesos[p])
                               /\ acceso.fisica = Fisica(p, acceso.dir)
                         /\ acceso.op \in {"stdin", "stdout"} =>
                               BloquesDe(p, acceso.buffer, acceso.inicio))'
      BY DEF VigenteEnCpu, Vivos
    <2>1. p \in Vivos /\ EnAcceso(p) /\ procesos'[p] = procesos[p]
      BY <1>5, <1>7
    <2> QED  BY <1>1, <2>1 DEF VigenteEnCpu, BloquesDe, Fisica, Posicion, num_pagina
  <1> QED  BY <1>2, <1>6, <1>8, <1>9

\* The interfaces go on as they were.
LEMMA IoQuieta ==
  ASSUME MarcosInv, IoInv, VigenteEnIo, UNCHANGED io,
         memoria_de_usuario' \in [Direccion -> Datos],
         \A q \in Pid : estado[q] \in {"io", "fin"} =>
             /\ estado'[q] = estado[q] \/ (MataEnIo /\ estado'[q] = "fin")
             /\ Vivo(q)' => procesos'[q] = procesos[q]
  PROVE  IoInv' /\ VigenteEnIo'
  <1>1. \A i \in Interfaces : io[i] # NoExiste => io[i] \in PedidoDeIo /\ io[i].pid \in Pid
    BY DEF IoInv, PedidoDeIo
  <1>2. IoInv'
    BY <1>1 DEF IoInv
  <1>3. VigenteEnIo'
    <2> SUFFICES ASSUME NEW i \in Interfaces, io[i] # NoExiste, Vivo(io[i].pid)'
                 PROVE  (\E dir \in io[i].inicio..(Len(procesos[io[i].pid]) * TAM_PAGINA) :
                            /\ BloquesDe(io[i].pid, io[i].bloques, dir)
                            /\ io[i].op = "stdout" => dir = io[i].inicio + Len(io[i].buffer))'
      BY DEF VigenteEnIo
    <2>1. PICK q \in Pid : q = io[i].pid
      BY <1>1
    <2>2. procesos'[q] = procesos[q]
      BY <2>1 DEF IoInv
    <2>3. Vivo(q)
      BY <2>1, <2>2 DEF Vivo
    <2>4. PICK dir \in io[i].inicio..(Len(procesos[q]) * TAM_PAGINA) :
              /\ BloquesDe(q, io[i].bloques, dir)
              /\ io[i].op = "stdout" => dir = io[i].inicio + Len(io[i].buffer)
      BY <2>1, <2>3 DEF VigenteEnIo
    <2>5. BloquesDe(q, io[i].bloques, dir)'
      BY <2>2, <2>4 DEF BloquesDe, Fisica, Posicion, num_pagina
    <2> QED  BY <2>1, <2>2, <2>4, <2>5
  <1> QED  BY <1>2, <1>3
\* The instruction is over.
LEMMA FinSigue ==
  ASSUME CpuInv, FinInstruccion,
         \A q \in Pid : /\ estado'[q] = "cpu" => estado[q] = "cpu"
                        /\ estado[q] # "nuevo" => estado'[q] # "nuevo"
  PROVE  CpuInv' /\ AvanceInv' /\ VigenteEnCpu'
  <1>1. /\ acceso' = NoExiste /\ tlb_entries' = tlb_entries
        /\ num_instruccion_actual' = num_instruccion_actual + 1
    BY DEF FinInstruccion
  <1>2. \A p \in Pid : ~EnAcceso(p)' /\ ~Redimensiona(p)'
    BY <1>1 DEF EnAcceso, Redimensiona
  <1>3. CpuInv'
    <2>1. \A i \in DOMAIN tlb_entries : tlb_entries[i].pid \in Pid
      <3>1. PICK t \in Seq(Entrada) : t = tlb_entries
        BY DEF CpuInv
      <3>2. \A i \in DOMAIN t : t[i] \in Entrada
        BY LenProperties
      <3> QED  BY <3>1, <3>2 DEF Entrada
    <2> QED  BY <1>1, <1>2, <2>1 DEF CpuInv, Acceso
  <1> QED  BY <1>2, <1>3 DEF AvanceInv, VigenteEnCpu, Vivos

-----------------------------------------------------------------------------
(* The steps                                                                *)

Resto == CpuInv /\ AvanceInv /\ IoInv /\ TlbCoherente /\ DireccionVigente

\* At the start there is nothing in the TLB, in the CPU or in the interfaces.
LEMMA RestoInicio == Init => Resto
  <1> SUFFICES ASSUME Init PROVE Resto
    OBVIOUS
  <1>1. DOMAIN tlb_entries = {} /\ tlb_entries \in Seq(Entrada) /\ Len(tlb_entries) = 0
    BY EmptySeq DEF Init
  <1>2. CpuInv
    BY <1>1 DEF CpuInv, Init, Acceso
  <1>3. \A p \in Pid : ~EnAcceso(p)
    BY DEF Init, EnAcceso, EnCpu
  <1>4. TlbCoherente
    <2>1. CANTIDAD_ENTRADAS_TLB \in Nat
      BY TlbOK
    <2> QED  BY <1>1, <2>1 DEF TlbCoherente
  <1>5. IoInv
    BY MemoriaOK DEF IoInv, Init
  <1> QED  BY <1>2, <1>3, <1>4, <1>5 DEF Resto, AvanceInv, DireccionVigente, VigenteEnCpu,
                                       VigenteEnIo, Vivos, Init

\* What the kernel does: processes come, go, get the CPU and lose it.
LEMMA KernelResto ==
  ASSUME MarcosInv, Resto,
         \/ \E p \in Pid : \/ recibir_crear_proceso(p) \/ LiberarProceso(p)
                           \/ Despachar(p) \/ Desalojar(p)
         \/ LiberarMarcos
  PROVE  Resto'
  <1>1. UNCHANGED cpu /\ UNCHANGED <<io, memoria_de_usuario, caida>>
    BY DEF recibir_crear_proceso, LiberarProceso, Despachar, Desalojar, LiberarMarcos, memoria
  <1>2. estado \in [Pid -> Estado] /\ procesos \in [Pid -> Seq(Marco) \cup {NoExiste}]
    BY DEF MarcosInv
  <1>3. \A p, q \in Pid : estado'[p] = "cpu" /\ estado'[q] = "cpu" => p = q
    BY <1>2 DEF Resto, CpuInv, recibir_crear_proceso, LiberarProceso, Despachar, Desalojar,
                LiberarMarcos
  <1>4. \A q \in Pid :
             /\ estado'[q] = "cpu" => acceso = NoExiste \/ estado[q] = "cpu"
             /\ estado[q] = "cpu" => /\ acceso = NoExiste \/ estado'[q] = "cpu"
                                     /\ procesos'[q] = procesos[q]
             /\ estado[q] # "nuevo" => /\ estado'[q] # "nuevo"
                                       /\ Vivo(q)' => procesos'[q] = procesos[q]
             /\ estado[q] \in {"io", "fin"} =>
                    /\ estado'[q] = estado[q] \/ (MataEnIo /\ estado'[q] = "fin")
                    /\ Vivo(q)' => procesos'[q] = procesos[q]
    <2> SUFFICES ASSUME NEW q \in Pid
                 PROVE  /\ estado'[q] = "cpu" => acceso = NoExiste \/ estado[q] = "cpu"
                        /\ estado[q] = "cpu" => /\ acceso = NoExiste \/ estado'[q] = "cpu"
                                                /\ procesos'[q] = procesos[q]
                        /\ estado[q] # "nuevo" => /\ estado'[q] # "nuevo"
                                                  /\ Vivo(q)' => procesos'[q] = procesos[q]
                        /\ estado[q] \in {"io", "fin"} =>
                               /\ estado'[q] = estado[q] \/ (MataEnIo /\ estado'[q] = "fin")
                               /\ Vivo(q)' => procesos'[q] = procesos[q]
      OBVIOUS
    <2>1. ASSUME NEW p \in Pid, recibir_crear_proceso(p)
          PROVE  /\ estado[p] = "nuevo" /\ estado'[p] = "listo"
                 /\ q # p => estado'[q] = estado[q] /\ procesos'[q] = procesos[q]
      BY <1>2, <2>1 DEF recibir_crear_proceso
    <2>2. ASSUME NEW p \in Pid, LiberarProceso(p)
          PROVE  /\ estado[p] \in {"listo", "termina"} \/ (MataEnIo /\ estado[p] = "io")
                 /\ estado'[p] = "fin" /\ ~Vivo(p)'
                 /\ q # p => estado'[q] = estado[q] /\ procesos'[q] = procesos[q]
      BY <1>2, <2>2 DEF LiberarProceso, Vivo
    <2>3. ASSUME NEW p \in Pid, Despachar(p) \/ Desalojar(p)
          PROVE  /\ \/ /\ estado[p] = "listo" /\ estado'[p] = "cpu"
                       /\ \A r \in Pid : estado[r] # "cpu"
                    \/ /\ acceso = NoExiste /\ estado[p] = "cpu"
                       /\ estado'[p] \in {"listo", "termina"}
                 /\ q # p => estado'[q] = estado[q]
                 /\ procesos' = procesos
      BY <1>2, <2>3 DEF Despachar, Desalojar, EnCpu, memoria
    <2>4. acceso # NoExiste => \E r \in Pid : estado[r] = "cpu"
      BY DEF Resto, CpuInv
    <2>5. LiberarMarcos => estado' = estado /\ procesos' = procesos
      BY DEF LiberarMarcos
    <2> QED  BY <2>1, <2>2, <2>3, <2>4, <2>5
  <1>5. CpuInv' /\ AvanceInv' /\ TlbCoherente' /\ VigenteEnCpu'
    BY <1>1, <1>3, <1>4, CpuQuieta DEF Resto, DireccionVigente
  <1>6. IoInv' /\ VigenteEnIo'
    BY <1>1, <1>4, IoQuieta DEF Resto, DireccionVigente, IoInv
  <1> QED  BY <1>5, <1>6 DEF Resto, DireccionVigente

\* The memoria stops, or nothing happens.
LEMMA ParaResto ==
  ASSUME MarcosInv, Resto,
         \/ \E p \in Pid : PaginaInexistente(p)
         \/ \E i \in Interfaces : IoSinProceso(i)
         \/ UNCHANGED vars
  PROVE  Resto'
  <1>1. UNCHANGED <<memoria, cpu, io, estado>> /\ (caida' = caida \/ caida' = TRUE)
    BY DEF PaginaInexistente, IoSinProceso, vars
  <1>2. UNCHANGED <<procesos, memoria_de_usuario>>
    BY <1>1 DEF memoria
  <1>3. CpuInv' /\ AvanceInv' /\ TlbCoherente' /\ VigenteEnCpu'
    BY <1>1, <1>2, CpuQuieta DEF Resto, DireccionVigente, CpuInv
  <1>4. IoInv' /\ VigenteEnIo'
    BY <1>1, <1>2, IoQuieta DEF Resto, DireccionVigente, IoInv
  <1> QED  BY <1>3, <1>4 DEF Resto, DireccionVigente
\* What AvanceInv and VigenteEnCpu say of the process in the CPU.
AvanceDe(p) ==
    /\ acceso.inicio <= acceso.dir
    /\ acceso.inicio < acceso.dir => acceso.dir <= Len(procesos[p]) * TAM_PAGINA
    /\ acceso.op \in {"stdin", "stdout"} =>
           LET n == Len(acceso.buffer)
           IN /\ n = 0 => acceso.dir = acceso.inicio /\ acceso.restante > 0
              /\ n > 0 => acceso.dir = Posicion(acceso.inicio, n) + acceso.buffer[n].tamanio
              /\ acceso.restante > 0 => acceso.dir = Posicion(acceso.inicio, n + 1)
VigenteDe(p) ==
    /\ acceso.fisica # NoExiste => /\ num_pagina(acceso.dir) < Len(procesos[p])
                                   /\ acceso.fisica = Fisica(p, acceso.dir)
    /\ acceso.op \in {"stdin", "stdout"} => BloquesDe(p, acceso.buffer, acceso.inicio)

\* What the invariants say of the process in the CPU.
LEMMA DeCpu ==
  /\ AvanceInv <=> \A p \in Pid : EnAcceso(p) => AvanceDe(p)
  /\ VigenteEnCpu <=> \A p \in Vivos : EnAcceso(p) => VigenteDe(p)
  BY DEF AvanceInv, AvanceDe, VigenteEnCpu, VigenteDe

\* The instruction of the process in the CPU goes on: nobody else's matters.
LEMMA CpuSigue ==
  ASSUME MarcosInv, Resto, NEW p \in Pid, EnCpu(p),
         UNCHANGED <<procesos, estado, io, caida, num_instruccion_actual>>,
         tlb_entries' \in Seq(Entrada), TlbCoherente', acceso' \in Acceso,
         \A i \in DOMAIN tlb_entries' : estado[tlb_entries'[i].pid] # "nuevo",
         memoria_de_usuario' \in [Direccion -> Datos],
         \A i \in DOMAIN tlb_entries' :
             Redimensiona(p)' /\ tlb_entries'[i].pid = p => tlb_entries'[i].num_pagina < Paginas',
         EnAcceso(p)' => AvanceDe(p)' /\ VigenteDe(p)'
  PROVE  Resto'
  <1>1. estado[p] = "cpu"
    BY DEF EnCpu
  <1>2. \A q \in Pid : EnCpu(q)' => q = p
    BY <1>1 DEF EnCpu, Resto, CpuInv
  <1>3. \A q \in Pid : (EnAcceso(q)' => q = p) /\ (Redimensiona(q)' => q = p)
    BY <1>2 DEF EnAcceso, Redimensiona
  <1>4. CpuInv'
    BY <1>1, <1>3 DEF CpuInv, Resto
  <1>5. AvanceInv'
    BY <1>3 DEF AvanceInv, AvanceDe
  <1>6. VigenteEnCpu'
    BY <1>3 DEF VigenteEnCpu, VigenteDe, Vivos
  <1>7. IoInv' /\ VigenteEnIo'
    BY IoQuieta DEF Resto, DireccionVigente
  <1> QED  BY <1>4, <1>5, <1>6, <1>7 DEF Resto, DireccionVigente

\* An instruction that uses memory begins.
LEMMA EmpezarResto ==
  ASSUME MarcosInv, Resto, NEW p \in Pid, Accesos(p)
  PROVE  Resto'
  <1>1. PICK op \in {"leer", "escribir", "stdin", "stdout"}, tam \in 1..MaxTam :
            \E dir \in 0..(MaxTam - tam) :
                \E d \in (IF op \in {"escribir", "stdin"} THEN Datos ELSE {Cero}) :
                    Empezar(p, op, dir, tam, d)
    BY DEF Accesos
  <1>2. PICK dir \in 0..(MaxTam - tam) :
            \E d \in (IF op \in {"escribir", "stdin"} THEN Datos ELSE {Cero}) :
                Empezar(p, op, dir, tam, d)
    BY <1>1
  <1>3. PICK d \in Datos : Empezar(p, op, dir, tam, d)
    BY <1>2, MemoriaOK
  <1>4. /\ EnCpu(p)
        /\ acceso' = [op |-> op, inicio |-> dir, dir |-> dir, restante |-> tam, dato |-> d,
                      fisica |-> NoExiste, buffer |-> <<>>]
        /\ UNCHANGED <<memoria, tlb_entries, num_instruccion_actual, tamanio, io, estado, caida>>
    BY <1>3 DEF Empezar
  <1>5. UNCHANGED <<procesos, memoria_de_usuario>>
    BY <1>4 DEF memoria
  <1>6. dir \in Nat /\ tam \in Nat /\ tam > 0
    BY MemoriaOK
  <1>7. <<>> \in Seq(Datos) /\ <<>> \in Seq(BloqueFisico) /\ Len(<<>>) = 0 /\ DOMAIN <<>> = {}
    BY EmptySeq
  <1>8. acceso' \in Acceso
    BY <1>4, <1>6, <1>7, AccesoTipo DEF OpDeCpu, OpDeIo
  <1>9. TlbCoherente' /\ \A i \in DOMAIN tlb_entries : estado[tlb_entries[i].pid] # "nuevo"
    BY <1>4, <1>5, TlbSigue DEF Resto
  <1>10. ~Redimensiona(p)'
    BY <1>4 DEF Redimensiona
  <1>11. AvanceDe(p)'
    <2>1. Posicion(dir, 0 + 1) = dir
      BY DEF Posicion
    <2> QED  BY <1>4, <1>6, <1>7, <2>1 DEF AvanceDe
  <1>12. VigenteDe(p)'
    <2>1. BloquesDe(p, <<>>, dir)'
      BY <1>7 DEF BloquesDe
    <2>2. acceso'.buffer = <<>> /\ acceso'.inicio = dir /\ acceso'.fisica = NoExiste
      BY <1>4
    <2>3. BloquesDe(p, acceso.buffer, acceso.inicio)'
      BY <1>7, <2>2 DEF BloquesDe
    <2> QED  BY <2>2, <2>3 DEF VigenteDe
  <1> QED  BY <1>4, <1>5, <1>8, <1>9, <1>10, <1>11, <1>12, CpuSigue DEF Resto, CpuInv, IoInv

\* RESIZE begins, and its entries go.
LEMMA ResizeResto ==
  ASSUME MarcosInv, Resto, NEW p \in Pid, NEW tam \in 0..MaxTam, exec_resize(p, tam)
  PROVE  Resto'
  <1>1. /\ EnCpu(p) /\ acceso' = [op |-> "resize"] /\ tamanio' = tam
        /\ UNCHANGED <<memoria, num_instruccion_actual, io, estado, caida>>
        /\ tlb_entries' = remover_entradas_tlb_invalidas(tlb_entries, p, ceil_div(tam, TAM_PAGINA))
    BY DEF exec_resize
  <1>2. UNCHANGED <<procesos, memoria_de_usuario>>
    BY <1>1 DEF memoria
  <1>3. PICK t \in Seq(Entrada), n \in {ceil_div(tam, TAM_PAGINA)} :
            t = tlb_entries /\ n = ceil_div(tam, TAM_PAGINA)
    BY DEF Resto, CpuInv
  <1> DEFINE P == {i \in DOMAIN t : ~(t[i].pid = p /\ t[i].num_pagina >= n)}
  <1>4. PICK q : q = Dejar(t, P)
    OBVIOUS
  <1>5. tlb_entries' = q
    BY <1>1, <1>3, <1>4 DEF remover_entradas_tlb_invalidas
  <1>6. /\ q \in Seq(Entrada) /\ Len(q) <= Len(t) /\ Conserva(t, q)
        /\ \A i \in DOMAIN q : \E j \in P : q[i] = t[j]
    <2>1. P \in SUBSET DOMAIN t
      OBVIOUS
    <2> HIDE DEF P
    <2> QED  BY <1>4, <2>1, DejarLema
  <1>7. /\ Fiel(q) /\ Unica(q) /\ Len(q) <= CANTIDAD_ENTRADAS_TLB
    <2>1. Fiel(t) /\ Unica(t) /\ Len(t) <= CANTIDAD_ENTRADAS_TLB
      BY <1>3, CoherenteDef DEF Resto
    <2>2. Fiel(q) /\ Unica(q)
      BY <1>6, <2>1, ConservaFiel
    <2>3. Len(q) \in Nat /\ Len(t) \in Nat /\ CANTIDAD_ENTRADAS_TLB \in Nat
      BY <1>6, LenProperties, TlbOK
    <2> QED  BY <1>6, <2>1, <2>2, <2>3
  <1>8. TlbCoherente'
    BY <1>1, <1>2, <1>5, <1>7 DEF TlbCoherente, Fiel, Unica, Vivo
  <1>9. \A i \in DOMAIN q : estado[q[i].pid] # "nuevo"
    BY <1>7 DEF Fiel
  <1>10. Paginas' = n
    BY <1>1, <1>3 DEF Paginas
  <1>11. \A i \in DOMAIN q : q[i].pid = p => q[i].num_pagina < n
    <2> SUFFICES ASSUME NEW i \in DOMAIN q, q[i].pid = p PROVE q[i].num_pagina < n
      OBVIOUS
    <2>1. PICK j \in P : q[i] = t[j]
      BY <1>6
    <2>2. ~(q[i].num_pagina >= n)
      BY <2>1
    <2>3. q[i].num_pagina \in Nat
      <3>1. q[i] \in Entrada
        BY <1>6, LenProperties
      <3> QED  BY <3>1 DEF Entrada
    <2>4. n \in Nat
      <3>1. TAM_PAGINA \in Nat \ {0} /\ tam + TAM_PAGINA - 1 \in Nat
        BY MemoriaOK
      <3> QED  BY <1>3, <3>1, Division DEF ceil_div
    <2> QED  BY <2>2, <2>3, <2>4
  <1>12. acceso' \in Acceso /\ ~EnAcceso(p)'
    BY <1>1 DEF Acceso, EnAcceso
  <1> QED  BY <1>1, <1>2, <1>5, <1>6, <1>8, <1>9, <1>10, <1>11, <1>12, CpuSigue DEF Resto, IoInv
\* A translation: the TLB has what the table has, and keeps being right.
LEMMA TraducirResto ==
  ASSUME MarcosInv, Resto, NEW p \in Pid, Traducir(p)
  PROVE  Resto'
  <1>1. /\ EnAcceso(p) /\ EnCpu(p) /\ acceso # NoExiste /\ acceso.op # "resize"
        /\ \/ TlbHit(tlb_entries, p, num_pagina(acceso.dir))
           \/ num_pagina(acceso.dir) < Len(procesos[p])
        /\ ActualizarTlb(p, num_pagina(acceso.dir))
        /\ acceso' = [acceso EXCEPT !.fisica = obtener_direccion_fisica(p, acceso.dir)]
        /\ UNCHANGED <<memoria, num_instruccion_actual, tamanio, io, estado, caida>>
    BY DEF Traducir, EnAcceso
  <1>2. UNCHANGED <<procesos, memoria_de_usuario>>
    BY <1>1 DEF memoria
  <1>3. /\ acceso.op \in OpDeCpu \cup OpDeIo /\ acceso.inicio \in Nat /\ acceso.dir \in Nat
        /\ acceso.restante \in Nat /\ acceso.dato \in Datos
        /\ acceso.op \in OpDeCpu => acceso.buffer \in Seq(Datos)
        /\ acceso.op \in OpDeIo => acceso.buffer \in Seq(BloqueFisico)
        /\ acceso = [op |-> acceso.op, inicio |-> acceso.inicio, dir |-> acceso.dir,
                     restante |-> acceso.restante, dato |-> acceso.dato,
                     fisica |-> acceso.fisica, buffer |-> acceso.buffer]
    BY <1>1, AccesoLema DEF Resto
  <1>4. PICK n \in Nat, f \in {obtener_direccion_fisica(p, acceso.dir)} : n = num_pagina(acceso.dir)
    BY <1>3, PaginaDe
  <1>5. n < Len(procesos[p]) /\ f = Fisica(p, acceso.dir)
    BY <1>1, <1>4, TraduceLema DEF Resto
  <1>6. Vivo(p) /\ estado[p] = "cpu"
    BY <1>1, EnCpuVivo
  <1>7. f \in Direccion /\ procesos[p][n + 1] \in Marco
    BY <1>3, <1>4, <1>5, <1>6, FisicaLema
  <1>8. acceso' = [op |-> acceso.op, inicio |-> acceso.inicio, dir |-> acceso.dir,
                   restante |-> acceso.restante, dato |-> acceso.dato,
                   fisica |-> f, buffer |-> acceso.buffer]
    BY <1>1, <1>3, <1>4
  <1>9. acceso' \in Acceso
    BY <1>3, <1>7, <1>8, AccesoTipo
  <1>10. PICK t \in Seq(Entrada), q \in {tlb_entries'} : t = tlb_entries
    BY DEF Resto, CpuInv
  <1>11. Fiel(t) /\ Unica(t) /\ Len(t) <= CANTIDAD_ENTRADAS_TLB
    BY <1>10, CoherenteDef DEF Resto
  <1>12. q \in Seq(Entrada) /\ Fiel(q) /\ Unica(q) /\ Len(q) <= CANTIDAD_ENTRADAS_TLB
    <2>1. PICK ahora \in Nat : ahora = num_instruccion_actual
      BY DEF Resto, CpuInv
    <2>2. CASE TlbHit(t, p, n)
      <3>1. q = tlb_get(t, p, n, ahora)
        BY <1>1, <1>4, <1>10, <2>1, <2>2 DEF ActualizarTlb
      <3>2. q \in Seq(Entrada) /\ Len(q) = Len(t) /\ Conserva(t, q)
        BY <2>1, <2>2, <3>1, TlbGetLema
      <3> QED  BY <1>11, <3>2, ConservaFiel
    <2>3. CASE ~TlbHit(t, p, n)
      <3>1. PICK e : e = [pid |-> p, num_pagina |-> n, num_marco |-> procesos[p][n + 1],
                          ultimo_acceso |-> ahora]
        OBVIOUS
      <3>2. q = tlb_save(t, e)
        BY <1>1, <1>4, <1>10, <2>1, <2>3, <3>1 DEF ActualizarTlb
      <3>3. e \in Entrada /\ e.pid = p /\ e.num_pagina = n /\ e.num_marco = procesos[p][n + 1]
        BY <1>4, <1>7, <2>1, <3>1 DEF Entrada
      <3>4. /\ q \in Seq(Entrada) /\ Len(q) <= CANTIDAD_ENTRADAS_TLB
            /\ \/ q = t
               \/ \E r \in Seq(Entrada) : Conserva(t, r) /\ q = Append(r, e)
        BY <1>11, <3>2, <3>3, TlbSaveLema
      <3>5. ASSUME NEW r \in Seq(Entrada), Conserva(t, r), q = Append(r, e)
            PROVE  Fiel(q) /\ Unica(q)
        <4>1. Fiel(r) /\ Unica(r) /\ ~TlbHit(r, e.pid, e.num_pagina)
          BY <1>11, <2>3, <3>3, <3>5, ConservaFiel
        <4>2. estado[e.pid] # "nuevo"
          BY <1>6, <3>3
        <4> QED  BY <1>5, <3>3, <3>5, <4>1, <4>2, AppendFiel
      <3> QED  BY <1>11, <3>4, <3>5
    <2> QED  BY <2>2, <2>3
  <1>13. TlbCoherente'
    BY <1>2, <1>10, <1>12 DEF TlbCoherente, Fiel, Unica, Vivo
  <1>14. \A i \in DOMAIN q : estado[q[i].pid] # "nuevo"
    BY <1>12 DEF Fiel
  <1>15. ~Redimensiona(p)'
    BY <1>1, <1>8 DEF Redimensiona
  <1>16. AvanceDe(p)'
    <2>1. AvanceDe(p)
      BY <1>1, DeCpu DEF Resto
    <2> QED  BY <1>2, <1>8, <2>1 DEF AvanceDe, Posicion, num_pagina
  <1>17. VigenteDe(p)'
    <2>1. VigenteDe(p)
      BY <1>1, <1>6, DeCpu DEF Resto, DireccionVigente, Vivos
    <2>2. Fisica(p, acceso.dir)' = Fisica(p, acceso.dir)
      BY <1>2, <1>8 DEF Fisica, num_pagina
    <2>3. acceso.op \in {"stdin", "stdout"} => BloquesDe(p, acceso.buffer, acceso.inicio)'
      BY <1>2, <1>8, <2>1 DEF VigenteDe, BloquesDe, Fisica, Posicion, num_pagina
    <2> QED  BY <1>2, <1>4, <1>5, <1>8, <2>2, <2>3 DEF VigenteDe, num_pagina
  <1> QED  BY <1>1, <1>2, <1>9, <1>10, <1>12, <1>13, <1>14, <1>15, <1>16, <1>17, CpuSigue
           DEF Resto, IoInv

\* The page of each piece is the next one.
LEMMA PosicionLema ==
  ASSUME NEW dir \in Nat, NEW k \in Nat, k >= 1
  PROVE  /\ Posicion(dir, k) \in Nat /\ num_pagina(Posicion(dir, k)) = num_pagina(dir) + k - 1
         /\ Posicion(dir, 1) = dir
         /\ Posicion(dir, k + 1) = (num_pagina(dir) + k) * TAM_PAGINA
  <1>1. num_pagina(dir) \in Nat /\ TAM_PAGINA \in Nat /\ TAM_PAGINA >= 1
    BY PaginaDe
  <1>2. Posicion(dir, 1) = dir
    BY DEF Posicion
  <1>3. Posicion(dir, k + 1) = (num_pagina(dir) + k) * TAM_PAGINA
    <2>1. k + 1 # 1 /\ num_pagina(dir) + (k + 1) - 1 = num_pagina(dir) + k
      BY <1>1
    <2> QED  BY <2>1 DEF Posicion
  <1>4. CASE k = 1
    BY <1>1, <1>2, <1>3, <1>4
  <1>5. CASE k # 1
    <2>1. PICK n \in Nat : n = num_pagina(dir) + k - 1
      BY <1>1
    <2>2. Posicion(dir, k) = n * TAM_PAGINA + 0 /\ 0 \in 0..(TAM_PAGINA - 1)
      <3>1. n * TAM_PAGINA \in Nat
        BY <1>1
      <3> QED  BY <1>1, <1>5, <2>1, <3>1 DEF Posicion
    <2>3. PICK z \in 0..(TAM_PAGINA - 1) : z = 0
      BY <2>2
    <2>4. n * TAM_PAGINA + z \in Nat /\ num_pagina(n * TAM_PAGINA + z) = n
      BY DireccionDe
    <2> QED  BY <1>3, <2>1, <2>2, <2>3, <2>4, <1>2
  <1> QED  BY <1>2, <1>3, <1>4, <1>5

\* A piece that leaves something for later ends with its page.
LEMMA FinDePagina ==
  ASSUME NEW dir \in Nat, NEW tam \in Nat, (dir % TAM_PAGINA) + tam = TAM_PAGINA
  PROVE  dir + tam = (num_pagina(dir) + 1) * TAM_PAGINA
  <1>1. PICK n \in Nat, r \in 0..(TAM_PAGINA - 1) :
            /\ n = num_pagina(dir) /\ r = dir % TAM_PAGINA /\ n * TAM_PAGINA \in Nat
            /\ dir = n * TAM_PAGINA + r /\ TAM_PAGINA \in Nat
    BY PaginaDe
  <1>2. (n + 1) * TAM_PAGINA = n * TAM_PAGINA + TAM_PAGINA
    BY <1>1
  <1>3. dir + tam = n * TAM_PAGINA + TAM_PAGINA
    BY <1>1
  <1> QED  BY <1>1, <1>2, <1>3
\* What is known when the CPU uses the address it translated.
LEMMA PedidoLema ==
  ASSUME MarcosInv, Resto, NEW p \in Pid, Pedido(p)
  PROVE  /\ EnAcceso(p) /\ EnCpu(p) /\ acceso # NoExiste /\ acceso.op # "resize"
         /\ Vivo(p) /\ p \in Vivos /\ estado[p] = "cpu"
         /\ AvanceDe(p) /\ VigenteDe(p)
         /\ num_pagina(acceso.dir) < Len(procesos[p])
         /\ acceso.fisica = Fisica(p, acceso.dir)
         /\ acceso.fisica \in Direccion /\ acceso.fisica % TAM_PAGINA = acceso.dir % TAM_PAGINA
         /\ Pieza \in 1..TAM_PAGINA /\ Pieza \in Nat /\ Pieza <= acceso.restante
         /\ (acceso.dir % TAM_PAGINA) + Pieza <= TAM_PAGINA
         /\ Pieza < acceso.restante => (acceso.dir % TAM_PAGINA) + Pieza = TAM_PAGINA
         /\ TAM_PAGINA \in Nat
         /\ acceso.dir + Pieza <= Len(procesos[p]) * TAM_PAGINA
         /\ Len(procesos[p]) * TAM_PAGINA \in Nat
  <1>1. EnAcceso(p) /\ EnCpu(p) /\ acceso # NoExiste /\ acceso.op # "resize"
    BY DEF Pedido, EnAcceso
  <1>2. Vivo(p) /\ p \in Vivos /\ estado[p] = "cpu"
    BY <1>1, EnCpuVivo
  <1>3. AvanceDe(p) /\ VigenteDe(p)
    BY <1>1, <1>2, DeCpu DEF Resto, DireccionVigente
  <1>4. num_pagina(acceso.dir) < Len(procesos[p]) /\ acceso.fisica = Fisica(p, acceso.dir)
    BY <1>3 DEF VigenteDe, Pedido
  <1>5. PICK dir \in Nat, restante \in Nat :
            dir = acceso.dir /\ restante = acceso.restante /\ restante > 0
    BY <1>1, AccesoLema DEF Resto, Pedido
  <1>6. acceso.fisica \in Direccion /\ acceso.fisica % TAM_PAGINA = dir % TAM_PAGINA
    BY <1>2, <1>4, <1>5, FisicaLema
  <1>7. PICK pieza : pieza = Pieza
    OBVIOUS
  <1>8. /\ pieza \in 1..TAM_PAGINA /\ pieza <= restante
        /\ (dir % TAM_PAGINA) + pieza <= TAM_PAGINA
        /\ pieza < restante => (dir % TAM_PAGINA) + pieza = TAM_PAGINA
    BY <1>5, <1>7, PiezaLema
  <1>9. TAM_PAGINA \in Nat /\ pieza \in Nat
    BY <1>8, PaginaDe, MemoriaOK
  <1>10. PICK largo \in Nat : largo = Len(procesos[p])
    BY <1>2, TablaDe
  <1>11. dir + pieza <= largo * TAM_PAGINA /\ largo * TAM_PAGINA \in Nat
    BY <1>4, <1>5, <1>8, <1>9, <1>10, PaginaMenor
  <1> QED  BY <1>1, <1>2, <1>3, <1>4, <1>5, <1>6, <1>7, <1>8, <1>9, <1>10, <1>11

\* What Avanzar leaves of the access.
LEMMA AvanzarLema ==
  ASSUME MarcosInv, Resto, NEW p \in Pid, Pedido(p), NEW buffer, Avanzar(buffer)
  PROVE  acceso' = [op |-> acceso.op, inicio |-> acceso.inicio, dir |-> acceso.dir + Pieza,
                    restante |-> acceso.restante - Pieza, dato |-> acceso.dato,
                    fisica |-> NoExiste, buffer |-> buffer]
  <1>1. PICK op \in {acceso.op}, inicio \in {acceso.inicio}, dir \in {acceso.dir},
             restante \in {acceso.restante}, viejo \in {acceso.buffer}, pieza \in {Pieza} :
            /\ op = acceso.op /\ inicio = acceso.inicio /\ dir = acceso.dir
            /\ restante = acceso.restante /\ viejo = acceso.buffer /\ pieza = Pieza
    OBVIOUS
  <1>2. acceso # NoExiste /\ acceso.op # "resize"
    BY PedidoLema
  <1>3. acceso' = [op |-> op, inicio |-> inicio, dir |-> dir + pieza,
                   restante |-> restante - pieza, dato |-> acceso.dato,
                   fisica |-> NoExiste, buffer |-> buffer]
    <2>1. PICK r \in {acceso}, dato \in {acceso.dato}, fisica \in {acceso.fisica} :
              r = [op |-> op, inicio |-> inicio, dir |-> dir, restante |-> restante,
                   dato |-> dato, fisica |-> fisica, buffer |-> viejo]
      BY <1>1, <1>2, AccesoLema DEF Resto
    <2>2. acceso' = [r EXCEPT !.dir = dir + pieza, !.restante = restante - pieza,
                              !.fisica = NoExiste, !.buffer = buffer]
      BY <1>1, <2>1 DEF Avanzar
    <2>3. \A d, q, z, w : [r EXCEPT !.dir = d, !.restante = q, !.fisica = z, !.buffer = w]
            = [op |-> op, inicio |-> inicio, dir |-> d, restante |-> q,
               dato |-> dato, fisica |-> z, buffer |-> w]
      <3> SUFFICES ASSUME NEW d, NEW q, NEW z, NEW w
                   PROVE  [r EXCEPT !.dir = d, !.restante = q, !.fisica = z, !.buffer = w]
                            = [op |-> op, inicio |-> inicio, dir |-> d, restante |-> q,
                               dato |-> dato, fisica |-> z, buffer |-> w]
        OBVIOUS
      <3>1. PICK f : f = [r EXCEPT !.dir = d]
        OBVIOUS
      <3>2. f = [op |-> op, inicio |-> inicio, dir |-> d, restante |-> restante,
                 dato |-> dato, fisica |-> fisica, buffer |-> viejo]
        BY ONLY <2>1, <3>1
      <3>3. PICK g : g = [f EXCEPT !.restante = q]
        OBVIOUS
      <3>4. g = [op |-> op, inicio |-> inicio, dir |-> d, restante |-> q,
                 dato |-> dato, fisica |-> fisica, buffer |-> viejo]
        BY ONLY <3>2, <3>3
      <3>5. PICK h : h = [g EXCEPT !.fisica = z]
        OBVIOUS
      <3>6. h = [op |-> op, inicio |-> inicio, dir |-> d, restante |-> q,
                 dato |-> dato, fisica |-> z, buffer |-> viejo]
        BY ONLY <3>4, <3>5
      <3>7. [h EXCEPT !.buffer = w] = [op |-> op, inicio |-> inicio, dir |-> d, restante |-> q,
                                       dato |-> dato, fisica |-> z, buffer |-> w]
        BY ONLY <3>6
      <3>8. [r EXCEPT !.dir = d, !.restante = q, !.fisica = z, !.buffer = w]
              = [h EXCEPT !.buffer = w]
        BY ONLY <3>1, <3>3, <3>5
      <3> QED  BY ONLY <3>7, <3>8
    <2>4. acceso' = [op |-> op, inicio |-> inicio, dir |-> dir + pieza, restante |-> restante - pieza,
                     dato |-> dato, fisica |-> NoExiste, buffer |-> buffer]
      BY ONLY <2>2, <2>3
    <2> QED  BY <2>1, <2>4
  <1> QED  BY <1>1, <1>3

\* One piece more: the next begins where it ends.
LEMMA AvanzarResto ==
  ASSUME MarcosInv, Resto, NEW p \in Pid, Pedido(p), NEW buffer, Avanzar(buffer),
         acceso.op \in OpDeCpu => buffer \in Seq(Datos),
         acceso.op \in OpDeIo =>
             buffer = Append(acceso.buffer, [base |-> acceso.fisica, tamanio |-> Pieza]),
         memoria_de_usuario' \in [Direccion -> Datos],
         UNCHANGED <<procesos, tlb_entries, num_instruccion_actual, tamanio, io, estado, caida>>
  PROVE  Resto'
  <1>1. PICK op \in OpDeCpu \cup OpDeIo, inicio \in Nat, dir \in Nat, restante \in Nat,
             viejo \in {acceso.buffer}, pieza \in Nat :
            /\ op = acceso.op /\ inicio = acceso.inicio /\ dir = acceso.dir
            /\ restante = acceso.restante /\ restante > 0
            /\ viejo = acceso.buffer /\ pieza = Pieza /\ acceso.dato \in Datos
            /\ op \in OpDeIo => viejo \in Seq(BloqueFisico)
    BY PedidoLema, AccesoLema DEF Resto, Pedido
  <1>2. PICK largo \in Nat :
            /\ largo = Len(procesos[p]) /\ Vivo(p) /\ p \in Vivos
            /\ num_pagina(dir) < largo /\ acceso.fisica = Fisica(p, dir)
            /\ acceso.fisica \in Direccion /\ acceso.fisica % TAM_PAGINA = dir % TAM_PAGINA
            /\ pieza \in 1..TAM_PAGINA /\ pieza >= 1 /\ pieza <= restante
            /\ (dir % TAM_PAGINA) + pieza <= TAM_PAGINA
            /\ pieza < restante => (dir % TAM_PAGINA) + pieza = TAM_PAGINA
            /\ dir + pieza <= largo * TAM_PAGINA /\ largo * TAM_PAGINA \in Nat
    <2>1. PICK largo \in Nat : largo = Len(procesos[p])
      BY PedidoLema, TablaDe
    <2> QED  BY <1>1, <2>1, PedidoLema
  <1>3. AvanceDe(p) /\ VigenteDe(p) /\ EnCpu(p) /\ acceso # NoExiste /\ acceso.op # "resize"
    BY PedidoLema
  <1>4. acceso' = [op |-> op, inicio |-> inicio, dir |-> dir + pieza,
                   restante |-> restante - pieza, dato |-> acceso.dato,
                   fisica |-> NoExiste, buffer |-> buffer]
    BY <1>1, AvanzarLema
  <1>5. PICK b \in {[base |-> acceso.fisica, tamanio |-> pieza]}, n \in {Len(viejo)} :
            b.base = acceso.fisica /\ b.tamanio = pieza /\ n = Len(viejo)
    OBVIOUS
  <1>6. ASSUME op \in OpDeIo
        PROVE  /\ buffer \in Seq(BloqueFisico) /\ n \in Nat /\ Len(buffer) = n + 1
               /\ DOMAIN viejo = 1..n /\ DOMAIN buffer = 1..(n + 1)
               /\ \A k \in 1..n : buffer[k] = viejo[k]
               /\ buffer[n + 1] = b
    <2>1. buffer = Append(viejo, b) /\ viejo \in Seq(BloqueFisico)
      BY <1>1, <1>5, <1>6
    <2>2. b \in BloqueFisico
      BY <1>2, <1>5 DEF BloqueFisico
    <2>3. /\ buffer \in Seq(BloqueFisico) /\ Len(buffer) = n + 1
          /\ \A k \in 1..n : buffer[k] = viejo[k]
          /\ buffer[n + 1] = b
      BY <1>5, <2>1, <2>2, AppendProperties
    <2> QED  BY <1>5, <2>1, <2>3, LenProperties
  <1>7. restante - pieza \in Nat /\ dir + pieza \in Nat
    BY <1>2
  <1>8. acceso' \in Acceso
    <2>1. op \in OpDeCpu => buffer \in Seq(Datos)
      BY <1>1
    <2> QED  BY <1>1, <1>4, <1>6, <1>7, <2>1, AccesoTipo
  <1>9. TlbCoherente' /\ \A i \in DOMAIN tlb_entries : estado[tlb_entries[i].pid] # "nuevo"
    BY TlbSigue DEF Resto
  <1>10. ~Redimensiona(p)'
    BY <1>4 DEF Redimensiona, OpDeCpu, OpDeIo
  <1>11. ASSUME op \in OpDeIo PROVE dir = Posicion(inicio, n + 1)
    BY <1>1, <1>3, <1>5, <1>11 DEF AvanceDe, OpDeIo
  <1>12. ASSUME op \in OpDeIo, restante - pieza > 0
         PROVE  dir + pieza = Posicion(inicio, (n + 1) + 1)
    <2>1. dir + pieza = (num_pagina(dir) + 1) * TAM_PAGINA
      <3>1. pieza < restante
        BY <1>7, <1>12
      <3> QED  BY <1>2, <3>1, FinDePagina
    <2>2. PICK m \in Nat : m = n + 1
      BY <1>6, <1>12
    <2>3. num_pagina(dir) = num_pagina(inicio) + m - 1 /\ dir = Posicion(inicio, m)
      <3>1. m >= 1
        BY <1>6, <1>12, <2>2
      <3> QED  BY <1>11, <1>12, <2>2, <3>1, PosicionLema
    <2>4. Posicion(inicio, m + 1) = (num_pagina(inicio) + m) * TAM_PAGINA
      <3>1. m >= 1
        BY <1>6, <1>12, <2>2
      <3> QED  BY <3>1, PosicionLema
    <2>5. num_pagina(dir) + 1 = num_pagina(inicio) + m
      <3>1. num_pagina(inicio) \in Nat
        BY PaginaDe
      <3> QED  BY <2>3, <3>1
    <2> QED  BY <2>1, <2>2, <2>4, <2>5
  <1>13. AvanceDe(p)'
    <2>1. inicio <= dir + pieza
      <3>1. inicio <= dir
        BY <1>1, <1>3 DEF AvanceDe
      <3> QED  BY <3>1
    <2>2. op \in OpDeIo =>
             /\ Len(buffer) = n + 1 /\ n \in Nat
             /\ dir + pieza = Posicion(inicio, n + 1) + buffer[n + 1].tamanio
             /\ restante - pieza > 0 => dir + pieza = Posicion(inicio, (n + 1) + 1)
      BY <1>5, <1>6, <1>11, <1>12
    <2>3. /\ acceso'.op = op /\ acceso'.inicio = inicio /\ acceso'.dir = dir + pieza
          /\ acceso'.restante = restante - pieza /\ acceso'.buffer = buffer
      BY <1>4
    <2>4. acceso'.op \in {"stdin", "stdout"} =>
             /\ ~(Len(buffer) = 0)
             /\ acceso'.dir = Posicion(inicio, Len(buffer)) + buffer[Len(buffer)].tamanio
             /\ acceso'.restante > 0 => acceso'.dir = Posicion(inicio, Len(buffer) + 1)
      BY <2>2, <2>3 DEF OpDeIo
    <2>5. acceso'.dir <= Len(procesos'[p]) * TAM_PAGINA
      BY <1>2, <2>3
    <2> QED  BY <2>1, <2>3, <2>4, <2>5 DEF AvanceDe, Posicion, num_pagina
  <1>14. VigenteDe(p)'
    <2>1. acceso'.fisica = NoExiste
      BY <1>4
    <2>2. ASSUME op \in OpDeIo PROVE BloquesDe(p, buffer, inicio)'
      <3>1. BloquesDe(p, viejo, inicio)
        BY <1>1, <1>3, <2>2 DEF VigenteDe, OpDeIo
      <3>2. n > 0 => dir = Posicion(inicio, n) + viejo[n].tamanio
        BY <1>1, <1>3, <1>5, <2>2 DEF AvanceDe, OpDeIo
      <3>3. ASSUME NEW k \in 1..(n + 1), NEW d, d = Posicion(inicio, k)
            PROVE  /\ num_pagina(d) < largo /\ buffer[k].base = Fisica(p, d)
                   /\ (d % TAM_PAGINA) + buffer[k].tamanio <= TAM_PAGINA
                   /\ k < n + 1 => d + buffer[k].tamanio = Posicion(inicio, k + 1)
        <4>1. n \in Nat
          BY <1>6, <2>2
        <4>2. CASE k = n + 1
          <5>1. d = dir /\ buffer[k] = b
            BY <1>6, <1>11, <2>2, <3>3, <4>2
          <5> QED  BY <1>2, <1>5, <4>1, <4>2, <5>1
        <4>3. CASE k # n + 1
          <5>1. k \in 1..n /\ k \in DOMAIN viejo /\ buffer[k] = viejo[k]
            BY <1>6, <2>2, <4>1, <4>3
          <5>2. /\ num_pagina(d) < largo /\ viejo[k].base = Fisica(p, d)
                /\ (d % TAM_PAGINA) + viejo[k].tamanio <= TAM_PAGINA
                /\ k < n => d + viejo[k].tamanio = Posicion(inicio, k + 1)
            BY <1>2, <1>5, <3>1, <3>3, <5>1 DEF BloquesDe
          <5>3. k = n => d + viejo[k].tamanio = Posicion(inicio, k + 1)
            BY <1>11, <2>2, <3>2, <3>3, <4>1, <5>1
          <5> QED  BY <4>1, <5>1, <5>2, <5>3
        <4> QED  BY <4>2, <4>3
      <3>4. Len(buffer) = n + 1 /\ DOMAIN buffer = 1..(n + 1)
        BY <1>6, <2>2
      <3>5. BloquesDe(p, buffer, inicio)
        BY <1>2, <3>3, <3>4 DEF BloquesDe
      <3> QED  BY <3>5 DEF BloquesDe, Fisica, Posicion, num_pagina
    <2>3. op \in OpDeIo => BloquesDe(p, acceso.buffer, acceso.inicio)'
      BY <1>4, <2>2 DEF BloquesDe, Fisica, Posicion, num_pagina
    <2> QED  BY <1>4, <2>1, <2>3 DEF VigenteDe, OpDeIo
  <1> QED  BY <1>3, <1>8, <1>9, <1>10, <1>13, <1>14, CpuSigue DEF Resto, CpuInv
\* Reading a piece, writing it, or taking its address for an interface.
LEMMA PiezaResto ==
  ASSUME MarcosInv, Resto, NEW p \in Pid,
         leer_una_pagina(p) \/ escribir_una_pagina(p) \/ AgregarBloque(p)
  PROVE  Resto'
  <1>1. /\ Pedido(p)
        /\ UNCHANGED <<procesos, tlb_entries, num_instruccion_actual, tamanio, io, estado, caida>>
    BY DEF leer_una_pagina, escribir_una_pagina, AgregarBloque, memoria
  <1>2. memoria_de_usuario \in [Direccion -> Datos]
    BY DEF Resto, IoInv
  <1>3. acceso # NoExiste /\ acceso.op # "resize"
    BY <1>1, PedidoLema
  <1>4. CASE leer_una_pagina(p)
    <2>1. /\ acceso.op = "leer" /\ Avanzar(acceso.buffer \o Leida(acceso.fisica, Pieza))
          /\ memoria_de_usuario' = memoria_de_usuario
      BY <1>4 DEF leer_una_pagina, memoria
    <2>2. PICK b \in Seq(Datos), l \in Seq(Datos) :
              b = acceso.buffer /\ l = Leida(acceso.fisica, Pieza)
      <3>1. acceso.buffer \in Seq(Datos)
        BY <1>3, <2>1, AccesoLema DEF Resto, OpDeCpu
      <3>2. PICK a \in Direccion, tam \in Nat :
                a = acceso.fisica /\ tam = Pieza /\ (a % TAM_PAGINA) + tam <= TAM_PAGINA
        BY <1>1, PedidoLema
      <3>3. Leida(a, tam) \in Seq(Datos)
        BY <1>2, <3>2, LeidaLema
      <3> QED  BY <3>1, <3>2, <3>3
    <2>3. b \o l \in Seq(Datos)
      BY ConcatProperties
    <2> QED  BY <1>1, <1>2, <2>1, <2>2, <2>3, AvanzarResto DEF OpDeIo
  <1>5. CASE escribir_una_pagina(p)
    <2>1. /\ acceso.op = "escribir" /\ Avanzar(<<>>)
          /\ memoria_de_usuario' = Escrita(acceso.fisica, Pieza, acceso.dato)
      BY <1>5 DEF escribir_una_pagina
    <2>2. acceso.dato \in Datos
      BY <1>3, AccesoLema DEF Resto
    <2>3. memoria_de_usuario' \in [Direccion -> Datos]
      BY <1>2, <2>1, <2>2 DEF Escrita
    <2>4. <<>> \in Seq(Datos)
      BY EmptySeq
    <2> QED  BY <1>1, <2>1, <2>3, <2>4, AvanzarResto DEF OpDeIo
  <1>6. CASE AgregarBloque(p)
    <2>1. /\ acceso.op \in {"stdin", "stdout"} /\ memoria_de_usuario' = memoria_de_usuario
          /\ Avanzar(Append(acceso.buffer, [base |-> acceso.fisica, tamanio |-> Pieza]))
      BY <1>6 DEF AgregarBloque, memoria
    <2> QED  BY <1>1, <1>2, <2>1, AvanzarResto DEF OpDeCpu
  <1> QED  BY <1>4, <1>5, <1>6

\* The instruction ends without touching any table.
LEMMA TerminarResto ==
  ASSUME MarcosInv, Resto, NEW p \in Pid, TerminarAcceso(p) \/ SinMemoria(p)
  PROVE  Resto'
  <1>1. /\ FinInstruccion /\ EnCpu(p) /\ UNCHANGED <<memoria, io, caida>>
        /\ estado' = estado \/ estado' = [estado EXCEPT ![p] = "termina"]
    BY DEF TerminarAcceso, SinMemoria, Completa, EnAcceso, Redimensiona
  <1>2. /\ UNCHANGED <<procesos, memoria_de_usuario, tlb_entries>>
        /\ estado[p] = "cpu" /\ estado \in [Pid -> Estado]
    BY <1>1 DEF memoria, FinInstruccion, EnCpu, MarcosInv
  <1>3. \A q \in Pid : /\ estado'[q] = estado[q]
                          \/ (q = p /\ estado[q] = "cpu" /\ estado'[q] = "termina")
    BY <1>1, <1>2
  <1>4. CpuInv' /\ AvanceInv' /\ VigenteEnCpu'
    BY <1>1, <1>3, FinSigue DEF Resto
  <1>5. TlbCoherente'
    BY <1>2, <1>3, TlbSigue DEF Resto
  <1>6. IoInv' /\ VigenteEnIo'
    BY <1>1, <1>2, <1>3, IoQuieta DEF Resto, DireccionVigente, IoInv
  <1> QED  BY <1>4, <1>5, <1>6 DEF Resto, DireccionVigente

\* A table that grows or shrinks keeps its first pages, and RESIZE left no entry of the
\* others in the TLB.
LEMMA RedimensionaResto ==
  ASSUME MarcosInv, Resto, NEW p \in Pid, Redimensiona(p), FinInstruccion,
         NEW t, procesos' = [procesos EXCEPT ![p] = t], t # NoExiste,
         \A n \in Nat : n < Paginas /\ n < Len(procesos[p]) =>
             n < Len(t) /\ t[n + 1] = procesos[p][n + 1],
         UNCHANGED <<memoria_de_usuario, io, estado, caida>>
  PROVE  Resto'
  <1>1. estado[p] = "cpu" /\ Vivo(p)
    BY EnCpuVivo DEF Redimensiona
  <1>2. procesos'[p] = t /\ \A q \in Pid : q # p => procesos'[q] = procesos[q]
    BY DEF MarcosInv
  <1>3. CpuInv' /\ AvanceInv' /\ VigenteEnCpu'
    BY FinSigue DEF Resto
  <1>4. IoInv' /\ VigenteEnIo'
    BY <1>1, <1>2, IoQuieta DEF Resto, DireccionVigente, IoInv
  <1>5. TlbCoherente'
    <2>1. PICK e \in Seq(Entrada) : e = tlb_entries
      BY DEF Resto, CpuInv
    <2>2. Fiel(e) /\ Unica(e) /\ Len(e) <= CANTIDAD_ENTRADAS_TLB
      BY <2>1, CoherenteDef DEF Resto
    <2>3. \A i \in DOMAIN e : e[i].pid \in Pid /\ e[i].num_pagina \in Nat
      <3>1. \A i \in DOMAIN e : e[i] \in Entrada
        BY LenProperties
      <3> QED  BY <3>1 DEF Entrada
    <2>4. Fiel(e)'
      <3> SUFFICES ASSUME NEW i \in DOMAIN e
                   PROVE  /\ estado'[e[i].pid] # "nuevo"
                          /\ Vivo(e[i].pid)' =>
                                /\ Vivo(e[i].pid) /\ e[i].num_pagina < Len(procesos'[e[i].pid])
                                /\ procesos'[e[i].pid][e[i].num_pagina + 1]
                                     = procesos[e[i].pid][e[i].num_pagina + 1]
        BY <2>2, FielSigue
      <3>1. PICK q \in Pid, n \in Nat : q = e[i].pid /\ n = e[i].num_pagina
        BY <2>3
      <3>2. /\ estado[q] # "nuevo"
            /\ Vivo(q) => n < Len(procesos[q])
        BY <2>2, <3>1 DEF Fiel
      <3>3. CASE q # p
        BY <1>2, <3>1, <3>2, <3>3 DEF Vivo
      <3>4. CASE q = p
        <4>1. n < Paginas
          BY <2>1, <3>1, <3>4 DEF Resto, CpuInv
        <4>2. n < Len(t) /\ t[n + 1] = procesos[p][n + 1]
          BY <1>1, <3>2, <3>4, <4>1
        <4> QED  BY <1>1, <1>2, <3>1, <3>2, <3>4, <4>2
      <3> QED  BY <3>3, <3>4
    <2>5. tlb_entries' = e
      BY <2>1 DEF FinInstruccion
    <2> QED  BY <2>2, <2>4, <2>5 DEF TlbCoherente, Fiel, Unica
  <1> QED  BY <1>3, <1>4, <1>5 DEF Resto, DireccionVigente

\* The pages there were stay, and those that come are free frames.
LEMMA AmpliarTabla ==
  ASSUME MarcosInv, NEW p \in Pid, ampliar_proceso(p)
  PROVE  \E u \in Seq(Marco) :
             /\ procesos' = [procesos EXCEPT ![p] = u]
             /\ \A k \in Nat : k < Len(procesos[p]) =>
                    k < Len(u) /\ u[k + 1] = procesos[p][k + 1]
  <1>1. Redimensiona(p)
    BY DEF ampliar_proceso
  <1>2. Vivo(p)
    BY <1>1, EnCpuVivo DEF Redimensiona
  <1>3. PICK t \in Seq(Marco) : t = procesos[p] /\ Len(t) \in Nat
    BY <1>2, TablaDe
  <1>4. PICK f \in Nat : f = Faltan(p)
    <2>1. Paginas \in Nat
      BY PaginasLema DEF MarcosInv
    <2>2. PICK n \in Nat, g \in {Faltan(p)} : g = Faltan(p) /\ n = Paginas
      BY <2>1
    <2>3. g = n - Len(t) /\ g > 0
      BY <1>3, <2>2 DEF Faltan, ampliar_proceso
    <2>4. g \in Nat
      BY <1>3, <2>3
    <2> QED  BY <2>2, <2>4
  <1>5. PICK marcos \in [1..f -> Libres] : procesos' = [procesos EXCEPT ![p] = t \o marcos]
    BY <1>3, <1>4 DEF ampliar_proceso
  <1>6. marcos \in Seq(Marco)
    <2>1. marcos \in [1..f -> Marco]
      BY <1>5 DEF Libres
    <2> QED  BY <2>1, SeqDef
  <1>7. PICK u : u = t \o marcos
    OBVIOUS
  <1>8. /\ u \in Seq(Marco) /\ Len(u) = Len(t) + Len(marcos) /\ Len(marcos) \in Nat
        /\ \A i \in 1..Len(t) : u[i] = t[i]
    <2>1. /\ u \in Seq(Marco) /\ Len(u) = Len(t) + Len(marcos) /\ Len(marcos) \in Nat
          /\ \A i \in 1..(Len(t) + Len(marcos)) : u[i] = IF i <= Len(t) THEN t[i] ELSE marcos[i - Len(t)]
      BY <1>6, <1>7, ConcatProperties, LenProperties
    <2> QED  BY <1>3, <2>1
  <1>9. ASSUME NEW k \in Nat, k < Len(procesos[p])
        PROVE  k < Len(u) /\ u[k + 1] = procesos[p][k + 1]
    <2>1. k + 1 \in 1..Len(t)
      BY <1>3, <1>9
    <2> QED  BY <1>3, <1>8, <2>1
  <1>10. procesos' = [procesos EXCEPT ![p] = u]
    BY <1>5, <1>7
  <1> QED  BY <1>8, <1>9, <1>10

\* Of the pages there were, those of the new size stay.
LEMMA ReducirTabla ==
  ASSUME MarcosInv, NEW p \in Pid, reducir_proceso(p)
  PROVE  \E u \in Seq(Marco) :
             /\ procesos' = [procesos EXCEPT ![p] = u] /\ Len(u) = Paginas
             /\ \A k \in Nat : k < Paginas => k < Len(procesos[p]) /\ u[k + 1] = procesos[p][k + 1]
  <1>1. Redimensiona(p)
    BY DEF reducir_proceso
  <1>2. Vivo(p)
    BY <1>1, EnCpuVivo DEF Redimensiona
  <1>3. PICK t \in Seq(Marco) : t = procesos[p] /\ Len(t) \in Nat
    BY <1>2, TablaDe
  <1>4. PICK n \in Nat : n = Paginas /\ n <= Len(t)
    <2>1. PICK n \in Nat : n = Paginas
      BY PaginasLema DEF MarcosInv
    <2>2. n - Len(t) <= 0
      BY <1>3, <2>1 DEF reducir_proceso, Faltan
    <2> QED  BY <1>3, <2>1, <2>2
  <1>5. PICK u : u = SubSeq(t, 1, n)
    OBVIOUS
  <1>6. /\ u \in Seq(Marco) /\ Len(u) = n /\ \A i \in 1..n : u[i] = t[i]
    <2>1. \A i \in 1..n : t[i] \in Marco
      BY <1>3, <1>4, LenProperties
    <2>2. /\ u \in Seq(Marco)
          /\ Len(u) = IF 1 <= n THEN n - 1 + 1 ELSE 0
          /\ \A i \in 1..(n - 1 + 1) : u[i] = t[1 + i - 1]
      BY <1>4, <1>5, <2>1, SubSeqProperties
    <2> QED  BY <1>4, <2>2
  <1>7. procesos' = [procesos EXCEPT ![p] = u]
    BY <1>3, <1>4, <1>5 DEF reducir_proceso
  <1>8. \A k \in Nat : k < Paginas => k < Len(procesos[p]) /\ u[k + 1] = procesos[p][k + 1]
    BY <1>3, <1>4, <1>6
  <1> QED  BY <1>4, <1>6, <1>7, <1>8

\* RESIZE, upwards.
LEMMA AmpliarResto ==
  ASSUME MarcosInv, Resto, NEW p \in Pid, ampliar_proceso(p)
  PROVE  Resto'
  <1>1. Redimensiona(p) /\ FinInstruccion /\ UNCHANGED <<memoria_de_usuario, io, estado, caida>>
    BY DEF ampliar_proceso
  <1>2. PICK u \in Seq(Marco) :
            /\ procesos' = [procesos EXCEPT ![p] = u]
            /\ \A k \in Nat : k < Len(procesos[p]) =>
                   k < Len(u) /\ u[k + 1] = procesos[p][k + 1]
    BY AmpliarTabla
  <1>3. u # NoExiste
    BY TablaLema
  <1>4. \A k \in Nat : k < Paginas /\ k < Len(procesos[p]) =>
            k < Len(u) /\ u[k + 1] = procesos[p][k + 1]
    BY <1>2
  <1>5. procesos' = [procesos EXCEPT ![p] = u]
    BY <1>2
  <1> QED  BY <1>1, <1>3, <1>4, <1>5, RedimensionaResto

\* RESIZE, downwards.
LEMMA ReducirResto ==
  ASSUME MarcosInv, Resto, NEW p \in Pid, reducir_proceso(p)
  PROVE  Resto'
  <1>1. Redimensiona(p) /\ FinInstruccion /\ UNCHANGED <<memoria_de_usuario, io, estado, caida>>
    BY DEF reducir_proceso
  <1>2. PICK u \in Seq(Marco) :
            /\ procesos' = [procesos EXCEPT ![p] = u] /\ Len(u) = Paginas
            /\ \A k \in Nat : k < Paginas => k < Len(procesos[p]) /\ u[k + 1] = procesos[p][k + 1]
    BY ReducirTabla
  <1>3. u # NoExiste
    BY TablaLema
  <1>4. \A k \in Nat : k < Paginas /\ k < Len(procesos[p]) =>
            k < Len(u) /\ u[k + 1] = procesos[p][k + 1]
    BY <1>2
  <1>5. procesos' = [procesos EXCEPT ![p] = u]
    BY <1>2
  <1> QED  BY <1>1, <1>3, <1>4, <1>5, RedimensionaResto

\* The fields of a request of an interface.
LEMMA PedidoDeIoLema ==
  ASSUME NEW r \in PedidoDeIo
  PROVE  /\ r = [pid |-> r.pid, op |-> r.op, bloques |-> r.bloques, inicio |-> r.inicio,
                 dato |-> r.dato, verificado |-> r.verificado, buffer |-> r.buffer]
         /\ r.pid \in Pid /\ r.op \in {"stdin", "stdout"} /\ r.bloques \in Seq(BloqueFisico)
         /\ r.inicio \in Nat /\ r.dato \in Datos /\ r.verificado \in BOOLEAN
         /\ r.buffer \in Seq(Datos)
  BY DEF PedidoDeIo

\* What VigenteEnIo says of an interface.
VigenteDeIo(i) ==
    \E dir \in io[i].inicio..(Len(procesos[io[i].pid]) * TAM_PAGINA) :
        /\ BloquesDe(io[i].pid, io[i].bloques, dir)
        /\ io[i].op = "stdout" => dir = io[i].inicio + Len(io[i].buffer)

\* The other interfaces go on as they were.
LEMMA OtrasSiguen ==
  ASSUME VigenteEnIo, NEW j \in Interfaces, io[j] # NoExiste, io'[j] = io[j],
         UNCHANGED procesos, Vivo(io[j].pid)'
  PROVE  VigenteDeIo(j)'
  <1>1. PICK r : r = io[j]
    OBVIOUS
  <1>2. Vivo(r.pid)
    BY <1>1 DEF Vivo
  <1>3. PICK dir \in r.inicio..(Len(procesos[r.pid]) * TAM_PAGINA) :
            /\ BloquesDe(r.pid, r.bloques, dir)
            /\ r.op = "stdout" => dir = r.inicio + Len(r.buffer)
    BY <1>1, <1>2 DEF VigenteEnIo
  <1>4. BloquesDe(r.pid, r.bloques, dir)'
    BY <1>3 DEF BloquesDe, Fisica, Posicion, num_pagina
  <1>5. io'[j] = r
    BY <1>1
  <1> QED  BY <1>3, <1>4, <1>5 DEF VigenteDeIo

\* An interface goes on with the request it has.
LEMMA IoSigue ==
  ASSUME MarcosInv, Resto, NEW i \in Interfaces, io[i] # NoExiste,
         UNCHANGED <<procesos, cpu, estado, caida>>,
         memoria_de_usuario' \in [Direccion -> Datos],
         NEW r \in PedidoDeIo, io' = [io EXCEPT ![i] = r], r.pid = io[i].pid,
         r.op = "stdin" => r.buffer = <<>>,
         Vivo(r.pid) => \E dir \in r.inicio..(Len(procesos[r.pid]) * TAM_PAGINA) :
                            /\ BloquesDe(r.pid, r.bloques, dir)
                            /\ r.op = "stdout" => dir = r.inicio + Len(r.buffer)
  PROVE  Resto'
  <1>1. io'[i] = r /\ \A j \in Interfaces : j # i => io'[j] = io[j]
    BY DEF Resto, IoInv
  <1>2. CpuInv' /\ AvanceInv' /\ TlbCoherente' /\ VigenteEnCpu'
    BY CpuQuieta DEF Resto, DireccionVigente, CpuInv
  <1>3. IoInv'
    <2>1. io' \in [Interfaces -> PedidoDeIo \cup {NoExiste}]
      BY DEF Resto, IoInv
    <2>2. \A j \in Interfaces : io'[j] # NoExiste => io[j] # NoExiste /\ io'[j].pid = io[j].pid
      BY <1>1
    <2>3. \A j \in Interfaces : io'[j] # NoExiste =>
              /\ estado'[io'[j].pid] = "io" \/ (MataEnIo /\ estado'[io'[j].pid] = "fin")
              /\ io'[j].op = "stdin" => io'[j].buffer = <<>>
      BY <1>1, <2>2 DEF Resto, IoInv
    <2>4. \A j, k \in Interfaces : (io'[j] # NoExiste /\ io'[k] # NoExiste /\ io'[k].pid = io'[j].pid) => j = k
      BY <2>2 DEF Resto, IoInv
    <2> QED  BY <2>1, <2>3, <2>4 DEF IoInv
  <1>4. VigenteEnIo'
    <2> SUFFICES ASSUME NEW j \in Interfaces, io'[j] # NoExiste, Vivo(io[j].pid)'
                 PROVE  VigenteDeIo(j)'
      BY DEF VigenteEnIo, VigenteDeIo
    <2>1. CASE j # i
      BY <1>1, <2>1, OtrasSiguen DEF Resto, DireccionVigente
    <2>2. CASE j = i
      <3>1. io'[j] = r
        BY <1>1, <2>2
      <3>2. Vivo(r.pid)
        BY <3>1 DEF Vivo
      <3>3. PICK dir \in r.inicio..(Len(procesos[r.pid]) * TAM_PAGINA) :
                /\ BloquesDe(r.pid, r.bloques, dir)
                /\ r.op = "stdout" => dir = r.inicio + Len(r.buffer)
        BY <3>2
      <3>4. BloquesDe(r.pid, r.bloques, dir)'
        BY <3>3 DEF BloquesDe, Fisica, Posicion, num_pagina
      <3> QED  BY <3>1, <3>3, <3>4 DEF VigenteDeIo
    <2> QED  BY <2>1, <2>2
  <1> QED  BY <1>2, <1>3, <1>4 DEF Resto, DireccionVigente

\* The PCB goes back, and an interface gets the blocks.
LEMMA DevolverResto ==
  ASSUME MarcosInv, Resto, NEW p \in Pid, NEW i \in Interfaces, DevolverPorIo(p, i)
  PROVE  Resto'
  <1>1. /\ EnAcceso(p) /\ EnCpu(p) /\ acceso # NoExiste /\ acceso.op # "resize"
        /\ acceso.restante = 0 /\ acceso.op \in {"stdin", "stdout"} /\ io[i] = NoExiste
        /\ estado' = [estado EXCEPT ![p] = "io"] /\ FinInstruccion /\ UNCHANGED <<memoria, caida>>
    BY DEF DevolverPorIo, Completa, EnAcceso
  <1>2. PICK r : r = [pid |-> p, op |-> acceso.op, bloques |-> acceso.buffer,
                      inicio |-> acceso.inicio, dato |-> acceso.dato,
                      verificado |-> FALSE, buffer |-> <<>>]
    OBVIOUS
  <1>3. io' = [io EXCEPT ![i] = r]
    BY <1>2 DEF DevolverPorIo
  <1>4. /\ UNCHANGED <<procesos, memoria_de_usuario, tlb_entries>>
        /\ estado[p] = "cpu" /\ estado \in [Pid -> Estado]
        /\ Vivo(p) /\ p \in Vivos
    BY <1>1, EnCpuVivo DEF memoria, FinInstruccion, MarcosInv
  <1>5. estado'[p] = "io" /\ \A q \in Pid : q # p => estado'[q] = estado[q]
    BY <1>1, <1>4
  <1>6. CpuInv' /\ AvanceInv' /\ VigenteEnCpu'
    BY <1>1, <1>5, FinSigue DEF Resto
  <1>7. TlbCoherente'
    BY <1>4, <1>5, TlbSigue DEF Resto
  <1>8. /\ acceso.inicio \in Nat /\ acceso.dato \in Datos
        /\ acceso.buffer \in Seq(BloqueFisico)
    BY <1>1, AccesoLema DEF Resto, OpDeIo
  <1>9. r \in PedidoDeIo
    <2>1. <<>> \in Seq(Datos)
      BY EmptySeq
    <2> QED  BY <1>1, <1>2, <1>8, <2>1 DEF PedidoDeIo
  <1>10. io'[i] = r /\ \A j \in Interfaces : j # i => io'[j] = io[j]
    BY <1>3 DEF Resto, IoInv
  <1>11. r.pid = p /\ r.buffer = <<>> /\ r.bloques = acceso.buffer /\ r.inicio = acceso.inicio
    BY <1>2
  <1>12. \A j \in Interfaces : io[j] # NoExiste => io[j].pid # p /\ io[j].pid \in Pid
    BY <1>4 DEF Resto, IoInv, PedidoDeIo
  <1>13. IoInv'
    <2>1. io' \in [Interfaces -> PedidoDeIo \cup {NoExiste}]
      BY <1>3, <1>9 DEF Resto, IoInv
    <2>2. \A j \in Interfaces : io'[j] # NoExiste =>
              /\ estado'[io'[j].pid] = "io" \/ (MataEnIo /\ estado'[io'[j].pid] = "fin")
              /\ io'[j].op = "stdin" => io'[j].buffer = <<>>
      BY <1>5, <1>10, <1>11, <1>12 DEF Resto, IoInv
    <2>3. \A j, k \in Interfaces : (io'[j] # NoExiste /\ io'[k] # NoExiste /\ io'[k].pid = io'[j].pid) => j = k
      BY <1>10, <1>11, <1>12 DEF Resto, IoInv
    <2>4. memoria_de_usuario' \in [Direccion -> Datos]
      BY <1>4 DEF Resto, IoInv
    <2> QED  BY <2>1, <2>2, <2>3, <2>4 DEF IoInv
  <1>14. VigenteEnIo'
    <2> SUFFICES ASSUME NEW j \in Interfaces, io'[j] # NoExiste, Vivo(io[j].pid)'
                 PROVE  VigenteDeIo(j)'
      BY DEF VigenteEnIo, VigenteDeIo
    <2>1. CASE j # i
      BY <1>4, <1>10, <2>1, OtrasSiguen DEF Resto, DireccionVigente
    <2>2. CASE j = i
      <3>1. AvanceDe(p) /\ VigenteDe(p)
        BY <1>1, <1>4, DeCpu DEF Resto, DireccionVigente
      <3>2. BloquesDe(p, r.bloques, r.inicio)
        BY <1>1, <1>11, <3>1 DEF VigenteDe
      <3>3. Len(r.bloques) # 0
        BY <1>1, <1>11, <3>1 DEF AvanceDe
      <3>4. 1 \in DOMAIN r.bloques
        <4>1. Len(r.bloques) \in Nat /\ DOMAIN r.bloques = 1..Len(r.bloques)
          BY <1>8, <1>11, LenProperties
        <4> QED  BY <3>3, <4>1
      <3>5. num_pagina(r.inicio) < Len(procesos[p])
        BY <3>2, <3>4 DEF BloquesDe, Posicion
      <3>6. PICK dir \in Nat, largo \in Nat, cero \in Nat :
                dir = r.inicio /\ largo = Len(procesos[p]) /\ cero = 0
        BY <1>4, <1>8, <1>11, TablaDe
      <3>7. dir < largo * TAM_PAGINA /\ largo * TAM_PAGINA \in Nat
        <4>1. PICK x \in 0..(TAM_PAGINA - 1) : x = dir % TAM_PAGINA /\ TAM_PAGINA \in Nat
          BY <3>6, PaginaDe
        <4>2. x + cero <= TAM_PAGINA
          BY <3>6, <4>1
        <4> QED  BY <3>5, <3>6, <4>1, <4>2, PaginaMenor
      <3>8. dir \in dir..(largo * TAM_PAGINA)
        BY <3>7
      <3>9. BloquesDe(p, r.bloques, r.inicio)'
        BY <1>4, <3>2 DEF BloquesDe, Fisica, Posicion, num_pagina
      <3>10. Len(<<>>) = 0 /\ dir = dir + 0
        BY EmptySeq
      <3>11. io'[j] = r /\ procesos' = procesos
        BY <1>4, <1>10, <2>2
      <3> QED  BY <1>11, <3>6, <3>8, <3>9, <3>10, <3>11 DEF VigenteDeIo
    <2> QED  BY <2>1, <2>2
  <1> QED  BY <1>6, <1>7, <1>13, <1>14 DEF Resto, DireccionVigente
\* The copy is done with the first block, and the rest come after it.
LEMMA RestoDeBloques ==
  ASSUME MarcosInv, NEW p \in Pid, Vivo(p), NEW bs \in Seq(BloqueFisico), bs # <<>>,
         NEW dir \in Nat, BloquesDe(p, bs, dir)
  PROVE  /\ Head(bs) \in BloqueFisico /\ Head(bs).tamanio \in Nat
         /\ Tail(bs) \in Seq(BloqueFisico)
         /\ num_pagina(dir) < Len(procesos[p]) /\ Head(bs).base = Fisica(p, dir)
         /\ (dir % TAM_PAGINA) + Head(bs).tamanio <= TAM_PAGINA
         /\ dir + Head(bs).tamanio <= Len(procesos[p]) * TAM_PAGINA
         /\ BloquesDe(p, Tail(bs), dir + Head(bs).tamanio)
  <1>1. PICK b \in BloqueFisico, q \in Seq(BloqueFisico), n \in Nat :
            /\ b = Head(bs) /\ q = Tail(bs) /\ n = Len(q) /\ Len(bs) = n + 1
            /\ \A k \in 1..n : q[k] = bs[k + 1]
            /\ b = bs[1] /\ DOMAIN bs = 1..(n + 1) /\ DOMAIN q = 1..n
    <2>1. /\ Tail(bs) \in Seq(BloqueFisico) /\ Head(bs) \in BloqueFisico
          /\ Len(Tail(bs)) = Len(bs) - 1
          /\ \A k \in 1..Len(Tail(bs)) : Tail(bs)[k] = bs[k + 1]
      BY HeadTailProperties
    <2>2. Head(bs) = bs[1]
      OBVIOUS
    <2>3. /\ Len(bs) \in Nat /\ Len(Tail(bs)) \in Nat
          /\ DOMAIN bs = 1..Len(bs) /\ DOMAIN Tail(bs) = 1..Len(Tail(bs))
      BY <2>1, LenProperties
    <2>4. PICK h \in BloqueFisico, q \in Seq(BloqueFisico) : h = Head(bs) /\ q = Tail(bs)
      BY <2>1
    <2>5. PICK n \in Nat : n = Len(q)
      BY <2>3, <2>4
    <2>6. Len(bs) = n + 1
      BY <2>1, <2>3, <2>4, <2>5
    <2> QED  BY <2>1, <2>2, <2>3, <2>4, <2>5, <2>6
  <1>2. PICK largo \in Nat, tam \in Nat : largo = Len(procesos[p]) /\ tam = b.tamanio
    <2>1. b.tamanio \in 1..TAM_PAGINA /\ TAM_PAGINA \in Nat
      BY MemoriaOK DEF BloqueFisico
    <2> QED  BY <2>1, TablaDe
  <1>3. /\ num_pagina(dir) < largo /\ b.base = Fisica(p, dir)
        /\ (dir % TAM_PAGINA) + tam <= TAM_PAGINA
        /\ 1 < n + 1 => dir + tam = Posicion(dir, 1 + 1)
    <2>1. 1 \in DOMAIN bs /\ Posicion(dir, 1) = dir
      BY <1>1 DEF Posicion
    <2> QED  BY <1>1, <1>2, <2>1 DEF BloquesDe
  <1>4. dir + tam <= largo * TAM_PAGINA
    BY <1>3, PaginaMenor
  <1>5. PICK d2 \in Nat : d2 = dir + tam
    OBVIOUS
  <1>6. ASSUME NEW k \in 1..n
        PROVE  Posicion(d2, k) = Posicion(dir, k + 1)
    <2>1. PICK np \in Nat : np = num_pagina(dir) /\ TAM_PAGINA \in Nat /\ TAM_PAGINA >= 1
      BY PaginaDe
    <2>2. d2 = Posicion(dir, 2) /\ Posicion(dir, 2) = (np + 1) * TAM_PAGINA
      <3>1. PICK u \in Nat : u = 1 /\ u >= 1
        OBVIOUS
      <3>2. Posicion(dir, u + 1) = (np + u) * TAM_PAGINA
        BY <2>1, <3>1, PosicionLema
      <3> QED  BY <1>3, <1>5, <3>1, <3>2
    <2>3. num_pagina(d2) = np + 1
      <3>1. PICK u \in Nat : u = 2 /\ u >= 1
        OBVIOUS
      <3>2. num_pagina(Posicion(dir, u)) = np + u - 1
        BY <2>1, <3>1, PosicionLema
      <3> QED  BY <2>1, <2>2, <3>1, <3>2
    <2>4. CASE k = 1
      BY <2>2, <2>4 DEF Posicion
    <2>5. CASE k # 1
      <3>1. Posicion(d2, k) = (np + 1 + k - 1) * TAM_PAGINA
        BY <2>3, <2>5 DEF Posicion
      <3>2. Posicion(dir, k + 1) = (np + k) * TAM_PAGINA
        <4>1. k \in Nat /\ k >= 1
          OBVIOUS
        <4> QED  BY <2>1, <4>1, PosicionLema
      <3>3. np + 1 + k - 1 = np + k
        BY <2>1
      <3> QED  BY <3>1, <3>2, <3>3
    <2> QED  BY <2>4, <2>5
  <1>7. BloquesDe(p, q, d2)
    <2> SUFFICES ASSUME NEW k \in 1..n, NEW d, d = Posicion(d2, k)
                 PROVE  /\ num_pagina(d) < largo /\ q[k].base = Fisica(p, d)
                        /\ (d % TAM_PAGINA) + q[k].tamanio <= TAM_PAGINA
                        /\ k < n => d + q[k].tamanio = Posicion(d2, k + 1)
      BY <1>1, <1>2 DEF BloquesDe
    <2>1. PICK m \in DOMAIN bs : m = k + 1 /\ d = Posicion(dir, m) /\ q[k] = bs[m]
      BY <1>1, <1>6
    <2>2. /\ num_pagina(d) < largo /\ bs[m].base = Fisica(p, d)
          /\ (d % TAM_PAGINA) + bs[m].tamanio <= TAM_PAGINA
          /\ m < n + 1 => d + bs[m].tamanio = Posicion(dir, m + 1)
      BY <1>1, <1>2, <2>1 DEF BloquesDe
    <2>3. k < n => Posicion(d2, k + 1) = Posicion(dir, m + 1)
      <3> SUFFICES ASSUME k < n PROVE Posicion(d2, k + 1) = Posicion(dir, m + 1)
        OBVIOUS
      <3>1. k + 1 \in 1..n
        OBVIOUS
      <3>2. Posicion(d2, k + 1) = Posicion(dir, (k + 1) + 1)
        BY <1>6, <3>1
      <3> QED  BY <2>1, <3>2
    <2>4. k < n => m < n + 1
      BY <2>1
    <2> QED  BY <2>1, <2>2, <2>3, <2>4
  <1> QED  BY <1>1, <1>2, <1>3, <1>4, <1>5, <1>7

\* The check changes no block.
LEMMA VerificaResto ==
  ASSUME MarcosInv, Resto, NEW i \in Interfaces, IoVerifica(i)
  PROVE  Resto'
  <1>1. /\ io[i] # NoExiste /\ io' = [io EXCEPT ![i].verificado = TRUE]
        /\ UNCHANGED <<memoria, cpu, estado, caida>>
    BY DEF IoVerifica, Opera
  <1>2. UNCHANGED <<procesos, memoria_de_usuario>>
    BY <1>1 DEF memoria
  <1>3. PICK v \in PedidoDeIo : v = io[i]
    BY <1>1 DEF Resto, IoInv
  <1>4. PICK r : r = [v EXCEPT !.verificado = TRUE]
    OBVIOUS
  <1>5. /\ r \in PedidoDeIo /\ r.pid = v.pid /\ r.op = v.op /\ r.buffer = v.buffer
        /\ r.bloques = v.bloques /\ r.inicio = v.inicio
    BY <1>4 DEF PedidoDeIo
  <1>6. io' = [io EXCEPT ![i] = r]
    BY <1>1, <1>3, <1>4
  <1>7. r.op = "stdin" => r.buffer = <<>>
    BY <1>1, <1>3, <1>5 DEF Resto, IoInv
  <1>8. Vivo(r.pid) => \E dir \in r.inicio..(Len(procesos[r.pid]) * TAM_PAGINA) :
                            /\ BloquesDe(r.pid, r.bloques, dir)
                            /\ r.op = "stdout" => dir = r.inicio + Len(r.buffer)
    BY <1>1, <1>3, <1>5 DEF Resto, DireccionVigente, VigenteEnIo
  <1>9. r.pid = io[i].pid
    BY <1>3, <1>5
  <1>10. memoria_de_usuario' \in [Direccion -> Datos]
    BY <1>2 DEF Resto, IoInv
  <1> QED  BY <1>1, <1>2, <1>5, <1>6, <1>7, <1>8, <1>9, <1>10, IoSigue

\* A block copied: v is the request before, r after, l what was read of tam bytes at base.
Copiado(i, v, r, base, tam, l) ==
    /\ v = io[i] /\ v \in PedidoDeIo /\ r \in PedidoDeIo /\ io' = [io EXCEPT ![i] = r]
    /\ v.bloques # <<>> /\ base = Bloque(i).base /\ tam = Bloque(i).tamanio
    /\ base = Head(v.bloques).base /\ tam = Head(v.bloques).tamanio
    /\ (base % TAM_PAGINA) + tam <= TAM_PAGINA
    /\ l = (IF v.op = "stdout" THEN Leida(base, tam) ELSE <<>>) /\ Len(l) \in Nat
    /\ r.pid = v.pid /\ r.op = v.op /\ r.bloques = Tail(v.bloques) /\ r.inicio = v.inicio
    /\ r.buffer = v.buffer \o l
    /\ v.buffer \o l \in Seq(Datos) /\ Len(v.buffer \o l) = Len(v.buffer) + Len(l)
    /\ Len(v.buffer) \in Nat

\* IoCopia does that, with the first of the blocks.
LEMMA CopiaIo ==
  ASSUME Resto, NEW i \in Interfaces, IoCopia(i)
  PROVE  \E v \in PedidoDeIo, r \in PedidoDeIo, base \in Direccion, tam \in Nat, l \in Seq(Datos) :
             Copiado(i, v, r, base, tam, l)
  <1>1. io[i] # NoExiste /\ io[i].bloques # <<>> /\ UNCHANGED <<procesos, cpu, estado, caida>>
    BY DEF IoCopia, Opera
  <1>2. PICK v \in PedidoDeIo : v = io[i]
    BY <1>1 DEF Resto, IoInv
  <1>3. v.bloques \in Seq(BloqueFisico) /\ v.buffer \in Seq(Datos) /\ v.dato \in Datos /\ v.inicio \in Nat
    BY PedidoDeIoLema
  <1>4. PICK b \in BloqueFisico : b = Head(v.bloques) /\ b = Bloque(i)
    <2>1. Head(v.bloques) \in BloqueFisico
      BY <1>1, <1>2, <1>3, HeadTailProperties
    <2> QED  BY <1>2, <2>1 DEF Bloque
  <1>5. PICK base \in Direccion, tam \in Nat :
            base = b.base /\ tam = b.tamanio /\ (base % TAM_PAGINA) + tam <= TAM_PAGINA
    <2>1. b.tamanio \in 1..TAM_PAGINA /\ TAM_PAGINA \in Nat
      BY MemoriaOK DEF BloqueFisico
    <2> QED  BY <2>1 DEF BloqueFisico
  <1>6. memoria_de_usuario \in [Direccion -> Datos]
    BY DEF Resto, IoInv
  <1>7. PICK l \in Seq(Datos) :
            l = (IF v.op = "stdout" THEN Leida(base, tam) ELSE <<>>) /\ Len(l) \in Nat
    <2>1. Leida(base, tam) \in Seq(Datos)
      BY <1>5, <1>6, LeidaLema
    <2>2. <<>> \in Seq(Datos)
      BY EmptySeq
    <2>3. (IF v.op = "stdout" THEN Leida(base, tam) ELSE <<>>) \in Seq(Datos)
      BY <2>1, <2>2
    <2> QED  BY <2>3, LenProperties
  <1>8. PICK r : r = [pid |-> v.pid, op |-> v.op, bloques |-> Tail(v.bloques),
                      inicio |-> v.inicio, dato |-> v.dato, verificado |-> FALSE,
                      buffer |-> v.buffer \o l]
    OBVIOUS
  <1>9. io' = [io EXCEPT ![i] = r]
    <2>1. io' = [io EXCEPT ![i].bloques = Tail(@), ![i].verificado = FALSE, ![i].buffer = @ \o l]
      BY <1>2, <1>4, <1>5, <1>7 DEF IoCopia
    <2>2. PICK f : f = io
      OBVIOUS
    <2>3. f \in [Interfaces -> PedidoDeIo \cup {NoExiste}]
      BY <2>2 DEF Resto, IoInv
    <2>4. [f EXCEPT ![i].bloques = Tail(@), ![i].verificado = FALSE, ![i].buffer = @ \o l]
            = [f EXCEPT ![i] = r]
      <3>0. v = f[i]
        BY <1>2, <2>2
      <3>1. v = [pid |-> v.pid, op |-> v.op, bloques |-> v.bloques, inicio |-> v.inicio,
                 dato |-> v.dato, verificado |-> v.verificado, buffer |-> v.buffer]
        BY PedidoDeIoLema
      <3>2. PICK p \in {v.pid}, op \in {v.op}, bs \in {v.bloques}, ini \in {v.inicio},
                 d \in {v.dato}, ve \in {v.verificado}, bu \in {v.buffer} :
                v = [pid |-> p, op |-> op, bloques |-> bs, inicio |-> ini, dato |-> d,
                     verificado |-> ve, buffer |-> bu]
        BY <3>1
      <3>3. PICK v1 : v1 = [v EXCEPT !.bloques = Tail(bs)]
        OBVIOUS
      <3>4. v1 = [pid |-> p, op |-> op, bloques |-> Tail(bs), inicio |-> ini, dato |-> d,
                  verificado |-> ve, buffer |-> bu]
        BY ONLY <3>2, <3>3
      <3>5. PICK v2 : v2 = [v1 EXCEPT !.verificado = FALSE]
        OBVIOUS
      <3>6. v2 = [pid |-> p, op |-> op, bloques |-> Tail(bs), inicio |-> ini, dato |-> d,
                  verificado |-> FALSE, buffer |-> bu]
        BY ONLY <3>4, <3>5
      <3>7. PICK v3 : v3 = [v2 EXCEPT !.buffer = bu \o l]
        OBVIOUS
      <3>8. v3 = [pid |-> p, op |-> op, bloques |-> Tail(bs), inicio |-> ini, dato |-> d,
                  verificado |-> FALSE, buffer |-> bu \o l]
        BY ONLY <3>6, <3>7
      <3>9. v.bloques = bs /\ v2.buffer = bu
        BY <3>2, <3>6
      <3>10. PICK f1 : f1 = [f EXCEPT ![i].bloques = Tail(@)]
        OBVIOUS
      <3>11. f1 = [f EXCEPT ![i] = v1] /\ f1[i] = v1
        BY <2>3, <3>0, <3>3, <3>9, <3>10
      <3>12. PICK f2 : f2 = [f1 EXCEPT ![i].verificado = FALSE]
        OBVIOUS
      <3>13. f2 = [f EXCEPT ![i] = v2] /\ f2[i] = v2
        BY <2>3, <3>5, <3>11, <3>12
      <3>14. PICK f3 : f3 = [f2 EXCEPT ![i].buffer = @ \o l]
        OBVIOUS
      <3>15. f3 = [f EXCEPT ![i] = v3]
        BY <2>3, <3>7, <3>9, <3>13, <3>14
      <3>16. [f EXCEPT ![i].bloques = Tail(@), ![i].verificado = FALSE, ![i].buffer = @ \o l] = f3
        BY <3>10, <3>12, <3>14
      <3> QED  BY <1>8, <3>2, <3>8, <3>15, <3>16
    <2> QED  BY <2>1, <2>2, <2>4
  <1>10. Tail(v.bloques) \in Seq(BloqueFisico)
    BY <1>1, <1>2, <1>3, HeadTailProperties
  <1>11. /\ v.buffer \o l \in Seq(Datos) /\ Len(v.buffer \o l) = Len(v.buffer) + Len(l)
         /\ Len(v.buffer) \in Nat
    BY <1>3, ConcatProperties, LenProperties
  <1>12. r \in PedidoDeIo
    BY <1>3, <1>8, <1>10, <1>11, PedidoDeIoLema DEF PedidoDeIo
  <1>13. /\ r.pid = v.pid /\ r.op = v.op /\ r.bloques = Tail(v.bloques) /\ r.inicio = v.inicio
         /\ r.buffer = v.buffer \o l
    BY <1>8
  <1>14. Copiado(i, v, r, base, tam, l)
    BY <1>1, <1>2, <1>4, <1>5, <1>7, <1>9, <1>11, <1>12, <1>13 DEF Copiado
  <1> QED  BY <1>12, <1>14

\* IoCopia: the copied block leaves the request's list and its bytes join the buffer.
LEMMA CopiaResto ==
  ASSUME MarcosInv, Resto, NEW i \in Interfaces, IoCopia(i)
  PROVE  Resto'
  <1>1. io[i] # NoExiste /\ io[i].bloques # <<>> /\ UNCHANGED <<procesos, cpu, estado, caida>>
    BY DEF IoCopia, Opera
  <1>2. PICK v \in PedidoDeIo, r \in PedidoDeIo, base \in Direccion, tam \in Nat, l \in Seq(Datos) :
            Copiado(i, v, r, base, tam, l)
    BY CopiaIo
  <1>3. /\ v.bloques \in Seq(BloqueFisico) /\ v.buffer \in Seq(Datos) /\ v.dato \in Datos
        /\ v.inicio \in Nat
    BY PedidoDeIoLema
  <1>4. v = io[i] /\ io' = [io EXCEPT ![i] = r]
    BY <1>2 DEF Copiado
  <1>5. /\ v.bloques # <<>> /\ base = Head(v.bloques).base /\ tam = Head(v.bloques).tamanio
        /\ (base % TAM_PAGINA) + tam <= TAM_PAGINA
    BY <1>2 DEF Copiado
  <1>6. memoria_de_usuario \in [Direccion -> Datos]
    BY DEF Resto, IoInv
  <1>7. l = (IF v.op = "stdout" THEN Leida(base, tam) ELSE <<>>) /\ Len(l) \in Nat
    BY <1>2 DEF Copiado
  <1>8. Len(v.buffer \o l) = Len(v.buffer) + Len(l) /\ Len(v.buffer) \in Nat
    BY <1>2 DEF Copiado
  <1>9. /\ r.pid = v.pid /\ r.op = v.op /\ r.bloques = Tail(v.bloques) /\ r.inicio = v.inicio
        /\ r.buffer = v.buffer \o l
    BY <1>2 DEF Copiado
  <1>10. r.op = "stdin" => r.buffer = <<>>
    <2> SUFFICES ASSUME r.op = "stdin" PROVE r.buffer = <<>>
      OBVIOUS
    <2>1. v.buffer = <<>> /\ l = <<>>
      BY <1>1, <1>4, <1>7, <1>9 DEF Resto, IoInv
    <2>2. <<>> \o <<>> = <<>>
      BY EmptySeq
    <2> QED  BY <1>9, <2>1, <2>2
  <1>11. memoria_de_usuario' \in [Direccion -> Datos]
    BY <1>4, <1>3, <1>6 DEF IoCopia, Escrita
  <1>12. ASSUME Vivo(r.pid)
         PROVE  \E dir \in r.inicio..(Len(procesos[r.pid]) * TAM_PAGINA) :
                    /\ BloquesDe(r.pid, r.bloques, dir)
                    /\ r.op = "stdout" => dir = r.inicio + Len(r.buffer)
    <2>1. PICK p \in Pid, bs \in Seq(BloqueFisico) : p = v.pid /\ bs = v.bloques /\ bs # <<>> /\ Vivo(p)
      BY <1>1, <1>4, <1>3, <1>9, <1>12, PedidoDeIoLema
    <2>2. PICK largo \in Nat : largo = Len(procesos[p]) /\ largo * TAM_PAGINA \in Nat
      <3>1. PICK largo \in Nat : largo = Len(procesos[p])
        BY <2>1, TablaDe
      <3>2. TAM_PAGINA \in Nat
        BY MemoriaOK
      <3> QED  BY <3>1, <3>2
    <2>3. PICK dir \in v.inicio..(largo * TAM_PAGINA) :
              /\ BloquesDe(p, bs, dir)
              /\ v.op = "stdout" => dir = v.inicio + Len(v.buffer)
      BY <1>1, <1>4, <2>1, <2>2 DEF Resto, DireccionVigente, VigenteEnIo
    <2>4. dir \in Nat /\ v.inicio <= dir
      BY <1>3, <2>2
    <2>5. dir + tam <= largo * TAM_PAGINA /\ BloquesDe(p, Tail(bs), dir + tam)
      BY <1>5, <2>1, <2>2, <2>3, <2>4, RestoDeBloques
    <2>6. dir + tam \in v.inicio..(largo * TAM_PAGINA)
      BY <1>3, <2>2, <2>4, <2>5
    <2>7. v.op = "stdout" => dir + tam = v.inicio + Len(r.buffer)
      <3> SUFFICES ASSUME v.op = "stdout" PROVE dir + tam = v.inicio + Len(r.buffer)
        OBVIOUS
      <3>1. Len(l) = tam
        BY <1>5, <1>6, <1>7, LeidaLema
      <3>2. Len(r.buffer) = Len(v.buffer) + tam
        BY <1>8, <1>9, <3>1
      <3> QED  BY <1>3, <1>8, <2>3, <3>2
    <2> QED  BY <1>9, <2>1, <2>2, <2>5, <2>6, <2>7
  <1>13. r.pid = io[i].pid
    BY <1>4, <1>9
  <1> QED  BY <1>1, <1>2, <1>4, <1>10, <1>11, <1>12, <1>13, IoSigue

\* The request ends, and the process is ready.
LEMMA TerminaIoResto ==
  ASSUME MarcosInv, Resto, NEW i \in Interfaces, IoTermina(i)
  PROVE  Resto'
  <1>1. /\ io[i] # NoExiste /\ io' = [io EXCEPT ![i] = NoExiste]
        /\ estado' = [estado EXCEPT ![io[i].pid] = IF @ = "io" THEN "listo" ELSE @]
        /\ UNCHANGED <<memoria, cpu, caida>>
    BY DEF IoTermina
  <1>2. UNCHANGED <<procesos, memoria_de_usuario>> /\ estado \in [Pid -> Estado]
    BY <1>1 DEF memoria, MarcosInv
  <1>3. PICK p \in Pid : p = io[i].pid
    BY <1>1 DEF Resto, IoInv, PedidoDeIo
  <1>4. \A q \in Pid : \/ estado'[q] = estado[q]
                       \/ q = p /\ estado[q] = "io" /\ estado'[q] = "listo"
    BY <1>1, <1>2, <1>3
  <1>5. CpuInv' /\ AvanceInv' /\ TlbCoherente' /\ VigenteEnCpu'
    BY <1>1, <1>2, <1>4, CpuQuieta DEF Resto, DireccionVigente, CpuInv
  <1>6. io'[i] = NoExiste /\ \A j \in Interfaces : j # i => io'[j] = io[j]
    BY <1>1 DEF Resto, IoInv
  <1>7. \A j \in Interfaces : io'[j] # NoExiste =>
            j # i /\ io'[j] = io[j] /\ io[j] # NoExiste /\ io[j].pid # p /\ io[j].pid \in Pid
    BY <1>1, <1>3, <1>6 DEF Resto, IoInv, PedidoDeIo
  <1>8. IoInv'
    <2>1. io' \in [Interfaces -> PedidoDeIo \cup {NoExiste}]
      BY <1>1 DEF Resto, IoInv
    <2> QED  BY <1>2, <1>4, <1>7, <2>1 DEF Resto, IoInv
  <1>9. VigenteEnIo'
    BY <1>2, <1>7, OtrasSiguen DEF Resto, DireccionVigente, VigenteEnIo, VigenteDeIo
  <1> QED  BY <1>5, <1>8, <1>9 DEF Resto, DireccionVigente

\* Every step keeps what is said of the TLB, the accesses and the requests.
LEMMA RestoPaso == MarcosInv /\ Resto /\ [Next]_vars => Resto'
  <1> SUFFICES ASSUME MarcosInv, Resto, [Next]_vars PROVE Resto'
    OBVIOUS
  <1>1. ASSUME NEW p \in Pid,
               \/ recibir_crear_proceso(p) \/ LiberarProceso(p) \/ Despachar(p) \/ Desalojar(p)
        PROVE  Resto'
    BY <1>1, KernelResto
  <1>2. CASE LiberarMarcos
    BY <1>2, KernelResto
  <1>3. ASSUME NEW p \in Pid, PaginaInexistente(p) PROVE Resto'
    BY <1>3, ParaResto
  <1>4. ASSUME NEW i \in Interfaces, IoSinProceso(i) PROVE Resto'
    BY <1>4, ParaResto
  <1>5. CASE UNCHANGED vars
    BY <1>5, ParaResto
  <1>6. ASSUME NEW p \in Pid, Accesos(p) PROVE Resto'
    BY <1>6, EmpezarResto
  <1>7. ASSUME NEW p \in Pid, Traducir(p) PROVE Resto'
    BY <1>7, TraducirResto
  <1>8. ASSUME NEW p \in Pid, leer_una_pagina(p) \/ escribir_una_pagina(p) \/ AgregarBloque(p)
        PROVE  Resto'
    BY <1>8, PiezaResto
  <1>9. ASSUME NEW p \in Pid, TerminarAcceso(p) \/ SinMemoria(p) PROVE Resto'
    BY <1>9, TerminarResto
  <1>10. ASSUME NEW p \in Pid, NEW i \in Interfaces, DevolverPorIo(p, i) PROVE Resto'
    BY <1>10, DevolverResto
  <1>11. ASSUME NEW p \in Pid, NEW tam \in 0..MaxTam, exec_resize(p, tam) PROVE Resto'
    BY <1>11, ResizeResto
  <1>12. ASSUME NEW p \in Pid, ampliar_proceso(p) PROVE Resto'
    BY <1>12, AmpliarResto
  <1>13. ASSUME NEW p \in Pid, reducir_proceso(p) PROVE Resto'
    BY <1>13, ReducirResto
  <1>14. ASSUME NEW i \in Interfaces, IoVerifica(i) \/ IoCopia(i) \/ IoTermina(i) PROVE Resto'
    BY <1>14, VerificaResto, CopiaResto, TerminaIoResto
  <1> QED  BY <1>1, <1>2, <1>3, <1>4, <1>5, <1>6, <1>7, <1>8, <1>9, <1>10, <1>11, <1>12,
              <1>13, <1>14 DEF Next

\* At every moment the tables, the TLB, the access under way and the requests of the
\* interfaces fit together: with kills of processes blocked in an interface too.
THEOREM MemoriaInvSiempre == Spec => []MemoriaInv
  <1>1. Init => MarcosInv /\ Resto
    BY InitMarcos, RestoInicio
  <1>2. (MarcosInv /\ Resto) /\ [Next]_vars => (MarcosInv /\ Resto)'
    BY MarcosPaso, RestoPaso
  <1>3. MarcosInv /\ Resto => MemoriaInv
    BY DEF MemoriaInv, Resto
  <1> QED  BY <1>1, <1>2, <1>3, PTL DEF Spec

\* The TLB never answers what the page table would not.
THEOREM TlbSiempre == Spec => []TlbCoherente
  <1>1. MemoriaInv => TlbCoherente
    BY DEF MemoriaInv
  <1> QED  BY <1>1, MemoriaInvSiempre, PTL

\* No physical address is stale when it is used, by the CPU or by an interface.
THEOREM DireccionSiempre == Spec => []DireccionVigente
  <1>1. MemoriaInv => DireccionVigente
    BY DEF MemoriaInv
  <1> QED  BY <1>1, MemoriaInvSiempre, PTL

-----------------------------------------------------------------------------
(* The bytes of the processes                                               *)

\* The address space of a process: a byte for each address of its pages.
LEMMA EspacioLema ==
  ASSUME MarcosInv, memoria_de_usuario \in [Direccion -> Datos], NEW p \in Pid, Vivo(p)
  PROVE  /\ Len(procesos[p]) * TAM_PAGINA \in Nat
         /\ Espacio(p) \in Seq(Datos) /\ Len(Espacio(p)) = Len(procesos[p]) * TAM_PAGINA
         /\ DOMAIN Espacio(p) = 1..(Len(procesos[p]) * TAM_PAGINA)
         /\ Espacio(p) # NoExiste
         /\ \A k \in 1..(Len(procesos[p]) * TAM_PAGINA) :
                /\ k - 1 \in Nat /\ num_pagina(k - 1) < Len(procesos[p])
                /\ Fisica(p, k - 1) \in Direccion
                /\ Espacio(p)[k] = memoria_de_usuario[Fisica(p, k - 1)]
  <1>1. PICK largo \in Nat : largo = Len(procesos[p])
    BY TablaDe
  <1>2. PICK total \in Nat : total = largo * TAM_PAGINA
    <2>1. largo * TAM_PAGINA \in Nat
      BY MemoriaOK
    <2> QED  BY <2>1
  <1>3. ASSUME NEW k \in 1..total
        PROVE  k - 1 \in Nat /\ num_pagina(k - 1) < largo /\ Fisica(p, k - 1) \in Direccion
    <2>1. PICK dir \in Nat : dir = k - 1 /\ dir < total
      OBVIOUS
    <2>2. (dir % TAM_PAGINA) + 0 <= TAM_PAGINA
      BY PaginaDe
    <2>3. num_pagina(dir) < largo
      BY <1>2, <2>1, <2>2, PaginaMenor
    <2> QED  BY <1>1, <2>1, <2>3, FisicaLema
  <1>4. Espacio(p) = [k \in 1..total |-> memoria_de_usuario[Fisica(p, k - 1)]]
    BY <1>1, <1>2 DEF Espacio
  <1>5. Espacio(p) \in [1..total -> Datos]
    BY <1>3, <1>4
  <1>6. Espacio(p) \in Seq(Datos)
    BY <1>5, SeqDef
  <1>7. Len(Espacio(p)) = total /\ DOMAIN Espacio(p) = 1..total
    BY <1>4, <1>6, LenProperties
  <1>8. Espacio(p) # NoExiste
    BY <1>6, MemoriaOK
  <1>9. \A k \in 1..total : Espacio(p)[k] = memoria_de_usuario[Fisica(p, k - 1)]
    BY <1>4
  <1> QED  BY <1>1, <1>2, <1>3, <1>6, <1>7, <1>8, <1>9

\* Consecutive addresses of a page are so in the memory.
LEMMA Seguidos ==
  ASSUME NEW p, NEW dir \in Nat, NEW k \in Nat, (dir % TAM_PAGINA) + k < TAM_PAGINA,
         procesos[p][num_pagina(dir) + 1] \in Nat
  PROVE  Fisica(p, dir + k) = Fisica(p, dir) + k /\ num_pagina(dir + k) = num_pagina(dir)
  <1>1. PICK n \in Nat, r \in 0..(TAM_PAGINA - 1) :
            n = num_pagina(dir) /\ r = dir % TAM_PAGINA /\ dir = n * TAM_PAGINA + r
    BY PaginaDe
  <1>2. PICK s \in 0..(TAM_PAGINA - 1) : s = r + k
    BY <1>1, PaginaDe
  <1>3. n * TAM_PAGINA \in Nat /\ num_pagina(n * TAM_PAGINA + s) = n
        /\ (n * TAM_PAGINA + s) % TAM_PAGINA = s
    BY DireccionDe
  <1>4. dir + k = n * TAM_PAGINA + s
    <2>1. PICK nb \in Nat : nb = n * TAM_PAGINA
      BY <1>3
    <2>2. dir = nb + r
      BY <1>1, <2>1
    <2>3. r \in Int /\ s \in Int
      <3>1. TAM_PAGINA \in Int
        BY MemoriaOK
      <3> QED  BY <3>1
    <2>4. dir + k = nb + s
      BY <1>2, <2>2, <2>3
    <2> QED  BY <2>1, <2>4
  <1>5. PICK m \in Nat : m = procesos[p][num_pagina(dir) + 1]
    OBVIOUS
  <1>6. PICK b \in Nat : b = m * TAM_PAGINA
    <2>1. m * TAM_PAGINA \in Nat
      BY MemoriaOK
    <2> QED  BY <2>1
  <1>7. Fisica(p, dir) = b + r /\ Fisica(p, dir + k) = b + s
    BY <1>1, <1>3, <1>4, <1>5, <1>6 DEF Fisica
  <1> QED  BY <1>1, <1>2, <1>3, <1>4, <1>7

\* What is written at an address is seen there, by its process, and nowhere else.
LEMMA EscritaLema ==
  ASSUME MarcosInv, memoria_de_usuario \in [Direccion -> Datos],
         NEW p \in Pid, Vivo(p), NEW dir \in Nat, NEW tam \in Nat, NEW d,
         num_pagina(dir) < Len(procesos[p]), (dir % TAM_PAGINA) + tam <= TAM_PAGINA,
         NEW q \in Pid, Vivo(q), NEW k \in 1..(Len(procesos[q]) * TAM_PAGINA)
  PROVE  Escrita(Fisica(p, dir), tam, d)[Fisica(q, k - 1)]
           = IF q = p /\ dir < k /\ k <= dir + tam THEN d ELSE Espacio(q)[k]
  <1>1. PICK a \in Direccion : /\ a = Fisica(q, k - 1) /\ Espacio(q)[k] = memoria_de_usuario[a]
                               /\ k - 1 \in Nat /\ num_pagina(k - 1) < Len(procesos[q])
    BY EspacioLema
  <1>2. PICK base \in Direccion : base = Fisica(p, dir)
    BY FisicaLema
  <1>3. PICK n \in Nat, r \in 0..(TAM_PAGINA - 1), m \in Nat :
            /\ n = num_pagina(dir) /\ r = dir % TAM_PAGINA /\ dir = n * TAM_PAGINA + r
            /\ m = procesos[p][n + 1] /\ base = m * TAM_PAGINA + r
            /\ n < Len(procesos[p]) /\ r + tam <= TAM_PAGINA
    <2>1. num_pagina(dir) \in Nat /\ dir % TAM_PAGINA \in 0..(TAM_PAGINA - 1)
          /\ dir = num_pagina(dir) * TAM_PAGINA + (dir % TAM_PAGINA)
      BY PaginaDe
    <2>2. procesos[p][num_pagina(dir) + 1] \in Nat
      BY FisicaLema DEF Marco
    <2> QED  BY <1>2, <2>1, <2>2 DEF Fisica
  <1>4. PICK nq \in Nat, rq \in 0..(TAM_PAGINA - 1), mq \in Nat :
            /\ nq = num_pagina(k - 1) /\ rq = (k - 1) % TAM_PAGINA /\ k - 1 = nq * TAM_PAGINA + rq
            /\ mq = procesos[q][nq + 1] /\ a = mq * TAM_PAGINA + rq
            /\ nq < Len(procesos[q])
    <2>1. PICK e \in Nat : e = k - 1
      BY <1>1
    <2>2. num_pagina(e) \in Nat /\ e % TAM_PAGINA \in 0..(TAM_PAGINA - 1)
          /\ e = num_pagina(e) * TAM_PAGINA + (e % TAM_PAGINA)
      BY PaginaDe
    <2>3. procesos[q][num_pagina(e) + 1] \in Nat
      BY <1>1, <2>1, FisicaLema DEF Marco
    <2> QED  BY <1>1, <2>1, <2>2, <2>3 DEF Fisica
  <1>5. TAM_PAGINA \in Nat \ {0}
    BY MemoriaOK
  <1>6. PICK mb \in Nat, mqb \in Nat, nb \in Nat, nqb \in Nat :
            /\ mb = m * TAM_PAGINA /\ mqb = mq * TAM_PAGINA
            /\ nb = n * TAM_PAGINA /\ nqb = nq * TAM_PAGINA
    <2>1. /\ m * TAM_PAGINA \in Nat /\ mq * TAM_PAGINA \in Nat
          /\ n * TAM_PAGINA \in Nat /\ nq * TAM_PAGINA \in Nat
      BY <1>5
    <2> QED  BY <2>1
  <1>7. PICK T \in Nat : T = TAM_PAGINA
    BY <1>5
  <1>8. /\ base = mb + r /\ a = mqb + rq /\ dir = nb + r /\ k = nqb + rq + 1
         /\ r \in 0..(T - 1) /\ rq \in 0..(T - 1) /\ r + tam <= T
    <2>1. k \in Int
      BY <1>1, EspacioLema
    <2>2. base = mb + r /\ dir = nb + r
      BY <1>3, <1>6
    <2>3. a = mqb + rq /\ k - 1 = nqb + rq
      BY <1>4, <1>6
    <2>4. r \in 0..(T - 1) /\ rq \in 0..(T - 1) /\ r + tam <= T
      BY <1>3, <1>7
    <2> QED  BY <2>1, <2>2, <2>3, <2>4
  <1>9. Escrita(base, tam, d)[a]
          = IF base <= a /\ a < base + tam THEN d ELSE memoria_de_usuario[a]
    BY DEF Escrita
  <1>10. base <= a /\ a < base + tam => mq = m
    <2> SUFFICES ASSUME base <= a, a < base + tam PROVE mq = m
      OBVIOUS
    <2>1. ~(mq < m)
      <3> SUFFICES ASSUME mq < m PROVE FALSE
        OBVIOUS
      <3>1. mq * TAM_PAGINA + TAM_PAGINA <= m * TAM_PAGINA
        BY <1>5, Producto
      <3>2. mqb + T <= mb
        BY <1>6, <1>7, <3>1
      <3> QED  BY <1>8, <3>2
    <2>2. ~(m < mq)
      <3> SUFFICES ASSUME m < mq PROVE FALSE
        OBVIOUS
      <3>1. m * TAM_PAGINA + TAM_PAGINA <= mq * TAM_PAGINA
        BY <1>5, Producto
      <3>2. mb + T <= mqb
        BY <1>6, <1>7, <3>1
      <3> QED  BY <1>8, <3>2
    <2> QED  BY <2>1, <2>2
  <1>11. mq = m <=> q = p /\ nq = n
    <2>1. /\ Len(procesos[q]) \in Nat /\ DOMAIN procesos[q] = 1..Len(procesos[q])
          /\ Len(procesos[p]) \in Nat /\ DOMAIN procesos[p] = 1..Len(procesos[p])
          /\ p \in Vivos /\ q \in Vivos
      BY TablaDe
    <2>2. PICK i \in DOMAIN procesos[q], j \in DOMAIN procesos[p] : i = nq + 1 /\ j = n + 1
      <3>1. nq + 1 \in 1..Len(procesos[q]) /\ n + 1 \in 1..Len(procesos[p])
        <4>1. n < Len(procesos[p]) /\ n \in Nat
          BY <1>3
        <4>2. nq < Len(procesos[q]) /\ nq \in Nat
          BY <1>4
        <4> QED  BY <2>1, <4>1, <4>2
      <3> QED  BY <2>1, <3>1
    <2>3. procesos[q][i] = procesos[p][j] => q = p /\ i = j
      <3>1. \A x, y \in Vivos : \A u \in DOMAIN procesos[x], v \in DOMAIN procesos[y] :
                procesos[x][u] = procesos[y][v] => x = y /\ u = v
        BY DEF MarcosInv, MarcosExclusivos
      <3> QED  BY <2>1, <3>1
    <2>4. mq = procesos[q][i] /\ m = procesos[p][j]
      BY <1>3, <1>4, <2>2
    <2>5. i = j <=> nq = n
      BY <2>2
    <2> QED  BY <2>3, <2>4, <2>5
  <1>12. dir < k /\ k <= dir + tam => nq = n
    <2> SUFFICES ASSUME dir < k, k <= dir + tam PROVE nq = n
      OBVIOUS
    <2>1. ~(nq < n)
      <3> SUFFICES ASSUME nq < n PROVE FALSE
        OBVIOUS
      <3>1. nq * TAM_PAGINA + TAM_PAGINA <= n * TAM_PAGINA
        BY <1>5, Producto
      <3>2. nqb + T <= nb
        BY <1>6, <1>7, <3>1
      <3> QED  BY <1>8, <3>2
    <2>2. ~(n < nq)
      <3> SUFFICES ASSUME n < nq PROVE FALSE
        OBVIOUS
      <3>1. n * TAM_PAGINA + TAM_PAGINA <= nq * TAM_PAGINA
        BY <1>5, Producto
      <3>2. nb + T <= nqb
        BY <1>6, <1>7, <3>1
      <3> QED  BY <1>8, <3>2
    <2> QED  BY <2>1, <2>2
  <1>13. nq = n /\ mq = m => (base <= a /\ a < base + tam <=> dir < k /\ k <= dir + tam)
    <2> SUFFICES ASSUME nq = n, mq = m
                 PROVE  base <= a /\ a < base + tam <=> dir < k /\ k <= dir + tam
      OBVIOUS
    <2>1. nqb = nb /\ mqb = mb
      BY <1>6
    <2> QED  BY <1>8, <2>1
  <1>14. base <= a /\ a < base + tam <=> q = p /\ dir < k /\ k <= dir + tam
    BY <1>10, <1>11, <1>12, <1>13
  <1> QED  BY <1>1, <1>2, <1>9, <1>14

\* A write in a page of a process changes the bytes it says of that process, and no other.
LEMMA EspacioEscrito ==
  ASSUME MarcosInv, memoria_de_usuario \in [Direccion -> Datos],
         NEW p \in Pid, Vivo(p), NEW dir \in Nat, NEW tam \in Nat, NEW d,
         num_pagina(dir) < Len(procesos[p]), (dir % TAM_PAGINA) + tam <= TAM_PAGINA,
         memoria_de_usuario' = Escrita(Fisica(p, dir), tam, d), procesos' = procesos
  PROVE  /\ \A q \in Pid : q # p => Espacio(q)' = Espacio(q)
         /\ Espacio(p)' = [k \in DOMAIN Espacio(p) |->
                              IF dir < k /\ k <= dir + tam THEN d ELSE Espacio(p)[k]]
  <1>1. ASSUME NEW q \in Pid, Vivo(q)
        PROVE  /\ DOMAIN Espacio(q) = 1..(Len(procesos[q]) * TAM_PAGINA)
               /\ Espacio(q) = [k \in 1..(Len(procesos[q]) * TAM_PAGINA) |-> Espacio(q)[k]]
               /\ Espacio(q)' = [k \in 1..(Len(procesos[q]) * TAM_PAGINA) |->
                      IF q = p /\ dir < k /\ k <= dir + tam THEN d ELSE Espacio(q)[k]]
    <2>1. DOMAIN Espacio(q) = 1..(Len(procesos[q]) * TAM_PAGINA) /\ Espacio(q) \in Seq(Datos)
      BY <1>1, EspacioLema
    <2>2. Espacio(q) = [k \in DOMAIN Espacio(q) |-> Espacio(q)[k]]
      BY <1>1 DEF Espacio
    <2>3. Espacio(q)' = [k \in 1..(Len(procesos[q]) * TAM_PAGINA) |->
                            memoria_de_usuario'[Fisica(q, k - 1)]]
      BY <1>1 DEF Espacio, Vivo, Fisica
    <2>4. \A k \in 1..(Len(procesos[q]) * TAM_PAGINA) :
              memoria_de_usuario'[Fisica(q, k - 1)]
                = IF q = p /\ dir < k /\ k <= dir + tam THEN d ELSE Espacio(q)[k]
      BY <1>1, EscritaLema
    <2> QED  BY <2>1, <2>2, <2>3, <2>4
  <1>2. ASSUME NEW q \in Pid, q # p PROVE Espacio(q)' = Espacio(q)
    <2>1. CASE Vivo(q)
      BY <1>1, <1>2, <2>1
    <2>2. CASE ~Vivo(q)
      BY <2>2 DEF Espacio, Vivo
    <2> QED  BY <2>1, <2>2
  <1>3. /\ DOMAIN Espacio(p) = 1..(Len(procesos[p]) * TAM_PAGINA)
        /\ Espacio(p)' = [k \in 1..(Len(procesos[p]) * TAM_PAGINA) |->
               IF dir < k /\ k <= dir + tam THEN d ELSE Espacio(p)[k]]
    BY <1>1
  <1> QED  BY <1>2, <1>3

\* The bytes of a process are its table's.
LEMMA EspacioIgual ==
  ASSUME NEW q, procesos'[q] = procesos[q], memoria_de_usuario' = memoria_de_usuario
  PROVE  Espacio(q)' = Espacio(q)
  BY DEF Espacio, Vivo, Fisica

\* A stretch of bytes...
Tramo(s, a, b) == SubSeq(s, a + 1, b)

\* ...has its length, and its bytes are those of the sequence...
LEMMA TramoLema ==
  ASSUME NEW s \in Seq(Datos), NEW a \in Nat, NEW b \in Nat, a <= b, b <= Len(s)
  PROVE  /\ Tramo(s, a, b) \in Seq(Datos) /\ Len(Tramo(s, a, b)) = b - a
         /\ \A i \in 1..(b - a) : Tramo(s, a, b)[i] = s[a + i]
  <1>1. \A i \in (a + 1)..b : s[i] \in Datos
    BY LenProperties
  <1>2. /\ SubSeq(s, a + 1, b) \in Seq(Datos)
        /\ Len(SubSeq(s, a + 1, b)) = IF a + 1 <= b THEN b - (a + 1) + 1 ELSE 0
        /\ \A i \in 1..(b - (a + 1) + 1) : SubSeq(s, a + 1, b)[i] = s[a + 1 + i - 1]
    BY <1>1, SubSeqProperties
  <1>3. (IF a + 1 <= b THEN b - (a + 1) + 1 ELSE 0) = b - a /\ b - (a + 1) + 1 = b - a
    OBVIOUS
  <1>4. ASSUME NEW i \in 1..(b - a) PROVE SubSeq(s, a + 1, b)[i] = s[a + i]
    <2>1. a + 1 + i - 1 = a + i
      OBVIOUS
    <2> QED  BY <1>2, <1>3, <2>1
  <1>5. Len(SubSeq(s, a + 1, b)) = b - a
    BY <1>2, <1>3
  <1> QED  BY <1>2, <1>4, <1>5 DEF Tramo

\* ...and those that come after it.
Sigue(s, a, b, c, l) ==
    /\ s \in Seq(Datos) /\ a \in Nat /\ b \in Nat /\ c \in Nat /\ l \in Seq(Datos)
    /\ a <= b /\ c = b + Len(l) /\ c <= Len(s)
    /\ \A k \in 1..Len(l) : l[k] = s[b + k]

\* ...so the two together are the longer stretch.
LEMMA TramoSigue ==
  ASSUME NEW s, NEW a, NEW b, NEW c, NEW l, Sigue(s, a, b, c, l)
  PROVE  Tramo(s, a, b) \o l = Tramo(s, a, c)
  <1>0. /\ s \in Seq(Datos) /\ a \in Nat /\ b \in Nat /\ c \in Nat /\ l \in Seq(Datos)
        /\ a <= b /\ c = b + Len(l) /\ c <= Len(s)
    BY DEF Sigue
  <1>1. PICK n \in Nat, h \in Nat : n = Len(l) /\ h = b - a /\ c - a = h + n
    BY <1>0, LenProperties
  <1>2. b <= Len(s) /\ a <= c
    BY <1>0, <1>1, LenProperties
  <1>3. PICK w \in Seq(Datos) : w = Tramo(s, a, b) /\ Len(w) = h /\ \A i \in 1..h : w[i] = s[a + i]
    <2>1. /\ Tramo(s, a, b) \in Seq(Datos) /\ Len(Tramo(s, a, b)) = b - a
          /\ \A i \in 1..(b - a) : Tramo(s, a, b)[i] = s[a + i]
      BY <1>0, <1>2, TramoLema
    <2> QED  BY <1>1, <2>1
  <1>4. PICK u \in Seq(Datos) : /\ u = Tramo(s, a, c) /\ Len(u) = h + n
                                /\ \A i \in 1..(h + n) : u[i] = s[a + i]
    <2>1. /\ Tramo(s, a, c) \in Seq(Datos) /\ Len(Tramo(s, a, c)) = c - a
          /\ \A i \in 1..(c - a) : Tramo(s, a, c)[i] = s[a + i]
      BY <1>0, <1>2, TramoLema
    <2> QED  BY <1>1, <2>1
  <1>5. PICK v \in Seq(Datos) :
            /\ v = w \o l /\ Len(v) = h + n
            /\ \A i \in 1..(h + n) : v[i] = IF i <= h THEN w[i] ELSE l[i - h]
    <2>1. /\ w \o l \in Seq(Datos) /\ Len(w \o l) = Len(w) + Len(l)
          /\ \A i \in 1..(Len(w) + Len(l)) :
                 (w \o l)[i] = IF i <= Len(w) THEN w[i] ELSE l[i - Len(w)]
      BY <1>0, ConcatProperties
    <2>2. Len(w) = h /\ Len(l) = n
      BY <1>1, <1>3
    <2> QED  BY <2>1, <2>2
  <1>6. ASSUME NEW i \in 1..(h + n) PROVE v[i] = u[i]
    <2>1. CASE i <= h
      <3>1. i \in 1..h
        BY <2>1
      <3> QED  BY <1>3, <1>4, <1>5, <2>1, <3>1
    <2>2. CASE i > h
      <3>1. PICK k \in 1..n : k = i - h
        BY <2>2
      <3>2. b + k = a + i
        BY <1>0, <1>1, <3>1
      <3>3. l[k] = s[a + i]
        BY <1>1, <3>1, <3>2 DEF Sigue
      <3>4. v[i] = l[k]
        BY <1>5, <2>2, <3>1
      <3> QED  BY <1>4, <3>3, <3>4
    <2> QED  BY <2>1, <2>2
  <1>7. v = u
    BY <1>4, <1>5, <1>6, SeqEqual
  <1> QED  BY <1>3, <1>4, <1>5, <1>7

\* What is read of a page are bytes of its process, in order.
LEMMA LeidoLema ==
  ASSUME MarcosInv, memoria_de_usuario \in [Direccion -> Datos],
         NEW p \in Pid, Vivo(p), NEW dir \in Nat, NEW tam \in Nat,
         num_pagina(dir) < Len(procesos[p]), (dir % TAM_PAGINA) + tam <= TAM_PAGINA
  PROVE  /\ Leida(Fisica(p, dir), tam) \in Seq(Datos) /\ Len(Leida(Fisica(p, dir), tam)) = tam
         /\ dir + tam <= Len(Espacio(p))
         /\ \A k \in 1..tam : Leida(Fisica(p, dir), tam)[k] = Espacio(p)[dir + k]
  <1>1. PICK base \in Direccion : base = Fisica(p, dir) /\ base % TAM_PAGINA = dir % TAM_PAGINA
    BY FisicaLema
  <1>2. /\ Leida(base, tam) \in Seq(Datos) /\ Len(Leida(base, tam)) = tam
        /\ \A k \in 1..tam : Leida(base, tam)[k] = memoria_de_usuario[base + k - 1]
    BY <1>1, LeidaLema
  <1>3. PICK total \in Nat : /\ total = Len(procesos[p]) * TAM_PAGINA /\ total = Len(Espacio(p))
                             /\ \A k \in 1..total : Espacio(p)[k] = memoria_de_usuario[Fisica(p, k - 1)]
    BY EspacioLema
  <1>4. dir + tam <= total
    <2>1. PICK largo \in Nat : largo = Len(procesos[p])
      BY TablaDe
    <2> QED  BY <1>3, <2>1, PaginaMenor
  <1>5. ASSUME NEW k \in 1..tam PROVE memoria_de_usuario[base + k - 1] = Espacio(p)[dir + k]
    <2>1. PICK j \in Nat : j = k - 1 /\ j < tam
      OBVIOUS
    <2>2. (dir % TAM_PAGINA) + j < TAM_PAGINA
      <3>1. TAM_PAGINA \in Nat /\ dir % TAM_PAGINA \in Nat
        BY PaginaDe
      <3> QED  BY <2>1, <3>1
    <2>3. procesos[p][num_pagina(dir) + 1] \in Nat
      BY FisicaLema DEF Marco
    <2>4. Fisica(p, dir + j) = base + j
      BY <1>1, <2>2, <2>3, Seguidos
    <2>5. dir + k \in 1..total /\ dir + k - 1 = dir + j /\ base + k - 1 = base + j
      <3>1. base \in Int
        BY DEF Direccion
      <3> QED  BY <1>4, <2>1, <3>1
    <2>6. PICK e \in 1..total : e = dir + k
      BY <2>5
    <2>7. Espacio(p)[e] = memoria_de_usuario[Fisica(p, e - 1)]
      BY <1>3
    <2> QED  BY <2>4, <2>5, <2>6, <2>7
  <1> QED  BY <1>1, <1>2, <1>3, <1>4, <1>5

\* What an interface copies is a stretch of its process, in one page.
LEMMA CopiaLema ==
  ASSUME ~MataEnIo, MarcosInv, Resto, NEW i \in Interfaces, IoCopia(i)
  PROVE  \E p \in Pid, dir \in Nat, tam \in Nat :
             /\ p = io[i].pid /\ Vivo(p) /\ estado[p] = "io"
             /\ num_pagina(dir) < Len(procesos[p]) /\ (dir % TAM_PAGINA) + tam <= TAM_PAGINA
             /\ Bloque(i).base = Fisica(p, dir) /\ Bloque(i).tamanio = tam
             /\ dir + tam <= Len(procesos[p]) * TAM_PAGINA
             /\ io[i].op = "stdout" => dir = io[i].inicio + Len(io[i].buffer)
  <1>1. io[i] # NoExiste /\ io[i].bloques # <<>>
    BY DEF IoCopia, Opera
  <1>2. PICK v \in PedidoDeIo : v = io[i]
    BY <1>1 DEF Resto, IoInv
  <1>3. PICK p \in Pid, bs \in Seq(BloqueFisico), inicio \in Nat :
            p = v.pid /\ bs = v.bloques /\ inicio = v.inicio
    BY PedidoDeIoLema
  <1>4. estado[p] = "io" /\ Vivo(p)
    <2>1. estado[p] = "io"
      BY <1>1, <1>2, <1>3 DEF Resto, IoInv
    <2> QED  BY <2>1 DEF MarcosInv
  <1>5. PICK dir \in inicio..(Len(procesos[p]) * TAM_PAGINA) :
            /\ BloquesDe(p, bs, dir)
            /\ v.op = "stdout" => dir = inicio + Len(v.buffer)
    BY <1>1, <1>2, <1>3, <1>4 DEF Resto, DireccionVigente, VigenteEnIo
  <1>6. dir \in Nat
    OBVIOUS
  <1>7. /\ Head(bs).tamanio \in Nat
        /\ num_pagina(dir) < Len(procesos[p]) /\ Head(bs).base = Fisica(p, dir)
        /\ (dir % TAM_PAGINA) + Head(bs).tamanio <= TAM_PAGINA
        /\ dir + Head(bs).tamanio <= Len(procesos[p]) * TAM_PAGINA
    BY <1>1, <1>2, <1>3, <1>4, <1>5, <1>6, RestoDeBloques
  <1>8. Bloque(i) = Head(bs)
    BY <1>2, <1>3 DEF Bloque
  <1>9. PICK tam \in Nat : tam = Head(bs).tamanio
    BY <1>7
  <1> QED  BY <1>2, <1>3, <1>4, <1>5, <1>6, <1>7, <1>8, <1>9

-----------------------------------------------------------------------------
(* What is read                                                             *)

\* What LeeLoSuyo says of the process in the CPU, and of an interface.
LeeDeCpu(p) == acceso.buffer = SubSeq(Espacio(p), acceso.inicio + 1, acceso.dir)
LeeDeIo(i) == io[i].buffer = SubSeq(Espacio(io[i].pid), io[i].inicio + 1,
                                    io[i].inicio + Len(io[i].buffer))

\* Who goes on reading, from bytes that did not change, has read what it had.
LEMMA LeeSigue ==
  ASSUME Resto, LeeLoSuyo,
         \A p \in Pid : (EnAcceso(p)' /\ acceso'.op = "leer") =>
             \/ LeeDeCpu(p)'
             \/ acceso' = acceso /\ EnAcceso(p) /\ Vivo(p) /\ Espacio(p)' = Espacio(p),
         \A i \in Interfaces : io'[i] # NoExiste =>
             \/ LeeDeIo(i)'
             \/ /\ io'[i] = io[i]
                /\ \A q \in Pid : q = io[i].pid =>
                       Espacio(q)' = Espacio(q) /\ (Vivo(q)' => Vivo(q))
  PROVE  LeeLoSuyo'
  <1>1. ASSUME NEW p \in Pid, EnAcceso(p)', acceso'.op = "leer" PROVE LeeDeCpu(p)'
    <2>1. CASE acceso' = acceso /\ EnAcceso(p) /\ Vivo(p) /\ Espacio(p)' = Espacio(p)
      <3>1. LeeDeCpu(p)
        BY <1>1, <2>1 DEF LeeLoSuyo, LeeDeCpu, Vivos
      <3> QED  BY <2>1, <3>1 DEF LeeDeCpu
    <2> QED  BY <1>1, <2>1
  <1>2. ASSUME NEW i \in Interfaces, io'[i] # NoExiste, Vivo(io[i].pid)' PROVE LeeDeIo(i)'
    <2>1. CASE /\ io'[i] = io[i]
               /\ \A q \in Pid : q = io[i].pid => Espacio(q)' = Espacio(q) /\ (Vivo(q)' => Vivo(q))
      <3>1. PICK v \in PedidoDeIo : v = io[i]
        BY <1>2, <2>1 DEF Resto, IoInv
      <3>2. PICK q \in Pid : q = v.pid
        BY PedidoDeIoLema
      <3>3. Vivo(q)'
        BY <1>2, <2>1, <3>1, <3>2 DEF Vivo
      <3>4. Espacio(q)' = Espacio(q) /\ Vivo(q)
        BY <2>1, <3>1, <3>2, <3>3
      <3>5. v.buffer = SubSeq(Espacio(q), v.inicio + 1, v.inicio + Len(v.buffer))
        BY <1>2, <2>1, <3>1, <3>2, <3>4 DEF LeeLoSuyo
      <3>6. io'[i] = v
        BY <2>1, <3>1
      <3>7. Espacio(v.pid)' = Espacio(q)
        BY <3>2, <3>4
      <3> QED  BY <3>5, <3>6, <3>7 DEF LeeDeIo
    <2> QED  BY <1>2, <2>1
  <1> QED  BY <1>1, <1>2 DEF LeeLoSuyo, LeeDeCpu, LeeDeIo, Vivos

\* Without kills in an interface, who has a request in one is there.
LEMMA EnInterfaz ==
  ASSUME ~MataEnIo, MarcosInv, Resto, NEW i \in Interfaces, io[i] # NoExiste
  PROVE  io[i] \in PedidoDeIo /\ io[i].pid \in Pid /\ estado[io[i].pid] = "io" /\ Vivo(io[i].pid)
  <1>1. PICK v \in PedidoDeIo : v = io[i]
    BY DEF Resto, IoInv
  <1>2. v.pid \in Pid
    BY PedidoDeIoLema
  <1>3. estado[v.pid] = "io"
    BY <1>1 DEF Resto, IoInv
  <1> QED  BY <1>1, <1>2, <1>3 DEF MarcosInv

\* Steps that change nobody's bytes nor what is being read.
LEMMA LeeQuieta ==
  ASSUME MarcosInv, Resto, LeeLoSuyo,
         \/ LiberarMarcos \/ UNCHANGED vars
         \/ \E p \in Pid : Despachar(p) \/ Desalojar(p) \/ PaginaInexistente(p)
         \/ \E i \in Interfaces : IoVerifica(i) \/ IoSinProceso(i) \/ IoTermina(i)
  PROVE  LeeLoSuyo'
  <1>1. UNCHANGED <<procesos, memoria_de_usuario, acceso>>
    BY DEF LiberarMarcos, vars, memoria, cpu, Despachar, Desalojar, PaginaInexistente,
           IoVerifica, IoSinProceso, IoTermina
  <1>2. \A q : Espacio(q)' = Espacio(q) /\ (Vivo(q)' <=> Vivo(q))
    BY <1>1, EspacioIgual DEF Vivo
  <1>3. ASSUME NEW p \in Pid, EnAcceso(p)' PROVE EnAcceso(p) /\ Vivo(p)
    <2>1. ASSUME NEW q \in Pid, Despachar(q) PROVE FALSE
      <3>1. \E r \in Pid : estado[r] = "cpu"
        BY <1>1, <1>3 DEF EnAcceso, Resto, CpuInv
      <3> QED  BY <2>1, <3>1 DEF Despachar
    <2>2. EnAcceso(p)
      <3>1. CASE \E q \in Pid : Desalojar(q) \/ PaginaInexistente(q)
        BY <1>1, <1>3, <3>1 DEF Desalojar, PaginaInexistente, EnAcceso, EnCpu
      <3>2. CASE LiberarMarcos \/ UNCHANGED vars
        BY <1>3, <3>2 DEF LiberarMarcos, vars, cpu, EnAcceso, EnCpu
      <3>3. ASSUME NEW i \in Interfaces, IoVerifica(i) \/ IoSinProceso(i) PROVE EnAcceso(p)
        BY <1>3, <3>3 DEF IoVerifica, IoSinProceso, cpu, EnAcceso, EnCpu
      <3>4. ASSUME NEW i \in Interfaces, IoTermina(i) PROVE EnAcceso(p)
        <4>1. PICK v \in {io[i].pid} : v = io[i].pid
          OBVIOUS
        <4>2. estado' = [estado EXCEPT ![v] = IF @ = "io" THEN "listo" ELSE @]
          BY <3>4, <4>1 DEF IoTermina
        <4>3. estado[p] = "cpu"
          BY <1>3, <4>2 DEF EnAcceso, EnCpu, MarcosInv
        <4> QED  BY <1>1, <1>3, <3>4, <4>3 DEF IoTermina, EnAcceso, EnCpu
      <3> QED  BY <2>1, <3>1, <3>2, <3>3, <3>4
    <2>3. EnCpu(p)
      BY <2>2 DEF EnAcceso
    <2> QED  BY <2>2, <2>3, EnCpuVivo
  <1>4. ASSUME NEW i \in Interfaces, io'[i] # NoExiste
        PROVE  io'[i] = io[i] \/ LeeDeIo(i)'
    <2>1. CASE IoVerifica(i)
      <3>1. io[i] # NoExiste /\ io' = [io EXCEPT ![i].verificado = TRUE]
        BY <2>1 DEF IoVerifica, Opera
      <3>2. PICK v \in PedidoDeIo : v = io[i]
        BY <3>1 DEF Resto, IoInv
      <3>3. PICK r : r = [v EXCEPT !.verificado = TRUE]
        OBVIOUS
      <3>4. r.pid = v.pid /\ r.buffer = v.buffer /\ r.inicio = v.inicio
        BY <3>3 DEF PedidoDeIo
      <3>5. io'[i] = r
        BY <3>1, <3>2, <3>3 DEF Resto, IoInv
      <3>6. Vivo(v.pid)
        BY <2>1, <3>2 DEF IoVerifica
      <3>7. v.buffer = SubSeq(Espacio(v.pid), v.inicio + 1, v.inicio + Len(v.buffer))
        BY <3>1, <3>2, <3>6 DEF LeeLoSuyo
      <3>8. Espacio(v.pid)' = Espacio(v.pid)
        BY <1>2
      <3> QED  BY <3>4, <3>5, <3>7, <3>8 DEF LeeDeIo
    <2>2. ASSUME NEW j \in Interfaces, j # i, IoVerifica(j) \/ IoTermina(j) PROVE io'[i] = io[i]
      BY <2>2 DEF IoVerifica, IoTermina, Resto, IoInv
    <2>3. ~IoTermina(i)
      BY <1>4 DEF IoTermina, Resto, IoInv
    <2>4. CASE io' = io
      BY <2>4
    <2> QED  BY <2>1, <2>2, <2>3, <2>4 DEF LiberarMarcos, vars, cpu, Despachar, Desalojar,
                PaginaInexistente, IoSinProceso
  <1> QED  BY <1>1, <1>2, <1>3, <1>4, LeeSigue

\* A step of the process in the CPU: the others' bytes stay, and what it reads next is its own.
LEMMA LeePorCpu ==
  ASSUME ~MataEnIo, MarcosInv, Resto, LeeLoSuyo, NEW p \in Pid, EnCpu(p),
         \A q \in Pid : q # p => /\ estado'[q] = estado[q]
                                 /\ Espacio(q)' = Espacio(q) /\ (Vivo(q)' => Vivo(q)),
         EnAcceso(p)' /\ acceso'.op = "leer" => LeeDeCpu(p)',
         io' = io
  PROVE  LeeLoSuyo'
  <1>1. estado[p] = "cpu"
    BY DEF EnCpu
  <1>2. ASSUME NEW q \in Pid, EnAcceso(q)' PROVE q = p
    <2>1. estado'[q] = "cpu"
      BY <1>2 DEF EnAcceso, EnCpu
    <2>2. q # p => estado[q] = "cpu"
      BY <2>1
    <2> QED  BY <1>1, <2>2 DEF Resto, CpuInv
  <1>3. ASSUME NEW i \in Interfaces, io'[i] # NoExiste, NEW q \in Pid, q = io[i].pid
        PROVE  Espacio(q)' = Espacio(q) /\ (Vivo(q)' => Vivo(q))
    <2>1. estado[q] = "io"
      BY <1>3, EnInterfaz
    <2>2. q # p
      BY <1>1, <2>1
    <2> QED  BY <2>2
  <1> QED  BY <1>2, <1>3, LeeSigue

\* The CPU reads a piece: it goes after what was read.
LEMMA LeePieza ==
  ASSUME MarcosInv, Resto, LeeLoSuyo, NEW p \in Pid, leer_una_pagina(p)
  PROVE  LeeDeCpu(p)'
  <1>1. /\ Pedido(p) /\ acceso.op = "leer" /\ Avanzar(acceso.buffer \o Leida(acceso.fisica, Pieza))
        /\ UNCHANGED <<procesos, memoria_de_usuario>>
    BY DEF leer_una_pagina, memoria
  <1>2. /\ EnAcceso(p) /\ acceso # NoExiste /\ acceso.op # "resize" /\ Vivo(p) /\ p \in Vivos
        /\ AvanceDe(p)
    BY <1>1, PedidoLema
  <1>3. memoria_de_usuario \in [Direccion -> Datos] /\ CpuInv
    BY DEF Resto, IoInv
  <1>4. PICK inicio \in Nat, dir \in Nat, tam \in Nat, b \in Seq(Datos) :
            /\ inicio = acceso.inicio /\ dir = acceso.dir /\ tam = Pieza /\ b = acceso.buffer
            /\ num_pagina(dir) < Len(procesos[p]) /\ acceso.fisica = Fisica(p, dir)
            /\ (dir % TAM_PAGINA) + tam <= TAM_PAGINA
    <2>1. acceso.inicio \in Nat /\ acceso.dir \in Nat /\ acceso.buffer \in Seq(Datos)
      BY <1>1, <1>2, <1>3, AccesoLema DEF OpDeCpu
    <2> QED  BY <1>1, <2>1, PedidoLema
  <1>5. PICK l \in Seq(Datos), e \in Seq(Datos) :
            /\ l = Leida(Fisica(p, dir), tam) /\ Len(l) = tam /\ e = Espacio(p)
            /\ dir + tam <= Len(e) /\ \A k \in 1..tam : l[k] = e[dir + k]
            /\ Len(e) = Len(procesos[p]) * TAM_PAGINA
    <2>1. Espacio(p) \in Seq(Datos) /\ Len(Espacio(p)) = Len(procesos[p]) * TAM_PAGINA
      BY <1>2, <1>3, EspacioLema
    <2> QED  BY <1>2, <1>3, <1>4, <2>1, LeidoLema
  <1>6. inicio <= dir
    BY <1>2, <1>4, <1>5 DEF AvanceDe
  <1>7. b = Tramo(e, inicio, dir)
    BY <1>1, <1>2, <1>4, <1>5 DEF LeeLoSuyo, Tramo
  <1>8. b \o l = Tramo(e, inicio, dir + tam)
    <2>1. PICK c \in Nat : c = dir + Len(l) /\ c = dir + tam /\ c <= Len(e)
      BY <1>5
    <2>2. Sigue(e, inicio, dir, c, l)
      BY <1>5, <1>6, <2>1 DEF Sigue
    <2>3. Tramo(e, inicio, dir) \o l = Tramo(e, inicio, c)
      BY <2>2, TramoSigue
    <2> QED  BY <1>7, <2>1, <2>3
  <1>9. acceso'.inicio = inicio /\ acceso'.dir = dir + tam /\ acceso'.buffer = b \o l
    <2>1. PICK bl : bl = acceso.buffer \o Leida(acceso.fisica, Pieza)
      OBVIOUS
    <2>2. acceso' = [op |-> acceso.op, inicio |-> acceso.inicio, dir |-> acceso.dir + Pieza,
                     restante |-> acceso.restante - Pieza, dato |-> acceso.dato,
                     fisica |-> NoExiste, buffer |-> bl]
      BY <1>1, <2>1, AvanzarLema
    <2>3. bl = b \o l
      BY <1>4, <1>5, <2>1
    <2> QED  BY <1>4, <2>2, <2>3
  <1>10. Espacio(p)' = e
    BY <1>1, <1>5, EspacioIgual
  <1> QED  BY <1>8, <1>9, <1>10 DEF LeeDeCpu, Tramo

\* The steps of the CPU that leave the memory as it is.
LEMMA LeeSinEscribir ==
  ASSUME ~MataEnIo, MarcosInv, Resto, LeeLoSuyo, NEW p \in Pid,
         \/ Accesos(p) \/ Traducir(p) \/ leer_una_pagina(p) \/ AgregarBloque(p)
         \/ TerminarAcceso(p) \/ SinMemoria(p) \/ \E tam \in 0..MaxTam : exec_resize(p, tam)
  PROVE  LeeLoSuyo'
  <1>1. /\ EnCpu(p) /\ io' = io /\ UNCHANGED <<procesos, memoria_de_usuario>>
        /\ estado' = estado \/ estado' = [estado EXCEPT ![p] = "termina"]
    BY DEF Accesos, Empezar, Traducir, leer_una_pagina, AgregarBloque, TerminarAcceso, SinMemoria,
           exec_resize, EnAcceso, Pedido, Completa, Redimensiona, memoria
  <1>2. \A q : Espacio(q)' = Espacio(q) /\ (Vivo(q)' <=> Vivo(q))
    BY <1>1, EspacioIgual DEF Vivo
  <1>3. \A q \in Pid : q # p => estado'[q] = estado[q]
    BY <1>1 DEF MarcosInv
  <1>4. ASSUME EnAcceso(p)', acceso'.op = "leer" PROVE LeeDeCpu(p)'
    <2>1. CASE Accesos(p)
      <3>1. PICK op \in {"leer", "escribir", "stdin", "stdout"}, tam \in 1..MaxTam :
                \E dir \in 0..(MaxTam - tam) :
                    \E d \in (IF op \in {"escribir", "stdin"} THEN Datos ELSE {Cero}) :
                        Empezar(p, op, dir, tam, d)
        BY <2>1 DEF Accesos
      <3>2. PICK dir \in 0..(MaxTam - tam) :
                acceso'.buffer = <<>> /\ acceso'.inicio = dir /\ acceso'.dir = dir
        BY <3>1 DEF Empezar
      <3>3. dir \in Int
        OBVIOUS
      <3>4. PICK e : e = Espacio(p)
        OBVIOUS
      <3>5. SubSeq(e, dir + 1, dir) = <<>>
        BY <3>3, SubSeqEmpty
      <3>6. Espacio(p)' = e
        BY <1>2, <3>4
      <3> QED  BY <3>2, <3>5, <3>6 DEF LeeDeCpu
    <2>2. CASE Traducir(p)
      <3>1. /\ EnAcceso(p) /\ acceso # NoExiste /\ acceso.op # "resize"
            /\ acceso' = [acceso EXCEPT !.fisica = obtener_direccion_fisica(p, acceso.dir)]
        BY <2>2 DEF Traducir, EnAcceso
      <3>2. PICK f : f = obtener_direccion_fisica(p, acceso.dir)
        OBVIOUS
      <3>3. PICK a \in {acceso} : a = [op |-> a.op, inicio |-> a.inicio, dir |-> a.dir,
                                       restante |-> a.restante, dato |-> a.dato,
                                       fisica |-> a.fisica, buffer |-> a.buffer]
        BY <3>1, AccesoLema DEF Resto
      <3>4. acceso' = [a EXCEPT !.fisica = f] /\ a = acceso
        BY <3>1, <3>2
      <3>5. /\ acceso'.op = a.op /\ acceso'.buffer = a.buffer /\ acceso'.inicio = a.inicio
            /\ acceso'.dir = a.dir
        BY <3>3, <3>4
      <3>6. Vivo(p) /\ p \in Vivos
        BY <1>1, EnCpuVivo
      <3>7. a.buffer = SubSeq(Espacio(p), a.inicio + 1, a.dir)
        BY <1>4, <3>1, <3>4, <3>5, <3>6 DEF LeeLoSuyo
      <3> QED  BY <1>2, <3>5, <3>7 DEF LeeDeCpu
    <2>3. CASE leer_una_pagina(p)
      BY <2>3, LeePieza
    <2>4. CASE AgregarBloque(p)
      <3>1. /\ Pedido(p) /\ acceso.op \in {"stdin", "stdout"}
            /\ Avanzar(Append(acceso.buffer, [base |-> acceso.fisica, tamanio |-> Pieza]))
        BY <2>4 DEF AgregarBloque
      <3>2. acceso'.op = acceso.op
        BY <3>1, AvanzarLema
      <3> QED  BY <1>4, <3>1, <3>2
    <2>5. CASE TerminarAcceso(p) \/ SinMemoria(p)
      BY <1>4, <2>5 DEF TerminarAcceso, SinMemoria, FinInstruccion, EnAcceso
    <2>6. ASSUME NEW tam \in 0..MaxTam, exec_resize(p, tam) PROVE FALSE
      BY <1>4, <2>6 DEF exec_resize
    <2> QED  BY <2>1, <2>2, <2>3, <2>4, <2>5, <2>6
  <1> QED  BY <1>1, <1>2, <1>3, <1>4, LeePorCpu
-----------------------------------------------------------------------------
(* What the steps do to the bytes                                           *)

\* The address space of a live process, after a step too.
EspacioDe(p) ==
    /\ Espacio(p) \in Seq(Datos) /\ Espacio(p) # NoExiste
    /\ DOMAIN Espacio(p) = 1..Len(Espacio(p))
    /\ \A k \in DOMAIN Espacio(p) :
           /\ k - 1 \in Nat /\ num_pagina(k - 1) < Len(procesos[p])
           /\ Espacio(p)[k] = memoria_de_usuario[Fisica(p, k - 1)]

\* Every live process has one...
LEMMA EspacioDeTodos ==
  MarcosInv /\ memoria_de_usuario \in [Direccion -> Datos] =>
      \A q \in Pid : Vivo(q) => EspacioDe(q)
  BY EspacioLema DEF EspacioDe

\* ...in the next state as in this one...
LEMMA EspacioDeTodosLuego ==
  (MarcosInv /\ memoria_de_usuario \in [Direccion -> Datos] =>
      \A q \in Pid : Vivo(q) => EspacioDe(q))'
  BY EspacioDeTodos, PTL

\* ...so whoever lives after the step does.
LEMMA EspacioDespues ==
  ASSUME MarcosInv', memoria_de_usuario' \in [Direccion -> Datos], NEW p \in Pid, Vivo(p)'
  PROVE  EspacioDe(p)'
  BY EspacioDeTodosLuego

\* A table that changes keeps the bytes of the pages it keeps.
LEMMA TablaCambia ==
  ASSUME MarcosInv, MarcosInv', memoria_de_usuario \in [Direccion -> Datos],
         memoria_de_usuario' = memoria_de_usuario,
         NEW p \in Pid, Vivo(p), Vivo(p)',
         \A n \in Nat : n < Len(procesos[p]) /\ n < Len(procesos'[p]) =>
             procesos'[p][n + 1] = procesos[p][n + 1]
  PROVE  /\ Espacio(p)' \in Seq(Datos)
         /\ \A k \in DOMAIN Espacio(p) \cap DOMAIN Espacio(p)' : Espacio(p)'[k] = Espacio(p)[k]
  <1>1. EspacioDe(p)
    BY EspacioDeTodos
  <1>2. EspacioDe(p)'
    BY EspacioDespues
  <1>3. ASSUME NEW k \in DOMAIN Espacio(p) \cap DOMAIN Espacio(p)'
        PROVE  Espacio(p)'[k] = Espacio(p)[k]
    <2>1. PICK e \in Nat : e = k - 1
      BY <1>1, <1>3 DEF EspacioDe
    <2>2. PICK n \in Nat : n = num_pagina(e)
      BY PaginaDe
    <2>3. n < Len(procesos[p]) /\ Espacio(p)[k] = memoria_de_usuario[Fisica(p, e)]
      BY <1>1, <1>3, <2>1, <2>2 DEF EspacioDe
    <2>4. n < Len(procesos'[p]) /\ Espacio(p)'[k] = memoria_de_usuario[Fisica(p, e)']
      BY <1>2, <1>3, <2>1, <2>2 DEF EspacioDe
    <2>5. procesos'[p][n + 1] = procesos[p][n + 1]
      BY <2>3, <2>4
    <2>6. Fisica(p, e)' = Fisica(p, e)
      BY <2>2, <2>5 DEF Fisica
    <2> QED  BY <2>3, <2>4, <2>6
  <1> QED  BY <1>2, <1>3 DEF EspacioDe

\* RESIZE, upwards or downwards.
LEMMA RedimensionaEspacio ==
  ASSUME MarcosInv, MarcosInv', Resto, NEW p \in Pid, ampliar_proceso(p) \/ reducir_proceso(p)
  PROVE  /\ EnCpu(p) /\ acceso' = NoExiste /\ io' = io /\ estado' = estado
         /\ Vivo(p) /\ Vivo(p)'
         /\ \A q \in Pid : q # p => Espacio(q)' = Espacio(q) /\ (Vivo(q)' <=> Vivo(q))
         /\ Espacio(p)' \in Seq(Datos)
         /\ \A k \in DOMAIN Espacio(p) \cap DOMAIN Espacio(p)' : Espacio(p)'[k] = Espacio(p)[k]
  <1>1. /\ EnCpu(p) /\ acceso' = NoExiste /\ io' = io /\ estado' = estado
        /\ memoria_de_usuario' = memoria_de_usuario
    BY DEF ampliar_proceso, reducir_proceso, Redimensiona, FinInstruccion
  <1>2. Vivo(p)
    BY <1>1, EnCpuVivo
  <1>3. PICK u \in Seq(Marco) :
            /\ procesos' = [procesos EXCEPT ![p] = u]
            /\ \A n \in Nat : n < Len(procesos[p]) /\ n < Len(u) => u[n + 1] = procesos[p][n + 1]
    <2>1. CASE ampliar_proceso(p)
      BY <2>1, AmpliarTabla
    <2>2. CASE reducir_proceso(p)
      <3>1. PICK u \in Seq(Marco) :
                /\ procesos' = [procesos EXCEPT ![p] = u] /\ Len(u) = Paginas
                /\ \A k \in Nat : k < Paginas => k < Len(procesos[p]) /\ u[k + 1] = procesos[p][k + 1]
        BY <2>2, ReducirTabla
      <3>2. \A n \in Nat : n < Len(procesos[p]) /\ n < Len(u) => u[n + 1] = procesos[p][n + 1]
        BY <3>1
      <3> QED  BY <3>1, <3>2
    <2> QED  BY <2>1, <2>2
  <1>4. procesos' = [procesos EXCEPT ![p] = u]
    BY <1>3
  <1>5. procesos'[p] = u /\ \A q \in Pid : q # p => procesos'[q] = procesos[q]
    BY <1>4 DEF MarcosInv
  <1>6. u # NoExiste
    BY TablaLema
  <1>7. Vivo(p)'
    BY <1>5, <1>6 DEF Vivo
  <1>8. \A n \in Nat : n < Len(procesos[p]) /\ n < Len(procesos'[p]) =>
            procesos'[p][n + 1] = procesos[p][n + 1]
    BY <1>3, <1>5
  <1>9. memoria_de_usuario \in [Direccion -> Datos]
    BY DEF Resto, IoInv
  <1>10. /\ Espacio(p)' \in Seq(Datos)
         /\ \A k \in DOMAIN Espacio(p) \cap DOMAIN Espacio(p)' : Espacio(p)'[k] = Espacio(p)[k]
    BY <1>1, <1>2, <1>7, <1>8, <1>9, TablaCambia
  <1>11. \A q \in Pid : q # p => Espacio(q)' = Espacio(q) /\ (Vivo(q)' <=> Vivo(q))
    BY <1>1, <1>5, EspacioIgual DEF Vivo
  <1> QED  BY <1>1, <1>2, <1>7, <1>10, <1>11
\* The step writes d in the bytes of p from dir on, and changes no other.
Escrito(p, dir, tam, d) ==
    /\ d \in Datos /\ dir + tam <= Len(Espacio(p)) /\ procesos' = procesos
    /\ \A q \in Pid : q # p => Espacio(q)' = Espacio(q)
    /\ Espacio(p)' = [k \in DOMAIN Espacio(p) |->
                         IF dir < k /\ k <= dir + tam THEN d ELSE Espacio(p)[k]]

\* The CPU writes in the process it executes.
LEMMA EscribeEspacio ==
  ASSUME MarcosInv, Resto, NEW p \in Pid, escribir_una_pagina(p)
  PROVE  /\ EnCpu(p) /\ Vivo(p) /\ acceso'.op = "escribir" /\ io' = io /\ estado' = estado
         /\ \E dir \in Nat, tam \in Nat, d \in Datos : Escrito(p, dir, tam, d)
  <1>1. /\ Pedido(p) /\ acceso.op = "escribir" /\ Avanzar(<<>>)
        /\ memoria_de_usuario' = Escrita(acceso.fisica, Pieza, acceso.dato)
        /\ procesos' = procesos /\ io' = io /\ estado' = estado
    BY DEF escribir_una_pagina
  <1>2. EnCpu(p) /\ Vivo(p) /\ acceso # NoExiste /\ acceso.op # "resize"
    BY <1>1, PedidoLema
  <1>3. memoria_de_usuario \in [Direccion -> Datos] /\ CpuInv
    BY DEF Resto, IoInv
  <1>4. PICK dir \in Nat, tam \in Nat, d \in Datos :
            /\ dir = acceso.dir /\ tam = Pieza /\ d = acceso.dato
            /\ num_pagina(dir) < Len(procesos[p]) /\ acceso.fisica = Fisica(p, dir)
            /\ (dir % TAM_PAGINA) + tam <= TAM_PAGINA
    <2>1. acceso.dir \in Nat /\ acceso.dato \in Datos
      BY <1>2, <1>3, AccesoLema
    <2> QED  BY <1>1, <2>1, PedidoLema
  <1>5. acceso'.op = "escribir"
    BY <1>1, AvanzarLema
  <1>6. memoria_de_usuario' = Escrita(Fisica(p, dir), tam, d)
    BY <1>1, <1>4
  <1>7. /\ \A q \in Pid : q # p => Espacio(q)' = Espacio(q)
        /\ Espacio(p)' = [k \in DOMAIN Espacio(p) |->
                             IF dir < k /\ k <= dir + tam THEN d ELSE Espacio(p)[k]]
    BY <1>1, <1>2, <1>3, <1>4, <1>6, EspacioEscrito
  <1>8. dir + tam <= Len(Espacio(p))
    BY <1>2, <1>3, <1>4, LeidoLema
  <1>9. Escrito(p, dir, tam, d)
    BY <1>1, <1>7, <1>8 DEF Escrito
  <1> QED  BY <1>1, <1>2, <1>5, <1>9

\* An interface copies to the process that waits for it, or from it.
LEMMA CopiaEspacio ==
  ASSUME ~MataEnIo, MarcosInv, Resto, NEW i \in Interfaces, IoCopia(i)
  PROVE  \E p \in Pid :
             /\ p = io[i].pid /\ Vivo(p) /\ estado[p] = "io" /\ procesos' = procesos
             /\ \/ \A q \in Pid : Espacio(q)' = Espacio(q)
                \/ \E dir \in Nat, tam \in Nat, d \in Datos : Escrito(p, dir, tam, d)
             /\ io[i].op = "stdout" => Espacio(p)' = Espacio(p)
  <1>1. /\ io[i] # NoExiste /\ procesos' = procesos
        /\ memoria_de_usuario' = IF io[i].op = "stdin"
                                 THEN Escrita(Bloque(i).base, Bloque(i).tamanio, io[i].dato)
                                 ELSE memoria_de_usuario
    BY DEF IoCopia, Opera
  <1>2. PICK p \in Pid, dir \in Nat, tam \in Nat :
            /\ p = io[i].pid /\ Vivo(p) /\ estado[p] = "io"
            /\ num_pagina(dir) < Len(procesos[p]) /\ (dir % TAM_PAGINA) + tam <= TAM_PAGINA
            /\ Bloque(i).base = Fisica(p, dir) /\ Bloque(i).tamanio = tam
    BY CopiaLema
  <1>3. PICK d \in Datos : d = io[i].dato
    <2>1. PICK v \in PedidoDeIo : v = io[i]
      BY <1>1 DEF Resto, IoInv
    <2>2. v.dato \in Datos
      BY PedidoDeIoLema
    <2> QED  BY <2>1, <2>2
  <1>4. CASE io[i].op = "stdin"
    <2>1. memoria_de_usuario \in [Direccion -> Datos]
      BY DEF Resto, IoInv
    <2>2. memoria_de_usuario' = Escrita(Fisica(p, dir), tam, d)
      BY <1>1, <1>2, <1>3, <1>4
    <2>3. /\ \A q \in Pid : q # p => Espacio(q)' = Espacio(q)
          /\ Espacio(p)' = [k \in DOMAIN Espacio(p) |->
                               IF dir < k /\ k <= dir + tam THEN d ELSE Espacio(p)[k]]
      BY <1>1, <1>2, <2>1, <2>2, EspacioEscrito
    <2>4. dir + tam <= Len(Espacio(p))
      BY <1>2, <2>1, LeidoLema
    <2>5. Escrito(p, dir, tam, d)
      BY <1>1, <2>3, <2>4 DEF Escrito
    <2>6. io[i].op # "stdout"
      BY <1>4
    <2> QED  BY <1>1, <1>2, <2>5, <2>6
  <1>5. CASE io[i].op # "stdin"
    <2>1. memoria_de_usuario' = memoria_de_usuario
      BY <1>1, <1>5
    <2>2. \A q \in Pid : Espacio(q)' = Espacio(q)
      BY <1>1, <2>1, EspacioIgual
    <2> QED  BY <1>1, <1>2, <2>2
  <1> QED  BY <1>4, <1>5

\* The steps of the CPU that write, or move pages.
LEMMA LeeAlEscribir ==
  ASSUME ~MataEnIo, MarcosInv, MarcosInv', Resto, LeeLoSuyo, NEW p \in Pid,
         escribir_una_pagina(p) \/ ampliar_proceso(p) \/ reducir_proceso(p)
  PROVE  LeeLoSuyo'
  <1>1. CASE escribir_una_pagina(p)
    <2>1. EnCpu(p) /\ acceso'.op = "escribir" /\ io' = io /\ estado' = estado /\ procesos' = procesos
      BY <1>1, EscribeEspacio DEF Escrito
    <2>2. \A q \in Pid : q # p => Espacio(q)' = Espacio(q)
      BY <1>1, EscribeEspacio DEF Escrito
    <2>3. \A q \in Pid : Vivo(q)' => Vivo(q)
      BY <2>1 DEF Vivo
    <2>4. acceso'.op # "leer"
      BY <2>1
    <2>5. \A q \in Pid : q # p => /\ estado'[q] = estado[q]
                                  /\ Espacio(q)' = Espacio(q) /\ (Vivo(q)' => Vivo(q))
      BY <2>1, <2>2, <2>3
    <2> QED  BY <2>1, <2>4, <2>5, LeePorCpu
  <1>2. CASE ampliar_proceso(p) \/ reducir_proceso(p)
    <2>1. EnCpu(p) /\ acceso' = NoExiste /\ io' = io /\ estado' = estado
      BY <1>2, RedimensionaEspacio
    <2>2. \A q \in Pid : q # p => Espacio(q)' = Espacio(q) /\ (Vivo(q)' <=> Vivo(q))
      BY <1>2, RedimensionaEspacio
    <2>3. ~EnAcceso(p)'
      BY <2>1 DEF EnAcceso
    <2>4. \A q \in Pid : q # p => /\ estado'[q] = estado[q]
                                  /\ Espacio(q)' = Espacio(q) /\ (Vivo(q)' => Vivo(q))
      BY <2>1, <2>2
    <2> QED  BY <2>1, <2>3, <2>4, LeePorCpu
  <1> QED  BY <1>1, <1>2
\* An interface takes a request: it read nothing yet.
LEMMA LeeAlDevolver ==
  ASSUME MarcosInv, Resto, LeeLoSuyo, NEW p \in Pid, NEW i \in Interfaces, DevolverPorIo(p, i)
  PROVE  LeeLoSuyo'
  <1>1. /\ EnCpu(p) /\ acceso' = NoExiste /\ UNCHANGED <<procesos, memoria_de_usuario>>
        /\ io' = [io EXCEPT ![i] = [pid |-> p, op |-> acceso.op, bloques |-> acceso.buffer,
                                    inicio |-> acceso.inicio, dato |-> acceso.dato,
                                    verificado |-> FALSE, buffer |-> <<>>]]
        /\ acceso # NoExiste /\ acceso.op # "resize"
    BY DEF DevolverPorIo, FinInstruccion, Completa, EnAcceso, memoria
  <1>2. \A q : Espacio(q)' = Espacio(q) /\ (Vivo(q)' <=> Vivo(q))
    BY <1>1, EspacioIgual DEF Vivo
  <1>3. \A q \in Pid : ~EnAcceso(q)'
    BY <1>1 DEF EnAcceso
  <1>4. PICK n \in Nat : n = acceso.inicio
    BY <1>1, AccesoLema DEF Resto
  <1>5. LeeDeIo(i)'
    <2>1. PICK e : e = Espacio(p)'
      OBVIOUS
    <2>2. SubSeq(e, n + 1, n) = <<>>
      BY <1>4, SubSeqEmpty
    <2>3. Len(<<>>) = 0 /\ n + 0 = n
      BY EmptySeq
    <2>4. io'[i].pid = p /\ io'[i].inicio = n /\ io'[i].buffer = <<>>
      BY <1>1, <1>4 DEF Resto, IoInv
    <2>5. SubSeq(e, n + 1, n + Len(<<>>)) = <<>>
      BY <2>2, <2>3
    <2> QED  BY <2>1, <2>4, <2>5 DEF LeeDeIo
  <1>6. \A j \in Interfaces : j # i => io'[j] = io[j]
    BY <1>1 DEF Resto, IoInv
  <1>7. \A j \in Interfaces : io'[j] # NoExiste =>
            \/ LeeDeIo(j)'
            \/ /\ io'[j] = io[j]
               /\ \A q \in Pid : q = io[j].pid =>
                      Espacio(q)' = Espacio(q) /\ (Vivo(q)' => Vivo(q))
    BY <1>2, <1>5, <1>6
  <1> QED  BY <1>3, <1>7, LeeSigue

\* A process that is created or ends is not being read.
LEMMA LeeAlCrear ==
  ASSUME ~MataEnIo, MarcosInv, Resto, LeeLoSuyo, NEW p \in Pid,
         recibir_crear_proceso(p) \/ LiberarProceso(p)
  PROVE  LeeLoSuyo'
  <1>1. /\ memoria_de_usuario' = memoria_de_usuario /\ acceso' = acceso /\ io' = io /\ caida' = caida
        /\ estado[p] \in {"nuevo", "listo", "termina"}
        /\ estado' = [estado EXCEPT ![p] = "listo"] \/ estado' = [estado EXCEPT ![p] = "fin"]
        /\ \/ procesos' = [procesos EXCEPT ![p] = <<>>]
           \/ procesos' = [procesos EXCEPT ![p] = NoExiste]
    BY DEF recibir_crear_proceso, LiberarProceso, cpu
  <1>2. \A q \in Pid : q # p => procesos'[q] = procesos[q] /\ estado'[q] = estado[q]
    BY <1>1 DEF MarcosInv
  <1>3. \A q \in Pid : q # p => Espacio(q)' = Espacio(q) /\ (Vivo(q)' <=> Vivo(q))
    BY <1>1, <1>2, EspacioIgual DEF Vivo
  <1>4. ASSUME NEW q \in Pid, EnAcceso(q)' PROVE EnAcceso(q) /\ Vivo(q) /\ q # p
    <2>1. estado'[q] = "cpu" /\ acceso # NoExiste /\ acceso.op # "resize" /\ ~caida
      BY <1>1, <1>4 DEF EnAcceso, EnCpu
    <2>2. q # p
      BY <1>1, <2>1 DEF MarcosInv
    <2>3. estado[q] = "cpu"
      BY <1>2, <2>1, <2>2
    <2>4. EnAcceso(q) /\ EnCpu(q)
      BY <2>1, <2>3 DEF EnAcceso, EnCpu
    <2> QED  BY <2>2, <2>4, EnCpuVivo
  <1>5. ASSUME NEW j \in Interfaces, io'[j] # NoExiste, NEW q \in Pid, q = io[j].pid
        PROVE  Espacio(q)' = Espacio(q) /\ (Vivo(q)' => Vivo(q))
    <2>1. estado[q] = "io"
      BY <1>1, <1>5, EnInterfaz
    <2>2. q # p
      BY <1>1, <2>1
    <2> QED  BY <1>3, <2>2
  <1> QED  BY <1>1, <1>3, <1>4, <1>5, LeeSigue

\* An interface copies: what it read goes on, and is the only one that reads of its process.
LEMMA LeeAlCopiar ==
  ASSUME ~MataEnIo, MarcosInv, Resto, LeeLoSuyo, NEW i \in Interfaces, IoCopia(i)
  PROVE  LeeLoSuyo'
  <1>1. io[i] # NoExiste /\ UNCHANGED <<procesos, acceso, estado, caida>>
    BY DEF IoCopia, Opera, cpu
  <1>2. PICK p \in Pid :
            /\ p = io[i].pid /\ Vivo(p) /\ estado[p] = "io"
            /\ \/ \A q \in Pid : Espacio(q)' = Espacio(q)
               \/ \E dir \in Nat, tam \in Nat, d \in Datos : Escrito(p, dir, tam, d)
            /\ io[i].op = "stdout" => Espacio(p)' = Espacio(p)
    BY CopiaEspacio
  <1>3. \A q \in Pid : q # p => Espacio(q)' = Espacio(q)
    BY <1>2 DEF Escrito
  <1>4. \A q : Vivo(q)' <=> Vivo(q)
    BY <1>1 DEF Vivo
  <1>5. PICK v \in PedidoDeIo, r \in PedidoDeIo, base \in Direccion, tam \in Nat, l \in Seq(Datos) :
            Copiado(i, v, r, base, tam, l)
    BY CopiaIo
  <1>6. /\ v = io[i] /\ io' = [io EXCEPT ![i] = r]
        /\ r.pid = v.pid /\ r.op = v.op /\ r.inicio = v.inicio /\ r.buffer = v.buffer \o l
    BY <1>5 DEF Copiado
  <1>7. io'[i] = r /\ \A j \in Interfaces : j # i => io'[j] = io[j]
    BY <1>6 DEF Resto, IoInv
  <1>8. ASSUME NEW q \in Pid, EnAcceso(q)' PROVE EnAcceso(q) /\ Vivo(q) /\ q # p
    <2>1. EnAcceso(q) /\ EnCpu(q)
      BY <1>1, <1>8 DEF EnAcceso, EnCpu
    <2>2. estado[q] = "cpu"
      BY <2>1 DEF EnCpu
    <2> QED  BY <1>2, <2>1, <2>2, EnCpuVivo
  <1>9. ASSUME NEW j \in Interfaces, j # i, io'[j] # NoExiste, NEW q \in Pid, q = io[j].pid
        PROVE  q # p
    BY <1>1, <1>2, <1>7, <1>9 DEF Resto, IoInv
  <1>10. PICK b \in Seq(Datos), n \in Nat : b = v.buffer /\ n = v.inicio /\ v.op \in {"stdin", "stdout"}
    BY PedidoDeIoLema
  <1>11. LeeDeIo(i)'
    <2>1. CASE v.op = "stdin"
      <3>1. b = <<>> /\ l = <<>>
        BY <1>1, <1>5, <1>6, <1>10, <2>1 DEF Copiado, Resto, IoInv
      <3>2. <<>> \o <<>> = <<>> /\ Len(<<>>) = 0 /\ n + 0 = n
        BY EmptySeq
      <3>3. r.buffer = <<>>
        BY <1>6, <1>10, <3>1, <3>2
      <3>4. PICK e : e = Espacio(p)'
        OBVIOUS
      <3>5. SubSeq(e, n + 1, n) = <<>>
        BY SubSeqEmpty
      <3>6. SubSeq(e, n + 1, n + Len(<<>>)) = <<>>
        BY <3>2, <3>5
      <3>7. io'[i].pid = p /\ io'[i].inicio = n /\ io'[i].buffer = <<>>
        BY <1>2, <1>6, <1>7, <1>10, <3>3
      <3> QED  BY <3>4, <3>6, <3>7 DEF LeeDeIo
    <2>2. CASE v.op = "stdout"
      <3>1. PICK dir \in Nat, t \in Nat :
                /\ num_pagina(dir) < Len(procesos[p]) /\ (dir % TAM_PAGINA) + t <= TAM_PAGINA
                /\ Bloque(i).base = Fisica(p, dir) /\ Bloque(i).tamanio = t
                /\ dir = n + Len(b)
        BY <1>2, <1>6, <1>10, <2>2, CopiaLema
      <3>2. memoria_de_usuario \in [Direccion -> Datos]
        BY DEF Resto, IoInv
      <3>3. l = Leida(Fisica(p, dir), t)
        BY <1>5, <2>2, <3>1 DEF Copiado
      <3>4. PICK e \in Seq(Datos) :
                /\ e = Espacio(p) /\ Len(l) = t /\ dir + t <= Len(e)
                /\ \A k \in 1..t : l[k] = e[dir + k]
        <4>1. Espacio(p) \in Seq(Datos)
          BY <1>2, <3>2, EspacioLema
        <4> QED  BY <1>2, <3>1, <3>2, <3>3, <4>1, LeidoLema
      <3>5. PICK c \in Nat : c = dir + Len(l) /\ c <= Len(e)
        BY <3>4
      <3>6. Len(b) \in Nat /\ Len(b \o l) = Len(b) + Len(l)
        BY <1>5, <1>10 DEF Copiado
      <3>7. n <= dir
        BY <3>1, <3>6
      <3>8. Sigue(e, n, dir, c, l)
        BY <3>4, <3>5, <3>7 DEF Sigue
      <3>9. Tramo(e, n, dir) \o l = Tramo(e, n, c)
        BY <3>8, TramoSigue
      <3>10. b = Tramo(e, n, dir)
        <4>1. b = SubSeq(Espacio(p), n + 1, n + Len(b))
          BY <1>1, <1>2, <1>6, <1>10 DEF LeeLoSuyo
        <4> QED  BY <3>1, <3>4, <4>1 DEF Tramo
      <3>11. c = n + Len(b \o l)
        BY <3>1, <3>4, <3>5, <3>6
      <3>12. Espacio(p)' = e
        BY <1>2, <1>6, <2>2, <3>4
      <3>13. io'[i].pid = p /\ io'[i].inicio = n /\ io'[i].buffer = b \o l
        BY <1>2, <1>6, <1>7, <1>10
      <3> QED  BY <3>9, <3>10, <3>11, <3>12, <3>13 DEF LeeDeIo, Tramo
    <2> QED  BY <1>10, <2>1, <2>2
  <1>12. ASSUME NEW j \in Interfaces, io'[j] # NoExiste
         PROVE  \/ LeeDeIo(j)'
                \/ /\ io'[j] = io[j]
                   /\ \A q \in Pid : q = io[j].pid =>
                          Espacio(q)' = Espacio(q) /\ (Vivo(q)' => Vivo(q))
    <2>1. CASE j = i
      BY <1>11, <2>1
    <2>2. CASE j # i
      BY <1>3, <1>4, <1>7, <1>9, <1>12, <2>2
    <2> QED  BY <2>1, <2>2
  <1> QED  BY <1>1, <1>3, <1>8, <1>12, LeeSigue

\* Every step leaves what was read right.
LEMMA LeePaso ==
  ASSUME ~MataEnIo
  PROVE  MarcosInv /\ Resto /\ LeeLoSuyo /\ MarcosInv' /\ [Next]_vars => LeeLoSuyo'
  <1> SUFFICES ASSUME MarcosInv, Resto, LeeLoSuyo, MarcosInv', [Next]_vars PROVE LeeLoSuyo'
    OBVIOUS
  <1>1. ASSUME NEW p \in Pid, recibir_crear_proceso(p) \/ LiberarProceso(p) PROVE LeeLoSuyo'
    BY <1>1, LeeAlCrear
  <1>2. ASSUME NEW p \in Pid, Despachar(p) \/ Desalojar(p) \/ PaginaInexistente(p) PROVE LeeLoSuyo'
    BY <1>2, LeeQuieta
  <1>3. CASE LiberarMarcos \/ UNCHANGED vars
    BY <1>3, LeeQuieta
  <1>4. ASSUME NEW i \in Interfaces, IoVerifica(i) \/ IoSinProceso(i) \/ IoTermina(i) PROVE LeeLoSuyo'
    BY <1>4, LeeQuieta
  <1>5. ASSUME NEW p \in Pid, \/ Accesos(p) \/ Traducir(p) \/ leer_una_pagina(p) \/ AgregarBloque(p)
                              \/ TerminarAcceso(p) \/ SinMemoria(p)
        PROVE  LeeLoSuyo'
    BY <1>5, LeeSinEscribir
  <1>6. ASSUME NEW p \in Pid, NEW tam \in 0..MaxTam, exec_resize(p, tam) PROVE LeeLoSuyo'
    BY <1>6, LeeSinEscribir
  <1>7. ASSUME NEW p \in Pid, escribir_una_pagina(p) \/ ampliar_proceso(p) \/ reducir_proceso(p)
        PROVE  LeeLoSuyo'
    BY <1>7, LeeAlEscribir
  <1>8. ASSUME NEW p \in Pid, NEW i \in Interfaces, DevolverPorIo(p, i) PROVE LeeLoSuyo'
    BY <1>8, LeeAlDevolver
  <1>9. ASSUME NEW i \in Interfaces, IoCopia(i) PROVE LeeLoSuyo'
    BY <1>9, LeeAlCopiar
  <1> QED  BY <1>1, <1>2, <1>3, <1>4, <1>5, <1>6, <1>7, <1>8, <1>9 DEF Next

\* What a process reads, and what an interface reads for it, are its own bytes in order, if
\* processes blocked in an interface are not killed.
THEOREM LeeSiempre ==
  ASSUME ~MataEnIo
  PROVE  Spec => []LeeLoSuyo
  <1>1. Init => MarcosInv /\ Resto /\ LeeLoSuyo
    <2>1. Init => LeeLoSuyo
      BY DEF Init, LeeLoSuyo, EnAcceso
    <2> QED  BY <2>1, InitMarcos, RestoInicio
  <1>2. (MarcosInv /\ Resto /\ LeeLoSuyo) /\ [Next]_vars => (MarcosInv /\ Resto /\ LeeLoSuyo)'
    BY MarcosPaso, RestoPaso, LeePaso
  <1> QED  BY <1>1, <1>2, PTL DEF Spec
-----------------------------------------------------------------------------
(* Almacen                                                                  *)

\* The bytes of all the processes, which is what Almacen keeps.
Vista == [p \in Pid |-> Espacio(p)]

\* The bytes of one process change and the rest do not, seen as Almacen says it.
LEMMA VistaCambia ==
  ASSUME NEW p \in Pid, \A q \in Pid : q # p => Espacio(q)' = Espacio(q),
         NEW v, Espacio(p)' = v
  PROVE  Vista' = [Vista EXCEPT ![p] = v]
  <1>1. \A q \in Pid : Espacio(q)' = IF q = p THEN v ELSE Espacio(q)
    OBVIOUS
  <1> QED  BY <1>1 DEF Vista

\* Nobody's bytes change.
LEMMA VistaIgual ==
  ASSUME \A q \in Pid : Espacio(q)' = Espacio(q)
  PROVE  Vista' = Vista
  BY DEF Vista

\* A write, seen as Almacen says it.
LEMMA VistaEscrita ==
  ASSUME MarcosInv, Resto, NEW p \in Pid, Vivo(p),
         NEW dir \in Nat, NEW tam \in Nat, NEW d \in Datos, Escrito(p, dir, tam, d)
  PROVE  Promesa!Next
  <1>1. Espacio(p) \in Seq(Datos) /\ Espacio(p) # NoExiste
    BY EspacioLema DEF Resto, IoInv
  <1>2. PICK h \in Nat : h = dir + tam /\ dir <= h /\ h <= Len(Espacio(p))
    BY DEF Escrito
  <1>3. /\ \A q \in Pid : q # p => Espacio(q)' = Espacio(q)
        /\ Espacio(p)' = [k \in DOMAIN Espacio(p) |->
                             IF dir < k /\ k <= h THEN d ELSE Espacio(p)[k]]
    BY <1>2 DEF Escrito
  <1>4. Vista[p] = Espacio(p)
    BY DEF Vista
  <1>5. Vista' = [Vista EXCEPT ![p] = [k \in DOMAIN Vista[p] |->
                                          IF dir < k /\ k <= h THEN d ELSE Vista[p][k]]]
    BY <1>3, <1>4, VistaCambia
  <1>6. Promesa!Escribir(p, dir, h, d)
    BY <1>1, <1>2, <1>4, <1>5 DEF Promesa!Escribir, Promesa!Existe, Vista
  <1>7. dir \in 0..h /\ h \in 0..(IF Promesa!Existe(p) THEN Len(Vista[p]) ELSE 0)
    BY <1>1, <1>2, <1>4 DEF Promesa!Existe, Vista
  <1> QED  BY <1>6, <1>7 DEF Promesa!Next, Vista

\* A process begins with no bytes.
LEMMA EspacioNuevo ==
  ASSUME MarcosInv, NEW p \in Pid, recibir_crear_proceso(p)
  PROVE  Espacio(p)' = <<>>
  <1>1. procesos'[p] = <<>> /\ memoria_de_usuario' = memoria_de_usuario
    BY DEF recibir_crear_proceso, MarcosInv
  <1>2. Len(<<>>) = 0 /\ <<>> \in Seq(Datos)
    BY EmptySeq
  <1>3. <<>> # NoExiste
    BY <1>2, MemoriaOK
  <1>4. 0 * TAM_PAGINA = 0
    <2>1. TAM_PAGINA \in Nat
      BY MemoriaOK
    <2> QED  BY <2>1
  <1>5. PICK m : m = memoria_de_usuario'
    OBVIOUS
  <1>6. Espacio(p)' = [k \in 1..0 |-> m[Fisica(p, k - 1)']]
    BY <1>1, <1>2, <1>3, <1>4, <1>5 DEF Espacio, Vivo
  <1>7. DOMAIN Espacio(p)' = {}
    BY <1>6
  <1>8. Espacio(p)' = [k \in {} |-> NoExiste]
    BY <1>6
  <1>9. <<>> = [k \in {} |-> NoExiste]
    OBVIOUS
  <1> QED  BY <1>8, <1>9

\* The steps that no process sees in its bytes.
LEMMA NoSeVe ==
  ASSUME \/ LiberarMarcos \/ UNCHANGED vars
         \/ \E p \in Pid :
                \/ Despachar(p) \/ Desalojar(p) \/ PaginaInexistente(p) \/ Accesos(p)
                \/ Traducir(p) \/ leer_una_pagina(p) \/ AgregarBloque(p) \/ TerminarAcceso(p)
                \/ SinMemoria(p) \/ \E i \in Interfaces : DevolverPorIo(p, i)
                \/ \E tam \in 0..MaxTam : exec_resize(p, tam)
         \/ \E i \in Interfaces : IoVerifica(i) \/ IoSinProceso(i) \/ IoTermina(i)
  PROVE  Vista' = Vista
  <1>1. procesos' = procesos /\ memoria_de_usuario' = memoria_de_usuario
    BY DEF LiberarMarcos, vars, memoria, Despachar, Desalojar, PaginaInexistente, Accesos, Empezar,
           Traducir, leer_una_pagina, AgregarBloque, TerminarAcceso, SinMemoria, DevolverPorIo,
           exec_resize, IoVerifica, IoSinProceso, IoTermina
  <1> QED  BY <1>1, EspacioIgual, VistaIgual

\* Every step of the memory is a step of Almacen, or one it does not see.
LEMMA PasoPrometido ==
  ASSUME ~MataEnIo, MarcosInv, MarcosInv', Resto, [Next]_vars
  PROVE  Promesa!Next \/ Vista' = Vista
  <1>1. ASSUME NEW p \in Pid, recibir_crear_proceso(p) PROVE Promesa!Next
    <2>1. \A q \in Pid : q # p => Espacio(q)' = Espacio(q)
      BY <1>1, EspacioIgual DEF recibir_crear_proceso, MarcosInv
    <2>2. Vista' = [Vista EXCEPT ![p] = <<>>]
      BY <1>1, <2>1, EspacioNuevo, VistaCambia
    <2>3. Promesa!Crear(p)
      BY <2>2 DEF Promesa!Crear, Vista
    <2> QED  BY <2>3 DEF Promesa!Next
  <1>2. ASSUME NEW p \in Pid, LiberarProceso(p) PROVE Promesa!Next
    <2>1. Vivo(p) /\ procesos' = [procesos EXCEPT ![p] = NoExiste]
          /\ memoria_de_usuario' = memoria_de_usuario
      BY <1>2 DEF LiberarProceso, MarcosInv
    <2>2. \A q \in Pid : q # p => Espacio(q)' = Espacio(q)
      BY <2>1, EspacioIgual DEF MarcosInv
    <2>3. Espacio(p)' = NoExiste
      BY <2>1 DEF Espacio, Vivo, MarcosInv
    <2>4. Vista' = [Vista EXCEPT ![p] = NoExiste]
      BY <2>2, <2>3, VistaCambia
    <2>5. Vista[p] # NoExiste
      BY <2>1, EspacioLema DEF Vista, Resto, IoInv
    <2>6. Promesa!Eliminar(p)
      BY <2>4, <2>5 DEF Promesa!Eliminar, Promesa!Existe, Vista
    <2> QED  BY <2>6 DEF Promesa!Next
  <1>3. ASSUME NEW p \in Pid, ampliar_proceso(p) \/ reducir_proceso(p) PROVE Promesa!Next
    <2>1. /\ Vivo(p) /\ \A q \in Pid : q # p => Espacio(q)' = Espacio(q)
          /\ Espacio(p)' \in Seq(Datos)
          /\ \A k \in DOMAIN Espacio(p) \cap DOMAIN Espacio(p)' : Espacio(p)'[k] = Espacio(p)[k]
      BY <1>3, RedimensionaEspacio
    <2>2. Espacio(p) # NoExiste
      BY <2>1, EspacioLema DEF Resto, IoInv
    <2>3. /\ Vista[p] = Espacio(p) /\ Vista'[p] = Espacio(p)'
          /\ \A q \in Pid \ {p} : Vista'[q] = Vista[q]
      BY <2>1 DEF Vista
    <2>4. Promesa!Truncar(p)
      BY <2>1, <2>2, <2>3 DEF Promesa!Truncar, Promesa!Existe, Promesa!SoloCambia, Vista
    <2> QED  BY <2>4 DEF Promesa!Next
  <1>4. ASSUME NEW p \in Pid, escribir_una_pagina(p) PROVE Promesa!Next
    BY <1>4, EscribeEspacio, VistaEscrita
  <1>5. ASSUME NEW i \in Interfaces, IoCopia(i) PROVE Promesa!Next \/ Vista' = Vista
    <2>1. PICK p \in Pid :
              /\ Vivo(p)
              /\ \/ \A q \in Pid : Espacio(q)' = Espacio(q)
                 \/ \E dir \in Nat, tam \in Nat, d \in Datos : Escrito(p, dir, tam, d)
      BY <1>5, CopiaEspacio
    <2> QED  BY <2>1, VistaEscrita, VistaIgual
  <1>6. ASSUME NEW p \in Pid,
               \/ Despachar(p) \/ Desalojar(p) \/ PaginaInexistente(p) \/ Accesos(p)
               \/ Traducir(p) \/ leer_una_pagina(p) \/ AgregarBloque(p) \/ TerminarAcceso(p)
               \/ SinMemoria(p) \/ \E i \in Interfaces : DevolverPorIo(p, i)
               \/ \E tam \in 0..MaxTam : exec_resize(p, tam)
        PROVE  Vista' = Vista
    BY <1>6, NoSeVe
  <1>7. ASSUME \/ LiberarMarcos \/ UNCHANGED vars
               \/ \E i \in Interfaces : IoVerifica(i) \/ IoSinProceso(i) \/ IoTermina(i)
        PROVE  Vista' = Vista
    BY <1>7, NoSeVe
  <1> QED  BY <1>1, <1>2, <1>3, <1>4, <1>5, <1>6, <1>7 DEF Next

\* What the memory promises: each process has its own bytes, as Almacen says.  They stay through
\* what the others do and through any RESIZE that keeps them, wherever the frames are, and a
\* write, by the CPU or by an interface, changes those it names.  If processes blocked in an
\* interface are not killed.
THEOREM EspacioSiempre ==
  ASSUME ~MataEnIo
  PROVE  Spec => ImplementaEspacio
  <1>1. Init => Promesa!Init
    <2>1. Init => \A p \in Pid : Espacio(p) = NoExiste
      BY DEF Init, Espacio, Vivo
    <2> QED  BY <2>1 DEF Promesa!Init
  <1>2. Init => MarcosInv /\ Resto
    BY InitMarcos, RestoInicio
  <1>3. (MarcosInv /\ Resto) /\ [Next]_vars => (MarcosInv /\ Resto)'
    BY MarcosPaso, RestoPaso
  <1>4. (MarcosInv /\ Resto) /\ (MarcosInv /\ Resto)' /\ [Next]_vars => [Promesa!Next]_Vista
    BY PasoPrometido
  <1>5. Promesa!Spec <=> Promesa!Init /\ [][Promesa!Next]_Vista
    BY DEF Promesa!Spec, Vista
  <1> QED  BY <1>1, <1>2, <1>3, <1>4, <1>5, PTL DEF Spec, ImplementaEspacio
-----------------------------------------------------------------------------
(* LRU                                                                      *)

\* The TLB has, with each page, when it was used...
Uso(t, u) ==
    \A i \in DOMAIN t : t[i].num_pagina \in NumPagina => u[t[i].pid][t[i].num_pagina] = t[i].ultimo_acceso

\* ...and those used last.
Recientes(t, u) ==
    \A p, q \in Pid, m, n \in NumPagina : TlbHit(t, p, m) /\ ~TlbHit(t, q, n) => u[q][n] <= u[p][m]

\* The parts of HistoriaInv.
LEMMA HistoriaDef ==
  HistoriaInv <=> /\ usada \in [Pid -> [NumPagina -> Int]]
                  /\ \A p \in Pid, n \in NumPagina : usada[p][n] <= num_instruccion_actual
                  /\ Uso(tlb_entries, usada) /\ Recientes(tlb_entries, usada)
  <1>1. TlbRecientes <=> Recientes(tlb_entries, usada)
    <2>1. ASSUME TlbRecientes, NEW p \in Pid, NEW q \in Pid, NEW m \in NumPagina, NEW n \in NumPagina,
                 TlbHit(tlb_entries, p, m), ~TlbHit(tlb_entries, q, n)
          PROVE  usada[q][n] <= usada[p][m]
      <3>1. <<p, m>> \in Pid \X NumPagina /\ <<q, n>> \in Pid \X NumPagina
        OBVIOUS
      <3>2. EnTlb(<<p, m>>) /\ ~EnTlb(<<q, n>>)
        BY <2>1 DEF EnTlb
      <3>3. Usada(<<q, n>>) <= Usada(<<p, m>>)
        BY <2>1, <3>1, <3>2 DEF TlbRecientes
      <3> QED  BY <3>3 DEF Usada
    <2>2. ASSUME Recientes(tlb_entries, usada), NEW x \in Pid \X NumPagina, NEW y \in Pid \X NumPagina,
                 EnTlb(x), ~EnTlb(y)
          PROVE  Usada(y) <= Usada(x)
      BY <2>2 DEF EnTlb, Usada, Recientes
    <2> QED  BY <2>1, <2>2 DEF TlbRecientes, Recientes
  <1> QED  BY <1>1 DEF HistoriaInv, Uso

\* v is u, but that page n of p is used now.
Anota(u, v, p, n, ahora) ==
    \A a \in Pid, b \in NumPagina :
        /\ u[a][b] \in Int /\ u[a][b] <= ahora
        /\ v[a][b] = IF a = p /\ b = n THEN ahora ELSE u[a][b]

\* A hit.
LEMMA MarcaReciente ==
  ASSUME NEW t \in Seq(Entrada), Unica(t), NEW p, NEW n, NEW i \in 1..Len(t), Es(t[i], p, n),
         NEW ahora \in Nat, NEW q, q = Marcada(t, i, ahora),
         NEW u, NEW v, Anota(u, v, p, n, ahora), Uso(t, u), Recientes(t, u)
  PROVE  Uso(q, v) /\ Recientes(q, v)
  <1>1. /\ q \in Seq(Entrada) /\ Len(q) = Len(t)
        /\ \A k \in 1..Len(t) :
               /\ q[k].pid = t[k].pid /\ q[k].num_pagina = t[k].num_pagina
               /\ q[k].ultimo_acceso = IF k = i THEN ahora ELSE t[k].ultimo_acceso
    BY MarcarLema
  <1>2. DOMAIN q = 1..Len(t) /\ DOMAIN t = 1..Len(t)
    BY <1>1, LenProperties
  <1>3. ASSUME NEW k \in DOMAIN q, q[k].num_pagina \in NumPagina
        PROVE  v[q[k].pid][q[k].num_pagina] = q[k].ultimo_acceso
    <2>1. t[k] \in Entrada
      BY <1>2, LenProperties
    <2>2. PICK a \in Pid, b \in NumPagina : a = t[k].pid /\ b = t[k].num_pagina
      BY <1>1, <1>2, <1>3, <2>1 DEF Entrada
    <2>3. q[k].pid = a /\ q[k].num_pagina = b
      BY <1>1, <1>2, <2>2
    <2>4. CASE k = i
      <3>1. a = p /\ b = n /\ q[k].ultimo_acceso = ahora
        BY <1>1, <1>2, <2>2, <2>4 DEF Es
      <3> QED  BY <2>3, <3>1 DEF Anota
    <2>5. CASE k # i
      <3>1. ~(a = p /\ b = n)
        BY <1>2, <2>2, <2>5 DEF Es, Unica
      <3>2. q[k].ultimo_acceso = t[k].ultimo_acceso /\ u[a][b] = t[k].ultimo_acceso
        BY <1>1, <1>2, <2>2, <2>5 DEF Uso
      <3> QED  BY <2>3, <3>1, <3>2 DEF Anota
    <2> QED  BY <2>4, <2>5
  <1>4. \A a, b : TlbHit(q, a, b) <=> TlbHit(t, a, b)
    BY <1>1, <1>2 DEF TlbHit, Es
  <1>5. ASSUME NEW a \in Pid, NEW c \in Pid, NEW m \in NumPagina, NEW o \in NumPagina,
               TlbHit(q, a, m), ~TlbHit(q, c, o)
        PROVE  v[c][o] <= v[a][m]
    <2>1. u[c][o] <= u[a][m]
      BY <1>4, <1>5 DEF Recientes
    <2>2. TlbHit(t, p, n)
      BY <1>2 DEF TlbHit
    <2>3. ~(c = p /\ o = n)
      BY <1>4, <1>5, <2>2
    <2>4. v[c][o] = u[c][o] /\ u[c][o] <= ahora
      BY <2>3 DEF Anota
    <2>5. v[a][m] = ahora \/ v[a][m] = u[a][m]
      BY DEF Anota
    <2> QED  BY <2>1, <2>4, <2>5
  <1> QED  BY <1>3, <1>5 DEF Uso, Recientes

\* r has the entries of t, but for one at most, of those used longest ago.
Saca(t, r) ==
    /\ \A k \in DOMAIN r : \E j \in DOMAIN t : r[k] = t[j]
    /\ \A j \in DOMAIN t : \/ \E k \in DOMAIN r : r[k] = t[j]
                           \/ \A k \in DOMAIN t : t[j].ultimo_acceso <= t[k].ultimo_acceso

\* With LRU there is room, or one of those goes.
LEMMA SacaLru ==
  ASSUME ALGORITMO_TLB = "LRU", NEW t \in Seq(Entrada), CANTIDAD_ENTRADAS_TLB # 0
  PROVE  SacarVictima(t) \in Seq(Entrada) /\ Saca(t, SacarVictima(t))
  <1>1. CANTIDAD_ENTRADAS_TLB \in Nat /\ Len(t) \in Nat /\ DOMAIN t = 1..Len(t)
    BY TlbOK, LenProperties
  <1>2. CASE Len(t) < CANTIDAD_ENTRADAS_TLB
    BY <1>2 DEF SacarVictima, Saca
  <1>3. CASE ~(Len(t) < CANTIDAD_ENTRADAS_TLB)
    <2>1. SacarVictima(t) = lru_remover_victima(t)
      BY <1>3 DEF SacarVictima
    <2>2. Len(t) > 0
      BY <1>1, <1>3
    <2>3. PICK w \in 1..Len(t) :
              /\ lru_remover_victima(t) = RemoveAt(t, w)
              /\ \A j \in 1..Len(t) : t[w].ultimo_acceso <= t[j].ultimo_acceso
      BY <2>2, LruLema
    <2>4. PICK r : r = RemoveAt(t, w)
      OBVIOUS
    <2>5. /\ r \in Seq(Entrada) /\ Len(r) = Len(t) - 1
          /\ \A k \in 1..(Len(t) - 1) : r[k] = IF k < w THEN t[k] ELSE t[k + 1]
      BY <2>4, RemoveAtLema
    <2>6. DOMAIN r = 1..(Len(t) - 1)
      BY <2>5, LenProperties
    <2>7. ASSUME NEW k \in DOMAIN r PROVE \E j \in DOMAIN t : r[k] = t[j]
      <3>1. k \in DOMAIN t /\ k + 1 \in DOMAIN t
        BY <1>1, <2>6
      <3> QED  BY <2>5, <2>6, <3>1
    <2>8. ASSUME NEW j \in DOMAIN t
          PROVE  \/ \E k \in DOMAIN r : r[k] = t[j]
                 \/ \A k \in DOMAIN t : t[j].ultimo_acceso <= t[k].ultimo_acceso
      <3>1. CASE j < w
        <4>1. j \in DOMAIN r /\ r[j] = t[j]
          BY <1>1, <2>5, <2>6, <3>1
        <4> QED  BY <4>1
      <3>2. CASE j > w
        <4>1. PICK k \in DOMAIN r : k = j - 1 /\ ~(k < w) /\ k + 1 = j
          BY <1>1, <2>6, <3>2
        <4>2. r[k] = t[j]
          BY <2>5, <2>6, <4>1
        <4> QED  BY <4>2
      <3>3. CASE j = w
        BY <1>1, <2>3, <3>3
      <3> QED  BY <1>1, <3>1, <3>2, <3>3
    <2>9. Saca(t, r)
      BY <2>7, <2>8 DEF Saca
    <2> QED  BY <2>1, <2>3, <2>4, <2>5, <2>9
  <1> QED  BY <1>2, <1>3

\* Where there was no room, e came in the place of that one.
Entra(t, e, q) == \E r \in Seq(Entrada) : Saca(t, r) /\ q = Append(r, e)

\* A miss.
LEMMA AgregaReciente ==
  ASSUME NEW t \in Seq(Entrada), NEW e \in Entrada, NEW p, NEW n, Es(e, p, n), ~TlbHit(t, p, n),
         NEW ahora \in Nat, e.ultimo_acceso = ahora, NEW q, Entra(t, e, q),
         NEW u, NEW v, Anota(u, v, p, n, ahora), Uso(t, u), Recientes(t, u)
  PROVE  Uso(q, v) /\ Recientes(q, v)
  <1>0. PICK r \in Seq(Entrada) : Saca(t, r) /\ q = Append(r, e)
    BY DEF Entra
  <1>1. /\ q \in Seq(Entrada) /\ Len(q) = Len(r) + 1 /\ Len(r) \in Nat /\ DOMAIN r = 1..Len(r)
        /\ \A i \in 1..Len(r) : q[i] = r[i]
        /\ q[Len(r) + 1] = e
    BY <1>0, AppendProperties, LenProperties
  <1>2. DOMAIN q = 1..(Len(r) + 1)
    BY <1>1, LenProperties
  <1>3. \A k \in DOMAIN q : q[k] = e \/ \E j \in DOMAIN t : q[k] = t[j]
    BY <1>0, <1>1, <1>2 DEF Saca
  <1>4. ASSUME NEW k \in DOMAIN r PROVE \E i \in DOMAIN q : q[i] = r[k]
    BY <1>1, <1>2
  <1>5. TlbHit(q, p, n)
    <2>1. Len(r) + 1 \in DOMAIN q
      BY <1>1, <1>2
    <2> QED  BY <1>1, <2>1 DEF TlbHit
  <1>6. ASSUME NEW j \in DOMAIN t, NEW a, NEW b, Es(t[j], a, b)
        PROVE  /\ ~(a = p /\ b = n)
               /\ a \in Pid /\ (b \in NumPagina => u[a][b] = t[j].ultimo_acceso)
    <2>1. t[j] \in Entrada
      BY LenProperties
    <2> QED  BY <1>6, <2>1 DEF TlbHit, Es, Uso, Entrada
  <1>7. ASSUME NEW k \in DOMAIN q, q[k].num_pagina \in NumPagina
        PROVE  v[q[k].pid][q[k].num_pagina] = q[k].ultimo_acceso
    <2>1. CASE q[k] = e
      <3>1. p \in Pid /\ n \in NumPagina
        BY <1>7, <2>1 DEF Es, Entrada
      <3> QED  BY <2>1, <3>1 DEF Anota, Es
    <2>2. ASSUME NEW j \in DOMAIN t, q[k] = t[j] PROVE v[q[k].pid][q[k].num_pagina] = q[k].ultimo_acceso
      <3>1. PICK a \in {q[k].pid}, b \in NumPagina : Es(t[j], a, b) /\ a = q[k].pid /\ b = q[k].num_pagina
        BY <1>7, <2>2 DEF Es
      <3>2. ~(a = p /\ b = n) /\ a \in Pid /\ u[a][b] = t[j].ultimo_acceso
        BY <1>6, <3>1
      <3> QED  BY <2>2, <3>1, <3>2 DEF Anota
    <2> QED  BY <1>3, <2>1, <2>2
  <1>8. ASSUME NEW a \in Pid, NEW c \in Pid, NEW m \in NumPagina, NEW o \in NumPagina,
               TlbHit(q, a, m), ~TlbHit(q, c, o)
        PROVE  v[c][o] <= v[a][m]
    <2>1. ~(c = p /\ o = n)
      BY <1>5, <1>8
    <2>2. v[c][o] = u[c][o] /\ u[c][o] <= ahora
      BY <2>1 DEF Anota
    <2>3. CASE a = p /\ m = n
      BY <2>2, <2>3 DEF Anota
    <2>4. CASE ~(a = p /\ m = n)
      <3>1. v[a][m] = u[a][m]
        BY <2>4 DEF Anota
      <3>2. PICK j \in DOMAIN t : Es(t[j], a, m)
        <4>1. PICK k \in DOMAIN q : Es(q[k], a, m)
          BY <1>8 DEF TlbHit
        <4>2. q[k] # e
          BY <2>4, <4>1 DEF Es
        <4> QED  BY <1>3, <4>1, <4>2
      <3>3. CASE ~TlbHit(t, c, o)
        <4>1. TlbHit(t, a, m)
          BY <3>2 DEF TlbHit
        <4> QED  BY <2>2, <3>1, <3>3, <4>1 DEF Recientes
      <3>4. CASE TlbHit(t, c, o)
        <4>1. PICK k \in DOMAIN t : Es(t[k], c, o)
          BY <3>4 DEF TlbHit
        <4>2. ~\E x \in DOMAIN r : r[x] = t[k]
          BY <1>4, <1>8, <4>1 DEF TlbHit
        <4>3. t[k].ultimo_acceso <= t[j].ultimo_acceso
          BY <1>0, <4>2 DEF Saca
        <4>4. u[c][o] = t[k].ultimo_acceso /\ u[a][m] = t[j].ultimo_acceso
          BY <1>6, <3>2, <4>1
        <4> QED  BY <2>2, <3>1, <4>3, <4>4
      <3> QED  BY <3>3, <3>4
    <2> QED  BY <2>3, <2>4
  <1> QED  BY <1>7, <1>8 DEF Uso, Recientes
\* v is u, but that p has no pages from k on.
Corta(u, v, p, k) ==
    \A a \in Pid, b \in NumPagina : v[a][b] = IF a = p /\ b >= k THEN Nunca ELSE u[a][b]

\* RESIZE: the entries of p from page k on go.
LEMMA DejaReciente ==
  ASSUME NEW t \in Seq(Entrada), NEW p, NEW k \in Nat,
         NEW q, q = remover_entradas_tlb_invalidas(t, p, k), NEW u, NEW v,
         Corta(u, v, p, k), Uso(t, u), Recientes(t, u)
  PROVE  Uso(q, v) /\ Recientes(q, v)
  <1> DEFINE Queda(j) == ~(t[j].pid = p /\ t[j].num_pagina >= k)
  <1>1. PICK P \in SUBSET DOMAIN t : P = {j \in DOMAIN t : Queda(j)}
    OBVIOUS
  <1>2. q = Dejar(t, P)
    BY <1>1 DEF remover_entradas_tlb_invalidas
  <1>3. \A i \in DOMAIN q : \E j \in P : q[i] = t[j]
    BY <1>2, DejarLema
  <1>4. \A j \in P : \E i \in DOMAIN q : q[i] = t[j]
    <2>1. PICK N \in Nat : DOMAIN t = 1..N
      BY LenProperties
    <2>2. PICK s : s = EnOrden(P)
      OBVIOUS
    <2>3. \A x \in P : \E i \in DOMAIN s : s[i] = x
      <3>1. P \in SUBSET (1..N)
        BY <2>1
      <3> QED  BY <2>2, <3>1, EnOrdenTodos
    <2>4. q = [i \in DOMAIN s |-> t[s[i]]]
      BY <1>2, <2>2 DEF Dejar
    <2> QED  BY <2>3, <2>4
  <1>5. \A j \in DOMAIN t : j \in P <=> Queda(j)
    BY <1>1
  <1>6. ASSUME NEW j \in DOMAIN t, NEW a, NEW b \in NumPagina, Es(t[j], a, b)
        PROVE  /\ a \in Pid /\ u[a][b] = t[j].ultimo_acceso /\ u[a][b] \in Nat
               /\ j \in P => v[a][b] = u[a][b]
    <2>1. t[j] \in Entrada
      BY LenProperties
    <2>2. a \in Pid /\ u[a][b] = t[j].ultimo_acceso /\ u[a][b] \in Nat
      BY <1>6, <2>1 DEF Es, Uso, Entrada
    <2> QED  BY <1>5, <1>6, <2>2 DEF Es, Corta
  <1>7. ASSUME NEW i \in DOMAIN q, q[i].num_pagina \in NumPagina
        PROVE  v[q[i].pid][q[i].num_pagina] = q[i].ultimo_acceso
    <2>1. PICK j \in DOMAIN t : j \in P /\ q[i] = t[j]
      BY <1>3
    <2>2. PICK a \in {q[i].pid}, b \in NumPagina : Es(t[j], a, b) /\ a = q[i].pid /\ b = q[i].num_pagina
      BY <1>7, <2>1 DEF Es
    <2> QED  BY <1>6, <2>1, <2>2
  <1>8. ASSUME NEW a \in Pid, NEW c \in Pid, NEW m \in NumPagina, NEW o \in NumPagina,
               TlbHit(q, a, m), ~TlbHit(q, c, o)
        PROVE  v[c][o] <= v[a][m]
    <2>1. PICK j \in DOMAIN t : j \in P /\ Es(t[j], a, m)
      BY <1>3, <1>8 DEF TlbHit
    <2>2. v[a][m] = u[a][m] /\ u[a][m] \in Nat /\ TlbHit(t, a, m)
      BY <1>6, <2>1 DEF TlbHit
    <2>3. CASE c = p /\ o >= k
      <3>1. v[c][o] = Nunca
        BY <2>3 DEF Corta
      <3> QED  BY <2>2, <3>1 DEF Nunca
    <2>4. CASE ~(c = p /\ o >= k)
      <3>1. v[c][o] = u[c][o]
        BY <2>4 DEF Corta
      <3>2. ~TlbHit(t, c, o)
        <4> SUFFICES ASSUME NEW x \in DOMAIN t, Es(t[x], c, o) PROVE FALSE
          BY DEF TlbHit
        <4>1. x \in P
          BY <1>5, <2>4 DEF Es
        <4> QED  BY <1>4, <1>8, <4>1 DEF TlbHit, Es
      <3> QED  BY <2>2, <3>1, <3>2 DEF Recientes
    <2> QED  BY <2>3, <2>4
  <1> QED  BY <1>7, <1>8 DEF Uso, Recientes
\* HistoriaDef, a step later.
LEMMA HistoriaDefLuego ==
  (HistoriaInv <=> /\ usada \in [Pid -> [NumPagina -> Int]]
                   /\ \A p \in Pid, n \in NumPagina : usada[p][n] <= num_instruccion_actual
                   /\ Uso(tlb_entries, usada) /\ Recientes(tlb_entries, usada))'
  BY HistoriaDef, PTL

\* What Recuerda writes down of a page.
LEMMA RecuerdaLema ==
  ASSUME Recuerda
  PROVE  \A a \in Pid, b \in NumPagina :
             /\ Tradujo(a, b) => usada'[a][b] = num_instruccion_actual
             /\ Quito(a, b) => usada'[a][b] = Nunca
             /\ ~Tradujo(a, b) /\ ~Quito(a, b) => usada'[a][b] = usada[a][b]
  <1> SUFFICES ASSUME NEW a \in Pid, NEW b \in NumPagina
               PROVE  /\ Tradujo(a, b) => usada'[a][b] = num_instruccion_actual
                      /\ Quito(a, b) => usada'[a][b] = Nunca
                      /\ ~Tradujo(a, b) /\ ~Quito(a, b) => usada'[a][b] = usada[a][b]
    OBVIOUS
  <1>1. ~(Tradujo(a, b) /\ Quito(a, b))
    BY DEF Tradujo, Quito, EnAcceso
  <1> QED  BY <1>1 DEF Recuerda

\* What is left to show of a step.
LEMMA HistoriaSigue ==
  ASSUME HistoriaInv, CpuInv, Recuerda,
         num_instruccion_actual' \in {num_instruccion_actual, num_instruccion_actual + 1},
         Uso(tlb_entries', usada'), Recientes(tlb_entries', usada')
  PROVE  HistoriaInv'
  <1>1. PICK ahora \in Nat : ahora = num_instruccion_actual
    BY DEF CpuInv
  <1>2. \A a \in Pid, b \in NumPagina :
            usada[a][b] \in Int /\ usada[a][b] <= ahora
    BY <1>1, HistoriaDef
  <1>3. ASSUME NEW a \in Pid, NEW b \in NumPagina
        PROVE  usada'[a][b] \in Int /\ usada'[a][b] <= ahora
    BY <1>1, <1>2, RecuerdaLema DEF Nunca
  <1>4. usada' \in [Pid -> [NumPagina -> Int]]
    BY <1>3 DEF Recuerda
  <1> QED  BY <1>1, <1>3, <1>4, HistoriaDefLuego
\* No page is translated and none is cut off.
Quieta == \A p \in Pid, n \in NumPagina : ~Tradujo(p, n) /\ ~Quito(p, n)

\* Then nothing is written down.
LEMMA HistoriaQuieta ==
  ASSUME HistoriaInv, CpuInv, Recuerda, tlb_entries' = tlb_entries,
         num_instruccion_actual' \in {num_instruccion_actual, num_instruccion_actual + 1}, Quieta
  PROVE  HistoriaInv'
  <1>1. \A a \in Pid, b \in NumPagina : usada'[a][b] = usada[a][b]
    BY RecuerdaLema DEF Quieta
  <1>2. usada' = usada
    <2>1. usada \in [Pid -> [NumPagina -> Int]]
      BY HistoriaDef
    <2>2. usada' = [p \in Pid |-> [n \in NumPagina |-> usada'[p][n]]]
      BY DEF Recuerda
    <2>3. ASSUME NEW p \in Pid PROVE [n \in NumPagina |-> usada'[p][n]] = usada[p]
      BY <1>1, <2>1
    <2> QED  BY <2>1, <2>2, <2>3
  <1>3. Uso(tlb_entries', usada') /\ Recientes(tlb_entries', usada')
    BY <1>2, HistoriaDef
  <1> QED  BY <1>3, HistoriaSigue

\* The steps without the CPU.
LEMMA HistoriaSinCpu ==
  ASSUME HistoriaInv, CpuInv, Recuerda, UNCHANGED cpu
  PROVE  HistoriaInv'
  <1>1. /\ acceso' = acceso /\ tlb_entries' = tlb_entries
        /\ num_instruccion_actual' = num_instruccion_actual
    BY DEF cpu
  <1>2. Quieta
    BY <1>1, MemoriaOK DEF Quieta, Tradujo, Quito
  <1> QED  BY <1>1, <1>2, HistoriaQuieta

\* An instruction ends.
LEMMA HistoriaFin ==
  ASSUME HistoriaInv, CpuInv, Recuerda, NEW p \in Pid, FinInstruccion,
         Completa(p) \/ Redimensiona(p)
  PROVE  HistoriaInv'
  <1>1. /\ acceso' = NoExiste /\ tlb_entries' = tlb_entries
        /\ num_instruccion_actual' = num_instruccion_actual + 1
    BY DEF FinInstruccion
  <1>2. \A a \in Pid : ~(EnAcceso(a) /\ acceso.restante > 0)
    BY DEF Completa, Redimensiona, EnAcceso
  <1>3. Quieta
    BY <1>1, <1>2, MemoriaOK DEF Quieta, Tradujo, Quito
  <1> QED  BY <1>1, <1>3, HistoriaQuieta

\* An access begins.
LEMMA HistoriaEmpieza ==
  ASSUME HistoriaInv, CpuInv, Recuerda, NEW p \in Pid, Accesos(p)
  PROVE  HistoriaInv'
  <1>1. PICK op \in {"leer", "escribir", "stdin", "stdout"}, tam \in 1..MaxTam :
            \E dir \in 0..(MaxTam - tam) :
                \E d \in (IF op \in {"escribir", "stdin"} THEN Datos ELSE {Cero}) :
                    Empezar(p, op, dir, tam, d)
    BY DEF Accesos
  <1>2. /\ acceso = NoExiste /\ acceso'.op = op
        /\ tlb_entries' = tlb_entries /\ num_instruccion_actual' = num_instruccion_actual
    BY <1>1 DEF Empezar
  <1>3. acceso' # [op |-> "resize"]
    BY <1>2
  <1>4. Quieta
    BY <1>2, <1>3 DEF Quieta, Tradujo, Quito, EnAcceso
  <1> QED  BY <1>2, <1>4, HistoriaQuieta

\* A piece of an access.
LEMMA HistoriaAvanza ==
  ASSUME HistoriaInv, CpuInv, Recuerda, NEW p \in Pid,
         leer_una_pagina(p) \/ escribir_una_pagina(p) \/ AgregarBloque(p)
  PROVE  HistoriaInv'
  <1>1. /\ acceso # NoExiste /\ acceso.fisica # NoExiste
        /\ tlb_entries' = tlb_entries /\ num_instruccion_actual' = num_instruccion_actual
    BY DEF leer_una_pagina, escribir_una_pagina, AgregarBloque, Pedido, EnAcceso
  <1>2. Quieta
    BY <1>1 DEF Quieta, Tradujo, Quito
  <1> QED  BY <1>1, <1>2, HistoriaQuieta
\* Only one process uses the CPU.
LEMMA UnoEnCpu ==
  ASSUME CpuInv, NEW p \in Pid, EnCpu(p)
  PROVE  \A a \in Pid : EnCpu(a) <=> a = p
  BY DEF CpuInv, EnCpu

\* RESIZE begins.
LEMMA HistoriaResize ==
  ASSUME HistoriaInv, CpuInv, Recuerda, NEW p \in Pid, NEW tam \in 0..MaxTam,
         exec_resize(p, tam)
  PROVE  HistoriaInv'
  <1>1. /\ EnCpu(p) /\ acceso = NoExiste /\ acceso' = [op |-> "resize"] /\ tamanio' = tam
        /\ num_instruccion_actual' = num_instruccion_actual
        /\ tlb_entries' = remover_entradas_tlb_invalidas(tlb_entries, p, ceil_div(tam, TAM_PAGINA))
    BY DEF exec_resize
  <1>2. PICK t \in Seq(Entrada), q \in {tlb_entries'}, u \in {usada}, v \in {usada'} : t = tlb_entries
    BY DEF CpuInv
  <1>3. PICK k \in Nat : k = ceil_div(tam, TAM_PAGINA)
    <2>1. TAM_PAGINA \in Nat \ {0} /\ tam + TAM_PAGINA - 1 \in Nat
      BY MemoriaOK
    <2> QED  BY <2>1, Division DEF ceil_div
  <1>4. q = remover_entradas_tlb_invalidas(t, p, k)
    BY <1>1, <1>2, <1>3
  <1>5. \A a \in Pid, b \in NumPagina : ~Tradujo(a, b) /\ (Quito(a, b) <=> a = p /\ b >= k)
    <2>1. \A a \in Pid : EnCpu(a) <=> a = p
      BY <1>1, UnoEnCpu
    <2>2. ceil_div(tamanio', TAM_PAGINA) = k
      BY <1>1, <1>3
    <2> QED  BY <1>1, <2>1, <2>2 DEF Tradujo, Quito, EnAcceso
  <1>6. Corta(u, v, p, k)
    BY <1>2, <1>5, RecuerdaLema DEF Corta
  <1>7. Uso(t, u) /\ Recientes(t, u)
    BY <1>2, HistoriaDef
  <1>8. Uso(q, v) /\ Recientes(q, v)
    BY <1>2, <1>4, <1>6, <1>7, DejaReciente
  <1> QED  BY <1>1, <1>2, <1>8, HistoriaSigue

\* A translation, by the TLB or by the page table.
LEMMA HistoriaTraduce ==
  ASSUME ALGORITMO_TLB = "LRU", HistoriaInv, MarcosInv, CpuInv, TlbCoherente, Recuerda,
         NEW p \in Pid, Traducir(p)
  PROVE  HistoriaInv'
  <1>1. /\ EnAcceso(p) /\ EnCpu(p) /\ acceso # NoExiste /\ acceso.op # "resize"
        /\ acceso.fisica = NoExiste /\ acceso.restante > 0
        /\ \/ TlbHit(tlb_entries, p, num_pagina(acceso.dir))
           \/ num_pagina(acceso.dir) < Len(procesos[p])
        /\ ActualizarTlb(p, num_pagina(acceso.dir))
        /\ acceso' = [acceso EXCEPT !.fisica = obtener_direccion_fisica(p, acceso.dir)]
        /\ num_instruccion_actual' = num_instruccion_actual
    BY DEF Traducir, EnAcceso
  <1>2. acceso.dir \in Nat
    BY <1>1, AccesoLema
  <1>3. PICK n \in Nat, f \in {obtener_direccion_fisica(p, acceso.dir)} : n = num_pagina(acceso.dir)
    BY <1>2, PaginaDe
  <1>4. n < Len(procesos[p]) /\ f = Fisica(p, acceso.dir)
    BY <1>1, <1>3, TraduceLema
  <1>5. f \in Direccion /\ procesos[p][n + 1] \in Marco
    BY <1>1, <1>2, <1>3, <1>4, EnCpuVivo, FisicaLema
  <1>6. acceso'.fisica # NoExiste
    <2>1. acceso' = [op |-> acceso.op, inicio |-> acceso.inicio, dir |-> acceso.dir,
                     restante |-> acceso.restante, dato |-> acceso.dato,
                     fisica |-> f, buffer |-> acceso.buffer]
      BY <1>1, <1>3, AccesoLema
    <2> QED  BY <1>5, <2>1, MemoriaOK DEF Direccion
  <1>7. PICK t \in Seq(Entrada), q \in {tlb_entries'}, u \in {usada}, v \in {usada'} : t = tlb_entries
    BY DEF CpuInv
  <1>8. PICK ahora \in Nat : ahora = num_instruccion_actual
    BY DEF CpuInv
  <1>9. \A a \in Pid, b \in NumPagina : ~Quito(a, b) /\ (Tradujo(a, b) <=> a = p /\ b = n)
    <2>1. \A a \in Pid : EnCpu(a) <=> a = p
      BY <1>1, UnoEnCpu
    <2> QED  BY <1>1, <1>3, <1>6, <2>1 DEF Tradujo, Quito, EnAcceso
  <1>10. Anota(u, v, p, n, ahora)
    <2>1. \A a \in Pid, b \in NumPagina : u[a][b] \in Int /\ u[a][b] <= ahora
      BY <1>7, <1>8, HistoriaDef
    <2> QED  BY <1>7, <1>8, <1>9, <2>1, RecuerdaLema DEF Anota
  <1>11. Unica(t) /\ Uso(t, u) /\ Recientes(t, u) /\ Len(t) <= CANTIDAD_ENTRADAS_TLB
    BY <1>7, CoherenteDef, HistoriaDef
  <1>12. CASE TlbHit(t, p, n)
    <2>1. q = tlb_get(t, p, n, ahora)
      BY <1>1, <1>3, <1>7, <1>8, <1>12 DEF ActualizarTlb
    <2>2. PICK i \in 1..Len(t) : Es(t[i], p, n) /\ q = Marcada(t, i, ahora)
      BY <1>12, <2>1, TlbGetDa
    <2>3. Uso(q, v) /\ Recientes(q, v)
      BY <1>10, <1>11, <2>2, MarcaReciente
    <2> QED  BY <1>1, <1>7, <2>3, HistoriaSigue
  <1>13. CASE ~TlbHit(t, p, n)
    <2>1. [pid |-> p, num_pagina |-> n, num_marco |-> procesos[p][n + 1],
           ultimo_acceso |-> ahora] \in Entrada
      BY <1>5, <1>8 DEF Entrada
    <2>2. PICK e \in Entrada : e = [pid |-> p, num_pagina |-> n, num_marco |-> procesos[p][n + 1],
                                    ultimo_acceso |-> ahora]
      BY <2>1
    <2>3. q = tlb_save(t, e)
      BY <1>1, <1>3, <1>7, <1>8, <1>13, <2>2 DEF ActualizarTlb
    <2>4. CASE CANTIDAD_ENTRADAS_TLB = 0
      <3>1. q = t
        BY <2>3, <2>4 DEF tlb_save
      <3>2. DOMAIN t = {}
        <4>1. Len(t) \in Nat /\ DOMAIN t = 1..Len(t)
          BY LenProperties
        <4> QED  BY <1>11, <2>4, <4>1
      <3>3. Uso(q, v) /\ Recientes(q, v)
        BY <3>1, <3>2 DEF Uso, Recientes, TlbHit
      <3> QED  BY <1>1, <1>7, <3>3, HistoriaSigue
    <2>5. CASE CANTIDAD_ENTRADAS_TLB # 0
      <3>1. PICK r \in Seq(Entrada) : r = SacarVictima(t) /\ Saca(t, r)
        BY <2>5, SacaLru
      <3>2. q = Append(r, e)
        BY <2>3, <2>5, <3>1 DEF tlb_save
      <3>3. Uso(q, v) /\ Recientes(q, v)
        <4>1. Es(e, p, n) /\ e.ultimo_acceso = ahora
          BY <2>2 DEF Es
        <4>2. Entra(t, e, q)
          BY <3>1, <3>2 DEF Entra
        <4> QED  BY <1>7, <1>8, <1>10, <1>11, <1>13, <2>2, <4>1, <4>2, AgregaReciente
      <3> QED  BY <1>1, <1>7, <3>3, HistoriaSigue
    <2> QED  BY <2>4, <2>5
  <1> QED  BY <1>12, <1>13

\* Every step keeps HistoriaInv.
LEMMA HistoriaPaso ==
  ALGORITMO_TLB = "LRU" /\ MarcosInv /\ Resto /\ HistoriaInv /\ NextUsada => HistoriaInv'
  <1> SUFFICES ASSUME ALGORITMO_TLB = "LRU", MarcosInv, Resto, HistoriaInv, NextUsada
               PROVE  HistoriaInv'
    OBVIOUS
  <1>1. CpuInv /\ TlbCoherente
    BY DEF Resto
  <1>2. Recuerda
    BY DEF NextUsada
  <1>3. ASSUME NEW p \in Pid,
               \/ recibir_crear_proceso(p) \/ LiberarProceso(p) \/ Despachar(p) \/ Desalojar(p)
               \/ PaginaInexistente(p)
        PROVE  HistoriaInv'
    <2>1. UNCHANGED cpu
      BY <1>3 DEF recibir_crear_proceso, LiberarProceso, Despachar, Desalojar, PaginaInexistente
    <2> QED  BY <1>1, <1>2, <2>1, HistoriaSinCpu
  <1>4. CASE LiberarMarcos
    <2>1. UNCHANGED cpu
      BY <1>4 DEF LiberarMarcos
    <2> QED  BY <1>1, <1>2, <2>1, HistoriaSinCpu
  <1>5. ASSUME NEW i \in Interfaces,
               IoVerifica(i) \/ IoSinProceso(i) \/ IoCopia(i) \/ IoTermina(i)
        PROVE  HistoriaInv'
    <2>1. UNCHANGED cpu
      BY <1>5 DEF IoVerifica, IoSinProceso, IoCopia, IoTermina
    <2> QED  BY <1>1, <1>2, <2>1, HistoriaSinCpu
  <1>6. ASSUME NEW p \in Pid, Accesos(p) PROVE HistoriaInv'
    BY <1>1, <1>2, <1>6, HistoriaEmpieza
  <1>7. ASSUME NEW p \in Pid, Traducir(p) PROVE HistoriaInv'
    BY <1>1, <1>2, <1>7, HistoriaTraduce
  <1>8. ASSUME NEW p \in Pid, leer_una_pagina(p) \/ escribir_una_pagina(p) \/ AgregarBloque(p)
        PROVE  HistoriaInv'
    BY <1>1, <1>2, <1>8, HistoriaAvanza
  <1>9. ASSUME NEW p \in Pid, TerminarAcceso(p) \/ \E i \in Interfaces : DevolverPorIo(p, i)
        PROVE  HistoriaInv'
    <2>1. FinInstruccion /\ Completa(p)
      BY <1>9 DEF TerminarAcceso, DevolverPorIo
    <2> QED  BY <1>1, <1>2, <2>1, HistoriaFin
  <1>10. ASSUME NEW p \in Pid, ampliar_proceso(p) \/ SinMemoria(p) \/ reducir_proceso(p)
         PROVE  HistoriaInv'
    <2>1. FinInstruccion /\ Redimensiona(p)
      BY <1>10 DEF ampliar_proceso, SinMemoria, reducir_proceso
    <2> QED  BY <1>1, <1>2, <2>1, HistoriaFin
  <1>11. ASSUME NEW p \in Pid, NEW tam \in 0..MaxTam, exec_resize(p, tam) PROVE HistoriaInv'
    BY <1>1, <1>2, <1>11, HistoriaResize
  <1> QED  BY <1>3, <1>4, <1>5, <1>6, <1>7, <1>8, <1>9, <1>10, <1>11 DEF NextUsada

\* With LRU the TLB keeps the pages used last: through accesses of several pages, changes of
\* process, faults and RESIZE, no page out of it was used by a later instruction than one in it.
THEOREM RecientesSiempre ==
  ASSUME ALGORITMO_TLB = "LRU"
  PROVE  SpecUsada => []TlbRecientes
  <1>1. InitUsada => MarcosInv /\ Resto /\ HistoriaInv
    <2> SUFFICES ASSUME InitUsada PROVE MarcosInv /\ Resto /\ HistoriaInv
      OBVIOUS
    <2>1. /\ Init /\ usada = [p \in Pid |-> [n \in NumPagina |-> Nunca]]
          /\ tlb_entries = <<>> /\ num_instruccion_actual = 0
      BY DEF InitUsada, Init
    <2>2. usada \in [Pid -> [NumPagina -> Int]]
          /\ \A p \in Pid, n \in NumPagina : usada[p][n] <= num_instruccion_actual
      BY <2>1 DEF Nunca
    <2>3. Uso(tlb_entries, usada) /\ Recientes(tlb_entries, usada)
      BY <2>1 DEF Uso, Recientes, TlbHit
    <2> QED  BY <2>1, <2>2, <2>3, InitMarcos, RestoInicio, HistoriaDef
  <1>2. MarcosInv /\ Resto /\ HistoriaInv /\ [NextUsada]_<<vars, usada>>
            => MarcosInv' /\ Resto' /\ HistoriaInv'
    <2> SUFFICES ASSUME MarcosInv, Resto, HistoriaInv, [NextUsada]_<<vars, usada>>
                 PROVE  MarcosInv' /\ Resto' /\ HistoriaInv'
      OBVIOUS
    <2>1. [Next]_vars
      BY DEF NextUsada, Next
    <2>2. MarcosInv' /\ Resto'
      BY <2>1, MarcosPaso, RestoPaso
    <2>3. CASE NextUsada
      BY <2>2, <2>3, HistoriaPaso
    <2>4. CASE UNCHANGED <<vars, usada>>
      <3>1. HistoriaInv'
        BY <2>4, HistoriaDef, HistoriaDefLuego DEF vars, cpu
      <3> QED  BY <2>2, <3>1
    <2> QED  BY <2>3, <2>4
  <1>3. HistoriaInv => TlbRecientes
    BY DEF HistoriaInv
  <1> QED  BY <1>1, <1>2, <1>3, PTL DEF SpecUsada
=============================================================================
