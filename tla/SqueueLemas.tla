---------------------------- MODULE SqueueLemas ----------------------------
(***************************************************************************)
(* What each operation of Squeue returns, does to the length of the queue,  *)
(* to the set of its elements and to their being distinct: the facts about  *)
(* queues the proofs of Planificacion, Interfaces and Despacho cite.         *)
(***************************************************************************)
EXTENDS Squeue, SequenceTheorems, WellFoundedInduction, TLAPS

\* A set of naturals has a least element.
LEMMA MinimoNat ==
  ASSUME NEW T, T \subseteq Nat, T # {}
  PROVE  \E m \in T : \A n \in T : m <= n
  <1> DEFINE Menor == {ss \in Nat \X Nat : ss[1] < ss[2]}
  <1>1. IsWellFoundedOn(Menor, Nat)
    BY NatLessThanWellFounded DEF OpToRel
  <1>2. PICK m \in T : \A n \in T : <<n, m>> \notin Menor
    BY <1>1, WFMin
  <1>3. ASSUME NEW n \in T PROVE m <= n
    <2>1. n \in Nat /\ m \in Nat /\ ~(n < m)
      BY <1>2
    <2> QED  BY <2>1
  <1> QED  BY <1>3

\* The elements of a queue are the values at its positions.
LEMMA RangoSeq ==
  ASSUME NEW S, NEW q \in Seq(S)
  PROVE  /\ DOMAIN q = 1..Len(q) /\ Len(q) \in Nat
         /\ Range(q) \subseteq S
         /\ \A x : Contiene(q, x) <=> \E i \in 1..Len(q) : q[i] = x
         /\ q = <<>> <=> Len(q) = 0
  <1>1. DOMAIN q = 1..Len(q) /\ Len(q) \in Nat /\ \A i \in 1..Len(q) : q[i] \in S
    BY LenProperties
  <1>2. q = <<>> <=> Len(q) = 0
    BY EmptySeq
  <1> QED  BY <1>1, <1>2 DEF Range, Contiene

\* squeue_push adds its element last: nothing else about the queue changes.
LEMMA PushLema ==
  ASSUME NEW S, NEW q \in Seq(S), NEW x \in S
  PROVE  /\ squeue_push(q, x) \in Seq(S)
         /\ Len(squeue_push(q, x)) = Len(q) + 1
         /\ Range(squeue_push(q, x)) = Range(q) \cup {x}
         /\ IsInjective(q) /\ x \notin Range(q) => IsInjective(squeue_push(q, x))
         /\ q # <<>> => squeue_peek(squeue_push(q, x)) = squeue_peek(q)
  <1> DEFINE p == Append(q, x)
  <1>1. /\ p \in Seq(S) /\ Len(p) = Len(q) + 1
        /\ \A i \in 1..Len(q) : p[i] = q[i]
        /\ p[Len(q) + 1] = x
    BY AppendProperties
  <1>2. DOMAIN p = 1..(Len(q) + 1) /\ DOMAIN q = 1..Len(q) /\ Len(q) \in Nat
    BY <1>1, LenProperties
  <1>3. Range(p) = Range(q) \cup {x}
    <2>1. \A y \in Range(p) : y \in Range(q) \cup {x}
      BY <1>1, <1>2 DEF Range
    <2>2. \A y \in Range(q) \cup {x} : y \in Range(p)
      BY <1>1, <1>2 DEF Range
    <2> QED  BY <2>1, <2>2
  <1>4. IsInjective(q) /\ x \notin Range(q) => IsInjective(p)
    BY <1>1, <1>2 DEF IsInjective, Range
  <1>5. q # <<>> => squeue_peek(p) = squeue_peek(q)
    <2> HAVE q # <<>>
    <2>1. p # <<>> /\ 1 \in 1..Len(q)
      BY <1>1, <1>2, EmptySeq
    <2>2. Head(p) = p[1] /\ Head(q) = q[1]
      BY <1>1, <2>1
    <2> QED  BY <1>1, <2>1, <2>2 DEF squeue_peek
  <1> QED  BY <1>1, <1>3, <1>4, <1>5 DEF squeue_push

\* Taking the first element of a queue that has one leaves the others.
LEMMA PopLema ==
  ASSUME NEW S, NEW q \in Seq(S), q # <<>>
  PROVE  /\ Tail(q) \in Seq(S) /\ Head(q) \in S
         /\ squeue_pop(q) = Tail(q) /\ squeue_peek(q) = Head(q)
         /\ Len(q) > 0 /\ Len(Tail(q)) = Len(q) - 1
         /\ Range(q) = Range(Tail(q)) \cup {Head(q)}
         /\ IsInjective(q) => IsInjective(Tail(q)) /\ Head(q) \notin Range(Tail(q))
  <1> DEFINE t == Tail(q)
  <1>1. /\ t \in Seq(S) /\ Head(q) \in S /\ Len(t) = Len(q) - 1
        /\ \A i \in 1..Len(t) : t[i] = q[i + 1]
    BY HeadTailProperties
  <1>2. /\ DOMAIN t = 1..Len(t) /\ DOMAIN q = 1..Len(q) /\ Len(q) \in Nat /\ Len(t) \in Nat
        /\ Len(q) > 0
    BY <1>1, LenProperties, EmptySeq
  <1>3. Head(q) = q[1]
    OBVIOUS
  <1>4. Range(q) = Range(t) \cup {Head(q)}
    <2>1. \A y \in Range(q) : y \in Range(t) \cup {Head(q)}
      <3> SUFFICES ASSUME NEW i \in 1..Len(q) PROVE q[i] \in Range(t) \cup {Head(q)}
        BY <1>2 DEF Range
      <3>1. CASE i = 1
        BY <1>3, <3>1
      <3>2. CASE i # 1
        <4>1. i - 1 \in 1..Len(t) /\ t[i - 1] = q[i]
          BY <1>1, <1>2, <3>2
        <4> QED  BY <1>2, <4>1 DEF Range
      <3> QED  BY <3>1, <3>2
    <2>2. \A y \in Range(t) \cup {Head(q)} : y \in Range(q)
      BY <1>1, <1>2, <1>3 DEF Range
    <2> QED  BY <2>1, <2>2
  <1>5. IsInjective(q) => IsInjective(t) /\ Head(q) \notin Range(t)
    BY <1>1, <1>2, <1>3 DEF IsInjective, Range
  <1> QED  BY <1>1, <1>2, <1>4, <1>5 DEF squeue_pop, squeue_peek

\* Removing the element at a position.
LEMMA RemoveAtLema ==
  ASSUME NEW S, NEW q \in Seq(S), NEW k \in 1..Len(q)
  PROVE  /\ RemoveAt(q, k) \in Seq(S)
         /\ Len(RemoveAt(q, k)) = Len(q) - 1
         /\ \A i \in 1..(Len(q) - 1) :
                RemoveAt(q, k)[i] = IF i < k THEN q[i] ELSE q[i + 1]
  <1> DEFINE a == SubSeq(q, 1, k - 1)
             b == SubSeq(q, k + 1, Len(q))
  <1>1. Len(q) \in Nat /\ k \in Nat /\ k >= 1 /\ k <= Len(q) /\ \A i \in 1..Len(q) : q[i] \in S
    BY LenProperties
  <1>2. /\ a \in Seq(S) /\ Len(a) = k - 1
        /\ \A i \in 1..(k - 1) : a[i] = q[i]
    <2>1. \A i \in 1..(k - 1) : q[i] \in S
      BY <1>1
    <2>2. /\ a \in Seq(S) /\ Len(a) = IF 1 <= k - 1 THEN (k - 1) - 1 + 1 ELSE 0
          /\ \A i \in 1..((k - 1) - 1 + 1) : a[i] = q[1 + i - 1]
      BY <1>1, <2>1, SubSeqProperties
    <2> QED  BY <1>1, <2>2
  <1>3. /\ b \in Seq(S) /\ Len(b) = Len(q) - k
        /\ \A i \in 1..(Len(q) - k) : b[i] = q[k + i]
    <2>1. \A i \in (k + 1)..Len(q) : q[i] \in S
      BY <1>1
    <2>2. /\ b \in Seq(S)
          /\ Len(b) = IF k + 1 <= Len(q) THEN Len(q) - (k + 1) + 1 ELSE 0
          /\ \A i \in 1..(Len(q) - (k + 1) + 1) : b[i] = q[(k + 1) + i - 1]
      BY <1>1, <2>1, SubSeqProperties
    <2> QED  BY <1>1, <2>2
  <1> DEFINE c == a \o b
  <1> HIDE DEF a, b
  <1>4. /\ c \in Seq(S) /\ Len(c) = Len(q) - 1
        /\ \A i \in 1..(Len(q) - 1) :
               c[i] = IF i <= k - 1 THEN a[i] ELSE b[i - (k - 1)]
    <2>1. /\ c \in Seq(S) /\ Len(c) = Len(a) + Len(b)
          /\ \A i \in 1..(Len(a) + Len(b)) :
                 c[i] = IF i <= Len(a) THEN a[i] ELSE b[i - Len(a)]
      BY <1>2, <1>3, ConcatProperties
    <2>2. Len(a) + Len(b) = Len(q) - 1
      BY <1>1, <1>2, <1>3
    <2> QED  BY <1>2, <2>1, <2>2
  <1> HIDE DEF c
  <1>5. ASSUME NEW i \in 1..(Len(q) - 1)
        PROVE  c[i] = IF i < k THEN q[i] ELSE q[i + 1]
    <2>1. c[i] = IF i <= k - 1 THEN a[i] ELSE b[i - (k - 1)]
      BY <1>4
    <2>2. CASE i < k
      <3>1. i \in 1..(k - 1)
        BY <1>1, <2>2
      <3> QED  BY <1>1, <1>2, <2>1, <2>2, <3>1
    <2>3. CASE ~(i < k)
      <3>1. i - (k - 1) \in 1..(Len(q) - k) /\ k + (i - (k - 1)) = i + 1 /\ ~(i <= k - 1)
        BY <1>1, <2>3
      <3> QED  BY <1>1, <1>3, <2>1, <2>3, <3>1
    <2> QED  BY <2>2, <2>3
  <1>6. RemoveAt(q, k) = c
    BY DEF RemoveAt, a, b, c
  <1> QED  BY <1>4, <1>5, <1>6

\* Primera is a position of the element, when it is there.
LEMMA PrimeraLema ==
  ASSUME NEW S, NEW q \in Seq(S), NEW x, Contiene(q, x)
  PROVE  Primera(q, x) \in 1..Len(q) /\ q[Primera(q, x)] = x
  <1> DEFINE T == {i \in 1..Len(q) : q[i] = x}
  <1>1. DOMAIN q = 1..Len(q) /\ T # {} /\ T \subseteq Nat
    BY RangoSeq
  <1>2. \E i \in DOMAIN q : q[i] = x /\ \A j \in DOMAIN q : q[j] = x => i <= j
    BY <1>1, MinimoNat
  <1> QED  BY <1>1, <1>2 DEF Primera

\* Quitar takes one element out, the only one equal to x if they are distinct.
LEMMA QuitarLema ==
  ASSUME NEW S, NEW q \in Seq(S), NEW x
  PROVE  /\ Quitar(q, x) \in Seq(S)
         /\ Contiene(q, x) => Len(Quitar(q, x)) = Len(q) - 1
         /\ Range(Quitar(q, x)) \subseteq Range(q)
         /\ Range(q) \ {x} \subseteq Range(Quitar(q, x))
         /\ IsInjective(q) => /\ IsInjective(Quitar(q, x))
                              /\ x \notin Range(Quitar(q, x))
  <1>1. CASE ~Contiene(q, x)
    BY <1>1 DEF Quitar, Contiene
  <1>2. CASE Contiene(q, x)
    <2> DEFINE k == Primera(q, x)
               t == RemoveAt(q, k)
    <2>1. k \in 1..Len(q) /\ q[k] = x
      BY <1>2, PrimeraLema
    <2> HIDE DEF k
    <2>2. Quitar(q, x) = t
      BY <1>2 DEF Quitar, k
    <2>3. /\ t \in Seq(S) /\ Len(t) = Len(q) - 1
          /\ \A i \in 1..(Len(q) - 1) : t[i] = IF i < k THEN q[i] ELSE q[i + 1]
      BY <2>1, RemoveAtLema
    <2> HIDE DEF t
    <2>4. /\ DOMAIN q = 1..Len(q) /\ DOMAIN t = 1..(Len(q) - 1)
          /\ Len(q) \in Nat
      BY <2>3, LenProperties
    <2>5. Range(t) \subseteq Range(q)
      <3> SUFFICES ASSUME NEW i \in 1..(Len(q) - 1) PROVE t[i] \in Range(q)
        BY <2>4 DEF Range
      <3>1. i \in 1..Len(q) /\ i + 1 \in 1..Len(q)
        BY <2>4
      <3>2. t[i] = q[i] \/ t[i] = q[i + 1]
        BY <2>3
      <3> QED  BY <2>4, <3>1, <3>2 DEF Range
    <2>6. Range(q) \ {x} \subseteq Range(t)
      <3> SUFFICES ASSUME NEW i \in 1..Len(q), q[i] # x PROVE q[i] \in Range(t)
        BY <2>4 DEF Range
      <3>1. CASE i < k
        <4>1. i \in 1..(Len(q) - 1) /\ t[i] = q[i]
          BY <2>1, <2>3, <2>4, <3>1
        <4> QED  BY <2>4, <4>1 DEF Range
      <3>2. CASE ~(i < k)
        <4>1. i > k
          BY <2>1, <3>2
        <4>2. i - 1 \in 1..(Len(q) - 1) /\ ~(i - 1 < k) /\ (i - 1) + 1 = i
          BY <2>1, <2>4, <4>1
        <4>3. t[i - 1] = q[i]
          BY <2>3, <4>2
        <4> QED  BY <2>4, <4>2, <4>3 DEF Range
      <3> QED  BY <3>1, <3>2
    <2>7. ASSUME IsInjective(q)
          PROVE  IsInjective(t) /\ x \notin Range(t)
      <3> DEFINE f(i) == IF i < k THEN i ELSE i + 1
      <3>1. \A i \in 1..(Len(q) - 1) : f(i) \in 1..Len(q) /\ f(i) # k /\ t[i] = q[f(i)]
        BY <2>1, <2>3, <2>4
      <3>2. \A i, j \in 1..(Len(q) - 1) : f(i) = f(j) => i = j
        BY <2>1, <2>4
      <3> HIDE DEF f
      <3>3. IsInjective(t)
        BY <2>4, <2>7, <3>1, <3>2 DEF IsInjective
      <3>4. x \notin Range(t)
        BY <2>1, <2>4, <2>7, <3>1 DEF IsInjective, Range
      <3> QED  BY <3>3, <3>4
    <2> QED  BY <2>2, <2>3, <2>5, <2>6, <2>7
  <1> QED  BY <1>1, <1>2

\* Taking another element out leaves the first one first.
LEMMA QuitarPrimero ==
  ASSUME NEW S, NEW q \in Seq(S), NEW x, x # squeue_peek(q)
  PROVE  squeue_peek(Quitar(q, x)) = squeue_peek(q)
  <1>1. CASE ~Contiene(q, x)
    BY <1>1 DEF Quitar
  <1>2. CASE Contiene(q, x)
    <2> DEFINE k == Primera(q, x)
               t == RemoveAt(q, k)
    <2>1. k \in 1..Len(q) /\ q[k] = x /\ Len(q) \in Nat /\ (q = <<>> <=> Len(q) = 0)
      BY <1>2, PrimeraLema, RangoSeq
    <2> HIDE DEF k
    <2>2. Quitar(q, x) = t
      BY <1>2 DEF Quitar, k
    <2>3. /\ t \in Seq(S) /\ Len(t) = Len(q) - 1
          /\ \A i \in 1..(Len(q) - 1) : t[i] = IF i < k THEN q[i] ELSE q[i + 1]
      BY <2>1, RemoveAtLema
    <2> HIDE DEF t
    <2>4. q # <<>> /\ Head(q) = q[1] /\ squeue_peek(q) = q[1]
      <3>1. q # <<>>
        BY <2>1
      <3> QED  BY <3>1 DEF squeue_peek
    <2>5. k # 1
      BY <2>1, <2>4
    <2>6. 1 \in 1..(Len(q) - 1) /\ 1 < k
      BY <2>1, <2>5
    <2>7. t # <<>> /\ t[1] = q[1]
      <3>1. Len(t) # 0
        BY <2>3, <2>6
      <3>2. t[1] = q[1]
        BY <2>3, <2>6
      <3>3. t # <<>>
        BY <2>3, <3>1, EmptySeq
      <3> QED  BY <3>2, <3>3
    <2>8. squeue_peek(t) = t[1]
      BY <2>3, <2>7 DEF squeue_peek
    <2> QED  BY <2>2, <2>4, <2>7, <2>8
  <1> QED  BY <1>1, <1>2
=============================================================================
