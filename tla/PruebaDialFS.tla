---------------------------- MODULE PruebaDialFS ----------------------------
(***************************************************************************)
(* Theorems of DialFS, for every disk, every set of names and all sizes: no *)
(* two files share a block, at any step of a compaction; compactar moves    *)
(* them in the order it asserts; and, seen from the processes, each request *)
(* does what Almacen promises.                                              *)
(***************************************************************************)
EXTENDS DialFS, SequenceTheorems, TLAPS

\* A delete frees the blocks its file has, and no others: see delete_file.
Borra == "FS_DELETE" \in Operaciones => BorraHasta <= BLOCK_SIZE

-----------------------------------------------------------------------------
(* Arithmetic of blocks                                                     *)

\* What a division of naturals gives.
LEMMA Division ==
  ASSUME NEW a \in Nat, NEW b \in Nat \ {0}
  PROVE  a \div b \in Nat /\ b * (a \div b) <= a /\ a < b * (a \div b) + b
  OBVIOUS

\* The blocks of a file are at least one, hold its bytes, and are one for a size up to that
\* of a block.
LEMMA TamBloques ==
  ASSUME NEW n \in Nat
  PROVE  /\ tam_bloques(n) \in Nat /\ tam_bloques(n) >= 1
         /\ n <= tam_bloques(n) * BLOCK_SIZE
         /\ n <= BLOCK_SIZE => tam_bloques(n) = 1
  <1>1. BLOCK_SIZE \in Nat /\ BLOCK_SIZE >= 1
    BY ConstantesOK
  <1>2. CASE n = 0
    BY <1>1, <1>2 DEF tam_bloques
  <1>3. CASE n # 0
    <2> DEFINE x == n + BLOCK_SIZE - 1
               q == x \div BLOCK_SIZE
    <2>1. tam_bloques(n) = q /\ x \in Nat
      BY <1>1, <1>3 DEF tam_bloques, ceil_div
    <2>2. q \in Nat /\ BLOCK_SIZE * q <= x /\ x < BLOCK_SIZE * q + BLOCK_SIZE
      BY <1>1, <2>1, Division
    <2> HIDE DEF q
    <2>3. n <= BLOCK_SIZE * q
      BY <1>1, <2>2
    <2>4. q >= 1
      BY <1>1, <1>3, <2>2, <2>3
    <2>5. BLOCK_SIZE * q = q * BLOCK_SIZE
      BY <1>1, <2>2
    <2>6. ASSUME n <= BLOCK_SIZE PROVE q = 1
      <3>1. SUFFICES ASSUME q >= 2 PROVE FALSE
        BY <2>2, <2>4
      <3>2. BLOCK_SIZE * q >= 2 * BLOCK_SIZE
        BY <1>1, <2>2, <3>1
      <3> QED  BY <1>1, <2>2, <2>6, <3>2
    <2> QED  BY <2>1, <2>2, <2>3, <2>4, <2>5, <2>6
  <1> QED  BY <1>2, <1>3

\* The blocks of a file, one by one.
LEMMA RangoLema ==
  ASSUME NEW m \in Metadata
  PROVE  /\ m.bloque_inicial \in Nat /\ m.tam_bytes \in 0..MaxTam /\ m.tam_bytes \in Nat
         /\ tam_bloques(m.tam_bytes) \in Nat /\ tam_bloques(m.tam_bytes) >= 1
         /\ \A b : b \in Rango(m) <=> /\ b \in Int /\ m.bloque_inicial <= b
                                      /\ b < m.bloque_inicial + tam_bloques(m.tam_bytes)
         /\ m.bloque_inicial \in Rango(m)
  <1>1. m.bloque_inicial \in Nat /\ m.tam_bytes \in 0..MaxTam /\ m.tam_bytes \in Nat
    BY ConstantesOK DEF Metadata
  <1>2. tam_bloques(m.tam_bytes) \in Nat /\ tam_bloques(m.tam_bytes) >= 1
    BY <1>1, TamBloques
  <1> QED  BY <1>1, <1>2 DEF Rango

\* Of two files that share no block one is wholly before the other.
LEMMA Separados ==
  ASSUME NEW m \in Metadata, NEW o \in Metadata, Rango(m) \cap Rango(o) = {}
  PROVE  \/ m.bloque_inicial + tam_bloques(m.tam_bytes) <= o.bloque_inicial
         \/ o.bloque_inicial + tam_bloques(o.tam_bytes) <= m.bloque_inicial
  <1>1. m.bloque_inicial \in Rango(m) /\ o.bloque_inicial \in Rango(o)
    BY RangoLema
  <1>2. m.bloque_inicial \notin Rango(o) /\ o.bloque_inicial \notin Rango(m)
    BY <1>1
  <1> QED  BY <1>1, <1>2, RangoLema

\* The metadata of a file is that of no file that does not exist.
LEMMA Existe == NoExiste \notin Metadata /\ NoExiste \notin Archivos /\ NoExiste \notin Seq(Datos)
  <1>1. Metadata \subseteq [bloque_inicial : Nat, tam_bytes : Nat]
    BY ConstantesOK DEF Metadata
  <1> QED  BY <1>1, ConstantesOK

\* What exists has metadata.
LEMMA ExistentesTipo ==
  ASSUME TypeOK
  PROVE  /\ \A f \in Existentes : f \in Archivos /\ metadata[f] \in Metadata
         /\ EnDisco \subseteq Existentes
         /\ compacta = NoExiste => EnDisco = Existentes
         /\ Libre => compacta = NoExiste
  BY Existe DEF TypeOK, Existentes, EnDisco, Libre

-----------------------------------------------------------------------------
(* The invariant                                                            *)

\* One file changes its blocks, and the rest keep theirs.
LEMMA CambiaUno ==
  ASSUME SinSolaparse, NEW f, EnDisco' \subseteq EnDisco \cup {f},
         \A g \in EnDisco' : g # f => /\ metadata'[g] = metadata[g]
                                      /\ Rango(metadata[g]) \subseteq bitmap',
         f \in EnDisco' => /\ Rango(metadata'[f]) \subseteq bitmap'
                           /\ \A g \in EnDisco' : g # f =>
                                  Rango(metadata'[f]) \cap Rango(metadata[g]) = {}
  PROVE  SinSolaparse'
  <1>1. \A g \in EnDisco' : Rango(metadata'[g]) \subseteq bitmap'
    OBVIOUS
  <1>2. ASSUME NEW g \in EnDisco', NEW h \in EnDisco', g # h
        PROVE  Rango(metadata'[g]) \cap Rango(metadata'[h]) = {}
    <2>1. CASE g # f /\ h # f
      BY <1>2, <2>1 DEF SinSolaparse
    <2>2. CASE g = f \/ h = f
      BY <1>2, <2>2
    <2> QED  BY <2>1, <2>2
  <1> QED  BY <1>1, <1>2 DEF SinSolaparse

\* create_file.
LEMMA CreatePaso ==
  ASSUME DiscoInv, NEW f \in Archivos, create_file(f)
  PROVE  DiscoInv'
  <1> USE DEF locales
  <1>0. TypeOK /\ SinSolaparse /\ compacta = NoExiste /\ EnDisco = Existentes
    BY ExistentesTipo DEF DiscoInv, create_file
  <1>1. PICK b \in Bloque :
            /\ b \notin bitmap
            /\ metadata' = [metadata EXCEPT ![f] = [bloque_inicial |-> b, tam_bytes |-> 0]]
            /\ bitmap' = bitmap \cup {b}
    BY DEF create_file, EsPrimerLibre
  <1> DEFINE m == [bloque_inicial |-> b, tam_bytes |-> 0]
  <1>2. m \in Metadata /\ Rango(m) = {b}
    <2>1. b \in Nat /\ 0 \in 0..MaxTam
      BY ConstantesOK DEF Bloque
    <2>2. m \in Metadata
      BY <2>1 DEF Metadata
    <2>3. Rango(m) = b..b
      BY <2>1 DEF Rango, tam_bloques
    <2> QED  BY <2>1, <2>2, <2>3
  <1> HIDE DEF m
  <1>3. metadata'[f] = m /\ \A g \in Archivos : g # f => metadata'[g] = metadata[g]
    BY <1>0, <1>1 DEF TypeOK, m
  <1>4. TypeOK'
    BY <1>0, <1>1, <1>2 DEF TypeOK, create_file, m
  <1>5. compacta' = NoExiste
    BY <1>0 DEF create_file
  <1>6. EnDisco' = Existentes' /\ Existentes' = Existentes \cup {f}
    <2>1. EnDisco' = Existentes'
      BY <1>5, Existe DEF EnDisco, Existentes
    <2> QED  BY <1>2, <1>3, <2>1, Existe DEF Existentes
  <1>7. SinSolaparse'
    <2>1. \A g \in EnDisco : Rango(metadata[g]) \subseteq bitmap
      BY <1>0 DEF SinSolaparse
    <2>2. \A g \in EnDisco' : g # f => /\ metadata'[g] = metadata[g] /\ g \in EnDisco
                                       /\ Rango(metadata[g]) \subseteq bitmap'
      BY <1>0, <1>1, <1>3, <1>6, <2>1 DEF Existentes
    <2>3. Rango(metadata'[f]) \subseteq bitmap'
          /\ \A g \in EnDisco' : g # f => Rango(metadata'[f]) \cap Rango(metadata[g]) = {}
      BY <1>1, <1>2, <1>3, <2>1, <2>2
    <2> QED  BY <1>0, <1>6, <2>2, <2>3, CambiaUno
  <1> QED  BY <1>4, <1>5, <1>7 DEF DiscoInv, OrdenDeCompactacion, CompactacionInv

\* delete_file.
LEMMA DeletePaso ==
  ASSUME Borra, DiscoInv, NEW f \in Archivos, delete_file(f)
  PROVE  DiscoInv'
  <1> USE DEF locales
  <1>0. TypeOK /\ SinSolaparse /\ compacta = NoExiste /\ EnDisco = Existentes /\ f \in Existentes
    BY ExistentesTipo DEF DiscoInv, delete_file
  <1>1. PICK b : b = metadata[f].bloque_inicial
    OBVIOUS
  <1>2. b \in Nat /\ b <= BLOCK_SIZE /\ b \in Rango(metadata[f])
    BY <1>0, <1>1, ExistentesTipo, RangoLema, ConstantesOK DEF delete_file, Borra
  <1>3. b .. (b + tam_bloques(b) - 1) = {b}
    BY <1>2, TamBloques
  <1>4. /\ bitmap' = bitmap \ {b} /\ metadata' = [metadata EXCEPT ![f] = NoExiste]
        /\ compacta' = NoExiste
    BY <1>0, <1>1, <1>3 DEF delete_file
  <1>5. TypeOK'
    BY <1>0, <1>4 DEF TypeOK, delete_file
  <1>6. EnDisco' = EnDisco \ {f} /\ \A g \in Archivos : g # f => metadata'[g] = metadata[g]
    BY <1>0, <1>4, Existe DEF EnDisco, Existentes, TypeOK
  <1>7. SinSolaparse'
    <2>1. ASSUME NEW g \in EnDisco', g # f
          PROVE  metadata'[g] = metadata[g] /\ Rango(metadata[g]) \subseteq bitmap'
      <3>1. g \in EnDisco /\ metadata'[g] = metadata[g]
        BY <1>6, <2>1 DEF EnDisco, Existentes
      <3>2. Rango(metadata[g]) \subseteq bitmap /\ b \notin Rango(metadata[g])
        BY <1>0, <1>2, <2>1, <3>1 DEF SinSolaparse
      <3> QED  BY <1>4, <3>1, <3>2
    <2> QED  BY <1>0, <1>6, <2>1, CambiaUno
  <1> QED  BY <1>4, <1>5, <1>7 DEF DiscoInv, OrdenDeCompactacion, CompactacionInv

\* ActualizarTamanio changes the size of a file and leaves it where it was.
LEMMA Actualizar ==
  ASSUME TypeOK, NEW f \in Existentes, NEW n \in 0..MaxTam, ActualizarTamanio(f, n)
  PROVE  /\ metadata' \in [Archivos -> Metadata \cup {NoExiste}]
         /\ metadata'[f] \in Metadata /\ metadata'[f].tam_bytes = n
         /\ metadata'[f].bloque_inicial = metadata[f].bloque_inicial
         /\ \A g \in Archivos : g # f => metadata'[g] = metadata[g]
         /\ Existentes' = Existentes
  <1>1. metadata[f] \in Metadata /\ f \in Archivos
    BY ExistentesTipo
  <1>2. [metadata[f] EXCEPT !.tam_bytes = n] \in Metadata
    BY <1>1 DEF Metadata
  <1>3. metadata' = [metadata EXCEPT ![f] = [metadata[f] EXCEPT !.tam_bytes = n]]
    BY <1>1 DEF ActualizarTamanio, TypeOK
  <1>4. metadata'[f] = [metadata[f] EXCEPT !.tam_bytes = n]
        /\ \A g \in Archivos : g # f => metadata'[g] = metadata[g]
    BY <1>1, <1>3 DEF TypeOK
  <1>5. Existentes' = Existentes
    BY <1>1, <1>2, <1>4, Existe DEF Existentes
  <1> QED  BY <1>1, <1>2, <1>3, <1>4, <1>5 DEF TypeOK, Metadata

\* The three truncations that do not compact: the blocks the file has afterwards were its own
\* or free, and those it loses are not marked any more.
LEMMA TruncateRangos ==
  ASSUME DiscoInv, NEW f \in Archivos, NEW n \in 0..MaxTam,
         TruncateAchica(f, n) \/ TruncateIgual(f, n) \/ TruncateAgranda(f, n)
  PROVE  /\ Rango(metadata'[f]) \subseteq bitmap' /\ bitmap' \subseteq Bloque
         /\ \A b \in bitmap : b \in bitmap' \/ b \in Rango(metadata[f])
         /\ \A b \in bitmap' : b \in Rango(metadata'[f])
                               \/ (b \in bitmap /\ b \notin Rango(metadata[f]))
         /\ Rango(metadata'[f]) \subseteq Rango(metadata[f]) \cup (Bloque \ bitmap)
  <1> USE DEF locales
  <1>0. /\ TypeOK /\ SinSolaparse /\ compacta = NoExiste /\ EnDisco = Existentes
        /\ f \in Existentes /\ compacta' = NoExiste /\ ActualizarTamanio(f, n)
    BY ExistentesTipo DEF DiscoInv, TruncateAchica, TruncateIgual, TruncateAgranda
  <1>1. /\ metadata' \in [Archivos -> Metadata \cup {NoExiste}]
        /\ metadata'[f] \in Metadata /\ metadata'[f].tam_bytes = n
        /\ metadata'[f].bloque_inicial = metadata[f].bloque_inicial
        /\ \A g \in Archivos : g # f => metadata'[g] = metadata[g]
        /\ Existentes' = Existentes
    BY <1>0, Actualizar
  <1>3. PICK i \in Nat, v \in Nat, w \in Nat :
            /\ i = metadata[f].bloque_inicial /\ v = tam_bloques(metadata[f].tam_bytes)
            /\ w = tam_bloques(n) /\ v >= 1 /\ w >= 1
    BY <1>0, <1>1, ExistentesTipo, RangoLema
  <1>4. /\ \A b : b \in Rango(metadata[f]) <=> b \in Int /\ i <= b /\ b < i + v
        /\ \A b : b \in Rango(metadata'[f]) <=> b \in Int /\ i <= b /\ b < i + w
    BY <1>1, <1>3 DEF Rango
  <1>5. /\ Rango(metadata'[f]) \subseteq bitmap' /\ bitmap' \subseteq Bloque
        /\ \A b \in bitmap : b \in bitmap' \/ b \in Rango(metadata[f])
        /\ \A b \in bitmap' : b \in Rango(metadata'[f])
                              \/ (b \in bitmap /\ b \notin Rango(metadata[f]))
        /\ Rango(metadata'[f]) \subseteq Rango(metadata[f]) \cup (Bloque \ bitmap)
    <2>0. Rango(metadata[f]) \subseteq bitmap /\ bitmap \subseteq Bloque
      BY <1>0 DEF SinSolaparse, TypeOK
    <2>1. CASE TruncateAchica(f, n)
      <3>1. w < v /\ bitmap' = bitmap \ ((i + w) .. (i + v - 1))
        BY <1>3, <2>1 DEF TruncateAchica, Ultimos, Final
      <3> DEFINE U == (i + w) .. (i + v - 1)
      <3>2. \A b : b \in U <=> b \in Int /\ i + w <= b /\ b < i + v
        BY <1>3
      <3> HIDE DEF U
      <3>3. Rango(metadata'[f]) \subseteq Rango(metadata[f])
        BY <1>3, <1>4, <3>1
      <3>4. Rango(metadata'[f]) \cap U = {}
        BY <1>3, <1>4, <3>2
      <3>5. U \subseteq Rango(metadata[f])
        BY <1>3, <1>4, <3>2
      <3>6. bitmap' = bitmap \ U
        BY <3>1 DEF U
      <3>7. Rango(metadata[f]) \subseteq Rango(metadata'[f]) \cup U
        BY <1>3, <1>4, <3>2
      <3> QED  BY <2>0, <3>3, <3>4, <3>5, <3>6, <3>7
    <2>2. CASE TruncateIgual(f, n)
      <3>1. w = v /\ bitmap' = bitmap
        BY <1>3, <2>2 DEF TruncateIgual
      <3> QED  BY <1>4, <2>0, <3>1
    <2>3. CASE TruncateAgranda(f, n)
      <3>1. /\ w > v /\ bitmap' = bitmap \cup ((i + v) .. (i + w - 1))
            /\ i + w - 1 < BLOCK_COUNT /\ ((i + v) .. (i + w - 1)) \cap bitmap = {}
        BY <1>3, <2>3 DEF TruncateAgranda, HayContiguos, Ultimos, Final
      <3> DEFINE U == (i + v) .. (i + w - 1)
      <3>2. \A b : b \in U <=> b \in Int /\ i + v <= b /\ b < i + w
        BY <1>3
      <3>3. bitmap' = bitmap \cup U /\ U \cap bitmap = {}
        BY <3>1
      <3> HIDE DEF U
      <3>4. U \subseteq Bloque
        <4>1. i + w <= BLOCK_COUNT /\ BLOCK_COUNT \in Nat
          BY <1>3, <3>1, ConstantesOK
        <4>2. ASSUME NEW b \in U PROVE b \in Bloque
          <5>1. b \in Int /\ i + v <= b /\ b < i + w
            BY <3>2
          <5> QED  BY <1>3, <4>1, <5>1 DEF Bloque
        <4> QED  BY <4>2
      <3>5. Rango(metadata'[f]) \subseteq Rango(metadata[f]) \cup U
        BY <1>3, <1>4, <3>2
      <3>6. Rango(metadata[f]) \subseteq Rango(metadata'[f]) /\ U \subseteq Rango(metadata'[f])
        BY <1>3, <1>4, <3>1, <3>2
      <3> QED  BY <2>0, <3>3, <3>4, <3>5, <3>6
    <2> QED  BY <2>1, <2>2, <2>3
  <1> QED  BY <1>5

\* And so they keep the invariant.
LEMMA TruncatePaso ==
  ASSUME DiscoInv, NEW f \in Archivos, NEW n \in 0..MaxTam,
         TruncateAchica(f, n) \/ TruncateIgual(f, n) \/ TruncateAgranda(f, n)
  PROVE  DiscoInv'
  <1> USE DEF locales
  <1>0. /\ TypeOK /\ SinSolaparse /\ compacta = NoExiste /\ EnDisco = Existentes
        /\ f \in Existentes /\ compacta' = NoExiste /\ ActualizarTamanio(f, n)
    BY ExistentesTipo DEF DiscoInv, TruncateAchica, TruncateIgual, TruncateAgranda
  <1>1. /\ metadata' \in [Archivos -> Metadata \cup {NoExiste}]
        /\ metadata'[f] \in Metadata /\ metadata'[f].tam_bytes = n
        /\ metadata'[f].bloque_inicial = metadata[f].bloque_inicial
        /\ \A g \in Archivos : g # f => metadata'[g] = metadata[g]
        /\ Existentes' = Existentes
    BY <1>0, Actualizar
  <1>2. EnDisco' = Existentes'
    BY <1>0, Existe DEF EnDisco, Existentes
  <1>5. /\ Rango(metadata'[f]) \subseteq bitmap' /\ bitmap' \subseteq Bloque
        /\ \A b \in bitmap : b \in bitmap' \/ b \in Rango(metadata[f])
        /\ Rango(metadata'[f]) \subseteq Rango(metadata[f]) \cup (Bloque \ bitmap)
    BY TruncateRangos
  <1>6. TypeOK'
    BY <1>0, <1>1, <1>5 DEF TypeOK, DiscoInv, TruncateAchica, TruncateIgual, TruncateAgranda
  <1>7. SinSolaparse'
    <2>1. ASSUME NEW g \in EnDisco', g # f
          PROVE  /\ metadata'[g] = metadata[g] /\ Rango(metadata[g]) \subseteq bitmap'
                 /\ Rango(metadata'[f]) \cap Rango(metadata[g]) = {}
      <3>1. g \in EnDisco /\ f \in EnDisco /\ metadata'[g] = metadata[g]
        BY <1>0, <1>1, <1>2, <2>1 DEF Existentes
      <3>2. Rango(metadata[g]) \subseteq bitmap /\ Rango(metadata[f]) \cap Rango(metadata[g]) = {}
        BY <1>0, <2>1, <3>1 DEF SinSolaparse
      <3> QED  BY <1>5, <3>1, <3>2
    <2> QED  BY <1>0, <1>1, <1>2, <1>5, <2>1, CambiaUno
  <1> QED  BY <1>0, <1>6, <1>7 DEF DiscoInv, OrdenDeCompactacion, CompactacionInv
-----------------------------------------------------------------------------
(* The bytes of bloques.dat                                                 *)

\* The pointer of a sum of blocks.
LEMMA PunteroSuma ==
  ASSUME NEW a \in Nat, NEW b \in Nat
  PROVE  /\ puntero_bloque(a) \in Nat /\ puntero_bloque(b) \in Nat
         /\ puntero_bloque(a + b) = puntero_bloque(a) + puntero_bloque(b)
  <1>1. PICK s \in Nat : s = BLOCK_SIZE
    BY ConstantesOK
  <1>2. a * s \in Nat /\ b * s \in Nat /\ (a + b) * s = a * s + b * s
    OBVIOUS
  <1> QED  BY <1>1, <1>2 DEF puntero_bloque

\* The pointers of two blocks are in the order of the blocks.
LEMMA Punteros ==
  ASSUME NEW a \in Nat, NEW b \in Nat, a <= b
  PROVE  /\ puntero_bloque(a) \in Nat /\ puntero_bloque(b) \in Nat
         /\ puntero_bloque(a) <= puntero_bloque(b)
  <1>1. PICK c \in Nat : b = a + c
    <2>1. b - a \in Nat /\ b = a + (b - a)
      OBVIOUS
    <2> QED  BY <2>1
  <1>2. /\ puntero_bloque(a) \in Nat /\ puntero_bloque(c) \in Nat
        /\ puntero_bloque(b) = puntero_bloque(a) + puntero_bloque(c)
    BY <1>1, PunteroSuma
  <1> QED  BY <1>2

\* A file ends before the pointer of the block after its last one.
LEMMA BytesFin ==
  ASSUME NEW ini \in Nat, NEW n \in Nat
  PROVE  /\ puntero_bloque(ini) \in Nat /\ puntero_bloque(ini + tam_bloques(n)) \in Nat
         /\ puntero_bloque(ini) + n <= puntero_bloque(ini + tam_bloques(n))
  <1>1. PICK t \in Nat : t = tam_bloques(n) /\ n <= puntero_bloque(t)
    BY TamBloques DEF puntero_bloque
  <1>2. /\ puntero_bloque(ini) \in Nat /\ puntero_bloque(t) \in Nat
        /\ puntero_bloque(ini + t) = puntero_bloque(ini) + puntero_bloque(t)
    BY PunteroSuma
  <1> QED  BY <1>1, <1>2

\* The bytes of a file are in its blocks: between the pointer of its first one and that of
\* the one after its last.
LEMMA Bytes ==
  ASSUME NEW ini \in Nat, NEW n \in Nat, NEW k \in 1..n
  PROVE  /\ puntero_bloque(ini) \in Nat /\ puntero_bloque(ini + tam_bloques(n)) \in Nat
         /\ puntero_bloque(ini) <= puntero_bloque(ini) + k - 1
         /\ puntero_bloque(ini) + k - 1 < puntero_bloque(ini + tam_bloques(n))
  <1>1. PICK p \in Nat, z \in Nat :
            p = puntero_bloque(ini) /\ z = puntero_bloque(ini + tam_bloques(n)) /\ p + n <= z
    BY BytesFin
  <1> QED  BY <1>1

\* The bytes of a file that fits in the disk are on the disk.
LEMMA BytesEnDisco ==
  ASSUME NEW ini \in Nat, NEW n \in Nat, ini + tam_bloques(n) <= BLOCK_COUNT, NEW k \in 1..n
  PROVE  puntero_bloque(ini) + k - 1 \in Direccion
  <1>1. PICK t \in Nat : t = tam_bloques(n)
    BY TamBloques
  <1>2. PICK p \in Nat : p = puntero_bloque(ini)
    BY Bytes
  <1>3. p + k - 1 < puntero_bloque(ini + t) /\ puntero_bloque(ini + t) \in Nat
    BY <1>1, <1>2, Bytes
  <1>4. puntero_bloque(ini + t) <= puntero_bloque(BLOCK_COUNT) /\ puntero_bloque(BLOCK_COUNT) \in Nat
    <2>1. PICK a \in Nat, b \in Nat : a = ini + t /\ b = BLOCK_COUNT /\ a <= b
      BY <1>1, ConstantesOK
    <2> QED  BY <2>1, Punteros
  <1>5. puntero_bloque(BLOCK_COUNT) = BLOCK_SIZE * BLOCK_COUNT
    BY ConstantesOK DEF puntero_bloque
  <1> QED  BY <1>2, <1>3, <1>4, <1>5 DEF Direccion

\* What leer_archivo_entero returns of a file that fits in the disk.
LEMMA LeerLema ==
  ASSUME bloques \in [Direccion -> Datos], NEW m \in Metadata,
         m.bloque_inicial + tam_bloques(m.tam_bytes) <= BLOCK_COUNT
  PROVE  /\ Leer(m) \in Seq(Datos) /\ Len(Leer(m)) = m.tam_bytes
         /\ \A k \in 1..m.tam_bytes :
                Leer(m)[k] = bloques[puntero_bloque(m.bloque_inicial) + k - 1]
  <1>1. PICK i \in Nat, n \in Nat : i = m.bloque_inicial /\ n = m.tam_bytes
    BY RangoLema
  <1>2. \A k \in 1..n : puntero_bloque(i) + k - 1 \in Direccion
    BY <1>1, BytesEnDisco
  <1>3. Leer(m) = [k \in 1..n |-> bloques[puntero_bloque(i) + k - 1]]
    BY <1>1 DEF Leer
  <1>4. Leer(m) \in [1..n -> Datos]
    BY <1>2, <1>3
  <1>5. Leer(m) \in Seq(Datos) /\ Len(Leer(m)) = n
    BY <1>3, <1>4
  <1> QED  BY <1>1, <1>3, <1>5

\* Copying bytes leaves bytes.
LEMMA CopiarTipo ==
  ASSUME bloques \in [Direccion -> Datos], NEW dir, NEW q \in Seq(Datos)
  PROVE  Copiar(dir, q) \in [Direccion -> Datos]
  <1>1. \A k \in DOMAIN q : q[k] \in Datos
    OBVIOUS
  <1> QED  BY <1>1 DEF Copiar

\* A file that is on disk ends before the disk does.
LEMMA Cabe ==
  ASSUME TypeOK, SinSolaparse, NEW f \in EnDisco
  PROVE  metadata[f].bloque_inicial + tam_bloques(metadata[f].tam_bytes) <= BLOCK_COUNT
  <1>1. metadata[f] \in Metadata /\ Rango(metadata[f]) \subseteq Bloque
    BY ExistentesTipo DEF TypeOK, SinSolaparse
  <1>2. PICK i \in Nat, t \in Nat :
            i = metadata[f].bloque_inicial /\ t = tam_bloques(metadata[f].tam_bytes) /\ t >= 1
    BY <1>1, RangoLema
  <1>3. i + t - 1 \in Rango(metadata[f])
    BY <1>1, <1>2, RangoLema
  <1>4. i + t - 1 \in Bloque
    BY <1>1, <1>3
  <1> QED  BY <1>2, <1>4, ConstantesOK DEF Bloque

-----------------------------------------------------------------------------
(* The compaction                                                           *)

\* The pending files are on disk, where the others are before bloque_actual.
LEMMA Pendientes ==
  ASSUME DiscoInv, compacta # NoExiste
  PROVE  /\ compacta \in Archivos /\ compacta \in Existentes /\ pendientes \subseteq EnDisco
         /\ \A g \in EnDisco : g \in Archivos /\ metadata[g] \in Metadata
  BY ExistentesTipo DEF DiscoInv, TypeOK, CompactacionInv, EnDisco

\* compactar begins.
LEMMA CompactarPaso ==
  ASSUME DiscoInv, NEW f \in Archivos, NEW n \in 0..MaxTam, Compactar(f, n)
  PROVE  DiscoInv'
  <1>0. /\ TypeOK /\ SinSolaparse /\ compacta = NoExiste /\ EnDisco = Existentes /\ f \in Existentes
        /\ compacta' = f /\ tamanio_nuevo' = n /\ guardado' = <<>> /\ bloque_actual' = 0
        /\ pendientes' = Existentes /\ metadata' = metadata /\ bitmap' = bitmap
        /\ bloques' = bloques /\ fuera' = fuera
    BY ExistentesTipo DEF DiscoInv, Compactar
  <1>1. TypeOK'
    <2>1. <<>> \in Seq(Datos) /\ 0 \in 0..BLOCK_COUNT /\ Existentes \subseteq Archivos
      BY ConstantesOK DEF Existentes
    <2> QED  BY <1>0, <2>1 DEF TypeOK
  <1>2. Existentes' = Existentes /\ EnDisco' = EnDisco
    BY <1>0 DEF Existentes, EnDisco
  <1>3. SinSolaparse'
    BY <1>0, <1>2 DEF SinSolaparse
  <1>4. OrdenDeCompactacion'
    <2>1. \A g \in Existentes : metadata[g].bloque_inicial >= 0
      BY <1>0, ExistentesTipo, RangoLema
    <2> QED  BY <1>0, <2>1 DEF OrdenDeCompactacion
  <1>5. CompactacionInv'
    BY <1>0, <1>2 DEF CompactacionInv, Compactar
  <1> QED  BY <1>1, <1>3, <1>4, <1>5 DEF DiscoInv

\* The file being truncated goes to the buffer.
LEMMA GuardaPaso ==
  ASSUME DiscoInv, CompactaGuarda
  PROVE  DiscoInv'
  <1>0. /\ TypeOK /\ SinSolaparse /\ compacta # NoExiste /\ compacta \in pendientes
        /\ OrdenDeCompactacion /\ CompactacionInv
        /\ guardado' = Leer(metadata[compacta]) /\ bitmap' = bitmap \ Rango(metadata[compacta])
        /\ pendientes' = pendientes \ {compacta} /\ metadata' = metadata /\ bloques' = bloques
        /\ compacta' = compacta /\ tamanio_nuevo' = tamanio_nuevo
        /\ bloque_actual' = bloque_actual /\ fuera' = fuera
    BY DEF DiscoInv, CompactaGuarda, Siguiente
  <1>1. compacta \in Archivos /\ compacta \in EnDisco /\ metadata[compacta] \in Metadata
    BY <1>0, Pendientes
  <1>2. guardado' \in Seq(Datos) /\ Len(guardado') = metadata[compacta].tam_bytes
    BY <1>0, <1>1, Cabe, LeerLema DEF TypeOK
  <1>3. TypeOK'
    BY <1>0, <1>2 DEF TypeOK
  <1>4. EnDisco' = EnDisco \ {compacta} /\ Existentes' = Existentes /\ EnDisco = Existentes
    BY <1>0 DEF Existentes, EnDisco
  <1>5. SinSolaparse'
    <2>1. ASSUME NEW g \in EnDisco', g # compacta
          PROVE  Rango(metadata[g]) \subseteq bitmap'
      BY <1>0, <1>1, <1>4, <2>1 DEF SinSolaparse
    <2> QED  BY <1>0, <1>4, <2>1, CambiaUno
  <1>6. OrdenDeCompactacion'
    BY <1>0 DEF OrdenDeCompactacion
  <1>7. CompactacionInv'
    <2>1. EnDisco' \ pendientes' \subseteq EnDisco \ pendientes
      BY <1>0, <1>4
    <2> QED  BY <1>0, <1>2, <1>4, <2>1 DEF CompactacionInv
  <1> QED  BY <1>3, <1>5, <1>6, <1>7 DEF DiscoInv
\* What a file that slides, or that already was in its place, becomes.
LEMMA Mueve ==
  ASSUME DiscoInv, NEW f \in Archivos, CompactaMueve(f)
  PROVE  /\ f \in pendientes /\ f \in EnDisco /\ compacta # NoExiste /\ f # compacta
         /\ \A g \in pendientes : metadata[f].bloque_inicial <= metadata[g].bloque_inicial
         /\ metadata' \in [Archivos -> Metadata \cup {NoExiste}]
         /\ metadata'[f] \in Metadata /\ metadata'[f].bloque_inicial = bloque_actual
         /\ metadata'[f].tam_bytes = metadata[f].tam_bytes
         /\ \A g \in Archivos : g # f => metadata'[g] = metadata[g]
         /\ bitmap' = (bitmap \ Rango(metadata[f])) \cup Rango(metadata'[f])
         /\ bloques' \in [Direccion -> Datos]
         /\ bloque_actual' = bloque_actual + tam_bloques(metadata[f].tam_bytes)
         /\ bloque_actual <= metadata[f].bloque_inicial
         /\ pendientes' = pendientes \ {f}
         /\ compacta' = compacta /\ tamanio_nuevo' = tamanio_nuevo /\ guardado' = guardado
         /\ fuera' = fuera
  <1>1. /\ TypeOK /\ SinSolaparse /\ OrdenDeCompactacion /\ f \in pendientes
        /\ compacta # NoExiste /\ f # compacta
        /\ \A g \in pendientes : metadata[f].bloque_inicial <= metadata[g].bloque_inicial
        /\ bloque_actual' = bloque_actual + tam_bloques(metadata[f].tam_bytes)
        /\ pendientes' = pendientes \ {f}
        /\ compacta' = compacta /\ tamanio_nuevo' = tamanio_nuevo /\ guardado' = guardado
        /\ fuera' = fuera
    BY DEF DiscoInv, CompactaMueve, Siguiente, AvanzarPuntero
  <1>2. f \in EnDisco /\ metadata[f] \in Metadata
    BY <1>1, Pendientes
  <1>3. PICK m \in Metadata : m = metadata[f]
    BY <1>2
  <1>4. bloque_actual \in Nat /\ m.bloque_inicial \in Nat /\ m.tam_bytes \in 0..MaxTam
        /\ bloque_actual <= m.bloque_inicial
    BY <1>1, <1>3, RangoLema, ConstantesOK DEF TypeOK, OrdenDeCompactacion
  <1>5. Rango(m) \subseteq bitmap
    BY <1>1, <1>2, <1>3 DEF SinSolaparse
  <1>6. CASE bloque_actual < m.bloque_inicial /\ mover_archivo(f)
    <2> DEFINE nueva == [m EXCEPT !.bloque_inicial = bloque_actual]
    <2>1. nueva \in Metadata /\ nueva.bloque_inicial = bloque_actual
          /\ nueva.tam_bytes = m.tam_bytes
      BY <1>4 DEF Metadata
    <2>2. /\ bloques' = Copiar(puntero_bloque(bloque_actual), Leer(m))
          /\ bitmap' = (bitmap \ Rango(m)) \cup Rango(nueva)
          /\ metadata' = [metadata EXCEPT ![f] = nueva]
      BY <1>3, <1>6 DEF mover_archivo
    <2> HIDE DEF nueva
    <2>3. metadata' \in [Archivos -> Metadata \cup {NoExiste}] /\ metadata'[f] = nueva
          /\ \A g \in Archivos : g # f => metadata'[g] = metadata[g]
      BY <1>1, <2>1, <2>2 DEF TypeOK
    <2>4. Leer(m) \in Seq(Datos)
      BY <1>1, <1>2, <1>3, Cabe, LeerLema DEF TypeOK
    <2>5. bloques' \in [Direccion -> Datos]
      BY <1>1, <2>2, <2>4, CopiarTipo DEF TypeOK
    <2> QED  BY <1>1, <1>2, <1>3, <1>4, <2>1, <2>2, <2>3, <2>5
  <1>7. CASE bloque_actual >= m.bloque_inicial /\ UNCHANGED <<bloques, bitmap, metadata>>
    <2>1. bloque_actual = m.bloque_inicial
      BY <1>4, <1>7
    <2>2. bitmap = (bitmap \ Rango(m)) \cup Rango(m)
      BY <1>5
    <2> QED  BY <1>1, <1>2, <1>3, <1>4, <1>7, <2>1, <2>2 DEF TypeOK
  <1> QED  BY <1>3, <1>6, <1>7 DEF CompactaMueve

\* The files still pending are after the one that moves, and so after the place it moves to.
LEMMA Despues ==
  ASSUME DiscoInv, NEW f \in Archivos, CompactaMueve(f), NEW g \in pendientes, g # f
  PROVE  metadata[f].bloque_inicial + tam_bloques(metadata[f].tam_bytes)
             <= metadata[g].bloque_inicial
  <1>1. /\ f \in EnDisco /\ g \in EnDisco /\ metadata[f].bloque_inicial <= metadata[g].bloque_inicial
        /\ metadata[f] \in Metadata /\ metadata[g] \in Metadata
    BY Mueve, Pendientes
  <1>2. Rango(metadata[f]) \cap Rango(metadata[g]) = {}
    BY <1>1 DEF DiscoInv, SinSolaparse
  <1>3. \/ metadata[f].bloque_inicial + tam_bloques(metadata[f].tam_bytes)
               <= metadata[g].bloque_inicial
        \/ metadata[g].bloque_inicial + tam_bloques(metadata[g].tam_bytes)
               <= metadata[f].bloque_inicial
    BY <1>1, <1>2, Separados
  <1>4. /\ metadata[f].bloque_inicial \in Nat /\ metadata[g].bloque_inicial \in Nat
        /\ tam_bloques(metadata[g].tam_bytes) \in Nat /\ tam_bloques(metadata[g].tam_bytes) >= 1
    BY <1>1, RangoLema
  <1> QED  BY <1>1, <1>3, <1>4

\* A file slides.
LEMMA MuevePaso ==
  ASSUME DiscoInv, NEW f \in Archivos, CompactaMueve(f)
  PROVE  DiscoInv'
  <1>0. TypeOK /\ SinSolaparse /\ OrdenDeCompactacion /\ CompactacionInv
    BY DEF DiscoInv
  <1>1. /\ f \in pendientes /\ f \in EnDisco /\ compacta # NoExiste /\ f # compacta
        /\ metadata' \in [Archivos -> Metadata \cup {NoExiste}]
        /\ metadata'[f] \in Metadata /\ metadata'[f].bloque_inicial = bloque_actual
        /\ metadata'[f].tam_bytes = metadata[f].tam_bytes
        /\ \A g \in Archivos : g # f => metadata'[g] = metadata[g]
        /\ bitmap' = (bitmap \ Rango(metadata[f])) \cup Rango(metadata'[f])
        /\ bloques' \in [Direccion -> Datos]
        /\ bloque_actual' = bloque_actual + tam_bloques(metadata[f].tam_bytes)
        /\ bloque_actual <= metadata[f].bloque_inicial
        /\ pendientes' = pendientes \ {f}
        /\ compacta' = compacta /\ tamanio_nuevo' = tamanio_nuevo /\ guardado' = guardado
        /\ fuera' = fuera
    BY Mueve
  <1>2. /\ pendientes \subseteq EnDisco /\ metadata[f] \in Metadata
        /\ \A g \in EnDisco : g \in Archivos /\ metadata[g] \in Metadata
    BY <1>1, Pendientes
  <1>3. Existentes' = Existentes /\ EnDisco' = EnDisco
    <2>1. Existentes' = Existentes
      BY <1>1, <1>2, Existe DEF Existentes
    <2> QED  BY <1>1, <2>1 DEF EnDisco
  <1>4. PICK i \in Nat, t \in Nat, b \in Nat :
            /\ i = metadata[f].bloque_inicial /\ t = tam_bloques(metadata[f].tam_bytes)
            /\ b = bloque_actual /\ t >= 1 /\ b <= i
    BY <1>0, <1>1, <1>2, RangoLema, ConstantesOK DEF TypeOK
  <1>5. i + t <= BLOCK_COUNT
    BY <1>0, <1>1, <1>4, Cabe
  <1>6. \A x : x \in Rango(metadata'[f]) <=> x \in Int /\ b <= x /\ x < b + t
    BY <1>1, <1>4, RangoLema
  <1>7. TypeOK'
    <2>1. Rango(metadata'[f]) \subseteq Bloque
      BY <1>4, <1>5, <1>6, ConstantesOK DEF Bloque
    <2>2. bloque_actual' \in 0..BLOCK_COUNT
      BY <1>1, <1>4, <1>5, ConstantesOK
    <2> QED  BY <1>0, <1>1, <2>1, <2>2 DEF TypeOK
  \* The blocks it moves to are of no other file.
  <1>8. ASSUME NEW g \in EnDisco, g # f
        PROVE  Rango(metadata'[f]) \cap Rango(metadata[g]) = {}
    <2>1. CASE g \in pendientes
      <3>1. PICK j \in Nat : j = metadata[g].bloque_inicial /\ i + t <= j
        BY <1>1, <1>2, <1>4, <1>8, <2>1, Despues, RangoLema
      <3>2. \A x \in Rango(metadata[g]) : x \in Int /\ j <= x
        BY <1>2, <3>1, RangoLema
      <3> QED  BY <1>4, <1>6, <3>1, <3>2
    <2>2. CASE g \notin pendientes
      <3>1. Rango(metadata[g]) \subseteq 0..(b - 1)
        BY <1>0, <1>1, <1>4, <2>2 DEF CompactacionInv
      <3> QED  BY <1>4, <1>6, <3>1
    <2> QED  BY <2>1, <2>2
  <1>9. SinSolaparse'
    <2>1. ASSUME NEW g \in EnDisco', g # f
          PROVE  /\ metadata'[g] = metadata[g] /\ Rango(metadata[g]) \subseteq bitmap'
                 /\ Rango(metadata'[f]) \cap Rango(metadata[g]) = {}
      <3>1. Rango(metadata[g]) \subseteq bitmap /\ Rango(metadata[f]) \cap Rango(metadata[g]) = {}
        BY <1>0, <1>1, <1>3, <2>1 DEF SinSolaparse
      <3> QED  BY <1>1, <1>2, <1>3, <1>8, <2>1, <3>1
    <2>2. Rango(metadata'[f]) \subseteq bitmap'
      BY <1>1
    <2> QED  BY <1>0, <1>3, <2>1, <2>2, CambiaUno
  <1>10. OrdenDeCompactacion'
    <2>1. ASSUME NEW g \in pendientes'
          PROVE  metadata'[g].bloque_inicial >= bloque_actual'
      <3>1. g \in pendientes /\ g # f /\ metadata'[g] = metadata[g]
        BY <1>1, <1>2, <2>1
      <3>2. PICK j \in Nat : j = metadata[g].bloque_inicial /\ i + t <= j
        BY <1>2, <1>4, <3>1, Despues, RangoLema
      <3>3. bloque_actual' = b + t
        BY <1>1, <1>4
      <3> QED  BY <1>4, <3>1, <3>2, <3>3
    <2> QED  BY <2>1 DEF OrdenDeCompactacion
  <1>11. CompactacionInv'
    <2>1. {compacta'} \cup pendientes' \subseteq Existentes'
      BY <1>0, <1>1, <1>3 DEF CompactacionInv
    <2>2. compacta \in Archivos /\ metadata'[compacta] = metadata[compacta]
      BY <1>1, Pendientes
    <2>3. ASSUME NEW g \in EnDisco' \ pendientes'
          PROVE  Rango(metadata'[g]) \subseteq 0..(bloque_actual' - 1)
      <3>0. bloque_actual' = b + t
        BY <1>1, <1>4
      <3>1. CASE g = f
        BY <1>4, <1>6, <3>0, <3>1
      <3>2. CASE g # f
        <4>1. g \in EnDisco /\ g \notin pendientes /\ metadata'[g] = metadata[g]
          BY <1>1, <1>2, <1>3, <2>3, <3>2
        <4>2. Rango(metadata[g]) \subseteq 0..(b - 1)
          BY <1>0, <1>1, <1>4, <4>1 DEF CompactacionInv
        <4> QED  BY <1>4, <3>0, <4>1, <4>2
      <3> QED  BY <3>1, <3>2
    <2> QED  BY <1>0, <1>1, <2>1, <2>2, <2>3 DEF CompactacionInv
  <1> QED  BY <1>7, <1>9, <1>10, <1>11 DEF DiscoInv
\* What the file being truncated becomes when the compaction ends.
LEMMA Termina ==
  ASSUME DiscoInv, CompactaTermina
  PROVE  /\ compacta \in Archivos /\ compacta \in Existentes /\ EnDisco = Existentes \ {compacta}
         /\ pendientes = {} /\ pendientes' = {} /\ compacta' = NoExiste
         /\ metadata' \in [Archivos -> Metadata \cup {NoExiste}]
         /\ metadata'[compacta] \in Metadata
         /\ metadata'[compacta].bloque_inicial = bloque_actual
         /\ metadata'[compacta].tam_bytes = tamanio_nuevo
         /\ \A g \in Archivos : g # compacta => metadata'[g] = metadata[g]
         /\ bloques' = Copiar(puntero_bloque(bloque_actual), guardado)
         /\ bloques' \in [Direccion -> Datos]
         /\ bitmap' = bitmap \cup Rango(metadata'[compacta])
         /\ bloque_actual \in Nat
         /\ bloque_actual + tam_bloques(tamanio_nuevo) <= BLOCK_COUNT
         /\ Len(guardado) = metadata[compacta].tam_bytes
         /\ tamanio_nuevo \in Nat
         /\ tam_bloques(metadata[compacta].tam_bytes) < tam_bloques(tamanio_nuevo)
         /\ tamanio_nuevo' = 0 /\ guardado' = <<>> /\ bloque_actual' = 0 /\ fuera' = fuera
  <1>0. /\ TypeOK /\ CompactacionInv /\ compacta # NoExiste /\ pendientes = {}
        /\ pendientes' = {} /\ compacta' = NoExiste
        /\ tamanio_nuevo' = 0 /\ guardado' = <<>> /\ bloque_actual' = 0 /\ fuera' = fuera
    BY DEF DiscoInv, CompactaTermina
  <1>1. /\ compacta \in Archivos /\ compacta \in Existentes /\ metadata[compacta] \in Metadata
        /\ EnDisco = Existentes \ {compacta}
    BY <1>0, Pendientes, ExistentesTipo DEF EnDisco
  <1>2. /\ bloque_actual \in Nat /\ tamanio_nuevo \in 0..MaxTam /\ tamanio_nuevo \in Nat
        /\ Len(guardado) = metadata[compacta].tam_bytes
        /\ tam_bloques(tamanio_nuevo) > tam_bloques(metadata[compacta].tam_bytes)
    BY <1>0, ConstantesOK DEF TypeOK, CompactacionInv
  <1>3. PICK u \in Nat, v \in Nat : u = tam_bloques(metadata[compacta].tam_bytes)
                                    /\ v = tam_bloques(tamanio_nuevo) /\ u < v
    BY <1>1, <1>2, RangoLema, TamBloques
  <1> DEFINE m == [metadata[compacta] EXCEPT !.bloque_inicial = bloque_actual]
             nueva == [m EXCEPT !.tam_bytes = tamanio_nuevo]
  <1>4. m \in Metadata /\ m.bloque_inicial = bloque_actual
        /\ m.tam_bytes = metadata[compacta].tam_bytes
    BY <1>1, <1>2 DEF Metadata
  <1>5. nueva \in Metadata /\ nueva.bloque_inicial = bloque_actual
        /\ nueva.tam_bytes = tamanio_nuevo
    BY <1>1, <1>2 DEF Metadata
  <1>6. /\ Final(nueva, tamanio_nuevo) < BLOCK_COUNT
        /\ bloques' = Copiar(puntero_bloque(bloque_actual), guardado)
        /\ bitmap' = bitmap \cup Rango(m) \cup Rango(nueva)
        /\ metadata' = [metadata EXCEPT ![compacta] = nueva]
    BY DEF CompactaTermina
  <1> HIDE DEF m, nueva
  <1>7. Rango(m) \subseteq Rango(nueva)
    BY <1>2, <1>3, <1>4, <1>5, RangoLema
  <1>8. bloque_actual + tam_bloques(tamanio_nuevo) <= BLOCK_COUNT
    BY <1>2, <1>3, <1>5, <1>6, ConstantesOK DEF Final
  <1>9. /\ metadata' \in [Archivos -> Metadata \cup {NoExiste}] /\ metadata'[compacta] = nueva
        /\ \A g \in Archivos : g # compacta => metadata'[g] = metadata[g]
    BY <1>0, <1>1, <1>5, <1>6 DEF TypeOK
  <1>10. bloques' \in [Direccion -> Datos]
    BY <1>0, <1>6, CopiarTipo DEF TypeOK
  <1>11. bitmap' = bitmap \cup Rango(metadata'[compacta])
    BY <1>6, <1>7, <1>9
  <1>12. tam_bloques(metadata[compacta].tam_bytes) < tam_bloques(tamanio_nuevo)
    BY <1>3
  <1> QED  BY <1>0, <1>1, <1>2, <1>5, <1>6, <1>8, <1>9, <1>10, <1>11, <1>12

\* The compaction ends.
LEMMA TerminaPaso ==
  ASSUME DiscoInv, CompactaTermina
  PROVE  DiscoInv'
  <1>0. /\ TypeOK /\ SinSolaparse /\ CompactacionInv /\ compacta # NoExiste
    BY DEF DiscoInv, CompactaTermina
  <1>1. /\ compacta \in Archivos /\ compacta \in Existentes /\ EnDisco = Existentes \ {compacta}
        /\ pendientes = {} /\ pendientes' = {} /\ compacta' = NoExiste
        /\ metadata' \in [Archivos -> Metadata \cup {NoExiste}]
        /\ metadata'[compacta] \in Metadata
        /\ metadata'[compacta].bloque_inicial = bloque_actual
        /\ metadata'[compacta].tam_bytes = tamanio_nuevo
        /\ \A g \in Archivos : g # compacta => metadata'[g] = metadata[g]
        /\ bloques' \in [Direccion -> Datos]
        /\ bitmap' = bitmap \cup Rango(metadata'[compacta])
        /\ bloque_actual \in Nat /\ tamanio_nuevo \in Nat
        /\ bloque_actual + tam_bloques(tamanio_nuevo) <= BLOCK_COUNT
        /\ tamanio_nuevo' = 0 /\ guardado' = <<>> /\ bloque_actual' = 0 /\ fuera' = fuera
    BY Termina
  <1>2. PICK b \in Nat, v \in Nat : b = bloque_actual /\ v = tam_bloques(tamanio_nuevo)
                                    /\ b + v <= BLOCK_COUNT
    BY <1>1, TamBloques
  <1>3. \A x : x \in Rango(metadata'[compacta]) <=> x \in Int /\ b <= x /\ x < b + v
    BY <1>1, <1>2, RangoLema
  <1>4. EnDisco' = EnDisco \cup {compacta}
    <2>1. Existentes' = Existentes
      BY <1>1, Existe DEF Existentes
    <2>2. EnDisco' = Existentes'
      BY <1>1, <1>0, Existe DEF EnDisco, Existentes
    <2> QED  BY <1>1, <2>1, <2>2
  <1>5. TypeOK'
    <2>1. Rango(metadata'[compacta]) \subseteq Bloque
      BY <1>2, <1>3, ConstantesOK DEF Bloque
    <2>2. <<>> \in Seq(Datos) /\ 0 \in 0..BLOCK_COUNT /\ 0 \in 0..MaxTam
      BY ConstantesOK
    <2> QED  BY <1>0, <1>1, <2>1, <2>2 DEF TypeOK
  <1>6. SinSolaparse'
    <2>1. ASSUME NEW g \in EnDisco', g # compacta
          PROVE  /\ metadata'[g] = metadata[g] /\ Rango(metadata[g]) \subseteq bitmap'
                 /\ Rango(metadata'[compacta]) \cap Rango(metadata[g]) = {}
      <3>1. g \in EnDisco /\ g \in Archivos
        BY <1>0, <1>4, <2>1, ExistentesTipo
      <3>2. Rango(metadata[g]) \subseteq bitmap /\ Rango(metadata[g]) \subseteq 0..(b - 1)
        BY <1>0, <1>1, <1>2, <3>1 DEF SinSolaparse, CompactacionInv
      <3> QED  BY <1>1, <1>2, <1>3, <2>1, <3>1, <3>2
    <2>2. Rango(metadata'[compacta]) \subseteq bitmap'
      BY <1>1
    <2> QED  BY <1>0, <1>4, <2>1, <2>2, CambiaUno
  <1> QED  BY <1>1, <1>5, <1>6 DEF DiscoInv, OrdenDeCompactacion, CompactacionInv

\* write_file changes bytes only.
LEMMA WritePaso ==
  ASSUME DiscoInv, NEW f \in Archivos, NEW n \in Nat, NEW dir \in Nat, NEW d \in Datos,
         write_file(f, dir, n, d)
  PROVE  DiscoInv'
  <1> USE DEF locales
  <1>1. PICK e \in 1..n :
            bloques' = Copiar(puntero_bloque(metadata[f].bloque_inicial) + dir, [k \in 1..e |-> d])
    BY DEF write_file, Escritos
  <1>2. PICK q \in Seq(Datos) : q = [k \in 1..e |-> d]
    <2>1. e \in Nat
      OBVIOUS
    <2>2. [k \in 1..e |-> d] \in Seq(Datos)
      BY <2>1
    <2> QED  BY <2>2
  <1>3. bloques' \in [Direccion -> Datos]
    BY <1>1, <1>2, CopiarTipo DEF DiscoInv, TypeOK
  <1>4. /\ metadata' = metadata /\ bitmap' = bitmap /\ compacta' = compacta
        /\ tamanio_nuevo' = tamanio_nuevo /\ guardado' = guardado /\ fuera' = fuera
        /\ bloque_actual' = bloque_actual /\ pendientes' = pendientes
    BY DEF write_file
  <1>5. EnDisco' = EnDisco /\ Existentes' = Existentes
    BY <1>4 DEF EnDisco, Existentes
  <1> QED  BY <1>3, <1>4, <1>5 DEF DiscoInv, TypeOK, SinSolaparse, OrdenDeCompactacion,
                                  CompactacionInv

\* A request that falls outside the disk changes nothing else; nor does a stutter.
LEMMA FueraPaso ==
  ASSUME DiscoInv, UNCHANGED <<metadata, bitmap, bloques, locales>>, fuera' \in BOOLEAN
  PROVE  DiscoInv'
  <1>1. /\ metadata' = metadata /\ bitmap' = bitmap /\ compacta' = compacta /\ bloques' = bloques
        /\ tamanio_nuevo' = tamanio_nuevo /\ guardado' = guardado
        /\ bloque_actual' = bloque_actual /\ pendientes' = pendientes
    BY DEF locales
  <1>2. EnDisco' = EnDisco /\ Existentes' = Existentes
    BY <1>1 DEF EnDisco, Existentes
  <1> QED  BY <1>1, <1>2 DEF DiscoInv, TypeOK, SinSolaparse, OrdenDeCompactacion, CompactacionInv

\* The disk is empty at the beginning.
LEMMA DiscoInicio == Init => DiscoInv
  <1> SUFFICES ASSUME Init PROVE DiscoInv
    OBVIOUS
  <1>1. Existentes = {} /\ EnDisco = {} /\ compacta = NoExiste
    BY DEF Init, Existentes, EnDisco
  <1>2. TypeOK
    <2>1. <<>> \in Seq(Datos) /\ 0 \in 0..BLOCK_COUNT /\ 0 \in 0..MaxTam /\ Cero \in Datos
      BY ConstantesOK
    <2> QED  BY <2>1 DEF Init, TypeOK
  <1> QED  BY <1>1, <1>2 DEF DiscoInv, SinSolaparse, OrdenDeCompactacion, CompactacionInv

\* Every step keeps the invariant.
LEMMA DiscoPaso == Borra /\ DiscoInv /\ [Next]_vars => DiscoInv'
  <1> SUFFICES ASSUME Borra, DiscoInv, [Next]_vars PROVE DiscoInv'
    OBVIOUS
  <1>1. ASSUME NEW f \in Archivos, create_file(f) \/ delete_file(f) \/ CompactaMueve(f)
        PROVE  DiscoInv'
    BY <1>1, CreatePaso, DeletePaso, MuevePaso
  <1>2. ASSUME NEW f \in Archivos, NEW n \in 0..MaxTam,
               \/ TruncateAchica(f, n) \/ TruncateIgual(f, n)
               \/ TruncateAgranda(f, n) \/ Compactar(f, n)
        PROVE  DiscoInv'
    BY <1>2, TruncatePaso, CompactarPaso
  <1>3. ASSUME NEW f \in Archivos, NEW n \in 1..(MaxTam + MaxDesborde),
               NEW dir \in 0..(MaxTam - 1), NEW d \in Datos, write_file(f, dir, n, d)
        PROVE  DiscoInv'
    <2>1. n \in Nat /\ dir \in Nat
      BY ConstantesOK
    <2> QED  BY <1>3, <2>1, WritePaso
  <1>4. CASE CreateSinLugar \/ CompactaSinLugar
    BY <1>4, FueraPaso DEF CreateSinLugar, CompactaSinLugar
  <1>5. CASE CompactaGuarda \/ CompactaTermina
    BY <1>5, GuardaPaso, TerminaPaso
  <1>6. CASE UNCHANGED vars
    BY <1>6, FueraPaso DEF vars, DiscoInv, TypeOK
  <1> QED  BY <1>1, <1>2, <1>3, <1>4, <1>5, <1>6 DEF Next

-----------------------------------------------------------------------------
(* What the runs check, for every disk                                      *)

\* The invariant of the disk, in every state of every execution whose deletes free the
\* blocks the file has: every marked range, the compaction, and what its locals hold.
THEOREM DiscoSiempre == ASSUME Borra PROVE Spec => []DiscoInv
  <1>1. Init => DiscoInv
    BY DiscoInicio
  <1>2. DiscoInv /\ [Next]_vars => DiscoInv'
    BY DiscoPaso
  <1> QED  BY <1>1, <1>2, PTL DEF Spec

\* dialfs.c:38: the blocks of a file on disk are marked, and no two files share one, with
\* every request and at every step of a compaction.
THEOREM SinSolaparseSiempre == ASSUME Borra PROVE Spec => []SinSolaparse
  <1>1. DiscoInv => SinSolaparse
    BY DEF DiscoInv
  <1> QED  BY <1>1, DiscoSiempre, PTL

\* compactar never finds a file that begins before the space it has freed, which is what
\* the assertion of mover_archivo says.
THEOREM OrdenSiempre == ASSUME Borra PROVE Spec => []OrdenDeCompactacion
  <1>1. DiscoInv => OrdenDeCompactacion
    BY DEF DiscoInv
  <1> QED  BY <1>1, DiscoSiempre, PTL
-----------------------------------------------------------------------------
(* What the processes see of each file                                      *)

\* Leer and Copiar over any bytes, those of the state before or after a step.
LeerDe(B, m) == [k \in 1..m.tam_bytes |-> B[puntero_bloque(m.bloque_inicial) + k - 1]]
CopiarEn(B, dir, q) ==
    [a \in Direccion |-> IF a - dir + 1 \in DOMAIN q THEN q[a - dir + 1] ELSE B[a]]

\* A file that fits in the disk.
Entra(m) == m \in Metadata /\ m.bloque_inicial + tam_bloques(m.tam_bytes) <= BLOCK_COUNT

\* What is read of one.
LEMMA LeerDeLema ==
  ASSUME NEW B \in [Direccion -> Datos], NEW m, Entra(m)
  PROVE  /\ LeerDe(B, m) \in Seq(Datos) /\ Len(LeerDe(B, m)) = m.tam_bytes
         /\ DOMAIN LeerDe(B, m) = 1..m.tam_bytes /\ m.tam_bytes \in Nat
         /\ \A k \in 1..m.tam_bytes :
                /\ puntero_bloque(m.bloque_inicial) + k - 1 \in Direccion
                /\ LeerDe(B, m)[k] = B[puntero_bloque(m.bloque_inicial) + k - 1]
  <1>1. PICK i \in Nat, n \in Nat : i = m.bloque_inicial /\ n = m.tam_bytes
    BY RangoLema DEF Entra
  <1>2. \A k \in 1..n : puntero_bloque(i) + k - 1 \in Direccion
    BY <1>1, BytesEnDisco DEF Entra
  <1>3. LeerDe(B, m) = [k \in 1..n |-> B[puntero_bloque(i) + k - 1]]
    BY <1>1 DEF LeerDe
  <1>4. LeerDe(B, m) \in [1..n -> Datos]
    BY <1>2, <1>3
  <1>5. LeerDe(B, m) \in Seq(Datos) /\ Len(LeerDe(B, m)) = n
    BY <1>3, <1>4
  <1> QED  BY <1>1, <1>2, <1>3, <1>5

\* Bytes copied before a file, or after its blocks, are not its bytes.
LEMMA CopiarLejos ==
  ASSUME NEW B \in [Direccion -> Datos], NEW m, Entra(m), NEW dir \in Nat, NEW q \in Seq(Datos),
         \/ dir + Len(q) <= puntero_bloque(m.bloque_inicial)
         \/ puntero_bloque(m.bloque_inicial + tam_bloques(m.tam_bytes)) <= dir
  PROVE  LeerDe(CopiarEn(B, dir, q), m) = LeerDe(B, m)
  <1>1. PICK i \in Nat, n \in Nat : i = m.bloque_inicial /\ n = m.tam_bytes
    BY RangoLema DEF Entra
  <1>2. PICK l \in Nat : l = Len(q) /\ DOMAIN q = 1..l
    OBVIOUS
  <1>3. ASSUME NEW k \in 1..n
        PROVE  CopiarEn(B, dir, q)[puntero_bloque(i) + k - 1] = B[puntero_bloque(i) + k - 1]
    <2>1. PICK p \in Nat, z \in Nat :
              /\ p = puntero_bloque(i) /\ z = puntero_bloque(i + tam_bloques(n))
              /\ p + k - 1 < z
      BY Bytes
    <2>2. p + k - 1 \in Direccion
      BY <1>1, <2>1, BytesEnDisco DEF Entra
    <2>3. dir + l <= p \/ z <= dir
      BY <1>1, <1>2, <2>1
    <2>4. p + k - 1 - dir + 1 \notin 1..l
      BY <1>2, <2>1, <2>3
    <2> QED  BY <1>2, <2>1, <2>2, <2>4 DEF CopiarEn
  <1> QED  BY <1>1, <1>3 DEF LeerDe

\* Bytes copied to where a file begins, and inside it from any of its bytes on, are read.
LEMMA CopiarAhi ==
  ASSUME NEW B \in [Direccion -> Datos], NEW m, Entra(m), NEW x \in Nat, NEW q \in Seq(Datos),
         NEW k \in 1..m.tam_bytes
  PROVE  LeerDe(CopiarEn(B, puntero_bloque(m.bloque_inicial) + x, q), m)[k]
             = IF x < k /\ k <= x + Len(q) THEN q[k - x] ELSE LeerDe(B, m)[k]
  <1>1. PICK i \in Nat, n \in Nat : i = m.bloque_inicial /\ n = m.tam_bytes
    BY RangoLema DEF Entra
  <1>2. PICK l \in Nat : l = Len(q) /\ DOMAIN q = 1..l
    OBVIOUS
  <1>3. PICK p \in Nat : p = puntero_bloque(i)
    BY <1>1, Bytes
  <1>4. p + k - 1 \in Direccion
    BY <1>1, <1>3, BytesEnDisco DEF Entra
  <1>5. p + k - 1 - (p + x) + 1 = k - x /\ (k - x \in 1..l <=> x < k /\ k <= x + l)
    BY <1>1, <1>2, <1>3
  <1>6. CopiarEn(B, p + x, q)[p + k - 1] = IF k - x \in 1..l THEN q[k - x] ELSE B[p + k - 1]
    BY <1>2, <1>4, <1>5 DEF CopiarEn
  <1> QED  BY <1>1, <1>2, <1>3, <1>5, <1>6 DEF LeerDe

\* What each file holds, by where it is.
LEMMA Contenidos ==
  DiscoInv =>
    /\ \A f \in Archivos : f \notin Existentes => Contenido(f) = NoExiste
    /\ \A f \in EnDisco : /\ f \in Archivos /\ Entra(metadata[f])
                          /\ Contenido(f) = LeerDe(bloques, metadata[f])
    /\ \A f \in Existentes : f \notin EnDisco => f = compacta /\ Contenido(f) = guardado
    /\ \A f \in Existentes : f \in Archivos /\ Contenido(f) \in Seq(Datos)
    /\ bloques \in [Direccion -> Datos]
  <1> SUFFICES ASSUME DiscoInv
      PROVE /\ \A f \in Archivos : f \notin Existentes => Contenido(f) = NoExiste
            /\ \A f \in EnDisco : /\ f \in Archivos /\ Entra(metadata[f])
                                  /\ Contenido(f) = LeerDe(bloques, metadata[f])
            /\ \A f \in Existentes : f \notin EnDisco => f = compacta /\ Contenido(f) = guardado
            /\ \A f \in Existentes : f \in Archivos /\ Contenido(f) \in Seq(Datos)
            /\ bloques \in [Direccion -> Datos]
    OBVIOUS
  <1>1. TypeOK /\ SinSolaparse /\ bloques \in [Direccion -> Datos] /\ guardado \in Seq(Datos)
    BY DEF DiscoInv, TypeOK
  <1>2. \A f \in Archivos : f \notin Existentes => Contenido(f) = NoExiste
    BY DEF Contenido, Existentes
  <1>3. ASSUME NEW f \in EnDisco
        PROVE  /\ f \in Archivos /\ Entra(metadata[f])
               /\ Contenido(f) = LeerDe(bloques, metadata[f])
    <2>1. f \in Existentes /\ f \in Archivos /\ metadata[f] \in Metadata
      BY <1>1, ExistentesTipo
    <2>2. ~(f = compacta /\ f \notin pendientes)
      BY <1>3 DEF EnDisco
    <2>3. Entra(metadata[f])
      BY <1>1, <2>1, Cabe DEF Entra
    <2> QED  BY <2>1, <2>2, <2>3 DEF Contenido, Leer, LeerDe, Existentes
  <1>4. ASSUME NEW f \in Existentes, f \notin EnDisco
        PROVE  f = compacta /\ Contenido(f) = guardado
    BY <1>4 DEF EnDisco, Contenido, Existentes
  <1>5. ASSUME NEW f \in Existentes
        PROVE  f \in Archivos /\ Contenido(f) \in Seq(Datos)
    <2>1. CASE f \in EnDisco
      BY <1>1, <1>3, <2>1, LeerDeLema
    <2>2. CASE f \notin EnDisco
      BY <1>1, <1>4, <2>2 DEF Existentes
    <2> QED  BY <2>1, <2>2
  <1> QED  BY <1>1, <1>2, <1>3, <1>4, <1>5

\* The same in the next state.
LEMMA ContenidosSig ==
  (DiscoInv =>
    /\ \A f \in Archivos : f \notin Existentes => Contenido(f) = NoExiste
    /\ \A f \in EnDisco : /\ f \in Archivos /\ Entra(metadata[f])
                          /\ Contenido(f) = LeerDe(bloques, metadata[f])
    /\ \A f \in Existentes : f \notin EnDisco => f = compacta /\ Contenido(f) = guardado
    /\ \A f \in Existentes : f \in Archivos /\ Contenido(f) \in Seq(Datos)
    /\ bloques \in [Direccion -> Datos])'
  BY Contenidos, PTL
\* The files whose metadata and bytes stay are seen the same.
LEMMA NoCambia ==
  ASSUME DiscoInv, DiscoInv', NEW g \in EnDisco, g \in EnDisco',
         LeerDe(bloques', metadata'[g]) = LeerDe(bloques, metadata[g])
  PROVE  Contenido(g)' = Contenido(g)
  <1>1. Contenido(g) = LeerDe(bloques, metadata[g])
    BY Contenidos
  <1>2. Contenido(g)' = LeerDe(bloques', metadata'[g])
    BY ContenidosSig
  <1> QED  BY <1>1, <1>2

\* With no compaction on the way, before or after.
LEMMA QuietoSinCompactar ==
  ASSUME compacta = NoExiste, compacta' = NoExiste, bloques' = bloques,
         NEW g \in Archivos, metadata'[g] = metadata[g]
  PROVE  Contenido(g)' = Contenido(g)
  <1>1. g # NoExiste
    BY Existe
  <1> QED  BY <1>1 DEF Contenido, Leer

\* FS_CREATE leaves the file empty.
LEMMA CrearVisto ==
  ASSUME DiscoInv, DiscoInv', NEW f \in Archivos, create_file(f)
  PROVE  Contenido(f)' = <<>> /\ \A g \in Archivos : g # f => Contenido(g)' = Contenido(g)
  <1> USE DEF locales
  <1>1. TypeOK /\ compacta = NoExiste /\ compacta' = NoExiste /\ bloques' = bloques
    BY DEF DiscoInv, create_file, Libre
  <1>2. PICK b \in Bloque :
            metadata' = [metadata EXCEPT ![f] = [bloque_inicial |-> b, tam_bytes |-> 0]]
    BY DEF create_file
  <1> DEFINE m == [bloque_inicial |-> b, tam_bytes |-> 0]
  <1>3. m \in Metadata /\ m.tam_bytes = 0
    BY <1>2, ConstantesOK DEF Metadata, Bloque
  <1> HIDE DEF m
  <1>4. metadata'[f] = m /\ \A g \in Archivos : g # f => metadata'[g] = metadata[g]
    BY <1>1, <1>2 DEF TypeOK, m
  <1>5. f \in EnDisco'
    BY <1>1, <1>3, <1>4, Existe DEF EnDisco, Existentes
  <1>6. Contenido(f)' = LeerDe(bloques', m)
    BY <1>4, <1>5, ContenidosSig
  <1>7. LeerDe(bloques', m) = <<>>
    BY <1>3 DEF LeerDe
  <1> QED  BY <1>1, <1>4, <1>6, <1>7, QuietoSinCompactar

\* FS_DELETE leaves no file.
LEMMA EliminarVisto ==
  ASSUME DiscoInv, NEW f \in Archivos, delete_file(f)
  PROVE  /\ Contenido(f) # NoExiste /\ Contenido(f)' = NoExiste
         /\ \A g \in Archivos : g # f => Contenido(g)' = Contenido(g)
  <1> USE DEF locales
  <1>1. /\ TypeOK /\ compacta = NoExiste /\ compacta' = NoExiste /\ bloques' = bloques
        /\ f \in Existentes /\ metadata' = [metadata EXCEPT ![f] = NoExiste]
    BY DEF DiscoInv, delete_file, Libre
  <1>2. metadata'[f] = NoExiste /\ \A g \in Archivos : g # f => metadata'[g] = metadata[g]
    BY <1>1 DEF TypeOK
  <1>3. Contenido(f) # NoExiste
    BY <1>1, Contenidos, Existe
  <1>4. Contenido(f)' = NoExiste
    BY <1>2 DEF Contenido
  <1> QED  BY <1>1, <1>2, <1>3, <1>4, QuietoSinCompactar

\* FS_TRUNCATE where there is room: the bytes stay up to the new size.
LEMMA TruncarVisto ==
  ASSUME DiscoInv, DiscoInv', NEW f \in Archivos, NEW n \in 0..MaxTam,
         TruncateAchica(f, n) \/ TruncateIgual(f, n) \/ TruncateAgranda(f, n)
  PROVE  /\ Contenido(f) # NoExiste /\ Contenido(f)' \in Seq(Datos)
         /\ \A k \in DOMAIN Contenido(f) : k \in DOMAIN Contenido(f)' =>
                Contenido(f)'[k] = Contenido(f)[k]
         /\ \A g \in Archivos : g # f => Contenido(g)' = Contenido(g)
  <1> USE DEF locales
  <1>1. /\ TypeOK /\ compacta = NoExiste /\ compacta' = NoExiste /\ bloques' = bloques
        /\ f \in Existentes /\ ActualizarTamanio(f, n) /\ EnDisco = Existentes
    BY ExistentesTipo DEF DiscoInv, Libre, TruncateAchica, TruncateIgual, TruncateAgranda
  <1>2. /\ metadata'[f].bloque_inicial = metadata[f].bloque_inicial
        /\ \A g \in Archivos : g # f => metadata'[g] = metadata[g]
        /\ Existentes' = Existentes
    BY <1>1, Actualizar
  <1>3. f \in EnDisco'
    BY <1>1, <1>2, Existe DEF EnDisco
  <1>4. /\ Contenido(f) = LeerDe(bloques, metadata[f]) /\ Entra(metadata[f])
        /\ bloques \in [Direccion -> Datos]
    BY <1>1, Contenidos
  <1>5. Contenido(f)' = LeerDe(bloques, metadata'[f]) /\ Entra(metadata'[f])
    BY <1>1, <1>3, ContenidosSig
  <1>6. PICK m, o : m = metadata[f] /\ o = metadata'[f]
    OBVIOUS
  <1>7. ASSUME NEW k \in DOMAIN LeerDe(bloques, m), k \in DOMAIN LeerDe(bloques, o)
        PROVE  LeerDe(bloques, o)[k] = LeerDe(bloques, m)[k]
    BY <1>2, <1>6, <1>7 DEF LeerDe
  <1>8. LeerDe(bloques, o) \in Seq(Datos) /\ LeerDe(bloques, m) \in Seq(Datos)
    BY <1>4, <1>5, <1>6, LeerDeLema
  <1> QED  BY <1>1, <1>2, <1>4, <1>5, <1>6, <1>7, <1>8, Existe, QuietoSinCompactar

\* The compaction begins, or reads the file that grows: nothing is seen of it.
LEMMA GuardaVisto ==
  ASSUME DiscoInv,
         CompactaGuarda \/ \E f \in Archivos : \E n \in 0..MaxTam : Compactar(f, n),
         NEW g \in Archivos
  PROVE  Contenido(g)' = Contenido(g)
  <1> USE DEF locales
  <1>1. CASE CompactaGuarda
    <2>1. compacta \in pendientes /\ metadata[compacta] # NoExiste
      BY <1>1, Pendientes DEF CompactaGuarda, Siguiente, Existentes
    <2>2. /\ metadata' = metadata /\ bloques' = bloques /\ compacta' = compacta
          /\ guardado' = Leer(metadata[compacta]) /\ pendientes' = pendientes \ {compacta}
      BY <1>1 DEF CompactaGuarda
    <2>3. CASE g = compacta
      BY <2>1, <2>2, <2>3 DEF Contenido
    <2>4. CASE g # compacta
      BY <2>2, <2>4 DEF Contenido, Leer
    <2> QED  BY <2>3, <2>4
  <1>2. ASSUME NEW f \in Archivos, NEW n \in 0..MaxTam, Compactar(f, n)
        PROVE  Contenido(g)' = Contenido(g)
    <2>1. /\ metadata' = metadata /\ bloques' = bloques /\ compacta' = f /\ compacta = NoExiste
          /\ pendientes' = Existentes
      BY <1>2 DEF Compactar, Libre
    <2>2. g # NoExiste /\ (metadata[g] # NoExiste => g \in Existentes)
      BY Existe DEF Existentes
    <2> QED  BY <2>1, <2>2 DEF Contenido, Leer
  <1> QED  BY <1>1, <1>2
\* Bytes copied to the blocks of a file are not those of one wholly before or after it.
LEMMA CopiarAOtro ==
  ASSUME NEW B \in [Direccion -> Datos], NEW o, Entra(o), NEW ini \in Nat, NEW n \in Nat,
         NEW x \in Nat, NEW q \in Seq(Datos), x + Len(q) <= n,
         \/ ini + tam_bloques(n) <= o.bloque_inicial
         \/ o.bloque_inicial + tam_bloques(o.tam_bytes) <= ini
  PROVE  LeerDe(CopiarEn(B, puntero_bloque(ini) + x, q), o) = LeerDe(B, o)
  <1>1. PICK j \in Nat, u \in Nat : j = o.bloque_inicial /\ u = tam_bloques(o.tam_bytes)
    BY RangoLema DEF Entra
  <1>2. PICK t \in Nat : t = tam_bloques(n)
    BY TamBloques
  <1>3. PICK e \in Nat, p \in Nat, z \in Nat :
            e = ini + t /\ p = puntero_bloque(ini) /\ z = puntero_bloque(e) /\ p + n <= z
    <2>1. PICK e \in Nat : e = ini + t /\ e = ini + tam_bloques(n)
      BY <1>2
    <2>2. /\ puntero_bloque(ini) \in Nat /\ puntero_bloque(e) \in Nat
          /\ puntero_bloque(ini) + n <= puntero_bloque(e)
      BY <2>1, BytesFin
    <2> QED  BY <2>1, <2>2
  <1>4. PICK l \in Nat : l = Len(q) /\ x + l <= n
    OBVIOUS
  <1>5. CASE e <= j
    <2>1. PICK y \in Nat : y = puntero_bloque(j) /\ z <= y
      BY <1>3, <1>5, Punteros
    <2>2. p + x \in Nat /\ (p + x) + l <= y
      BY <1>3, <1>4, <2>1
    <2>3. PICK w \in Nat : w = p + x /\ w + Len(q) <= puntero_bloque(o.bloque_inicial)
      BY <1>1, <1>4, <2>1, <2>2
    <2>4. LeerDe(CopiarEn(B, w, q), o) = LeerDe(B, o)
      BY <2>3, CopiarLejos
    <2> QED  BY <1>3, <2>3, <2>4
  <1>6. CASE j + u <= ini
    <2>1. PICK v \in Nat : v = j + u /\ v <= ini
      BY <1>6
    <2>2. PICK y \in Nat : y = puntero_bloque(v) /\ y <= p
      BY <1>3, <2>1, Punteros
    <2>3. PICK w \in Nat : w = p + x /\ y <= w
      BY <1>3, <2>2
    <2>4. puntero_bloque(o.bloque_inicial + tam_bloques(o.tam_bytes)) <= w
      BY <1>1, <2>1, <2>2, <2>3
    <2>5. LeerDe(CopiarEn(B, w, q), o) = LeerDe(B, o)
      BY <2>3, <2>4, CopiarLejos
    <2> QED  BY <1>3, <2>3, <2>5
  <1> QED  BY <1>1, <1>2, <1>3, <1>5, <1>6

\* A file that is on disk and does not move is where a copy made by the compaction, from
\* bloque_actual on and no longer than the file it moves, does not reach.
LEMMA AntesDelActual ==
  ASSUME DiscoInv, compacta # NoExiste, NEW g \in EnDisco, g \notin pendientes
  PROVE  metadata[g].bloque_inicial + tam_bloques(metadata[g].tam_bytes) <= bloque_actual
  <1>1. metadata[g] \in Metadata /\ bloque_actual \in Nat
    BY Pendientes, ConstantesOK DEF DiscoInv, TypeOK
  <1>2. Rango(metadata[g]) \subseteq 0..(bloque_actual - 1)
    BY DEF DiscoInv, CompactacionInv
  <1>3. PICK i \in Nat, t \in Nat :
            i = metadata[g].bloque_inicial /\ t = tam_bloques(metadata[g].tam_bytes) /\ t >= 1
    BY <1>1, RangoLema
  <1>4. i + t - 1 \in Rango(metadata[g])
    BY <1>1, <1>3, RangoLema
  <1>5. i + t - 1 \in 0..(bloque_actual - 1)
    BY <1>2, <1>4
  <1> QED  BY <1>1, <1>3, <1>5

\* A file slides: nothing is seen of it, not even of that file.
LEMMA MueveVisto ==
  ASSUME DiscoInv, DiscoInv', NEW f \in Archivos, CompactaMueve(f), NEW g \in Archivos
  PROVE  Contenido(g)' = Contenido(g)
  <1>1. /\ f \in pendientes /\ f \in EnDisco /\ compacta # NoExiste /\ f # compacta
        /\ metadata'[f] \in Metadata /\ metadata'[f].bloque_inicial = bloque_actual
        /\ metadata'[f].tam_bytes = metadata[f].tam_bytes
        /\ \A h \in Archivos : h # f => metadata'[h] = metadata[h]
        /\ bloque_actual <= metadata[f].bloque_inicial
        /\ pendientes' = pendientes \ {f}
        /\ compacta' = compacta /\ guardado' = guardado
    BY Mueve
  <1>2. \/ mover_archivo(f)
        \/ UNCHANGED <<bloques, bitmap, metadata>>
    BY DEF CompactaMueve
  <1>3. CASE UNCHANGED <<bloques, bitmap, metadata>>
    BY <1>1, <1>3 DEF Contenido, Leer
  <1>4. CASE mover_archivo(f)
    <2> DEFINE q == LeerDe(bloques, metadata[f])
    <2>1. /\ bloques' = CopiarEn(bloques, puntero_bloque(bloque_actual), q)
          /\ Entra(metadata[f]) /\ bloques \in [Direccion -> Datos]
          /\ Contenido(f) = q
      BY <1>1, <1>4, Contenidos DEF mover_archivo, Copiar, CopiarEn, Leer, LeerDe
    <2>2. PICK i \in Nat, n \in Nat, b \in Nat, t \in Nat :
              /\ i = metadata[f].bloque_inicial /\ n = metadata[f].tam_bytes
              /\ b = bloque_actual /\ t = tam_bloques(n) /\ b <= i
      BY <1>1, <2>1, RangoLema, ConstantesOK DEF Entra, DiscoInv, TypeOK
    <2>3. PICK B \in [Direccion -> Datos], r \in Seq(Datos) :
              /\ B = bloques /\ r = q /\ Len(r) = n /\ DOMAIN r = 1..n
              /\ bloques' = CopiarEn(B, puntero_bloque(b) + 0, r)
      <3>1. q \in Seq(Datos) /\ Len(q) = n /\ DOMAIN q = 1..n
        BY <2>1, <2>2, LeerDeLema
      <3>2. puntero_bloque(b) = puntero_bloque(b) + 0
        BY BytesFin, <2>2
      <3> QED  BY <2>1, <2>2, <3>1, <3>2
    <2> HIDE DEF q
    <2>4. EnDisco' = EnDisco
      <3>1. Existentes' = Existentes
        BY <1>1, <2>1, Existe DEF Existentes, EnDisco
      <3> QED  BY <1>1, <3>1 DEF EnDisco
    <2>5. CASE g \notin EnDisco
      <3>1. g # f /\ metadata'[g] = metadata[g]
        BY <1>1, <2>5
      <3>2. metadata[g] = NoExiste \/ (g = compacta /\ g \notin pendientes)
        BY <2>5 DEF EnDisco, Existentes
      <3> QED  BY <1>1, <3>1, <3>2 DEF Contenido
    <2>6. CASE g \in EnDisco /\ g # f
      <3>1. PICK o : o = metadata[g] /\ o = metadata'[g] /\ Entra(o)
        BY <1>1, <2>6, Contenidos
      <3>2. b + tam_bloques(n) <= o.bloque_inicial \/ o.bloque_inicial + tam_bloques(o.tam_bytes) <= b
        <4>1. CASE g \in pendientes
          <5>1. i + t <= o.bloque_inicial
            BY <2>2, <2>6, <3>1, <4>1, Despues
          <5>2. PICK j \in Nat : j = o.bloque_inicial
            BY <3>1, RangoLema DEF Entra
          <5> QED  BY <2>2, <5>1, <5>2
        <4>2. CASE g \notin pendientes
          BY <1>1, <2>2, <2>6, <3>1, <4>2, AntesDelActual
        <4> QED  BY <4>1, <4>2
      <3>3. 0 \in Nat /\ 0 + Len(r) <= n
        BY <2>3
      <3>4. LeerDe(CopiarEn(B, puntero_bloque(b) + 0, r), o) = LeerDe(B, o)
        <4>1. PICK x \in Nat : x = 0 /\ x + Len(r) <= n
          BY <3>3
        <4>2. LeerDe(CopiarEn(B, puntero_bloque(b) + x, r), o) = LeerDe(B, o)
          BY <2>2, <3>1, <3>2, <4>1, CopiarAOtro
        <4> QED  BY <4>1, <4>2
      <3> QED  BY <2>3, <2>4, <2>6, <3>1, <3>4, NoCambia
    <2>7. CASE g = f
      <3>1. PICK o : o = metadata'[f] /\ Entra(o) /\ o.bloque_inicial = b /\ o.tam_bytes = n
        BY <1>1, <2>2, <2>4, ContenidosSig
      <3>2. ASSUME NEW k \in 1..n PROVE LeerDe(bloques', o)[k] = r[k]
        <4>1. k \in 1..o.tam_bytes /\ 0 \in Nat /\ 0 < k /\ k <= 0 + Len(r) /\ k - 0 = k
          BY <2>2, <2>3, <3>1
        <4>2. LeerDe(CopiarEn(B, puntero_bloque(o.bloque_inicial) + 0, r), o)[k]
                  = IF 0 < k /\ k <= 0 + Len(r) THEN r[k - 0] ELSE LeerDe(B, o)[k]
          BY <3>1, <4>1, CopiarAhi
        <4> QED  BY <2>3, <3>1, <4>1, <4>2
      <3>3. PICK s \in Seq(Datos) : s = LeerDe(bloques', o) /\ Len(s) = n
        BY <2>4, <2>2, <1>1, <3>1, ContenidosSig, LeerDeLema
      <3>4. s = r
        BY <2>3, <3>2, <3>3, SeqEqual
      <3>5. Contenido(f)' = LeerDe(bloques', o)
        BY <1>1, <2>4, <3>1, ContenidosSig
      <3> QED  BY <2>1, <2>3, <2>7, <3>3, <3>4, <3>5
    <2> QED  BY <2>5, <2>6, <2>7
  <1> QED  BY <1>2, <1>3, <1>4
\* The compaction ends: the file keeps its bytes up to the size it had, and no other changes.
LEMMA TerminaVisto ==
  ASSUME DiscoInv, DiscoInv', CompactaTermina, NEW c, c = compacta
  PROVE  /\ c \in Archivos /\ Contenido(c) # NoExiste /\ Contenido(c)' \in Seq(Datos)
         /\ \A k \in DOMAIN Contenido(c) : k \in DOMAIN Contenido(c)' =>
                Contenido(c)'[k] = Contenido(c)[k]
         /\ \A g \in Archivos : g # c => Contenido(g)' = Contenido(g)
  <1>1. /\ c \in Archivos /\ c \in Existentes /\ EnDisco = Existentes \ {c}
        /\ pendientes = {} /\ compacta' = NoExiste /\ c # NoExiste
        /\ metadata'[c] \in Metadata /\ metadata'[c].bloque_inicial = bloque_actual
        /\ \A g \in Archivos : g # c => metadata'[g] = metadata[g]
        /\ bloques' = CopiarEn(bloques, puntero_bloque(bloque_actual), guardado)
        /\ bloque_actual \in Nat
    BY Termina, Existe DEF Copiar, CopiarEn
  <1>2. /\ bloques \in [Direccion -> Datos] /\ guardado \in Seq(Datos)
        /\ Contenido(c) = guardado
    BY <1>1, Contenidos DEF DiscoInv, TypeOK
  <1>3. PICK B \in [Direccion -> Datos], r \in Seq(Datos), b \in Nat, l \in Nat :
            /\ B = bloques /\ r = guardado /\ b = bloque_actual /\ l = Len(r) /\ DOMAIN r = 1..l
            /\ bloques' = CopiarEn(B, puntero_bloque(b) + 0, r)
    <2>1. puntero_bloque(bloque_actual) = puntero_bloque(bloque_actual) + 0
      BY <1>1, BytesFin
    <2> QED  BY <1>1, <1>2, <2>1
  <1>4. EnDisco' = Existentes' /\ c \in EnDisco' /\ Existentes' = Existentes
    <2>1. EnDisco' = Existentes'
      BY <1>1, Existe DEF EnDisco, Existentes
    <2> QED  BY <1>1, <2>1, Existe DEF Existentes
  <1>5. PICK m : /\ m = metadata'[c] /\ Entra(m) /\ m.bloque_inicial = b
                 /\ Contenido(c)' = LeerDe(bloques', m)
    BY <1>1, <1>3, <1>4, ContenidosSig
  <1>6. PICK s \in Seq(Datos) : s = LeerDe(bloques', m) /\ DOMAIN s = 1..m.tam_bytes
    BY <1>5, ContenidosSig, LeerDeLema
  <1>7. ASSUME NEW k \in DOMAIN r, k \in DOMAIN s
        PROVE  s[k] = r[k]
    <2>1. PICK x \in Nat : x = 0 /\ x < k /\ k <= x + Len(r) /\ k - x = k
      BY <1>3, <1>7
    <2>2. k \in 1..m.tam_bytes
      BY <1>6, <1>7
    <2>3. LeerDe(CopiarEn(B, puntero_bloque(m.bloque_inicial) + x, r), m)[k]
              = IF x < k /\ k <= x + Len(r) THEN r[k - x] ELSE LeerDe(B, m)[k]
      BY <1>3, <1>5, <2>1, <2>2, CopiarAhi
    <2> QED  BY <1>3, <1>5, <1>6, <2>1, <2>3
  <1>8. ASSUME NEW g \in Archivos, g # c
        PROVE  Contenido(g)' = Contenido(g)
    <2>1. CASE g \notin Existentes
      BY <1>1, <1>8, <2>1 DEF Contenido, Existentes
    <2>2. CASE g \in Existentes
      <3>1. g \in EnDisco /\ g \in EnDisco' /\ g \notin pendientes
        BY <1>1, <1>4, <1>8, <2>2
      <3>2. PICK o : o = metadata[g] /\ o = metadata'[g] /\ Entra(o)
        BY <1>1, <1>8, <3>1, Contenidos
      <3>3. o.bloque_inicial + tam_bloques(o.tam_bytes) <= b
        BY <1>1, <1>3, <3>1, <3>2, AntesDelActual
      <3>4. PICK x \in Nat : x = 0 /\ x + Len(r) <= l
        BY <1>3
      <3>5. LeerDe(CopiarEn(B, puntero_bloque(b) + x, r), o) = LeerDe(B, o)
        BY <3>2, <3>3, <3>4, CopiarAOtro
      <3> QED  BY <1>3, <3>1, <3>2, <3>4, <3>5, NoCambia
    <2> QED  BY <2>1, <2>2
  <1> QED  BY <1>1, <1>2, <1>3, <1>5, <1>6, <1>7, <1>8, Existe

\* FS_WRITE, when no request asks for more than the file has: the bytes from dir on become
\* d, as many as were written, and no other, of it or of another file.
LEMMA EscribirVisto ==
  ASSUME DiscoInv, DiscoInv', MaxDesborde = 0, NEW f \in Archivos, NEW n \in Nat,
         NEW dir \in Nat, NEW d \in Datos, write_file(f, dir, n, d)
  PROVE  /\ Contenido(f) # NoExiste /\ Contenido(f) \in Seq(Datos)
         /\ \E h \in Nat :
               /\ dir <= h /\ h <= Len(Contenido(f))
               /\ Contenido(f)' = [k \in DOMAIN Contenido(f) |->
                                      IF dir < k /\ k <= h THEN d ELSE Contenido(f)[k]]
         /\ \A g \in Archivos : g # f => Contenido(g)' = Contenido(g)
  <1> USE DEF locales
  <1>1. /\ compacta = NoExiste /\ compacta' = NoExiste /\ metadata' = metadata
        /\ f \in Existentes /\ EnDisco = Existentes /\ dir + n <= metadata[f].tam_bytes
        /\ EnDisco' = Existentes' /\ Existentes' = Existentes
    <2>1. /\ compacta = NoExiste /\ compacta' = NoExiste /\ metadata' = metadata
          /\ f \in Existentes /\ dir + n <= metadata[f].tam_bytes + MaxDesborde
      BY DEF write_file, Libre
    <2>2. EnDisco = Existentes /\ metadata[f] \in Metadata
      BY <2>1, ExistentesTipo DEF DiscoInv
    <2>3. metadata[f].tam_bytes + MaxDesborde = metadata[f].tam_bytes
      BY <2>2, RangoLema
    <2>4. EnDisco' = Existentes' /\ Existentes' = Existentes
      BY <2>1, Existe DEF EnDisco, Existentes
    <2> QED  BY <2>1, <2>2, <2>3, <2>4
  <1>2. PICK e \in 1..n :
            bloques' = Copiar(puntero_bloque(metadata[f].bloque_inicial) + dir, [k \in 1..e |-> d])
    BY DEF write_file, Escritos
  <1>3. PICK m : m = metadata[f] /\ Entra(m) /\ Contenido(f) = LeerDe(bloques, m)
    BY <1>1, Contenidos
  <1>4. PICK i \in Nat, t \in Nat : i = m.bloque_inicial /\ t = m.tam_bytes /\ dir + n <= t
    BY <1>1, <1>3, RangoLema DEF Entra
  <1>5. PICK r \in Seq(Datos) : /\ r = [k \in 1..e |-> d] /\ Len(r) = e
                                /\ \A k \in 1..e : r[k] = d
    <2>1. e \in Nat
      OBVIOUS
    <2>2. [k \in 1..e |-> d] \in Seq(Datos)
      BY <2>1
    <2>3. Len([k \in 1..e |-> d]) = e
      BY <2>1
    <2>4. \A k \in 1..e : [j \in 1..e |-> d][k] = d
      OBVIOUS
    <2> QED  BY <2>2, <2>3, <2>4
  <1>6. PICK B \in [Direccion -> Datos] :
            B = bloques /\ bloques' = CopiarEn(B, puntero_bloque(i) + dir, r)
    BY <1>2, <1>3, <1>4, <1>5, Contenidos DEF Copiar, CopiarEn
  <1>7. f \in EnDisco' /\ Contenido(f)' = LeerDe(bloques', m)
    BY <1>1, <1>3, ContenidosSig
  <1>8. PICK q \in Seq(Datos), s \in Seq(Datos) :
            /\ q = LeerDe(B, m) /\ s = LeerDe(bloques', m)
            /\ DOMAIN q = 1..t /\ DOMAIN s = 1..t /\ Len(q) = t
    BY <1>3, <1>4, <1>6, ContenidosSig, LeerDeLema
  <1>9. ASSUME NEW k \in 1..t
        PROVE  s[k] = IF dir < k /\ k <= dir + e THEN d ELSE q[k]
    <2>0. k \in 1..m.tam_bytes
      BY <1>4
    <2>1. LeerDe(CopiarEn(B, puntero_bloque(m.bloque_inicial) + dir, r), m)[k]
              = IF dir < k /\ k <= dir + Len(r) THEN r[k - dir] ELSE LeerDe(B, m)[k]
      <3>1. B \in [Direccion -> Datos] /\ r \in Seq(Datos) /\ Entra(m)
        BY <1>3, <1>5, <1>6
      <3>2. dir \in Nat
        OBVIOUS
      <3> HIDE DEF locales
      <3> QED  BY ONLY <2>0, <3>1, <3>2, CopiarAhi
    <2>2. dir < k /\ k <= dir + e => k - dir \in 1..e
      OBVIOUS
    <2> QED  BY <1>4, <1>5, <1>6, <1>8, <2>1, <2>2
  <1>10. dir + e \in Nat /\ dir <= dir + e /\ dir + e <= t
    BY <1>4
  <1>11. s = [k \in 1..t |-> IF dir < k /\ k <= dir + e THEN d ELSE q[k]]
    BY <1>8, <1>9
  <1>12. ASSUME NEW g \in Archivos, g # f
         PROVE  Contenido(g)' = Contenido(g)
    <2>1. CASE g \notin Existentes
      BY <1>1, <2>1 DEF Contenido, Existentes
    <2>2. CASE g \in Existentes
      <3>1. g \in EnDisco /\ g \in EnDisco'
        BY <1>1, <2>2
      <3>2. PICK o : o = metadata[g] /\ Entra(o)
        BY <3>1, Contenidos
      <3>3. Rango(m) \cap Rango(o) = {}
        BY <1>1, <1>3, <1>12, <3>1, <3>2 DEF DiscoInv, SinSolaparse
      <3>4. \/ i + tam_bloques(t) <= o.bloque_inicial
            \/ o.bloque_inicial + tam_bloques(o.tam_bytes) <= i
        BY <1>3, <1>4, <3>2, <3>3, Separados DEF Entra
      <3>5. dir + Len(r) <= t
        BY <1>5, <1>10
      <3>6. LeerDe(CopiarEn(B, puntero_bloque(i) + dir, r), o) = LeerDe(B, o)
        BY <3>2, <3>4, <3>5, CopiarAOtro
      <3> QED  BY <1>1, <1>6, <3>1, <3>2, <3>6, NoCambia
    <2> QED  BY <2>1, <2>2
  <1>13. /\ Contenido(f) = q /\ Contenido(f)' = s /\ DOMAIN q = 1..t /\ Len(q) = t
    BY <1>3, <1>6, <1>7, <1>8
  <1>14. PICK h \in Nat : h = dir + e /\ dir <= h /\ h <= t
    BY <1>10
  <1>15. s = [k \in DOMAIN q |-> IF dir < k /\ k <= h THEN d ELSE q[k]]
    BY <1>8, <1>11, <1>14
  <1> QED  BY <1>12, <1>13, <1>14, <1>15, Existe
-----------------------------------------------------------------------------
(* Almacen                                                                  *)

\* All the contents, which is what Almacen keeps.
Vista == [f \in Archivos |-> Contenido(f)]

\* One file changes and the rest do not, seen as Almacen says it.
LEMMA VistaCambia ==
  ASSUME NEW f \in Archivos, \A g \in Archivos : g # f => Contenido(g)' = Contenido(g),
         NEW v, Contenido(f)' = v
  PROVE  Vista' = [Vista EXCEPT ![f] = v]
  <1>1. \A g \in Archivos : Contenido(g)' = IF g = f THEN v ELSE Contenido(g)
    OBVIOUS
  <1> QED  BY <1>1 DEF Vista

\* No file changes.
LEMMA VistaIgual ==
  ASSUME \A g \in Archivos : Contenido(g)' = Contenido(g)
  PROVE  Vista' = Vista
  BY DEF Vista

\* A truncation, compacting or not.
LEMMA VistaTrunca ==
  ASSUME NEW f \in Archivos, Contenido(f) # NoExiste, Contenido(f)' \in Seq(Datos),
         \A k \in DOMAIN Contenido(f) : k \in DOMAIN Contenido(f)' =>
             Contenido(f)'[k] = Contenido(f)[k],
         \A g \in Archivos : g # f => Contenido(g)' = Contenido(g)
  PROVE  Promesa!Next
  <1>1. /\ Vista[f] = Contenido(f) /\ Vista'[f] = Contenido(f)'
        /\ \A g \in Archivos \ {f} : Vista'[g] = Vista[g]
    BY DEF Vista
  <1>2. Promesa!Truncar(f)
    BY <1>1 DEF Promesa!Truncar, Promesa!Existe, Promesa!SoloCambia, Vista
  <1> QED  BY <1>2 DEF Promesa!Next

\* Every step of the disk is a step of Almacen, or one it does not see.
LEMMA PasoPrometido ==
  ASSUME Borra, MaxDesborde = 0, DiscoInv, DiscoInv', [Next]_vars
  PROVE  Promesa!Next \/ Vista' = Vista
  <1> USE DEF locales
  <1>1. ASSUME NEW f \in Archivos, create_file(f)
        PROVE  Promesa!Next
    <2>1. Vista' = [Vista EXCEPT ![f] = <<>>]
      BY <1>1, CrearVisto, VistaCambia
    <2>2. Promesa!Crear(f)
      BY <2>1 DEF Promesa!Crear, Vista
    <2> QED  BY <2>2 DEF Promesa!Next
  <1>2. ASSUME NEW f \in Archivos, delete_file(f)
        PROVE  Promesa!Next
    <2>1. Vista' = [Vista EXCEPT ![f] = NoExiste] /\ Vista[f] # NoExiste
      BY <1>2, EliminarVisto, VistaCambia DEF Vista
    <2>2. Promesa!Eliminar(f)
      BY <2>1 DEF Promesa!Eliminar, Promesa!Existe, Vista
    <2> QED  BY <2>2 DEF Promesa!Next
  <1>3. ASSUME NEW f \in Archivos, NEW n \in 0..MaxTam,
               TruncateAchica(f, n) \/ TruncateIgual(f, n) \/ TruncateAgranda(f, n)
        PROVE  Promesa!Next
    BY <1>3, TruncarVisto, VistaTrunca
  <1>4. CASE CompactaTermina
    <2>1. PICK c : c = compacta
      OBVIOUS
    <2> QED  BY <1>4, <2>1, TerminaVisto, VistaTrunca
  <1>5. ASSUME NEW f \in Archivos, CompactaMueve(f)
        PROVE  Vista' = Vista
    BY <1>5, MueveVisto, VistaIgual
  <1>6. ASSUME CompactaGuarda \/ \E f \in Archivos : \E n \in 0..MaxTam : Compactar(f, n)
        PROVE  Vista' = Vista
    BY <1>6, GuardaVisto, VistaIgual
  <1>7. CASE CreateSinLugar \/ CompactaSinLugar \/ UNCHANGED vars
    BY <1>7 DEF CreateSinLugar, CompactaSinLugar, vars, Vista, Contenido, Leer
  <1>8. ASSUME NEW f \in Archivos, NEW n \in 1..(MaxTam + MaxDesborde),
               NEW dir \in 0..(MaxTam - 1), NEW d \in Datos, write_file(f, dir, n, d)
        PROVE  Promesa!Next
    <2>1. n \in Nat /\ dir \in Nat
      BY ConstantesOK
    <2>2. /\ Contenido(f) # NoExiste /\ Contenido(f) \in Seq(Datos)
          /\ \A g \in Archivos : g # f => Contenido(g)' = Contenido(g)
      BY <1>8, <2>1, EscribirVisto
    <2>3. PICK h \in Nat :
              /\ dir <= h /\ h <= Len(Contenido(f))
              /\ Contenido(f)' = [k \in DOMAIN Contenido(f) |->
                                     IF dir < k /\ k <= h THEN d ELSE Contenido(f)[k]]
      BY <1>8, <2>1, EscribirVisto
    <2>4. Vista[f] = Contenido(f)
      BY DEF Vista
    <2>5. Vista' = [Vista EXCEPT ![f] = [k \in DOMAIN Vista[f] |->
                                            IF dir < k /\ k <= h THEN d ELSE Vista[f][k]]]
      BY <2>2, <2>3, <2>4, VistaCambia
    <2>6. Promesa!Escribir(f, dir, h, d)
      BY <2>2, <2>3, <2>4, <2>5 DEF Promesa!Escribir, Promesa!Existe, Vista
    <2>7. /\ dir \in 0..h
          /\ h \in 0..(IF Promesa!Existe(f) THEN Len(Vista[f]) ELSE 0)
      BY <2>1, <2>2, <2>3, <2>4 DEF Promesa!Existe, Vista
    <2> QED  BY <2>6, <2>7 DEF Promesa!Next, Vista
  <1> QED  BY <1>1, <1>2, <1>3, <1>4, <1>5, <1>6, <1>7, <1>8 DEF Next

\* What a DialFS promises: seen from the processes its files are the named sequences of bytes
\* of Almacen, where each request changes the file it names as it says and no other, and no
\* step of a compaction is seen.  For requests that stay inside their file.
THEOREM AlmacenSiempre ==
  ASSUME Borra, MaxDesborde = 0
  PROVE  Spec => ImplementaAlmacen
  <1>1. Init => Promesa!Init
    <2>1. Init => \A f \in Archivos : Contenido(f) = NoExiste
      BY DEF Init, Contenido
    <2> QED  BY <2>1 DEF Promesa!Init
  <1>2. DiscoInv /\ DiscoInv' /\ [Next]_vars => [Promesa!Next]_Vista
    BY PasoPrometido
  <1>3. Promesa!Spec <=> Promesa!Init /\ [][Promesa!Next]_Vista
    BY DEF Promesa!Spec, Vista
  <1> QED  BY <1>1, <1>2, <1>3, DiscoSiempre, PTL DEF Spec, ImplementaAlmacen
-----------------------------------------------------------------------------
(* The blocks of no file                                                    *)

\* A step that changes the blocks of one file and leaves no mark behind.
LEMMA PierdeUno ==
  ASSUME NEW f, \A g \in EnDisco : g # f => g \in EnDisco' /\ metadata'[g] = metadata[g],
         \A b \in bitmap' : \/ f \in EnDisco' /\ b \in Rango(metadata'[f])
                            \/ /\ b \in bitmap
                               /\ f \in EnDisco /\ b \in Rango(metadata[f]) => f \in Reemplazados
  PROVE  Huerfanos' \subseteq Huerfanos \cup UNION {Rango(metadata[g]) : g \in Reemplazados}
  <1> SUFFICES ASSUME NEW b \in Huerfanos', b \notin Huerfanos
               PROVE  b \in UNION {Rango(metadata[g]) : g \in Reemplazados}
    OBVIOUS
  <1>1. b \in bitmap' /\ \A g \in EnDisco' : b \notin Rango(metadata'[g])
    BY DEF Huerfanos
  <1>2. b \in bitmap /\ (f \in EnDisco /\ b \in Rango(metadata[f]) => f \in Reemplazados)
    BY <1>1
  <1>3. PICK g \in EnDisco : b \in Rango(metadata[g])
    BY <1>2 DEF Huerfanos
  <1>4. g = f
    BY <1>1, <1>3
  <1> QED  BY <1>2, <1>3, <1>4

\* A step that changes neither the marks nor the metadata of the files on disk.
LEMMA PierdeNada ==
  ASSUME EnDisco' = EnDisco, metadata' = metadata, bitmap' = bitmap
  PROVE  Huerfanos' \subseteq Huerfanos \cup UNION {Rango(metadata[g]) : g \in Reemplazados}
  BY DEF Huerfanos

\* With no compaction on the way every file is on disk.
LEMMA EnDiscoLibre ==
  (TypeOK /\ compacta = NoExiste => EnDisco = Existentes)
  /\ (TypeOK /\ compacta = NoExiste => EnDisco = Existentes)'
  <1>1. TypeOK /\ compacta = NoExiste => EnDisco = Existentes
    BY ExistentesTipo
  <1> QED  BY <1>1, PTL

\* What each step leaves marked and of no file.
LEMMA PasoPierde ==
  ASSUME DiscoInv, DiscoInv', [Next]_vars
  PROVE  Huerfanos' \subseteq Huerfanos \cup UNION {Rango(metadata[g]) : g \in Reemplazados}
  <1> USE DEF locales
  <1> DEFINE Meta == Huerfanos' \subseteq
                        Huerfanos \cup UNION {Rango(metadata[g]) : g \in Reemplazados}
  <1>0. TypeOK /\ TypeOK' /\ SinSolaparse
    BY DEF DiscoInv
  <1>1. ASSUME NEW f \in Archivos, create_file(f)
        PROVE  Meta
    <2>1. Libre /\ compacta = NoExiste /\ compacta' = NoExiste
      BY <1>1 DEF create_file, Libre
    <2>2. PICK b \in Bloque :
            /\ b \notin bitmap /\ bitmap' = bitmap \cup {b}
            /\ metadata' = [metadata EXCEPT ![f] = [bloque_inicial |-> b, tam_bytes |-> 0]]
      BY <1>1 DEF create_file, EsPrimerLibre
    <2>3. /\ metadata'[f] = [bloque_inicial |-> b, tam_bytes |-> 0]
          /\ \A g \in Archivos : g # f => metadata'[g] = metadata[g]
      BY <1>0, <2>2 DEF TypeOK
    <2>4. metadata'[f] \in Metadata /\ metadata'[f].bloque_inicial = b
      BY <2>2, <2>3, ConstantesOK DEF Metadata, Bloque
    <2>5. EnDisco = Existentes /\ EnDisco' = Existentes' /\ f \in Existentes'
      BY <1>0, <2>1, <2>4, EnDiscoLibre, Existe DEF Existentes
    <2>6. b \in Rango(metadata'[f])
      BY <2>4, RangoLema
    <2>7. f \in EnDisco => f \in Reemplazados
      <3>1. SUFFICES ASSUME f \in EnDisco PROVE metadata[f].bloque_inicial # b
        BY <2>1, <2>4, <2>5 DEF Reemplazados
      <3>2. metadata[f].bloque_inicial \in Rango(metadata[f])
        BY <1>0, <3>1, ExistentesTipo, RangoLema
      <3>3. Rango(metadata[f]) \subseteq bitmap
        BY <1>0, <3>1 DEF SinSolaparse
      <3> QED  BY <2>2, <3>2, <3>3
    <2>8. \A g \in EnDisco : g # f => g \in EnDisco' /\ metadata'[g] = metadata[g]
      BY <2>3, <2>5 DEF Existentes
    <2> QED  BY <2>2, <2>5, <2>6, <2>7, <2>8, PierdeUno
  <1>2. ASSUME NEW f \in Archivos, delete_file(f)
        PROVE  Meta
    <2>1. /\ Libre /\ compacta = NoExiste /\ compacta' = NoExiste /\ f \in Existentes
          /\ bitmap' \subseteq bitmap /\ metadata' = [metadata EXCEPT ![f] = NoExiste]
      BY <1>2 DEF delete_file, Libre
    <2>2. metadata'[f] = NoExiste /\ \A g \in Archivos : g # f => metadata'[g] = metadata[g]
      BY <1>0, <2>1 DEF TypeOK
    <2>3. EnDisco = Existentes /\ EnDisco' = Existentes'
      BY <1>0, <2>1, EnDiscoLibre
    <2>4. f \in Reemplazados
      BY <2>1, <2>2 DEF Reemplazados
    <2>5. \A g \in EnDisco : g # f => g \in EnDisco' /\ metadata'[g] = metadata[g]
      BY <2>2, <2>3 DEF Existentes
    <2> QED  BY <2>1, <2>4, <2>5, PierdeUno
  <1>3. ASSUME NEW f \in Archivos, NEW n \in 0..MaxTam,
               TruncateAchica(f, n) \/ TruncateIgual(f, n) \/ TruncateAgranda(f, n)
        PROVE  Meta
    <2>1. compacta = NoExiste /\ compacta' = NoExiste /\ f \in Existentes /\ ActualizarTamanio(f, n)
      BY <1>3 DEF TruncateAchica, TruncateIgual, TruncateAgranda, Libre
    <2>2. \A b \in bitmap' : b \in Rango(metadata'[f]) \/ (b \in bitmap /\ b \notin Rango(metadata[f]))
      BY <1>3, TruncateRangos
    <2>3. Existentes' = Existentes /\ \A g \in Archivos : g # f => metadata'[g] = metadata[g]
      BY <1>0, <2>1, Actualizar
    <2>4. EnDisco = Existentes /\ EnDisco' = Existentes'
      BY <1>0, <2>1, EnDiscoLibre
    <2>5. \A g \in EnDisco : g # f => g \in EnDisco' /\ metadata'[g] = metadata[g]
      BY <2>3, <2>4 DEF Existentes
    <2> QED  BY <2>1, <2>2, <2>3, <2>4, <2>5, PierdeUno
  <1>4. ASSUME NEW f \in Archivos, NEW n \in 0..MaxTam, Compactar(f, n)
        PROVE  Meta
    <2>1. /\ compacta = NoExiste /\ compacta' = f /\ f \in Existentes
          /\ metadata' = metadata /\ bitmap' = bitmap /\ pendientes' = Existentes
      BY <1>4 DEF Compactar, Libre
    <2>2. Existentes' = Existentes
      BY <2>1 DEF Existentes
    <2>3. EnDisco' = Existentes' /\ EnDisco = Existentes
      BY <1>0, <2>1, EnDiscoLibre DEF EnDisco
    <2> QED  BY <2>1, <2>2, <2>3, PierdeNada
  <1>5. CASE CompactaGuarda
    <2>1. PICK c : c = compacta
      OBVIOUS
    <2>2. /\ c \in pendientes /\ compacta' = c /\ pendientes' = pendientes \ {c}
          /\ bitmap' = bitmap \ Rango(metadata[c]) /\ metadata' = metadata
      BY <1>5, <2>1 DEF CompactaGuarda, Siguiente
    <2>3. EnDisco = Existentes /\ EnDisco' = Existentes \ {c}
      BY <2>1, <2>2 DEF EnDisco, Existentes
    <2> QED  BY <2>2, <2>3, PierdeUno
  <1>6. ASSUME NEW f \in Archivos, CompactaMueve(f)
        PROVE  Meta
    <2>1. /\ f \in EnDisco /\ f # compacta /\ compacta' = compacta /\ pendientes' = pendientes \ {f}
          /\ metadata'[f] \in Metadata
          /\ \A g \in Archivos : g # f => metadata'[g] = metadata[g]
          /\ bitmap' = (bitmap \ Rango(metadata[f])) \cup Rango(metadata'[f])
      BY <1>6, Mueve
    <2>2. Existentes' = Existentes
      BY <1>0, <2>1, ExistentesTipo, Existe DEF Existentes
    <2>3. EnDisco' = EnDisco
      BY <2>1, <2>2 DEF EnDisco
    <2>4. \A g \in EnDisco : g # f => g \in EnDisco' /\ metadata'[g] = metadata[g]
      BY <2>1, <2>3 DEF EnDisco, Existentes
    <2> QED  BY <2>1, <2>3, <2>4, PierdeUno
  <1>7. CASE CompactaTermina
    <2>1. PICK c : c = compacta
      OBVIOUS
    <2>2. /\ c \in Archivos /\ c \in Existentes /\ EnDisco = Existentes \ {c}
          /\ compacta' = NoExiste /\ metadata'[c] \in Metadata
          /\ \A g \in Archivos : g # c => metadata'[g] = metadata[g]
          /\ bitmap' = bitmap \cup Rango(metadata'[c])
      BY <1>7, <2>1, Termina
    <2>3. Existentes' = Existentes /\ EnDisco' = Existentes'
      <3>1. Existentes' = Existentes
        BY <2>2, Existe DEF Existentes
      <3> QED  BY <1>0, <2>2, <3>1, EnDiscoLibre
    <2>4. \A g \in EnDisco : g # c => g \in EnDisco' /\ metadata'[g] = metadata[g]
      BY <2>2, <2>3 DEF Existentes
    <2> QED  BY <2>2, <2>3, <2>4, PierdeUno
  <1>8. CASE \/ CreateSinLugar \/ CompactaSinLugar \/ UNCHANGED vars
             \/ \E f \in Archivos, n \in 1..(MaxTam + MaxDesborde), dir \in 0..(MaxTam - 1),
                   d \in Datos : write_file(f, dir, n, d)
    <2>1. metadata' = metadata /\ bitmap' = bitmap /\ compacta' = compacta
          /\ pendientes' = pendientes
      BY <1>8 DEF CreateSinLugar, CompactaSinLugar, vars, write_file
    <2>2. EnDisco' = EnDisco
      BY <2>1 DEF EnDisco, Existentes
    <2> QED  BY <2>1, <2>2, PierdeNada
  <1> QED  BY <1>1, <1>2, <1>3, <1>4, <1>5, <1>6, <1>7, <1>8 DEF Next

\* dialfs.c:38: no truncation, and no step of a compaction, leaves a block marked that is of
\* no file: only a delete, or a creation over a file that exists, forgets those it had.
THEOREM SoloPierdeAlBorrarSiempre ==
  ASSUME Borra
  PROVE  Spec => SoloPierdeAlBorrar
  <1>1. DiscoInv /\ DiscoInv' /\ [Next]_vars
        => [Huerfanos' \subseteq Huerfanos \cup UNION {Rango(metadata[f]) : f \in Reemplazados}]_vars
    BY PasoPierde
  <1> QED  BY <1>1, DiscoSiempre, PTL DEF Spec, SoloPierdeAlBorrar
=============================================================================
