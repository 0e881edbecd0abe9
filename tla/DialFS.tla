------------------------------- MODULE DialFS -------------------------------
(***************************************************************************)
(* The file system of a DialFS interface: contiguous files over a file of   *)
(* blocks and a bitmap, both mapped to memory, and one metadata file each.  *)
(* One thread serves one request at a time, so a request is one step, but   *)
(* for a truncation that compacts: there each file moved is a step.         *)
(* FS_READ changes nothing, what it returns is Contenido.                   *)
(* An operator A_B is a plausible slip in A: Next uses none of them.        *)
(***************************************************************************)
EXTENDS Integers, Sequences, FiniteSets

CONSTANTS
    Archivos,      \* the names processes use
    Datos,         \* what a byte can hold
    Cero,          \* what the bytes of a new bloques.dat hold
    NoExiste,      \* the metadata, or the contents, of a file that does not exist
    BLOCK_SIZE,
    BLOCK_COUNT,
    Operaciones,   \* the requests that arrive, among FS_CREATE, FS_DELETE, ...
    Recrea,        \* whether FS_CREATE also comes for files that exist
    BorraHasta,    \* bound: the last initial block of a file processes delete
    MaxTam,        \* bound: the size processes truncate to
    MaxDesborde    \* bound: bytes past the end of the file processes ask to write

ASSUME ConstantesOK ==
    /\ Cero \in Datos
    /\ NoExiste \notin Archivos \cup Seq(Datos) \cup [bloque_inicial : Nat, tam_bytes : Nat]
    /\ BLOCK_SIZE \in Nat \ {0} /\ BLOCK_COUNT \in Nat \ {0}
    /\ Operaciones \subseteq {"FS_CREATE", "FS_DELETE", "FS_TRUNCATE", "FS_WRITE"}
    /\ Recrea \in BOOLEAN /\ BorraHasta \in Nat
    /\ MaxTam \in Nat /\ MaxDesborde \in Nat

Bloque == 0..(BLOCK_COUNT - 1)
Direccion == 0..(BLOCK_SIZE * BLOCK_COUNT - 1)

VARIABLES
    metadata,   \* the metadata file of each name: bloque_inicial and tam_bytes
    bitmap,     \* the blocks marked as used
    bloques,    \* the bytes of bloques.dat
    compacta,   \* the file truncate_file is making room for, or NoExiste
    tamanio_nuevo, guardado, bloque_actual, pendientes,   \* locals of the compaction
    fuera       \* a request fell outside the disk: undefined from there on

locales == <<compacta, tamanio_nuevo, guardado, bloque_actual, pendientes>>
vars == <<metadata, bitmap, bloques, locales, fuera>>

Existentes == {f \in Archivos : metadata[f] # NoExiste}
Libre == compacta = NoExiste /\ ~fuera

ceil_div(a, b) == (a + b - 1) \div b

\* An empty file also takes a block.
tam_bloques_SinVacio(bytes) == ceil_div(bytes, BLOCK_SIZE)
tam_bloques(bytes) == IF bytes = 0 THEN 1 ELSE ceil_div(bytes, BLOCK_SIZE)

\* The blocks of a file with this metadata.
Rango(m) == m.bloque_inicial .. (m.bloque_inicial + tam_bloques(m.tam_bytes) - 1)

puntero_bloque(b) == b * BLOCK_SIZE

\* The bytes of a file, as FS_READ and leer_archivo_entero see them.
Leer(m) == [k \in 1..m.tam_bytes |-> bloques[puntero_bloque(m.bloque_inicial) + k - 1]]

\* bloques with a sequence copied from an address on.
Copiar(dir, datos) ==
    [a \in Direccion |->
        IF a - dir + 1 \in DOMAIN datos THEN datos[a - dir + 1] ELSE bloques[a]]

Init ==
    /\ metadata = [f \in Archivos |-> NoExiste]
    /\ bitmap = {}
    /\ bloques = [a \in Direccion |-> Cero]
    /\ compacta = NoExiste /\ tamanio_nuevo = 0 /\ guardado = <<>>
    /\ bloque_actual = 0 /\ pendientes = {}
    /\ fuera = FALSE

-----------------------------------------------------------------------------
(* create_file and delete_file                                              *)

\* encontrar_primer_bloque_libre: b is the first free block.
EsPrimerLibre_Cualquiera(b) == b \in Bloque
EsPrimerLibre(b) == b \in Bloque \ bitmap /\ \A c \in 0..(b - 1) : c \in bitmap

\* The metadata is written anew whether the file existed or not.
create_file(f) ==
    /\ Libre /\ "FS_CREATE" \in Operaciones
    /\ f \in Existentes => Recrea
    /\ \E b \in Bloque :
           /\ EsPrimerLibre(b)
           /\ metadata' = [metadata EXCEPT ![f] = [bloque_inicial |-> b, tam_bytes |-> 0]]
           /\ bitmap' = bitmap \cup {b}
    /\ UNCHANGED <<bloques, locales, fuera>>

\* With the disk full the search returns BLOCK_COUNT, which is no block.
CreateSinLugar ==
    /\ Libre /\ "FS_CREATE" \in Operaciones /\ Bloque \subseteq bitmap
    /\ \E f \in Archivos : f \in Existentes => Recrea
    /\ fuera' = TRUE
    /\ UNCHANGED <<metadata, bitmap, bloques, locales>>

\* The range cleaned is as long as tam_bloques of the initial block says: one block for
\* files that start at block BLOCK_SIZE or before, and more than one for the others.
delete_file(f) ==
    /\ Libre /\ "FS_DELETE" \in Operaciones /\ f \in Existentes
    /\ metadata[f].bloque_inicial <= BorraHasta
    /\ LET ini == metadata[f].bloque_inicial
       IN bitmap' = bitmap \ (ini .. (ini + tam_bloques(ini) - 1))
    /\ metadata' = [metadata EXCEPT ![f] = NoExiste]
    /\ UNCHANGED <<bloques, locales, fuera>>

-----------------------------------------------------------------------------
(* truncate_file and compactar                                              *)

Final(m, tam) == m.bloque_inicial + tam_bloques(tam) - 1

\* The blocks a file has with a bigger size and not with a smaller one.
Ultimos(m, chico, grande) == (Final(m, chico) + 1) .. Final(m, grande)

\* The end of truncate_file, once the blocks are settled.
ActualizarTamanio(f, n) == metadata' = [metadata EXCEPT ![f].tam_bytes = n]

\* bloques_contiguos_disponibles >= the blocks the new size takes.
HayContiguos_UnoMenos(m, n) ==
    /\ Final(m, n) < BLOCK_COUNT
    /\ (Ultimos(m, m.tam_bytes, n) \ {Final(m, n)}) \cap bitmap = {}
HayContiguos_SinTope(m, n) == Ultimos(m, m.tam_bytes, n) \cap bitmap = {}
HayContiguos(m, n) ==
    /\ Final(m, n) < BLOCK_COUNT
    /\ Ultimos(m, m.tam_bytes, n) \cap bitmap = {}

TruncateAchica(f, n) ==
    /\ Libre /\ "FS_TRUNCATE" \in Operaciones /\ f \in Existentes
    /\ tam_bloques(n) < tam_bloques(metadata[f].tam_bytes)
    /\ bitmap' = bitmap \ Ultimos(metadata[f], n, metadata[f].tam_bytes)
    /\ ActualizarTamanio(f, n)
    /\ UNCHANGED <<bloques, locales, fuera>>

TruncateIgual(f, n) ==
    /\ Libre /\ "FS_TRUNCATE" \in Operaciones /\ f \in Existentes
    /\ tam_bloques(n) = tam_bloques(metadata[f].tam_bytes) /\ n # metadata[f].tam_bytes
    /\ ActualizarTamanio(f, n)
    /\ UNCHANGED <<bitmap, bloques, locales, fuera>>

TruncateAgranda(f, n) ==
    /\ Libre /\ "FS_TRUNCATE" \in Operaciones /\ f \in Existentes
    /\ tam_bloques(n) > tam_bloques(metadata[f].tam_bytes) /\ HayContiguos(metadata[f], n)
    /\ bitmap' = bitmap \cup Ultimos(metadata[f], metadata[f].tam_bytes, n)
    /\ ActualizarTamanio(f, n)
    /\ UNCHANGED <<bloques, locales, fuera>>

\* No room after the file: compactar, file by file.
Compactar(f, n) ==
    /\ Libre /\ "FS_TRUNCATE" \in Operaciones /\ f \in Existentes
    /\ tam_bloques(n) > tam_bloques(metadata[f].tam_bytes) /\ ~HayContiguos(metadata[f], n)
    /\ compacta' = f /\ tamanio_nuevo' = n /\ guardado' = <<>>
    /\ bloque_actual' = 0 /\ pendientes' = Existentes
    /\ UNCHANGED <<metadata, bitmap, bloques, fuera>>

\* cargar_archivos_metadata sorts by initial block.
Siguiente_SinOrden(f) == compacta # NoExiste /\ ~fuera /\ f \in pendientes
Siguiente(f) ==
    /\ compacta # NoExiste /\ ~fuera /\ f \in pendientes
    /\ \A g \in pendientes : metadata[f].bloque_inicial <= metadata[g].bloque_inicial

\* The file being truncated: its bytes go to a buffer and its blocks are freed.
CompactaGuarda ==
    /\ Siguiente(compacta)
    /\ guardado' = Leer(metadata[compacta])
    /\ bitmap' = bitmap \ Rango(metadata[compacta])
    /\ pendientes' = pendientes \ {compacta}
    /\ UNCHANGED <<metadata, bloques, compacta, tamanio_nuevo, bloque_actual, fuera>>

AvanzarPuntero_Uno(m) == bloque_actual' = bloque_actual + 1
AvanzarPuntero(m) == bloque_actual' = bloque_actual + tam_bloques(m.tam_bytes)

\* Any other one slides down over the space freed before it.
mover_archivo(f) ==
    LET m == metadata[f]
        nueva == [m EXCEPT !.bloque_inicial = bloque_actual]
    IN /\ bloques' = Copiar(puntero_bloque(bloque_actual), Leer(m))
       /\ bitmap' = (bitmap \ Rango(m)) \cup Rango(nueva)
       /\ metadata' = [metadata EXCEPT ![f] = nueva]

CompactaMueve(f) ==
    /\ Siguiente(f) /\ f # compacta
    /\ \/ bloque_actual < metadata[f].bloque_inicial /\ mover_archivo(f)
       \/ bloque_actual >= metadata[f].bloque_inicial /\ UNCHANGED <<bloques, bitmap, metadata>>
    /\ AvanzarPuntero(metadata[f])
    /\ pendientes' = pendientes \ {f}
    /\ UNCHANGED <<compacta, tamanio_nuevo, guardado, fuera>>

\* It goes last, and then gets the blocks truncate_file wanted.
CompactaTermina ==
    /\ compacta # NoExiste /\ ~fuera /\ pendientes = {}
    /\ LET m == [metadata[compacta] EXCEPT !.bloque_inicial = bloque_actual]
           nueva == [m EXCEPT !.tam_bytes = tamanio_nuevo]
       IN /\ Final(nueva, tamanio_nuevo) < BLOCK_COUNT
          /\ bloques' = Copiar(puntero_bloque(bloque_actual), guardado)
          /\ bitmap' = bitmap \cup Rango(m) \cup Rango(nueva)
          /\ metadata' = [metadata EXCEPT ![compacta] = nueva]
    /\ compacta' = NoExiste /\ tamanio_nuevo' = 0 /\ guardado' = <<>> /\ bloque_actual' = 0
    /\ UNCHANGED <<pendientes, fuera>>

\* Even so they may not fit.
CompactaSinLugar ==
    /\ compacta # NoExiste /\ ~fuera /\ pendientes = {}
    /\ bloque_actual + tam_bloques(tamanio_nuevo) > BLOCK_COUNT
    /\ fuera' = TRUE
    /\ UNCHANGED <<metadata, bitmap, bloques, locales>>

-----------------------------------------------------------------------------
(* write_file: n bytes from dir on, all d, in pieces where the request       *)
(* crosses a page.  Each piece must start inside the file (asserted by       *)
(* puntero_dir_archivo): at the first that does not the interface stops, and *)
(* the pieces already written stay.                                          *)

Escritos(m, dir, n) ==
    {e \in 1..n : dir < m.tam_bytes /\ (e = n \/ dir + e >= m.tam_bytes)}

write_file(f, dir, n, d) ==
    /\ Libre /\ "FS_WRITE" \in Operaciones /\ f \in Existentes
    /\ dir + n <= metadata[f].tam_bytes + MaxDesborde
    /\ \E e \in Escritos(metadata[f], dir, n) :
           bloques' = Copiar(puntero_bloque(metadata[f].bloque_inicial) + dir,
                             [k \in 1..e |-> d])
    /\ UNCHANGED <<metadata, bitmap, locales, fuera>>

Next ==
    \/ \E f \in Archivos :
          \/ create_file(f) \/ delete_file(f)
          \/ \E n \in 0..MaxTam : \/ TruncateAchica(f, n) \/ TruncateIgual(f, n)
                                  \/ TruncateAgranda(f, n) \/ Compactar(f, n)
          \/ CompactaMueve(f)
          \/ \E n \in 1..(MaxTam + MaxDesborde), dir \in 0..(MaxTam - 1), d \in Datos :
                write_file(f, dir, n, d)
    \/ CreateSinLugar \/ CompactaGuarda \/ CompactaTermina \/ CompactaSinLugar

Spec == Init /\ [][Next]_vars

-----------------------------------------------------------------------------
(* Properties                                                               *)

Metadata == [bloque_inicial : Nat, tam_bytes : 0..MaxTam]

TypeOK ==
    /\ metadata \in [Archivos -> Metadata \cup {NoExiste}]
    /\ bitmap \subseteq Bloque
    /\ bloques \in [Direccion -> Datos]
    /\ compacta \in Archivos \cup {NoExiste} /\ tamanio_nuevo \in 0..MaxTam
    /\ guardado \in Seq(Datos) /\ bloque_actual \in 0..BLOCK_COUNT
    /\ pendientes \subseteq Archivos /\ fuera \in BOOLEAN

\* The files that are on disk: all, but for the one a compaction has in its buffer.
EnDisco == Existentes \ (IF compacta \in pendientes THEN {} ELSE {compacta})

\* dialfs.c:38, "1 = ocupado": every block of a file is marked, and so files never share
\* one, also in the middle of a compaction.  With FS_DELETE it holds only while files
\* start at block BLOCK_SIZE or before, see delete_file.
SinSolaparse ==
    /\ \A f \in EnDisco : Rango(metadata[f]) \subseteq bitmap
    /\ \A f, g \in EnDisco : f # g => Rango(metadata[f]) \cap Rango(metadata[g]) = {}

\* dialfs.c:38, "1 = ocupado, 0 = libre": the blocks marked that are of no file.  None
\* becomes one but by deleting its file, or creating it again, where the code forgets them:
\* no truncation and no step of a compaction leaves any.
Huerfanos == bitmap \ UNION {Rango(metadata[f]) : f \in EnDisco}
Reemplazados == {f \in Existentes :
    Libre /\ (metadata'[f] = NoExiste
              \/ metadata'[f].bloque_inicial # metadata[f].bloque_inicial)}
SoloPierdeAlBorrar ==
    [][Huerfanos' \subseteq Huerfanos \cup UNION {Rango(metadata[f]) : f \in Reemplazados}]_vars

\* compactar asserts that the files come in order, the space freed before them: no
\* file slides over one that has not moved yet.
OrdenDeCompactacion ==
    compacta # NoExiste =>
        \A f \in pendientes : metadata[f].bloque_inicial >= bloque_actual

\* What a compaction keeps true and the three above need: the files that moved are before
\* bloque_actual, the buffer is the whole file and the file is about to grow.
CompactacionInv ==
    compacta # NoExiste =>
        /\ {compacta} \cup pendientes \subseteq Existentes
        /\ tam_bloques(tamanio_nuevo) > tam_bloques(metadata[compacta].tam_bytes)
        /\ \A f \in EnDisco \ pendientes : Rango(metadata[f]) \subseteq 0..(bloque_actual - 1)
        /\ compacta \notin pendientes => Len(guardado) = metadata[compacta].tam_bytes

\* The inductive invariant: marked blocks are of one file, and every step of a compaction
\* leaves room for the next one.
DiscoInv == TypeOK /\ SinSolaparse /\ OrdenDeCompactacion /\ CompactacionInv

\* The contents of each file, as the processes see them.
Contenido(f) ==
    IF metadata[f] = NoExiste THEN NoExiste
    ELSE IF f = compacta /\ f \notin pendientes THEN guardado
    ELSE Leer(metadata[f])

\* Every request does to the files what it promises, and nothing to the files it
\* does not name: compaction, above all, changes no contents.  With MaxDesborde = 0:
\* write_file only checks where each piece starts, so a longer one spills over.
Promesa == INSTANCE Almacen WITH Nombres <- Archivos,
                                contenido <- [f \in Archivos |-> Contenido(f)]
ImplementaAlmacen == Promesa!Spec

=============================================================================
