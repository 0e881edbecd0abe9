------------------------------- MODULE Almacen -------------------------------
(***************************************************************************)
(* What a DialFS promises of its files and the memory of its processes:     *)
(* named sequences of bytes, and requests that touch one of them each.      *)
(* Nothing of blocks, frames, bitmaps or compaction is seen from here.      *)
(***************************************************************************)
EXTENDS Naturals, Sequences

CONSTANTS
    Nombres,    \* the files, or the processes
    Datos,      \* what a byte can hold
    NoExiste    \* the contents of one that does not exist

VARIABLE contenido

Existe(f) == contenido[f] # NoExiste
SoloCambia(f) == \A g \in Nombres \ {f} : contenido'[g] = contenido[g]

Init == contenido = [f \in Nombres |-> NoExiste]

Crear(f) == contenido' = [contenido EXCEPT ![f] = <<>>]

Eliminar(f) == Existe(f) /\ contenido' = [contenido EXCEPT ![f] = NoExiste]

\* The bytes there were stay, up to the new size; those gained may hold anything.
Truncar(f) ==
    /\ Existe(f) /\ SoloCambia(f)
    /\ contenido'[f] \in Seq(Datos)
    /\ \A k \in DOMAIN contenido[f] \cap DOMAIN contenido'[f] :
           contenido'[f][k] = contenido[f][k]

\* The bytes from desde up to hasta become d, and no other.
Escribir(f, desde, hasta, d) ==
    /\ Existe(f) /\ desde <= hasta /\ hasta <= Len(contenido[f])
    /\ contenido' = [contenido EXCEPT ![f] =
                        [k \in DOMAIN @ |-> IF desde < k /\ k <= hasta THEN d ELSE @[k]]]

Next == \E f \in Nombres :
            \/ Crear(f) \/ Eliminar(f) \/ Truncar(f)
            \/ \E hasta \in 0..(IF Existe(f) THEN Len(contenido[f]) ELSE 0) :
                   \E desde \in 0..hasta, d \in Datos : Escribir(f, desde, hasta, d)

Spec == Init /\ [][Next]_contenido
=============================================================================
