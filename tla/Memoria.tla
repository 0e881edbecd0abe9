------------------------------- MODULE Memoria -------------------------------
(***************************************************************************)
(* The memory of the processes: the memoria module, one thread per client,   *)
(* and the clients that ask it for pages and bytes: the CPU through its      *)
(* MMU, the kernel, and the interfaces with the physical addresses the CPU   *)
(* translated for them.  estado is what the kernel is doing with each        *)
(* process, as far as it decides who uses memory (Planificacion models it).  *)
(* An operator A_B is a plausible slip in A: Next uses none of them.         *)
(***************************************************************************)
EXTENDS Mmu

CONSTANTS
    Pid, Interfaces,
    Datos, Cero,        \* what a byte can hold, and what they hold at first
    NoExiste,           \* a process that is not in the dictionary, no access, no request
    num_marcos, TAM_PAGINA,
    MataEnIo,           \* whether the operator kills processes blocked in an interface
    MaxTam,             \* bound: bytes of a process and of an access
    MaxInstrucciones    \* bound on num_instruccion_actual

ASSUME MemoriaOK ==
    /\ Cero \in Datos
    /\ NoExiste \notin Seq(Nat)            \* no page table is NULL...
    /\ NoExiste \notin Seq(Datos)          \* ...nor any address space...
    /\ NoExiste \notin Nat                 \* ...nor an address...
    /\ NoExiste # [op |-> "resize"]        \* ...nor an access
    /\ num_marcos \in Nat /\ TAM_PAGINA \in Nat \ {0}
    /\ MataEnIo \in BOOLEAN
    /\ MaxTam \in Nat /\ MaxInstrucciones \in Nat

Marco == 0..(num_marcos - 1)
Direccion == 0..(num_marcos * TAM_PAGINA - 1)

VARIABLES
    procesos,             \* memoria: the page table of each process, or NoExiste
    bitmap_marcos,        \* memoria: the frames marked as used
    memoria_de_usuario,   \* memoria: the bytes
    a_liberar,            \* memoria, kernel's thread: frames of the process it took out
    tlb_entries, num_instruccion_actual,
    acceso,               \* CPU: the instruction under way and its locals
    tamanio,              \* CPU: the parameter of RESIZE
    io,                   \* each interface's request and its progress, or NoExiste
    estado,               \* kernel: where each process is
    caida                 \* memoria stopped: abort() or a NULL dereference

memoria == <<procesos, bitmap_marcos, memoria_de_usuario, a_liberar>>
cpu == <<tlb_entries, num_instruccion_actual, acceso, tamanio>>
vars == <<memoria, cpu, io, estado, caida>>

ceil_div(a, b) == (a + b - 1) \div b
Minimo(a, b) == IF a < b THEN a ELSE b

Vivo(p) == procesos[p] # NoExiste
EnCpu(p) == ~caida /\ estado[p] = "cpu"

Init ==
    /\ procesos = [p \in Pid |-> NoExiste] /\ bitmap_marcos = {}
    /\ memoria_de_usuario = [a \in Direccion |-> Cero] /\ a_liberar = {}
    /\ tlb_entries = <<>> /\ num_instruccion_actual = 0 /\ acceso = NoExiste /\ tamanio = 0
    /\ io = [i \in Interfaces |-> NoExiste]
    /\ estado = [p \in Pid |-> "nuevo"] /\ caida = FALSE

-----------------------------------------------------------------------------
(* The kernel's requests, one at a time                                     *)

recibir_crear_proceso(p) ==
    /\ ~caida /\ a_liberar = {} /\ estado[p] = "nuevo"
    /\ procesos' = [procesos EXCEPT ![p] = <<>>]
    /\ estado' = [estado EXCEPT ![p] = "listo"]
    /\ UNCHANGED <<bitmap_marcos, memoria_de_usuario, a_liberar, cpu, io, caida>>

\* recibir_liberar_proceso takes the process out of the dictionary...
LiberarProceso(p) ==
    /\ ~caida /\ a_liberar = {}
    /\ estado[p] \in {"listo", "termina"} \cup (IF MataEnIo THEN {"io"} ELSE {})
    /\ a_liberar' = Range(procesos[p])
    /\ procesos' = [procesos EXCEPT ![p] = NoExiste]
    /\ estado' = [estado EXCEPT ![p] = "fin"]
    /\ UNCHANGED <<bitmap_marcos, memoria_de_usuario, cpu, io, caida>>

\* ...and then, with the mutex of the bitmap, its frames are free.
LiberarMarcos ==
    /\ ~caida /\ a_liberar # {}
    /\ bitmap_marcos' = bitmap_marcos \ a_liberar
    /\ a_liberar' = {}
    /\ UNCHANGED <<procesos, memoria_de_usuario, cpu, io, estado, caida>>

\* The short term planner, and the clock.
Despachar(p) ==
    /\ ~caida /\ estado[p] = "listo" /\ \A q \in Pid : estado[q] # "cpu"
    /\ estado' = [estado EXCEPT ![p] = "cpu"]
    /\ UNCHANGED <<memoria, cpu, io, caida>>

Desalojar(p) ==
    /\ EnCpu(p) /\ acceso = NoExiste
    /\ \E motivo \in {"listo", "termina"} : estado' = [estado EXCEPT ![p] = motivo]
    /\ UNCHANGED <<memoria, cpu, io, caida>>

-----------------------------------------------------------------------------
(* The CPU: leer_espacio_usuario, escribir_espacio_usuario, obtener_bloques *)

\* An instruction that uses memory begins: MOV_IN, MOV_OUT, half of COPY_STRING, or one
\* of the interfaces'.
Empezar(p, op, dir, tam, d) ==
    /\ EnCpu(p) /\ acceso = NoExiste /\ num_instruccion_actual < MaxInstrucciones
    /\ acceso' = [op |-> op, inicio |-> dir, dir |-> dir, restante |-> tam, dato |-> d,
                  fisica |-> NoExiste, buffer |-> <<>>]
    /\ UNCHANGED <<memoria, tlb_entries, num_instruccion_actual, tamanio, io, estado, caida>>

num_pagina(dir) == dir \div TAM_PAGINA

\* What the piece under way takes of the page it is in.
tam_restante_pag(dir) == TAM_PAGINA - (dir % TAM_PAGINA)
Pieza == Minimo(acceso.restante, tam_restante_pag(acceso.dir))

\* The frame the TLB has for the page, or else the one the page table has.
MarcoDe(p, n) ==
    IF TlbHit(tlb_entries, p, n) THEN MarcoEnTlb(tlb_entries, p, n) ELSE procesos[p][n + 1]

obtener_direccion_fisica_SinOffset(p, dir) == MarcoDe(p, num_pagina(dir)) * TAM_PAGINA
obtener_direccion_fisica(p, dir) ==
    (MarcoDe(p, num_pagina(dir)) * TAM_PAGINA) + (dir % TAM_PAGINA)

ActualizarTlb(p, n) ==
    IF TlbHit(tlb_entries, p, n)
    THEN tlb_entries' = tlb_get(tlb_entries, p, n, num_instruccion_actual)
    ELSE tlb_entries' = tlb_save(tlb_entries,
                            [pid |-> p, num_pagina |-> n, num_marco |-> procesos[p][n + 1],
                             ultimo_acceso |-> num_instruccion_actual])

EnAcceso(p) == EnCpu(p) /\ acceso # NoExiste /\ acceso.op # "resize"

\* responder_acceso_tabla_paginas aborts when the page does not exist.
PaginaInexistente(p) ==
    /\ EnAcceso(p) /\ acceso.fisica = NoExiste /\ acceso.restante > 0
    /\ ~TlbHit(tlb_entries, p, num_pagina(acceso.dir))
    /\ num_pagina(acceso.dir) >= Len(procesos[p])
    /\ caida' = TRUE
    /\ UNCHANGED <<memoria, cpu, io, estado>>

Traducir(p) ==
    LET n == num_pagina(acceso.dir)
    IN /\ EnAcceso(p) /\ acceso.fisica = NoExiste /\ acceso.restante > 0
       /\ TlbHit(tlb_entries, p, n) \/ n < Len(procesos[p])
       /\ ActualizarTlb(p, n)
       /\ acceso' = [acceso EXCEPT !.fisica = obtener_direccion_fisica(p, acceso.dir)]
       /\ UNCHANGED <<memoria, num_instruccion_actual, tamanio, io, estado, caida>>

\* What direccion_asignada_a_proceso and the check of the offset accept.  What the CPU
\* asks for they always do (DireccionVigente), so their abort() is no action of its own.
Asignada(p, base, tam) ==
    /\ base \div TAM_PAGINA \in Range(procesos[p])
    /\ (base % TAM_PAGINA) + tam <= TAM_PAGINA

Escrita(base, tam, d) ==
    [a \in Direccion |-> IF base <= a /\ a < base + tam THEN d ELSE memoria_de_usuario[a]]

Leida(base, tam) == [k \in 1..tam |-> memoria_de_usuario[base + k - 1]]

Avanzar(buffer) ==
    acceso' = [acceso EXCEPT !.dir = @ + Pieza, !.restante = @ - Pieza,
                             !.fisica = NoExiste, !.buffer = buffer]

Pedido(p) == EnAcceso(p) /\ acceso.fisica # NoExiste /\ acceso.restante > 0

leer_una_pagina(p) ==
    /\ Pedido(p) /\ acceso.op = "leer" /\ Asignada(p, acceso.fisica, Pieza)
    /\ Avanzar(acceso.buffer \o Leida(acceso.fisica, Pieza))
    /\ UNCHANGED <<memoria, tlb_entries, num_instruccion_actual, tamanio, io, estado, caida>>

escribir_una_pagina(p) ==
    /\ Pedido(p) /\ acceso.op = "escribir" /\ Asignada(p, acceso.fisica, Pieza)
    /\ memoria_de_usuario' = Escrita(acceso.fisica, Pieza, acceso.dato)
    /\ Avanzar(<<>>)
    /\ UNCHANGED <<procesos, bitmap_marcos, a_liberar, tlb_entries, num_instruccion_actual,
                   tamanio, io, estado, caida>>

\* Only the MMU works here: the memory is not asked for anything.
AgregarBloque(p) ==
    /\ Pedido(p) /\ acceso.op \in {"stdin", "stdout"}
    /\ Avanzar(Append(acceso.buffer, [base |-> acceso.fisica, tamanio |-> Pieza]))
    /\ UNCHANGED <<memoria, tlb_entries, num_instruccion_actual, tamanio, io, estado, caida>>

FinInstruccion ==
    /\ acceso' = NoExiste /\ tamanio' = 0
    /\ num_instruccion_actual' = num_instruccion_actual + 1
    /\ UNCHANGED tlb_entries

Completa(p) == EnAcceso(p) /\ acceso.restante = 0

TerminarAcceso(p) ==
    /\ Completa(p) /\ acceso.op \in {"leer", "escribir"}
    /\ FinInstruccion
    /\ UNCHANGED <<memoria, io, estado, caida>>

\* The PCB goes back to the kernel, which sends the blocks on to the interface.
DevolverPorIo(p, i) ==
    /\ Completa(p) /\ acceso.op \in {"stdin", "stdout"} /\ io[i] = NoExiste
    /\ io' = [io EXCEPT ![i] = [pid |-> p, op |-> acceso.op, bloques |-> acceso.buffer,
                                inicio |-> acceso.inicio, dato |-> acceso.dato,
                                verificado |-> FALSE, buffer |-> <<>>]]
    /\ estado' = [estado EXCEPT ![p] = "io"]
    /\ FinInstruccion
    /\ UNCHANGED <<memoria, caida>>

-----------------------------------------------------------------------------
(* RESIZE                                                                   *)

\* The CPU cleans its TLB before it asks.
exec_resize(p, tam) ==
    /\ EnCpu(p) /\ acceso = NoExiste /\ num_instruccion_actual < MaxInstrucciones
    /\ tlb_entries' = remover_entradas_tlb_invalidas(tlb_entries, p, ceil_div(tam, TAM_PAGINA))
    /\ acceso' = [op |-> "resize"] /\ tamanio' = tam
    /\ UNCHANGED <<memoria, num_instruccion_actual, io, estado, caida>>

Redimensiona(p) == EnCpu(p) /\ acceso # NoExiste /\ acceso.op = "resize"

Paginas == ceil_div(tamanio, TAM_PAGINA)
Faltan(p) == Paginas - Len(procesos[p])

Libres == Marco \ bitmap_marcos

\* ampliar_proceso takes the first free frames, in order.
SonPrimerosLibres(marcos) ==
    /\ \A i, j \in DOMAIN marcos : i < j => marcos[i] < marcos[j]
    /\ \A l \in Libres, i \in DOMAIN marcos : l < marcos[i] => l \in Range(marcos)

ampliar_proceso(p) ==
    /\ Redimensiona(p) /\ Faltan(p) > 0
    /\ \E marcos \in [1..Faltan(p) -> Libres] :
           /\ SonPrimerosLibres(marcos)
           /\ procesos' = [procesos EXCEPT ![p] = @ \o marcos]
           /\ bitmap_marcos' = bitmap_marcos \cup Range(marcos)
    /\ FinInstruccion
    /\ UNCHANGED <<memoria_de_usuario, a_liberar, io, estado, caida>>

SinMemoria(p) ==
    /\ Redimensiona(p) /\ Faltan(p) > Cardinality(Libres)
    /\ estado' = [estado EXCEPT ![p] = "termina"]
    /\ FinInstruccion
    /\ UNCHANGED <<memoria, io, caida>>

\* The last pages go, one by one; the mutex makes it one step.
UltimasPaginas_UnaMenos(p) == {n \in DOMAIN procesos[p] : n > Paginas + 1}
UltimasPaginas_UnaMas(p) == {n \in DOMAIN procesos[p] : n >= Paginas}
UltimasPaginas(p) == {n \in DOMAIN procesos[p] : n > Paginas}

reducir_proceso(p) ==
    /\ Redimensiona(p) /\ Faltan(p) <= 0
    /\ procesos' = [procesos EXCEPT ![p] = SubSeq(@, 1, Paginas)]
    /\ bitmap_marcos' = bitmap_marcos \ {procesos[p][n] : n \in UltimasPaginas(p)}
    /\ FinInstruccion
    /\ UNCHANGED <<memoria_de_usuario, a_liberar, io, estado, caida>>

-----------------------------------------------------------------------------
(* The interfaces: leer_bloque_de_memoria, escribir_bloque_a_memoria        *)

Opera(i) == ~caida /\ io[i] # NoExiste /\ io[i].bloques # <<>>
Bloque(i) == Head(io[i].bloques)

\* The thread of the interface looks the process up, and its frames.
IoVerifica(i) ==
    /\ Opera(i) /\ ~io[i].verificado /\ Vivo(io[i].pid)
    /\ Asignada(io[i].pid, Bloque(i).base, Bloque(i).tamanio)
    /\ io' = [io EXCEPT ![i].verificado = TRUE]
    /\ UNCHANGED <<memoria, cpu, estado, caida>>

\* sdictionary_get returns NULL for a process that ended.
IoSinProceso(i) ==
    /\ Opera(i) /\ ~io[i].verificado
    /\ Vivo(io[i].pid) => ~Asignada(io[i].pid, Bloque(i).base, Bloque(i).tamanio)
    /\ caida' = TRUE
    /\ UNCHANGED <<memoria, cpu, io, estado>>

\* With the mutex of the bytes, they are copied.
IoCopia(i) ==
    /\ Opera(i) /\ io[i].verificado
    /\ LET b == Bloque(i)
           leido == IF io[i].op = "stdout" THEN Leida(b.base, b.tamanio) ELSE <<>>
       IN /\ io' = [io EXCEPT ![i].bloques = Tail(@), ![i].verificado = FALSE,
                              ![i].buffer = @ \o leido]
          /\ memoria_de_usuario' = IF io[i].op = "stdin"
                                   THEN Escrita(b.base, b.tamanio, io[i].dato)
                                   ELSE memoria_de_usuario
    /\ UNCHANGED <<procesos, bitmap_marcos, a_liberar, cpu, estado, caida>>

\* MENSAJE_FIN_IO: the kernel makes the process ready, if it was not killed.
IoTermina(i) ==
    /\ ~caida /\ io[i] # NoExiste /\ io[i].bloques = <<>>
    /\ estado' = [estado EXCEPT ![io[i].pid] = IF @ = "io" THEN "listo" ELSE @]
    /\ io' = [io EXCEPT ![i] = NoExiste]
    /\ UNCHANGED <<memoria, cpu, caida>>

-----------------------------------------------------------------------------

Accesos(p) ==
    \E op \in {"leer", "escribir", "stdin", "stdout"}, tam \in 1..MaxTam :
        \E dir \in 0..(MaxTam - tam) :
            \E d \in (IF op \in {"escribir", "stdin"} THEN Datos ELSE {Cero}) :
                Empezar(p, op, dir, tam, d)

Next ==
    \/ \E p \in Pid :
          \/ recibir_crear_proceso(p) \/ LiberarProceso(p) \/ Despachar(p) \/ Desalojar(p)
          \/ Accesos(p) \/ PaginaInexistente(p) \/ Traducir(p)
          \/ leer_una_pagina(p) \/ escribir_una_pagina(p) \/ AgregarBloque(p)
          \/ TerminarAcceso(p) \/ \E i \in Interfaces : DevolverPorIo(p, i)
          \/ \E tam \in 0..MaxTam : exec_resize(p, tam)
          \/ ampliar_proceso(p) \/ SinMemoria(p) \/ reducir_proceso(p)
    \/ LiberarMarcos
    \/ \E i \in Interfaces : IoVerifica(i) \/ IoSinProceso(i) \/ IoCopia(i) \/ IoTermina(i)

Spec == Init /\ [][Next]_vars

-----------------------------------------------------------------------------
(* Properties                                                               *)

Estado == {"nuevo", "listo", "cpu", "io", "termina", "fin"}

Vivos == {p \in Pid : Vivo(p)}

\* A frame belongs to one page of one process, or waits to be freed, and the bitmap marks
\* those frames and no other: none is given twice, none is lost.
MarcosExclusivos ==
    /\ \A p, q \in Vivos : \A m \in DOMAIN procesos[p], n \in DOMAIN procesos[q] :
           procesos[p][m] = procesos[q][n] => p = q /\ m = n
    /\ \A p \in Vivos : Range(procesos[p]) \cap a_liberar = {}
    /\ bitmap_marcos = a_liberar \cup UNION {Range(procesos[p]) : p \in Vivos}

\* MarcosExclusivos, with the types and what makes it inductive: the kernel and the memory
\* agree on which processes there are.
MarcosInv ==
    /\ procesos \in [Pid -> Seq(Marco) \cup {NoExiste}]
    /\ tamanio \in Nat
    /\ estado \in [Pid -> Estado]
    /\ \A p \in Pid : Vivo(p) <=> estado[p] \in {"listo", "cpu", "io", "termina"}
    /\ MarcosExclusivos

\* The TLB never answers what the page table would not: no entry of a live process is
\* left from before a RESIZE, no page is there twice, and it never outgrows its size.
TlbCoherente ==
    /\ \A i \in DOMAIN tlb_entries :
           LET e == tlb_entries[i]
           IN Vivo(e.pid) => /\ e.num_pagina < Len(procesos[e.pid])
                             /\ e.num_marco = procesos[e.pid][e.num_pagina + 1]
    /\ \A i, j \in DOMAIN tlb_entries :
           Es(tlb_entries[i], tlb_entries[j].pid, tlb_entries[j].num_pagina) => i = j
    /\ Len(tlb_entries) <= CANTIDAD_ENTRADAS_TLB

\* Where the page table has a logical address.
Fisica(p, dir) == (procesos[p][num_pagina(dir) + 1] * TAM_PAGINA) + (dir % TAM_PAGINA)

\* Where the k-th piece of what starts at dir does: at the start of its page, but the first.
Posicion(dir, k) == IF k = 1 THEN dir ELSE (num_pagina(dir) + k - 1) * TAM_PAGINA

\* The blocks are those of the logical addresses from dir on, a page each.
BloquesDe(p, bloques, dir) ==
    \A k \in DOMAIN bloques :
        LET d == Posicion(dir, k)
        IN /\ num_pagina(d) < Len(procesos[p]) /\ bloques[k].base = Fisica(p, d)
           /\ (d % TAM_PAGINA) + bloques[k].tamanio <= TAM_PAGINA
           /\ k < Len(bloques) => d + bloques[k].tamanio = Posicion(dir, k + 1)

\* A translation is still right when the CPU uses it, one request later...
VigenteEnCpu ==
    \A p \in Vivos : EnAcceso(p) =>
        /\ acceso.fisica # NoExiste =>
               /\ num_pagina(acceso.dir) < Len(procesos[p])
               /\ acceso.fisica = Fisica(p, acceso.dir)
        /\ acceso.op \in {"stdin", "stdout"} => BloquesDe(p, acceso.buffer, acceso.inicio)

\* ...and when an interface does, long after the process left the CPU: the blocks it has
\* left are those after what it read.
VigenteEnIo ==
    \A i \in Interfaces : (io[i] # NoExiste /\ Vivo(io[i].pid)) =>
        \E dir \in io[i].inicio..(Len(procesos[io[i].pid]) * TAM_PAGINA) :
            /\ BloquesDe(io[i].pid, io[i].bloques, dir)
            /\ io[i].op = "stdout" => dir = io[i].inicio + Len(io[i].buffer)

\* No physical address that is used is stale.
DireccionVigente == VigenteEnCpu /\ VigenteEnIo

\* The bytes of a process, by logical address.
Espacio(p) ==
    IF ~Vivo(p) THEN NoExiste
    ELSE [k \in 1..(Len(procesos[p]) * TAM_PAGINA) |-> memoria_de_usuario[Fisica(p, k - 1)]]

\* What a process reads, through however many pages, and what an interface reads for it
\* are its own bytes in order.
LeeLoSuyo ==
    /\ \A p \in Vivos : (EnAcceso(p) /\ acceso.op = "leer") =>
           acceso.buffer = SubSeq(Espacio(p), acceso.inicio + 1, acceso.dir)
    /\ \A i \in Interfaces : (io[i] # NoExiste /\ Vivo(io[i].pid)) =>
           io[i].buffer = SubSeq(Espacio(io[i].pid), io[i].inicio + 1,
                                 io[i].inicio + Len(io[i].buffer))

Entrada == [pid: Pid, num_pagina: Nat, num_marco: Marco, ultimo_acceso: Nat]
BloqueFisico == {b \in [base: Direccion, tamanio: 1..TAM_PAGINA] :
                     (b.base % TAM_PAGINA) + b.tamanio <= TAM_PAGINA}
AccesoDe(ops, buffers) ==
    [op: ops, inicio: Nat, dir: Nat, restante: Nat, dato: Datos,
     fisica: Direccion \cup {NoExiste}, buffer: buffers]
Acceso == {NoExiste, [op |-> "resize"]} \cup AccesoDe({"leer", "escribir"}, Seq(Datos))
              \cup AccesoDe({"stdin", "stdout"}, Seq(BloqueFisico))
PedidoDeIo == [pid: Pid, op: {"stdin", "stdout"}, bloques: Seq(BloqueFisico), inicio: Nat,
               dato: Datos, verificado: BOOLEAN, buffer: Seq(Datos)]

\* One process at most is in the CPU, and the access under way is its own, at the address
\* it has come to; the TLB is of processes that came, and clean for the RESIZE under way.
CpuInv ==
    /\ tlb_entries \in Seq(Entrada) /\ num_instruccion_actual \in Nat /\ acceso \in Acceso
    /\ \A p, q \in Pid : estado[p] = "cpu" /\ estado[q] = "cpu" => p = q
    /\ acceso # NoExiste => \E p \in Pid : estado[p] = "cpu"
    /\ \A i \in DOMAIN tlb_entries : estado[tlb_entries[i].pid] # "nuevo"
    /\ \A p \in Pid, i \in DOMAIN tlb_entries :
           Redimensiona(p) /\ tlb_entries[i].pid = p => tlb_entries[i].num_pagina < Paginas

\* What an access has done so far ends where it goes on.
AvanceInv ==
    \A p \in Pid : EnAcceso(p) =>
        /\ acceso.inicio <= acceso.dir
        /\ acceso.inicio < acceso.dir => acceso.dir <= Len(procesos[p]) * TAM_PAGINA
        /\ acceso.op \in {"stdin", "stdout"} =>
               LET n == Len(acceso.buffer)
               IN /\ n = 0 => acceso.dir = acceso.inicio /\ acceso.restante > 0
                  /\ n > 0 => acceso.dir = Posicion(acceso.inicio, n) + acceso.buffer[n].tamanio
                  /\ acceso.restante > 0 => acceso.dir = Posicion(acceso.inicio, n + 1)

\* An interface works for a process that waits for it, unless it was killed.
IoInv ==
    /\ memoria_de_usuario \in [Direccion -> Datos]
    /\ io \in [Interfaces -> PedidoDeIo \cup {NoExiste}]
    /\ \A i \in Interfaces : io[i] # NoExiste =>
           /\ estado[io[i].pid] = "io" \/ (MataEnIo /\ estado[io[i].pid] = "fin")
           /\ io[i].op = "stdin" => io[i].buffer = <<>>
           /\ \A j \in Interfaces : (io[j] # NoExiste /\ io[j].pid = io[i].pid) => i = j

\* All of it, as an invariant the steps of Next keep.
MemoriaInv ==
    MarcosInv /\ CpuInv /\ AvanceInv /\ IoInv /\ TlbCoherente /\ DireccionVigente

\* Each process has its own bytes: they stay through what the others do, through any
\* RESIZE that keeps them, and a write changes those it names.
Promesa == INSTANCE Almacen WITH Nombres <- Pid, contenido <- [p \in Pid |-> Espacio(p)]
ImplementaEspacio == Promesa!Spec
=============================================================================
