-------------------------- MODULE MemoriaHistoria --------------------------
(***************************************************************************)
(* Memoria with a history: usada remembers by which instruction each page   *)
(* was translated last, since it last existed.  It is what LRU is about.    *)
(***************************************************************************)
EXTENDS Memoria

VARIABLE usada

Nunca == -1
NumPagina == 0..ceil_div(MaxTam, TAM_PAGINA)

Tradujo(p, n) == /\ EnAcceso(p) /\ acceso.restante > 0 /\ num_pagina(acceso.dir) = n
                 /\ acceso.fisica = NoExiste /\ acceso'.fisica # NoExiste
Quito(p, n) == /\ EnCpu(p) /\ acceso = NoExiste /\ acceso' = [op |-> "resize"]
               /\ n >= ceil_div(tamanio', TAM_PAGINA)

InitUsada == Init /\ usada = [p \in Pid |-> [n \in NumPagina |-> Nunca]]
Recuerda ==
    usada' = [p \in Pid |-> [n \in NumPagina |->
                 CASE Tradujo(p, n) -> num_instruccion_actual
                   [] Quito(p, n) -> Nunca
                   [] OTHER -> usada[p][n]]]

\* Next, an action at a time.
NextUsada ==
    \/ \E p \in Pid :
          \/ recibir_crear_proceso(p) /\ Recuerda
          \/ LiberarProceso(p) /\ Recuerda
          \/ Despachar(p) /\ Recuerda
          \/ Desalojar(p) /\ Recuerda
          \/ Accesos(p) /\ Recuerda
          \/ PaginaInexistente(p) /\ Recuerda
          \/ Traducir(p) /\ Recuerda
          \/ leer_una_pagina(p) /\ Recuerda
          \/ escribir_una_pagina(p) /\ Recuerda
          \/ AgregarBloque(p) /\ Recuerda
          \/ TerminarAcceso(p) /\ Recuerda
          \/ \E i \in Interfaces : DevolverPorIo(p, i) /\ Recuerda
          \/ \E tam \in 0..MaxTam : exec_resize(p, tam) /\ Recuerda
          \/ ampliar_proceso(p) /\ Recuerda
          \/ SinMemoria(p) /\ Recuerda
          \/ reducir_proceso(p) /\ Recuerda
    \/ LiberarMarcos /\ Recuerda
    \/ \E i \in Interfaces :
          \/ IoVerifica(i) /\ Recuerda
          \/ IoSinProceso(i) /\ Recuerda
          \/ IoCopia(i) /\ Recuerda
          \/ IoTermina(i) /\ Recuerda
SpecUsada == InitUsada /\ [][NextUsada]_<<vars, usada>>

\* LRU, through instructions of several pages, faults and RESIZE: no page that is out of the
\* TLB was used by a later instruction than one that is in it.
EnTlb(x) == TlbHit(tlb_entries, x[1], x[2])
Usada(x) == usada[x[1]][x[2]]
TlbRecientes ==
    \A x, y \in Pid \X NumPagina : EnTlb(x) /\ ~EnTlb(y) => Usada(y) <= Usada(x)

\* What makes it inductive: the TLB has, with each page, when it was used.
HistoriaInv ==
    /\ usada \in [Pid -> [NumPagina -> Int]]
    /\ \A p \in Pid, n \in NumPagina : usada[p][n] <= num_instruccion_actual
    /\ \A i \in DOMAIN tlb_entries :
           LET e == tlb_entries[i]
           IN e.num_pagina \in NumPagina => usada[e.pid][e.num_pagina] = e.ultimo_acceso
    /\ TlbRecientes
=============================================================================
