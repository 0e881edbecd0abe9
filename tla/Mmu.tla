--------------------------------- MODULE Mmu ---------------------------------
(***************************************************************************)
(* The TLB of the CPU: a queue of entries, the oldest first, and what        *)
(* mmu.c does to it.  An entry holds the process, the page, the frame and    *)
(* the number of the instruction that used it last.                          *)
(* An operator A_B is a plausible slip in A: nothing here uses them.         *)
(***************************************************************************)
EXTENDS Integers, FiniteSets, SequencesExt

CONSTANTS
    CANTIDAD_ENTRADAS_TLB,
    ALGORITMO_TLB            \* "FIFO" or "LRU"

ASSUME TlbOK == CANTIDAD_ENTRADAS_TLB \in Nat /\ ALGORITMO_TLB \in {"FIFO", "LRU"}

Es(entry, pid, num_pagina) == entry.pid = pid /\ entry.num_pagina = num_pagina

\* tlb_get finds an entry for the page.
TlbHit(tlb, pid, num_pagina) == \E i \in DOMAIN tlb : Es(tlb[i], pid, num_pagina)

\* The frame tlb_get finds: that of the first entry for the page.
MarcoEnTlb(tlb, pid, num_pagina) ==
    tlb[SelectInSeq(tlb, LAMBDA e : Es(e, pid, num_pagina))].num_marco

\* What tlb_get leaves: the entry it found was used just now.
tlb_get_SinMarcar(tlb, pid, num_pagina, ahora) == tlb
tlb_get(tlb, pid, num_pagina, ahora) ==
    LET i == SelectInSeq(tlb, LAMBDA e : Es(e, pid, num_pagina))
    IN [tlb EXCEPT ![i].ultimo_acceso = ahora]

fifo_remover_victima(tlb) == Tail(tlb)

\* The first of those used longest ago.
lru_remover_victima(tlb) ==
    RemoveAt(tlb, CHOOSE i \in DOMAIN tlb :
                      \A j \in DOMAIN tlb :
                          \/ tlb[i].ultimo_acceso < tlb[j].ultimo_acceso
                          \/ tlb[i].ultimo_acceso = tlb[j].ultimo_acceso /\ i <= j)

SacarVictima_Tarde(tlb) ==
    IF Len(tlb) <= CANTIDAD_ENTRADAS_TLB THEN tlb
    ELSE IF ALGORITMO_TLB = "FIFO" THEN fifo_remover_victima(tlb) ELSE lru_remover_victima(tlb)
SacarVictima(tlb) ==
    IF Len(tlb) < CANTIDAD_ENTRADAS_TLB THEN tlb
    ELSE IF ALGORITMO_TLB = "FIFO" THEN fifo_remover_victima(tlb) ELSE lru_remover_victima(tlb)

tlb_save(tlb, entry) ==
    IF CANTIDAD_ENTRADAS_TLB = 0 THEN tlb ELSE Append(SacarVictima(tlb), entry)

\* Some positions of the TLB, in order.
EnOrden(posiciones) ==
    CHOOSE s \in [1..Cardinality(posiciones) -> posiciones] :
        \A i, j \in DOMAIN s : i < j => s[i] < s[j]

\* What is left when only the entries at those positions stay.
Dejar(tlb, posiciones) == [k \in DOMAIN EnOrden(posiciones) |-> tlb[EnOrden(posiciones)[k]]]

\* The entries of the pages from num_paginas on go.
remover_entradas_tlb_invalidas_UnaMas(tlb, pid, num_paginas) ==
    Dejar(tlb, {i \in DOMAIN tlb : ~(tlb[i].pid = pid /\ tlb[i].num_pagina > num_paginas)})
remover_entradas_tlb_invalidas(tlb, pid, num_paginas) ==
    Dejar(tlb, {i \in DOMAIN tlb : ~(tlb[i].pid = pid /\ tlb[i].num_pagina >= num_paginas)})
=============================================================================
