SPECIFICATION SpecUsada
CONSTANTS
    Pid = {p1, p2}
    Interfaces = {i1}
    Datos = {0}
    Cero = 0
    NoExiste = NoExiste
    num_marcos = 3
    TAM_PAGINA = 1
    CANTIDAD_ENTRADAS_TLB = 2
    ALGORITMO_TLB = "LRU"
    MataEnIo = TRUE
    MaxTam = 3
    MaxInstrucciones = 4
INVARIANT MemoriaInv
INVARIANT TlbCoherente
INVARIANT TlbRecientes
SYMMETRY Simetria
CHECK_DEADLOCK FALSE
