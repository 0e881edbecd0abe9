SPECIFICATION SpecUsada
CONSTANTS
    Pid = {p1, p2}
    Interfaces = {i1}
    Datos = {0, 1}
    Cero = 0
    NoExiste = NoExiste
    num_marcos = 2
    TAM_PAGINA = 2
    CANTIDAD_ENTRADAS_TLB = 1
    ALGORITMO_TLB = "FIFO"
    MataEnIo = FALSE
    MaxTam = 3
    MaxInstrucciones = 4
INVARIANT LeeLoSuyo
INVARIANT DireccionVigente
PROPERTY ImplementaEspacio
SYMMETRY Simetria
CHECK_DEADLOCK FALSE
