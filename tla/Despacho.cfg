SPECIFICATION SpecJusta
CONSTANTS
    MaxProcesos = 2
    Codigos <- Dos
    ALGORITMO_PLANIFICACION = "VRR"
    QUANTUM = 1
    UINT8_MAX = 1
    UINT32_MAX = 7
    Nada = Nada
    MaxRelojes = 2
    MaxFinalizar <- SiCorto
INVARIANT DespachoInv
INVARIANT CancelarSinSegfault
INVARIANT QuantumRestante
INVARIANT InterrupcionAlSuyo
PROPERTY ImplementaPrograma
PROPERTY ElRelojDesaloja
CHECK_DEADLOCK FALSE
