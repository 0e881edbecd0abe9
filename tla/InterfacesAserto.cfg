SPECIFICATION Spec
CONSTANTS
    Pids = {p1, p2}
    Nombres <- ElDisco
    Registros <- ValorDe
    TipoDe <- Tipos
    Instrucciones <- DelDisco
    Repertorio <- Todas
    Nada = Nada
    MaxConexiones = 2
    MaxPedidos = 3
    MaxFinalizar = 1
INVARIANT AsertoDeLaConsola
CHECK_DEADLOCK FALSE
