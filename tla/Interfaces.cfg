SPECIFICATION SpecJusta
CONSTANTS
    Pids = {p1, p2}
    Nombres <- ElDisco
    Registros <- ValorDe
    TipoDe <- Tipos
    Instrucciones <- DelDisco
    Repertorio <- Todas
    Nada = Nada
    MaxConexiones = 2
    MaxPedidos = 3
    MaxFinalizar = 1
INVARIANT InterfacesInv
INVARIANT ConsolaSegura
INVARIANT EliminadoUnaVez
INVARIANT SinAvisosPerdidos
INVARIANT OperacionFiel
PROPERTY HaceLoPedido
PROPERTY ElBloqueadoSale
CHECK_DEADLOCK FALSE
