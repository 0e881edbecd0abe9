SPECIFICATION SpecJusta
CONSTANTS
    Pids = {p1, p2, p3}
    Eliminadores = {pcp, consola}
    Ilegibles = {p3}
    Nadie = Nadie
INVARIANT ConexionInv
INVARIANT MemoriaEntiende
INVARIANT RespuestasContadas
PROPERTY LaCargaTermina
PROPERTY SeLibera
CHECK_DEADLOCK FALSE
