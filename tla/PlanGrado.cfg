SPECIFICATION SpecJusta
CONSTANTS
    r1 = r1
    io1 = io1
    Algoritmo = "RR"
    Recursos <- Ninguno
    Instancias0 <- UnaInstancia
    Interfaces <- Ninguno
    Grado0 = 1
    MaxProcesos = 2
    MaxGrado = 2
    MaxExtra = 1
    MaxInstancias = 1
INVARIANT ConservacionGrado
PROPERTY ReadyAvanza
PROPERTY LaPausaTermina
