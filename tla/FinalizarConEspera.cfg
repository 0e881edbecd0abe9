SPECIFICATION Spec
CONSTANTS
    r1 = r1
    io1 = io1
    Algoritmo = "RR"
    Recursos <- UnRecurso
    Instancias0 <- UnaInstancia
    Interfaces <- Ninguno
    Grado0 = 2
    MaxProcesos = 2
    MaxGrado = 2
    MaxExtra = 0
    MaxInstancias = 1
INVARIANT EliminarNoBloquea
CHECK_DEADLOCK FALSE
