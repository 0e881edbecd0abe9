SPECIFICATION Spec
CONSTANTS
    r1 = r1
    io1 = io1
    Algoritmo = "VRR"
    Recursos <- Ninguno
    Instancias0 <- UnaInstancia
    Interfaces <- UnaInterfaz
    Grado0 = 2
    MaxProcesos = 2
    MaxGrado = 2
    MaxExtra = 0
    MaxInstancias = 1
INVARIANT PopDelVisto
CHECK_DEADLOCK FALSE
