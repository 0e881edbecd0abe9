SPECIFICATION Spec
CONSTANTS
    r1 = r1
    io1 = io1
    Algoritmo = "RR"
    Recursos <- UnRecurso
    Instancias0 <- UnaInstancia
    Interfaces <- UnaInterfaz
    Grado0 = 2
    MaxProcesos = 2
    MaxGrado = 2
    MaxExtra = 0
    MaxInstancias = 2
INVARIANT IInv
INVARIANT UnSoloLugar
INVARIANT BloqueadosContados
INVARIANT SinAsignacionesHuerfanas
INVARIANT AvisosReady
INVARIANT AvisosNewEIo
PROPERTY PausaCongela
CHECK_DEADLOCK FALSE
