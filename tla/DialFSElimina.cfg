SPECIFICATION Spec
CONSTANTS
    Archivos = {a, b, c}
    Datos = {0, 1}
    Cero = 0
    NoExiste = NoExiste
    BLOCK_SIZE = 2
    BLOCK_COUNT = 3
    Operaciones = {"FS_CREATE", "FS_DELETE", "FS_TRUNCATE", "FS_WRITE"}
    Recrea = TRUE
    BorraHasta = 2
    MaxTam = 4
    MaxDesborde = 0
PROPERTY ImplementaAlmacen
SYMMETRY Simetria
CHECK_DEADLOCK FALSE
