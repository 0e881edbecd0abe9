SPECIFICATION Spec
CONSTANTS
    Archivos = {a, b, c}
    Datos = {0, 1}
    Cero = 0
    NoExiste = NoExiste
    BLOCK_SIZE = 1
    BLOCK_COUNT = 5
    Operaciones = {"FS_CREATE", "FS_DELETE", "FS_TRUNCATE", "FS_WRITE"}
    Recrea = TRUE
    BorraHasta = 1
    MaxTam = 3
    MaxDesborde = 0
INVARIANT DiscoInv
INVARIANT SinSolaparse
INVARIANT OrdenDeCompactacion
PROPERTY SoloPierdeAlBorrar
PROPERTY ImplementaAlmacen
SYMMETRY Simetria
CHECK_DEADLOCK FALSE
