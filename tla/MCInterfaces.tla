---------------------------- MODULE MCInterfaces ----------------------------
(* Interfaces for TLC.                                                      *)
EXTENDS InterfacesInv

ValorDe == [AX |-> 0, BX |-> 2, CX |-> 1]
Tipos == [DISCO |-> "DIALFS", TECLADO |-> "STDIN", PANTALLA |-> "STDOUT", RELOJ |-> "GENERICA"]

Escribe == <<"IO_FS_WRITE", "DISCO", "f", "AX", "BX", "CX">>
Equivocada == <<"IO_STDIN_READ", "DISCO", "CX", "BX">>
Todas == {Escribe, Equivocada,
          <<"IO_GEN_SLEEP", "RELOJ", 3>>,
          <<"IO_STDIN_READ", "TECLADO", "CX", "BX">>,
          <<"IO_STDOUT_WRITE", "PANTALLA", "AX", "BX">>,
          <<"IO_FS_CREATE", "DISCO", "f">>,
          <<"IO_FS_DELETE", "DISCO", "f">>,
          <<"IO_FS_TRUNCATE", "DISCO", "f", "BX">>,
          <<"IO_FS_READ", "DISCO", "f", "CX", "BX", "AX">>}

ElDisco == {"DISCO"}
DelDisco == {Escribe, Equivocada}
=============================================================================
