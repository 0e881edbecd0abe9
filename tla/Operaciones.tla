----------------------------- MODULE Operaciones -----------------------------
(***************************************************************************)
(* An input/output instruction on its way from the program to the interface: *)
(* the CPU decodes it and packs the operation, the kernel packs it again     *)
(* with the pid in front, and the interface reads it by position.  Nothing   *)
(* but the position says what an element of a packet is.  An instruction is  *)
(* the sequence of its words.  Positions count from 1 here, from 0 in C.     *)
(* An operator A_B is a plausible slip in A: nothing uses them.              *)
(***************************************************************************)
EXTENDS Integers, Sequences

CONSTANTS
    Registros,   \* what the registers hold when the instruction is executed
    TipoDe       \* the type of the interface of each name

Operacion == [IO_GEN_SLEEP |-> "GEN_SLEEP", IO_STDIN_READ |-> "STDIN_READ",
              IO_STDOUT_WRITE |-> "STDOUT_WRITE", IO_FS_CREATE |-> "FS_CREATE",
              IO_FS_DELETE |-> "FS_DELETE", IO_FS_TRUNCATE |-> "FS_TRUNCATE",
              IO_FS_WRITE |-> "FS_WRITE", IO_FS_READ |-> "FS_READ"]

TIPO_INTERFAZ_CAPAZ_DE_HACER ==
    [GEN_SLEEP |-> "GENERICA", STDIN_READ |-> "STDIN", STDOUT_WRITE |-> "STDOUT",
     FS_CREATE |-> "DIALFS", FS_DELETE |-> "DIALFS", FS_TRUNCATE |-> "DIALFS",
     FS_WRITE |-> "DIALFS", FS_READ |-> "DIALFS"]

\* The words of each instruction: its name, the interface's and its parameters, of which some
\* are registers.
Largo == [IO_GEN_SLEEP |-> 3, IO_STDIN_READ |-> 4, IO_STDOUT_WRITE |-> 4, IO_FS_CREATE |-> 3,
          IO_FS_DELETE |-> 3, IO_FS_TRUNCATE |-> 4, IO_FS_WRITE |-> 6, IO_FS_READ |-> 6]
BienEscrita(palabras) ==
    /\ palabras[1] \in DOMAIN Largo
    /\ palabras = [k \in 1..Largo[palabras[1]] |-> palabras[k]]
    /\ palabras[1] \in {"IO_STDIN_READ", "IO_STDOUT_WRITE"} =>
           Registros[palabras[3]] \in Nat /\ Registros[palabras[4]] \in Nat
    /\ palabras[1] \in {"IO_FS_WRITE", "IO_FS_READ"} =>
           \A k \in 4..6 : Registros[palabras[k]] \in Nat

-----------------------------------------------------------------------------
(* The CPU                                                                  *)

\* The parameters keep the order they were written in: names, registers and numbers alike.
parsear_io(palabras) == Tail(palabras)
decode(palabras) == [opcode |-> palabras[1], parametros |-> parsear_io(palabras)]
get_registro(r) == Registros[r]

\* Pages are Mmu's subject: here each byte is a block of its own, at its logical address.
obtener_bloques(dir, tamanio) == [k \in 1..tamanio |-> dir + k - 1]

BloquesYTamanio(p) ==
    LET tamanio == get_registro(p[3]) IN
    <<tamanio>> \o obtener_bloques(get_registro(p[2]), tamanio)

\* The parameters of FS_WRITE and FS_READ change order: the pointer of the file goes first.
ArchivoYBloques_EnOrden(p) ==
    LET tamanio == get_registro(p[4]) IN
    <<p[2], tamanio, get_registro(p[5])>> \o obtener_bloques(get_registro(p[3]), tamanio)
ArchivoYBloques(p) ==
    LET tamanio == get_registro(p[4]) IN
    <<p[2], get_registro(p[5]), tamanio>> \o obtener_bloques(get_registro(p[3]), tamanio)

\* exec_io_*: the packet that follows the PCB.
Empaqueta(instruccion) ==
    LET p == instruccion.parametros
        op == Operacion[instruccion.opcode] IN
    <<p[1], op>> \o
    CASE op = "GEN_SLEEP" -> <<p[2]>>
      [] op \in {"STDIN_READ", "STDOUT_WRITE"} -> BloquesYTamanio(p)
      [] op \in {"FS_CREATE", "FS_DELETE"} -> <<p[2]>>
      [] op = "FS_TRUNCATE" -> <<p[2], get_registro(p[3])>>
      [] op \in {"FS_WRITE", "FS_READ"} -> ArchivoYBloques(p)

-----------------------------------------------------------------------------
(* The kernel: enviar_operacion and the functions it chooses from           *)

Cuantos(op) == CASE op \in {"GEN_SLEEP", "FS_CREATE", "FS_DELETE"} -> 1
                 [] op = "FS_TRUNCATE" -> 2
                 [] op \in {"STDIN_READ", "STDOUT_WRITE"} -> 1
                 [] op \in {"FS_WRITE", "FS_READ"} -> 3

LlevaBloques(op) == op \in {"STDIN_READ", "STDOUT_WRITE", "FS_WRITE", "FS_READ"}

Reenvia(pid, operacion) ==
    LET op == operacion[2]
        hasta == IF LlevaBloques(op) THEN Len(operacion) ELSE 2 + Cuantos(op) IN
    <<pid, op>> \o SubSeq(operacion, 3, hasta)

-----------------------------------------------------------------------------
(* The interfaces                                                           *)

\* The bytes of memory an operation uses, in order, and where in the file each one goes.
Posiciones(desde, bloques) == [k \in DOMAIN bloques |-> <<desde + k - 1, bloques[k]>>]

\* manejar_generica, manejar_stdin, manejar_stdout, manejar_dialfs: what is done.
Interpreta(paquete) ==
    LET op == paquete[2] IN
    [pid |-> paquete[1], op |-> op,
     efecto |->
        CASE op = "GEN_SLEEP" -> <<paquete[3]>>
          [] op \in {"STDIN_READ", "STDOUT_WRITE"} ->
                Posiciones(0, SubSeq(paquete, 4, Len(paquete)))
          [] op \in {"FS_CREATE", "FS_DELETE"} -> <<paquete[3]>>
          [] op = "FS_TRUNCATE" -> <<paquete[3], paquete[4]>>
          [] op \in {"FS_WRITE", "FS_READ"} ->
                <<paquete[3], Posiciones(paquete[4], SubSeq(paquete, 6, Len(paquete)))>>]

\* stdin.c:62: no block goes past the end of what was typed.
EntraEnLoTipeado(paquete) ==
    paquete[2] = "STDIN_READ" => Len(paquete) - 3 <= paquete[3]

-----------------------------------------------------------------------------
(* What the words of an instruction ask for: the reference                  *)

Bytes(desde, dir, tamanio) ==
    [k \in 1..tamanio |-> <<desde + k - 1, dir + k - 1>>]

Pedido(pid, palabras) ==
    LET op == palabras[1]
        R(k) == Registros[palabras[k]] IN
    [pid |-> pid, op |-> Operacion[op],
     efecto |->
        CASE op \in {"IO_GEN_SLEEP", "IO_FS_CREATE", "IO_FS_DELETE"} -> <<palabras[3]>>
          [] op \in {"IO_STDIN_READ", "IO_STDOUT_WRITE"} -> Bytes(0, R(3), R(4))
          [] op = "IO_FS_TRUNCATE" -> <<palabras[3], R(4)>>
          [] op \in {"IO_FS_WRITE", "IO_FS_READ"} -> <<palabras[3], Bytes(R(6), R(4), R(5))>>]
=============================================================================
