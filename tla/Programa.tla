------------------------------ MODULE Programa ------------------------------
(***************************************************************************)
(* What the system promises the author of a process: its instructions take  *)
(* effect one at a time and in order, each once, on registers of its own,   *)
(* and it asks the kernel for what they say, in that order, whatever other  *)
(* processes run in between.  Nothing of queues, clocks or interrupts is    *)
(* seen from here.                                                          *)
(***************************************************************************)
EXTENDS Integers, Sequences

CONSTANTS
    Pids,
    UINT8_MAX, UINT32_MAX   \* the widths of a register

VARIABLES
    codigo,          \* the instructions of each process, as the memory has them
    program_counter, registros,
    pedidos,         \* what each process has asked of the kernel so far
    terminado

vars == <<codigo, program_counter, registros, pedidos, terminado>>

Init ==
    /\ program_counter = [p \in Pids |-> 0]
    /\ registros = [p \in Pids |-> [AX |-> 0, EAX |-> 0]]
    /\ pedidos = [p \in Pids |-> <<>>]
    /\ terminado = [p \in Pids |-> FALSE]

\* Nothing follows the last request of a process.
Vive(p) == ~terminado[p] /\ \A k \in DOMAIN pedidos[p] : pedidos[p][k] \notin {"EXIT", "RESIZE"}
Instruccion(p) == codigo[p][program_counter[p] + 1]
Valor(p, r) == IF r = "PC" THEN program_counter[p] ELSE registros[p][r]

Calculado(p) ==
    LET i == Instruccion(p)
    IN CASE i.op = "SET" -> i.v % (UINT32_MAX + 1)
         [] i.op = "SUM" -> (Valor(p, i.r) + Valor(p, i.s)) % (UINT32_MAX + 1)
         [] i.op = "SUB" -> (Valor(p, i.r) - Valor(p, i.s)) % (UINT32_MAX + 1)

\* SET, SUM and SUB; on PC they are jumps.
Calcula(p) ==
    /\ Instruccion(p).op \in {"SET", "SUM", "SUB"}
    /\ IF Instruccion(p).r = "PC"
       THEN /\ program_counter' = [program_counter EXCEPT ![p] = Calculado(p)]
            /\ UNCHANGED registros
       ELSE /\ program_counter' = [program_counter EXCEPT ![p] = @ + 1]
            /\ registros' = [registros EXCEPT ![p][Instruccion(p).r] = Calculado(p)]
            /\ Instruccion(p).r = "AX" => Calculado(p) <= UINT8_MAX
    /\ UNCHANGED pedidos

Salta(p) ==
    /\ Instruccion(p).op = "JNZ"
    /\ program_counter' = [program_counter EXCEPT ![p] =
                              IF Valor(p, Instruccion(p).r) # 0
                              THEN Instruccion(p).v % (UINT32_MAX + 1) ELSE @ + 1]
    /\ UNCHANGED <<registros, pedidos>>

\* A request goes on from the next instruction, if it goes on.
Pide(p) ==
    /\ Instruccion(p).op \in {"WAIT", "SIGNAL", "IO"}
    /\ program_counter' = [program_counter EXCEPT ![p] = @ + 1]
    /\ pedidos' = [pedidos EXCEPT ![p] = Append(@, Instruccion(p).op)]
    /\ UNCHANGED registros

\* RESIZE changes no register when there are frames...
Redimensiona(p) ==
    /\ Instruccion(p).op = "RESIZE"
    /\ program_counter' = [program_counter EXCEPT ![p] = @ + 1]
    /\ UNCHANGED <<registros, pedidos>>

\* ...and ends the process when there are not.
PideTerminar(p) ==
    /\ Instruccion(p).op \in {"EXIT", "RESIZE"}
    /\ pedidos' = [pedidos EXCEPT ![p] = Append(@, Instruccion(p).op)]
    /\ UNCHANGED <<program_counter, registros>>

\* Nothing is promised past the end of the program.
Paso(p) ==
    /\ Vive(p) /\ program_counter[p] < Len(codigo[p])
    /\ Calcula(p) \/ Salta(p) \/ Pide(p) \/ Redimensiona(p) \/ PideTerminar(p)
    /\ UNCHANGED terminado

\* The kernel takes the process out: it asked for it, asked for something that does not
\* exist, or the operator finished it.
Termina(p) ==
    /\ ~terminado[p]
    /\ terminado' = [terminado EXCEPT ![p] = TRUE]
    /\ UNCHANGED <<program_counter, registros, pedidos>>

Next == UNCHANGED codigo /\ \E p \in Pids : Paso(p) \/ Termina(p)

Spec == Init /\ [][Next]_vars
=============================================================================
