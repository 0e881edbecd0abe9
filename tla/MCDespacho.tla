----------------------------- MODULE MCDespacho -----------------------------
(***************************************************************************)
(* Despacho for TLC: pairs of short programs.  Between them they use every  *)
(* instruction that matters to the dispatch, loop for ever, wrap around 32  *)
(* bits (EAX, at UINT32_MAX) and overflow 8 (AX).                           *)
(***************************************************************************)
EXTENDS DespachoInv

I(op) == [op |-> op]
Set(r, v) == [op |-> "SET", r |-> r, v |-> v]
Sum(r, s) == [op |-> "SUM", r |-> r, s |-> s]
Sub(r, s) == [op |-> "SUB", r |-> r, s |-> s]
Jnz(r, v) == [op |-> "JNZ", r |-> r, v |-> v]

\* Does not give the CPU back.
Bucle == <<Set("PC", 0)>>
\* Comes back from an interface, with something in its registers.
VaYVuelve == <<I("IO"), Sub("EAX", "PC"), I("EXIT")>>
\* Asks twice in one dispatch: the same stretch of its quantum is subtracted twice.
Espera == <<I("WAIT"), I("IO")>>
\* Overflows AX in the end; its 9 and its 12 are past 32 bits, and stand for 1 and 4.
Desborda == <<I("RESIZE"), Set("AX", 9), Jnz("EAX", 1), Jnz("AX", 12), Sum("AX", "AX")>>

\* Has no end.
SinFin == <<I("RESIZE")>>

Dos == {<<x, Bucle>> : x \in {VaYVuelve, Espera, Desborda, SinFin, <<I("EXIT")>>}}

\* The operator's interrupts, where the programs leave room for their interleavings.
SiCorto == [c \in Codigos |-> IF c[1] = <<I("EXIT")>> THEN 1 ELSE 0]
=============================================================================
