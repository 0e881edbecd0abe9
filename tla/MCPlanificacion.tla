--------------------------- MODULE MCPlanificacion ---------------------------
(***************************************************************************)
(* Planificacion for TLC: the resources and interfaces of small            *)
(* configurations.                                                          *)
(***************************************************************************)
EXTENDS PlanificacionInv

CONSTANTS r1, io1

UnRecurso == {r1}
UnaInterfaz == {io1}
Ninguno == {}
UnaInstancia == [r \in Recursos |-> 1]
=============================================================================
