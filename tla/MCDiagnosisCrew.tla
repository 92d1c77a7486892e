-------------------------- MODULE MCDiagnosisCrew --------------------------
(* A small instance of DiagnosisCrew with the budgets of the code.          *)
EXTENDS DiagnosisCrew

CONSTANTS c1, c2, c3

MCCallers == {c1, c2, c3}
=============================================================================
