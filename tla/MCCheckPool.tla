------------------------------ MODULE MCCheckPool ------------------------------
(***************************************************************************)
(* A small instance of CheckPool: a certificate that fails verification, a *)
(* resolver that fails for a while, and a certificate about to expire.     *)
(***************************************************************************)
EXTENDS CheckPool

SomeErrors == {"window", "resolver"}

SomeVerdicts == {"warning"}
===============================================================================
