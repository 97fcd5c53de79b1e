------------------------------- MODULE MCRunLoop -------------------------------
(***************************************************************************)
(* Small instances of RunLoop.                                             *)
(***************************************************************************)
EXTENDS RunLoop

Serving == [serve : {TRUE}, interval : BOOLEAN, failOn : {Never}]
===============================================================================
