-------------------------------- MODULE MCClients --------------------------------
(***************************************************************************)
(* Two instances and three messages, the second with an earlier effective  *)
(* time than the first.                                                    *)
(***************************************************************************)
EXTENDS StreamClients

CONSTANTS x1, x2

Times == [n \in 1..3 |-> CASE n = 1 -> 4 [] n = 2 -> 2 [] OTHER -> 6]
=============================================================================
