-------------------------------- MODULE MCRates ---------------------------------
(***************************************************************************)
(* Two reserves in a foreign currency on two programs, and one in the      *)
(* program's own currency that contends with the first for its lock.       *)
(***************************************************************************)
EXTENDS RateLookup, TLC

CONSTANTS h1, h2, h3, p1, p2

ReserveOn == h1 :> p1 @@ h2 :> p2 @@ h3 :> p1
=============================================================================
