-------------------------------- MODULE MCStream --------------------------------
(***************************************************************************)
(* Two instances and five messages: one that applies, one that poisons its *)
(* handler, one that does not parse, one for a program nobody knows, and   *)
(* one more that applies behind them.                                      *)
(***************************************************************************)
EXTENDS StreamConsumer, TLC

CONSTANTS c1, c2

MessageFates ==
  [o \in 0..4 |-> CASE o = 1 -> "poison" [] o = 2 -> "invalid" [] o = 3 -> "refused"
                   [] OTHER -> "appliable"]
=============================================================================
