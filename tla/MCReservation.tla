----------------------------- MODULE MCReservation -----------------------------
(***************************************************************************)
(* Every invoice of up to 12 minor units at every rate from 1/8 to 3, with *)
(* RateScale = 8: exact conversions, halves, roundings up and down, dust,  *)
(* and releases of more than the invoice.                                  *)
(***************************************************************************)
EXTENDS ReservationLifecycle

AmountRange == 1..12
RateRange == 1..24
=============================================================================
