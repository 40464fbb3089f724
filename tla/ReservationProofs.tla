---------------------------- MODULE ReservationProofs ----------------------------
(***************************************************************************)
(* Theorems about the life of one reservation, for every amount, every     *)
(* rate and every precision of rates: partial releases never lose or make  *)
(* up a minor unit, however they round, and never paint into a corner.     *)
(***************************************************************************)
EXTENDS ReservationLifecycle, OperatorProofs

(* Nothing of an invoice is reserved for nothing of it.                    *)
LEMMA NothingConverts ==
  ASSUME NEW rate \in Nat
  PROVE  Convert(0, rate) = 0
<1>1. 0 * rate = 0
  OBVIOUS
<1>2. RoundHalfUp(0, RateScale) = 0
  <2>1. 0 \div RateScale = 0 /\ ~(2 * (0 % RateScale) >= RateScale)
    BY RateScaleAssumption
  <2>2. Magnitude(0) = 0 /\ ~(0 < 0)
    BY DEF Magnitude
  <2> QED BY <2>1, <2>2, Zenon DEF RoundHalfUp
<1> QED BY <1>1, <1>2 DEF Convert

(* The rows the policies make.                                             *)
LifecycleStatuses == {"ACTIVE", "PARTIALLY_RELEASED", "FULLY_RELEASED", "CANCELLED", "WRITTEN_OFF"}

LifecycleRow ==
  [status : LifecycleStatuses,
   currency : {"USD"}, rate : Nat, amount : Nat, reserved : Nat,
   outstandingInvoice : Nat, outstandingReserved : Nat,
   treasuryReference : {None}, acknowledgedBy : {None}, confirmedAt : {0}]

(* The status of a live reservation tells whether it gave something back.  *)
StatusTellsHistory ==
  /\ row.status = "ACTIVE" => returned = 0
  /\ row.status = "PARTIALLY_RELEASED" => returned > 0

LifecycleIInv ==
  /\ row \in LifecycleRow /\ returned \in Nat
  /\ ReservedTracksInvoice
  /\ ReturnsWhatItTook
  /\ StatusTellsHistory

-------------------------------------------------------------------------------
(* A reservation is opened for an amount that converts to something.       *)
LEMMA OpenKeeps == Open => LifecycleIInv
<1> SUFFICES ASSUME NEW amount \in Amounts, NEW rate \in Rates,
                    ~RoundsToZero(amount, rate),
                    row = NewReservation("USD", amount, FxRate(rate), 0), returned = 0
             PROVE  LifecycleIInv
  BY DEF Open
<1>1. amount \in Nat \ {0} /\ rate \in Nat \ {0}
  BY LifecycleAssumption
<1>2. ReservedAmount(amount, FxRate(rate)) = Convert(amount, rate)
  BY DEF ReservedAmount, FxRate
<1>3. Convert(amount, rate) \in Nat \ {0}
  BY <1>1, ConvertNat DEF RoundsToZero
<1> DEFINE held == Convert(amount, rate)
<1>4. row = [status |-> "ACTIVE", currency |-> "USD", rate |-> rate,
             amount |-> amount, reserved |-> held,
             outstandingInvoice |-> amount, outstandingReserved |-> held,
             treasuryReference |-> None, acknowledgedBy |-> None, confirmedAt |-> 0]
  BY <1>2 DEF NewReservation, FxRate
<1>5. held \in Nat \ {0}
  BY <1>3
<1>6. row.rate = rate /\ row.outstandingInvoice = amount
  BY <1>4
<1>7. held = Convert(row.outstandingInvoice, row.rate)
  BY <1>6
<1> HIDE DEF held
<1> QED
  BY <1>1, <1>4, <1>5, <1>7
     DEF LifecycleIInv, LifecycleRow, LifecycleStatuses, ReservedTracksInvoice,
         ReturnsWhatItTook, StatusTellsHistory, IsLive, TerminalStatuses

(* What an accepted release leaves of the row: the rest of the invoice and *)
(* what it converts to, or nothing when that is dust.                      *)
ReleaseLeaves(amount, rest) ==
  \/ /\ rest = 0
     /\ row' = [row EXCEPT !.outstandingInvoice = 0, !.outstandingReserved = 0,
                           !.status = "FULLY_RELEASED"]
  \/ /\ rest # 0
     /\ row' = [row EXCEPT !.outstandingInvoice = row.outstandingInvoice - amount,
                           !.outstandingReserved = rest, !.status = "PARTIALLY_RELEASED"]

(* A partial release recomputes what stays reserved from what is left of   *)
(* the invoice, so its rounding replaces that of the last one.             *)
LEMMA ReleasePartKeeps ==
  ASSUME LifecycleIInv, NEW amount \in Amounts, ReleasePart(amount)
  PROVE  LifecycleIInv' /\ row'.status \notin {"WRITTEN_OFF", "CANCELLED"}
<1> DEFINE rest == Remainder(row, amount)
<1>1. amount \in Nat
  BY LifecycleAssumption
<1>2. row \in LifecycleRow /\ returned \in Nat
  BY DEF LifecycleIInv
<1>3. /\ ~(amount > row.outstandingInvoice)
      /\ ~(ReleaseDelta(row, amount) < 0) /\ ReleaseDelta(row, amount) # 0
      /\ row.status \notin TerminalStatuses
  BY ReleaseAccepted DEF ReleasePart
<1>4. row.outstandingInvoice - amount \in Nat
  BY <1>1, <1>2, <1>3 DEF LifecycleRow
<1>5. rest = Convert(row.outstandingInvoice - amount, row.rate) /\ rest \in Nat
  BY <1>2, <1>4, ConvertNat DEF Remainder, LifecycleRow
<1>6. returned' = returned + (row.outstandingReserved - rest)
  BY DEF ReleasePart, ReleaseDelta
<1>7. row.outstandingReserved - rest > 0
  BY <1>2, <1>3, <1>5 DEF ReleaseDelta, LifecycleRow
<1>8. ReleaseLeaves(amount, rest)
  BY Zenon DEF ReleasePart, Released, ReleaseLeaves
<1>9. returned + row.outstandingReserved = row.reserved
  BY DEF LifecycleIInv, ReturnsWhatItTook
<1> HIDE DEF rest
<1>10. /\ row' \in LifecycleRow
       /\ row'.rate = row.rate /\ row'.reserved = row.reserved /\ row'.outstandingReserved = rest
       /\ rest = 0 => row'.status = "FULLY_RELEASED"
       /\ rest # 0 => /\ row'.status = "PARTIALLY_RELEASED"
                      /\ row'.outstandingInvoice = row.outstandingInvoice - amount
  <2>1. CASE rest = 0
    <3>1. PICK status \in LifecycleStatuses :
            /\ row' = [row EXCEPT !.outstandingInvoice = 0, !.outstandingReserved = 0,
                                  !.status = status]
            /\ status = "FULLY_RELEASED"
      BY <1>8, <2>1 DEF ReleaseLeaves, LifecycleStatuses
    <3> QED BY <1>2, <2>1, <3>1 DEF LifecycleRow
  <2>2. CASE rest # 0
    <3>1. PICK status \in LifecycleStatuses :
            /\ row' = [row EXCEPT !.outstandingInvoice = row.outstandingInvoice - amount,
                                  !.outstandingReserved = rest, !.status = status]
            /\ status = "PARTIALLY_RELEASED"
      BY <1>8, <2>2 DEF ReleaseLeaves, LifecycleStatuses
    <3> QED BY <1>2, <1>4, <1>5, <2>2, <3>1 DEF LifecycleRow
  <2> QED BY <2>1, <2>2
<1>11. ReservedTracksInvoice'
  <2>1. CASE rest = 0
    BY <1>10, <2>1 DEF ReservedTracksInvoice, IsLive, TerminalStatuses
  <2>2. CASE rest # 0
    BY <1>5, <1>10, <2>2 DEF ReservedTracksInvoice
  <2> QED BY <2>1, <2>2
<1>12. returned' \in Nat
  BY <1>2, <1>5, <1>6, <1>7 DEF LifecycleRow
<1>13. ReturnsWhatItTook'
  BY <1>2, <1>5, <1>6, <1>9, <1>10 DEF ReturnsWhatItTook, IsLive, TerminalStatuses, LifecycleRow
<1>14. StatusTellsHistory'
  BY <1>2, <1>5, <1>6, <1>7, <1>10 DEF StatusTellsHistory, LifecycleRow
<1> QED BY <1>10, <1>11, <1>12, <1>13, <1>14 DEF LifecycleIInv, LifecycleStatuses

(* A cancellation gives back all that is still reserved.                   *)
LEMMA CloseKeeps ==
  ASSUME LifecycleIInv, Close
  PROVE  /\ LifecycleIInv'
         /\ row'.status \in {"WRITTEN_OFF", "CANCELLED"}
         /\ (row'.status = "WRITTEN_OFF") = (returned > 0)
<1>1. row \in LifecycleRow /\ returned \in Nat
  BY DEF LifecycleIInv
<1>2. row.status \in {"ACTIVE", "PARTIALLY_RELEASED"}
  BY <1>1, CancelAccepted DEF Close, LifecycleRow, LifecycleStatuses, TerminalStatuses
<1>3. PICK status \in {"WRITTEN_OFF", "CANCELLED"} :
        /\ row' = [row EXCEPT !.outstandingReserved = 0, !.status = status]
        /\ status = IF row.status = "PARTIALLY_RELEASED" THEN "WRITTEN_OFF" ELSE "CANCELLED"
  BY Zenon DEF Close, Cancelled
<1>4. returned' = returned + row.outstandingReserved
  BY DEF Close
<1>5. /\ row.status = "ACTIVE" => returned = 0
      /\ row.status = "PARTIALLY_RELEASED" => returned > 0
  BY DEF LifecycleIInv, StatusTellsHistory
<1>6. /\ row' \in LifecycleRow
      /\ row'.reserved = row.reserved /\ row'.outstandingReserved = 0
      /\ row.status = "PARTIALLY_RELEASED" => row'.status = "WRITTEN_OFF"
      /\ row.status = "ACTIVE" => row'.status = "CANCELLED"
  BY <1>1, <1>2, <1>3 DEF LifecycleRow, LifecycleStatuses
<1>7. returned + row.outstandingReserved = row.reserved
  BY DEF LifecycleIInv, ReturnsWhatItTook
<1>8. LifecycleIInv'
  BY <1>1, <1>2, <1>4, <1>6, <1>7
     DEF LifecycleIInv, LifecycleRow, LifecycleStatuses, ReservedTracksInvoice,
         ReturnsWhatItTook, StatusTellsHistory, IsLive, TerminalStatuses
<1> QED BY <1>2, <1>5, <1>6, <1>8

(* Every step of a reservation keeps the invariant.                        *)
LEMMA LifecycleNextKeeps == LifecycleIInv /\ [LifecycleNext]_lifecycle => LifecycleIInv'
<1> SUFFICES ASSUME LifecycleIInv, [LifecycleNext]_lifecycle PROVE LifecycleIInv'
  OBVIOUS
<1>1. CASE UNCHANGED lifecycle
  BY <1>1 DEF lifecycle, LifecycleIInv, ReservedTracksInvoice, ReturnsWhatItTook,
              StatusTellsHistory, IsLive
<1>2. CASE Close
  BY <1>2, CloseKeeps
<1>3. ASSUME NEW amount \in Amounts, ReleasePart(amount) PROVE LifecycleIInv'
  BY <1>3, ReleasePartKeeps
<1> QED BY <1>1, <1>2, <1>3 DEF LifecycleNext

(* Whatever is released, in whatever parts, keeps the invariant.           *)
THEOREM LifecycleInvariance == LifecycleSpec => []LifecycleIInv
BY OpenKeeps, LifecycleNextKeeps, PTL DEF LifecycleSpec

-------------------------------------------------------------------------------
(* FR-009: rounding errors never pile up, for any sequence of releases.    *)
THEOREM RoundingNeverPilesUp == LifecycleSpec => []ReservedTracksInvoice
<1>1. LifecycleIInv => ReservedTracksInvoice
  BY DEF LifecycleIInv
<1> QED BY <1>1, LifecycleInvariance, PTL

(* FR-009, FR-009b, SC-004a: every reservation gives back what it took, no *)
(* unit more and no unit less.                                             *)
THEOREM WhatWasTakenReturns == LifecycleSpec => []ReturnsWhatItTook
<1>1. LifecycleIInv => ReturnsWhatItTook
  BY DEF LifecycleIInv
<1> QED BY <1>1, LifecycleInvariance, PTL

(* FR-009b: no rest of an invoice is ever left that cannot be repaid.      *)
THEOREM RestCanBeRepaid == LifecycleSpec => []AlwaysSettleable
<1>1. ASSUME LifecycleIInv PROVE AlwaysSettleable
  <2> SUFFICES ASSUME IsLive
               PROVE  ReleaseVerdict(row, row.currency, row.outstandingInvoice) = Accepted
    BY DEF AlwaysSettleable
  <2> DEFINE all == row.outstandingInvoice
  <2>1. row \in LifecycleRow
    BY <1>1 DEF LifecycleIInv
  <2>2. all \in Nat /\ row.rate \in Nat /\ row.outstandingReserved \in Nat
    BY <2>1 DEF LifecycleRow
  <2>3. row.outstandingReserved = Convert(all, row.rate) /\ row.outstandingReserved > 0
    BY <1>1 DEF LifecycleIInv, ReservedTracksInvoice
  <2>4. all # 0
    <3> SUFFICES ASSUME all = 0 PROVE FALSE
      OBVIOUS
    <3>1. Convert(all, row.rate) = 0
      BY <2>2, NothingConverts
    <3> QED BY <2>3, <3>1
  <2>5. ReleaseDelta(row, all) = row.outstandingReserved
    <3>1. all - all = 0
      BY <2>2
    <3>2. Remainder(row, all) = 0
      BY <2>2, <3>1, NothingConverts DEF Remainder
    <3> QED BY <2>2, <3>2 DEF ReleaseDelta
  <2>6. /\ ~(all <= 0) /\ ~(all > row.outstandingInvoice)
        /\ row.status \notin TerminalStatuses
        /\ ~RoundsToZero(all, row.rate)
        /\ ~(ReleaseDelta(row, all) < 0) /\ ReleaseDelta(row, all) # 0
    BY <2>2, <2>3, <2>4, <2>5 DEF IsLive, RoundsToZero
  <2> QED BY <2>6, ReleaseAccepts
<1> QED BY <1>1, LifecycleInvariance, PTL

(* FR-009b: how a reservation is closed tells what happened to it before.  *)
THEOREM ClosingIsTold == LifecycleSpec => ClosingTellsHistory
<1> DEFINE Told == row'.status \in {"WRITTEN_OFF", "CANCELLED"} /\ row'.status # row.status =>
                     (row'.status = "WRITTEN_OFF") = (returned > 0)
<1>1. LifecycleIInv /\ [LifecycleNext]_lifecycle => [Told]_lifecycle
  <2> SUFFICES ASSUME LifecycleIInv, LifecycleNext PROVE Told
    OBVIOUS
  <2>1. CASE Close
    BY <2>1, CloseKeeps
  <2>2. ASSUME NEW amount \in Amounts, ReleasePart(amount) PROVE Told
    BY <2>2, ReleasePartKeeps
  <2> QED BY <2>1, <2>2 DEF LifecycleNext
<1> QED BY <1>1, LifecycleInvariance, PTL DEF LifecycleSpec, ClosingTellsHistory
==================================================================================
