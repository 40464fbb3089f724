----------------------------- MODULE CreditFacility -----------------------------
(***************************************************************************)
(* What the capacity service promises, without tables, locks, sessions or  *)
(* a ledger: every program has a limit, and what this service and treasury *)
(* have reserved of it; a request and a treasury message act on it in one  *)
(* step, once each, and nothing else does. CapacityProperties states how   *)
(* the tables implement it.                                                *)
(***************************************************************************)
EXTENDS Integers

CONSTANTS None, Programs, Invoices, RequestIds, MessageIds, MaxMinor

VARIABLES
  facility,  \* [Programs -> [limit, local, treasury, verified]]
  held,      \* [Programs -> [Invoices -> what the invoice holds; None until it is booked]]
  accepted,  \* [RequestIds -> the operation that has had its effect under it, or None]
  counted    \* [MessageIds -> the kind of the message taken into account, or None]

promised == <<facility, held, accepted, counted>>

Amount == 0..MaxMinor

Facility == [limit : Amount, local : Amount, treasury : Amount, verified : BOOLEAN]

FacilityInit ==
  /\ facility \in [Programs -> [limit : Amount, local : {0}, treasury : {0},
                                verified : {TRUE}]]
  /\ held = [p \in Programs |-> [i \in Invoices |-> None]]
  /\ accepted = [k \in RequestIds |-> None]
  /\ counted = [m \in MessageIds |-> None]

-------------------------------------------------------------------------------
(* A request is accepted once, and only while the position is verified.    *)
Accept(k, p, operation) ==
  /\ accepted[k] = None /\ facility[p].verified
  /\ accepted' = [accepted EXCEPT ![k] = operation]
  /\ UNCHANGED counted

(* An invoice takes, once, at most what the program has left.              *)
Reserve(k, p, i) ==
  /\ Accept(k, p, "RESERVE")
  /\ held[p][i] = None
  /\ \E n \in 1..(facility[p].limit - facility[p].local - facility[p].treasury) :
       /\ held' = [held EXCEPT ![p][i] = n]
       /\ facility' = [facility EXCEPT ![p].local = @ + n]

GiveBack(p, i, n) ==
  /\ held' = [held EXCEPT ![p][i] = @ - n]
  /\ facility' = [facility EXCEPT ![p].local = @ - n]

(* A release gives back a part of what the invoice holds, or all of it,    *)
Release(k, p, i) ==
  /\ Accept(k, p, "RELEASE")
  /\ held[p][i] # None
  /\ \E n \in 1..held[p][i] : GiveBack(p, i, n)

(* a cancellation all of it.                                               *)
Cancel(k, p, i) ==
  /\ Accept(k, p, "CANCEL")
  /\ held[p][i] # None
  /\ GiveBack(p, i, held[p][i])

-------------------------------------------------------------------------------
(* A message is taken into account once, and moves its own program only,   *)
(* and no invoice.                                                         *)
Count(m, p, kind) ==
  /\ counted[m] = None
  /\ counted' = [counted EXCEPT ![m] = kind]
  /\ facility' \in [Programs -> Facility]
  /\ \A q \in Programs \ {p} : facility'[q] = facility[q]
  /\ UNCHANGED <<held, accepted>>

(* An event moves the limit or what treasury has reserved, or nothing: an  *)
(* echo of a booking of ours.                                              *)
Report(m, p) ==
  /\ Count(m, p, "EVENT")
  /\ facility'[p].local = facility[p].local
  /\ facility'[p].verified = facility[p].verified
  /\ \/ facility'[p].limit = facility[p].limit
     \/ facility'[p].treasury = facility[p].treasury

(* A snapshot corrects all of it, and it alone vouches for it again.       *)
Reconcile(m, p) == Count(m, p, "SNAPSHOT") /\ facility'[p].verified

(* The position is no longer vouched for.                                  *)
Freeze(p) ==
  /\ facility' = [facility EXCEPT ![p].verified = FALSE]
  /\ UNCHANGED <<held, accepted, counted>>

-------------------------------------------------------------------------------
FacilityNext ==
  \/ \E k \in RequestIds, p \in Programs, i \in Invoices :
       Reserve(k, p, i) \/ Release(k, p, i) \/ Cancel(k, p, i)
  \/ \E m \in MessageIds, p \in Programs : Report(m, p) \/ Reconcile(m, p)
  \/ \E p \in Programs : Freeze(p)

FacilitySpec == FacilityInit /\ [][FacilityNext]_promised
=============================================================================
