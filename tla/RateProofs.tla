------------------------------- MODULE RateProofs -------------------------------
(***************************************************************************)
(* Theorems about the rate cache, for any number of reserves, any times to *)
(* live and delays, and any rates published while they run.                *)
(***************************************************************************)
EXTENDS RateLookup, WellFoundedInduction, TLAPS

(* A non-empty set of instants has a greatest one.                         *)
LEMMA NewestExists ==
  ASSUME NEW S \in SUBSET Instants, S # {}
  PROVE  \E e \in S : \A f \in S : f <= e
<1> DEFINE T == {Horizon - e : e \in S}
<1>1. T \subseteq Nat /\ T # {}
  <2>1. \A e \in S : Horizon - e \in Nat
    BY RateAssumption DEF Instants
  <2> QED BY <2>1
<1>2. PICK x \in T : \A y \in T : ~(<<y, x>> \in OpToRel(<, Nat))
  BY <1>1, NatLessThanWellFounded, WFMin, Zenon
<1>3. \A y \in T : ~(y < x)
  <2> SUFFICES ASSUME NEW y \in T PROVE ~(y < x)
    OBVIOUS
  <2>1. y \in Nat /\ x \in Nat
    BY <1>1
  <2>2. <<y, x>> \in OpToRel(<, Nat) <=> y < x
    BY <2>1 DEF OpToRel
  <2> QED BY <1>2, <2>2
<1>4. PICK e \in S : x = Horizon - e
  OBVIOUS
<1>5. \A f \in S : f <= e
  <2> SUFFICES ASSUME NEW f \in S PROVE f <= e
    OBVIOUS
  <2>1. ~(Horizon - f < Horizon - e)
    BY <1>3, <1>4
  <2> QED BY <2>1, RateAssumption DEF Instants
<1> QED BY <1>5

-------------------------------------------------------------------------------
Entries == [effective : Instants, expiresAt : Nat]

RateTypeOK ==
  /\ clock \in Instants
  /\ rates \subseteq [effective : Instants, published : Instants]
  /\ cache \in Entries \cup {None}
  /\ stage \in [Handlers -> Stages]
  /\ asOf \in [Handlers -> Instants] /\ calledAt \in [Handlers -> Instants]
  /\ cached \in [Handlers -> Entries \cup {None}]
  /\ found \in [Handlers -> Instants \cup {None}]

(* e is as new as any rate in force at inForce and published before        *)
(* instant.                                                                *)
AsNewAs(e, instant, inForce) ==
  \A r \in rates :
    r.published < instant /\ r.effective <= inForce => e # None /\ r.effective <= e

(* A reserve is dated at most MaxDelay before it looks its rate up.        *)
LookupsAreTimely ==
  \A h \in Handlers :
    /\ stage[h] = "locked" => asOf[h] <= clock /\ clock <= asOf[h] + MaxDelay
    /\ stage[h] \in {"missed", "fetching", "quoted"} =>
         calledAt[h] <= clock /\ calledAt[h] <= asOf[h] + MaxDelay

(* The entry is what a lookup found that was called Ttl before it expires. *)
EntryIsNewest ==
  cache # None =>
    LET filled == cache.expiresAt - Ttl
    IN  filled <= clock /\ AsNewAs(cache.effective, filled, filled - MaxDelay)

(* A query finds the newest rate in force.                                 *)
FindsNewest ==
  \A h \in Handlers :
    stage[h] = "fetching" =>
      /\ found[h] # None => found[h] <= asOf[h]
      /\ AsNewAs(found[h], calledAt[h], asOf[h])

RateIInv ==
  /\ RateTypeOK
  /\ \A r \in rates : r.published <= clock
  /\ LookupsAreTimely
  /\ EntryIsNewest
  /\ FindsNewest
  /\ NoRateFromTheFuture
  /\ NoRateIsStale

-------------------------------------------------------------------------------
(* An empty cache and one old rate.                                        *)
LEMMA RateInitKeeps == RateInit => RateIInv
<1> SUFFICES ASSUME RateInit PROVE RateIInv
  OBVIOUS
<1>1. RateTypeOK /\ \A r \in rates : r.published <= clock
  BY RateAssumption DEF RateInit, RateTypeOK, Instants, Stages
<1>2. LookupsAreTimely /\ FindsNewest /\ NoRateFromTheFuture /\ NoRateIsStale
  BY DEF RateInit, LookupsAreTimely, FindsNewest, NoRateFromTheFuture, NoRateIsStale
<1>3. EntryIsNewest
  BY DEF RateInit, EntryIsNewest
<1> QED BY <1>1, <1>2, <1>3 DEF RateIInv

(* A query answers the newest rate in force, if there is one.              *)
LEMMA NewestIsNewest ==
  ASSUME RateIInv, NEW instant \in Instants
  PROVE  /\ NewestAsOf(instant) \in Instants \cup {None}
         /\ NewestAsOf(instant) # None => NewestAsOf(instant) <= instant
         /\ \A r \in rates : r.effective <= instant =>
              NewestAsOf(instant) # None /\ r.effective <= NewestAsOf(instant)
<1> DEFINE InForce == {r.effective : r \in {q \in rates : q.effective <= instant}}
<1>1. InForce \in SUBSET Instants /\ \A e \in InForce : e <= instant
  BY DEF RateIInv, RateTypeOK
<1>2. CASE InForce = {}
  <2>1. NewestAsOf(instant) = None
    BY <1>2 DEF NewestAsOf
  <2>2. \A r \in rates : ~(r.effective <= instant)
    BY <1>2
  <2> QED BY <2>1, <2>2
<1>3. CASE InForce # {}
  <2>1. NewestAsOf(instant) = CHOOSE e \in InForce : \A f \in InForce : f <= e
    BY <1>3 DEF NewestAsOf
  <2>2. \E e \in InForce : \A f \in InForce : f <= e
    <3> HIDE DEF InForce
    <3> QED BY <1>1, <1>3, NewestExists
  <2>3. NewestAsOf(instant) \in InForce /\ \A f \in InForce : f <= NewestAsOf(instant)
    <3> HIDE DEF InForce
    <3> QED BY <2>1, <2>2, Zenon
  <2>4. \A r \in rates : r.effective <= instant => r.effective \in InForce
    OBVIOUS
  <2>5. None \notin Instants
    BY RateAssumption DEF Instants
  <2> HIDE DEF InForce
  <2> QED BY <1>1, <2>3, <2>4, <2>5
<1> QED BY <1>2, <1>3

(* A reserve that has a connection knows nothing yet.                      *)
LEMMA ConnectKeeps ==
  ASSUME RateIInv, NEW h \in Handlers, Connect(h)
  PROVE  RateIInv'
<1>1. /\ stage' = [stage EXCEPT ![h] = "connected"] /\ stage \in [Handlers -> Stages]
      /\ UNCHANGED <<clock, rates, cache, asOf, calledAt, cached, found>>
  BY DEF Connect, Move, RateIInv, RateTypeOK
<1>2. stage' \in [Handlers -> Stages] /\ stage'[h] = "connected"
      /\ \A g \in Handlers \ {h} : stage'[g] = stage[g]
  BY <1>1 DEF Stages
<1>3. RateTypeOK' /\ \A r \in rates' : r.published <= clock'
  BY <1>1, <1>2 DEF RateIInv, RateTypeOK
<1>4. LookupsAreTimely' /\ FindsNewest'
  BY <1>1, <1>2 DEF RateIInv, LookupsAreTimely, FindsNewest, AsNewAs
<1>5. EntryIsNewest'
  BY <1>1 DEF RateIInv, EntryIsNewest, AsNewAs
<1>6. NoRateFromTheFuture' /\ NoRateIsStale'
  BY <1>1, <1>2 DEF RateIInv, NoRateFromTheFuture, NoRateIsStale
<1> QED BY <1>3, <1>4, <1>5, <1>6 DEF RateIInv

(* The instant a reserve is dated is that of its lock.                     *)
LEMMA LockProgramKeeps ==
  ASSUME RateIInv, NEW h \in Handlers, LockProgram(h)
  PROVE  RateIInv'
<1>1. /\ stage' = [stage EXCEPT ![h] = "locked"] /\ stage \in [Handlers -> Stages]
      /\ asOf' = [asOf EXCEPT ![h] = clock] /\ asOf \in [Handlers -> Instants]
      /\ clock \in Instants
      /\ UNCHANGED <<clock, rates, cache, calledAt, cached, found>>
  BY DEF LockProgram, Move, RateIInv, RateTypeOK
<1>2. /\ stage' \in [Handlers -> Stages] /\ stage'[h] = "locked"
      /\ asOf' \in [Handlers -> Instants] /\ asOf'[h] = clock
      /\ \A g \in Handlers \ {h} : stage'[g] = stage[g] /\ asOf'[g] = asOf[g]
  BY <1>1 DEF Stages
<1>3. RateTypeOK' /\ \A r \in rates' : r.published <= clock'
  BY <1>1, <1>2 DEF RateIInv, RateTypeOK
<1>4. LookupsAreTimely'
  BY <1>1, <1>2, RateAssumption DEF RateIInv, LookupsAreTimely, Instants
<1>5. FindsNewest'
  BY <1>1, <1>2 DEF RateIInv, FindsNewest, AsNewAs
<1>6. EntryIsNewest'
  BY <1>1 DEF RateIInv, EntryIsNewest, AsNewAs
<1>7. NoRateFromTheFuture' /\ NoRateIsStale'
  BY <1>1, <1>2 DEF RateIInv, NoRateFromTheFuture, NoRateIsStale
<1> QED BY <1>3, <1>4, <1>5, <1>6, <1>7 DEF RateIInv

(* An entry that serves a lookup is in force, and as new as its time to    *)
(* live requires.                                                          *)
LEMMA RateForKeeps ==
  ASSUME RateIInv, NEW h \in Handlers, RateFor(h)
  PROVE  RateIInv'
<1>1. /\ stage[h] = "locked" /\ stage \in [Handlers -> Stages]
      /\ calledAt' = [calledAt EXCEPT ![h] = clock] /\ calledAt \in [Handlers -> Instants]
      /\ cached' = [cached EXCEPT ![h] = cache]
      /\ clock \in Instants /\ asOf[h] \in Instants
      /\ UNCHANGED <<clock, rates, cache, asOf>>
  BY DEF RateFor, RateIInv, RateTypeOK
<1>2. /\ calledAt' \in [Handlers -> Instants] /\ calledAt'[h] = clock
      /\ \A g \in Handlers \ {h} : calledAt'[g] = calledAt[g]
      /\ cached' \in [Handlers -> Entries \cup {None}]
  BY <1>1 DEF RateIInv, RateTypeOK
<1>3. clock <= asOf[h] + MaxDelay
  BY <1>1 DEF RateIInv, LookupsAreTimely
<1>4. PICK next \in {"missed", "quoted"} : stage' = [stage EXCEPT ![h] = next]
  BY DEF RateFor, Move
<1>5. /\ stage' \in [Handlers -> Stages] /\ stage'[h] = next
      /\ \A g \in Handlers \ {h} : stage'[g] = stage[g]
  BY <1>1, <1>4 DEF Stages
<1>6. \A g \in Handlers \ {h} : found'[g] = found[g]
  BY DEF RateFor, RateIInv, RateTypeOK
<1>7. found' \in [Handlers -> Instants \cup {None}]
  <2>1. Serves(cache, asOf[h]) => cache.effective \in Instants
    BY DEF Serves, RateIInv, RateTypeOK, Entries
  <2>2. found' = found
        \/ (cache.effective \in Instants /\ found' = [found EXCEPT ![h] = cache.effective])
    BY <2>1 DEF RateFor
  <2> QED BY <2>2 DEF RateIInv, RateTypeOK
<1>8. next = "quoted" =>
        /\ found'[h] = cache.effective /\ cache.effective <= asOf[h]
        /\ cache \in Entries /\ cache.expiresAt > clock
        /\ AsNewAs(cache.effective, cache.expiresAt - Ttl, cache.expiresAt - Ttl - MaxDelay)
  <2> SUFFICES ASSUME next = "quoted"
               PROVE  /\ found'[h] = cache.effective /\ cache.effective <= asOf[h]
                      /\ cache \in Entries /\ cache.expiresAt > clock
                      /\ AsNewAs(cache.effective, cache.expiresAt - Ttl,
                                 cache.expiresAt - Ttl - MaxDelay)
    OBVIOUS
  <2>1. Serves(cache, asOf[h]) /\ found' = [found EXCEPT ![h] = cache.effective]
    BY <1>4, <1>5 DEF RateFor, Move
  <2>2. cache # None /\ cache \in Entries /\ cache.expiresAt > clock
    BY <2>1 DEF Serves, RateIInv, RateTypeOK
  <2>3. cache.effective <= asOf[h]
    BY <1>1, <2>1, <2>2 DEF Serves, Entries, Instants
  <2>4. AsNewAs(cache.effective, cache.expiresAt - Ttl, cache.expiresAt - Ttl - MaxDelay)
    BY <2>2 DEF RateIInv, EntryIsNewest
  <2>5. found'[h] = cache.effective
    BY <2>1 DEF RateIInv, RateTypeOK
  <2> QED BY <2>2, <2>3, <2>4, <2>5
<1>9. RateTypeOK' /\ \A r \in rates' : r.published <= clock'
  BY <1>1, <1>2, <1>5, <1>7 DEF RateIInv, RateTypeOK
<1>10. LookupsAreTimely'
  BY <1>1, <1>2, <1>3, <1>5, RateAssumption DEF RateIInv, LookupsAreTimely, Instants
<1>11. FindsNewest'
  BY <1>1, <1>2, <1>5, <1>6 DEF RateIInv, FindsNewest, AsNewAs
<1>12. EntryIsNewest'
  BY <1>1 DEF RateIInv, EntryIsNewest, AsNewAs
<1>13. NoRateFromTheFuture'
  BY <1>1, <1>5, <1>6, <1>8 DEF RateIInv, NoRateFromTheFuture
<1>14. NoRateIsStale'
  <2> SUFFICES ASSUME NEW g \in Handlers, NEW r \in rates, stage'[g] = "quoted",
                      r.published <= calledAt'[g] - Ttl,
                      r.effective <= calledAt'[g] - Ttl - MaxDelay
               PROVE  found'[g] # None /\ r.effective <= found'[g]
    BY <1>1 DEF NoRateIsStale
  <2>1. CASE g # h
    BY <1>2, <1>5, <1>6, <2>1 DEF RateIInv, NoRateIsStale
  <2>2. CASE g = h
    <3>1. next = "quoted" /\ calledAt'[g] = clock
      BY <1>2, <1>5, <2>2
    <3>2. /\ r.published \in Int /\ r.effective \in Int /\ clock \in Int
          /\ cache.expiresAt \in Int /\ Ttl \in Int /\ MaxDelay \in Int
      BY <1>1, <1>8, <3>1, RateAssumption DEF RateIInv, RateTypeOK, Entries, Instants
    <3>3. /\ r.published < cache.expiresAt - Ttl
          /\ r.effective <= cache.expiresAt - Ttl - MaxDelay
      BY <1>8, <3>1, <3>2
    <3> QED BY <1>8, <2>2, <3>1, <3>3 DEF AsNewAs
  <2> QED BY <2>1, <2>2
<1> QED BY <1>9, <1>10, <1>11, <1>12, <1>13, <1>14 DEF RateIInv

(* The query sees all that was published before it was asked for.          *)
LEMMA QueryRatesKeeps ==
  ASSUME RateIInv, NEW h \in Handlers, QueryRates(h)
  PROVE  RateIInv'
<1>1. /\ stage[h] = "missed"
      /\ stage' = [stage EXCEPT ![h] = "fetching"] /\ stage \in [Handlers -> Stages]
      /\ found' = [found EXCEPT ![h] = NewestAsOf(asOf[h])] /\ asOf[h] \in Instants
      /\ UNCHANGED <<clock, rates, cache, asOf, calledAt, cached>>
  BY DEF QueryRates, Move, RateIInv, RateTypeOK
<1>2. /\ NewestAsOf(asOf[h]) \in Instants \cup {None}
      /\ NewestAsOf(asOf[h]) # None => NewestAsOf(asOf[h]) <= asOf[h]
      /\ \A r \in rates : r.effective <= asOf[h] =>
           NewestAsOf(asOf[h]) # None /\ r.effective <= NewestAsOf(asOf[h])
  BY <1>1, NewestIsNewest
<1> HIDE DEF NewestAsOf
<1>3. /\ stage' \in [Handlers -> Stages] /\ stage'[h] = "fetching"
      /\ \A g \in Handlers \ {h} : stage'[g] = stage[g]
  BY <1>1 DEF Stages
<1>4. /\ found' \in [Handlers -> Instants \cup {None}] /\ found'[h] = NewestAsOf(asOf[h])
      /\ \A g \in Handlers \ {h} : found'[g] = found[g]
  BY <1>1, <1>2 DEF RateIInv, RateTypeOK
<1>5. RateTypeOK' /\ \A r \in rates' : r.published <= clock'
  BY <1>1, <1>3, <1>4 DEF RateIInv, RateTypeOK
<1>6. LookupsAreTimely'
  BY <1>1, <1>3 DEF RateIInv, LookupsAreTimely
<1>7. FindsNewest'
  BY <1>1, <1>2, <1>3, <1>4 DEF RateIInv, FindsNewest, AsNewAs
<1>8. EntryIsNewest'
  BY <1>1 DEF RateIInv, EntryIsNewest, AsNewAs
<1>9. NoRateFromTheFuture' /\ NoRateIsStale'
  BY <1>1, <1>3, <1>4 DEF RateIInv, NoRateFromTheFuture, NoRateIsStale
<1> QED BY <1>5, <1>6, <1>7, <1>8, <1>9 DEF RateIInv

(* Whatever entry an answer replaces, it is as new as its own expiry       *)
(* requires: that is why the race of two lookups costs no freshness beyond *)
(* the time to live.                                                       *)
LEMMA StoreRateKeeps ==
  ASSUME RateIInv, NEW h \in Handlers, StoreRate(h)
  PROVE  RateIInv'
<1>1. /\ stage[h] = "fetching"
      /\ stage' = [stage EXCEPT ![h] = "quoted"] /\ stage \in [Handlers -> Stages]
      /\ cached' = [cached EXCEPT ![h] = None]
      /\ UNCHANGED <<clock, rates, asOf, calledAt, found>>
  BY DEF StoreRate, Move, RateIInv, RateTypeOK
<1>2. /\ stage' \in [Handlers -> Stages] /\ stage'[h] = "quoted"
      /\ \A g \in Handlers \ {h} : stage'[g] = stage[g]
      /\ cached' \in [Handlers -> Entries \cup {None}]
  BY <1>1 DEF Stages, RateIInv, RateTypeOK
<1>3. /\ found[h] \in Instants \cup {None} /\ calledAt[h] \in Instants /\ asOf[h] \in Instants
      /\ found[h] # None => found[h] <= asOf[h]
      /\ AsNewAs(found[h], calledAt[h], asOf[h])
      /\ calledAt[h] <= clock /\ calledAt[h] <= asOf[h] + MaxDelay
      /\ clock \in Instants /\ Ttl \in Nat \ {0} /\ MaxDelay \in Nat
      /\ rates \subseteq [effective : Instants, published : Instants]
  BY <1>1, RateAssumption DEF RateIInv, RateTypeOK, FindsNewest, LookupsAreTimely
<1>4. cache' = cache
      \/ (found[h] # None /\ cache' = [effective |-> found[h], expiresAt |-> calledAt[h] + Ttl])
  BY DEF StoreRate
<1>5. cache' \in Entries \cup {None}
  BY <1>3, <1>4 DEF RateIInv, RateTypeOK, Entries, Instants
<1>6. RateTypeOK' /\ \A r \in rates' : r.published <= clock'
  BY <1>1, <1>2, <1>5 DEF RateIInv, RateTypeOK
<1>7. LookupsAreTimely' /\ FindsNewest'
  BY <1>1, <1>2 DEF RateIInv, LookupsAreTimely, FindsNewest, AsNewAs
<1>8. EntryIsNewest'
  <2>1. CASE cache' = cache
    BY <1>1, <2>1 DEF RateIInv, EntryIsNewest, AsNewAs
  <2>2. CASE found[h] # None /\ cache' = [effective |-> found[h], expiresAt |-> calledAt[h] + Ttl]
    <3>1. cache'.effective = found[h] /\ cache'.expiresAt - Ttl = calledAt[h]
      BY <1>3, <2>2 DEF Instants
    <3>2. \A r \in rates :
            r.published < calledAt[h] /\ r.effective <= calledAt[h] - MaxDelay =>
              found[h] # None /\ r.effective <= found[h]
      BY <1>3 DEF AsNewAs, Instants
    <3> QED BY <1>1, <1>3, <3>1, <3>2 DEF EntryIsNewest, AsNewAs
  <2> QED BY <1>4, <2>1, <2>2
<1>9. NoRateFromTheFuture'
  BY <1>1, <1>2, <1>3 DEF RateIInv, NoRateFromTheFuture
<1>10. NoRateIsStale'
  <2>1. \A r \in rates :
          r.published <= calledAt[h] - Ttl /\ r.effective <= calledAt[h] - Ttl - MaxDelay =>
            found[h] # None /\ r.effective <= found[h]
    BY <1>3 DEF AsNewAs, Instants
  <2> QED BY <1>1, <1>2, <2>1 DEF RateIInv, NoRateIsStale
<1> QED BY <1>6, <1>7, <1>8, <1>9, <1>10 DEF RateIInv

(* A reserve that has ended claims nothing.                                *)
LEMMA EndReserveKeeps ==
  ASSUME RateIInv, NEW h \in Handlers, EndReserve(h)
  PROVE  RateIInv'
<1>1. /\ stage' = [stage EXCEPT ![h] = "done"] /\ stage \in [Handlers -> Stages]
      /\ asOf' = [asOf EXCEPT ![h] = 0] /\ calledAt' = [calledAt EXCEPT ![h] = 0]
      /\ cached' = [cached EXCEPT ![h] = None] /\ found' = [found EXCEPT ![h] = None]
      /\ UNCHANGED <<clock, rates, cache>>
      /\ 0 \in Instants
  BY RateAssumption DEF EndReserve, Move, RateIInv, RateTypeOK, Instants
<1>2. /\ stage' \in [Handlers -> Stages] /\ stage'[h] = "done"
      /\ \A g \in Handlers \ {h} :
           stage'[g] = stage[g] /\ asOf'[g] = asOf[g] /\ calledAt'[g] = calledAt[g]
             /\ found'[g] = found[g]
  BY <1>1 DEF Stages, RateIInv, RateTypeOK
<1>3. RateTypeOK' /\ \A r \in rates' : r.published <= clock'
  BY <1>1, <1>2 DEF RateIInv, RateTypeOK
<1>4. LookupsAreTimely' /\ FindsNewest'
  BY <1>1, <1>2 DEF RateIInv, LookupsAreTimely, FindsNewest, AsNewAs
<1>5. EntryIsNewest'
  BY <1>1 DEF RateIInv, EntryIsNewest, AsNewAs
<1>6. NoRateFromTheFuture' /\ NoRateIsStale'
  BY <1>1, <1>2 DEF RateIInv, NoRateFromTheFuture, NoRateIsStale
<1> QED BY <1>3, <1>4, <1>5, <1>6 DEF RateIInv

(* A rate published now was not there before now.                          *)
LEMMA PublishRateKeeps ==
  ASSUME RateIInv, PublishRate
  PROVE  RateIInv'
<1>1. PICK e \in Corrections : rates' = rates \cup {[effective |-> e, published |-> clock]}
  BY DEF PublishRate
<1> DEFINE fresh == [effective |-> e, published |-> clock]
<1>2. /\ e \in Instants /\ clock \in Instants /\ Ttl \in Nat \ {0} /\ MaxDelay \in Nat
      /\ fresh \in [effective : Instants, published : Instants] /\ fresh.published = clock
  BY RateAssumption DEF RateIInv, RateTypeOK
<1> HIDE DEF fresh
<1>3. rates' = rates \cup {fresh}
  BY <1>1 DEF fresh
<1>4. UNCHANGED <<clock, cache, stage, asOf, calledAt, cached, found>>
  BY DEF PublishRate
<1>5. RateTypeOK' /\ \A r \in rates' : r.published <= clock'
  BY <1>2, <1>3, <1>4 DEF RateIInv, RateTypeOK, Instants
<1>6. LookupsAreTimely' /\ NoRateFromTheFuture'
  BY <1>4 DEF RateIInv, LookupsAreTimely, NoRateFromTheFuture
<1>7. FindsNewest'
  <2> SUFFICES ASSUME NEW g \in Handlers, stage[g] = "fetching"
               PROVE  AsNewAs(found[g], calledAt[g], asOf[g])'
    BY <1>4 DEF RateIInv, FindsNewest
  <2>1. calledAt[g] <= clock /\ calledAt[g] \in Instants
    BY DEF RateIInv, LookupsAreTimely, RateTypeOK
  <2>2. ~(fresh.published < calledAt[g])
    BY <1>2, <2>1 DEF Instants
  <2> QED BY <1>3, <1>4, <2>2 DEF RateIInv, FindsNewest, AsNewAs
<1>8. EntryIsNewest'
  <2> SUFFICES ASSUME cache # None
               PROVE  /\ cache.expiresAt - Ttl <= clock
                      /\ AsNewAs(cache.effective, cache.expiresAt - Ttl,
                                 cache.expiresAt - Ttl - MaxDelay)'
    BY <1>4 DEF EntryIsNewest
  <2>1. /\ cache.expiresAt - Ttl <= clock /\ cache.expiresAt \in Nat
        /\ AsNewAs(cache.effective, cache.expiresAt - Ttl, cache.expiresAt - Ttl - MaxDelay)
    BY DEF RateIInv, EntryIsNewest, RateTypeOK, Entries
  <2>2. ~(fresh.published < cache.expiresAt - Ttl)
    BY <1>2, <2>1 DEF Instants
  <2> QED BY <1>3, <1>4, <2>1, <2>2 DEF AsNewAs
<1>9. NoRateIsStale'
  <2> SUFFICES ASSUME NEW g \in Handlers, stage[g] = "quoted"
               PROVE  ~(fresh.published <= calledAt[g] - Ttl)
    BY <1>3, <1>4 DEF RateIInv, NoRateIsStale
  <2>1. calledAt[g] <= clock /\ calledAt[g] \in Instants
    BY DEF RateIInv, LookupsAreTimely, RateTypeOK
  <2> QED BY <1>2, <2>1 DEF Instants
<1> QED BY <1>5, <1>6, <1>7, <1>8, <1>9 DEF RateIInv

(* Time passes; a handler about to look its rate up does so in time.       *)
LEMMA TickKeeps ==
  ASSUME RateIInv, Tick
  PROVE  RateIInv'
<1>1. /\ clock \in Instants /\ clock' = clock + 1 /\ clock < Horizon
      /\ UNCHANGED <<rates, cache, stage, asOf, calledAt, cached, found>>
      /\ MaxDelay \in Nat /\ Ttl \in Nat /\ Horizon \in Nat
  BY RateAssumption DEF Tick, RateIInv, RateTypeOK
<1>2. RateTypeOK'
  BY <1>1 DEF RateIInv, RateTypeOK, Instants
<1>3. \A r \in rates' : r.published <= clock'
  BY <1>1 DEF RateIInv, RateTypeOK, Instants
<1>4. LookupsAreTimely'
  <2> SUFFICES ASSUME NEW h \in Handlers
               PROVE  /\ stage[h] = "locked" =>
                           asOf[h] <= clock + 1 /\ clock + 1 <= asOf[h] + MaxDelay
                      /\ stage[h] \in {"missed", "fetching", "quoted"} =>
                           calledAt[h] <= clock + 1 /\ calledAt[h] <= asOf[h] + MaxDelay
    BY <1>1 DEF LookupsAreTimely
  <2>1. asOf[h] \in Instants /\ calledAt[h] \in Instants
    BY DEF RateIInv, RateTypeOK
  <2>2. stage[h] = "locked" => asOf[h] <= clock /\ clock < asOf[h] + MaxDelay
    BY DEF Tick, RateIInv, LookupsAreTimely
  <2>3. stage[h] \in {"missed", "fetching", "quoted"} =>
          calledAt[h] <= clock /\ calledAt[h] <= asOf[h] + MaxDelay
    BY DEF RateIInv, LookupsAreTimely
  <2> QED BY <1>1, <2>1, <2>2, <2>3 DEF Instants
<1>5. EntryIsNewest'
  BY <1>1 DEF RateIInv, EntryIsNewest, AsNewAs, RateTypeOK, Entries, Instants
<1>6. FindsNewest' /\ NoRateFromTheFuture' /\ NoRateIsStale'
  BY <1>1 DEF RateIInv, FindsNewest, AsNewAs, NoRateFromTheFuture, NoRateIsStale
<1> QED BY <1>2, <1>3, <1>4, <1>5, <1>6 DEF RateIInv

(* Every step keeps the invariant.                                         *)
LEMMA RateNextKeeps == RateIInv /\ [RateNext]_rateVars => RateIInv'
<1> SUFFICES ASSUME RateIInv, [RateNext]_rateVars PROVE RateIInv'
  OBVIOUS
<1>1. CASE UNCHANGED rateVars
  BY <1>1
     DEF rateVars, RateIInv, RateTypeOK, LookupsAreTimely, EntryIsNewest, FindsNewest, AsNewAs,
         NoRateFromTheFuture, NoRateIsStale
<1>2. CASE PublishRate
  BY <1>2, PublishRateKeeps
<1>3. CASE Tick
  BY <1>3, TickKeeps
<1>4. ASSUME NEW h \in Handlers, HandlerStep(h)
      PROVE  RateIInv'
  BY <1>4, ConnectKeeps, LockProgramKeeps, RateForKeeps, QueryRatesKeeps, StoreRateKeeps,
     EndReserveKeeps
     DEF HandlerStep
<1> QED BY <1>1, <1>2, <1>3, <1>4 DEF RateNext

(* Everything the reserves of a process ever do keeps the invariant.       *)
THEOREM RateInvariance == RateSpec => []RateIInv
BY RateInitKeeps, RateNextKeeps, PTL DEF RateSpec

(* No reserve is converted at a rate that takes effect after it, however   *)
(* the lookups of other reserves have filled the cache.                    *)
THEOREM RatesAreInForce == RateSpec => []NoRateFromTheFuture
<1>1. RateIInv => NoRateFromTheFuture
  BY DEF RateIInv
<1> QED BY <1>1, RateInvariance, PTL

(* No reserve misses a rate for longer than the time to live and the delay *)
(* of a lookup, although an older rate may replace a newer one.            *)
THEOREM StalenessIsBounded == RateSpec => []NoRateIsStale
<1>1. RateIInv => NoRateIsStale
  BY DEF RateIInv
<1> QED BY <1>1, RateInvariance, PTL
=============================================================================
