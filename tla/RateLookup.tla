------------------------------- MODULE RateLookup -------------------------------
(***************************************************************************)
(* Reserves of one process that look up an exchange rate while they hold   *)
(* the program lock (reserve.service.ts, cached-rate.provider.ts): the     *)
(* rate cache, which is read before a query and written after it, and the  *)
(* connection pool, of which such a reserve takes two. One currency pair;  *)
(* a rate is the instant it takes effect at, the key of its row.           *)
(***************************************************************************)
EXTENDS Integers, FiniteSets

CONSTANTS
  None,
  Handlers,     \* concurrent reserves
  Programs, ProgramOf,  \* [Handlers -> Programs]
  Foreign,      \* the handlers whose invoice is in another currency
  PoolSize,     \* connections of the pool
  Ttl,          \* CACHE_TTL_MS
  Corrections,  \* instants at which rates yet to be published take effect
  MaxDelay,     \* bound: from new Date() to the lookup
  Horizon       \* bound: the last instant

Instants == 0..Horizon

ASSUME RateAssumption ==
  /\ ProgramOf \in [Handlers -> Programs] /\ Foreign \subseteq Handlers
  /\ IsFiniteSet(Handlers)
  /\ PoolSize \in Nat /\ Ttl \in Nat \ {0} /\ MaxDelay \in Nat /\ Horizon \in Nat
  /\ Corrections \subseteq Instants \ {0}
  /\ None \notin Int

VARIABLES
  clock,
  rates,   \* fx_rate: the rows' effective_at, and when each was published
  cache,   \* the entry [effective, expiresAt] of the pair, or None
  stage,   \* [Handlers -> Stages]
  asOf,    \* [Handlers -> the handler's now]
  calledAt,  \* [Handlers -> when rateFor was called]
  cached,  \* [Handlers -> the entry rateFor read before its query, or None]
  found    \* [Handlers -> the rate the query or the cache answered, or None]

rateVars == <<clock, rates, cache, stage, asOf, calledAt, cached, found>>

Stages == {"waiting", "connected", "locked", "missed", "fetching", "quoted", "done"}

RateInit ==
  /\ clock = 0
  /\ rates = {[effective |-> 0, published |-> 0]}
  /\ cache = None
  /\ stage = [h \in Handlers |-> "waiting"]
  /\ asOf = [h \in Handlers |-> 0] /\ calledAt = [h \in Handlers |-> 0]
  /\ cached = [h \in Handlers |-> None] /\ found = [h \in Handlers |-> None]

-------------------------------------------------------------------------------
(* A transaction holds one connection, a rate query another.               *)
InUse ==
  Cardinality({h \in Handlers : stage[h] \notin {"waiting", "done"}})
    + Cardinality({h \in Handlers : stage[h] = "fetching"})

ConnectionFree == InUse < PoolSize

Move(h, next) == stage' = [stage EXCEPT ![h] = next]

Connect(h) ==
  /\ stage[h] = "waiting" /\ ConnectionFree
  /\ Move(h, "connected")
  /\ UNCHANGED <<clock, rates, cache, asOf, calledAt, cached, found>>

(* mutant: a lock of the session, which the pooled connection keeps        *)
LockFreeForSession(p) ==
  \A g \in Handlers : ProgramOf[g] = p => stage[g] \in {"waiting", "connected"}

LockFree(p) ==
  \A g \in Handlers :
    ProgramOf[g] = p => stage[g] \in {"waiting", "connected", "done"}

LockProgram(h) ==
  /\ stage[h] = "connected" /\ LockFree(ProgramOf[h])
  /\ Move(h, "locked")
  /\ asOf' = [asOf EXCEPT ![h] = clock]
  /\ UNCHANGED <<clock, rates, cache, calledAt, cached, found>>

(* mutant: an entry serves every lookup until it expires                   *)
ServesAnyone(entry, instant) == entry # None /\ entry.expiresAt > clock

(* An entry serves a lookup it is in force for, until it expires.          *)
Serves(entry, instant) ==
  /\ entry # None
  /\ entry.expiresAt > clock
  /\ instant >= entry.effective

RateFor(h) ==
  /\ stage[h] = "locked" /\ h \in Foreign
  /\ calledAt' = [calledAt EXCEPT ![h] = clock]
  /\ cached' = [cached EXCEPT ![h] = cache]
  /\ IF Serves(cache, asOf[h])
     THEN found' = [found EXCEPT ![h] = cache.effective] /\ Move(h, "quoted")
     ELSE UNCHANGED found /\ Move(h, "missed")
  /\ UNCHANGED <<clock, rates, cache, asOf>>

(* The newest rate in force at the instant, as the query's snapshot has it. *)
NewestAsOf(instant) ==
  LET InForce == {r.effective : r \in {q \in rates : q.effective <= instant}}
  IN  IF InForce = {} THEN None ELSE CHOOSE e \in InForce : \A f \in InForce : f <= e

QueryRates(h) ==
  /\ stage[h] = "missed" /\ ConnectionFree
  /\ found' = [found EXCEPT ![h] = NewestAsOf(asOf[h])]
  /\ Move(h, "fetching")
  /\ UNCHANGED <<clock, rates, cache, asOf, calledAt, cached>>

(* mutant: the time to live runs from the answer, not from the call        *)
StoreRateFromNow(h) ==
  /\ stage[h] = "fetching"
  /\ cache' = IF found[h] # None /\ (cached[h] = None \/ found[h] >= cached[h].effective)
              THEN [effective |-> found[h], expiresAt |-> clock + Ttl]
              ELSE cache
  /\ cached' = [cached EXCEPT ![h] = None]
  /\ Move(h, "quoted")
  /\ UNCHANGED <<clock, rates, asOf, calledAt, found>>

(* The answer arrives: it is compared with the entry read before the query. *)
StoreRate(h) ==
  /\ stage[h] = "fetching"
  /\ cache' = IF found[h] # None /\ (cached[h] = None \/ found[h] >= cached[h].effective)
              THEN [effective |-> found[h], expiresAt |-> calledAt[h] + Ttl]
              ELSE cache
  /\ cached' = [cached EXCEPT ![h] = None]
  /\ Move(h, "quoted")
  /\ UNCHANGED <<clock, rates, asOf, calledAt, found>>

(* The transaction commits or rolls back; the handler's locals are gone.   *)
EndReserve(h) ==
  /\ stage[h] = "quoted" \/ (stage[h] = "locked" /\ h \notin Foreign)
  /\ Move(h, "done")
  /\ asOf' = [asOf EXCEPT ![h] = 0] /\ calledAt' = [calledAt EXCEPT ![h] = 0]
  /\ cached' = [cached EXCEPT ![h] = None] /\ found' = [found EXCEPT ![h] = None]
  /\ UNCHANGED <<clock, rates, cache>>

-------------------------------------------------------------------------------
(* A rate is published, for any instant that has none yet.                 *)
PublishRate ==
  /\ \E e \in Corrections :
       /\ \A r \in rates : r.effective # e
       /\ rates' = rates \cup {[effective |-> e, published |-> clock]}
  /\ UNCHANGED <<clock, cache, stage, asOf, calledAt, cached, found>>

Tick ==
  /\ clock < Horizon
  /\ \A h \in Handlers : stage[h] = "locked" => clock < asOf[h] + MaxDelay
  /\ clock' = clock + 1
  /\ UNCHANGED <<rates, cache, stage, asOf, calledAt, cached, found>>

HandlerStep(h) ==
  Connect(h) \/ LockProgram(h) \/ RateFor(h) \/ QueryRates(h) \/ StoreRate(h) \/ EndReserve(h)

RateNext == PublishRate \/ Tick \/ \E h \in Handlers : HandlerStep(h)

RateSpec == RateInit /\ [][RateNext]_rateVars

(* Nothing stops a handler that may go on.                                 *)
FairRateSpec == RateSpec /\ \A h \in Handlers : WF_rateVars(HandlerStep(h))

-------------------------------------------------------------------------------
(* A reserve never converts at a rate that takes effect after the instant  *)
(* it is dated, whoever has filled the cache in the meantime.              *)
NoRateFromTheFuture ==
  \A h \in Handlers : stage[h] = "quoted" /\ found[h] # None => found[h] <= asOf[h]

(* A published rate is missed for no longer than the cache's time to live, *)
(* and the delay of the lookup that filled it: not by a slow query, nor by *)
(* a slower one that overwrites the entry of a faster one.                 *)
NoRateIsStale ==
  \A h \in Handlers, r \in rates :
    /\ stage[h] = "quoted"
    /\ r.published <= calledAt[h] - Ttl
    /\ r.effective <= calledAt[h] - Ttl - MaxDelay
    => found[h] # None /\ r.effective <= found[h]

(* SC-003a: no reserve fails, or hangs, for contention alone.              *)
EveryReserveEnds == \A h \in Handlers : (stage[h] = "connected") ~> (stage[h] = "done")
=============================================================================
