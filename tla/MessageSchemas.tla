----------------------------- MODULE MessageSchemas -----------------------------
(***************************************************************************)
(* From the value of a Kafka record to a treasury message: the parsers     *)
(* capacity-event.schema.ts and reconciliation-snapshot.schema.ts. What    *)
(* they refuse is quarantined as SCHEMA_INVALID, whichever check it fails. *)
(*                                                                         *)
(* A JSON value is [type, is]. An object is a function of its keys, an     *)
(* array a sequence, and a string is what it denotes: the number of        *)
(* ^-?[0-9]{1,19}$, the instant of a date-time, or itself. A value that is *)
(* no JSON object is any value of another type.                            *)
(*                                                                         *)
(* An accepted message is                                                  *)
(*   [kind |-> "EVENT", id, program, currency, version, type, amount,      *)
(*    reference, topic, offset]  or                                        *)
(*   [kind |-> "SNAPSHOT", id, program, currency, version, effectiveAt,    *)
(*    limit, reserved, marker, topic, offset]                              *)
(* where marker is None or [kind, references, through].                    *)
(***************************************************************************)
EXTENDS CapacityStore

CONSTANTS
  Records,            \* [topic, offset, value] of the records on the topics
  Uuids,              \* strings that are UUIDs
  Currencies,         \* strings of three capitals
  ShortTexts,         \* strings of at most 128 characters
  TreasuryReferences, \* strings treasury files our bookings under
  MaxReferences,      \* MAX_RESERVATION_REFERENCES
  MaxSafeInteger      \* Number.MAX_SAFE_INTEGER

ASSUME RecordsAssumption == \A r \in Records : r.topic \in Topics /\ r.offset \in Nat

Text(x) == [type |-> "string", is |-> x]
Number(n) == [type |-> "number", is |-> n]
List(items) == [type |-> "array", is |-> items]
Object(fields) == [type |-> "object", is |-> fields]
Null == [type |-> "null", is |-> None]

-------------------------------------------------------------------------------
(* What both parsers check.                                                *)

(* A string of the language, such as those a pattern matches.              *)
IsText(v, language) == v.type = "string" /\ v.is \in language

(* An object with the required keys and no unexpected ones.                *)
IsObjectOf(v, required, optional) ==
  /\ v.type = "object"
  /\ required \subseteq DOMAIN v.is
  /\ DOMAIN v.is \subseteq required \cup optional

(* A field that is absent or null.                                         *)
Lacks(object, key) == key \notin DOMAIN object \/ object[key].type = "null"

(* The version of an event has no upper bound; see IsSnapshot, and         *)
(* InspectEvent for what becomes of it.                                    *)
IsEnvelope(object) ==
  /\ IsText(object["messageId"], MessageIds)
  /\ IsText(object["programId"], Uuids)
  /\ object["version"].type = "number" /\ object["version"].is \in Nat
  /\ IsText(object["effectiveAt"], Nat)
  /\ Lacks(object, "correlationId") \/ IsText(object["correlationId"], ShortTexts)

EnvelopeKeys == {"messageId", "programId", "version", "effectiveAt"}

-------------------------------------------------------------------------------
(* parseCapacityEvent                                                      *)

EventTypes == {"LIMIT_CHANGED", "RESERVATION_BOOKED", "RESERVATION_RELEASED"}

(* 19 digits hold more than a BIGINT, so the range is checked as well.     *)
IsPayload(v) ==
  /\ IsObjectOf(v, {"amountMinor", "currency"}, {"reservationReference"})
  /\ IsText(v.is["amountMinor"], Bigint)
  /\ IsText(v.is["currency"], Currencies)
  /\ \/ Lacks(v.is, "reservationReference")
     \/ IsText(v.is["reservationReference"], TreasuryReferences)

IsEvent(v) ==
  /\ IsObjectOf(v, EnvelopeKeys \cup {"type", "payload"}, {"correlationId"})
  /\ IsEnvelope(v.is)
  /\ IsText(v.is["type"], EventTypes)
  /\ IsPayload(v.is["payload"])

ParsedEvent(record) ==
  LET event   == record.value.is
      payload == event["payload"].is
  IN  [kind |-> "EVENT", id |-> event["messageId"].is, program |-> event["programId"].is,
       version |-> event["version"].is, type |-> event["type"].is,
       amount |-> payload["amountMinor"].is, currency |-> payload["currency"].is,
       reference |-> IF Lacks(payload, "reservationReference") THEN None
                     ELSE payload["reservationReference"].is,
       topic |-> record.topic, offset |-> record.offset]

-------------------------------------------------------------------------------
(* parseReconciliationSnapshot                                             *)

IsMinor(v) == IsText(v, 0..MaxMinor)

IsExplicit(v) ==
  /\ IsObjectOf(v, {"kind", "reservationIds"}, {})
  /\ IsText(v.is["kind"], {"EXPLICIT"})
  /\ v.is["reservationIds"].type = "array"
  /\ Len(v.is["reservationIds"].is) <= MaxReferences
  /\ \A n \in DOMAIN v.is["reservationIds"].is :
       IsText(v.is["reservationIds"].is[n], TreasuryReferences \cap ShortTexts)

IsWatermark(v) ==
  /\ IsObjectOf(v, {"kind", "ingestedThrough"}, {})
  /\ IsText(v.is["kind"], {"WATERMARK"})
  /\ IsText(v.is["ingestedThrough"], Nat)

IsSnapshot(v) ==
  /\ IsObjectOf(v, EnvelopeKeys \cup {"currency", "creditLimitMinor", "reservedMinor"},
                {"correlationId", "acknowledgement"})
  /\ IsEnvelope(v.is)
  /\ v.is["version"].is <= MaxSafeInteger
  /\ IsText(v.is["currency"], Currencies)
  /\ IsMinor(v.is["creditLimitMinor"])
  /\ IsMinor(v.is["reservedMinor"])
  /\ \/ Lacks(v.is, "acknowledgement")
     \/ IsExplicit(v.is["acknowledgement"])
     \/ IsWatermark(v.is["acknowledgement"])

(* A snapshot without a marker passes; the handler quarantines it, but     *)
(* only when it is neither known nor stale.                                *)
ParsedMarker(snapshot) ==
  IF Lacks(snapshot, "acknowledgement") THEN None
  ELSE LET marker == snapshot["acknowledgement"].is
       IN  IF marker["kind"].is = "EXPLICIT"
           THEN [kind |-> "EXPLICIT", through |-> None,
                 references |-> [n \in DOMAIN marker["reservationIds"].is |->
                                   marker["reservationIds"].is[n].is]]
           ELSE [kind |-> "WATERMARK", through |-> marker["ingestedThrough"].is,
                 references |-> None]

ParsedSnapshot(record) ==
  LET snapshot == record.value.is
  IN  [kind |-> "SNAPSHOT", id |-> snapshot["messageId"].is,
       program |-> snapshot["programId"].is, version |-> snapshot["version"].is,
       effectiveAt |-> snapshot["effectiveAt"].is,
       currency |-> snapshot["currency"].is, limit |-> snapshot["creditLimitMinor"].is,
       reserved |-> snapshot["reservedMinor"].is, marker |-> ParsedMarker(snapshot),
       topic |-> record.topic, offset |-> record.offset]

-------------------------------------------------------------------------------
(* dispatch: the topic decides which parser reads the record.              *)

Parsable(record) ==
  IF record.topic = "snapshots" THEN IsSnapshot(record.value) ELSE IsEvent(record.value)

Parsed(record) ==
  IF record.topic = "snapshots" THEN ParsedSnapshot(record) ELSE ParsedEvent(record)

(* The messages the schemas let through.                                   *)
Messages == {Parsed(r) : r \in {s \in Records : Parsable(s)}}
=============================================================================
