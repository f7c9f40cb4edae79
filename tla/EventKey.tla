------------------------------ MODULE EventKey ------------------------------
(***************************************************************************)
(* What makes two records the same event: BuildRecord and ParseSyslog of   *)
(* the agent (internal/agent/parser.go) and the key that each receiving    *)
(* end derives from a record, the collector (internal/collector/store.go)  *)
(* and the mock server of the integration tests (internal/mockserver).     *)
(*                                                                         *)
(* Abstractions.  A datagram is known by what the code finds in it: a good *)
(* header or not, a payload that is a JSON object or not, the event_id of  *)
(* the object and bytes that are not UTF-8.  A text is a sequence whose    *)
(* first element says how it is written.  SHA-256 is taken to be           *)
(* injective.  The sizes at which a float64 changes are constants.         *)
(***************************************************************************)
EXTENDS Integers

CONSTANTS
    EventIds,   \* the values of payload.event_id, see JSON values
    Times,      \* values of received_at, in microseconds
    Exponent,   \* the smallest number that Sprint writes with an exponent (10^6)
    Mantissa    \* the largest number below which a float64 is exact (2^53)

(* JSON values.  Numbers are natural numbers up to twice the mantissa.     *)
Absent    == [json |-> "absent"]
Null      == [json |-> "null"]
String(t) == [json |-> "string", text |-> t]
Number(n) == [json |-> "number", n |-> n]
True      == [json |-> "true"]      \* for all other types

Empty     == <<"empty">>
Digits(n) == <<"digits", n>>

ASSUME EventKeyAssumption ==
    /\ Exponent \in Nat /\ Mantissa \in Nat /\ Exponent <= Mantissa
    /\ \A id \in EventIds : \/ id \in {Absent, Null, True}
                            \/ id.json = "string" /\ id = String(id.text)
                            \/ id.json = "number" /\ id.n \in 0..(2 * Mantissa) /\ id = Number(id.n)

-----------------------------------------------------------------------------
(***************************************************************************)
(* The agent                                                               *)
(***************************************************************************)

(* header: the checks of ParseSyslog up to the colon, or no byte at all;   *)
(* junk: 0 if all bytes are UTF-8, else which bytes are not.               *)
Datagrams ==
    {[header |-> "none", object |-> FALSE, id |-> Absent, junk |-> 0]}
    \cup [header : {"bad"}, object : {FALSE}, id : {Absent}, junk : 0..2]
    \cup [header : {"ok"}, object : {FALSE}, id : {Absent}, junk : {0}]
    \cup [header : {"ok"}, object : {TRUE}, id : EventIds, junk : 0..1]

(* strings.ToValidUTF8: one replacement, whatever the bytes were. *)
ToValidUTF8(data) == [data EXCEPT !.junk = IF @ = 0 THEN 0 ELSE 1]

NoParsed == [header |-> FALSE, payload |-> FALSE, id |-> Absent]

(* Nothing after a bad header; a null payload if it is not an object.      *)
ParseSyslog(raw) ==
    IF raw.header # "ok" THEN NoParsed
    ELSE [header |-> TRUE, payload |-> raw.object, id |-> IF raw.object THEN raw.id ELSE Absent]

(* data stands for raw_base64, which is there if raw is not what came. *)
BuildRecord(data, at) ==
    LET raw    == ToValidUTF8(data)
        parsed == ParseSyslog(raw)
    IN [received_at |-> at, raw |-> raw, data |-> data, parsed |-> parsed,
        parse_error |-> data.junk # 0 \/ ~parsed.payload]

Records == {BuildRecord(d, at) : d \in Datagrams, at \in Times}

-----------------------------------------------------------------------------
(***************************************************************************)
(* The receiving ends                                                      *)
(***************************************************************************)

(* A number becomes a float64: beyond the mantissa the nearest even one,   *)
(* and of two the one whose half is even.                                  *)
Float64(n) == CASE n <= Mantissa \/ n % 2 = 0 -> n
                [] n > Mantissa /\ n % 4 = 1  -> n - 1
                [] OTHER                      -> n + 1

(* fmt.Sprint of what encoding/json decodes into an any. *)
Sprint(v) ==
    CASE v.json = "string" -> v.text
      [] v.json = "number" -> LET f == Float64(v.n)
                              IN IF f < Exponent THEN Digits(f) ELSE <<"exponent", f>>
      [] OTHER             -> <<"true">>

ByReceipt(e) == [by |-> "received_at", at |-> e.received_at, raw |-> e.raw]
ById(text)   == [by |-> "event_id", id |-> text]

(* Mutant of CollectorKey: without an event_id, the raw text is the key.   *)
CollectorKeyNoTime(e) ==
    IF ~e.parse_error /\ e.parsed.id \notin {Absent, Null} /\ Sprint(e.parsed.id) # Empty
    THEN ById(Sprint(e.parsed.id))
    ELSE [ByReceipt(e) EXCEPT !.at = 0]

(* eventKey of store.go: any event_id that is there and not "". *)
CollectorKey(e) ==
    IF ~e.parse_error /\ e.parsed.id \notin {Absent, Null} /\ Sprint(e.parsed.id) # Empty
    THEN ById(Sprint(e.parsed.id))
    ELSE ByReceipt(e)

(* Mutant of MockKey: parse_error is not looked at. *)
MockKeyAnyway(e) ==
    IF e.parsed.id.json = "string" /\ e.parsed.id.text # Empty
    THEN ById(e.parsed.id.text)
    ELSE ByReceipt(e)

(* eventKey of mockserver.go: the event_id is decoded into a string; for   *)
(* another type that fails, and the event counts as one without.           *)
MockKey(e) ==
    IF ~e.parse_error /\ e.parsed.id.json = "string" /\ e.parsed.id.text # Empty
    THEN ById(e.parsed.id.text)
    ELSE ByReceipt(e)

(* validateEvents of server.go and validateBatch of mockserver.go, for the *)
(* records an agent sends: raw must not be empty.                          *)
Acceptable(e) == e.raw.header # "none"
=============================================================================
