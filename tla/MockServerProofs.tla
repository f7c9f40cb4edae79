-------------------------- MODULE MockServerProofs --------------------------
(***************************************************************************)
(* MockInv, EachOnce, MockAgrees and FaultExact for any number of          *)
(* handlers, batches, requests and calls of a test, for every record that  *)
(* BuildRecord makes and for every size at which a float64 changes.        *)
(*                                                                         *)
(* Two arguments.  About the keys: as long as no two events are confused,  *)
(* eventKey of the collector tells apart what is not the same event, and   *)
(* without numbers the two eventKeys are one function.  About the server:  *)
(* what a batch adds is the events whose keys are new, each key once, so   *)
(* that the keys of the rows stay apart and the keys of every batch that   *)
(* was acknowledged are among them.  MockAgrees and FaultExact follow      *)
(* step by step; a fault that counts has to be gone when it is used up.    *)
(***************************************************************************)
EXTENDS MockServer, FiniteSetTheorems, SequenceTheorems, WellFoundedInduction, TLAPS

(* A request to /events carries a batch. *)
RequestSound ==
    \A h \in Handlers : handler[h].path = "/events" => handler[h].batch \in BatchIds

(* A fault that counts is removed with its last use. *)
UsedUp == injected.fault.count > 0 /\ fault.count = 0 => fault = NoFault

(* No two rows have the same key, and every event of an acknowledged batch *)
(* has its key among them.                                                 *)
RowsKeyed ==
    /\ IsInjective(CollectorKeys(rows))
    /\ \A b \in batches : Range(CollectorKeys(body[b])) \subseteq Range(CollectorKeys(rows))

MockIInv ==
    /\ body \in Bodies /\ TypeOK /\ Accounted
    /\ RequestSound /\ FaultExact /\ UsedUp /\ RowsKeyed /\ MockAgrees

-----------------------------------------------------------------------------
(***************************************************************************)
(* The keys                                                                *)
(***************************************************************************)

(* A value that encoding/json may find for event_id. *)
IsJson(v) ==
    \/ v = Absent \/ v = Null \/ v = True
    \/ v.json = "string" /\ v = String(v.text)
    \/ v.json = "number" /\ v.n \in 0..(2 * Mantissa) /\ v = Number(v.n)

(* What the code finds in a datagram. *)
LEMMA DatagramIs ==
    ASSUME NEW d \in Datagrams
    PROVE  /\ d = [header |-> d.header, object |-> d.object, id |-> d.id, junk |-> d.junk]
           /\ d.junk \in Nat /\ IsJson(d.id)
<1>1. IsJson(Absent)
  BY DEF IsJson
<1>2. \A id \in EventIds : IsJson(id)
  BY EventKeyAssumption DEF IsJson
<1>3. CASE d = [header |-> "none", object |-> FALSE, id |-> Absent, junk |-> 0]
  BY <1>1, <1>3
<1>4. CASE d \in [header : {"bad"}, object : {FALSE}, id : {Absent}, junk : 0..2]
  BY <1>1, <1>4
<1>5. CASE d \in [header : {"ok"}, object : {FALSE}, id : {Absent}, junk : {0}]
  BY <1>1, <1>5
<1>6. CASE d \in [header : {"ok"}, object : {TRUE}, id : EventIds, junk : 0..1]
  BY <1>2, <1>6
<1> QED BY <1>3, <1>4, <1>5, <1>6 DEF Datagrams

(* What ToValidUTF8 leaves of a datagram: all but which bytes were not     *)
(* UTF-8.                                                                  *)
LEMMA ToValidUTF8Is ==
    ASSUME NEW d \in Datagrams
    PROVE  ToValidUTF8(d) = [header |-> d.header, object |-> d.object, id |-> d.id,
                             junk |-> IF d.junk = 0 THEN 0 ELSE 1]
<1>1. d = [header |-> d.header, object |-> d.object, id |-> d.id, junk |-> d.junk]
  BY DatagramIs
<1> QED BY <1>1 DEF ToValidUTF8

(* A record, and the event_id that ParseSyslog finds for it. *)
LEMMA RecordIs ==
    ASSUME NEW e \in Records
    PROVE  /\ e.data \in Datagrams /\ e.raw = ToValidUTF8(e.data)
           /\ e.parse_error \in BOOLEAN /\ IsJson(e.parsed.id)
<1>1. PICK d \in Datagrams, at \in Times : e = BuildRecord(d, at)
  BY DEF Records
<1> DEFINE raw == ToValidUTF8(d)
           p   == ParseSyslog(raw)
<1>2. e = [received_at |-> at, raw |-> raw, data |-> d, parsed |-> p,
           parse_error |-> d.junk # 0 \/ ~p.payload]
  BY <1>1 DEF BuildRecord
<1>3. IsJson(p.id)
  <2>1. raw.id = d.id
    BY ToValidUTF8Is
  <2>2. p.id = Absent \/ p.id = raw.id
    BY DEF ParseSyslog, NoParsed
  <2> QED BY <2>1, <2>2, DatagramIs DEF IsJson
<1> HIDE DEF p, raw
<1> QED BY <1>2, <1>3 DEF raw

(* A number up to the mantissa stays what it is. *)
LEMMA Float64Is ==
    ASSUME NEW n \in Nat, n <= Mantissa
    PROVE  Float64(n) = n
BY EventKeyAssumption DEF Float64

(* How fmt.Sprint writes each kind of value. *)
LEMMA SprintIs ==
    /\ \A t : Sprint(String(t)) = t
    /\ \A n \in Nat : n <= Mantissa =>
         Sprint(Number(n)) = IF n < Exponent THEN <<"digits", n>> ELSE <<"exponent", n>>
    /\ Sprint(True) = <<"true">>
<1>1. \A t : Sprint(String(t)) = t
  BY DEF Sprint, String
<1>2. ASSUME NEW n \in Nat, n <= Mantissa
      PROVE  Sprint(Number(n)) = IF n < Exponent THEN <<"digits", n>> ELSE <<"exponent", n>>
  <2>1. Sprint(Number(n)) = LET f == Float64(n)
                            IN IF f < Exponent THEN Digits(f) ELSE <<"exponent", f>>
    BY DEF Sprint, Number
  <2> QED BY <1>2, <2>1, Float64Is DEF Digits
<1>3. Sprint(True) = <<"true">>
  BY DEF Sprint, True
<1> QED BY <1>1, <1>2, <1>3

(* The kinds of text are told apart. *)
LEMMA TextsDiffer ==
    ASSUME NEW n \in Nat, NEW m \in Nat
    PROVE  /\ <<"digits", n>> # <<"exponent", m>>
           /\ <<"digits", n>> = <<"digits", m>> => n = m
           /\ <<"exponent", n>> = <<"exponent", m>> => n = m
           /\ <<"true">> # <<"digits", n>> /\ <<"true">> # <<"exponent", n>>
           /\ Empty # <<"true">> /\ Empty # <<"digits", n>> /\ Empty # <<"exponent", n>>
BY DEF Empty

(* The kinds of value are told apart. *)
LEMMA KindIs ==
    ASSUME NEW v, IsJson(v)
    PROVE  /\ v.json = "absent" <=> v = Absent
           /\ v.json = "null" <=> v = Null
           /\ v.json = "true" <=> v = True
           /\ v.json = "string" => v = String(v.text)
           /\ v.json = "number" => v = Number(v.n) /\ v.n \in Nat
           /\ v.json \in {"absent", "null", "true", "string", "number"}
BY EventKeyAssumption DEF IsJson, Absent, Null, True, String, Number

(* A value is written as its own text, unless it is a number that a        *)
(* float64 does not hold.                                                  *)
LEMMA SprintInjective ==
    ASSUME NEW v, IsJson(v), v \notin {Absent, Null}, v.json = "number" => v.n <= Mantissa,
           NEW w, IsJson(w), w \notin {Absent, Null}, w.json = "number" => w.n <= Mantissa,
           v.json = "string" <=> w.json = "string"
    PROVE  Sprint(v) = Sprint(w) <=> v = w
<1>1. /\ v.json \in {"true", "string", "number"} /\ w.json \in {"true", "string", "number"}
      /\ v.json = "true" => v = True
      /\ w.json = "true" => w = True
      /\ v.json = "string" => v = String(v.text)
      /\ w.json = "string" => w = String(w.text)
      /\ v.json = "number" => v = Number(v.n) /\ v.n \in Nat
      /\ w.json = "number" => w = Number(w.n) /\ w.n \in Nat
  BY KindIs
<1>2. CASE v.json = "string"
  BY <1>1, <1>2, SprintIs
<1>3. CASE v.json = "true" /\ w.json = "true"
  BY <1>1, <1>3
<1>4. CASE v.json = "number" /\ w.json = "true"
  <2>1. Sprint(v) # Sprint(w)
    BY <1>1, <1>4, SprintIs, TextsDiffer
  <2> QED BY <2>1
<1>5. CASE v.json = "true" /\ w.json = "number"
  <2>1. Sprint(v) # Sprint(w)
    BY <1>1, <1>5, SprintIs, TextsDiffer
  <2> QED BY <2>1
<1>6. CASE v.json = "number" /\ w.json = "number"
  <2>1. Sprint(v) = Sprint(w) => v.n = w.n
    BY <1>1, <1>6, SprintIs, TextsDiffer
  <2> QED BY <1>1, <1>6, <2>1
<1> QED BY <1>1, <1>2, <1>3, <1>4, <1>5, <1>6

(* eventKey of the collector takes the event_id if there is one. *)
LEMMA CollectorKeyIs ==
    ASSUME NEW e \in Records, e.parsed.id.json = "number" => e.parsed.id.n <= Mantissa
    PROVE  CollectorKey(e) = IF HasId(e) THEN ById(Sprint(e.parsed.id)) ELSE ByReceipt(e)
<1> DEFINE v == e.parsed.id
<1>1. IsJson(v) /\ (v.json = "number" => v.n <= Mantissa)
  BY RecordIs
<1> HIDE DEF v
<1>2. v \notin {Absent, Null} => (Sprint(v) = Empty <=> v = String(Empty))
  <2> SUFFICES ASSUME v \notin {Absent, Null} PROVE Sprint(v) = Empty <=> v = String(Empty)
    OBVIOUS
  <2>1. /\ v.json \in {"true", "string", "number"}
        /\ v.json = "true" => v = True
        /\ v.json = "string" => v = String(v.text)
        /\ v.json = "number" => v = Number(v.n) /\ v.n \in Nat
    BY <1>1, KindIs
  <2>2. CASE v.json = "string"
    BY <2>1, <2>2, SprintIs
  <2>3. CASE v.json = "true"
    <3>1. Sprint(v) # Empty
      BY <2>1, <2>3, SprintIs, TextsDiffer
    <3> QED BY <2>3, <3>1 DEF String
  <2>4. CASE v.json = "number"
    <3>1. Sprint(v) # Empty
      BY <1>1, <2>1, <2>4, SprintIs, TextsDiffer
    <3> QED BY <2>4, <3>1 DEF String
  <2> QED BY <2>1, <2>2, <2>3, <2>4
<1>3. HasId(e) <=> ~e.parse_error /\ v \notin {Absent, Null} /\ Sprint(v) # Empty
  BY <1>2 DEF HasId, v
<1> QED BY <1>3 DEF CollectorKey, v

(* Of two datagrams that ToValidUTF8 makes the same, either both have      *)
(* bytes that are not UTF-8 or they are the same.                          *)
LEMMA SameRaw ==
    ASSUME NEW d \in Datagrams, NEW f \in Datagrams, ToValidUTF8(d) = ToValidUTF8(f)
    PROVE  d = f \/ (d.junk # 0 /\ f.junk # 0)
<1>1. /\ d.header = f.header /\ d.object = f.object /\ d.id = f.id
      /\ (d.junk = 0 <=> f.junk = 0)
  BY ToValidUTF8Is
<1> QED BY <1>1, DatagramIs

(* The key of the collector tells two events apart just if they are not    *)
(* the same event, as long as they are not confused.                       *)
LEMMA KeysTellApart ==
    ASSUME NEW e \in Records, NEW f \in Records,
           ~Confused(e, f), ~Confused(f, e)
    PROVE  CollectorKey(e) = CollectorKey(f) <=> SameEvent(e, f)
<1>1. /\ e.parsed.id.json = "number" => e.parsed.id.n <= Mantissa
      /\ f.parsed.id.json = "number" => f.parsed.id.n <= Mantissa
  <2>1. IsJson(e.parsed.id) /\ IsJson(f.parsed.id)
    BY RecordIs
  <2>2. /\ e.parsed.id.json = "number" => e.parsed.id.n \in Nat
        /\ f.parsed.id.json = "number" => f.parsed.id.n \in Nat
    BY <2>1, KindIs
  <2> QED BY <2>2, EventKeyAssumption DEF Confused
<1>2. /\ CollectorKey(e) = IF HasId(e) THEN ById(Sprint(e.parsed.id)) ELSE ByReceipt(e)
      /\ CollectorKey(f) = IF HasId(f) THEN ById(Sprint(f.parsed.id)) ELSE ByReceipt(f)
  BY <1>1, CollectorKeyIs
<1>3. CASE HasId(e) /\ HasId(f)
  <2>1. /\ IsJson(e.parsed.id) /\ e.parsed.id \notin {Absent, Null}
        /\ IsJson(f.parsed.id) /\ f.parsed.id \notin {Absent, Null}
    BY <1>3, RecordIs DEF HasId
  <2>2. e.parsed.id.json = "string" <=> f.parsed.id.json = "string"
    <3>1. /\ e.parsed.id.json \in {"number", "true", "string"}
          /\ f.parsed.id.json \in {"number", "true", "string"}
      BY <2>1, KindIs
    <3> QED BY <3>1 DEF Confused
  <2>3. Sprint(e.parsed.id) = Sprint(f.parsed.id) <=> e.parsed.id = f.parsed.id
    BY <1>1, <2>1, <2>2, SprintInjective
  <2>4. CollectorKey(e) = CollectorKey(f) <=> Sprint(e.parsed.id) = Sprint(f.parsed.id)
    BY <1>2, <1>3 DEF ById
  <2> QED BY <1>3, <2>3, <2>4 DEF SameEvent
<1>4. CASE ~HasId(e) /\ ~HasId(f)
  <2>1. CollectorKey(e) = CollectorKey(f) <=> e.received_at = f.received_at /\ e.raw = f.raw
    BY <1>2, <1>4 DEF ByReceipt
  <2>2. e.raw = f.raw <=> e.data = f.data
    <3>1. /\ e.data \in Datagrams /\ e.raw = ToValidUTF8(e.data)
          /\ f.data \in Datagrams /\ f.raw = ToValidUTF8(f.data)
      BY RecordIs
    <3>2. e.raw = f.raw => e.data = f.data \/ (e.data.junk # 0 /\ f.data.junk # 0)
      BY <3>1, SameRaw
    <3> QED BY <3>1, <3>2 DEF Confused
  <2> QED BY <1>4, <2>1, <2>2 DEF SameEvent
<1>5. CASE (HasId(e) /\ ~HasId(f)) \/ (~HasId(e) /\ HasId(f))
  <2>1. \A x, y : ById(x) # ByReceipt(y)
    BY DEF ById, ByReceipt
  <2>2. CollectorKey(e) # CollectorKey(f)
    BY <1>2, <1>5, <2>1
  <2> QED BY <1>5, <2>2 DEF SameEvent
<1> QED BY <1>3, <1>4, <1>5

(* Without numbers both receiving ends take the same key. *)
LEMMA KeysAgree ==
    ASSUME NEW e \in Records, e.parsed.id.json \notin {"number", "true"}
    PROVE  MockKey(e) = CollectorKey(e)
<1> DEFINE v == e.parsed.id
<1>1. IsJson(v) /\ v.json \notin {"number", "true"} /\ e.parse_error \in BOOLEAN
  BY RecordIs
<1> HIDE DEF v
<1>2. /\ v.json = "absent" <=> v = Absent
      /\ v.json = "null" <=> v = Null
      /\ v.json = "string" => v = String(v.text)
      /\ v.json \in {"absent", "null", "string"}
  BY <1>1, KindIs
<1>3. v.json = "string" => Sprint(v) = v.text
  BY <1>2, SprintIs
<1> QED BY <1>1, <1>2, <1>3 DEF MockKey, CollectorKey, v

-----------------------------------------------------------------------------
(***************************************************************************)
(* What a batch adds                                                       *)
(***************************************************************************)

(* The least of some natural numbers. *)
LEMMA LeastOf ==
    ASSUME NEW S, S \subseteq Nat, S # {}
    PROVE  \E x \in S : \A y \in S : x <= y
<1>1. PICK x \in S : \A y \in S : ~(<<y, x>> \in OpToRel(<, Nat))
  BY NatLessThanWellFounded, WFMin, Zenon
<1> DEFINE R == OpToRel(<, Nat)
<1>2. R = {ss \in Nat \X Nat : ss[1] < ss[2]}
  BY Zenon DEF OpToRel
<1>3. \A y \in S : ~(<<y, x>> \in R)
  BY <1>1, Zenon
<1> HIDE DEF R
<1>4. \A y \in Nat : y < x => <<y, x>> \in R
  BY <1>2
<1>5. \A y \in S : ~(y < x)
  BY <1>3, <1>4, Zenon
<1> QED BY <1>5

(* The loop of handleEvents: where it is after each event. *)
LEMMA KeptSteps ==
    ASSUME NEW T, NEW events \in Seq(T), NEW at
    PROVE  \E f : /\ Kept(events, at) = f[Len(events)] /\ f[0] = << >>
                  /\ \A i \in 1..Len(events) :
                        f[i] = IF i \in at THEN Append(f[i - 1], events[i]) ELSE f[i - 1]
<1> DEFINE n == Len(events)
           Body(f, i) == IF i = 0 THEN << >>
                         ELSE IF i \in at THEN Append(f[i - 1], events[i]) ELSE f[i - 1]
           Add[i \in 0..Len(events)] ==
              IF i = 0 THEN << >> ELSE IF i \in at THEN Append(Add[i - 1], events[i]) ELSE Add[i - 1]
<1>1. Kept(events, at) = Add[n]
  BY Zenon DEF Kept, Add
<1>2. Add = CHOOSE f : f = [i \in 0..n |-> Body(f, i)]
  BY Zenon DEF Add
<1>3. n \in Nat
  BY LenProperties
<1> HIDE DEF Add, n
<1> DEFINE Solved(m) == \E f : f = [i \in 0..m |-> Body(f, i)]
<1>4. Solved(0)
  <2> DEFINE f == [i \in 0..0 |-> << >>]
  <2>1. f = [i \in 0..0 |-> Body(f, i)]
    OBVIOUS
  <2> QED BY <2>1
<1>5. ASSUME NEW m \in 1..n, Solved(m - 1) PROVE Solved(m)
  <2>1. m \in Nat /\ m > 0
    BY <1>3
  <2>2. PICK g : g = [i \in 0..(m - 1) |-> Body(g, i)]
    BY <1>5
  <2> DEFINE f == [i \in 0..m |-> IF i = m THEN Body(g, m) ELSE g[i]]
  <2>3. \A i \in 0..(m - 1) : g[i] = Body(g, i)
    BY <2>2
  <2>4. \A i \in 0..m : f[i] = Body(g, i)
    <3>1. \A i \in 0..m : i = m \/ i \in 0..(m - 1)
      BY <2>1
    <3> HIDE DEF Body
    <3> QED BY <2>3, <3>1
  <2>5. \A i \in 0..m : i # 0 => f[i - 1] = g[i - 1]
    <3>1. \A i \in 0..m : i # 0 => i - 1 \in 0..m /\ i - 1 # m
      BY <2>1
    <3> HIDE DEF Body
    <3> QED BY <3>1
  <2>6. f = [i \in 0..m |-> f[i]]
    OBVIOUS
  <2> HIDE DEF f
  <2>7. \A i \in 0..m : f[i] = Body(f, i)
    BY <2>4, <2>5
  <2> HIDE DEF Body
  <2>8. f = [i \in 0..m |-> Body(f, i)]
    BY <2>6, <2>7
  <2> QED BY <2>8
<1>5a. Solved(n)
  <2> HIDE DEF Solved
  <2> DEFINE Bad == {m \in 0..n : ~Solved(m)}
  <2> SUFFICES ASSUME Bad # {} PROVE FALSE
    BY <1>3
  <2>1. PICK m \in Bad : \A y \in Bad : m <= y
    <3>1. Bad \subseteq Nat
      BY <1>3
    <3> HIDE DEF Bad
    <3> QED BY <3>1, LeastOf
  <2>2. m \in 1..n
    BY <1>3, <1>4
  <2>3. m - 1 \in 0..n /\ m - 1 \notin Bad
    BY <1>3, <2>1, <2>2
  <2> QED BY <1>5, <2>2, <2>3
<1>6. Add = [i \in 0..n |-> Body(Add, i)]
  BY <1>2, <1>5a, Zenon
<1>7. \A i \in 0..n : Add[i] = Body(Add, i)
  BY <1>6
<1>8. Add[0] = << >> /\ \A i \in 1..n :
         Add[i] = IF i \in at THEN Append(Add[i - 1], events[i]) ELSE Add[i - 1]
  BY <1>3, <1>7
<1> QED BY <1>1, <1>8 DEF n

(* The elements of s are those that events has at the places of S, in      *)
(* their order.                                                            *)
InOrder(s, events, S, place) ==
    /\ place \in [1..Len(s) -> S]
    /\ \A k \in 1..Len(s) : s[k] = events[place[k]]
    /\ \A j, k \in 1..Len(s) : j < k => place[j] < place[k]
    /\ \A x \in S : \E k \in 1..Len(s) : place[k] = x

(* What is kept is the events at the places, in their order. *)
LEMMA KeptIs ==
    ASSUME NEW T, NEW events \in Seq(T), NEW at, at \subseteq 1..Len(events),
           NEW new, new = Kept(events, at)
    PROVE  /\ new \in Seq(T) /\ Len(new) <= Len(events)
           /\ \E place : InOrder(new, events, at, place)
<1> DEFINE n == Len(events)
<1>1. n \in Nat /\ at \subseteq 1..n
  BY LenProperties
<1>2. \A i \in 1..n : events[i] \in T
  BY ElementOfSeq
<1>3. PICK f : /\ new = f[n] /\ f[0] = << >>
               /\ \A i \in 1..n : f[i] = IF i \in at THEN Append(f[i - 1], events[i]) ELSE f[i - 1]
  BY KeptSteps
<1> HIDE DEF n
<1> DEFINE Good(i) ==
      /\ f[i] \in Seq(T) /\ Len(f[i]) <= i
      /\ \E place : InOrder(f[i], events, at \cap (1..i), place)
<1>4. Good(0)
  <2>1. f[0] = << >> /\ Len(f[0]) = 0 /\ 1..Len(f[0]) = {} /\ at \cap (1..0) = {}
    BY <1>3
  <2>2. f[0] \in Seq(T)
    BY <2>1
  <2>3. InOrder(f[0], events, at \cap (1..0), [k \in 1..Len(f[0]) |-> 0])
    BY <2>1 DEF InOrder
  <2>4. Len(f[0]) <= 0
    BY <2>1
  <2> QED BY <2>2, <2>3, <2>4, Zenon
<1>5. ASSUME NEW i \in 1..n, Good(i - 1) PROVE Good(i)
  <2> DEFINE s == f[i - 1]
             l == Len(s)
  <2>0. s \in Seq(T) /\ l \in Nat /\ l <= i - 1 /\ i \in Nat
    BY <1>1, <1>5, LenProperties
  <2>1. PICK p :
           /\ InOrder(s, events, at \cap (1..(i - 1)), p) /\ p \in [1..l -> at \cap (1..(i - 1))]
           /\ \A k \in 1..l : s[k] = events[p[k]]
           /\ \A j, k \in 1..l : j < k => p[j] < p[k]
           /\ \A x \in at \cap (1..(i - 1)) : \E k \in 1..l : p[k] = x
    BY <1>5 DEF InOrder
  <2>2. f[i] = IF i \in at THEN Append(s, events[i]) ELSE s
    BY <1>3
  <2> HIDE DEF s, l
  <2>3. CASE i \notin at
    <3>1. at \cap (1..i) = at \cap (1..(i - 1))
      BY <1>1, <2>0, <2>3
    <3>2. f[i] = s /\ Len(f[i]) = l
      BY <2>2, <2>3 DEF l
    <3>3. InOrder(f[i], events, at \cap (1..i), p)
      BY <2>1, <3>1, <3>2, Zenon
    <3>4. f[i] \in Seq(T) /\ Len(f[i]) <= i
      BY <2>0, <3>2
    <3> QED BY <3>3, <3>4, Zenon
  <2>4. CASE i \in at
    <3> DEFINE q == [k \in 1..(l + 1) |-> IF k <= l THEN p[k] ELSE i]
    <3>1. /\ f[i] \in Seq(T) /\ Len(f[i]) = l + 1 /\ f[i][l + 1] = events[i]
          /\ \A k \in 1..l : f[i][k] = s[k]
      BY <1>2, <2>0, <2>2, <2>4, AppendProperties DEF l
    <3>2. q \in [1..(l + 1) -> at \cap (1..i)]
      BY <2>0, <2>1, <2>4
    <3>3. \A k \in 1..(l + 1) : f[i][k] = events[q[k]]
      BY <2>0, <2>1, <3>1
    <3>4. \A k \in 1..l : p[k] \in Nat /\ p[k] < i
      BY <2>0, <2>1
    <3>5. \A j, k \in 1..(l + 1) : j < k => q[j] < q[k]
      BY <2>0, <2>1, <3>4
    <3>6. \A x \in at \cap (1..i) : \E k \in 1..(l + 1) : q[k] = x
      <4> SUFFICES ASSUME NEW x \in at \cap (1..i) PROVE \E k \in 1..(l + 1) : q[k] = x
        OBVIOUS
      <4>1. CASE x = i
        <5>1. l + 1 \in 1..(l + 1) /\ q[l + 1] = i
          BY <2>0
        <5> QED BY <4>1, <5>1
      <4>2. CASE x # i
        <5>1. x \in at \cap (1..(i - 1))
          BY <2>0, <4>2
        <5>2. PICK k \in 1..l : p[k] = x
          BY <2>1, <5>1
        <5>3. k \in 1..(l + 1) /\ q[k] = x
          BY <2>0, <5>2
        <5> QED BY <5>3
      <4> QED BY <4>1, <4>2
    <3> HIDE DEF q
    <3>7. InOrder(f[i], events, at \cap (1..i), q)
      BY <3>1, <3>2, <3>3, <3>5, <3>6 DEF InOrder
    <3> QED BY <2>0, <3>1, <3>7
  <2> QED BY <2>3, <2>4
<1>6. Good(n)
  <2> HIDE DEF Good
  <2> DEFINE Bad == {i \in 0..n : ~Good(i)}
  <2> SUFFICES ASSUME Bad # {} PROVE FALSE
    BY <1>1
  <2>1. PICK i \in Bad : \A y \in Bad : i <= y
    <3>1. Bad \subseteq Nat
      BY <1>1
    <3> HIDE DEF Bad
    <3> QED BY <3>1, LeastOf
  <2>2. i \in 0..n /\ i \in Nat /\ ~Good(i)
    BY <1>1
  <2>3. i \in 1..n
    BY <1>1, <1>4, <2>2
  <2>4. i - 1 \in 0..n /\ i - 1 \notin Bad
    BY <1>1, <2>1, <2>3
  <2>5. Good(i - 1)
    BY <2>4
  <2> QED BY <1>5, <2>2, <2>3, <2>5
<1>7. at \cap (1..n) = at
  BY <1>1
<1> QED BY <1>3, <1>6, <1>7 DEF n

(* Of the keys of a batch that are not there yet, each has a first place.  *)
LEMMA FirstPlace ==
    ASSUME NEW n \in Nat, NEW key, DOMAIN key = 1..n, NEW old, NEW i \in 1..n, key[i] \notin old
    PROVE  \E j \in NewAt(key, old) : key[j] = key[i]
<1> DEFINE S == {j \in 1..n : key[j] = key[i]}
<1>1. S \subseteq Nat /\ S # {}
  OBVIOUS
<1>2. PICK j \in S : \A y \in S : j <= y
  <2> HIDE DEF S
  <2> QED BY <1>1, LeastOf
<1>3. j \in 1..n /\ key[j] = key[i]
  OBVIOUS
<1>4. \A x \in 1..(j - 1) : key[x] # key[j]
  <2> SUFFICES ASSUME NEW x \in 1..(j - 1), key[x] = key[j] PROVE FALSE
    OBVIOUS
  <2>1. x \in S /\ x < j
    BY <1>3
  <2> QED BY <1>1, <1>2, <1>3, <2>1
<1>5. j \in NewAt(key, old)
  BY <1>3, <1>4 DEF NewAt
<1> QED BY <1>3, <1>5

(* What NewEvents takes of a batch, newkey being the keys of that: each    *)
(* new key once, and no other.                                             *)
LEMMA NewEventsAre ==
    ASSUME NEW T, NEW events \in Seq(T), NEW key, DOMAIN key = 1..Len(events), NEW old,
           NEW new, new = NewEvents(events, key, old)
    PROVE  /\ new \in Seq(T) /\ Len(new) <= Len(events)
           /\ \A newkey :
                /\ DOMAIN newkey = 1..Len(new)
                /\ \A k \in DOMAIN newkey, i \in 1..Len(events) :
                     new[k] = events[i] => newkey[k] = key[i]
                => /\ IsInjective(newkey)
                   /\ Range(newkey) \cap old = {}
                   /\ Range(key) \subseteq old \cup Range(newkey)
<1> DEFINE n  == Len(events)
           at == NewAt(key, old)
<1>1. n \in Nat /\ at \subseteq 1..n
  BY LenProperties DEF NewAt
<1>2. new = Kept(events, at)
  BY DEF NewEvents
<1>3. \A i, j \in at : i < j => key[i] # key[j]
  BY <1>1 DEF NewAt
<1>4. \A i \in at : key[i] \notin old
  BY DEF NewAt
<1>5. \A i \in 1..n : key[i] \notin old => \E j \in at : key[j] = key[i]
  BY <1>1, FirstPlace
<1> HIDE DEF at
<1>6. /\ new \in Seq(T) /\ Len(new) <= n
      /\ \E place : InOrder(new, events, at, place)
  <2>1. at \subseteq 1..Len(events)
    BY <1>1
  <2> QED BY <1>2, <2>1, KeptIs, Zenon
<1> HIDE DEF n
<1>7. ASSUME NEW newkey, DOMAIN newkey = 1..Len(new),
             \A k \in DOMAIN newkey, i \in 1..n : new[k] = events[i] => newkey[k] = key[i]
      PROVE  /\ IsInjective(newkey) /\ Range(newkey) \cap old = {}
             /\ Range(key) \subseteq old \cup Range(newkey)
  <2>1. PICK place :
           /\ place \in [1..Len(new) -> at]
           /\ \A k \in 1..Len(new) : new[k] = events[place[k]]
           /\ \A j, k \in 1..Len(new) : j < k => place[j] < place[k]
           /\ \A i \in at : \E k \in 1..Len(new) : place[k] = i
    BY <1>6 DEF InOrder
  <2>2. Len(new) \in Nat
    BY <1>6, LenProperties
  <2>3. \A k \in 1..Len(new) : place[k] \in at /\ newkey[k] = key[place[k]]
    <3> TAKE k \in 1..Len(new)
    <3>1. place[k] \in at /\ place[k] \in 1..n /\ k \in DOMAIN newkey
      BY <1>1, <1>7, <2>1
    <3>2. new[k] = events[place[k]]
      BY <2>1
    <3> QED BY <1>7, <3>1, <3>2
  <2>4. \A j, k \in 1..Len(new) : j < k => newkey[j] # newkey[k]
    BY <1>3, <2>1, <2>3
  <2>5. IsInjective(newkey)
    BY <1>7, <2>2, <2>4 DEF IsInjective
  <2>6. Range(newkey) \cap old = {}
    BY <1>4, <1>7, <2>3 DEF Range
  <2>7. ASSUME NEW i \in 1..n, key[i] \notin old PROVE key[i] \in Range(newkey)
    <3>1. PICK j \in at : key[j] = key[i]
      BY <1>5, <2>7
    <3>2. PICK k \in 1..Len(new) : place[k] = j
      BY <2>1
    <3>3. newkey[k] = key[i]
      BY <2>3, <3>1, <3>2
    <3> QED BY <1>7, <3>3 DEF Range
  <2>8. Range(key) \subseteq old \cup Range(newkey)
    BY <2>7 DEF Range, n
  <2> QED BY <2>5, <2>6, <2>8
<1> QED BY <1>6, <1>7 DEF n

(* r is p, of m elements, with q, of n, behind it. *)
Joined(p, m, q, n, r) ==
    /\ m \in Nat /\ n \in Nat /\ DOMAIN p = 1..m /\ DOMAIN q = 1..n /\ DOMAIN r = 1..(m + n)
    /\ \A i \in 1..(m + n) : r[i] = IF i <= m THEN p[i] ELSE q[i - m]

(* The keys of two sequences one after the other. *)
LEMMA JoinedKeys ==
    ASSUME NEW p, NEW m, NEW q, NEW n, NEW r, Joined(p, m, q, n, r),
           IsInjective(p), IsInjective(q), Range(q) \cap Range(p) = {}
    PROVE  IsInjective(r) /\ Range(r) = Range(p) \cup Range(q)
<1> USE DEF Joined
<1>1. \A i \in 1..m, j \in 1..n : p[i] # q[j]
  BY DEF Range
<1>2. \A i, j \in 1..m : p[i] = p[j] => i = j
  BY DEF IsInjective
<1>3. \A i, j \in 1..n : q[i] = q[j] => i = j
  BY DEF IsInjective
<1>4. \A i \in 1..(m + n) : (i <= m /\ i \in 1..m) \/ (~(i <= m) /\ i - m \in 1..n)
  OBVIOUS
<1>5. ASSUME NEW i \in 1..(m + n), NEW j \in 1..(m + n), r[i] = r[j] PROVE i = j
  <2>1. CASE i <= m /\ j <= m
    BY <1>2, <1>4, <1>5, <2>1
  <2>2. CASE ~(i <= m) /\ ~(j <= m)
    <3>1. i - m = j - m
      BY <1>3, <1>4, <1>5, <2>2
    <3> QED BY <3>1
  <2>3. CASE (i <= m /\ ~(j <= m)) \/ (~(i <= m) /\ j <= m)
    BY <1>1, <1>4, <1>5, <2>3
  <2> QED BY <2>1, <2>2, <2>3
<1>6. IsInjective(r)
  BY <1>5 DEF IsInjective
<1>7. Range(r) \subseteq Range(p) \cup Range(q)
  BY <1>4 DEF Range
<1>8. Range(p) \subseteq Range(r)
  <2>1. \A i \in 1..m : i \in 1..(m + n) /\ r[i] = p[i]
    OBVIOUS
  <2> QED BY <2>1 DEF Range
<1>9. Range(q) \subseteq Range(r)
  <2>1. \A i \in 1..n : m + i \in 1..(m + n) /\ r[m + i] = q[i]
    <3>1. \A i \in 1..n : m + i \in 1..(m + n) /\ ~(m + i <= m) /\ (m + i) - m = i
      OBVIOUS
    <3> QED BY <3>1
  <2> QED BY <2>1 DEF Range
<1> QED BY <1>6, <1>7, <1>8, <1>9

(* An event of a concatenation. *)
LEMMA ConcatElement ==
    ASSUME NEW T, NEW s \in Seq(T), NEW t \in Seq(T)
    PROVE  /\ s \o t \in Seq(T) /\ Len(s) \in Nat /\ Len(t) \in Nat
           /\ Len(s \o t) = Len(s) + Len(t) /\ DOMAIN (s \o t) = 1..(Len(s) + Len(t))
           /\ \A i \in 1..(Len(s) + Len(t)) :
                (s \o t)[i] = IF i <= Len(s) THEN s[i] ELSE t[i - Len(s)]
BY ConcatProperties, LenProperties

(* The keys of a sequence, for any way to take keys. *)
KeysBy(K, s) == [i \in DOMAIN s |-> K[s[i]]]

(* What a batch makes of the keys. *)
LEMMA KeysGrow ==
    ASSUME NEW T, NEW K, NEW s \in Seq(T), NEW events \in Seq(T), IsInjective(KeysBy(K, s)),
           NEW new, new = NewEvents(events, KeysBy(K, events), Range(KeysBy(K, s)))
    PROVE  /\ new \in Seq(T) /\ Len(new) <= Len(events)
           /\ IsInjective(KeysBy(K, s \o new))
           /\ Range(KeysBy(K, s \o new)) = Range(KeysBy(K, s)) \cup Range(KeysBy(K, new))
           /\ Range(KeysBy(K, events)) \subseteq Range(KeysBy(K, s \o new))
<1> DEFINE key == KeysBy(K, events)
           p   == KeysBy(K, s)
           q   == KeysBy(K, new)
           r   == KeysBy(K, s \o new)
           old == Range(p)
<1>1. DOMAIN key = 1..Len(events) /\ new = NewEvents(events, key, old)
  BY LenProperties DEF KeysBy
<1> HIDE DEF key, old
<1>2. /\ new \in Seq(T) /\ Len(new) <= Len(events)
      /\ \A newkey :
           /\ DOMAIN newkey = 1..Len(new)
           /\ \A k \in DOMAIN newkey, i \in 1..Len(events) :
                new[k] = events[i] => newkey[k] = key[i]
           => /\ IsInjective(newkey)
              /\ Range(newkey) \cap old = {}
              /\ Range(key) \subseteq old \cup Range(newkey)
  BY <1>1, NewEventsAre
<1>3. /\ DOMAIN p = 1..Len(s) /\ DOMAIN q = 1..Len(new)
      /\ Len(s) \in Nat /\ Len(new) \in Nat
  BY <1>2, LenProperties DEF KeysBy
<1>4. \A k \in DOMAIN q, i \in 1..Len(events) : new[k] = events[i] => q[k] = key[i]
  BY LenProperties DEF KeysBy, key
<1>5. DOMAIN r = 1..(Len(s) + Len(new))
  BY <1>2, ConcatElement DEF KeysBy
<1>6. \A i \in 1..(Len(s) + Len(new)) : r[i] = IF i <= Len(s) THEN p[i] ELSE q[i - Len(s)]
  <2> SUFFICES ASSUME NEW i \in 1..(Len(s) + Len(new))
               PROVE  r[i] = IF i <= Len(s) THEN p[i] ELSE q[i - Len(s)]
    OBVIOUS
  <2>1. r[i] = K[(s \o new)[i]]
    BY <1>2, ConcatElement DEF KeysBy
  <2>2. (s \o new)[i] = IF i <= Len(s) THEN s[i] ELSE new[i - Len(s)]
    BY <1>2, ConcatElement
  <2>3. i <= Len(s) => i \in DOMAIN s /\ p[i] = K[s[i]]
    BY <1>3, LenProperties DEF KeysBy
  <2>4. ~(i <= Len(s)) => i - Len(s) \in DOMAIN new /\ q[i - Len(s)] = K[new[i - Len(s)]]
    <3>1. ~(i <= Len(s)) => i - Len(s) \in DOMAIN new
      BY <1>2, <1>3, LenProperties
    <3> QED BY <3>1 DEF KeysBy
  <2> HIDE DEF r, p, q
  <2> QED BY <2>1, <2>2, <2>3, <2>4
<1>7. IsInjective(p)
  OBVIOUS
<1> HIDE DEF p, q, r
<1>8. IsInjective(q) /\ Range(q) \cap Range(p) = {} /\ Range(key) \subseteq Range(p) \cup Range(q)
  BY <1>2, <1>3, <1>4 DEF old
<1>9. IsInjective(r) /\ Range(r) = Range(p) \cup Range(q)
  <2>1. Joined(p, Len(s), q, Len(new), r)
    BY <1>3, <1>5, <1>6 DEF Joined
  <2> QED BY <1>7, <1>8, <2>1, JoinedKeys
<1>10. Range(key) \subseteq Range(r)
  BY <1>8, <1>9
<1> QED BY <1>2, <1>9, <1>10, Zenon DEF key, p, q, r

(* The keys of both receiving ends, written so. *)
LEMMA KeysByKey ==
    ASSUME NEW T, NEW s \in Seq(T)
    PROVE  /\ CollectorKeys(s) = KeysBy([x \in T |-> CollectorKey(x)], s)
           /\ MockKeys(s) = KeysBy([x \in T |-> MockKey(x)], s)
<1>1. \A i \in DOMAIN s : s[i] \in T
  BY ElementOfSeq, LenProperties
<1>2. CollectorKeys(s) = KeysBy([x \in T |-> CollectorKey(x)], s)
  <2> DEFINE K == [x \in T |-> CollectorKey(x)]
  <2>1. \A i \in DOMAIN s : K[s[i]] = CollectorKey(s[i])
    BY <1>1
  <2> HIDE DEF K
  <2>2. CollectorKeys(s) = KeysBy(K, s)
    BY <2>1 DEF CollectorKeys, KeysBy
  <2> QED BY <2>2 DEF K
<1>3. MockKeys(s) = KeysBy([x \in T |-> MockKey(x)], s)
  <2> DEFINE K == [x \in T |-> MockKey(x)]
  <2>1. \A i \in DOMAIN s : K[s[i]] = MockKey(s[i])
    BY <1>1
  <2> HIDE DEF K
  <2>2. MockKeys(s) = KeysBy(K, s)
    BY <2>1 DEF MockKeys, KeysBy
  <2> QED BY <2>2 DEF K
<1> QED BY <1>2, <1>3

(* What a batch adds to the rows of the collector ... *)
LEMMA RowsGrow ==
    ASSUME NEW T, NEW s \in Seq(T), NEW events \in Seq(T), IsInjective(CollectorKeys(s)),
           NEW new, new = NewEvents(events, CollectorKeys(events), Range(CollectorKeys(s)))
    PROVE  /\ new \in Seq(T) /\ Len(new) <= Len(events)
           /\ IsInjective(CollectorKeys(s \o new))
           /\ Range(CollectorKeys(s \o new))
                = Range(CollectorKeys(s)) \cup Range(CollectorKeys(new))
           /\ Range(CollectorKeys(events)) \subseteq Range(CollectorKeys(s \o new))
<1> DEFINE K == [x \in T |-> CollectorKey(x)]
<1>1. CollectorKeys(s) = KeysBy(K, s) /\ CollectorKeys(events) = KeysBy(K, events)
  BY KeysByKey
<1> HIDE DEF K
<1>2. /\ new \in Seq(T) /\ Len(new) <= Len(events)
      /\ IsInjective(KeysBy(K, s \o new))
      /\ Range(KeysBy(K, s \o new)) = Range(KeysBy(K, s)) \cup Range(KeysBy(K, new))
      /\ Range(KeysBy(K, events)) \subseteq Range(KeysBy(K, s \o new))
  BY <1>1, KeysGrow
<1>3. s \o new \in Seq(T)
  BY <1>2, ConcatElement
<1>4. CollectorKeys(new) = KeysBy(K, new) /\ CollectorKeys(s \o new) = KeysBy(K, s \o new)
  BY <1>2, <1>3, KeysByKey DEF K
<1> QED BY <1>1, <1>2, <1>4, Zenon

(* ... and to what the mock server accepted. *)
LEMMA AcceptedGrows ==
    ASSUME NEW T, NEW s \in Seq(T), NEW events \in Seq(T), IsInjective(MockKeys(s)),
           NEW new, new = NewEvents(events, MockKeys(events), Range(MockKeys(s)))
    PROVE  /\ new \in Seq(T) /\ Len(new) <= Len(events)
           /\ IsInjective(MockKeys(s \o new))
           /\ Range(MockKeys(s \o new)) = Range(MockKeys(s)) \cup Range(MockKeys(new))
<1> DEFINE K == [x \in T |-> MockKey(x)]
<1>1. MockKeys(s) = KeysBy(K, s) /\ MockKeys(events) = KeysBy(K, events)
  BY KeysByKey
<1> HIDE DEF K
<1>2. /\ new \in Seq(T) /\ Len(new) <= Len(events)
      /\ IsInjective(KeysBy(K, s \o new))
      /\ Range(KeysBy(K, s \o new)) = Range(KeysBy(K, s)) \cup Range(KeysBy(K, new))
  BY <1>1, KeysGrow
<1>3. s \o new \in Seq(T)
  BY <1>2, ConcatElement
<1>4. MockKeys(new) = KeysBy(K, new) /\ MockKeys(s \o new) = KeysBy(K, s \o new)
  BY <1>2, <1>3, KeysByKey DEF K
<1> QED BY <1>1, <1>2, <1>4, Zenon

-----------------------------------------------------------------------------
(***************************************************************************)
(* The requests in progress                                                *)
(***************************************************************************)
AnyPath  == Paths \cup {""}
AnyBatch == BatchIds \cup {""}

HandlerType == [pc : Pcs, path : AnyPath, batch : AnyBatch, fresh : BOOLEAN, effect : Effects]

CounterType == [requests : Nat, statuses : Nat, drops : Nat, eventsReceived : Nat,
                eventsAccepted : Nat, eventsDuplicated : Nat, heartbeats : Nat]

(* The words of the code. *)
LEMMA Words ==
    /\ {"idle", "read", "fault", "handle", "written"} \subseteq Pcs
    /\ {"/events", "/heartbeat"} \subseteq Paths
    /\ {"none", "delay", "drop", "status"} \subseteq Effects
    /\ Paths \subseteq AnyPath /\ BatchIds \subseteq AnyBatch
BY Zenon DEF Pcs, Paths, Effects, AnyPath, AnyBatch

(* A heartbeat has no batch. *)
LEMMA NoBatch == "" \in AnyBatch /\ "" \in AnyPath
BY Zenon DEF AnyPath, AnyBatch

(* A goroutine that is idle, and one that has just been started. *)
LEMMA IdleType == Idle \in HandlerType
BY Words, NoBatch DEF Idle, HandlerType

(* What Arrive makes of it. *)
Started(path, b) == [Idle EXCEPT !.pc = "read", !.path = path, !.batch = b]

(* A request that has just come. *)
LEMMA ArriveType ==
    ASSUME NEW path \in Paths, NEW b \in AnyBatch, NEW q, q = Started(path, b)
    PROVE  q \in HandlerType /\ q.pc = "read" /\ q.path = path /\ q.batch = b /\ q.fresh = TRUE
<1> DEFINE p  == [Idle EXCEPT !.pc = "read"]
           pp == [p EXCEPT !.path = path]
<1>1. q = [pp EXCEPT !.batch = b]
  BY DEF Started
<1>2. p \in HandlerType /\ p.pc = "read" /\ p.fresh = TRUE
  <2>1. Idle \in HandlerType /\ Idle.fresh = TRUE
    BY IdleType DEF Idle
  <2> QED BY <2>1, Words DEF HandlerType
<1> HIDE DEF p
<1>3. pp \in HandlerType /\ pp.pc = "read" /\ pp.path = path /\ pp.fresh = TRUE
  BY <1>2, Words DEF HandlerType
<1> HIDE DEF pp
<1> QED BY <1>1, <1>3 DEF HandlerType

(* A request that is still in progress after a step. *)
Goes(h, q) ==
    /\ handler' = [handler EXCEPT ![h] = q] /\ strays' = strays
    /\ q \in HandlerType /\ q.pc # "idle"
    /\ q.path = handler[h].path /\ q.batch = handler[h].batch /\ q.fresh = handler[h].fresh

(* What Go does. *)
LEMMA GoGoes ==
    ASSUME handler \in [Handlers -> HandlerType], NEW h \in Handlers, strays' = strays,
           NEW pc \in Pcs, pc # "idle", Go(h, pc)
    PROVE  Goes(h, [handler[h] EXCEPT !.pc = pc])
<1> DEFINE q == [handler[h] EXCEPT !.pc = pc]
<1>1. handler' = [handler EXCEPT ![h] = q]
  BY DEF Go
<1>2. q \in HandlerType /\ q.pc = pc
  BY DEF HandlerType
<1>3. q.path = handler[h].path /\ q.batch = handler[h].batch /\ q.fresh = handler[h].fresh
  BY DEF HandlerType
<1> QED BY <1>1, <1>2, <1>3 DEF Goes

(* What takeFault does. *)
LEMMA TakeGoes ==
    ASSUME handler \in [Handlers -> HandlerType], NEW h \in Handlers, strays' = strays,
           NEW x \in Effects,
           handler' = [handler EXCEPT ![h].pc = "fault", ![h].effect = x]
    PROVE  \E q : Goes(h, q)
<1> DEFINE p == [handler[h] EXCEPT !.pc = "fault"]
           q == [p EXCEPT !.effect = x]
<1>1. handler' = [handler EXCEPT ![h] = q]
  OBVIOUS
<1>2. /\ p \in HandlerType /\ p.pc = "fault"
      /\ p.path = handler[h].path /\ p.batch = handler[h].batch /\ p.fresh = handler[h].fresh
  BY Words DEF HandlerType
<1> HIDE DEF p
<1>3. /\ q \in HandlerType /\ q.pc = "fault"
      /\ q.path = p.path /\ q.batch = p.batch /\ q.fresh = p.fresh
  BY <1>2 DEF HandlerType
<1> HIDE DEF q
<1>4. Goes(h, q)
  BY <1>1, <1>2, <1>3 DEF Goes
<1> QED BY <1>4

(* Every step of ServeHTTP leaves the request in progress, or ends it and  *)
(* counts one answer or one dropped connection.                            *)
LEMMA ServeSteps ==
    ASSUME handler \in [Handlers -> HandlerType], stats \in CounterType, fault \in AnyFault,
           NEW h \in Handlers, Serve(h)
    PROVE  /\ HandleEvents(h) \/ stats' \in CounterType
           /\ handler[h].pc # "idle" /\ stats'.requests = stats.requests
           /\ \/ (\E q : Goes(h, q)) /\ stats'.statuses = stats.statuses
                                     /\ stats'.drops = stats.drops
              \/ End(h) /\ stats'.statuses + stats'.drops = stats.statuses + stats.drops + 1
<1> DEFINE Goal == /\ handler[h].pc # "idle" /\ stats'.requests = stats.requests
                   /\ \/ (\E q : Goes(h, q)) /\ stats'.statuses = stats.statuses
                                             /\ stats'.drops = stats.drops
                      \/ End(h) /\ stats'.statuses + stats'.drops = stats.statuses + stats.drops + 1
           Plain == strays' = strays /\ stats' = stats
<1>0. /\ stats.requests \in Nat /\ stats.statuses \in Nat /\ stats.drops \in Nat
      /\ stats.heartbeats \in Nat
  BY DEF CounterType
<1>1. ASSUME NEW pc \in {"handle", "written"}, Go(h, pc), strays' = strays
      PROVE  \E q : Goes(h, q)
  <2>1. pc \in Pcs /\ pc # "idle"
    BY Words
  <2> QED BY <1>1, <2>1, GoGoes
<1>2. CASE Refuse(h) \/ Delayed(h) \/ Inject(h) \/ InvalidBatch(h)
  <2>1. Plain /\ handler[h].pc # "idle" /\ \E pc \in {"handle", "written"} : Go(h, pc)
    BY <1>2 DEF Refuse, Delayed, Inject, InvalidBatch, Write, serverVars
  <2> QED BY <1>1, <2>1
<1>3. CASE TakeFault(h)
  <2>1. Plain /\ handler[h].pc # "idle"
    BY <1>3 DEF TakeFault
  <2>2. Go(h, "handle") \/ handler' = [handler EXCEPT ![h].pc = "fault", ![h].effect = fault.effect]
    BY <1>3 DEF TakeFault
  <2>3. fault.effect \in Effects
    BY DEF AnyFault
  <2>4. \E q : Goes(h, q)
    BY <1>1, <2>1, <2>2, <2>3, TakeGoes
  <2> QED BY <2>1, <2>4
<1>4. CASE Drop(h)
  <2>1. End(h) /\ handler[h].pc # "idle" /\ stats' = [stats EXCEPT !.drops = @ + 1]
    BY <1>4 DEF Drop
  <2>2. /\ stats' \in CounterType /\ stats'.requests = stats.requests
        /\ stats'.statuses = stats.statuses /\ stats'.drops = stats.drops + 1
    BY <2>1 DEF CounterType
  <2> QED BY <1>0, <2>1, <2>2
<1>5. CASE Finish(h)
  <2>1. End(h) /\ handler[h].pc # "idle" /\ stats' = [stats EXCEPT !.statuses = @ + 1]
    BY <1>5 DEF Finish
  <2>2. /\ stats' \in CounterType /\ stats'.requests = stats.requests
        /\ stats'.statuses = stats.statuses + 1 /\ stats'.drops = stats.drops
    BY <2>1 DEF CounterType
  <2> QED BY <1>0, <2>1, <2>2
<1>6. CASE HandleHeartbeat(h)
  <2>1. /\ Go(h, "written") /\ strays' = strays /\ handler[h].pc # "idle"
        /\ stats' = [stats EXCEPT !.heartbeats = @ + 1]
    BY <1>6 DEF HandleHeartbeat, Write
  <2>2. /\ stats' \in CounterType /\ stats'.requests = stats.requests
        /\ stats'.statuses = stats.statuses /\ stats'.drops = stats.drops
    BY <2>1 DEF CounterType
  <2> QED BY <1>1, <2>1, <2>2
<1>7. CASE HandleEvents(h)
  <2>1. /\ Go(h, "written") /\ strays' = strays /\ handler[h].pc # "idle"
        /\ \E a, b, c : stats' = [stats EXCEPT !.eventsReceived = a, !.eventsAccepted = b,
                                               !.eventsDuplicated = c]
    BY <1>7, Zenon DEF HandleEvents, Write
  <2>2. /\ stats'.requests = stats.requests
        /\ stats'.statuses = stats.statuses /\ stats'.drops = stats.drops
    BY <2>1 DEF CounterType
  <2> QED BY <1>1, <1>7, <2>1, <2>2
<1> QED BY <1>2, <1>3, <1>4, <1>5, <1>6, <1>7 DEF Serve

(* The requests in progress that no Reset has forgotten. *)
Fresh == {h \in Handlers : handler[h].pc # "idle" /\ handler[h].fresh}

(* Every step keeps the requests in progress and their accounts. *)
LEMMA RequestsStep ==
    ASSUME handler \in [Handlers -> HandlerType], stats \in CounterType, fault \in AnyFault,
           strays \in Nat, RequestSound, Accounted, [Next]_vars
    PROVE  /\ handler' \in [Handlers -> HandlerType] /\ strays' \in Nat
           /\ RequestSound' /\ Accounted'
<1> DEFINE n  == Cardinality(Fresh)
           nn == Cardinality(Fresh')
           Goal == /\ handler' \in [Handlers -> HandlerType] /\ strays' \in Nat /\ RequestSound'
                   /\ stats'.requests + strays' = stats'.statuses + stats'.drops + nn
<1>1. SUFFICES Goal
  BY DEF Accounted, Fresh
<1>2. IsFiniteSet(Fresh) /\ n \in Nat
  <2>1. Fresh \subseteq Handlers
    BY DEF Fresh
  <2> QED BY <2>1, MockAssumption, FS_Subset, FS_CardinalityType
<1>3. stats.requests + strays = stats.statuses + stats.drops + n
  BY DEF Accounted, Fresh
<1> HIDE DEF n, nn
<1>4. stats.requests \in Nat /\ stats.statuses \in Nat /\ stats.drops \in Nat
  BY DEF CounterType
<1>5. ASSUME NEW h \in Handlers, NEW q \in HandlerType, handler' = [handler EXCEPT ![h] = q],
             q.path = "/events" => q.batch \in BatchIds
      PROVE  /\ handler' \in [Handlers -> HandlerType] /\ RequestSound'
             /\ Fresh' = IF q.pc # "idle" /\ q.fresh THEN Fresh \cup {h} ELSE Fresh \ {h}
  <2>1. handler' \in [Handlers -> HandlerType]
    BY <1>5
  <2>2. handler'[h] = q /\ \A g \in Handlers \ {h} : handler'[g] = handler[g]
    BY <1>5
  <2>3. RequestSound'
    BY <1>5, <2>2 DEF RequestSound
  <2>4. Fresh' = IF q.pc # "idle" /\ q.fresh THEN Fresh \cup {h} ELSE Fresh \ {h}
    BY <2>2 DEF Fresh
  <2> QED BY <2>1, <2>3, <2>4
<1>6. ASSUME NEW h \in Handlers, NEW path \in Paths, NEW b \in AnyBatch,
             path = "/events" => b \in BatchIds, Arrive(h, path, b)
      PROVE  Goal
  <2> DEFINE q == Started(path, b)
  <2>1. handler' = [handler EXCEPT ![h] = q] /\ handler[h].pc = "idle" /\ strays' = strays
    BY <1>6 DEF Arrive, Started
  <2>2. /\ stats'.requests = stats.requests + 1 /\ stats'.statuses = stats.statuses
        /\ stats'.drops = stats.drops
    BY <1>6 DEF Arrive, CounterType
  <2>3. q \in HandlerType /\ q.pc = "read" /\ q.path = path /\ q.batch = b /\ q.fresh = TRUE
    BY ArriveType
  <2> HIDE DEF q
  <2>4. /\ handler' \in [Handlers -> HandlerType] /\ RequestSound'
        /\ Fresh' = Fresh \cup {h}
    BY <1>5, <1>6, <2>1, <2>3
  <2>5. h \notin Fresh
    BY <2>1 DEF Fresh
  <2>6. nn = n + 1
    BY <1>2, <2>4, <2>5, FS_AddElement DEF n, nn
  <2>7. stats'.requests + strays' = stats'.statuses + stats'.drops + nn
    <3>1. strays' = strays
      BY <2>1
    <3>2. n \in Nat
      BY <1>2
    <3> QED BY <1>3, <1>4, <2>2, <2>6, <3>1, <3>2
  <2> QED BY <2>1, <2>4, <2>7
<1>7. ASSUME NEW h \in Handlers, Serve(h) PROVE Goal
  <2>1. /\ handler[h].pc # "idle" /\ stats'.requests = stats.requests
        /\ \/ (\E q : Goes(h, q)) /\ stats'.statuses = stats.statuses
                                  /\ stats'.drops = stats.drops
           \/ End(h) /\ stats'.statuses + stats'.drops = stats.statuses + stats.drops + 1
    BY <1>7, ServeSteps
  <2>2. CASE (\E q : Goes(h, q)) /\ stats'.statuses = stats.statuses /\ stats'.drops = stats.drops
    <3>1. PICK q : Goes(h, q)
      BY <2>2
    <3>2. /\ q \in HandlerType /\ handler' = [handler EXCEPT ![h] = q] /\ strays' = strays
          /\ q.path = "/events" => q.batch \in BatchIds
          /\ q.pc # "idle" /\ q.fresh = handler[h].fresh
      BY <3>1 DEF Goes, RequestSound
    <3>3. /\ handler' \in [Handlers -> HandlerType] /\ RequestSound'
          /\ Fresh' = IF q.fresh THEN Fresh \cup {h} ELSE Fresh \ {h}
      BY <1>5, <3>2
    <3>4. Fresh' = Fresh
      BY <2>1, <3>2, <3>3 DEF Fresh
    <3>5. stats'.requests + strays' = stats'.statuses + stats'.drops + nn
      BY <1>3, <2>1, <2>2, <3>2, <3>4 DEF n, nn
    <3> QED BY <3>2, <3>3, <3>5
  <2>3. CASE End(h) /\ stats'.statuses + stats'.drops = stats.statuses + stats.drops + 1
    <3>1. /\ handler' = [handler EXCEPT ![h] = Idle]
          /\ strays' = IF handler[h].fresh THEN strays ELSE strays + 1
      BY <2>3 DEF End
    <3>2. Idle \in HandlerType /\ Idle.path # "/events" /\ Idle.pc = "idle"
      BY IdleType DEF Idle
    <3>3. /\ handler' \in [Handlers -> HandlerType] /\ RequestSound'
          /\ Fresh' = Fresh \ {h}
      BY <1>5, <3>1, <3>2
    <3>4. CASE handler[h].fresh
      <4>1. h \in Fresh
        BY <2>1, <3>4 DEF Fresh
      <4>2. nn = n - 1
        BY <1>2, <3>3, <4>1, FS_RemoveElement DEF n, nn
      <4>3. stats'.requests + strays' = stats'.statuses + stats'.drops + nn
        <5>1. strays' = strays
          BY <3>1, <3>4
        <5>2. stats'.requests = stats.requests
          BY <2>1
        <5> QED BY <1>2, <1>3, <1>4, <2>3, <4>2, <5>1, <5>2
      <4> QED BY <3>1, <3>3, <3>4, <4>3
    <3>5. CASE ~handler[h].fresh
      <4>1. Fresh' = Fresh
        BY <3>3, <3>5 DEF Fresh
      <4>2. nn = n
        BY <4>1 DEF n, nn
      <4>3. strays' = strays + 1
        BY <3>1, <3>5
      <4>4. stats'.requests + strays' = stats'.statuses + stats'.drops + nn
        BY <1>2, <1>3, <1>4, <2>1, <2>3, <4>2, <4>3
      <4> QED BY <3>3, <4>3, <4>4
    <3> QED BY <3>4, <3>5
  <2> QED BY <2>1, <2>2, <2>3
<1>8. ASSUME NEW f, SetFault(f) PROVE Goal
  <2>1. handler' = handler /\ stats' = stats /\ strays' = strays
    BY <1>8 DEF SetFault
  <2>2. RequestSound' /\ Fresh' = Fresh
    BY <2>1 DEF RequestSound, Fresh
  <2> QED BY <1>3, <2>1, <2>2 DEF n, nn
<1>9. CASE Reset
  <2>1. /\ stats' = NoStats /\ strays' = 0
        /\ handler' = [h \in Handlers |-> [handler[h] EXCEPT !.fresh = (handler[h].pc = "idle")]]
    BY <1>9 DEF Reset
  <2>2. \A h \in Handlers :
           /\ handler'[h] \in HandlerType /\ handler'[h].fresh = (handler[h].pc = "idle")
           /\ handler'[h].pc = handler[h].pc
           /\ handler'[h].path = handler[h].path /\ handler'[h].batch = handler[h].batch
    <3> TAKE h \in Handlers
    <3>1. handler'[h] = [handler[h] EXCEPT !.fresh = (handler[h].pc = "idle")]
      BY <2>1
    <3> DEFINE x == (handler[h].pc = "idle")
    <3>2. x \in BOOLEAN /\ handler'[h] = [handler[h] EXCEPT !.fresh = x]
      BY <3>1
    <3> HIDE DEF x
    <3>3. /\ handler'[h] \in HandlerType /\ handler'[h].fresh = x /\ handler'[h].pc = handler[h].pc
          /\ handler'[h].path = handler[h].path /\ handler'[h].batch = handler[h].batch
      BY <3>2 DEF HandlerType
    <3> QED BY <3>3 DEF x
  <2>3. handler' \in [Handlers -> HandlerType]
    BY <2>1, <2>2
  <2>4. RequestSound'
    BY <2>2 DEF RequestSound
  <2>5. Fresh' = {}
    BY <2>2 DEF Fresh
  <2>6. nn = 0
    BY <2>5, FS_EmptySet DEF nn
  <2>7. stats'.requests = 0 /\ stats'.statuses = 0 /\ stats'.drops = 0
    BY <2>1 DEF NoStats
  <2> QED BY <2>1, <2>3, <2>4, <2>6, <2>7
<1>10. CASE UNCHANGED vars
  <2>1. handler' = handler /\ stats' = stats /\ strays' = strays
    BY <1>10 DEF vars, serverVars
  <2>2. RequestSound' /\ Fresh' = Fresh
    BY <2>1 DEF RequestSound, Fresh
  <2> QED BY <1>3, <2>1, <2>2 DEF n, nn
<1>11. ASSUME NEW h \in Handlers, NEW b \in BatchIds, Arrive(h, "/events", b) PROVE Goal
  BY <1>6, <1>11, Words
<1>12. ASSUME NEW h \in Handlers, Arrive(h, "/heartbeat", "") PROVE Goal
  <2>1. "/heartbeat" \in Paths /\ "/heartbeat" # "/events"
    BY Words
  <2> QED BY <1>6, <1>12, <2>1, NoBatch, Zenon
<1> QED BY <1>7, <1>8, <1>9, <1>10, <1>11, <1>12 DEF Next

-----------------------------------------------------------------------------
(***************************************************************************)
(* The fault                                                               *)
(***************************************************************************)

(* The fault that is none, and one use of a fault. *)
LEMMA UsedIs ==
    ASSUME NEW f \in AnyFault
    PROVE  /\ NoFault \in AnyFault /\ NoFault.count = 0
           /\ Used(f) \in AnyFault
           /\ f.count > 0 => /\ Used(f).count = f.count - 1
                             /\ Used(f).count = 0 => Used(f) = NoFault
           /\ f.count = 0 => Used(f) = f
<1>1. NoFault \in AnyFault /\ NoFault.count = 0
  BY Words DEF NoFault, AnyFault
<1>2. f.count \in Nat
  BY DEF AnyFault
<1>3. CASE f.count = 0
  <2>1. Used(f) = f
    BY <1>3 DEF Used
  <2> QED BY <1>1, <1>3, <2>1
<1>4. CASE f.count = 1
  <2>1. Used(f) = NoFault
    BY <1>4 DEF Used
  <2> QED BY <1>1, <1>4, <2>1
<1>5. CASE f.count > 1
  <2>1. Used(f) = [f EXCEPT !.count = @ - 1]
    BY <1>2, <1>5 DEF Used
  <2>2. f.count - 1 \in Nat /\ f.count - 1 # 0
    BY <1>2, <1>5
  <2>3. Used(f) \in AnyFault /\ Used(f).count = f.count - 1
    BY <2>1, <2>2 DEF AnyFault
  <2> QED BY <1>1, <1>5, <2>2, <2>3
<1> QED BY <1>2, <1>3, <1>4, <1>5

(* Steps that do not touch the fault. *)
LEMMA FaultKept ==
    ASSUME NEW h \in Handlers, Serve(h), ~TakeFault(h)
    PROVE  UNCHANGED <<fault, injected>>
BY DEF Serve, Refuse, Delayed, Drop, Inject, Finish, HandleEvents, InvalidBatch, HandleHeartbeat,
       serverVars

(* Every step keeps the account of a fault that counts. *)
LEMMA FaultStep ==
    ASSUME fault \in AnyFault, injected \in [fault : AnyFault, taken : Nat],
           FaultExact, UsedUp, [Next]_vars
    PROVE  /\ fault' \in AnyFault /\ injected' \in [fault : AnyFault, taken : Nat]
           /\ FaultExact' /\ UsedUp'
<1> DEFINE Goal == /\ fault' \in AnyFault /\ injected' \in [fault : AnyFault, taken : Nat]
                   /\ FaultExact' /\ UsedUp'
<1>0. /\ fault.count \in Nat /\ injected.taken \in Nat /\ injected.fault.count \in Nat
      /\ injected.fault \in AnyFault
  BY DEF AnyFault
<1>1. ASSUME UNCHANGED <<fault, injected>> PROVE Goal
  BY <1>1 DEF FaultExact, UsedUp
<1>2. ASSUME NEW h \in Handlers, TakeFault(h) PROVE Goal
  <2>1. CASE Applies(handler[h].path)
    <3>1. /\ fault' = Used(fault) /\ injected' = [injected EXCEPT !.taken = @ + 1]
          /\ fault # NoFault
      BY <1>2, <2>1 DEF TakeFault, Applies, NoFault
    <3>2. /\ injected' \in [fault : AnyFault, taken : Nat]
          /\ injected'.fault = injected.fault /\ injected'.taken = injected.taken + 1
      BY <1>0, <3>1
    <3>3. CASE fault.count = 0
      <4>1. fault' = fault
        BY <3>1, <3>3, UsedIs
      <4>2. injected'.fault.count = 0
        BY <1>0, <3>1, <3>2, <3>3 DEF UsedUp
      <4>3. FaultExact' /\ UsedUp'
        BY <4>2 DEF FaultExact, UsedUp
      <4> QED BY <3>2, <4>1, <4>3
    <3>4. CASE fault.count > 0
      <4>1. /\ fault' \in AnyFault /\ fault'.count = fault.count - 1
            /\ fault'.count = 0 => fault' = NoFault
        BY <3>1, <3>4, UsedIs
      <4>2. FaultExact'
        BY <1>0, <3>2, <3>4, <4>1 DEF FaultExact
      <4>3. UsedUp'
        BY <4>1 DEF UsedUp
      <4> QED BY <3>2, <4>1, <4>2, <4>3
    <3> QED BY <1>0, <3>3, <3>4
  <2>2. CASE ~Applies(handler[h].path)
    <3>1. UNCHANGED <<fault, injected>>
      BY <1>2, <2>2 DEF TakeFault
    <3> QED BY <1>1, <3>1
  <2> QED BY <2>1, <2>2
<1>3. ASSUME NEW h \in Handlers, Serve(h) PROVE Goal
  BY <1>1, <1>2, <1>3, FaultKept
<1>4. ASSUME NEW h \in Handlers, NEW path, NEW b, Arrive(h, path, b) PROVE Goal
  <2>1. UNCHANGED <<fault, injected>>
    BY <1>4 DEF Arrive
  <2> QED BY <1>1, <2>1
<1>5. ASSUME NEW f \in AnyFault, fault' = f, injected' = [fault |-> f, taken |-> 0] PROVE Goal
  <2>1. f.count \in Nat /\ injected'.fault = f /\ injected'.taken = 0
    BY <1>5 DEF AnyFault
  <2>2. FaultExact' /\ UsedUp'
    BY <1>5, <2>1 DEF FaultExact, UsedUp
  <2> QED BY <1>5, <2>2
<1>6. ASSUME NEW f \in Faults \cup {NoFault}, SetFault(f) PROVE Goal
  <2>1. f \in AnyFault
    BY MockAssumption, UsedIs
  <2> QED BY <1>5, <1>6, <2>1 DEF SetFault
<1>7. CASE Reset
  <2>1. NoFault \in AnyFault
    BY UsedIs
  <2> QED BY <1>5, <1>7, <2>1 DEF Reset
<1>8. CASE UNCHANGED vars
  <2>1. UNCHANGED <<fault, injected>>
    BY <1>8 DEF vars, serverVars
  <2> QED BY <1>1, <2>1
<1>9. ASSUME NEW h \in Handlers,
             (\E b \in BatchIds : Arrive(h, "/events", b)) \/ Arrive(h, "/heartbeat", "")
      PROVE  Goal
  BY <1>4, <1>9, Zenon
<1> QED BY <1>3, <1>6, <1>7, <1>8, <1>9 DEF Next

-----------------------------------------------------------------------------
(***************************************************************************)
(* The events                                                              *)
(***************************************************************************)

(* The part of the invariant that is about events: what TypeOK says of     *)
(* them, and the keys.                                                     *)
EventsInv ==
    /\ batches \subseteq BatchIds /\ accepted \in Seq(Sent) /\ rows \in Seq(Sent)
    /\ keys = Range(MockKeys(accepted)) /\ IsInjective(MockKeys(accepted))
    /\ RowsKeyed /\ MockAgrees

(* And the counters of events. *)
EventsCounted ==
    /\ stats \in CounterType
    /\ stats.eventsAccepted = Len(accepted)
    /\ stats.eventsReceived = stats.eventsAccepted + stats.eventsDuplicated

(* What is posted are records, and a batch consists of them. *)
LEMMA PostedIs ==
    ASSUME body \in Bodies
    PROVE  Sent \subseteq Records /\ \A b \in BatchIds : body[b] \in Seq(Sent)
<1>1. \A b \in BatchIds : body[b] \in Seq(Records)
  BY MockAssumption
<1>2. ASSUME NEW b \in BatchIds, NEW i \in DOMAIN body[b]
      PROVE  body[b][i] \in Records /\ body[b][i] \in Sent
  <2>1. body[b][i] \in Records
    BY <1>1, ElementOfSeq, LenProperties
  <2> QED BY <2>1 DEF Sent
<1>3. Sent \subseteq Records
  BY <1>2 DEF Sent
<1>4. ASSUME NEW b \in BatchIds PROVE body[b] \in Seq(Sent)
  <2> DEFINE s == body[b]
  <2>1. s \in Seq(Records)
    BY <1>1
  <2>2. Len(s) \in Nat /\ s = [i \in 1..Len(s) |-> s[i]] /\ DOMAIN s = 1..Len(s)
    BY <2>1, LenProperties
  <2>3. \A i \in 1..Len(s) : s[i] \in Sent
    BY <1>2, <2>2
  <2> HIDE DEF s
  <2>4. s \in Seq(Sent)
    BY <2>2, <2>3, IsASeq
  <2> QED BY <2>4 DEF s
<1> QED BY <1>3, <1>4

(* Without numbers, both ends take the same keys of a sequence. *)
LEMMA SameKeys ==
    ASSUME body \in Bodies, \A e \in Sent : e.parsed.id.json \notin {"number", "true"},
           NEW s \in Seq(Sent)
    PROVE  MockKeys(s) = CollectorKeys(s)
<1>1. \A i \in DOMAIN s : s[i] \in Sent /\ s[i] \in Records
  BY PostedIs, ElementOfSeq, LenProperties
<1>2. \A i \in DOMAIN s : MockKey(s[i]) = CollectorKey(s[i])
  BY <1>1, KeysAgree
<1> QED BY <1>2 DEF MockKeys, CollectorKeys

(* A batch that came before changes nothing but a counter. *)
LEMMA NothingNew ==
    ASSUME NEW T, NEW s \in Seq(T)
    PROVE  s \o << >> = s /\ Range(MockKeys(<< >>)) = {} /\ Len(<< >>) = 0
<1>1. s \o << >> = s
  BY ConcatEmptySeq
<1>2. DOMAIN MockKeys(<< >>) = {}
  BY DEF MockKeys
<1> QED BY <1>1, <1>2 DEF Range

(* The counters of events, x = y + z, and a batch of l events, m of them   *)
(* new.                                                                    *)
LEMMA CountEvents ==
    ASSUME NEW x \in Nat, NEW y \in Nat, NEW z \in Nat, x = y + z,
           NEW l \in Nat, NEW m \in Nat, m <= l
    PROVE  x + l \in Nat /\ y + m \in Nat /\ z + l - m \in Nat /\ x + l = (y + m) + (z + l - m)
OBVIOUS

(* handleEvents, and SaveEvents for the same batch. *)
LEMMA HandleEventsStep ==
    ASSUME body \in Bodies, EventsInv, EventsCounted, RequestSound,
           handler \in [Handlers -> HandlerType], NEW h \in Handlers, HandleEvents(h)
    PROVE  EventsInv' /\ EventsCounted'
<1> DEFINE b      == handler[h].batch
           events == body[b]
           new    == IF b \in batches THEN << >> ELSE NewEvents(events, MockKeys(events), keys)
           added  == NewEvents(events, CollectorKeys(events), Range(CollectorKeys(rows)))
<1>1. /\ handler[h].path = "/events" /\ body' = body /\ batches' = batches \cup {b}
      /\ keys' = keys \cup Range(MockKeys(new)) /\ accepted' = accepted \o new
      /\ rows' = IF b \in batches THEN rows ELSE rows \o added
      /\ stats' = [stats EXCEPT !.eventsReceived = @ + Len(events),
                                !.eventsAccepted = @ + Len(new),
                                !.eventsDuplicated = @ + Len(events) - Len(new)]
  BY DEF HandleEvents
<1>2. b \in BatchIds /\ Sent' = Sent
  BY <1>1 DEF RequestSound, Sent
<1>3. /\ events \in Seq(Sent) /\ Len(events) \in Nat
      /\ accepted \in Seq(Sent) /\ rows \in Seq(Sent)
  BY <1>2, PostedIs, LenProperties DEF EventsInv
<1>4. /\ new \in Seq(Sent) /\ Len(new) \in Nat /\ Len(new) <= Len(events)
      /\ IsInjective(MockKeys(accepted \o new))
      /\ Range(MockKeys(accepted \o new)) = keys \cup Range(MockKeys(new))
  <2>1. CASE b \in batches
    <3>1. new = << >>
      BY <2>1
    <3>2. accepted \o new = accepted /\ Range(MockKeys(new)) = {} /\ Len(new) = 0
      BY <1>3, <3>1, NothingNew, Zenon
    <3> HIDE DEF new
    <3>3. new \in Seq(Sent)
      BY <3>1
    <3> QED BY <1>3, <3>2, <3>3 DEF EventsInv
  <2>2. CASE b \notin batches
    <3>1. new = NewEvents(events, MockKeys(events), Range(MockKeys(accepted)))
      BY <2>2 DEF EventsInv
    <3> HIDE DEF new, events
    <3>2. /\ new \in Seq(Sent) /\ Len(new) <= Len(events)
          /\ IsInjective(MockKeys(accepted \o new))
          /\ Range(MockKeys(accepted \o new)) = Range(MockKeys(accepted)) \cup Range(MockKeys(new))
      BY <1>3, <3>1, AcceptedGrows DEF EventsInv
    <3>3. Len(new) \in Nat
      BY <3>2, LenProperties
    <3> QED BY <3>2, <3>3 DEF EventsInv
  <2> QED BY <2>1, <2>2
<1>5. b \notin batches =>
         /\ added \in Seq(Sent) /\ IsInjective(CollectorKeys(rows \o added))
         /\ Range(CollectorKeys(rows)) \subseteq Range(CollectorKeys(rows \o added))
         /\ Range(CollectorKeys(events)) \subseteq Range(CollectorKeys(rows \o added))
  <2>1. added = NewEvents(events, CollectorKeys(events), Range(CollectorKeys(rows)))
    OBVIOUS
  <2> HIDE DEF added, events
  <2> QED BY <1>3, <2>1, RowsGrow DEF EventsInv, RowsKeyed
<1>6. MockAgrees'
  <2> SUFFICES ASSUME \A e \in Sent : e.parsed.id.json \notin {"number", "true"}
               PROVE  accepted' = rows'
    BY <1>2 DEF MockAgrees
  <2>1. accepted = rows
    BY DEF EventsInv, MockAgrees
  <2>2. CASE b \in batches
    <3>1. accepted' = accepted
      BY <1>1, <1>3, <2>2, NothingNew, Zenon
    <3> QED BY <1>1, <2>1, <2>2, <3>1
  <2>3. CASE b \notin batches
    <3>1. MockKeys(events) = CollectorKeys(events) /\ MockKeys(rows) = CollectorKeys(rows)
      BY <1>3, SameKeys
    <3>2. keys = Range(CollectorKeys(rows))
      BY <2>1, <3>1 DEF EventsInv
    <3>3. new = added
      BY <2>3, <3>1, <3>2
    <3> HIDE DEF new, added
    <3> QED BY <1>1, <2>1, <2>3, <3>3
  <2> QED BY <2>2, <2>3
<1>7. RowsKeyed'
  <2>1. CASE b \in batches
    <3>1. rows' = rows /\ batches' = batches
      BY <1>1, <2>1
    <3> QED BY <1>1, <3>1 DEF RowsKeyed, EventsInv
  <2>2. CASE b \notin batches
    <3>1. rows' = rows \o added
      BY <1>1, <2>2
    <3> HIDE DEF added
    <3>2. IsInjective(CollectorKeys(rows'))
      BY <1>5, <2>2, <3>1
    <3>3. ASSUME NEW c \in batches'
          PROVE  Range(CollectorKeys(body[c])) \subseteq Range(CollectorKeys(rows'))
      <4>1. CASE c = b
        BY <1>5, <2>2, <3>1, <4>1
      <4>2. CASE c \in batches
        <5>1. Range(CollectorKeys(body[c])) \subseteq Range(CollectorKeys(rows))
          BY <4>2 DEF EventsInv, RowsKeyed
        <5> QED BY <1>5, <2>2, <3>1, <5>1
      <4> QED BY <1>1, <4>1, <4>2
    <3> QED BY <1>1, <3>2, <3>3 DEF RowsKeyed
  <2> QED BY <2>1, <2>2
<1>8. rows' \in Seq(Sent) /\ accepted' \in Seq(Sent) /\ Len(accepted') = Len(accepted) + Len(new)
  <2> HIDE DEF new, added, events
  <2>1. accepted' \in Seq(Sent) /\ Len(accepted') = Len(accepted) + Len(new)
    BY <1>1, <1>3, <1>4, ConcatElement
  <2>2. rows' \in Seq(Sent)
    BY <1>1, <1>3, <1>5, ConcatElement
  <2> QED BY <2>1, <2>2
<1> HIDE DEF new, added, events
<1>9. EventsInv'
  <2>1. batches' \subseteq BatchIds
    BY <1>1, <1>2 DEF EventsInv
  <2>2. keys' = Range(MockKeys(accepted')) /\ IsInjective(MockKeys(accepted'))
    BY <1>1, <1>4
  <2> QED BY <1>2, <1>6, <1>7, <1>8, <2>1, <2>2 DEF EventsInv
<1>10. EventsCounted'
  <2> DEFINE r == stats.eventsReceived + Len(events)
             a == stats.eventsAccepted + Len(new)
             c == stats.eventsDuplicated + Len(events) - Len(new)
  <2>1. /\ stats.eventsReceived \in Nat /\ stats.eventsAccepted \in Nat
        /\ stats.eventsDuplicated \in Nat /\ stats \in CounterType
        /\ stats.eventsAccepted = Len(accepted)
        /\ stats.eventsReceived = stats.eventsAccepted + stats.eventsDuplicated
    BY DEF EventsCounted, CounterType
  <2>2. r \in Nat /\ a \in Nat /\ c \in Nat /\ r = a + c /\ a = Len(accepted')
    <3> DEFINE l == Len(events)  m == Len(new)
    <3>1. l \in Nat /\ m \in Nat /\ m <= l
      BY <1>3, <1>4
    <3>2. Len(accepted') = stats.eventsAccepted + m
      BY <1>8, <2>1
    <3> HIDE DEF l, m
    <3>3. /\ stats.eventsReceived + l \in Nat /\ stats.eventsAccepted + m \in Nat
          /\ stats.eventsDuplicated + l - m \in Nat
          /\ stats.eventsReceived + l = (stats.eventsAccepted + m) + (stats.eventsDuplicated + l - m)
      <4> DEFINE x == stats.eventsReceived  y == stats.eventsAccepted
                 z == stats.eventsDuplicated
      <4>1. x \in Nat /\ y \in Nat /\ z \in Nat /\ x = y + z
        BY <2>1
      <4> HIDE DEF x, y, z
      <4>2. x + l \in Nat /\ y + m \in Nat /\ z + l - m \in Nat /\ x + l = (y + m) + (z + l - m)
        BY <3>1, <4>1, CountEvents
      <4> QED BY <4>2 DEF x, y, z
    <3> QED BY <3>2, <3>3 DEF l, m
  <2>3. stats' = [stats EXCEPT !.eventsReceived = r, !.eventsAccepted = a, !.eventsDuplicated = c]
    BY <1>1
  <2> HIDE DEF r, a, c
  <2>4. /\ stats' \in CounterType /\ stats'.eventsReceived = r /\ stats'.eventsAccepted = a
        /\ stats'.eventsDuplicated = c
    BY <2>1, <2>2, <2>3 DEF CounterType
  <2> QED BY <2>2, <2>4 DEF EventsCounted
<1> QED BY <1>9, <1>10

(* A step that stores nothing. *)
EventsKept ==
    /\ UNCHANGED <<body, batches, keys, accepted, rows>> /\ stats' \in CounterType
    /\ stats'.eventsReceived = stats.eventsReceived
    /\ stats'.eventsAccepted = stats.eventsAccepted
    /\ stats'.eventsDuplicated = stats.eventsDuplicated

(* Such a step keeps what is said of the events, ... *)
LEMMA KeptStep ==
    ASSUME EventsInv, EventsCounted, EventsKept
    PROVE  EventsInv' /\ EventsCounted'
<1>1. Sent' = Sent
  BY DEF EventsKept, Sent
<1>2. RowsKeyed' /\ MockAgrees'
  BY <1>1 DEF EventsKept, EventsInv, RowsKeyed, MockAgrees
<1>3. EventsInv'
  BY <1>1, <1>2 DEF EventsKept, EventsInv
<1>4. EventsCounted'
  BY DEF EventsKept, EventsCounted
<1> QED BY <1>3, <1>4

(* ... and all steps of ServeHTTP but one are such. *)
LEMMA ServeKeeps ==
    ASSUME stats \in CounterType, NEW h \in Handlers, Serve(h), ~HandleEvents(h)
    PROVE  EventsKept
<1>1. CASE Refuse(h) \/ TakeFault(h) \/ Delayed(h) \/ Inject(h) \/ InvalidBatch(h)
  <2>1. UNCHANGED <<body, batches, keys, accepted, rows, stats>>
    BY <1>1 DEF Refuse, TakeFault, Delayed, Inject, InvalidBatch, serverVars
  <2> QED BY <2>1 DEF EventsKept
<1>2. CASE Drop(h)
  <2>1. /\ UNCHANGED <<body, batches, keys, accepted, rows>>
        /\ stats' = [stats EXCEPT !.drops = @ + 1]
    BY <1>2 DEF Drop
  <2> QED BY <2>1 DEF EventsKept, CounterType
<1>3. CASE Finish(h)
  <2>1. /\ UNCHANGED <<body, batches, keys, accepted, rows>>
        /\ stats' = [stats EXCEPT !.statuses = @ + 1]
    BY <1>3 DEF Finish
  <2> QED BY <2>1 DEF EventsKept, CounterType
<1>4. CASE HandleHeartbeat(h)
  <2>1. /\ UNCHANGED <<body, batches, keys, accepted, rows>>
        /\ stats' = [stats EXCEPT !.heartbeats = @ + 1]
    BY <1>4 DEF HandleHeartbeat
  <2> QED BY <2>1 DEF EventsKept, CounterType
<1> QED BY <1>1, <1>2, <1>3, <1>4 DEF Serve

(* The keys of nothing. *)
LEMMA NoKeys ==
    /\ Range(MockKeys(<< >>)) = {} /\ IsInjective(MockKeys(<< >>))
    /\ IsInjective(CollectorKeys(<< >>))
    /\ Len(<< >>) = 0 /\ \A T : << >> \in Seq(T)
<1>1. Len(<< >>) = 0 /\ DOMAIN << >> = {} /\ \A T : << >> \in Seq(T)
  OBVIOUS
<1> QED BY <1>1 DEF Range, IsInjective, MockKeys, CollectorKeys

(* Nothing is stored before the first request, ... *)
LEMMA NothingStored ==
    ASSUME stats = NoStats, batches = {}, keys = {}, accepted = << >>, rows = << >>
    PROVE  EventsInv /\ EventsCounted
<1>1. stats \in CounterType /\ EventsCounted
  BY NoKeys DEF EventsCounted, CounterType, NoStats
<1>2. EventsInv
  BY NoKeys DEF EventsInv, RowsKeyed, MockAgrees
<1> QED BY <1>1, <1>2

(* ... and after a Reset. *)
LEMMA NothingLeft ==
    ASSUME Reset
    PROVE  EventsInv' /\ EventsCounted'
<1>1. stats' = NoStats /\ batches' = {} /\ keys' = {} /\ accepted' = << >> /\ rows' = << >>
  BY DEF Reset
<1>2. EventsCounted'
  BY <1>1, NoKeys DEF EventsCounted, CounterType, NoStats
<1>3. RowsKeyed' /\ MockAgrees'
  BY <1>1, NoKeys DEF RowsKeyed, MockAgrees
<1>4. EventsInv'
  BY <1>1, <1>3, NoKeys DEF EventsInv
<1> QED BY <1>2, <1>4

(* Every step keeps what is said of the events. *)
LEMMA EventsStep ==
    ASSUME body \in Bodies, EventsInv, EventsCounted, RequestSound,
           handler \in [Handlers -> HandlerType], [Next]_vars
    PROVE  body' \in Bodies /\ EventsInv' /\ EventsCounted'
<1> DEFINE Goal == body' \in Bodies /\ EventsInv' /\ EventsCounted'
<1>0. stats \in CounterType
  BY DEF EventsCounted
<1>1. ASSUME EventsKept PROVE Goal
  <2>1. body' = body
    BY <1>1 DEF EventsKept
  <2> QED BY <1>1, <2>1, KeptStep
<1>2. ASSUME NEW h \in Handlers, Serve(h) PROVE Goal
  <2>1. CASE HandleEvents(h)
    <3>1. body' = body
      BY <2>1 DEF HandleEvents
    <3> QED BY <2>1, <3>1, HandleEventsStep
  <2>2. CASE ~HandleEvents(h)
    BY <1>0, <1>1, <1>2, <2>2, ServeKeeps
  <2> QED BY <2>1, <2>2
<1>3. ASSUME NEW h \in Handlers, NEW path, NEW b, Arrive(h, path, b) PROVE Goal
  <2>1. /\ UNCHANGED <<body, batches, keys, accepted, rows>>
        /\ stats' = [stats EXCEPT !.requests = @ + 1]
    BY <1>3 DEF Arrive
  <2>2. EventsKept
    BY <1>0, <2>1 DEF EventsKept, CounterType
  <2> QED BY <1>1, <2>2
<1>4. ASSUME NEW f, SetFault(f) PROVE Goal
  <2>1. UNCHANGED <<body, batches, keys, accepted, rows, stats>>
    BY <1>4 DEF SetFault
  <2>2. EventsKept
    BY <1>0, <2>1 DEF EventsKept
  <2> QED BY <1>1, <2>2
<1>5. CASE Reset
  <2>1. body' = body
    BY <1>5 DEF Reset
  <2> QED BY <1>5, <2>1, NothingLeft
<1>6. CASE UNCHANGED vars
  <2>1. UNCHANGED <<body, batches, keys, accepted, rows, stats>>
    BY <1>6 DEF vars, serverVars
  <2>2. EventsKept
    BY <1>0, <2>1 DEF EventsKept
  <2> QED BY <1>1, <2>2
<1>7. ASSUME NEW h \in Handlers,
             (\E b \in BatchIds : Arrive(h, "/events", b)) \/ Arrive(h, "/heartbeat", "")
      PROVE  Goal
  BY <1>3, <1>7, Zenon
<1> QED BY <1>2, <1>4, <1>5, <1>6, <1>7 DEF Next

-----------------------------------------------------------------------------
(***************************************************************************)
(* The invariant                                                           *)
(***************************************************************************)

(* The bounds of the model. *)
Bounds == sent \in 0..MaxRequests /\ controls \in 0..MaxControls

(* The parts of the invariant, as the lemmas above have them. *)
LEMMA MockIInvIs ==
    MockIInv <=> /\ body \in Bodies /\ EventsInv /\ EventsCounted
                 /\ handler \in [Handlers -> HandlerType] /\ strays \in Nat
                 /\ RequestSound /\ Accounted
                 /\ fault \in AnyFault /\ injected \in [fault : AnyFault, taken : Nat]
                 /\ FaultExact /\ UsedUp /\ Bounds
BY Zenon
DEF MockIInv, TypeOK, EventsInv, EventsCounted, HandlerType, AnyPath, AnyBatch, CounterType,
    Bounds

(* No step leaves the bounds. *)
LEMMA BoundsStep ==
    ASSUME Bounds, [Next]_vars
    PROVE  Bounds'
<1>0. MaxRequests \in Nat /\ MaxControls \in Nat
  BY MockAssumption
<1>1. ASSUME NEW h \in Handlers, Serve(h) PROVE Bounds'
  <2>1. UNCHANGED <<sent, controls>>
    BY <1>1 DEF Serve, Refuse, TakeFault, Delayed, Drop, Inject, Finish, HandleEvents,
                InvalidBatch, HandleHeartbeat
  <2> QED BY <2>1 DEF Bounds
<1>2. ASSUME NEW h \in Handlers, NEW path, NEW b, Arrive(h, path, b) PROVE Bounds'
  BY <1>0, <1>2 DEF Arrive, Bounds
<1>3. ASSUME NEW h \in Handlers,
             (\E b \in BatchIds : Arrive(h, "/events", b)) \/ Arrive(h, "/heartbeat", "")
      PROVE  Bounds'
  BY <1>2, <1>3, Zenon
<1>4. ASSUME NEW f, SetFault(f) PROVE Bounds'
  BY <1>0, <1>4 DEF SetFault, Control, Bounds
<1>5. CASE Reset
  BY <1>0, <1>5 DEF Reset, Control, Bounds
<1>6. CASE UNCHANGED vars
  BY <1>6 DEF vars, Bounds
<1> QED BY <1>1, <1>3, <1>4, <1>5, <1>6 DEF Next

(* The invariant holds at the start. *)
LEMMA MockInit ==
    ASSUME Init
    PROVE  MockIInv
<1>1. body \in Bodies /\ EventsInv /\ EventsCounted
  BY NothingStored DEF Init
<1>2. handler = [h \in Handlers |-> Idle] /\ strays = 0
  BY DEF Init
<1>3. handler \in [Handlers -> HandlerType] /\ strays \in Nat
  BY <1>2, IdleType
<1>4. \A h \in Handlers : handler[h].pc = "idle" /\ handler[h].path # "/events"
  BY <1>2, Zenon DEF Idle
<1>5. RequestSound
  BY <1>4 DEF RequestSound
<1>6. Accounted
  <2>1. {h \in Handlers : handler[h].pc # "idle" /\ handler[h].fresh} = {}
    BY <1>4
  <2>2. Cardinality({}) = 0
    BY FS_EmptySet
  <2> QED BY <1>2, <2>1, <2>2 DEF Accounted, Init, NoStats
<1>7. fault = NoFault /\ injected = [fault |-> NoFault, taken |-> 0] /\ NoFault \in AnyFault
  BY DEF Init, NoFault, AnyFault, Effects
<1>8. fault \in AnyFault /\ injected \in [fault : AnyFault, taken : Nat] /\ FaultExact /\ UsedUp
  BY <1>7 DEF FaultExact, UsedUp, NoFault
<1>9. Bounds
  BY MockAssumption DEF Init, Bounds
<1> QED BY <1>1, <1>3, <1>5, <1>6, <1>8, <1>9, MockIInvIs

(* Every step keeps it. *)
LEMMA MockStep ==
    ASSUME MockIInv, [Next]_vars
    PROVE  MockIInv'
<1>1. body' \in Bodies /\ EventsInv' /\ EventsCounted'
  BY EventsStep, MockIInvIs
<1>2. stats \in CounterType
  BY MockIInvIs DEF EventsCounted
<1>3. handler' \in [Handlers -> HandlerType] /\ strays' \in Nat /\ RequestSound' /\ Accounted'
  BY <1>2, RequestsStep, MockIInvIs
<1>4. fault' \in AnyFault /\ injected' \in [fault : AnyFault, taken : Nat] /\ FaultExact' /\ UsedUp'
  BY FaultStep, MockIInvIs
<1>5. Bounds'
  BY BoundsStep, MockIInvIs
<1> QED
  BY <1>1, <1>3, <1>4, <1>5, Zenon
  DEF MockIInv, TypeOK, EventsInv, EventsCounted, HandlerType, AnyPath, AnyBatch, CounterType,
      Bounds

(* In every state the keys of the rows are apart, what is said of the      *)
(* fault and the counters holds, and the two stores agree.                 *)
THEOREM MockInductive == Spec => []MockIInv
<1>1. Init => MockIInv
  BY MockInit
<1>2. MockIInv /\ [Next]_vars => MockIInv'
  BY MockStep
<1> QED BY <1>1, <1>2, PTL DEF Spec

-----------------------------------------------------------------------------
(***************************************************************************)
(* What it says                                                            *)
(***************************************************************************)

(* Apart keys are apart events, and an event whose key is there is there.  *)
LEMMA EachOnceIs ==
    ASSUME MockIInv
    PROVE  EachOnce
<1> SUFFICES ASSUME Clear PROVE EachOnce
  BY DEF EachOnce
<1>1. /\ body \in Bodies /\ batches \subseteq BatchIds /\ rows \in Seq(Sent)
      /\ IsInjective(CollectorKeys(rows))
      /\ \A b \in batches : Range(CollectorKeys(body[b])) \subseteq Range(CollectorKeys(rows))
  BY MockIInvIs DEF EventsInv, RowsKeyed
<1>2. \A k \in DOMAIN rows : rows[k] \in Sent
  BY <1>1
<1>3. \A e, f \in Sent : CollectorKey(e) = CollectorKey(f) <=> SameEvent(e, f)
  BY <1>1, PostedIs, KeysTellApart DEF Clear
<1>4. ASSUME NEW b \in batches, NEW i \in DOMAIN body[b]
      PROVE  \E k \in DOMAIN rows : SameEvent(body[b][i], rows[k])
  <2>1. body[b] \in Seq(Sent)
    BY <1>1, PostedIs
  <2>2. body[b][i] \in Sent
    BY <2>1
  <2>3. CollectorKey(body[b][i]) \in Range(CollectorKeys(body[b]))
    BY DEF Range, CollectorKeys
  <2>4. PICK k \in DOMAIN rows : CollectorKey(rows[k]) = CollectorKey(body[b][i])
    BY <1>1, <2>3 DEF Range, CollectorKeys
  <2> QED BY <1>2, <1>3, <2>2, <2>4
<1>5. ASSUME NEW j \in DOMAIN rows, NEW k \in DOMAIN rows, j # k
      PROVE  ~SameEvent(rows[j], rows[k])
  <2>1. CollectorKey(rows[j]) # CollectorKey(rows[k])
    BY <1>1, <1>5 DEF IsInjective, CollectorKeys
  <2> QED BY <1>2, <1>3, <2>1
<1> QED BY <1>4, <1>5 DEF EachOnce

(* The counters of the mock server add up and every accepted event is      *)
(* counted, whatever requests, faults and calls of Reset do at the same    *)
(* time: ServeHTTP, handleEvents and Reset of mockserver.go.               *)
THEOREM CountersAddUp == Spec => []MockInv
<1>1. MockIInv => MockInv
  BY DEF MockIInv, MockInv
<1> QED BY <1>1, MockInductive, PTL

(* eventKey and SaveEvents of store.go keep every event of an acknowledged *)
(* batch, each once, whatever is posted, again and in whatever order, as   *)
(* long as no two events are confused.                                     *)
THEOREM EveryEventStoredOnce == Spec => []EachOnce
<1>1. MockIInv => EachOnce
  BY EachOnceIs
<1> QED BY <1>1, MockInductive, PTL

(* handleEvents of mockserver.go accepts what the collector stores, in the *)
(* same order, unless an event_id is not a string.                         *)
THEOREM MockStandsForCollector == Spec => []MockAgrees
<1>1. MockIInv => MockAgrees
  BY DEF MockIInv
<1> QED BY <1>1, MockInductive, PTL

(* takeFault applies a fault that counts to exactly so many requests.      *)
THEOREM FaultsCount == Spec => []FaultExact
<1>1. MockIInv => FaultExact
  BY DEF MockIInv
<1> QED BY <1>1, MockInductive, PTL
=============================================================================
