---------------------------- MODULE MCMockServer ----------------------------
(* Batches b1 = <<e>> and b2 = <<f, e>> for records e and f of one         *)
(* datagram at two times, or of two datagrams at one time.                 *)
EXTENDS MockServer, TLC

CoreIds == {Absent, String(Digits(1)), Number(1), Number(5)}
SomeIds == CoreIds \cup {Null, True, String(Empty), String(Digits(5)), Number(3), Number(4)}

Objects == {d \in Datagrams : d.object /\ d.junk = 0 /\ d.id \in CoreIds}
Lines   == {d \in Datagrams : d.header = "bad"}
Singles == {d \in Datagrams : d.header = "bad" \/ d.junk = 0 \/ d.id = String(Digits(1))}

Pairs == (Objects \X Objects) \cup (Lines \X Lines)

Batches(e, f) == [b \in {"b1", "b2"} |-> IF b = "b1" THEN <<e>> ELSE <<f, e>>]

SomeBodies == {Batches(BuildRecord(p[1], 1), BuildRecord(p[2], 1)) : p \in Pairs}
              \cup {Batches(BuildRecord(d, 1), BuildRecord(d, 2)) : d \in Singles}

SomeFaults == {[effect |-> "drop", count |-> 1, paths |-> {"/events"}],
               [effect |-> "status", count |-> 2, paths |-> {"/events", "/heartbeat"}],
               [effect |-> "delay", count |-> 0, paths |-> {"/events"}],
               [effect |-> "none", count |-> 1, paths |-> {"/events"}]}

Symmetry == Permutations(Handlers)
=============================================================================
