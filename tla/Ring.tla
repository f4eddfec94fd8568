-------------------------------- MODULE Ring --------------------------------
(***************************************************************************)
(* RingBuffer (common/ring.h, ring.cpp), as SimplexMemoryStream uses it    *)
(* (common/memory-stream): readers and writers of one vCPU move bytes      *)
(* through a ring of Capacity bytes, one of which stays unused, and wait   *)
(* for each other on two condition variables.                              *)
(***************************************************************************)
EXTENDS Integers, Sequences, FiniteSets

CONSTANTS Reader, Writer,
          Capacity,   \* a power of two
          MaxLen,     \* bound on the length of a call
          MaxPos,     \* bound on the bytes written
          None

VARIABLES rb,    \* m_buf, m_begin, m_end, the two locks, and whether the stream is closed
          th,    \* the threads
          put, got  \* bytes written and read; a byte is known by its number

vars == <<rb, th, put, got>>

Thread == Reader \cup Writer

Init ==
    /\ rb = [buf |-> [i \in 0..Capacity-1 |-> 0], begin |-> 0, end |-> 0,
             rlock |-> None, wlock |-> None, closed |-> FALSE]
    /\ th = [t \in Thread |-> [pc |-> "run", left |-> 0]]
    /\ put = 0 /\ got = <<>>

Empty == rb.begin = rb.end
Full == (rb.end + 1) % Capacity = rb.begin
Least(a, b) == IF a < b THEN a ELSE b
WakeAll(f, pc) == [t \in Thread |-> IF f[t].pc = pc THEN [f[t] EXCEPT !.pc = "again"] ELSE f[t]]

----------------------------------------------------------------------------
\* read() and write() of n bytes on a stream that is open; the lock is taken when it is free.
Call(t, n) ==
    /\ th[t].pc = "run" /\ ~rb.closed
    /\ th' = [th EXCEPT ![t] = [pc |-> "lock", left |-> n]]
    /\ UNCHANGED <<rb, put, got>>

Lock(t) ==
    /\ th[t].pc = "lock"
    /\ IF t \in Reader THEN rb.rlock = None /\ rb' = [rb EXCEPT !.rlock = t]
                       ELSE rb.wlock = None /\ rb' = [rb EXCEPT !.wlock = t]
    /\ th' = [th EXCEPT ![t].pc = "again"]
    /\ UNCHANGED <<put, got>>

Unlocked(t, r) == IF t \in Reader THEN [r EXCEPT !.rlock = None] ELSE [r EXCEPT !.wlock = None]

\* One turn of the loop of do_read(): wait for a byte, or copy a run of them that does not
\* wrap around, and wake the writers.
DoRead(t) ==
    LET stop == IF rb.begin < rb.end THEN rb.end ELSE Capacity
        len == Least(th[t].left, stop - rb.begin)
        b == (rb.begin + len) % Capacity
        done == th[t].left = len
        r == [rb EXCEPT !.begin = b] IN
    /\ t \in Reader /\ th[t].pc = "again"
    /\ IF Empty
       THEN th' = [th EXCEPT ![t].pc = "push"] /\ UNCHANGED <<rb, put, got>>
       ELSE /\ got' = got \o [i \in 1..len |-> rb.buf[rb.begin + i - 1]]
            /\ rb' = IF done THEN Unlocked(t, r) ELSE r
            /\ th' = [WakeAll(th, "pop") EXCEPT ![t] = [pc |-> IF done THEN "run" ELSE "again",
                                                       left |-> th[t].left - len]]
            /\ put' = put

\* fault: the byte that is to stay unused is used when the ring begins at 0
RunEndFull ==
    IF rb.end < rb.begin THEN rb.begin - 1 ELSE Capacity

\* Where a run of bytes to be written has to stop.
RunEnd ==
    IF rb.end < rb.begin THEN rb.begin - 1
    ELSE IF rb.begin = 0 THEN Capacity - 1 ELSE Capacity

\* fault: a writer that has filled the ring wakes no one
DoWriteSilent(t) ==
    LET len == Least(th[t].left, RunEnd - rb.end)
        done == th[t].left = len
        r == [rb EXCEPT !.end = (rb.end + len) % Capacity,
                        !.buf = [i \in 0..Capacity-1 |-> IF i \in rb.end..rb.end+len-1
                                                         THEN put + 1 + i - rb.end ELSE @[i]]] IN
    /\ t \in Writer /\ th[t].pc = "again"
    /\ IF Full
       THEN th' = [th EXCEPT ![t].pc = "pop"] /\ UNCHANGED <<rb, put, got>>
       ELSE /\ rb' = IF done THEN Unlocked(t, r) ELSE r
            /\ put' = put + len
            /\ th' = [(IF done THEN WakeAll(th, "push") ELSE th)
                        EXCEPT ![t] = [pc |-> IF done THEN "run" ELSE "again", left |-> th[t].left - len]]
            /\ got' = got

\* One turn of the loop of do_write().
DoWrite(t) ==
    LET len == Least(th[t].left, RunEnd - rb.end)
        done == th[t].left = len
        r == [rb EXCEPT !.end = (rb.end + len) % Capacity,
                        !.buf = [i \in 0..Capacity-1 |-> IF i \in rb.end..rb.end+len-1
                                                         THEN put + 1 + i - rb.end ELSE @[i]]] IN
    /\ t \in Writer /\ th[t].pc = "again"
    /\ IF Full
       THEN th' = [th EXCEPT ![t].pc = "pop"] /\ UNCHANGED <<rb, put, got>>
       ELSE /\ rb' = IF done THEN Unlocked(t, r) ELSE r
            /\ put' = put + len
            /\ th' = [WakeAll(th, "push") EXCEPT ![t] = [pc |-> IF done THEN "run" ELSE "again",
                                                        left |-> th[t].left - len]]
            /\ got' = got

\* A wait that is interrupted makes the call return what it has done so far.
Interrupted(t) ==
    /\ th[t].pc \in {"push", "pop"}
    /\ th' = [th EXCEPT ![t] = [pc |-> "run", left |-> 0]]
    /\ rb' = Unlocked(t, rb)
    /\ UNCHANGED <<put, got>>

\* close() only refuses the calls that come after it.
Close ==
    /\ ~rb.closed
    /\ rb' = [rb EXCEPT !.closed = TRUE]
    /\ UNCHANGED <<th, put, got>>

Next ==
    \/ \E t \in Thread : \/ Lock(t) \/ DoRead(t) \/ DoWrite(t) \/ Interrupted(t)
                         \/ \E n \in 1..MaxLen : (t \in Writer => put + n <= MaxPos) /\ Call(t, n)
    \/ Close

Spec == Init /\ [][Next]_vars

----------------------------------------------------------------------------
\* The bytes come out in the order they went in, none lost, none twice, whatever the lengths
\* of the calls and wherever the ring wraps around.
BytesInOrder ==
    /\ got = [i \in 1..Len(got) |-> i]
    /\ put - Len(got) = (rb.end - rb.begin) % Capacity

\* No reader waits while there are bytes, no writer while there is room.
NobodyStuck ==
    \A t \in Thread : /\ th[t].pc = "push" => Empty
                      /\ th[t].pc = "pop" => Full
============================================================================
