--------------------------- MODULE ThrottledFile ---------------------------
(***************************************************************************)
(* One Throttle of fs/throttled-file.cpp: the semaphore on the number of   *)
(* operations and a StatisticsQueue on their amounts, which threads of one *)
(* vCPU pass before their I/O and leave after it.  A tick stands for the   *)
(* queue's unit of time, Window for the 1024 units of the time window.     *)
(***************************************************************************)
EXTENDS Integers, Sequences, FiniteSets, FiniteSetsExt, SequencesExt

CONSTANTS Thread,
          MaxOps,    \* concurent_ops
          Rate,      \* limit on the amounts in a window
          Window, Capacity, \* of the queue
          Amounts,
          MaxNow     \* bound on the clock

VARIABLES ops,    \* the count of num_io
          q,      \* m_events
          sum,    \* m_sum
          now,
          th,     \* the threads
          done    \* what was admitted at each time, without waiting for room in the queue

vars == <<ops, q, sum, now, th, done>>

Idle == [pc |-> "run", amount |-> 0, until |-> 0]

Init ==
    /\ ops = MaxOps /\ q = <<>> /\ sum = 0 /\ now = 0
    /\ th = [t \in Thread |-> Idle]
    /\ done = [n \in 0..MaxNow |-> 0]

SumOf(s) == FoldSeq(LAMBDA e, n : e.amount + n, 0, s)

----------------------------------------------------------------------------
\* try_pop(): how many samples go: from the front, while they are older than the window and
\* the time the front sample stands for at the rate has passed too.
Popped ==
    LET work == IF q = <<>> THEN 0 ELSE (Head(q).amount \div Rate) * Window
        stay == {i \in 1..Len(q) : q[i].ts >= now - Window \/ q[i].ts + work > now} IN
    IF stay = {} THEN Len(q) ELSE Min(stay) - 1

Full(s) == Len(s) = Capacity - 1

\* fault: the samples that go are still counted
TryPopUncounted == [q |-> SubSeq(q, Popped + 1, Len(q)), sum |-> sum]

TryPop == [q |-> SubSeq(q, Popped + 1, Len(q)), sum |-> sum - SumOf(SubSeq(q, 1, Popped))]

\* A read or write of an amount: scoped_semaphore first.
Begin(t, a) ==
    /\ th[t].pc = "run"
    /\ th' = [th EXCEPT ![t] = [pc |-> "sem", amount |-> a, until |-> 0]]
    /\ UNCHANGED <<ops, q, sum, now, done>>

SemWait(t) ==
    /\ th[t].pc = "sem" /\ ops > 0
    /\ ops' = ops - 1
    /\ th' = [th EXCEPT ![t].pc = "push"]
    /\ UNCHANGED <<q, sum, now, done>>

\* push_back() while the window is used up: wait_for_pop() until the oldest sample leaves
\* the window, and try_pop().
OverLimit(t) ==
    /\ th[t].pc = "push" /\ sum >= Rate
    /\ th' = [th EXCEPT ![t].pc = "over", ![t].until = Head(q).ts + Window]
    /\ UNCHANGED <<ops, q, sum, now, done>>

\* pop_front() wakes one that waits; the model lets it go on with the next try_pop() at any
\* time, as a notification or a thread_yield() does.
OverEnds(t) ==
    /\ th[t].pc = "over" /\ (now >= th[t].until \/ Popped > 0)
    /\ q' = TryPop.q /\ sum' = TryPop.sum
    /\ th' = [th EXCEPT ![t].pc = "push"]
    /\ UNCHANGED <<ops, now, done>>

MinDuration(total) == IF total <= Rate THEN 0 ELSE ((total - Rate) * Window) \div Rate

\* The sample goes into the queue, or into its front if that is of the same time.
Admit(t, s, n) ==
    LET a == th[t].amount IN
    /\ q' = IF s # <<>> /\ Head(s).ts = now THEN [s EXCEPT ![1].amount = @ + a]
            ELSE Append(s, [ts |-> now, amount |-> a])
    /\ sum' = n + a
    /\ done' = [done EXCEPT ![now] = @ + a]
    /\ th' = [th EXCEPT ![t].pc = "io", ![t].until = now + MinDuration(n + a)]

\* fault: a thread that finds room does not look at the limit
PushAny(t) ==
    LET r == TryPop IN
    /\ th[t].pc = "push"
    /\ IF Full(r.q) /\ Head(r.q).ts # now
       THEN q' = r.q /\ sum' = r.sum /\ th' = [th EXCEPT ![t].pc = "full", ![t].until = now] /\ done' = done
       ELSE Admit(t, r.q, r.sum)
    /\ UNCHANGED <<ops, now>>

\* push_back() below the limit: with no room, yield until there is some.
Push(t) ==
    LET r == TryPop IN
    /\ th[t].pc = "push" /\ sum < Rate
    /\ IF Full(r.q) /\ Head(r.q).ts # now
       THEN q' = r.q /\ sum' = r.sum /\ th' = [th EXCEPT ![t].pc = "full", ![t].until = now] /\ done' = done
       ELSE Admit(t, r.q, r.sum)
    /\ UNCHANGED <<ops, now>>

\* The sample then bears the time at which it began to wait.
PushFull(t) ==
    LET r == TryPop IN
    /\ th[t].pc = "full"
    /\ ~Full(r.q)
    /\ q' = Append(r.q, [ts |-> th[t].until, amount |-> th[t].amount])
    /\ sum' = r.sum + th[t].amount
    /\ th' = [th EXCEPT ![t].pc = "io", ![t].until = now + MinDuration(r.sum + th[t].amount)]
    /\ UNCHANGED <<ops, now, done>>

\* After the I/O the destructors sleep until _ts_end, try_pop() and signal the semaphore.
Leave(t) ==
    /\ th[t].pc = "io" /\ now >= th[t].until
    /\ q' = TryPop.q /\ sum' = TryPop.sum
    /\ ops' = ops + 1
    /\ th' = [th EXCEPT ![t] = Idle]
    /\ UNCHANGED <<now, done>>

Tick ==
    /\ now < MaxNow
    /\ now' = now + 1
    /\ UNCHANGED <<ops, q, sum, th, done>>

Next ==
    \/ \E t \in Thread : \/ SemWait(t) \/ OverLimit(t) \/ OverEnds(t) \/ Push(t) \/ PushFull(t) \/ Leave(t)
                         \/ \E a \in Amounts : Begin(t, a)
    \/ Tick

Spec == Init /\ [][Next]_vars

----------------------------------------------------------------------------
\* The running total is that of the samples in the queue.
SumMatches == sum = SumOf(q)

\* In no window of time is more admitted than the limit and a single operation - of those that
\* found room in the queue: the sample of one that had to wait for room is older than it is.
WindowKept ==
    \A s \in 0..MaxNow : MapThenSumSet(LAMBDA n : done[n], s..(Min({s + Window, MaxNow})))
                           < Rate + Max(Amounts)
============================================================================
