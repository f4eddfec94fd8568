------------------------------ MODULE Throttle ------------------------------
(***************************************************************************)
(* photon::throttle (common/throttle.h): a token bucket refilled a slice   *)
(* of time at a time by whoever asks for tokens, with three priorities.    *)
(* The semaphore that holds the tokens is taken as atomic (see Semaphore). *)
(***************************************************************************)
EXTENDS Integers, FiniteSets, FiniteSetsExt

CONSTANTS Thread,
          Rates,     \* limits per slice that update() may set
          Slices,    \* m_slice_num
          SliceLen,  \* m_time_window_per_slice, in ticks
          Amounts,   \* what a thread may ask for, each less than the least limit
          MaxNow     \* bound on the clock

VARIABLES rate,   \* m_limit_per_slice
          tok,    \* the count of the semaphore
          now, last, \* photon::now and last_retrieve
          starve, \* m_starving_slice_num
          th,     \* the threads
          total   \* tokens handed out and not restored

vars == <<rate, tok, now, last, starve, th, total>>

Prio == {"High", "Medium", "Low"}
Fulfill == [High |-> 0, Medium |-> 30, Low |-> 60]
Starving == [High |-> 0, Medium |-> 10, Low |-> 20]

Window == SliceLen * Slices
Limit == rate * Slices

Idle == [pc |-> "run", amount |-> 0, prio |-> "High", until |-> 0]

\* The clock starts long after last_retrieve = 0.
Init ==
    /\ rate \in Rates
    /\ tok = Limit
    /\ now = Window /\ last = 0 /\ total = 0
    /\ starve = [p \in Prio |-> 0]
    /\ th = [t \in Thread |-> Idle]

----------------------------------------------------------------------------
\* fault: the time of the refill is not remembered
TrySignalAgain ==
    LET d == Min({now - last, Window})
        free == Min({rate * (d \div SliceLen), IF tok < Limit THEN Limit - tok ELSE 0}) IN
    IF d >= SliceLen THEN [tok |-> tok + free, last |-> last] ELSE [tok |-> tok, last |-> last]

\* try_signal(): the tokens of the whole slices that have passed, up to the limit.
TrySignal ==
    LET d == Min({now - last, Window})
        free == Min({rate * (d \div SliceLen), IF tok < Limit THEN Limit - tok ELSE 0}) IN
    IF d >= SliceLen THEN [tok |-> tok + free, last |-> now] ELSE [tok |-> tok, last |-> last]

Begin(t, a, p) ==
    /\ th[t].pc = "run"
    /\ th' = [th EXCEPT ![t] = [Idle EXCEPT !.pc = "consume", !.amount = a, !.prio = p]]
    /\ UNCHANGED <<rate, tok, now, last, starve, total>>

\* sem.wait_interruptible(amount, m_time_window_per_slice), with s the outcome of try_signal().
SemWait(t, s) ==
    /\ last' = s.last
    /\ IF s.tok >= th[t].amount
       THEN /\ tok' = s.tok - th[t].amount
            /\ total' = total + th[t].amount
            /\ th' = [th EXCEPT ![t].pc = "got"]
       ELSE /\ tok' = s.tok
            /\ th' = [th EXCEPT ![t].pc = "wait", ![t].until = now + SliceLen]
            /\ total' = total

\* One turn of the loop of consume().
Consume(t) ==
    LET s == TrySignal
        p == th[t].prio IN
    /\ th[t].pc = "consume"
    /\ \/ /\ starve[p] * 100 > Slices * Starving[p]
          /\ starve' = [starve EXCEPT ![p] = 0]
          /\ SemWait(t, s)
       \/ /\ starve[p] * 100 <= Slices * Starving[p]
          /\ s.tok * 100 < Limit * Fulfill[p]
          /\ tok' = s.tok /\ last' = s.last
          /\ th' = [th EXCEPT ![t].pc = "sleep", ![t].until = now + SliceLen]
          /\ UNCHANGED <<starve, total>>
       \/ /\ starve[p] * 100 <= Slices * Starving[p]
          /\ s.tok * 100 >= Limit * Fulfill[p]
          /\ SemWait(t, s)
          /\ starve' = starve
    /\ UNCHANGED <<rate, now>>

\* A thread that waits gets its tokens from a signal(), or its wait or sleep times out.
WaitGets(t) ==
    /\ th[t].pc = "wait" /\ tok >= th[t].amount
    /\ tok' = tok - th[t].amount
    /\ total' = total + th[t].amount
    /\ th' = [th EXCEPT ![t].pc = "got"]
    /\ UNCHANGED <<rate, now, last, starve>>

TimesOut(t) ==
    /\ th[t].pc \in {"wait", "sleep"} /\ now >= th[t].until
    /\ starve' = IF th[t].pc = "sleep" THEN [starve EXCEPT ![th[t].prio] = @ + 1] ELSE starve
    /\ th' = [th EXCEPT ![t].pc = "consume"]
    /\ UNCHANGED <<rate, tok, now, last, total>>

\* consume() is interrupted, and fails.
Interrupted(t) ==
    /\ th[t].pc \in {"wait", "sleep"}
    /\ th' = [th EXCEPT ![t] = Idle]
    /\ UNCHANGED <<rate, tok, now, last, starve, total>>

\* try_consume(): a wait that does not wait.
TryConsume(t, a) ==
    LET s == TrySignal IN
    /\ th[t].pc = "run"
    /\ last' = s.last
    /\ IF s.tok >= a
       THEN /\ tok' = s.tok - a /\ total' = total + a
            /\ th' = [th EXCEPT ![t] = [Idle EXCEPT !.pc = "got", !.amount = a]]
       ELSE tok' = s.tok /\ UNCHANGED <<total, th>>
    /\ UNCHANGED <<rate, now, starve>>

\* The tokens were used, or restore() gives them back, up to the limit.
Done(t, restore) ==
    LET a == th[t].amount IN
    /\ th[t].pc = "got"
    /\ IF restore
       THEN tok' = tok + Min({a, IF tok < Limit THEN Limit - tok ELSE 0}) /\ total' = total - a
       ELSE UNCHANGED <<tok, total>>
    /\ th' = [th EXCEPT ![t] = Idle]
    /\ UNCHANGED <<rate, now, last, starve>>

Update(r) ==
    /\ rate # r
    /\ rate' = r
    /\ UNCHANGED <<tok, now, last, starve, th, total>>

Tick ==
    /\ now < Window + MaxNow
    /\ now' = now + 1
    /\ UNCHANGED <<rate, tok, last, starve, th, total>>

Next ==
    \/ \E t \in Thread : \/ Consume(t) \/ WaitGets(t) \/ TimesOut(t) \/ Interrupted(t)
                         \/ Done(t, TRUE) \/ Done(t, FALSE)
                         \/ \E a \in Amounts : TryConsume(t, a) \/ \E p \in Prio : Begin(t, a, p)
    \/ \E r \in Rates : Update(r)
    \/ Tick

Spec == Init /\ [][Next]_vars

----------------------------------------------------------------------------
\* Whatever the threads, their priorities and their interruptions do, the tokens handed out
\* since the start are at most one full bucket and one slice's worth for each slice of time
\* that has passed, at the largest rate that was ever set.
RateKept == total + tok <= Max(Rates) * (Slices + (now - Window) \div SliceLen)
============================================================================
