------------------------------ MODULE IoUring ------------------------------
(***************************************************************************)
(* The io_uring engine (io/iouring-wrapper.cpp): _async_io() queues an I/O *)
(* with an optional linked timeout, whose contexts are on the stack of the *)
(* calling thread, and sleeps; wait_and_fire_events() submits the queue    *)
(* and reaps the completions.  The kernel is external: it completes an I/O *)
(* at any time and the linked timer with it, and executes a cancellation   *)
(* while it is being submitted, the I/O's completion before its own.  That *)
(* holds of polls and of socket I/O, and of a ring without SQPOLL.         *)
(***************************************************************************)
EXTENDS Naturals, Sequences, SequencesExt, FiniteSets

CONSTANTS Thread, MaxCall

VARIABLES sq,    \* the submission queue
          busy,  \* what the kernel is working on
          cq,    \* the completion queue
          th     \* the callers

vars == <<sq, busy, cq, th>>

\* A context on the stack of call n of thread t.
Ctx(t, kind) == [thread |-> t, call |-> th[t].call, kind |-> kind]

Of(c, kind) == [c EXCEPT !.kind = kind]

Cqe(c, res) == [ctx |-> c, res |-> res]

Init ==
    /\ sq = <<>> /\ busy = {} /\ cq = <<>>
    /\ th = [t \in Thread |-> [pc |-> "run", call |-> 0, timed |-> FALSE, err |-> "none", res |-> "none"]]

\* _async_io() up to its sleep: the I/O, and the timeout linked to it.
AsyncIo(t) ==
    /\ th[t].pc = "run" /\ th[t].call < MaxCall
    /\ \E timed \in BOOLEAN :
          LET c == [thread |-> t, call |-> th[t].call + 1, kind |-> "io"] IN
          /\ sq' = Append(sq, [ctx |-> c, timed |-> timed])
          /\ th' = [th EXCEPT ![t] = [pc |-> "sleep", call |-> c.call, timed |-> timed,
                                      err |-> "none", res |-> "none"]]
    /\ UNCHANGED <<busy, cq>>

\* thread_interrupt() by another thread, once in a call.
Interrupt(t) ==
    /\ th[t].pc = "sleep"
    /\ th' = [th EXCEPT ![t].pc = "ready", ![t].err = "other"]
    /\ UNCHANGED <<sq, busy, cq>>

\* The I/O completes, and the kernel cancels the timer linked to it.
Complete(b) ==
    /\ busy' = busy \ {b}
    /\ cq' = cq \o <<Cqe(b.ctx, "done")>>
                \o (IF b.timed THEN <<Cqe(Of(b.ctx, "timer"), "canceled")>> ELSE <<>>)
    /\ UNCHANGED <<sq, th>>

\* The linked timer fires and cancels the I/O.
TimerFires(b) ==
    /\ b.timed
    /\ busy' = busy \ {b}
    /\ cq' = cq \o <<Cqe(b.ctx, "canceled"), Cqe(Of(b.ctx, "timer"), "time")>>
    /\ UNCHANGED <<sq, th>>

----------------------------------------------------------------------------
\* io_uring_submit: an I/O becomes busy, a cancellation is executed.
Submit1(k, e) ==
    IF e.ctx.kind = "io" THEN [k EXCEPT !.busy = @ \cup {e}]
    ELSE LET hit == {b \in k.busy : b.ctx = Of(e.ctx, "io")}
             timed == \E b \in hit : b.timed
         IN [busy |-> k.busy \ hit,
             cq |-> k.cq \o (IF hit = {} THEN <<Cqe(e.ctx, "noent")>>
                             ELSE <<Cqe(Of(e.ctx, "io"), "canceled")>>
                                  \o (IF timed THEN <<Cqe(Of(e.ctx, "timer"), "canceled")>> ELSE <<>>)
                                  \o <<Cqe(e.ctx, "ok")>>)]

Submitted == FoldLeft(Submit1, [busy |-> busy, cq |-> cq], sq)

\* thread_interrupt(th_id, EOK) wakes a thread that sleeps.
Fire(ths, t) ==
    IF ths[t].pc \in {"sleep", "cancel"} THEN [ths EXCEPT ![t].pc = IF @ = "sleep" THEN "ready" ELSE "canceled",
                                                          ![t].err = IF @ = "other" THEN @ ELSE "eok"]
    ELSE ths

\* fault: a cancelled I/O is skipped before its result is stored
Reap1Unstored(ths, e) ==
    LET t == e.ctx.thread IN
    IF e.res = "canceled" THEN ths
    ELSE Fire(IF e.ctx.kind = "io" THEN [ths EXCEPT ![t].res = e.res] ELSE ths, t)

\* fault: nobody is woken for an I/O that was cancelled, nor by its timer
Reap1Asleep(ths, e) ==
    LET t == e.ctx.thread IN
    IF e.ctx.kind # "io" THEN ths ELSE Fire([ths EXCEPT ![t].res = e.res], t)

\* reap_events() for one completion: it stores the result in the context, and wakes the
\* thread unless a canceller's own completion is to do that, or it is a cancelled timer.
Reap1(ths, e) ==
    LET t == e.ctx.thread
        x == IF e.ctx.kind = "io" THEN [ths EXCEPT ![t].res = IF e.res = "canceled" THEN "timedout" ELSE e.res]
             ELSE ths
    IN  IF e.res = "canceled" THEN x ELSE Fire(x, t)

\* wait_and_fire_events(): submit, and reap the completion queue.
WaitAndFire ==
    /\ sq # <<>> \/ cq # <<>>
    /\ sq' = <<>> /\ busy' = Submitted.busy /\ cq' = <<>>
    /\ th' = FoldLeft(Reap1, th, Submitted.cq)

\* fault: the caller does not wait for its cancellation
CancelAndReturn(t) ==
    /\ th[t].pc = "ready" /\ th[t].err = "other"
    /\ sq' = Append(sq, [ctx |-> Ctx(t, "cancel"), timed |-> FALSE])
    /\ th' = [th EXCEPT ![t].pc = "run"]
    /\ UNCHANGED <<busy, cq>>

\* Interrupted from outside: cancel the I/O, and sleep until that has completed.
Cancel(t) ==
    /\ th[t].pc = "ready" /\ th[t].err = "other"
    /\ sq' = Append(sq, [ctx |-> Ctx(t, "cancel"), timed |-> FALSE])
    /\ th' = [th EXCEPT ![t].pc = "cancel"]
    /\ UNCHANGED <<busy, cq>>

\* _async_io() returns the result, or -1 after a cancellation.
Return(t) ==
    /\ \/ th[t].pc = "ready" /\ th[t].err = "eok"
       \/ th[t].pc = "canceled"
    /\ th' = [th EXCEPT ![t].pc = "run"]
    /\ UNCHANGED <<sq, busy, cq>>

Next ==
    \/ \E t \in Thread : AsyncIo(t) \/ Interrupt(t) \/ Cancel(t) \/ Return(t)
    \/ \E b \in busy : Complete(b) \/ TimerFires(b)
    \/ WaitAndFire

Spec == Init /\ [][Next]_vars

\* Threads and the idle loop run, and the timer of a timed I/O fires.
FairSpec ==
    /\ Spec /\ WF_vars(WaitAndFire) /\ WF_vars(\E b \in busy : TimerFires(b))
    /\ \A t \in Thread : WF_vars(Cancel(t)) /\ WF_vars(Return(t))

----------------------------------------------------------------------------
InCall(c) == th[c.thread].call = c.call /\ th[c.thread].pc # "run"

\* Every context that the queues and the kernel point to is that of a call which has not
\* returned: no completion is written into a stack frame that is gone.
ContextsAlive ==
    /\ \A b \in busy : InCall(b.ctx)
    /\ \A i \in 1..Len(sq) : InCall(sq[i].ctx)
    /\ \A i \in 1..Len(cq) : InCall(cq[i].ctx)

\* A call that is not interrupted returns the result of its I/O, never a context that no
\* completion has been written to.
ResultWritten == \A t \in Thread : (th[t].pc = "ready" /\ th[t].err = "eok") => th[t].res # "none"

\* A timed call returns, and so does one that is interrupted.
Due(t) == th[t].pc # "run" /\ (th[t].timed \/ th[t].err = "other")
Settled(t) == th[t].pc = "run"
CallReturns == \A t \in Thread : Due(t) ~> Settled(t)
============================================================================
