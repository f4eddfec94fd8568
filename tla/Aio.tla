-------------------------------- MODULE Aio --------------------------------
(***************************************************************************)
(* The two wrappers of io/aio-wrapper.cpp.  libaio: callers submit on a    *)
(* ring of limited depth and sleep, a polling thread of the same vCPU      *)
(* waits for the eventfd and wakes them up, and libaio_wrapper_fini()      *)
(* stops it.  POSIX aio: a completion handler in an OS thread of its own   *)
(* wakes its caller up.  The kernel is external.                           *)
(***************************************************************************)
EXTENDS Integers, FiniteSets, FiniteSetTheorems, TLAPS

CONSTANTS Thread,
          Depth,       \* iodepth
          Interrupts   \* whether other threads interrupt the callers

VARIABLES running, \* libaio_ctx->running
          evfd,    \* whether the eventfd is readable
          poll,    \* the polling thread
          flight,  \* the callers whose requests the kernel works on
          done,    \* completions that have not been fetched by io_getevents()
          th,      \* the callers
          handler, \* aio_completion_handler() of a caller's POSIX request
          owner    \* the thread that ends the wrapper

vars == <<running, evfd, poll, flight, done, th, handler, owner>>

\* libaio_wrapper_init(), up to the first wait of libaio_polling().
Init ==
    /\ running = 2 /\ evfd = FALSE /\ poll = "wait" /\ owner = "run"
    /\ flight = {} /\ done = {}
    /\ th = [t \in Thread |-> "idle"]
    /\ handler = [t \in Thread |-> "none"]

Requests == flight \cup done

\* Nobody is in a call of libaio.
Quiet == \A t \in Thread : th[t] \notin {"submit", "full", "sleep", "woken", "interrupted", "error"}

----------------------------------------------------------------------------
\* libaio_pread() and the like.  A caller that left a request behind is not followed further.
Call(t) ==
    /\ th[t] = "idle" /\ owner = "run" /\ t \notin Requests
    /\ th' = [th EXCEPT ![t] = "submit"]
    /\ UNCHANGED <<running, evfd, poll, flight, done, handler, owner>>

\* submit_and_wait(): io_submit() fails, or says EAGAIN and the caller waits for a turn of the
\* polling thread, or takes the request and the caller sleeps.
Submit(t) ==
    /\ th[t] = "submit"
    /\ \/ flight' = flight /\ th' = [th EXCEPT ![t] = "error"]
       \/ /\ Cardinality(Requests) >= Depth
          /\ flight' = flight /\ th' = [th EXCEPT ![t] = "full"]
       \/ /\ Cardinality(Requests) < Depth
          /\ flight' = flight \cup {t} /\ th' = [th EXCEPT ![t] = "sleep"]
    /\ UNCHANGED <<running, evfd, poll, done, handler, owner>>

\* The caller runs again: with its result, or after the 10 ms that follow an error.
Return(t) ==
    /\ th[t] \in {"woken", "error"}
    /\ th' = [th EXCEPT ![t] = "idle"]
    /\ UNCHANGED <<running, evfd, poll, flight, done, handler, owner>>

\* cancel(): io_cancel() takes the request back, or has failed for the last time.
Cancel(t) ==
    /\ th[t] = "interrupted"
    /\ \/ flight' = flight \ {t}
       \/ flight' = flight
    /\ th' = [th EXCEPT ![t] = "idle"]
    /\ UNCHANGED <<running, evfd, poll, done, handler, owner>>

----------------------------------------------------------------------------
\* aio_read() and the like: the OS may complete the request at once.
AsyncPerform(t) ==
    /\ th[t] = "idle" /\ t \notin Requests /\ handler[t] = "none"
    /\ th' = [th EXCEPT ![t] = "performed"]
    /\ handler' = [handler EXCEPT ![t] = "pending"]
    /\ UNCHANGED <<running, evfd, poll, flight, done, owner>>

\* thread_usleep(-1) of async_perform()
SleepAgain(t) ==
    /\ th[t] = "performed"
    /\ th' = [th EXCEPT ![t] = "psleep"]
    /\ UNCHANGED <<running, evfd, poll, flight, done, handler, owner>>

\* fault: the handler does not wait for its caller to sleep
CompletedAtOnce(t) ==
    /\ handler[t] = "pending"
    /\ handler' = [handler EXCEPT ![t] = "fire"]
    /\ UNCHANGED <<running, evfd, poll, flight, done, th, owner>>

\* aio_completion_handler() sets the result and waits until its caller sleeps.
Completed(t) ==
    /\ handler[t] = "pending" /\ th[t] = "psleep"
    /\ handler' = [handler EXCEPT ![t] = "fire"]
    /\ UNCHANGED <<running, evfd, poll, flight, done, th, owner>>

\* thread_interrupt(th, EOK), lost on a caller that somebody else has woken up in between.
Fire(t) ==
    /\ handler[t] = "fire"
    /\ handler' = [handler EXCEPT ![t] = "none"]
    /\ th' = [th EXCEPT ![t] = IF @ = "psleep" THEN "pwoken" ELSE @]
    /\ UNCHANGED <<running, evfd, poll, flight, done, owner>>

\* fault: any wake-up ends the call
PerformedAnyhow(t) ==
    /\ th[t] \in {"pwoken", "pinterrupted"}
    /\ th' = [th EXCEPT ![t] = "idle"]
    /\ UNCHANGED <<running, evfd, poll, flight, done, handler, owner>>

\* async_perform() after its sleep: EOK is the completion, anything else sleeps again.
Performed(t) ==
    /\ th[t] \in {"pwoken", "pinterrupted"}
    /\ th' = [th EXCEPT ![t] = IF @ = "pwoken" THEN "idle" ELSE "performed"]
    /\ UNCHANGED <<running, evfd, poll, flight, done, handler, owner>>

\* Somebody interrupts a caller.
Interrupt(t) ==
    /\ Interrupts
    /\ \/ th[t] = "full" /\ th' = [th EXCEPT ![t] = "submit"]
       \/ th[t] = "sleep" /\ th' = [th EXCEPT ![t] = "interrupted"]
       \/ th[t] = "psleep" /\ th' = [th EXCEPT ![t] = "pinterrupted"]
    /\ UNCHANGED <<running, evfd, poll, flight, done, handler, owner>>

----------------------------------------------------------------------------
\* The kernel completes a request and makes the eventfd readable.
Complete(t) ==
    /\ t \in flight
    /\ flight' = flight \ {t} /\ done' = done \cup {t}
    /\ evfd' = TRUE
    /\ UNCHANGED <<running, poll, th, handler, owner>>

\* resume_libaio_requesters(): the callers of the fetched completions are interrupted with EOK.
Resumed == [t \in Thread |-> IF t \in done /\ th[t] = "sleep" THEN "woken" ELSE th[t]]

\* cond.notify_all()
Notified(callers) == [t \in Thread |-> IF callers[t] = "full" THEN "submit" ELSE callers[t]]

\* fault: those who wait for room are told nothing
TurnUntold ==
    /\ done' = {}
    /\ IF Cardinality(done) = Depth
       THEN poll' = "resume" /\ th' = Resumed /\ running' = IF poll = "resume" THEN running ELSE 1
       ELSE /\ th' = Resumed
            /\ IF running = -1
               THEN poll' = "ended" /\ running' = 0
               ELSE poll' = "wait" /\ running' = 2

\* The rest of a turn of libaio_polling(): when a whole ring was fetched, yield and fetch
\* again; else the next turn, unless the wrapper was ended during such a yield.
Turn ==
    /\ done' = {}
    /\ IF Cardinality(done) = Depth
       THEN poll' = "resume" /\ th' = Resumed /\ running' = IF poll = "resume" THEN running ELSE 1
       ELSE /\ th' = Notified(Resumed)
            /\ IF running = -1
               THEN poll' = "ended" /\ running' = 0
               ELSE poll' = "wait" /\ running' = 2

\* wait_for_events(): the eventfd is readable, and is read.
PollWakes ==
    /\ poll = "wait" /\ evfd
    /\ evfd' = FALSE
    /\ Turn
    /\ UNCHANGED <<flight, handler, owner>>

PollResumes ==
    /\ poll = "resume"
    /\ Turn
    /\ UNCHANGED <<evfd, flight, handler, owner>>

\* The wait was interrupted with ECANCELED, and `running` tells to end.
PollCancelled ==
    /\ poll = "cancelled"
    /\ poll' = "ended" /\ running' = 0
    /\ UNCHANGED <<evfd, flight, done, th, handler, owner>>

\* fault: the polling thread is not waited for
FiniAtOnce ==
    /\ owner = "run" /\ Quiet
    /\ poll' = IF running = 2 THEN "cancelled" ELSE poll
    /\ running' = -1
    /\ owner' = "down"
    /\ UNCHANGED <<evfd, flight, done, th, handler>>

\* libaio_wrapper_fini(), when nobody is in a call: interrupt a polling thread that waits for
\* the eventfd, and wait until it has ended.
Fini ==
    /\ owner = "run" /\ Quiet
    /\ poll' = IF running = 2 THEN "cancelled" ELSE poll
    /\ running' = -1
    /\ owner' = "fini"
    /\ UNCHANGED <<evfd, flight, done, th, handler>>

FiniEnds ==
    /\ owner = "fini" /\ running = 0
    /\ owner' = "down"
    /\ UNCHANGED <<running, evfd, poll, flight, done, th, handler>>

CallerStep(t) == Submit(t) \/ Return(t) \/ Cancel(t) \/ SleepAgain(t) \/ Performed(t)

HandlerStep(t) == Completed(t) \/ Fire(t)

Polls == PollWakes \/ PollResumes \/ PollCancelled

Next ==
    \/ \E t \in Thread : \/ Call(t) \/ AsyncPerform(t) \/ CallerStep(t) \/ HandlerStep(t)
                         \/ Interrupt(t) \/ Complete(t)
    \/ Polls \/ Fini \/ FiniEnds

Spec == Init /\ [][Next]_vars

FairSpec ==
    /\ Spec /\ WF_vars(Polls) /\ WF_vars(FiniEnds)
    /\ \A t \in Thread : WF_vars(CallerStep(t) \/ HandlerStep(t)) /\ WF_vars(Complete(t))

----------------------------------------------------------------------------
\* What completes finds its caller still in the call: the frame with the control block is
\* there.  A POSIX request keeps its caller even from interrupts; a libaio request does not,
\* for cancel() may fail.
FramesKept ==
    /\ \A t \in Thread : handler[t] # "none" => th[t] \in {"performed", "psleep", "pinterrupted"}
    /\ ~Interrupts => \A t \in Requests : th[t] = "sleep"

\* No wake-up is lost: completions to be fetched have made the eventfd readable, or the
\* polling thread is about to fetch again; a caller without a request was told so, and one
\* that waits for room has a turn to come.
NoLostCompletion ==
    /\ poll = "wait" /\ done # {} => evfd
    /\ \A t \in Thread :
          /\ th[t] = "sleep" => t \in Requests
          /\ ~Interrupts /\ th[t] = "full" => Requests # {} \/ poll = "resume"

\* The context is deleted when nobody uses it, the polling thread included.
ContextUnused == owner = "down" => poll = "ended" /\ Quiet

\* Calls return when their requests complete.
Due(t) == th[t] \in {"sleep", "performed", "psleep"}
Settled(t) == th[t] = "idle"
AioReturns == ~Interrupts => \A t \in Thread : Due(t) ~> Settled(t)

\* libaio_wrapper_fini() returns.
Stopping == owner = "fini"
Stopped == owner = "down"
FiniReturns == Stopping ~> Stopped
----------------------------------------------------------------------------
(* The proof of the three invariants, for any number of callers and any    *)
(* depth of the ring.                                                      *)

InLibaio == {"submit", "full", "sleep", "woken", "interrupted", "error"}

Shape ==
    /\ th \in [Thread -> InLibaio \cup {"idle", "performed", "psleep", "pwoken", "pinterrupted"}]
    /\ handler \in [Thread -> {"none", "pending", "fire"}]
    /\ flight \subseteq Thread /\ done \subseteq Thread /\ flight \cap done = {}
    /\ \A t \in Thread : th[t] \in {"submit", "full"} => t \notin Requests
    /\ ~Interrupts => \A t \in Thread : th[t] # "interrupted"

\* `running` tells what the polling thread does, and the order in which the wrapper ends.
Ending ==
    /\ running = 2 <=> poll = "wait"
    /\ running = 0 <=> poll = "ended"
    /\ owner = "run" => poll \in {"wait", "resume"} /\ running # -1
    /\ owner # "run" => Quiet

Inv == Shape /\ Ending /\ FramesKept /\ NoLostCompletion /\ ContextUnused

\* A step of a caller, of its handler or of the kernel, which concerns one request, keeps what
\* the other requests need.
LEMMA RequestKeeps ==
    ASSUME Depth \in Nat \ {0}, Inv, NEW t \in Thread,
           \/ Call(t) \/ AsyncPerform(t) \/ CallerStep(t) \/ HandlerStep(t)
           \/ Interrupt(t) \/ Complete(t)
    PROVE  Inv'
<1> USE DEF Inv, Requests
<1>f. Cardinality({}) = 0
  BY FS_EmptySet
<1>1. CASE Call(t)
  BY <1>1 DEF Call, Shape, InLibaio, Ending, Quiet, FramesKept, NoLostCompletion, ContextUnused
<1>2. CASE AsyncPerform(t)
  BY <1>2 DEF AsyncPerform, Shape, InLibaio, Ending, Quiet, FramesKept, NoLostCompletion, ContextUnused
<1>3. CASE Submit(t)
  <2>1. Shape' /\ Ending' /\ ContextUnused'
    BY <1>3 DEF Submit, Shape, InLibaio, Ending, Quiet, ContextUnused
  <2>2. FramesKept'
    BY <1>3 DEF Submit, Shape, FramesKept
  <2>3. \A S : Cardinality(S) >= Depth => S # {}
    BY <1>f
  <2>4. NoLostCompletion'
    BY <1>3, <2>3 DEF Submit, Shape, NoLostCompletion
  <2>5. QED
    BY <2>1, <2>2, <2>4
<1>4. CASE Return(t)
  BY <1>4 DEF Return, Shape, InLibaio, Ending, Quiet, FramesKept, NoLostCompletion, ContextUnused
<1>5. CASE Cancel(t)
  BY <1>5 DEF Cancel, Shape, InLibaio, Ending, Quiet, FramesKept, NoLostCompletion, ContextUnused
<1>6. CASE SleepAgain(t)
  BY <1>6 DEF SleepAgain, Shape, InLibaio, Ending, Quiet, FramesKept, NoLostCompletion, ContextUnused
<1>7. CASE Performed(t)
  BY <1>7 DEF Performed, Shape, InLibaio, Ending, Quiet, FramesKept, NoLostCompletion, ContextUnused
<1>8. CASE Completed(t)
  BY <1>8 DEF Completed, Shape, InLibaio, Ending, Quiet, FramesKept, NoLostCompletion, ContextUnused
<1>9. CASE Fire(t)
  BY <1>9 DEF Fire, Shape, InLibaio, Ending, Quiet, FramesKept, NoLostCompletion, ContextUnused
<1>10. CASE Interrupt(t)
  BY <1>10 DEF Interrupt, Shape, InLibaio, Ending, Quiet, FramesKept, NoLostCompletion, ContextUnused
<1>11. CASE Complete(t)
  BY <1>11 DEF Complete, Shape, InLibaio, Ending, Quiet, FramesKept, NoLostCompletion, ContextUnused
<1>12. QED
  BY <1>1, <1>2, <1>3, <1>4, <1>5, <1>6, <1>7, <1>8, <1>9, <1>10, <1>11 DEF CallerStep, HandlerStep

\* A turn of the polling thread wakes everybody whose completion it takes, and then those who
\* wait for room.
LEMMA TurnKeeps == ASSUME Inv, Turn, poll \in {"wait", "resume"},
                          UNCHANGED <<flight, handler, owner>>
                   PROVE  Inv'
<1> USE DEF Inv, Requests
<1>1. done' = {} /\ poll' \in {"wait", "resume", "ended"} /\ (poll' # "resume" => th' = Notified(Resumed))
  BY DEF Turn
<1>2. th' \in {Resumed, Notified(Resumed)}
  BY DEF Turn
<1>3. \A t \in Thread : \/ th'[t] = th[t] /\ ~(t \in done /\ th[t] = "sleep")
                        \/ t \in done /\ th[t] = "sleep" /\ th'[t] = "woken"
                        \/ th[t] = "full" /\ th'[t] = "submit"
  BY <1>2 DEF Resumed, Notified
<1>4. poll' # "resume" => \A t \in Thread : th'[t] # "full"
  BY <1>1 DEF Resumed, Notified
<1>5. Shape'
  <2>1. \A t \in Thread : th'[t] \in InLibaio \cup {"idle", "performed", "psleep", "pwoken", "pinterrupted"}
    BY <1>3 DEF Shape, InLibaio
  <2>2. th' \in [Thread -> InLibaio \cup {"idle", "performed", "psleep", "pwoken", "pinterrupted"}]
    BY <1>2, <2>1 DEF Resumed, Notified
  <2>3. QED
    BY <2>2, <1>1, <1>3 DEF Shape
<1>6. Ending'
  <2>1. Quiet => Quiet'
    BY <1>3 DEF Quiet
  <2>2. QED
    BY <2>1 DEF Ending, Turn
<1>7. FramesKept'
  BY <1>1, <1>3 DEF FramesKept, Shape
<1>8. NoLostCompletion'
  BY <1>1, <1>3, <1>4 DEF NoLostCompletion
<1>9. ContextUnused'
  BY DEF ContextUnused
<1>10. QED
  BY <1>5, <1>6, <1>7, <1>8, <1>9

\* The wrappers of aio-wrapper.cpp keep the invariant, for any number of callers and any depth.
THEOREM Invariance == ASSUME Depth \in Nat \ {0} PROVE Spec => []Inv
<1>1. Init => Inv
  BY DEF Init, Inv, Shape, InLibaio, Ending, Quiet, FramesKept, NoLostCompletion, ContextUnused, Requests
<1>2. Inv /\ [Next]_vars => Inv'
  <2> SUFFICES ASSUME Inv, [Next]_vars PROVE Inv'
    OBVIOUS
  <2>1. CASE UNCHANGED vars
    BY <2>1 DEF vars, Inv, Shape, Ending, Quiet, FramesKept, NoLostCompletion, ContextUnused, Requests
  <2>2. CASE PollWakes
    BY <2>2, TurnKeeps DEF PollWakes
  <2>3. CASE PollResumes
    BY <2>3, TurnKeeps DEF PollResumes
  <2>4. CASE PollCancelled
    BY <2>4 DEF PollCancelled, Inv, Shape, Ending, Quiet, FramesKept, NoLostCompletion, ContextUnused, Requests
  <2>5. CASE Fini
    BY <2>5 DEF Fini, Inv, Shape, Ending, Quiet, FramesKept, NoLostCompletion, ContextUnused, Requests
  <2>6. CASE FiniEnds
    BY <2>6 DEF FiniEnds, Inv, Shape, Ending, Quiet, FramesKept, NoLostCompletion, ContextUnused, Requests
  <2>7. QED
    BY <2>1, <2>2, <2>3, <2>4, <2>5, <2>6, RequestKeeps DEF Next, Polls
<1>3. QED
  BY <1>1, <1>2, PTL DEF Spec

\* However many callers there are: a POSIX completion finds its caller in the call, a libaio
\* completion too unless callers are interrupted; no completion and nobody who waits for room
\* is forgotten; and libaio_wrapper_fini() deletes the context when nobody uses it.
THEOREM AioSafe == ASSUME Depth \in Nat \ {0}
                   PROVE  Spec => [](FramesKept /\ NoLostCompletion /\ ContextUnused)
<1>1. Inv => FramesKept /\ NoLostCompletion /\ ContextUnused
  BY DEF Inv
<1>2. QED
  BY <1>1, Invariance, PTL
============================================================================
