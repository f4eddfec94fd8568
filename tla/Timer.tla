-------------------------------- MODULE Timer --------------------------------
(***************************************************************************)
(* photon::Timer (thread/timer.h, thread.cpp): a thread that sleeps, calls *)
(* on_timer and sleeps again.  reset(), cancel() and stop() interrupt its  *)
(* sleep, the destructor ends the thread and joins it.  The timer and its  *)
(* users are threads of one vCPU, so a step is what runs between two       *)
(* switches: reset() interrupts the timer thread and yields to it, which   *)
(* goes to sleep again, all in one step.  on_timer may sleep.              *)
(***************************************************************************)
EXTENDS Naturals

CONSTANTS User, Repeating

VARIABLES
  tpc,          \* the timer thread: "sleep", "ready", "fire", "done"
  cancelled,    \* its error_number is ECANCELED
  waiting,      \* _waiting
  repeating,    \* _repeating
  th,           \* _th is not null
  timeout,      \* the current sleep ends by itself
  upc           \* what each user does

vars == <<tpc, cancelled, waiting, repeating, th, timeout, upc>>

(* The constructor yields to the new thread, which falls asleep. *)
Init ==
  /\ tpc = "sleep" /\ cancelled = FALSE
  /\ waiting = TRUE /\ repeating = Repeating /\ th = TRUE
  /\ timeout = TRUE
  /\ upc = [u \in User |-> "use"]

------------------------------------------------------------------------------
\* where a user goes that _wait_ready.notify_all() wakes
Woken(l) == CASE l = "stopwait" -> "stop"
              [] l = "dtorwait" -> "dtor"
              [] OTHER -> l

\* `again:` the timer thread sleeps for a time, or for ever, and the waiters
\* of stop() are notified.
SleepAgain(finite) ==
  /\ tpc' = "sleep"
  /\ waiting' = TRUE
  /\ timeout' = finite
  /\ UNCHANGED <<cancelled, th>>

\* fault: stop() is not told that the timer waits again
AgainSilently(finite) == SleepAgain(finite) /\ UNCHANGED upc

Again(finite) == SleepAgain(finite) /\ upc' = [u \in User |-> Woken(upc[u])]

\* the end of stub(), and thread::die()
Quit ==
  /\ tpc' = "done"
  /\ waiting' = FALSE /\ th' = FALSE
  /\ UNCHANGED <<cancelled, timeout, upc>>

(* thread_usleep() ends by itself ...                                      *)
Expire ==
  /\ tpc = "sleep" /\ timeout
  /\ tpc' = "ready"
  /\ UNCHANGED <<cancelled, waiting, repeating, th, timeout, upc>>

(* ... and on_timer is called, unless the destructor cancelled the sleep.  *)
(* The run queue is FIFO: users notified before the sleep run first.       *)
Run ==
  /\ tpc = "ready"
  /\ \A u \in User : upc[u] \notin {"stop", "dtor"}
  /\ IF cancelled THEN Quit
     ELSE /\ tpc' = "fire" /\ waiting' = FALSE
          /\ UNCHANGED <<cancelled, th, timeout, upc>>
  /\ UNCHANGED repeating

(* on_timer returns *)
Fired ==
  /\ tpc = "fire"
  /\ IF repeating THEN Again(TRUE) ELSE Quit
  /\ UNCHANGED repeating

------------------------------------------------------------------------------
Goto(u, l) == upc' = [upc EXCEPT ![u] = l]

(* reset(): nothing if the timer does not wait, as in on_timer; else EAGAIN*)
Reset(u, finite) ==
  /\ upc[u] = "use"
  /\ waiting /\ ~cancelled
  /\ Again(finite)
  /\ UNCHANGED repeating

\* cancel() in stop(), with what follows: ok, or a wait for the notification
Cancel(u, ok, wait) ==
  \/ /\ waiting
     /\ SleepAgain(FALSE)
     /\ upc' = [v \in User |-> IF v = u THEN ok ELSE Woken(upc[v])]
  \/ /\ ~waiting
     /\ Goto(u, wait)
     /\ UNCHANGED <<tpc, cancelled, waiting, th, timeout>>

(* stop(): `while (cancel()) _wait_ready.wait_no_lock()`                   *)
Stop(u) ==
  /\ upc[u] \in {"use", "stop"}
  /\ ~cancelled
  /\ Cancel(u, "use", "stopwait")
  /\ UNCHANGED repeating

\* The destructor is called when the others are through with the timer.
OthersDone(u) == \A v \in User \ {u} : upc[v] = "gone"
Leave(u) ==
  /\ upc[u] = "use"
  /\ Goto(u, "gone")
  /\ UNCHANGED <<tpc, cancelled, waiting, repeating, th, timeout>>

(* ~Timer(): nothing if the thread is gone ...                             *)
DtorNothing(u) ==
  /\ upc[u] = "use" /\ OthersDone(u)
  /\ ~th
  /\ Goto(u, "end")
  /\ UNCHANGED <<tpc, cancelled, waiting, repeating, th, timeout>>

(* ... else stop() ...                                                     *)
DtorStop(u) ==
  /\ \/ upc[u] = "use" /\ OthersDone(u) /\ th
     \/ upc[u] = "dtor"
  /\ Cancel(u, "quit", "dtorwait")
  /\ UNCHANGED repeating

(* ... _repeating = false, ECANCELED if it waits ...                       *)
DtorQuit(u) ==
  /\ upc[u] = "quit"
  /\ repeating' = FALSE
  /\ IF waiting THEN cancelled' = TRUE /\ tpc' = "ready"
                ELSE UNCHANGED <<cancelled, tpc>>
  /\ Goto(u, "join")
  /\ UNCHANGED <<waiting, th, timeout>>

\* fault: the thread is not joined
DtorLeave(u) ==
  /\ upc[u] = "join"
  /\ Goto(u, "end")
  /\ UNCHANGED <<tpc, cancelled, waiting, repeating, th, timeout>>

(* ... and thread_join()                                                   *)
DtorJoin(u) ==
  /\ upc[u] = "join"
  /\ tpc = "done"
  /\ Goto(u, "end")
  /\ UNCHANGED <<tpc, cancelled, waiting, repeating, th, timeout>>

TimerThread == Expire \/ Run \/ Fired
Dtor(u) == DtorStop(u) \/ DtorQuit(u) \/ DtorJoin(u)

Next ==
  \/ TimerThread
  \/ \E u \in User : \/ \E finite \in BOOLEAN : Reset(u, finite)
                     \/ Stop(u) \/ Leave(u) \/ DtorNothing(u) \/ Dtor(u)

Spec == Init /\ [][Next]_vars

(* The threads are scheduled, time passes, and on_timer returns.           *)
FairSpec ==
  Spec /\ WF_vars(TimerThread) /\ \A u \in User : WF_vars(Dtor(u))

------------------------------------------------------------------------------
(* "wait for the worker thread to complete": the timer object is not used  *)
(* by its thread after the destructor.                                     *)
NoUseAfterDtor == (\E u \in User : upc[u] = "end") => tpc = "done"

(* The destructor returns, whatever the timer is doing when it begins.     *)
Due(u) == upc[u] = "dtorwait"
Settled(u) == upc[u] = "end"
DtorReturns == \A u \in User : Due(u) ~> Settled(u)
==============================================================================
