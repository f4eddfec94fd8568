------------------------------ MODULE SleepWake ------------------------------
(***************************************************************************)
(* What the scheduler promises to the synchronisation primitives built on  *)
(* thread_usleep(), thread_interrupt() and waitq::resume_one(), without    *)
(* vCPUs: a thread sleeps, possibly in a wait queue, until it is resumed   *)
(* from the head of that queue, interrupted, or timed out, and each sleep  *)
(* ends once.  The primitives are modelled over these operators; Scheduler *)
(* is shown to implement them.                                             *)
(***************************************************************************)
EXTENDS Integers, Sequences

CONSTANTS Thread, Queue, None
ASSUME SleepWakeAssumption == None \notin Thread \cup Queue

VARIABLES
  asleep,         \* asleep[t]: state is SLEEPING
  queue,          \* the threads that sleep in a wait queue, in order
  error_number    \* why the last sleep ended: 0 for a timeout

swVars == <<asleep, queue, error_number>>

RESUMED == -1
EINTR == 4
EPERM == 1
Errno == {RESUMED, 0, EPERM, EINTR}

SWInit ==
  /\ asleep = [t \in Thread |-> FALSE]
  /\ queue = [q \in Queue |-> <<>>]
  /\ error_number = [t \in Thread |-> 0]

\* dequeue_ready_atomic(): waitq->q.erase(t), if t is in that list
Erase(s, t) ==
  LET k == CHOOSE i \in DOMAIN s : s[i] = t
  IN IF \E i \in DOMAIN s : s[i] = t THEN SubSeq(s, 1, k - 1) \o SubSeq(s, k + 1, Len(s))
                                     ELSE s

\* t leaves its sleep and the wait queue it may be in.
Leave(t) ==
  /\ asleep[t]
  /\ asleep' = [asleep EXCEPT ![t] = FALSE]
  /\ queue' = [q \in Queue |-> Erase(queue[q], t)]

(* thread_usleep(): CURRENT falls asleep, in wait queue q unless q is None *)
Sleep(t, q) ==
  /\ ~asleep[t]
  /\ asleep' = [asleep EXCEPT ![t] = TRUE]
  /\ queue' = [p \in Queue |-> IF p = q THEN Append(queue[p], t) ELSE queue[p]]
  /\ UNCHANGED error_number

(* waitq::resume_one(): the head of the queue is resumed *)
Resume(q) ==
  /\ queue[q] # <<>>
  /\ Leave(Head(queue[q]))
  /\ error_number' = [error_number EXCEPT ![Head(queue[q])] = RESUMED]

(* thread_interrupt() of a sleeping thread *)
Interrupt(t, e) ==
  /\ e # RESUMED
  /\ Leave(t)
  /\ error_number' = [error_number EXCEPT ![t] = e]

(* resume_threads() finds t expired *)
Expire(t) ==
  /\ Leave(t)
  /\ UNCHANGED error_number

(* thread_interrupt() of a thread it has seen READY *)
Nudge(t, e) ==
  /\ e # RESUMED
  /\ error_number[t] = 0
  /\ error_number' = [error_number EXCEPT ![t] = e]
  /\ UNCHANGED <<asleep, queue>>

(* set_error_number() at the end of a sleep, or the start of a yield *)
Clear(t) ==
  /\ ~asleep[t]
  /\ error_number' = [error_number EXCEPT ![t] = 0]
  /\ UNCHANGED <<asleep, queue>>

SWNext ==
  \/ \E t \in Thread : \/ \E q \in Queue \cup {None} : Sleep(t, q)
                       \/ \E e \in Errno : Interrupt(t, e) \/ Nudge(t, e)
                       \/ Expire(t) \/ Clear(t)
  \/ \E q \in Queue : Resume(q)

SWSpec == SWInit /\ [][SWNext]_swVars
==============================================================================
