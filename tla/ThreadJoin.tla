----------------------------- MODULE ThreadJoin -----------------------------
(***************************************************************************)
(* The end of a thread: thread::die(), thread_join() and                   *)
(* threads_create_join() (thread/thread.cpp).  A parent creates threads    *)
(* and joins them; they may run on other vCPUs by the time they end.  The  *)
(* struct of a thread lies in its stack, which thread_join() frees, while  *)
(* the thread that ends still uses it until it has switched away.          *)
(***************************************************************************)
EXTENDS SleepWake

CONSTANTS
  Parent,        \* the only member of Thread; Queue is Child
  N,             \* the number of threads to create
  Values,        \* what start() may return
  MayFail,       \* thread_create() may fail
  DtorBlocks     \* a destructor of thread-local data may wait for a semaphore

Child == 1..N

VARIABLES
  pc, i,         \* the parent: its place, and the index of its loops
  created,       \* the entries of `pthreads` that hold a thread
  tpc,           \* tpc[c]: "none", "run", "tls", "die", "off", "gone"
  tstate, lock,  \* thread::state and thread::lock
  field,         \* the word shared by start, semaphore_count, rwlock_mark
                 \* and retval
  result,        \* what start() of a thread returned (history)
  joined,        \* what thread_join() returned
  disposed       \* the threads whose stack is freed

vars == <<swVars, pc, i, created, tpc, tstate, lock, field, result, joined, disposed>>
child == <<tpc, tstate, lock, field, result, disposed>>

Init ==
  /\ SWInit
  /\ pc = "create" /\ i = 1
  /\ created = {} /\ disposed = {}
  /\ tpc = [c \in Child |-> "none"]
  /\ tstate = [c \in Child |-> "READY"]
  /\ lock = [c \in Child |-> None]
  /\ field = [c \in Child |-> 0]
  /\ result = [c \in Child |-> 0]
  /\ joined = [c \in Child |-> 0]

------------------------------------------------------------------------------
(* threads_create_join(): the first loop; `if (!th) break`                 *)
CreateChild ==
  /\ pc = "create"
  /\ created' = created \cup {i}
  /\ tpc' = [tpc EXCEPT ![i] = "run"]
  /\ IF i < N THEN i' = i + 1 /\ UNCHANGED pc
              ELSE i' = 1 /\ pc' = "join"
  /\ UNCHANGED <<swVars, tstate, lock, field, result, joined, disposed>>

CreateFails ==
  /\ pc = "create"
  /\ MayFail
  /\ pc' = "join"
  /\ i' = 1
  /\ UNCHANGED <<swVars, created, child, joined>>

(* thread_join(pthreads[i]): th->lock.lock() ...                           *)
JoinLock ==
  /\ pc = "join"
  /\ i \in created /\ lock[i] = None
  /\ lock' = [lock EXCEPT ![i] = Parent]
  /\ pc' = "check"
  /\ UNCHANGED <<swVars, i, created, tpc, tstate, field, result, joined, disposed>>

(* ... while it is not DONE, cond.wait(th->lock): sleep, ...               *)
JoinWait ==
  /\ pc = "check"
  /\ tstate[i] # "DONE"
  /\ Sleep(Parent, i)
  /\ pc' = "switch"
  /\ UNCHANGED <<i, created, child, joined>>

(* ... the deferred unlock, ...                                            *)
JoinUnlock ==
  /\ pc = "switch"
  /\ lock' = [lock EXCEPT ![i] = None]
  /\ pc' = "sleep"
  /\ UNCHANGED <<swVars, i, created, tpc, tstate, field, result, joined, disposed>>

(* ... and the lock again, for whatever reason the wait ended              *)
JoinRelock ==
  /\ pc = "sleep"
  /\ lock[i] = None
  /\ Clear(Parent)
  /\ lock' = [lock EXCEPT ![i] = Parent]
  /\ pc' = "check"
  /\ UNCHANGED <<i, created, tpc, tstate, field, result, joined, disposed>>

(* retval is read and the thread disposed.                                 *)
JoinDispose ==
  /\ pc = "check"
  /\ tstate[i] = "DONE"
  /\ joined' = [joined EXCEPT ![i] = field[i]]
  /\ disposed' = disposed \cup {i}
  /\ IF i < N THEN i' = i + 1 /\ pc' = "join"
              ELSE pc' = "end" /\ UNCHANGED i
  /\ UNCHANGED <<swVars, created, tpc, tstate, lock, field, result>>

------------------------------------------------------------------------------
(* start() returns, or thread_exit(): retval is stored ...                 *)
Return(c, v) ==
  /\ tpc[c] = "run"
  /\ field' = [field EXCEPT ![c] = v]
  /\ result' = [result EXCEPT ![c] = v]
  /\ tpc' = [tpc EXCEPT ![c] = "tls"]
  /\ UNCHANGED <<swVars, pc, i, created, tstate, lock, joined, disposed>>

(* ... die(): deallocate_tls() runs destructors; a semaphore::wait() in    *)
(* one of them sets semaphore_count, and finally resets it to 0 ...        *)
DtorWaits(c) ==
  /\ tpc[c] = "tls"
  /\ DtorBlocks
  /\ field' = [field EXCEPT ![c] = 0]
  /\ UNCHANGED <<swVars, pc, i, created, tpc, tstate, lock, result, joined, disposed>>

\* fault: die() unlocks before it has switched to another stack
DieEarlyUnlock(c) ==
  /\ tpc[c] = "tls"
  /\ lock[c] = None
  /\ tstate' = [tstate EXCEPT ![c] = "DONE"]
  /\ IF queue[c] = <<>> THEN UNCHANGED swVars ELSE Resume(c)
  /\ tpc' = [tpc EXCEPT ![c] = "die"]
  /\ UNCHANGED <<pc, i, created, lock, field, result, joined, disposed>>

\* fault: nobody who joins is notified
DieSilent(c) ==
  /\ tpc[c] = "tls"
  /\ lock[c] = None
  /\ lock' = [lock EXCEPT ![c] = c]
  /\ tstate' = [tstate EXCEPT ![c] = "DONE"]
  /\ tpc' = [tpc EXCEPT ![c] = "die"]
  /\ UNCHANGED <<swVars, pc, i, created, field, result, joined, disposed>>

(* ... lock, DONE, cond.notify_one(), leave the run queue ...              *)
Die(c) ==
  /\ tpc[c] = "tls"
  /\ lock[c] = None
  /\ lock' = [lock EXCEPT ![c] = c]
  /\ tstate' = [tstate EXCEPT ![c] = "DONE"]
  /\ IF queue[c] = <<>> THEN UNCHANGED swVars ELSE Resume(c)
  /\ tpc' = [tpc EXCEPT ![c] = "die"]
  /\ UNCHANGED <<pc, i, created, field, result, joined, disposed>>

(* ... and unlock on the stack of the next thread.                         *)
DieUnlock(c) ==
  /\ tpc[c] = "die"
  /\ lock' = [lock EXCEPT ![c] = None]
  /\ tpc' = [tpc EXCEPT ![c] = "gone"]
  /\ UNCHANGED <<swVars, pc, i, created, tstate, field, result, joined, disposed>>

(* The parent may be interrupted, or nudged after its wait.                *)
InterruptParent ==
  /\ Interrupt(Parent, EINTR) \/ (pc = "sleep" /\ Nudge(Parent, EINTR))
  /\ UNCHANGED <<pc, i, created, child, joined>>

ParentSteps == JoinLock \/ JoinWait \/ JoinUnlock \/ JoinRelock \/ JoinDispose
ChildSteps(c) == DtorWaits(c) \/ Die(c) \/ DieUnlock(c)

Next ==
  \/ CreateChild \/ CreateFails \/ ParentSteps
  \/ \E c \in Child : (\E v \in Values : Return(c, v)) \/ ChildSteps(c)
  \/ InterruptParent

Spec == Init /\ [][Next]_vars

(* The parent and the threads that end keep running.                       *)
FairSpec ==
  /\ Spec
  /\ SF_vars(ParentSteps)
  /\ \A c \in Child : SF_vars(Die(c)) /\ WF_vars(DieUnlock(c))

------------------------------------------------------------------------------
(* A thread's stack is freed only when the thread has left it: nobody runs *)
(* on, or unlocks, freed memory.                                           *)
FreedAfterUse == \A c \in disposed : tpc[c] = "gone" /\ lock[c] # c

(* If every thread returns, all are joined, also when the parent is        *)
(* interrupted meanwhile.                                                  *)
Due == \A c \in Child : tpc[c] \notin {"none", "run"}
Settled == pc = "end"
AllJoined == Due ~> Settled
==============================================================================
