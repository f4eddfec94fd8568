------------------------------- MODULE MCVCPU -------------------------------
(***************************************************************************)
(* Model checking of what vCPUs share below the scheduler: the spin locks  *)
(* and the theft of work.  A behaviour exercises one `part`; the variables *)
(* of the other parts keep their initial values, so that the states of the *)
(* run are the sum of the states of the parts, and not their product.      *)
(***************************************************************************)
EXTENDS QSpinlock, TLC

CONSTANTS Wrap,                    \* where the ticket counters wrap around
          Fg, Background,          \* the users of the asymmetric lock
          v1, v2, t1, t2, t3,      \* vCPUs and threads of the theft
          Parts                    \* the parts that are exercised

VARIABLES
  part,
  t_next, t_serv, t_ticket, t_successor, t_pc, t_turn,
  a_foreground_locked, a_background_locked, a_buf, a_pc,
  w_runq, w_runq_lock, w_standbyq, w_sleepq, w_nthreads, w_state, w_vcpu, w_lock,
  w_pc, w_scan, w_stolen, w_victim, w_broken

Ticket == INSTANCE TicketSpinlock WITH
  next <- t_next, serv <- t_serv, ticket <- t_ticket, successor <- t_successor,
  pc <- t_pc, turn <- t_turn

\* The asymmetric lock on a machine without and with store buffers
Asym == INSTANCE AsymSpinlock WITH BufferSize <- 0,
  foreground_locked <- a_foreground_locked, background_locked <- a_background_locked,
  buf <- a_buf, pc <- a_pc
Buffered == INSTANCE AsymSpinlock WITH BufferSize <- 2,
  foreground_locked <- a_foreground_locked, background_locked <- a_background_locked,
  buf <- a_buf, pc <- a_pc

\* Thieves look at run queues, and threads are interrupted; thieves look at
\* standby queues, too, and threads migrate.
Theft == INSTANCE WorkStealing WITH StealFrom <- {"runq"}, Ops <- {"interrupt"},
  VCPU <- {v1, v2}, Thread <- {t1, t2, t3}, Stealable <- {t1, t2}, None <- Null,
  Home <- t1 :> v1 @@ t2 :> v1 @@ t3 :> v1,
  runq <- w_runq, runq_lock <- w_runq_lock, standbyq <- w_standbyq, sleepq <- w_sleepq,
  nthreads <- w_nthreads, state <- w_state, vcpu <- w_vcpu, lock <- w_lock, pc <- w_pc,
  scan <- w_scan, stolen <- w_stolen, victim <- w_victim, broken <- w_broken
TheftAll == INSTANCE WorkStealing WITH StealFrom <- {"runq", "standbyq"}, Ops <- {"migrate"},
  VCPU <- {v1, v2}, Thread <- {t1, t2, t3}, Stealable <- {t1, t2}, None <- Null,
  Home <- t1 :> v1 @@ t2 :> v1 @@ t3 :> v1,
  runq <- w_runq, runq_lock <- w_runq_lock, standbyq <- w_standbyq, sleepq <- w_sleepq,
  nthreads <- w_nthreads, state <- w_state, vcpu <- w_vcpu, lock <- w_lock, pc <- w_pc,
  scan <- w_scan, stolen <- w_stolen, victim <- w_victim, broken <- w_broken

t_vars == <<t_next, t_serv, t_ticket, t_successor, t_pc, t_turn>>
a_vars == <<a_foreground_locked, a_background_locked, a_buf, a_pc>>
w_vars == <<w_runq, w_runq_lock, w_standbyq, w_sleepq, w_nthreads, w_state, w_vcpu,
            w_lock, w_pc, w_scan, w_stolen, w_victim, w_broken>>
allVars == <<vars, t_vars, a_vars, w_vars, part>>

MCInit ==
  /\ part \in Parts
  /\ Init /\ Ticket!Init /\ Asym!Init /\ Theft!Init

MCNext ==
  /\ UNCHANGED part
  /\ \/ part = "queued" /\ Next /\ UNCHANGED <<t_vars, a_vars, w_vars>>
     \/ part = "ticket" /\ Ticket!Next /\ UNCHANGED <<vars, a_vars, w_vars>>
     \/ part = "asymmetric" /\ Asym!Next /\ UNCHANGED <<vars, t_vars, w_vars>>
     \/ part = "buffered" /\ Buffered!Next /\ UNCHANGED <<vars, t_vars, w_vars>>
     \/ part = "running" /\ Theft!Next /\ UNCHANGED <<vars, t_vars, a_vars>>
     \/ part = "all" /\ TheftAll!Next /\ UNCHANGED <<vars, t_vars, a_vars>>

\* Fairness of QSpinlock and of AsymSpinlock, in the behaviours of their parts
AsymLeaves(c) ==
  \/ part = "asymmetric" /\ Asym!Leaves(c)
  \/ part = "buffered" /\ (Buffered!Leaves(c) \/ Buffered!Flush(c))
MCFairness ==
  /\ \A p \in Proc :
       WF_allVars(/\ part = "queued" /\ (Lock(p) \/ LeaveCS(p) \/ Unlock(p))
                  /\ UNCHANGED <<part, t_vars, a_vars, w_vars>>)
  /\ \A c \in {Fg} \cup Background :
       WF_allVars(AsymLeaves(c) /\ UNCHANGED <<part, vars, t_vars, w_vars>>)

MCSpec == MCInit /\ [][MCNext]_allVars /\ MCFairness
\* ... and of WorkStealing
MCTheftSpec ==
  /\ MCInit /\ [][MCNext]_allVars
  /\ \A v \in {v1, v2} :
       SF_allVars(part = "running" /\ Theft!Proceeds(v) /\ UNCHANGED <<part, vars, t_vars, a_vars>>)

------------------------------------------------------------------------------
(* TicketSpinlock: one thread at a time has the ticket lock, in the order  *)
(* of the fetch_add()s, also after the counters have wrapped around.       *)
(* AsymSpinlock: the vCPU and the thieves never use a run queue together   *)
(* if stores are seen at once.                                             *)
SpinlocksExclude ==
  /\ Ticket!MutualExclusion /\ Ticket!FIFO
  /\ part = "asymmetric" => Asym!MutualExclusion

(* QSpinlock: lock() returns.  AsymSpinlock: foreground_lock() gets the    *)
(* lock, also with store buffers, however many thieves come.               *)
LockersEnter == LockReturns /\ Buffered!ForegroundEnters

(* WorkStealing: a theft loses, doubles or miscounts no thread.            *)
TheftKeepsThreads == Theft!OnePlace /\ Theft!ThreadsCounted

(* WorkStealing: thread_usleep() is not stopped for ever by a thief.       *)
UsleepProceeds == Theft!UsleepProceeds
==============================================================================
