---------------------------- MODULE WorkStealing ----------------------------
(***************************************************************************)
(* Work stealing between vCPUs (try_work_stealing(), ws_scan_q(),          *)
(* ws_scan_standbyq(), ws_scan_runq() in thread/thread.cpp), with the      *)
(* operations of the vCPU stolen from that meet it: yield, usleep,         *)
(* interrupts and resume_threads().  asymmetric_spinLock, modelled in      *)
(* AsymSpinlock, is here the holder of the lock.  The idle worker of a     *)
(* vCPU is the thread that runs when its run queue is empty.               *)
(***************************************************************************)
EXTENDS Naturals, SequencesExt, FiniteSets

CONSTANTS
  VCPU, Thread, None,
  Home,         \* Home[t]: the vCPU a thread starts on
  Stealable,    \* the threads that allow_work_stealing()
  StealFrom,    \* the queues that thieves look at: "standbyq", "runq"
  Ops           \* what threads do: "interrupt", "migrate"

VARIABLES
  runq,           \* the ring of each vCPU without the idle worker; its head runs
  runq_lock,      \* holder of the asymmetric spin lock: a vCPU
  standbyq, sleepq, nthreads,
  state, vcpu,
  lock,           \* holder of thread::lock: a vCPU
  pc, scan, stolen, victim,   \* each vCPU: its place and locals of a theft
  broken          \* a null pointer was read

vars == <<runq, runq_lock, standbyq, sleepq, nthreads, state, vcpu, lock,
          pc, scan, stolen, victim, broken>>
theft == <<scan, stolen, victim>>

Started(v) == SetToSeq({t \in Thread : Home[t] = v})
Init ==
  /\ runq = [v \in VCPU |-> Started(v)]
  /\ runq_lock = [v \in VCPU |-> None]
  /\ standbyq = [v \in VCPU |-> <<>>]
  /\ sleepq = [v \in VCPU |-> {}]
  /\ nthreads = [v \in VCPU |-> Len(Started(v))]
  /\ vcpu = Home
  /\ state = [t \in Thread |-> IF Head(Started(Home[t])) = t THEN "RUNNING" ELSE "READY"]
  /\ lock = [t \in Thread |-> None]
  /\ pc = [v \in VCPU |-> "run"]
  /\ scan = [v \in VCPU |-> <<>>] /\ stolen = [v \in VCPU |-> <<>>]
  /\ victim = [v \in VCPU |-> None]
  /\ broken = FALSE

At(v, l) == pc[v] = l /\ ~broken
Goto(v, l) == pc' = [pc EXCEPT ![v] = l]
\* v's run queue becomes s: its head runs.
Run(v, s, st) ==
  /\ runq' = [runq EXCEPT ![v] = s]
  /\ state' = [t \in Thread |-> IF s # <<>> /\ t = Head(s) THEN "RUNNING" ELSE st[t]]

------------------------------------------------------------------------------
(* thread_yield(): goto_next() under the run-queue lock ...                *)
Yield(v) ==
  /\ At(v, "run") /\ Len(runq[v]) > 1 /\ runq_lock[v] = None
  /\ Run(v, Append(Tail(runq[v]), Head(runq[v])),
         [state EXCEPT ![Head(runq[v])] = "READY"])
  /\ Goto(v, "switch")
  /\ UNCHANGED <<runq_lock, standbyq, sleepq, nthreads, vcpu, lock, theft, broken>>

(* ... and switch_context(), without it, which saves the registers of the  *)
(* thread that v has been running until now                                *)
SwitchContext(v) ==
  /\ At(v, "switch")
  /\ Goto(v, "run")
  /\ UNCHANGED <<runq, runq_lock, standbyq, sleepq, nthreads, state, vcpu, lock,
                 theft, broken>>

(* prepare_usleep(): current->lock is taken ...                            *)
UsleepLock(v) ==
  /\ At(v, "run") /\ runq[v] # <<>>
  /\ lock[Head(runq[v])] = None
  /\ lock' = [lock EXCEPT ![Head(runq[v])] = v]
  /\ Goto(v, "usleep")
  /\ UNCHANGED <<runq, runq_lock, standbyq, sleepq, nthreads, state, vcpu, theft, broken>>

(* ... then AtomicRunQ waits for the background to leave the run queue     *)
UsleepRemove(v) ==
  LET t == Head(runq[v])
  IN /\ At(v, "usleep")
     /\ runq_lock[v] = None
     /\ Run(v, Tail(runq[v]), [state EXCEPT ![t] = "SLEEPING"])
     /\ sleepq' = [sleepq EXCEPT ![v] = @ \cup {t}]
     /\ lock' = [lock EXCEPT ![t] = None]
     /\ Goto(v, "switch")
     /\ UNCHANGED <<runq_lock, standbyq, nthreads, vcpu, theft, broken>>

(* thread_interrupt(t) by a thread of another vCPU: t is STANDBY, and not  *)
(* popped from sleepq                                                      *)
Interrupt(v, t) ==
  /\ "interrupt" \in Ops
  /\ At(v, "run") /\ vcpu[t] # v
  /\ state[t] = "SLEEPING" /\ lock[t] = None
  /\ state' = [state EXCEPT ![t] = "STANDBY"]
  /\ standbyq' = [standbyq EXCEPT ![vcpu[t]] = Append(@, t)]
  /\ UNCHANGED <<runq, runq_lock, sleepq, nthreads, vcpu, lock, pc, theft, broken>>

\* Threads enter v's run queue at its tail.
Enter(v, s, st) ==
  /\ runq_lock[v] = None
  /\ Run(v, runq[v] \o s, [t \in Thread |-> IF Contains(s, t) THEN "READY" ELSE st[t]])

(* resume_threads(): the whole standbyq ...                                *)
ResumeStandby(v) ==
  /\ At(v, "run") /\ standbyq[v] # <<>>
  /\ Enter(v, standbyq[v], state)
  /\ sleepq' = [sleepq EXCEPT ![v] = @ \ ToSet(standbyq[v])]
  /\ standbyq' = [standbyq EXCEPT ![v] = <<>>]
  /\ UNCHANGED <<runq_lock, nthreads, vcpu, lock, pc, theft, broken>>

(* ... and a thread whose time has come, if it still sleeps                *)
Expire(v, t) ==
  /\ At(v, "run") /\ t \in sleepq[v] /\ lock[t] = None
  /\ sleepq' = [sleepq EXCEPT ![v] = @ \ {t}]
  /\ IF state[t] = "SLEEPING" THEN Enter(v, <<t>>, state) ELSE UNCHANGED <<runq, state>>
  /\ UNCHANGED <<runq_lock, standbyq, nthreads, vcpu, lock, pc, theft, broken>>

------------------------------------------------------------------------------

\* The threads of the set S move from u to v.
Move(S, u, v) ==
  /\ vcpu' = [t \in Thread |-> IF t \in S THEN v ELSE vcpu[t]]
  /\ nthreads' = [nthreads EXCEPT ![u] = @ - Cardinality(S), ![v] = @ + Cardinality(S)]

(* thread_migrate(t, u) of a READY thread                                  *)
Migrate(v, t, u) ==
  /\ "migrate" \in Ops
  /\ At(v, "run") /\ u # v /\ runq_lock[v] = None
  /\ Contains(runq[v], t) /\ state[t] = "READY"
  /\ runq' = [runq EXCEPT ![v] = Remove(@, t)]
  /\ state' = [state EXCEPT ![t] = "STANDBY"]
  /\ Move({t}, v, u)
  /\ standbyq' = [standbyq EXCEPT ![u] = Append(@, t)]
  /\ UNCHANGED <<runq_lock, sleepq, lock, pc, theft, broken>>

(* ws_scan_standbyq(v, u), under standbyq.lock: the stealable threads at   *)
(* the head, or those after an unstealable head.                           *)
StealStandby(v, u) ==
  LET q == standbyq[u]
      kept == {t \in ToSet(q) : t \notin Stealable}
      \* the loop ends at the first unstealable thread
      run == {i \in 1..Len(q) : \A j \in 1..i : q[j] \in Stealable}
      taken == IF q[1] \in Stealable THEN SubSeq(q, 1, Cardinality(run))
                                     ELSE SelectSeq(q, LAMBDA t : t \in Stealable)
  IN /\ "standbyq" \in StealFrom
     /\ At(v, "run") /\ runq[v] = <<>> /\ u # v
     /\ q # <<>> /\ \A t \in ToSet(q) : lock[t] = None
     /\ taken # <<>>
     /\ Move(ToSet(taken), u, v)
     /\ standbyq' = [standbyq EXCEPT ![u] = SelectSeq(q, LAMBDA t : ~Contains(taken, t))]
     /\ Run(v, taken, state)
     /\ kept # {}
     /\ UNCHANGED <<runq_lock, sleepq, lock, pc, theft, broken>>

(* ... and if all of them can be stolen, the loop reads the flags of       *)
(* front() of the queue it has emptied: the process ends here.             *)
StealStandbyAll(v, u) ==
  /\ "standbyq" \in StealFrom
  /\ At(v, "run") /\ runq[v] = <<>> /\ u # v
  /\ standbyq[u] # <<>> /\ \A t \in ToSet(standbyq[u]) : lock[t] = None /\ t \in Stealable
  /\ broken' = TRUE
  /\ UNCHANGED <<runq, runq_lock, standbyq, sleepq, nthreads, state, vcpu, lock, pc,
                 theft>>

(* ws_scan_runq(v, u): background_try_lock() ...                           *)
StealRunq(v, u) ==
  /\ "runq" \in StealFrom
  /\ At(v, "run") /\ runq[v] = <<>> /\ u # v
  /\ runq_lock[u] = None
  /\ runq_lock' = [runq_lock EXCEPT ![u] = v]
  /\ victim' = [victim EXCEPT ![v] = u]
  /\ scan' = [scan EXCEPT ![v] = runq[u]]
  /\ Goto(v, "scan")
  /\ UNCHANGED <<runq, standbyq, sleepq, nthreads, state, vcpu, lock, stolen, broken>>

\* fault: a stolen thread is not removed from the run queue
ScanCopies(v) ==
  LET t == Head(scan[v])
      u == victim[v]
  IN /\ At(v, "scan") /\ scan[v] # <<>> /\ lock[t] = None
     /\ scan' = [scan EXCEPT ![v] = Tail(@)]
     /\ IF state[t] # "RUNNING" /\ t \in Stealable
        THEN /\ stolen' = [stolen EXCEPT ![v] = Append(@, t)]
             /\ Move({t}, u, v)
        ELSE UNCHANGED <<stolen, vcpu, nthreads>>
     /\ UNCHANGED <<runq, runq_lock, standbyq, sleepq, state, lock, pc, victim, broken>>

(* ... ws_scan_q(): lock the next thread, and take it if it does not run   *)
Scan(v) ==
  LET t == Head(scan[v])
      u == victim[v]
  IN /\ At(v, "scan") /\ scan[v] # <<>> /\ lock[t] = None
     /\ scan' = [scan EXCEPT ![v] = Tail(@)]
     /\ IF state[t] # "RUNNING" /\ t \in Stealable
        THEN /\ runq' = [runq EXCEPT ![u] = Remove(@, t)]
             /\ stolen' = [stolen EXCEPT ![v] = Append(@, t)]
             /\ Move({t}, u, v)
        ELSE UNCHANGED <<runq, stolen, vcpu, nthreads>>
     /\ UNCHANGED <<runq_lock, standbyq, sleepq, state, lock, pc, victim, broken>>

(* ... background_unlock(), and the stolen threads enter v's run queue     *)
StealEnd(v) ==
  /\ At(v, "scan") /\ scan[v] = <<>>
  /\ runq_lock' = [runq_lock EXCEPT ![victim[v]] = None]
  /\ Run(v, stolen[v], state)
  /\ stolen' = [stolen EXCEPT ![v] = <<>>]
  /\ victim' = [victim EXCEPT ![v] = None]
  /\ Goto(v, "run")
  /\ UNCHANGED <<standbyq, sleepq, nthreads, vcpu, lock, scan, broken>>

------------------------------------------------------------------------------
Next ==
  \E v \in VCPU :
    \/ Yield(v) \/ SwitchContext(v) \/ UsleepLock(v) \/ UsleepRemove(v) \/ ResumeStandby(v)
    \/ \E t \in Thread : Interrupt(v, t) \/ Expire(v, t)
    \/ \E u \in VCPU : \/ \E t \in Thread : Migrate(v, t, u)
                      \/ StealStandby(v, u) \/ StealStandbyAll(v, u)
                      \/ StealRunq(v, u)
    \/ Scan(v) \/ StealEnd(v)

Spec == Init /\ [][Next]_vars

(* Every vCPU keeps running and gets a spin lock that is free repeatedly.  *)
Proceeds(v) == SwitchContext(v) \/ UsleepRemove(v) \/ Scan(v) \/ StealEnd(v)
FairSpec == Spec /\ \A v \in VCPU : SF_vars(Proceeds(v))

------------------------------------------------------------------------------
(* nthreads of a vCPU counts the threads that belong to it: vcpu_fini()    *)
(* and get_info() rely on it.                                              *)
ThreadsCounted == \A v \in VCPU : nthreads[v] = Cardinality({t \in Thread : vcpu[t] = v})

(* A thread is in the run queue of its vCPU, once, or on its way there     *)
(* with a thief, or it sleeps: none is lost or run twice by a theft.       *)
OnePlace ==
  \A t \in Thread : \A v \in VCPU :
    /\ Len(SelectSeq(runq[v], LAMBDA x : x = t)) <= 1
    /\ Contains(runq[v], t) => vcpu[t] = v /\ ~Contains(stolen[v], t)
    /\ vcpu[t] = v /\ state[t] \in {"READY", "RUNNING"} =>
         Contains(runq[v], t) \/ Contains(stolen[v], t)

(* "always lock struct thread before waitq, so as to avoid deadlock",      *)
(* "avoid wait while holding the lock": thread_usleep() is not stopped for *)
(* ever by a thief.                                                        *)
UsleepProceeds == \A v \in VCPU : pc[v] = "usleep" ~> pc[v] = "run"
==============================================================================
