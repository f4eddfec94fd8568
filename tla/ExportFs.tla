------------------------------ MODULE ExportFs ------------------------------
(***************************************************************************)
(* ExportBase (fs/exportfs.cpp): operations that threads outside photon    *)
(* put into a queue, the event loop that takes them out and runs each in a *)
(* photon thread of its own, and exportfs_init() / exportfs_fini().        *)
(***************************************************************************)
EXTENDS Naturals, Sequences, FiniteSets, SequencesExt

CONSTANTS Op, MaxInit, Stop

VARIABLES queue,  \* op_queue
          st,     \* of an operation: new, sent, running, done
          loop,   \* m_state of the event loop: STOP, WAITING
          ref,    \* ExportBase::ref
          fini,   \* the thread that calls exportfs_init() and exportfs_fini()
          inits   \* how many times

vars == <<queue, st, loop, ref, fini, inits>>

Init ==
    /\ queue = <<>> /\ loop = "STOP" /\ ref = 1 /\ fini = "out" /\ inits = 0
    /\ st = [o \in Op |-> "new"]

Running == {o \in Op : st[o] = "running"}

----------------------------------------------------------------------------
\* exportfs_init()
ExportfsInit ==
    /\ fini = "out" /\ inits < MaxInit
    /\ ref' = 1 /\ loop' = "WAITING" /\ fini' = "in" /\ inits' = inits + 1
    /\ UNCHANGED <<queue, st>>

\* perform(): from any kernel thread, under the lock.
Perform(o) ==
    /\ st[o] = "new"
    /\ queue' = Append(queue, o)
    /\ st' = [st EXCEPT ![o] = "sent"]
    /\ UNCHANGED <<loop, ref, fini, inits>>

\* wait4events() takes one out; the empty operation ends the loop.  on_events() starts a
\* thread and yields to it: do_opq() has taken `op` over before the loop goes on.
OnEvents ==
    /\ loop = "WAITING" /\ queue # <<>>
    /\ queue' = Tail(queue)
    /\ IF Head(queue) = Stop
       THEN loop' = "STOP" /\ UNCHANGED <<st, ref>>
       ELSE /\ st' = [st EXCEPT ![Head(queue)] = "running"]
            /\ ref' = ref + 1
            /\ loop' = loop
    /\ UNCHANGED <<fini, inits>>

\* The operation and its callback are done: do_opq() drops its reference.
DoOpq(o) ==
    /\ st[o] = "running"
    /\ st' = [st EXCEPT ![o] = "done"]
    /\ ref' = ref - 1
    /\ UNCHANGED <<queue, loop, fini, inits>>

----------------------------------------------------------------------------
\* exportfs_fini(): stop(),
FiniStop ==
    /\ fini = "in"
    /\ queue' = Append(queue, Stop)
    /\ fini' = "stop"
    /\ UNCHANGED <<st, loop, ref, inits>>

\* once the loop has stopped, drop the own reference,
FiniUnref ==
    /\ fini = "stop" /\ loop = "STOP"
    /\ ref' = ref - 1
    /\ fini' = "wait"
    /\ UNCHANGED <<queue, st, loop, inits>>

\* fault: the operations that still run are not waited for
FiniWaitNot ==
    /\ fini = "wait"
    /\ fini' = "drain"
    /\ UNCHANGED <<queue, st, loop, ref, inits>>

\* wait for those of the operations that run; the loop and the thread pool are deleted,
FiniWait ==
    /\ fini = "wait" /\ ref = 0
    /\ fini' = "drain"
    /\ UNCHANGED <<queue, st, loop, ref, inits>>

\* fault: what is left in the queue is left there
FiniDrainNot ==
    /\ fini = "drain"
    /\ fini' = "out"
    /\ UNCHANGED <<queue, st, loop, ref, inits>>

\* and what came after stop() is run by the caller.
FiniDrain ==
    /\ fini = "drain"
    /\ IF queue = <<>>
       THEN fini' = "out" /\ UNCHANGED <<queue, st>>
       ELSE /\ queue' = Tail(queue)
            /\ st' = [st EXCEPT ![Head(queue)] = "done"]
            /\ fini' = fini
    /\ UNCHANGED <<loop, ref, inits>>

Next ==
    \/ ExportfsInit \/ OnEvents \/ FiniStop \/ FiniUnref \/ FiniWait \/ FiniDrain
    \/ \E o \in Op : Perform(o) \/ DoOpq(o)

Spec == Init /\ [][Next]_vars

FairSpec ==
    /\ Spec /\ WF_vars(OnEvents) /\ WF_vars(FiniUnref) /\ WF_vars(FiniWait) /\ WF_vars(FiniDrain)
    /\ \A o \in Op : WF_vars(DoOpq(o))

----------------------------------------------------------------------------
\* Once exportfs_fini() has waited, no operation runs on the loop or the pool it deletes,
\* and the references count the operations that run.
FiniWaits ==
    /\ fini \in {"drain", "out"} => Running = {}
    /\ ref = Cardinality(Running) + (IF fini \in {"in", "stop"} \/ inits = 0 THEN 1 ELSE 0)

\* An operation that is sent while the loop exists is run, by the loop or by exportfs_fini().
Due(o) == st[o] = "sent" /\ fini # "out"
Settled(o) == st[o] = "done"
OpRuns == \A o \in Op : Due(o) ~> Settled(o)

\* exportfs_fini() returns.
Stopping == fini = "stop"
Stopped == fini = "out"
FiniReturns == Stopping ~> Stopped
============================================================================
