------------------------------ MODULE FuseLoop ------------------------------
(***************************************************************************)
(* SyncSessionLoop (fs/fuse_adaptor/session_loop.cpp): the workers of a    *)
(* FUSE session, photon threads of one vCPU.  The only worker that is not  *)
(* idle reads the device blocking, and with it blocks the vCPU; of the     *)
(* idle ones, one waits for the device and the others for an interrupt.    *)
(***************************************************************************)
EXTENDS Naturals, FiniteSets

CONSTANTS Worker, MaxReq

VARIABLES dev,      \* the device: requests that wait, requests to come, unmounted
          exited,   \* fuse_session_exited(se_)
          idlers,   \* idlers_
          waitting, \* waitting_
          pc        \* of a worker

vars == <<dev, exited, idlers, waitting, pc>>

Init ==
    /\ dev = [pending |-> 0, todo |-> MaxReq, gone |-> FALSE]
    /\ exited = FALSE /\ waitting = FALSE
    /\ idlers = Worker
    /\ pc = [w \in Worker |-> "created"]

VcpuFree == \A w \in Worker : pc[w] # "blocked"

\* thread_interrupt() of the workers of ws: the ones that sleep get ready.
Interrupted(p, ws) ==
    [w \in Worker |-> IF w \notin ws THEN p[w]
                      ELSE CASE p[w] = "sleep" -> "ready"
                             [] p[w] = "poll" -> "polled"
                             [] OTHER -> p[w]]

----------------------------------------------------------------------------
\* The kernel has a request; the file system is unmounted.
Arrive ==
    /\ dev.todo > 0 /\ ~dev.gone
    /\ dev' = [dev EXCEPT !.pending = @ + 1, !.todo = @ - 1]
    /\ UNCHANGED <<exited, idlers, waitting, pc>>

Unmount ==
    /\ ~dev.gone
    /\ dev' = [dev EXCEPT !.gone = TRUE, !.pending = 0]
    /\ UNCHANGED <<exited, idlers, waitting, pc>>

\* run() lets the workers go.
Start(w) ==
    /\ VcpuFree /\ pc[w] = "created"
    /\ idlers' = idlers \ {w}
    /\ pc' = [pc EXCEPT ![w] = "top"]
    /\ UNCHANGED <<dev, exited, waitting>>

\* fault: the idlers are left asleep
LeaveSilent(w) ==
    /\ pc' = [pc EXCEPT ![w] = "done"]
    /\ UNCHANGED <<idlers, waitting>>

\* The end of fuse_do_work(): every idler is interrupted.
Leave(w) ==
    /\ pc' = Interrupted([pc EXCEPT ![w] = "done"], idlers)
    /\ UNCHANGED <<idlers, waitting>>

\* fault: nobody is told of the request
TakeSilent(w) ==
    /\ dev' = [dev EXCEPT !.pending = @ - 1]
    /\ pc' = [pc EXCEPT ![w] = "process"]
    /\ UNCHANGED <<exited, idlers, waitting>>

\* A request is received: some idler is interrupted to look for the next one.
Take(w) ==
    /\ dev' = [dev EXCEPT !.pending = @ - 1]
    /\ IF idlers = {} THEN pc' = [pc EXCEPT ![w] = "process"]
       ELSE \E i \in idlers : pc' = Interrupted([pc EXCEPT ![w] = "process"], {i})
    /\ UNCHANGED <<exited, idlers, waitting>>

\* One turn of the loop.  fuse_session_receive_fd() of the nonblocking descriptor returns 0
\* when there is no request and when the session is over.
Idle(w) ==
    /\ idlers' = idlers \cup {w}
    /\ waitting' = TRUE
    /\ pc' = [pc EXCEPT ![w] = IF waitting THEN "sleep" ELSE "poll"]
    /\ exited' = (exited \/ dev.gone)
    /\ UNCHANGED dev

Loop(w) ==
    /\ VcpuFree /\ pc[w] = "top"
    /\ \/ exited /\ Leave(w) /\ UNCHANGED <<dev, exited>>
       \/ /\ ~exited /\ Cardinality(idlers) = Cardinality(Worker) - 1
          /\ pc' = [pc EXCEPT ![w] = "blocked"]
          /\ UNCHANGED <<dev, exited, idlers, waitting>>
       \/ /\ ~exited /\ Cardinality(idlers) # Cardinality(Worker) - 1
          /\ IF dev.pending > 0 THEN Take(w) ELSE Idle(w)

\* The blocking read returns.
BlockingRead(w) ==
    /\ pc[w] = "blocked"
    /\ \/ dev.pending > 0 /\ Take(w)
       \/ dev.gone /\ exited' = TRUE /\ Leave(w) /\ UNCHANGED dev

\* fuse_session_process_buf()
Process(w) ==
    /\ VcpuFree /\ pc[w] = "process"
    /\ pc' = [pc EXCEPT ![w] = "top"]
    /\ UNCHANGED <<dev, exited, idlers, waitting>>

\* The engine finds the device readable, or dead.
Readable(w) ==
    /\ VcpuFree /\ pc[w] = "poll" /\ (dev.pending > 0 \/ dev.gone)
    /\ pc' = [pc EXCEPT ![w] = "polled"]
    /\ UNCHANGED <<dev, exited, idlers, waitting>>

\* fault: the flag stays up when the wait for the device ends
WakesWaiting(w) ==
    /\ VcpuFree /\ pc[w] \in {"ready", "polled"}
    /\ idlers' = idlers \ {w}
    /\ pc' = [pc EXCEPT ![w] = "top"]
    /\ UNCHANGED <<dev, exited, waitting>>

\* A worker wakes up and is no longer idle.
Wakes(w) ==
    /\ VcpuFree /\ pc[w] \in {"ready", "polled"}
    /\ waitting' = (waitting /\ pc[w] # "polled")
    /\ idlers' = idlers \ {w}
    /\ pc' = [pc EXCEPT ![w] = "top"]
    /\ UNCHANGED <<dev, exited>>

Next ==
    \/ Arrive \/ Unmount
    \/ \E w \in Worker : \/ Start(w) \/ Loop(w) \/ BlockingRead(w) \/ Process(w)
                         \/ Readable(w) \/ Wakes(w)

Spec == Init /\ [][Next]_vars

\* The scheduler of the vCPU is fair and the kernel answers the blocking read.
FairSpec ==
    /\ Spec
    /\ \A w \in Worker : /\ WF_vars(Start(w)) /\ WF_vars(BlockingRead(w)) /\ WF_vars(Readable(w))
                         /\ WF_vars(Wakes(w)) /\ WF_vars(Loop(w)) /\ WF_vars(Process(w))

----------------------------------------------------------------------------
\* While requests are processed, however long that takes, and every other worker sleeps, one
\* of them waits for the device.
DeviceWatched ==
    (/\ \A w \in Worker : pc[w] \in {"sleep", "poll", "process"}
     /\ \E w \in Worker : pc[w] = "sleep")
        => \E w \in Worker : pc[w] = "poll"

\* After an unmount every worker ends: the loop returns.
Stopping == dev.gone
Stopped == \A w \in Worker : pc[w] = "done"
LoopReturns == Stopping ~> Stopped
============================================================================
