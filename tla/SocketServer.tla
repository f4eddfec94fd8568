---------------------------- MODULE SocketServer ----------------------------
(***************************************************************************)
(* KernelSocketServer (net/kernel_socket.cpp): the accept loop in a thread *)
(* of its own or in its caller, the handlers it starts, terminate() and    *)
(* the destructor.  The listening socket is external.                      *)
(***************************************************************************)
EXTENDS Naturals, FiniteSets

CONSTANTS Conn,   \* connections of clients
          Null

VARIABLES sv,    \* the server: workth, waiting, m_block_serv, and whether it exists
          lp,    \* the thread of the accept loop
          ow,    \* the thread that terminates and deletes the server
          cn     \* connections: queued by the kernel, being handled, closed

vars == <<sv, lp, ow, cn>>

Init ==
    /\ sv = [workth |-> FALSE, waiting |-> FALSE, block |-> FALSE, alive |-> TRUE]
    /\ lp = [pc |-> "none", conn |-> Null]
    /\ ow = "run"
    /\ cn = [c \in Conn |-> "new"]

----------------------------------------------------------------------------
\* start_loop() and the beginning of accept_loop().
StartLoop(block) ==
    /\ ow = "run" /\ lp.pc = "none" /\ sv.alive /\ ~sv.workth
    /\ sv' = [sv EXCEPT !.workth = TRUE, !.waiting = TRUE, !.block = block]
    /\ lp' = [pc |-> "accept", conn |-> Null]
    /\ UNCHANGED <<ow, cn>>

Connects(c) ==
    /\ cn[c] = "new"
    /\ cn' = [cn EXCEPT ![c] = "queued"]
    /\ UNCHANGED <<sv, lp, ow>>

\* accept() returns a connection, or fails, or is interrupted by terminate().
Accept(c) ==
    /\ lp.pc = "accept" /\ cn[c] = "queued"
    /\ lp' = [pc |-> "accepted", conn |-> c]
    /\ cn' = [cn EXCEPT ![c] = "accepted"]
    /\ UNCHANGED <<sv, ow>>

AcceptFails ==
    /\ lp.pc = "accept"
    /\ lp' = [pc |-> "accepted", conn |-> Null]
    /\ UNCHANGED <<sv, ow, cn>>

\* accept_loop() after accept(): stop, or start the handler and accept again, or after a
\* failure sleep a millisecond first.
Accepted ==
    LET stop == ~sv.workth IN
    /\ lp.pc = "accepted"
    /\ sv' = [sv EXCEPT !.waiting = ~stop /\ lp.conn # Null]
    /\ lp' = [pc |-> IF stop THEN "ended" ELSE IF lp.conn = Null THEN "backoff" ELSE "accept", conn |-> Null]
    /\ cn' = [c \in Conn |-> IF c = lp.conn THEN (IF stop THEN "dropped" ELSE "handled") ELSE cn[c]]
    /\ ow' = ow

BackOffEnds ==
    /\ lp.pc = "backoff"
    /\ IF sv.workth
       THEN sv' = [sv EXCEPT !.waiting = TRUE] /\ lp' = [lp EXCEPT !.pc = "accept"]
       ELSE sv' = sv /\ lp' = [lp EXCEPT !.pc = "ended"]
    /\ UNCHANGED <<ow, cn>>

\* handler(): serve, and delete the stream.
Handler(c) ==
    /\ cn[c] = "handled"
    /\ cn' = [cn EXCEPT ![c] = "closed"]
    /\ UNCHANGED <<sv, lp, ow>>

----------------------------------------------------------------------------
\* fault: the loop is not waited for
TerminateUnjoined ==
    /\ ow = "run" /\ sv.alive
    /\ sv' = [sv EXCEPT !.workth = FALSE]
    /\ lp' = IF sv.workth /\ sv.waiting /\ lp.pc = "accept" THEN [pc |-> "accepted", conn |-> Null] ELSE lp
    /\ ow' = "terminated"
    /\ cn' = cn

\* terminate(): a loop that waits is interrupted, and joined unless it is its caller's.
Terminate ==
    /\ ow = "run" /\ sv.alive
    /\ sv' = [sv EXCEPT !.workth = FALSE]
    /\ lp' = IF sv.workth /\ sv.waiting /\ lp.pc = "accept" THEN [pc |-> "accepted", conn |-> Null] ELSE lp
    /\ ow' = IF sv.workth /\ sv.waiting /\ ~sv.block THEN "join" ELSE "terminated"
    /\ cn' = cn

Joined ==
    /\ ow = "join" /\ lp.pc = "ended"
    /\ ow' = "terminated"
    /\ UNCHANGED <<sv, lp, cn>>

\* After terminate(), and when its loop has ended, the server may be started again.
Restart ==
    /\ ow = "terminated" /\ lp.pc = "ended"
    /\ ow' = "run"
    /\ lp' = [pc |-> "none", conn |-> Null]
    /\ UNCHANGED <<sv, cn>>

\* The destructor; the caller of start_loop(true) is to have returned from it.
Delete ==
    /\ ow = "terminated" /\ (sv.block => lp.pc \in {"none", "ended"})
    /\ ow' = "deleted"
    /\ sv' = [sv EXCEPT !.alive = FALSE]
    /\ UNCHANGED <<lp, cn>>

Next ==
    \/ \E block \in BOOLEAN : StartLoop(block)
    \/ \E c \in Conn : Connects(c) \/ Accept(c) \/ Handler(c)
    \/ AcceptFails \/ Accepted \/ BackOffEnds \/ Terminate \/ Joined \/ Restart \/ Delete

Spec == Init /\ [][Next]_vars

FairSpec ==
    /\ Spec /\ WF_vars(Accepted) /\ WF_vars(BackOffEnds) /\ WF_vars(Joined)
    /\ \A c \in Conn : WF_vars(Handler(c)) /\ SF_vars(Accept(c))

----------------------------------------------------------------------------
\* The accept loop never runs on a deleted server - but for one that terminate() met while
\* it slept after a failed accept(), which is neither interrupted nor joined.
ServerOutlivesLoop == ~sv.alive => lp.pc \in {"none", "ended", "backoff"}

\* A connection to a server that is left running is served to its end.
Due(c) == cn[c] = "queued"
Settled(c) == cn[c] = "closed" \/ ~sv.workth
Served == \A c \in Conn : Due(c) ~> Settled(c)
============================================================================
