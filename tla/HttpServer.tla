----------------------------- MODULE HttpServer -----------------------------
(***************************************************************************)
(* HTTPServerImpl (net/http/server.cpp): the loop of handle_connection()   *)
(* over the requests of a connection, one photon thread per connection,    *)
(* and the destructor of the server.                                       *)
(***************************************************************************)
EXTENDS Naturals, FiniteSets

CONSTANTS Conn, MaxReq

VARIABLES server,  \* running, stopping, deleted
          workers, \* m_workers
          list,    \* m_connection_list
          cn       \* a connection: where its thread is; whether it is shut down; the requests
                   \* sent on it; what of a request the last header did not take (nothing, at
                   \* most SKIP_LIMIT bytes, more), and what beyond that request it took

vars == <<server, workers, list, cn>>

Init ==
    /\ server = "running" /\ workers = 0 /\ list = {}
    /\ cn = [c \in Conn |-> [pc |-> "none", shut |-> FALSE, sent |-> 0, left |-> "none",
                             beyond |-> FALSE, keep |-> TRUE]]

----------------------------------------------------------------------------
\* handle_connection() begins, for a connection that the socket server has accepted; it is
\* terminated before the HTTP server is deleted.
HandleConnection(c) ==
    /\ server = "running" /\ cn[c].pc = "none"
    /\ workers' = workers + 1
    /\ list' = list \cup {c}
    /\ cn' = [cn EXCEPT ![c].pc = "top"]
    /\ UNCHANGED server

Leave(c) ==
    /\ list' = list \ {c}
    /\ workers' = workers - 1
    /\ cn' = [cn EXCEPT ![c].pc = "done"]
    /\ UNCHANGED server

\* The client sends a request, maybe before the last one is answered; or it hangs up.
Request(c) ==
    /\ cn[c].pc \notin {"none", "done"} /\ ~cn[c].shut /\ cn[c].sent < MaxReq
    /\ cn' = [cn EXCEPT ![c].sent = @ + 1]
    /\ UNCHANGED <<server, workers, list>>

HangUp(c) ==
    /\ cn[c].pc \notin {"none", "done"} /\ ~cn[c].shut
    /\ cn' = [cn EXCEPT ![c].shut = TRUE]
    /\ UNCHANGED <<server, workers, list>>

\* while (status == running)
Top(c) ==
    /\ cn[c].pc = "top"
    /\ \/ server # "running" /\ Leave(c)
       \/ /\ server = "running"
          /\ cn' = [cn EXCEPT ![c].pc = "receive"]
          /\ UNCHANGED <<server, workers, list>>

\* receive_header(): the header, some of the body and maybe of the next request.
ReceiveHeader(c, left, beyond) ==
    /\ cn[c].pc = "receive" /\ cn[c].sent > 0
    /\ beyond => left = "none" /\ cn[c].sent > 1
    /\ cn' = [cn EXCEPT ![c].pc = "handle", ![c].sent = @ - 1, ![c].left = left,
                        ![c].beyond = beyond]
    /\ UNCHANGED <<server, workers, list>>

\* The peer is gone, or the header is malformed.
ReceiveFails(c) == cn[c].pc = "receive" /\ (cn[c].shut \/ cn[c].sent > 0) /\ Leave(c)

\* mux_handler() reads some of the body and makes a response; or it fails.
Handle(c, keep, all) ==
    /\ cn[c].pc = "handle"
    /\ cn' = [cn EXCEPT ![c].pc = "send", ![c].keep = keep,
                        ![c].left = IF all THEN "none" ELSE @]
    /\ UNCHANGED <<server, workers, list>>

HandleFails(c) == cn[c].pc = "handle" /\ Leave(c)

\* resp.send(), keep_alive(), skip_remain()
Send(c) ==
    /\ cn[c].pc = "send"
    /\ \/ ~cn[c].shut /\ cn[c].keep
          /\ cn' = [cn EXCEPT ![c].pc = "skip"]
          /\ UNCHANGED <<server, workers, list>>
       \/ (cn[c].shut \/ ~cn[c].keep) /\ Leave(c)

\* fault: the rest of the request is not skipped
SkipRemainNot(c) ==
    /\ cn[c].pc = "skip"
    /\ cn' = [cn EXCEPT ![c].pc = "top"]
    /\ UNCHANGED <<server, workers, list>>

\* The difference of what is left and what was taken is unsigned: to have taken more than the
\* request is to have too much left.
SkipRemain(c) ==
    /\ cn[c].pc = "skip"
    /\ IF cn[c].left = "much" \/ cn[c].beyond \/ (cn[c].left = "little" /\ cn[c].shut) THEN Leave(c)
       ELSE /\ cn' = [cn EXCEPT ![c].pc = "top", ![c].left = "none"]
            /\ UNCHANGED <<server, workers, list>>

----------------------------------------------------------------------------
\* fault: the connections are not shut down
DestructorNoShutdown ==
    /\ server = "running"
    /\ server' = "stopping"
    /\ UNCHANGED <<workers, list, cn>>

\* ~HTTPServerImpl(): every connection of the list is shut down,
Destructor ==
    /\ server = "running"
    /\ server' = "stopping"
    /\ cn' = [c \in Conn |-> IF c \in list THEN [cn[c] EXCEPT !.shut = TRUE] ELSE cn[c]]
    /\ UNCHANGED <<workers, list>>

\* fault: the threads of the connections are not waited for
DeleteNow ==
    /\ server = "stopping"
    /\ server' = "deleted"
    /\ UNCHANGED <<workers, list, cn>>

\* and their threads are waited for.
Delete ==
    /\ server = "stopping" /\ workers = 0
    /\ server' = "deleted"
    /\ UNCHANGED <<workers, list, cn>>

ThreadRuns(c) ==
    \/ Top(c) \/ ReceiveFails(c) \/ HandleFails(c) \/ Send(c) \/ SkipRemain(c)
    \/ \E left \in {"none", "little", "much"}, beyond \in BOOLEAN : ReceiveHeader(c, left, beyond)
    \/ \E keep, all \in BOOLEAN : Handle(c, keep, all)

Next ==
    \/ \E c \in Conn : HandleConnection(c) \/ Request(c) \/ HangUp(c) \/ ThreadRuns(c)
    \/ Destructor \/ Delete

Spec == Init /\ [][Next]_vars
FairSpec == Spec /\ WF_vars(Delete) /\ \A c \in Conn : WF_vars(ThreadRuns(c))

----------------------------------------------------------------------------
\* A header is received where a request begins: no byte of the last one is left on the
\* connection, and none of this one has been taken with it.
HeaderAtStart ==
    \A c \in Conn : cn[c].pc \in {"top", "receive"} => cn[c].left = "none" /\ ~cn[c].beyond

\* No connection's thread runs on a deleted server.
ServerOutlivesThreads ==
    server = "deleted" => \A c \in Conn : cn[c].pc \in {"none", "done"}

\* The destructor returns, though clients may keep their connections open and idle.
Stopping == server = "stopping"
Stopped == server = "deleted"
DestructorReturns == Stopping ~> Stopped
============================================================================
