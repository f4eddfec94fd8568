----------------------------- MODULE HttpClient -----------------------------
(***************************************************************************)
(* ClientImpl::call() (net/http/client.cpp) over pooled connections: the   *)
(* round trips of an operation with its retries and redirects, and the     *)
(* connection that goes back to the pool when the response is destroyed    *)
(* (Message, message.cpp; BodyReadStream, body.cpp).                       *)
(***************************************************************************)
EXTENDS Naturals, Sequences, FiniteSets

CONSTANTS Op, Sock, MaxRetry, MaxFollow, Null

VARIABLES op,    \* an operation: where call() is, retry, followed, its connection, the one of
                 \* a redirect that the response still owns, the response
          sock   \* a connection: free, used, pooled or closed, what it still carries (each
                 \* response's trip, and how much of its body), whether some of it has
                 \* arrived, and whether a redirect gave it back with a body unread

vars == <<op, sock>>

\* What is left of a body: nothing, at most SKIP_LIMIT bytes, more (or unfinished chunks).
Rest == {"none", "little", "much"}

Init ==
    /\ op = [o \in Op |-> [pc |-> "out", retry |-> 0, followed |-> 0, sock |-> Null, old |-> Null, got |-> Null,
                           rest |-> "none", abandon |-> FALSE]]
    /\ sock = [s \in Sock |-> [st |-> "free", carries |-> <<>>, arrived |-> FALSE, unread |-> FALSE]]

Trip(o) == <<o, op[o].followed, op[o].retry>>

----------------------------------------------------------------------------
\* Of pooled_socket.cpp: a connection is reused, and taken back, unless it can be read from.
Closed(s) == [st |-> "closed", carries |-> <<>>, arrived |-> FALSE, unread |-> FALSE]
Released(s) == IF s.arrived THEN Closed(s) ELSE [s EXCEPT !.st = "pooled"]

\* The server's bytes arrive at any time.
Arrive(s) ==
    /\ sock[s].st \in {"used", "pooled"} /\ sock[s].carries # <<>> /\ ~sock[s].arrived
    /\ sock' = [sock EXCEPT ![s].arrived = TRUE]
    /\ op' = op

\* call(): a loop of round trips.
Call(o) ==
    /\ op[o].pc = "out"
    /\ op' = [op EXCEPT ![o].pc = "dial"]
    /\ sock' = sock

\* NEED_RETRY and FAST_RETRY
Retry(o) ==
    op' = [op EXCEPT ![o].pc = IF op[o].retry < MaxRetry THEN "dial" ELSE "failed",
                     ![o].retry = IF op[o].retry < MaxRetry THEN @ + 1 ELSE @,
                     ![o].sock = Null]

\* dial(): a pooled connection (one that can be read from is dropped) or a new one.
Dial(o, s) ==
    /\ op[o].pc = "dial"
    /\ \/ /\ sock[s].st = "pooled" /\ sock[s].arrived
          /\ sock' = [sock EXCEPT ![s] = Closed(@)]
          /\ op' = op
       \/ /\ sock[s].st = "free" \/ (sock[s].st = "pooled" /\ ~sock[s].arrived)
          /\ sock' = [sock EXCEPT ![s].st = "used"]
          /\ op' = [op EXCEPT ![o].pc = "send", ![o].sock = s]

DialFails(o) == op[o].pc = "dial" /\ Retry(o) /\ sock' = sock

\* send_header(), the body, send(): the server will answer, and resp.reset() gives back the
\* connection of a redirect.  A failure closes the connection.
Send(o) ==
    LET s == op[o].sock IN
    /\ op[o].pc = "send"
    /\ \/ /\ sock' = [c \in Sock |-> IF c = s THEN [sock[c] EXCEPT !.carries = Append(@, Trip(o))]
                                     ELSE IF c = op[o].old THEN Released(sock[c]) ELSE sock[c]]
          /\ op' = [op EXCEPT ![o].pc = "receive", ![o].old = Null]
       \/ sock' = [sock EXCEPT ![s] = Closed(@)] /\ Retry(o)

\* receive_header(): of whatever comes first; then body bytes of the same response are left.
\* `Connection: close` makes the response's connection one to abandon.
Receive(o, rest, abandon) ==
    LET s == op[o].sock IN
    /\ op[o].pc = "receive" /\ sock[s].carries # <<>>
    /\ op' = [op EXCEPT ![o].pc = "got", ![o].got = Head(sock[s].carries), ![o].rest = rest,
                        ![o].abandon = abandon]
    /\ sock' = [sock EXCEPT ![s].carries = IF rest = "none" THEN Tail(@) ELSE @,
                            ![s].arrived = FALSE]

\* It fails: the failed read makes the pooled stream drop the connection.
ReceiveFails(o) ==
    /\ op[o].pc = "receive"
    /\ sock' = [sock EXCEPT ![op[o].sock] = Closed(@)]
    /\ Retry(o)

----------------------------------------------------------------------------
\* The user reads the body to its end.
ReadBody(o) ==
    /\ op[o].pc = "got" /\ op[o].rest # "none"
    /\ op' = [op EXCEPT ![o].rest = "none"]
    /\ sock' = [sock EXCEPT ![op[o].sock].carries = Tail(@), ![op[o].sock].arrived = FALSE]

\* m_body_stream->close(): reads what is left over, if that is not much
Emptied(o, s) == [s EXCEPT !.carries = IF op[o].rest = "little" THEN Tail(@) ELSE @,
                           !.arrived = @ /\ op[o].rest # "little"]

\* redirect(): skip_remain() gives the connection back, but fails if too much is left, or
\* chunks, and is not called if there is no body: then the response owns the connection until
\* its reset() deletes it all the same.  Some redirects cannot be followed.
Redirect(o) ==
    LET s == op[o].sock
        more == op[o].followed < MaxFollow IN
    /\ op[o].pc = "got" /\ MaxFollow > 0
    /\ \E old \in {s, Null}, follow \in BOOLEAN :
        /\ old = s => op[o].rest # "little"
        /\ old = Null => op[o].rest # "much"
        /\ sock' = [sock EXCEPT ![s] = IF old = Null THEN Released(Emptied(o, @))
                                       ELSE [@ EXCEPT !.unread = @ \/ op[o].rest = "much"]]
        /\ op' = [op EXCEPT ![o].pc = IF follow /\ more THEN "dial" ELSE "failed",
                            ![o].followed = IF follow /\ more THEN @ + 1 ELSE @,
                            ![o].retry = 0, ![o].sock = Null, ![o].old = old, ![o].got = Null,
                            ![o].rest = "none"]

\* ~Message() of an operation that failed
Discard(o) ==
    LET s == op[o].old IN
    /\ op[o].pc = "failed" /\ s # Null
    /\ sock' = [sock EXCEPT ![s] = IF op[o].abandon \/ sock[s].unread THEN Closed(@) ELSE Released(@)]
    /\ op' = [op EXCEPT ![o].old = Null]

\* fault: the connection goes back to the pool whatever is left
DestroyAny(o) ==
    /\ op[o].pc = "got"
    /\ sock' = [sock EXCEPT ![op[o].sock] = Released(Emptied(o, @))]
    /\ op' = [op EXCEPT ![o].pc = "done", ![o].sock = Null, ![o].got = Null, ![o].rest = "none"]

\* ~Message(): the connection is closed if it is to be abandoned, if too much is left or if
\* what is left cannot be read.
Destroy(o) ==
    LET s == op[o].sock IN
    /\ op[o].pc = "got"
    /\ \/ /\ op[o].abandon \/ op[o].rest # "none"
          /\ sock' = [sock EXCEPT ![s] = Closed(@)]
       \/ /\ ~op[o].abandon /\ op[o].rest # "much"
          /\ sock' = [sock EXCEPT ![s] = Released(Emptied(o, @))]
    /\ op' = [op EXCEPT ![o].pc = "done", ![o].sock = Null, ![o].got = Null, ![o].rest = "none"]

Next ==
    \/ \E s \in Sock : Arrive(s)
    \/ \E o \in Op : \/ Call(o) \/ DialFails(o) \/ Send(o) \/ ReceiveFails(o) \/ ReadBody(o)
                     \/ Redirect(o) \/ Discard(o) \/ Destroy(o)
                     \/ \E s \in Sock : Dial(o, s)
                     \/ \E rest \in Rest, abandon \in BOOLEAN : Receive(o, rest, abandon)

Spec == Init /\ [][Next]_vars

----------------------------------------------------------------------------
\* The response that an operation gets is the one to the request it sent on this trip - on a
\* connection that no redirect has given back with an unread body.
OwnResponse ==
    \A o \in Op : op[o].pc = "got" => op[o].got = Trip(o) \/ sock[op[o].sock].unread

\* A pooled connection is no operation's, and all responses on it are read, with that exception.
PooledClean ==
    \A s \in Sock : sock[s].st = "pooled" =>
        /\ \A o \in Op : s \notin {op[o].sock, op[o].old}
        /\ sock[s].carries = <<>> \/ sock[s].unread
============================================================================
