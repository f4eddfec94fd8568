-------------------------------- MODULE RPC --------------------------------
(***************************************************************************)
(* RPC calls over one stream (rpc/rpc.cpp) on the out-of-order execution   *)
(* engine (rpc/out-of-order-execution.cpp): callers send under m_mutex_w   *)
(* and one of them, with m_mutex_r, reads the answers of all; a Skeleton   *)
(* serves the requests in threads of their own.  Client and server have a  *)
(* vCPU each: what runs between two blocking calls is one step.  A message *)
(* is a header and a body, read separately; deadlines may pass in any      *)
(* blocking call, and the stream may break at any time.                    *)
(***************************************************************************)
EXTENDS Integers, Sequences, SequencesExt, FiniteSets

CONSTANTS Caller, MaxTag, Null

VARIABLES cl,   \* the callers: pc, own tag, the context's phase and result
          en,   \* OooEngine: m_map, holders of m_mutex_w and m_mutex_r, m_wait, m_tag
          net,  \* the stream: requests, answers, open
          sk    \* the Skeleton: the thread in serve(), its request threads, shutdown()

vars == <<cl, en, net, sk>>

Tag == 1..MaxTag

NoCall == [pc |-> "idle", tag |-> 0, phase |-> "none", ret |-> Null, targ |-> Null, got |-> 0]

Init ==
    /\ cl = [c \in Caller |-> NoCall]
    /\ en = [map |-> [g \in Tag |-> Null], w |-> Null, r |-> Null, wait |-> <<>>, tag |-> 0]
    /\ net = [req |-> <<>>, resp |-> <<>>, open |-> TRUE]
    /\ sk = [pc |-> "read", new |-> 0, work |-> {}, running |-> TRUE, down |-> "no"]

Without(s, x) == SelectSeq(s, LAMBDA y : y # x)

\* A thread in m_wait that is resumed: `ret` of the wait is 0, or -1 when interrupted.
Resume(cs, c, why) == [cs EXCEPT ![c].pc = why]

\* m_wait.notify_one()
NotifyOne(cs, e) ==
    IF e.wait = <<>> THEN <<cs, e>>
    ELSE <<Resume(cs, Head(e.wait), "notified"), [e EXCEPT !.wait = Tail(@)]>>

\* wait_completion() returns: the reader unlocks m_mutex_r, and m_wait is notified.
Return(cs, e, c, ret) ==
    LET n == NotifyOne([cs EXCEPT ![c] = [NoCall EXCEPT !.pc = "returned", !.ret = ret]],
                       [e EXCEPT !.r = IF @ = c THEN Null ELSE @])
    IN  cl' = n[1] /\ en' = n[2]

Erase(e, g) == [e EXCEPT !.map[g] = Null]

\* `m_mutex_r.try_lock() == 0`, or wait on m_wait.
TryRead(cs, e, c) ==
    IF e.r = Null
    THEN cl' = [cs EXCEPT ![c].pc = "recv"] /\ en' = [e EXCEPT !.r = c]
    ELSE cl' = [cs EXCEPT ![c].pc = "wait"] /\ en' = [e EXCEPT !.wait = Append(@, c)]

----------------------------------------------------------------------------
\* do_call() and issue_operation() up to do_issue(): a fresh tag, the context in the map.
Issue(c) ==
    /\ cl[c].pc = "idle" /\ en.w = Null /\ en.tag < MaxTag
    /\ LET g == en.tag + 1 IN
       /\ en' = [en EXCEPT !.tag = g, !.map[g] = c, !.w = c]
       /\ cl' = [cl EXCEPT ![c] = [NoCall EXCEPT !.pc = "send", !.tag = g, !.phase = "before"]]
    /\ UNCHANGED <<net, sk>>

\* do_send() wrote the whole request: ISSUED, and on to wait_completion().
SendOk(c) ==
    /\ cl[c].pc = "send" /\ net.open
    /\ net' = [net EXCEPT !.req = Append(@, cl[c].tag)]
    /\ TryRead([cl EXCEPT ![c].phase = "waiting"], [en EXCEPT !.w = Null], c)
    /\ UNCHANGED sk

\* It failed - too late, or a short write, which shuts the stream down: not issued.
SendFails(c) ==
    /\ cl[c].pc = "send"
    /\ \E open \in {net.open, FALSE} : net' = [net EXCEPT !.open = open]
    /\ cl' = [cl EXCEPT ![c] = [NoCall EXCEPT !.pc = "returned", !.ret = -1]]
    /\ en' = [Erase(en, cl[c].tag) EXCEPT !.w = Null]
    /\ UNCHANGED sk

\* The deadline of a waiting thread passes.
WaitTimeout(c) ==
    /\ cl[c].pc = "wait"
    /\ cl' = Resume(cl, c, "timedout")
    /\ en' = [en EXCEPT !.wait = Without(@, c)]
    /\ UNCHANGED <<net, sk>>

\* fault: a timed-out context stays in the map
WokenUnerased(c) ==
    /\ cl[c].pc \in {"notified", "interrupted", "timedout"}
    /\ IF cl[c].phase = "collected" THEN Return(cl, en, c, cl[c].ret)
       ELSE IF cl[c].pc = "notified" THEN TryRead(cl, en, c)
       ELSE Return(cl, en, c, -1)
    /\ UNCHANGED <<net, sk>>

\* Back from m_wait: collected meanwhile, timed out, or a chance to become the reader.
Woken(c) ==
    /\ cl[c].pc \in {"notified", "interrupted", "timedout"}
    /\ IF cl[c].phase = "collected" THEN Return(cl, en, c, cl[c].ret)
       ELSE IF cl[c].pc = "notified" THEN TryRead(cl, en, c)
       ELSE Return(cl, Erase(en, cl[c].tag), c, -1)
    /\ UNCHANGED <<net, sk>>

----------------------------------------------------------------------------
\* do_recv_header() fails: the deadline before the read leaves the stream open, a short
\* read or something that is no header shuts it down.  The reader's call fails.
RecvFails(c) ==
    /\ cl[c].pc = "recv"
    /\ \/ net' = net
       \/ net' = [net EXCEPT !.open = FALSE]
    /\ Return(cl, Erase(en, cl[c].tag), c, -1)
    /\ UNCHANGED sk

\* The stream is not at a header: the magic does not match.
RecvGarbage(c) ==
    /\ cl[c].pc = "recv" /\ net.resp # <<>> /\ Head(net.resp)[1] = "body"
    /\ net' = [net EXCEPT !.open = FALSE, !.resp = Tail(@)]
    /\ Return(cl, Erase(en, cl[c].tag), c, -1)
    /\ UNCHANGED sk

\* A header: its context leaves the map and its body is to be read - or nobody waits for
\* it, and the reader's own call returns -2.
RecvHeader(c) ==
    /\ cl[c].pc = "recv" /\ net.resp # <<>> /\ Head(net.resp)[1] = "hdr"
    /\ net' = [net EXCEPT !.resp = Tail(@)]
    /\ LET g == Head(net.resp)[2] IN
       IF en.map[g] = Null
       THEN Return(cl, Erase(en, cl[c].tag), c, -2)
       ELSE /\ cl' = [cl EXCEPT ![c].pc = "collect", ![c].targ = en.map[g], ![c].got = g]
            /\ en' = Erase(en, g)
    /\ UNCHANGED sk

\* do_collect() put `ret` into the context of the tag it read: the reader's own call is
\* done, or it resumes the owner and reads on.  An owner that timed out meanwhile is gone.
Collected(c, ret) ==
    LET o == cl[c].targ
        mine == cl[o].tag = cl[c].got
        cs == IF mine THEN [cl EXCEPT ![o].phase = "collected", ![o].ret = ret] ELSE cl
        on == [cs EXCEPT ![c].pc = "recv", ![c].targ = Null, ![c].got = 0]
    IN  IF o = c THEN Return(cl, en, c, ret)
        ELSE IF mine /\ cl[o].pc = "wait"
        THEN /\ cl' = Resume(on, o, "interrupted")
             /\ en' = [en EXCEPT !.wait = Without(@, o)]
        ELSE cl' = on /\ en' = en

\* fault: the body is taken for the reader's own
CollectAny(c) ==
    /\ cl[c].pc = "collect" /\ net.resp # <<>>
    /\ net' = [net EXCEPT !.resp = Tail(@)]
    /\ Return(cl, en, c, Head(net.resp)[2])
    /\ UNCHANGED sk

Collect(c) ==
    /\ cl[c].pc = "collect" /\ net.resp # <<>>
    /\ net' = [net EXCEPT !.resp = Tail(@)]
    /\ Collected(c, Head(net.resp)[2])
    /\ UNCHANGED sk

\* do_recv_body() fails and shuts the stream down.
CollectFails(c) ==
    /\ cl[c].pc = "collect"
    /\ net' = [net EXCEPT !.open = FALSE]
    /\ Collected(c, -1)
    /\ UNCHANGED sk

\* The caller looks at the result and calls again.
CallAgain(c) ==
    /\ cl[c].pc = "returned"
    /\ cl' = [cl EXCEPT ![c] = NoCall]
    /\ UNCHANGED <<en, net, sk>>

----------------------------------------------------------------------------
\* serve(): a request is read and given to a thread of the pool ...
ReadRequest ==
    /\ sk.pc = "read" /\ sk.running /\ net.req # <<>>
    /\ net' = [net EXCEPT !.req = Tail(@)]
    /\ sk' = [sk EXCEPT !.pc = "handover", !.new = Head(net.req)]
    /\ UNCHANGED <<cl, en>>

\* ... which moves the context over before serve() goes on: stream_serv_count counts it.
AsyncServe ==
    /\ sk.pc = "handover"
    /\ sk' = [sk EXCEPT !.pc = "read", !.work = @ \cup {sk.new}, !.new = 0]
    /\ UNCHANGED <<cl, en, net>>

\* The stream ends, is broken, or the read is interrupted: serve() shuts it down and leaves.
ReadFails ==
    /\ sk.pc = "read" /\ (~net.open \/ ~sk.running)
    /\ net' = [net EXCEPT !.open = FALSE]
    /\ sk' = [sk EXCEPT !.pc = "drain"]
    /\ UNCHANGED <<cl, en>>

\* fault: serve() returns while requests of its stream are being served
DrainNot ==
    /\ sk.pc = "drain"
    /\ sk' = [sk EXCEPT !.pc = "ended"]
    /\ UNCHANGED <<cl, en, net>>

\* serve() waits for the requests of its stream; then the stream is destructed.
Drain ==
    /\ sk.pc = "drain" /\ sk.work = {}
    /\ sk' = [sk EXCEPT !.pc = "ended"]
    /\ UNCHANGED <<cl, en, net>>

\* response_sender(), under w_lock, and the end of async_serve().
Respond(g) ==
    /\ g \in sk.work
    /\ net' = IF net.open THEN [net EXCEPT !.resp = @ \o <<<<"hdr", g>>, <<"body", g>>>>] ELSE net
    /\ sk' = [sk EXCEPT !.work = @ \ {g}]
    /\ UNCHANGED <<cl, en>>

\* shutdown(true): no more requests, and join the serving thread.
ShutdownBegin ==
    /\ sk.down = "no"
    /\ sk' = [sk EXCEPT !.down = "joining", !.running = FALSE]
    /\ UNCHANGED <<cl, en, net>>

ShutdownEnd ==
    /\ sk.down = "joining" /\ sk.pc = "ended"
    /\ sk' = [sk EXCEPT !.down = "done"]
    /\ UNCHANGED <<cl, en, net>>

\* The network breaks the stream.
Break ==
    /\ net.open
    /\ net' = [net EXCEPT !.open = FALSE]
    /\ UNCHANGED <<cl, en, sk>>

----------------------------------------------------------------------------
CallerStep(c) ==
    \/ SendOk(c) \/ SendFails(c) \/ Woken(c) \/ RecvGarbage(c)
    \/ RecvHeader(c) \/ Collect(c) \/ CollectFails(c) \/ CallAgain(c)
    \/ RecvFails(c) /\ ~net.open

Deadline(c) == WaitTimeout(c) \/ (RecvFails(c) /\ net.open)

Serve == ReadRequest \/ AsyncServe \/ ReadFails \/ Drain

Next ==
    \/ \E c \in Caller : Issue(c) \/ CallerStep(c) \/ Deadline(c)
    \/ Serve \/ (\E g \in Tag : Respond(g)) \/ ShutdownBegin \/ ShutdownEnd \/ Break

Spec == Init /\ [][Next]_vars

\* Threads run; a function of the Skeleton sends its answer.  Deadlines need not pass.
FairSpec ==
    /\ Spec /\ \A c \in Caller : WF_vars(CallerStep(c))
    /\ WF_vars(Serve) /\ \A g \in Tag : WF_vars(Respond(g))

----------------------------------------------------------------------------
\* The contexts in m_map, which are on the stacks of their callers, are those of calls that
\* have not returned: no reader will find one that is gone.
MapHoldsLiveCalls ==
    \A g \in Tag : en.map[g] # Null => cl[en.map[g]].tag = g

\* A call that succeeds has the answer to its own request, though any caller may read it,
\* others' calls time out, and their answers come late.
AnswersOwn ==
    \A c \in Caller : cl'[c].pc = "returned" /\ cl[c].pc # "returned" /\ cl'[c].ret \in Tag
        => cl'[c].ret = cl[c].tag
OwnAnswer == [][AnswersOwn]_vars

\* serve() does not return, which destructs the stream, while a request of it is served.
StreamOutlivesRequests == sk.pc = "ended" => sk.work = {}

\* Every call returns, although only one caller reads and nobody's deadline passes: when
\* the reader leaves, another waiting caller takes over.
Due(c) == cl[c].pc # "idle"
Settled(c) == cl[c].pc = "returned"
CallReturns == \A c \in Caller : Due(c) ~> Settled(c)
============================================================================
