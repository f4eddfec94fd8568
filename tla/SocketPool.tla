----------------------------- MODULE SocketPool -----------------------------
(***************************************************************************)
(* TCPSocketPool (net/pooled_socket.cpp) for one end point: streams that   *)
(* are put back when they are closed, handed out again by connect(),       *)
(* watched by the collector thread and evicted by a timer.  All threads    *)
(* are of one vCPU; the underlay client and the peer are external.         *)
(***************************************************************************)
EXTENDS Naturals, Sequences, FiniteSets, SequencesExt

CONSTANTS User, Stream, TTL, Null

VARIABLES list,   \* fdmap[ep]: the nodes in the order they were put in
          age,    \* ticks a node has been in the pool
          watch,  \* the nodes the cascading engine watches for EVENT_READ
          st,     \* a stream: none, open, readable (data or hang-up), closed
          us,     \* the users
          run     \* the pool: running or deleted

vars == <<list, age, watch, st, us, run>>

Init ==
    /\ list = <<>> /\ watch = {} /\ run = "running"
    /\ age = [s \in Stream |-> 0]
    /\ st = [s \in Stream |-> "none"]
    /\ us = [u \in User |-> [pc |-> "run", s |-> Null, drop |-> FALSE]]

Without(ss) == SelectSeq(list, LAMBDA s : s \notin ss)

----------------------------------------------------------------------------
\* fault: the node that is taken stays watched
ConnectWatched(u) ==
    /\ us[u].pc = "run" /\ run = "running"
    /\ IF list = <<>>
       THEN us' = [us EXCEPT ![u].pc = "connect"] /\ UNCHANGED <<list, watch>>
       ELSE /\ us' = [us EXCEPT ![u] = [pc |-> "reuse", s |-> Head(list), drop |-> FALSE]]
            /\ list' = Tail(list)
            /\ watch' = watch
    /\ UNCHANGED <<age, st, run>>

\* connect(): get_from_pool() takes the oldest node and its watch away; without one the
\* underlay connects, which lets others run.
Connect(u) ==
    /\ us[u].pc = "run" /\ run = "running"
    /\ IF list = <<>>
       THEN us' = [us EXCEPT ![u].pc = "connect"] /\ UNCHANGED <<list, watch>>
       ELSE /\ us' = [us EXCEPT ![u] = [pc |-> "reuse", s |-> Head(list), drop |-> FALSE]]
            /\ list' = Tail(list)
            /\ watch' = watch \ {Head(list)}
    /\ UNCHANGED <<age, st, run>>

\* The underlay's connect() gives a new stream, or fails.
Connected(u) ==
    /\ us[u].pc = "connect"
    /\ \/ \E s \in Stream : /\ st[s] \in {"none", "closed"}
                            /\ st' = [st EXCEPT ![s] = "open"]
                            /\ us' = [us EXCEPT ![u] = [pc |-> "use", s |-> s, drop |-> FALSE]]
       \/ us' = [us EXCEPT ![u].pc = "run"] /\ st' = st
    /\ UNCHANGED <<list, age, watch, run>>

\* stream_reusable() waits for no time at all: it sees a readable stream as such only if the
\* event engine has had its turn.
Reused(u) ==
    /\ us[u].pc = "reuse"
    /\ \/ us' = [us EXCEPT ![u].pc = "use"] /\ st' = st
       \/ /\ st[us[u].s] = "readable"
          /\ st' = [st EXCEPT ![us[u].s] = "closed"]
          /\ us' = [us EXCEPT ![u] = [@ EXCEPT !.pc = "run", !.s = Null]]
    /\ UNCHANGED <<list, age, watch, run>>

\* A read or write through the pooled stream: `drop` is what its result says.
Use(u) ==
    /\ us[u].pc = "use"
    /\ us' = [us EXCEPT ![u].drop = ~@]
    /\ UNCHANGED <<list, age, watch, st, run>>

\* ~PooledTCPSocketStream(): delete, or ask whether it is reusable.
Release(u) ==
    /\ us[u].pc = "use"
    /\ IF us[u].drop
       THEN /\ st' = [st EXCEPT ![us[u].s] = "closed"]
            /\ us' = [us EXCEPT ![u] = [pc |-> "run", s |-> Null, drop |-> FALSE]]
       ELSE us' = [us EXCEPT ![u].pc = "release"] /\ st' = st
    /\ UNCHANGED <<list, age, watch, run>>

\* fault: the node is put in without a watch
ReleasedUnwatched(u) ==
    LET s == us[u].s IN
    /\ us[u].pc = "release"
    /\ \/ /\ list' = Append(list, s) /\ watch' = watch
          /\ age' = [age EXCEPT ![s] = 0]
          /\ st' = st
       \/ /\ st[s] = "readable" /\ st' = [st EXCEPT ![s] = "closed"]
          /\ UNCHANGED <<list, watch, age>>
    /\ us' = [us EXCEPT ![u] = [pc |-> "run", s |-> Null, drop |-> FALSE]]
    /\ run' = run

\* release() after stream_reusable(): push_into_pool(), or the stream is deleted.
Released(u) ==
    LET s == us[u].s IN
    /\ us[u].pc = "release"
    /\ \/ /\ list' = Append(list, s) /\ watch' = watch \cup {s}
          /\ age' = [age EXCEPT ![s] = 0]
          /\ st' = st
       \/ /\ st[s] = "readable" /\ st' = [st EXCEPT ![s] = "closed"]
          /\ UNCHANGED <<list, watch, age>>
    /\ us' = [us EXCEPT ![u] = [pc |-> "run", s |-> Null, drop |-> FALSE]]
    /\ run' = run

----------------------------------------------------------------------------
\* Nodes leave the pool with their streams.
Delete(ss) ==
    /\ list' = Without(ss)
    /\ watch' = watch \ ss
    /\ st' = [s \in Stream |-> IF s \in ss THEN "closed" ELSE st[s]]
    /\ UNCHANGED <<age, us>>

\* collect(): the nodes that were reported are dropped, and deleted.
Collect ==
    LET ready == {s \in watch : st[s] = "readable"} IN
    /\ run = "running" /\ ready # {}
    /\ Delete(ready)
    /\ run' = run

\* evict(), the timer: from the front of the list while it has expired.
Evict ==
    LET keep == {i \in 1..Len(list) : age[list[i]] < TTL}
        n == IF keep = {} THEN Len(list) ELSE (CHOOSE i \in keep : \A j \in keep : i <= j) - 1 IN
    /\ run = "running" /\ n > 0
    /\ Delete(ToSet(SubSeq(list, 1, n)))
    /\ run' = run

Tick ==
    /\ \E s \in ToSet(list) : age[s] < TTL
    /\ age' = [s \in Stream |-> IF s \in ToSet(list) /\ age[s] < TTL THEN age[s] + 1 ELSE age[s]]
    /\ UNCHANGED <<list, watch, st, us, run>>

\* The destructor, when no stream is in use: stop the timer and the collector, then delete.
Stop ==
    /\ run = "running" /\ \A u \in User : us[u].pc = "run"
    /\ run' = "deleted"
    /\ Delete(ToSet(list))

Changes(s) ==
    /\ st[s] = "open"
    /\ st' = [st EXCEPT ![s] = "readable"]
    /\ UNCHANGED <<list, age, watch, us, run>>

Next ==
    \/ \E u \in User : Connect(u) \/ Connected(u) \/ Reused(u) \/ Use(u) \/ Release(u) \/ Released(u)
    \/ Collect \/ Evict \/ Tick \/ Stop
    \/ \E s \in Stream : Changes(s)

Spec == Init /\ [][Next]_vars

FairSpec == Spec /\ WF_vars(Collect) /\ WF_vars(Evict)

----------------------------------------------------------------------------
\* The engine watches exactly the nodes in the pool - what it reports is a node that exists -
\* and none of their streams is closed, in use, or in the pool twice.
PooledWatched ==
    /\ watch = ToSet(list) /\ Cardinality(watch) = Len(list)
    /\ \A s \in watch : st[s] \in {"open", "readable"} /\ \A u \in User : us[u].s # s

\* The oldest node is the first of the list: when the timer stops at a node that has not
\* expired, no node behind it has (evict() asserts near_expire > now).
OldestFirst == \A i, j \in 1..Len(list) : i < j => age[list[i]] >= age[list[j]]

\* A stream in the pool that the peer has closed does not stay there.
Due(s) == s \in ToSet(list) /\ st[s] = "readable"
Settled(s) == s \notin ToSet(list)
DeadCollected == \A s \in Stream : Due(s) ~> Settled(s)
============================================================================
