---------------------------- MODULE ObjectCache ----------------------------
(***************************************************************************)
(* ObjectCache (common/expirecontainer.h and .cpp): objects built once per *)
(* key, shared by reference count, recycled on request and expired from an *)
(* LRU list when unused.  Every section under the spinlock _lock is one    *)
(* step; constructing an object holds the item's own mutex _mtx and may    *)
(* block.  Time is abstracted: any prefix of the LRU list may have expired *)
(* and any cool-down may have passed.                                      *)
(***************************************************************************)
EXTENDS Naturals, Sequences, SequencesExt, FiniteSets

CONSTANTS Thread, Key, Item, NumLimit, Null

VARIABLES set,   \* _set: the item of a key
          it,    \* the items' fields, `live` until deleted
          list,  \* _list: unused items, the least recently used first
          th     \* the callers

vars == <<set, it, list, th>>

NewItem(k) == [live |-> TRUE, key |-> k, obj |-> FALSE, rc |-> 0, recycle |-> Null,
               failed |-> FALSE, mtx |-> Null]

NoItem == [NewItem(Null) EXCEPT !.live = FALSE]

Idle == [pc |-> "idle", key |-> Null, item |-> Null, recycle |-> FALSE, signalled |-> FALSE]

Init ==
    /\ set = [k \in Key |-> Null]
    /\ it = [i \in Item |-> NoItem]
    /\ list = <<>>
    /\ th = [t \in Thread |-> Idle]

Without(s, i) == SelectSeq(s, LAMBDA x : x # i)

Goto(t, pc) == th' = [th EXCEPT ![t].pc = pc]

Dead == {i \in Item : ~it[i].live}

----------------------------------------------------------------------------
\* fault: the item stays on the LRU list while it is being referenced
FindOrInsertListed(t, k) ==
    \E i \in IF set[k] # Null THEN {set[k]} ELSE Dead :
       LET x == IF set[k] # Null THEN it[i] ELSE NewItem(k) IN
       /\ set' = [set EXCEPT ![k] = i]
       /\ list' = list
       /\ IF x.recycle # Null
          THEN it' = it /\ th' = [th EXCEPT ![t] = [Idle EXCEPT !.pc = "blocked", !.key = k]]
          ELSE /\ it' = [it EXCEPT ![i] = [x EXCEPT !.rc = @ + 1]]
               /\ th' = [th EXCEPT ![t] = [Idle EXCEPT !.pc = "construct", !.key = k, !.item = i]]

\* The locked section of ref_acquire(): find the key's item or insert a new one, take it
\* off the LRU list, and reference it - or wait on `blocker` when it is being recycled.
FindOrInsert(t, k) ==
    \E i \in IF set[k] # Null THEN {set[k]} ELSE Dead :
       LET x == IF set[k] # Null THEN it[i] ELSE NewItem(k) IN
       /\ set' = [set EXCEPT ![k] = i]
       /\ list' = Without(list, i)
       /\ IF x.recycle # Null
          THEN it' = it /\ th' = [th EXCEPT ![t] = [Idle EXCEPT !.pc = "blocked", !.key = k]]
          ELSE /\ it' = [it EXCEPT ![i] = [x EXCEPT !.rc = @ + 1]]
               /\ th' = [th EXCEPT ![t] = [Idle EXCEPT !.pc = "construct", !.key = k, !.item = i]]

Acquire(t) ==
    \/ th[t].pc = "idle" /\ \E k \in Key : FindOrInsert(t, k)
    \/ th[t].pc = "woken" /\ FindOrInsert(t, th[t].key)

\* Under _mtx: construct the object unless it is there or a failure is still cooling down.
Construct(t) ==
    LET i == th[t].item IN
    /\ th[t].pc = "construct" /\ it[i].mtx = Null
    /\ UNCHANGED <<set, list>>
    /\ \/ /\ ~it[i].obj
          /\ it' = [it EXCEPT ![i].mtx = t]
          /\ Goto(t, "ctor")
       \/ /\ it[i].obj \/ it[i].failed
          /\ it' = it
          /\ Goto(t, IF it[i].obj THEN "hold" ELSE "release")

\* The constructor returns an object or nothing; ref_acquire() gives a failed item back.
CtorReturns(t) ==
    /\ th[t].pc = "ctor"
    /\ \E ok \in BOOLEAN :
          /\ it' = [it EXCEPT ![th[t].item].obj = ok, ![th[t].item].failed = ~ok,
                              ![th[t].item].mtx = Null]
          /\ Goto(t, IF ok THEN "hold" ELSE "release")
    /\ UNCHANGED <<set, list>>

\* ref_release(item) or release(key), which finds the item anew, by a caller that is done.
Return(t) ==
    /\ th[t].pc = "hold"
    /\ \E recycle \in BOOLEAN, i \in {th[t].item, set[th[t].key]} :
          th' = [th EXCEPT ![t].pc = "release", ![t].recycle = recycle, ![t].item = i]
    /\ UNCHANGED <<set, it, list>>

\* fault: a second recycler does not see that the item is being recycled already
ReleaseTwice(t) ==
    LET i == th[t].item
        x == [it[i] EXCEPT !.rc = @ - 1,
                           !.recycle = IF th[t].recycle THEN t ELSE @]
        last == x.rc = 0
    IN
    /\ th[t].pc = "release"
    /\ it' = [it EXCEPT ![i] = IF last /\ x.recycle = Null
                               THEN [x EXCEPT !.failed = FALSE] ELSE x]
    /\ list' = IF last /\ x.recycle = Null THEN Append(Without(list, i), i) ELSE list
    /\ th' = [u \in Thread |->
                IF u = t THEN [th[u] EXCEPT !.pc = IF x.recycle = t THEN "drain" ELSE "expire",
                                            !.signalled = last /\ x.recycle = t]
                ELSE [th[u] EXCEPT !.signalled = @ \/ (last /\ x.recycle = u)]]
    /\ set' = set

\* The locked section of ref_release(): the first recycler leaves its semaphore in the item,
\* the last reference signals it, or queues an item nobody recycles for expiry.
Release(t) ==
    LET i == th[t].item
        recycle == th[t].recycle /\ it[i].recycle = Null
        x == [it[i] EXCEPT !.rc = @ - 1, !.recycle = IF recycle THEN t ELSE @]
        last == x.rc = 0
    IN
    /\ th[t].pc = "release"
    /\ it' = [it EXCEPT ![i] = IF last /\ x.recycle = Null
                               THEN [x EXCEPT !.failed = FALSE] ELSE x]
    /\ list' = IF last /\ x.recycle = Null THEN Append(Without(list, i), i) ELSE list
    /\ th' = [u \in Thread |->
                IF u = t THEN [th[u] EXCEPT !.pc = IF recycle THEN "drain" ELSE "expire",
                                            !.signalled = last /\ x.recycle = t]
                ELSE [th[u] EXCEPT !.signalled = @ \/ (last /\ x.recycle = u)]]
    /\ set' = set

\* The recycler's semaphore is signalled: it takes the item out of the index.
Erase(t) ==
    /\ th[t].pc = "drain" /\ th[t].signalled
    /\ set' = [set EXCEPT ![th[t].key] = Null]
    /\ Goto(t, "delete")
    /\ UNCHANGED <<it, list>>

\* It deletes the item, keeping or destroying the object, and wakes every blocked acquirer.
DeleteItem(t) ==
    /\ th[t].pc = "delete"
    /\ it' = [it EXCEPT ![th[t].item] = NoItem]
    /\ th' = [u \in Thread |->
                IF u = t THEN [th[u] EXCEPT !.pc = "expire"]
                ELSE IF th[u].pc = "blocked" THEN [th[u] EXCEPT !.pc = "woken"] ELSE th[u]]
    /\ UNCHANGED <<set, list>>

\* expire(): the expired head of the LRU list, and what exceeds the limit, is dropped from
\* the index and deleted.
Expire ==
    LET size == Cardinality({k \in Key : set[k] # Null}) IN
    \E n \in 0..Len(list) :
       LET gone == {list[j] : j \in 1..n} IN
       /\ n < Len(list) => size - n <= NumLimit
       /\ list' = SubSeq(list, n + 1, Len(list))
       /\ set' = [k \in Key |-> IF set[k] \in gone THEN Null ELSE set[k]]
       /\ it' = [i \in Item |-> IF i \in gone THEN NoItem ELSE it[i]]

\* Every acquire and release ends with expire(); the timer calls it as well.
ExpireAfter(t) == th[t].pc = "expire" /\ Expire /\ th' = [th EXCEPT ![t] = Idle]

TimerExpire == Expire /\ th' = th

CallerStep(t) ==
    Construct(t) \/ CtorReturns(t) \/ Return(t) \/ Release(t) \/ Erase(t) \/ DeleteItem(t)
      \/ ExpireAfter(t) \/ (th[t].pc = "woken" /\ Acquire(t))

Next == TimerExpire \/ \E t \in Thread : Acquire(t) \/ CallerStep(t)

Spec == Init /\ [][Next]_vars

\* A caller that got an object gives it back, a constructor returns.
FairSpec == Spec /\ \A t \in Thread : WF_vars(CallerStep(t))

----------------------------------------------------------------------------
UsesItem(t) == th[t].pc \in {"construct", "ctor", "hold", "release", "drain"}

\* An item that somebody references, constructs, holds or recycles is alive and is still the
\* one the index gives for its key, so that a key never has two objects in use.
UsedItemIndexed ==
    \A t \in Thread : UsesItem(t) => it[th[t].item].live /\ set[th[t].key] = th[t].item

\* The LRU list holds exactly the live items that nobody references or recycles: nothing in
\* use can expire, and nothing unused is forgotten.
UnusedListed ==
    \A i \in Item : (it[i].live /\ it[i].rc = 0 /\ it[i].recycle = Null)
                       <=> (\E j \in 1..Len(list) : list[j] = i)

\* A recycler gets the item for itself in the end, and those who wait for it are woken.
Due(t) == th[t].pc \in {"drain", "blocked"}
Settled(t) == th[t].pc \in {"delete", "woken"}
RecycleEnds == \A t \in Thread : Due(t) ~> Settled(t)
============================================================================
