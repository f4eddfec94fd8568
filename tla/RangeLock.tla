----------------------------- MODULE RangeLock -----------------------------
(***************************************************************************)
(* RangeLock (common/range-lock.h): an ordered set of locked ranges, each  *)
(* with a condition variable that its destructor notifies.  The spinlock   *)
(* makes every call up to its wait one step.                               *)
(***************************************************************************)
EXTENDS Integers, WellFoundedInduction, TLAPS

CONSTANTS Thread, Size, Null

VARIABLES index,  \* m_index: the locked ranges [offset, end, id]
          th      \* callers: what they hold, want or wait for

vars == <<index, th>>

Offsets == 0..Size

Bounds == {r \in [offset : Offsets, end : Offsets] : r.offset < r.end}

Init == index = {} /\ th = [t \in Thread |-> [pc |-> "idle", want |-> Null, on |-> Null]]

\* lower_bound(r) of the set ordered by "end() <= rhs.offset", if it starts before r ends.
Conflicts(r) == {x \in index : x.end > r.offset /\ x.offset < r.end}

First(s) == CHOOSE x \in s : \A y \in s : x.offset <= y.offset

Locked(t, r) == [offset |-> r.offset, end |-> r.end, id |-> t]

\* fault: only a range that starts inside the wanted one is seen
TryLockStartsInside(t, r) ==
    LET c == {x \in Conflicts(r) : x.offset >= r.offset} IN
    IF c # {}
    THEN /\ th' = [th EXCEPT ![t] = [pc |-> "wait", want |-> r, on |-> First(c).id]]
         /\ index' = index
    ELSE /\ index' = index \cup {Locked(t, r)}
         /\ th' = [th EXCEPT ![t] = [pc |-> "locked", want |-> Null, on |-> Null]]

\* try_lock_wait2() and try_lock_wait(): insert the range, or wait on the first conflict.
TryLock(t, r) ==
    LET c == Conflicts(r) IN
    IF c # {}
    THEN /\ th' = [th EXCEPT ![t] = [pc |-> "wait", want |-> r, on |-> First(c).id]]
         /\ index' = index
    ELSE /\ index' = index \cup {Locked(t, r)}
         /\ th' = [th EXCEPT ![t] = [pc |-> "locked", want |-> Null, on |-> Null]]

\* lock() retries the same range; a caller of try_lock_wait() may give up or ask for another.
Lock(t) ==
    \/ th[t].pc = "idle" /\ \E r \in Bounds : TryLock(t, r)
    \/ th[t].pc = "woken" /\ TryLock(t, th[t].want)

GiveUp(t) ==
    /\ th[t].pc = "woken"
    /\ th' = [th EXCEPT ![t] = [pc |-> "idle", want |-> Null, on |-> Null]]
    /\ index' = index

Own(t) == CHOOSE x \in index : x.id = t

\* ~Range() notifies everybody who waits on an erased range.
Wake(erased, owner) ==
    [u \in Thread |->
       IF u = owner THEN [pc |-> "idle", want |-> Null, on |-> Null]
       ELSE IF th[u].pc = "wait" /\ th[u].on \in erased THEN [th[u] EXCEPT !.pc = "woken", !.on = Null]
       ELSE th[u]]

\* unlock(handle)
Unlock(t) ==
    /\ th[t].pc = "locked"
    /\ index' = index \ {Own(t)}
    /\ th' = Wake({t}, t)

\* unlock(offset, length), for a range that has no handle: erases all the ranges it contains.
UnlockRange(t) ==
    LET r == Own(t)
        erased == {x \in index : r.offset <= x.offset /\ x.end <= r.end} IN
    /\ th[t].pc = "locked"
    /\ index' = index \ erased
    /\ th' = Wake({x.id : x \in erased}, t)

\* prev_end() <= o and next_offset() >= e: the ranges are in the order of the set, so no other
\* range before x ends behind o when its neighbour does not, and none behind it starts before e.
PrevEndsBy(x, o) == \A y \in index : y.offset < x.offset => y.end <= o

NextStartsAt(x, e) == \A y \in index : y.offset > x.offset => e <= y.offset

\* fault: the end of the grown range is not compared with the next range
MayAdjustPrevOnly(x, r) == r.offset < x.offset => PrevEndsBy(x, r.offset)

\* adjust_range() refuses a range that would grow over a neighbour.
MayAdjust(x, r) ==
    /\ r.offset < x.offset => PrevEndsBy(x, r.offset)
    /\ r.end > x.end => NextStartsAt(x, r.end)

AdjustRange(t) ==
    /\ th[t].pc = "locked"
    /\ \E r \in Bounds :
          /\ MayAdjust(Own(t), r)
          /\ index' = (index \ {Own(t)}) \cup {Locked(t, r)}
    /\ th' = th

Next == \E t \in Thread : Lock(t) \/ GiveUp(t) \/ Unlock(t) \/ UnlockRange(t) \/ AdjustRange(t)

Spec == Init /\ [][Next]_vars

\* No two locked ranges overlap, whatever is locked, adjusted and unlocked in between.
RangesDisjoint ==
    \A x, y \in index : x # y => x.end <= y.offset \/ y.end <= x.offset

\* A waiter waits on a range that is still locked: it will be notified when that one goes.
WaitsOnLocked == \A t \in Thread : th[t].pc = "wait" => \E x \in index : x.id = th[t].on

----------------------------------------------------------------------------
\* What the set and the callers know of each other: a range belongs to the one caller that
\* is in the state "locked", and is not empty.
Owned ==
    /\ \A x \in index :
          /\ x.id \in Thread /\ th[x.id].pc = "locked"
          /\ x.offset \in Nat /\ x.end \in Nat /\ x.offset < x.end
          /\ x = [offset |-> x.offset, end |-> x.end, id |-> x.id]
    /\ \A x, y \in index : x.id = y.id => x = y
    /\ \A t \in Thread : th[t].pc = "locked" => \E x \in index : x.id = t

Callers ==
    /\ th \in [Thread -> [pc : {"idle", "wait", "woken", "locked"}, want : Bounds \cup {Null},
                          on : Thread \cup {Null}]]
    /\ \A t \in Thread : th[t].pc \in {"wait", "woken"} => th[t].want \in Bounds

Inv == Callers /\ Owned /\ RangesDisjoint /\ WaitsOnLocked

\* The handle of a caller in the state "locked" stands for its range.
LEMMA OwnRange == ASSUME Owned, NEW t \in Thread, th[t].pc = "locked"
                  PROVE  Own(t) \in index /\ Own(t).id = t
  BY DEF Owned, Own

\* lower_bound() of ranges that are there is one of them.
LEMMA FirstOfSome == ASSUME NEW s, s # {}, \A x \in s : x.offset \in Nat
                     PROVE  First(s) \in s
<1> DEFINE Begins == {x.offset : x \in s}
<1>1. \E m \in Begins : \A k \in Begins : ~ (<<k, m>> \in OpToRel(<, Nat))
  <2>1. Begins \subseteq Nat /\ Begins # {}
    OBVIOUS
  <2>2. QED
    BY <2>1, NatLessThanWellFounded, WFMin
<1>2. PICK x \in s : \A k \in Begins : ~ (<<k, x.offset>> \in OpToRel(<, Nat))
  BY <1>1
<1>3. \A y \in s : x.offset <= y.offset
  <2> TAKE y \in s
  <2>1. ~ (<<y.offset, x.offset>> \in OpToRel(<, Nat))
    BY <1>2
  <2>2. ~ (y.offset < x.offset)
    BY <2>1 DEF OpToRel
  <2>3. QED
    BY <2>2
<1>4. QED
  BY <1>3 DEF First

\* try_lock_wait2() keeps the invariant: a range that conflicts with none may be inserted,
\* and the first conflict is a locked range.
LEMMA TryLockKeeps == ASSUME Inv, NEW t \in Thread, NEW r \in Bounds, th[t].pc # "locked",
                             TryLock(t, r)
                      PROVE  Inv'
<1> USE DEF Inv
<1> DEFINE c == Conflicts(r)
<1>r. r.offset \in Nat /\ r.end \in Nat /\ r.offset < r.end
  BY DEF Bounds, Offsets
<1>1. CASE c # {}
  <2>1. First(c) \in index
    BY <1>1, FirstOfSome DEF Owned, Conflicts
  <2>2. /\ th' = [th EXCEPT ![t] = [pc |-> "wait", want |-> r, on |-> First(c).id]]
        /\ index' = index
    BY <1>1 DEF TryLock
  <2>3. Callers'
    BY <2>1, <2>2 DEF Callers, Owned
  <2>4. Owned'
    BY <2>2 DEF Owned, Callers
  <2>5. RangesDisjoint' /\ WaitsOnLocked'
    BY <2>1, <2>2 DEF RangesDisjoint, WaitsOnLocked, Callers
  <2>6. QED
    BY <2>3, <2>4, <2>5
<1>2. CASE c = {}
  <2>1. /\ index' = index \cup {Locked(t, r)}
        /\ th' = [th EXCEPT ![t] = [pc |-> "locked", want |-> Null, on |-> Null]]
    BY <1>2 DEF TryLock
  <2>2. \A x \in index : x.end <= r.offset \/ r.end <= x.offset
    BY <1>2, <1>r DEF Conflicts, Owned
  <2>3. Callers'
    BY <2>1 DEF Callers
  <2>4. Owned'
    <3> DEFINE l == Locked(t, r)
    <3>1. /\ l.id = t /\ l.offset = r.offset /\ l.end = r.end
          /\ l = [offset |-> l.offset, end |-> l.end, id |-> l.id]
      BY DEF Locked
    <3>2. th'[t].pc = "locked" /\ \A u \in Thread : u # t => th'[u] = th[u]
      BY <2>1 DEF Callers
    <3>3. \A x \in index : x.id # t
      BY DEF Owned
    <3> HIDE DEF l
    <3>4. \A x \in index' :
            /\ x.id \in Thread /\ th'[x.id].pc = "locked"
            /\ x.offset \in Nat /\ x.end \in Nat /\ x.offset < x.end
            /\ x = [offset |-> x.offset, end |-> x.end, id |-> x.id]
      <4> TAKE x \in index'
      <4>2. CASE x \in index
        BY <4>2, <3>2, <3>3 DEF Owned
      <4>3. CASE x = l
        BY <4>3, <3>1, <3>2, <1>r
      <4>4. QED
        BY <2>1, <4>2, <4>3 DEF l
    <3>5. \A x, y \in index' : x.id = y.id => x = y
      BY <2>1, <3>1, <3>3 DEF Owned, l
    <3>6. \A u \in Thread : th'[u].pc = "locked" => \E x \in index' : x.id = u
      BY <2>1, <3>1, <3>2 DEF Owned, l
    <3>7. QED
      BY <3>4, <3>5, <3>6 DEF Owned
  <2>5. RangesDisjoint'
    BY <2>1, <2>2 DEF RangesDisjoint, Locked
  <2>6. WaitsOnLocked'
    BY <2>1 DEF WaitsOnLocked, Callers
  <2>7. QED
    BY <2>3, <2>4, <2>5, <2>6
<1>3. QED
  BY <1>1, <1>2

\* Erasing the caller's own range keeps the invariant: those who wait on it are woken up.
LEMMA EraseKeeps == ASSUME Inv, NEW t \in Thread, th[t].pc = "locked",
                           index' = index \ {Own(t)}, th' = Wake({t}, t)
                    PROVE  Inv'
<1> USE DEF Inv
<1>1. Own(t) \in index /\ Own(t).id = t
  BY OwnRange
<1>2. th'[t] = [pc |-> "idle", want |-> Null, on |-> Null]
  BY DEF Wake
<1>w. \A u \in Thread : u # t /\ th[u].pc = "wait" /\ th[u].on = t =>
                         th'[u] = [th[u] EXCEPT !.pc = "woken", !.on = Null]
  BY DEF Wake
<1>s. \A u \in Thread : u # t /\ ~(th[u].pc = "wait" /\ th[u].on = t) => th'[u] = th[u]
  BY DEF Wake
<1>3. Callers'
  <2> DEFINE Caller == [pc : {"idle", "wait", "woken", "locked"}, want : Bounds \cup {Null},
                        on : Thread \cup {Null}]
  <2>1. ASSUME NEW u \in Thread PROVE th'[u] \in Caller
    <3>1. CASE u = t
      BY <3>1, <1>2
    <3>2. CASE u # t /\ th[u].pc = "wait" /\ th[u].on = t
      BY <3>2, <1>w DEF Callers
    <3>3. CASE u # t /\ ~(th[u].pc = "wait" /\ th[u].on = t)
      BY <3>3, <1>s DEF Callers
    <3>4. QED
      BY <3>1, <3>2, <3>3
  <2>2. th' \in [Thread -> Caller]
    BY <2>1 DEF Wake
  <2>3. ASSUME NEW u \in Thread, th'[u].pc \in {"wait", "woken"} PROVE th'[u].want \in Bounds
    <3>1. CASE u = t
      BY <3>1, <2>3, <1>2
    <3>2. CASE u # t /\ th[u].pc = "wait" /\ th[u].on = t
      BY <3>2, <1>w DEF Callers
    <3>3. CASE u # t /\ ~(th[u].pc = "wait" /\ th[u].on = t)
      BY <3>3, <2>3, <1>s DEF Callers
    <3>4. QED
      BY <3>1, <3>2, <3>3
  <2>4. QED
    BY <2>2, <2>3 DEF Callers
<1>a. \A u \in Thread : u # t => (th'[u].pc = "locked" <=> th[u].pc = "locked")
  BY <1>w, <1>s DEF Callers
<1>b. th'[t].pc = "idle"
  BY <1>2
<1>4. \A x \in index' : x \in index /\ x.id # t
  BY <1>1 DEF Owned
<1>5. Owned'
  <2>1. ASSUME NEW u \in Thread, th'[u].pc = "locked" PROVE \E x \in index' : x.id = u
    <3>1. u # t /\ th[u].pc = "locked"
      BY <2>1, <1>a, <1>b
    <3>2. PICK x \in index : x.id = u
      BY <3>1 DEF Owned
    <3>3. QED
      BY <3>1, <3>2, <1>1
  <2>2. QED
    BY <2>1, <1>4, <1>a DEF Owned
<1>6. RangesDisjoint'
  BY <1>4 DEF RangesDisjoint
<1>7. WaitsOnLocked'
  <2> SUFFICES ASSUME NEW u \in Thread, th'[u].pc = "wait"
               PROVE  \E x \in index' : x.id = th'[u].on
    BY DEF WaitsOnLocked
  <2>1. th'[u] = th[u] /\ th[u].pc = "wait" /\ th[u].on # t
    BY <1>w, <1>s, <1>b DEF Callers
  <2>2. PICK x \in index : x.id = th[u].on
    BY <2>1 DEF WaitsOnLocked
  <2>3. QED
    BY <2>1, <2>2, <1>1
<1>8. QED
  BY <1>3, <1>5, <1>6, <1>7

\* Every call of the range lock keeps the invariant.
THEOREM Invariance == Spec => []Inv
<1>1. Init => Inv
  BY DEF Init, Inv, Callers, Owned, RangesDisjoint, WaitsOnLocked
<1>2. Inv /\ [Next]_vars => Inv'
  <2> SUFFICES ASSUME Inv, [Next]_vars PROVE Inv'
    OBVIOUS
  <2>1. CASE UNCHANGED vars
    BY <2>1 DEF vars, Inv, Callers, Owned, RangesDisjoint, WaitsOnLocked
  <2>2. ASSUME NEW t \in Thread, Lock(t) PROVE Inv'
    BY <2>2, TryLockKeeps DEF Lock, Inv, Callers
  <2>3. ASSUME NEW t \in Thread, GiveUp(t) PROVE Inv'
    BY <2>3 DEF GiveUp, Inv, Callers, Owned, RangesDisjoint, WaitsOnLocked
  <2>4. ASSUME NEW t \in Thread, Unlock(t) PROVE Inv'
    BY <2>4, EraseKeeps DEF Unlock
  <2>5. ASSUME NEW t \in Thread, UnlockRange(t) PROVE Inv'
    <3> DEFINE erased == {x \in index : Own(t).offset <= x.offset /\ x.end <= Own(t).end}
    <3>1. Own(t) \in index /\ Own(t).id = t
      BY <2>5, OwnRange DEF UnlockRange, Inv
    <3>2. erased = {Own(t)}
      BY <3>1 DEF Inv, Owned, RangesDisjoint
    <3>3. {x.id : x \in erased} = {t}
      BY <3>1, <3>2
    <3>4. th[t].pc = "locked" /\ index' = index \ {Own(t)} /\ th' = Wake({t}, t)
      BY <2>5, <3>2, <3>3 DEF UnlockRange
    <3>5. QED
      BY <3>4, EraseKeeps
  <2>6. ASSUME NEW t \in Thread, AdjustRange(t) PROVE Inv'
    <3>1. Own(t) \in index /\ Own(t).id = t /\ th[t].pc = "locked" /\ th' = th
      BY <2>6, OwnRange DEF AdjustRange, Inv
    <3>2. PICK r \in Bounds : MayAdjust(Own(t), r) /\ index' = (index \ {Own(t)}) \cup {Locked(t, r)}
      BY <2>6 DEF AdjustRange
    <3>3. r.offset \in Nat /\ r.end \in Nat /\ r.offset < r.end
      BY DEF Bounds, Offsets
    <3>4. \A x \in index \ {Own(t)} : x.end <= r.offset \/ r.end <= x.offset
      <4> TAKE x \in index \ {Own(t)}
      <4>1. x.end <= Own(t).offset \/ Own(t).end <= x.offset
        BY <3>1 DEF Inv, RangesDisjoint
      <4>2. CASE x.end <= Own(t).offset
        BY <4>2, <3>1, <3>2, <3>3 DEF MayAdjust, PrevEndsBy, Inv, Owned
      <4>3. CASE Own(t).end <= x.offset
        BY <4>3, <3>1, <3>2, <3>3 DEF MayAdjust, NextStartsAt, Inv, Owned
      <4>4. QED
        BY <4>1, <4>2, <4>3
    <3>5. Owned'
      <4> DEFINE l == Locked(t, r)
      <4>1. /\ l.id = t /\ l.offset = r.offset /\ l.end = r.end
            /\ l = [offset |-> l.offset, end |-> l.end, id |-> l.id]
        BY DEF Locked
      <4>2. \A x \in index : x # Own(t) => x.id # t
        BY <3>1 DEF Inv, Owned
      <4>3. index' = (index \ {Own(t)}) \cup {l}
        BY <3>2
      <4> HIDE DEF l
      <4>4. ASSUME NEW x \in index'
            PROVE  /\ x.id \in Thread /\ th[x.id].pc = "locked"
                   /\ x.offset \in Nat /\ x.end \in Nat /\ x.offset < x.end
                   /\ x = [offset |-> x.offset, end |-> x.end, id |-> x.id]
        <5>1. CASE x \in index
          BY <5>1 DEF Inv, Owned
        <5>2. CASE x = l
          BY <5>2, <4>1, <3>1, <3>3
        <5>3. QED
          BY <4>3, <5>1, <5>2
      <4>5. \A x, y \in index' : x.id = y.id => x = y
        BY <4>1, <4>2, <4>3 DEF Inv, Owned
      <4>6. \A u \in Thread : th[u].pc = "locked" => \E x \in index' : x.id = u
        BY <4>1, <4>2, <4>3, <3>1 DEF Inv, Owned
      <4>7. QED
        BY <3>1, <4>4, <4>5, <4>6 DEF Owned
    <3>6. RangesDisjoint'
      BY <3>2, <3>4 DEF Inv, RangesDisjoint, Locked
    <3>7. WaitsOnLocked'
      BY <3>1, <3>2 DEF Inv, WaitsOnLocked, Locked
    <3>8. QED
      BY <3>1, <3>5, <3>6, <3>7 DEF Inv, Callers
  <2>7. QED
    BY <2>1, <2>2, <2>3, <2>4, <2>5, <2>6 DEF Next
<1>3. QED
  BY <1>1, <1>2, PTL DEF Spec

\* However many callers there are and however large the file is, locked ranges never overlap
\* and a waiter's range is still locked: range-lock.h keeps its promise.
THEOREM Disjoint == Spec => [](RangesDisjoint /\ WaitsOnLocked)
<1>1. Inv => RangesDisjoint /\ WaitsOnLocked
  BY DEF Inv
<1>2. QED
  BY <1>1, Invariance, PTL
============================================================================
