--------------------------- MODULE LockfreeQueue ---------------------------
(***************************************************************************)
(* The ring queues of common/lockfree_queue.h: LockfreeMPMCRingQueue       *)
(* (Kind = "mpmc"), LockfreeBatchMPMCRingQueue ("batch") and               *)
(* LockfreeSPSCRingQueue ("spsc").  A position is a value of `head` or     *)
(* `tail`; the item pushed at a position is represented by the position,   *)
(* so that a consumer knows what it has to find there.                     *)
(***************************************************************************)
EXTENDS Integers, Sequences

CONSTANTS
  Producer, Consumer,      \* threads that push and threads that pop
  Capacity,                \* a power of two
  MaxPos,                  \* bound: positions that are ever claimed
  Batch,                   \* bound: the largest n of push_batch and pop_batch
  Kind,                    \* "mpmc", "batch" or "spsc"
  Blocking                 \* whether send() and recv() of the MPMC queue are used

VARIABLES
  q,      \* the queue: counters, slots, and the mark of each slot
  th      \* what each thread has in its registers, and its next step
qvars == <<q, th>>

Thread == Producer \cup Consumer
Index == 0..Capacity-1
idx(x) == x % Capacity
turn(x) == x \div Capacity
this_turn_write(x) == turn(x) * 2 + 1
this_turn_read(x) == turn(x) * 2 + 2
last_turn_read(x) == turn(x) * 2
check_empty(h, t) == h = t
check_full(h, t) == h # t /\ idx(h) = idx(t)
Least(a, b) == IF a < b THEN a ELSE b

\* was: history, whether the queue was full (empty) when `other` was loaded
Idle == [pc |-> "idle", at |-> 0, n |-> 1, other |-> 0, was |-> FALSE, got |-> <<>>]

\* The batch queue leaves its write_head and read_tail to the memory it is made in; they are
\* taken as zero, as they are in a static object and in a FlexQueue.
Init ==
  /\ q = [head |-> 0, tail |-> 0, write_head |-> 0, read_tail |-> 0,
          slots |-> [i \in Index |-> -1], mark |-> [i \in Index |-> 0]]
  /\ th = [p \in Thread |-> Idle]

Full == q.tail - q.head >= Capacity
Empty == q.head >= q.tail

------------------------------------------------------------------------------
(* LockfreeMPMCRingQueue.  push and pop mirror each other: `tail` is to a  *)
(* producer what `head` is to a consumer.                                  *)
Side(p) == IF p \in Producer THEN "tail" ELSE "head"
Ready(p) == LET x == th[p].at IN
  q.mark[idx(x)] = IF p \in Producer THEN last_turn_read(x) ELSE this_turn_write(x)

\* push() and pop() load their counter,
Load(p) ==
  /\ th[p].pc = "idle" /\ q[Side(p)] < MaxPos
  /\ th' = [th EXCEPT ![p].at = q[Side(p)], ![p].pc = "check"] /\ UNCHANGED q

\* compare the mark of the slot with the turn they expect,
CheckMark(p) ==
  /\ th[p].pc = "check"
  /\ th' = [th EXCEPT ![p].pc = IF Ready(p) THEN "cas" ELSE "other"] /\ UNCHANGED q

\* fault: the counter is stored, whatever it has become
CasBlind(p) ==
  /\ th[p].pc = "cas"
  /\ q' = [q EXCEPT ![Side(p)] = th[p].at + 1] /\ th' = [th EXCEPT ![p].pc = "copy"]

\* and claim the position, or try the position that the counter has now.
Cas(p) ==
  /\ th[p].pc = "cas"
  /\ IF q[Side(p)] = th[p].at
     THEN q' = [q EXCEPT ![Side(p)] = @ + 1] /\ th' = [th EXCEPT ![p].pc = "copy"]
     ELSE /\ th' = [th EXCEPT ![p].at = q[Side(p)], ![p].pc = "check"] /\ UNCHANGED q
          /\ q[Side(p)] < MaxPos

\* The slot is of another turn: load the counter of the other side,
LoadOther(p) ==
  /\ th[p].pc = "other" /\ UNCHANGED q
  /\ th' = [th EXCEPT ![p].pc = "reload",
                      ![p].other = IF p \in Producer THEN q.head ELSE q.tail,
                      ![p].was = IF p \in Producer THEN Full ELSE Empty]

\* fault: the own counter is not loaded again
ReloadStale(p) ==
  LET t == th[p].at IN
  /\ th[p].pc = "reload" /\ UNCHANGED q
  /\ th' = [th EXCEPT ![p].pc =
       IF IF p \in Producer THEN check_full(th[p].other, t) ELSE check_empty(t, th[p].other)
       THEN "failed" ELSE "check"]

\* and the own one again; give up if it has not moved.
Reload(p) ==
  LET t == q[Side(p)] IN
  /\ th[p].pc = "reload" /\ t < MaxPos /\ UNCHANGED q
  /\ th' = [th EXCEPT ![p].at = t, ![p].pc =
       IF /\ t = th[p].at
          /\ IF p \in Producer THEN check_full(th[p].other, t) ELSE check_empty(t, th[p].other)
       THEN "failed" ELSE "check", ![p].other = 0]

\* send() and recv() claim a position first and wait for its slot.
FetchAdd(p) ==
  /\ Blocking /\ th[p].pc = "idle" /\ q[Side(p)] < MaxPos
  /\ th' = [th EXCEPT ![p].at = q[Side(p)], ![p].pc = "pause"]
  /\ q' = [q EXCEPT ![Side(p)] = @ + 1]
Pause(p) ==
  th[p].pc = "pause" /\ Ready(p) /\ th' = [th EXCEPT ![p].pc = "copy"] /\ UNCHANGED q

Copy(p) ==
  LET x == th[p].at IN
  /\ th[p].pc = "copy"
  /\ IF p \in Producer
     THEN q' = [q EXCEPT !.slots[idx(x)] = x] /\ th' = [th EXCEPT ![p].pc = "publish"]
     ELSE th' = [th EXCEPT ![p].got = <<q.slots[idx(x)]>>, ![p].pc = "publish"] /\ UNCHANGED q

Publish(p) ==
  LET x == th[p].at IN
  /\ th[p].pc = "publish" /\ th' = [th EXCEPT ![p] = Idle]
  /\ q' = [q EXCEPT !.mark[idx(x)] =
             IF p \in Producer THEN this_turn_write(x) ELSE this_turn_read(x)]

MPMC(p) == \/ Load(p) \/ CheckMark(p) \/ Cas(p) \/ LoadOther(p) \/ Reload(p)
           \/ FetchAdd(p) \/ Pause(p) \/ Copy(p) \/ Publish(p)

------------------------------------------------------------------------------
(* The copies of the batch and of the SPSC queue wrap around the ring.     *)
Written(x, k) == [i \in Index |->
  IF \E d \in 0..k-1 : idx(x + d) = i THEN CHOOSE y \in x..x+k-1 : idx(y) = i ELSE q.slots[i]]
Read(x, k) == [d \in 1..k |-> q.slots[idx(x + d - 1)]]

(* LockfreeBatchMPMCRingQueue: `tail` and `read_tail` claim, `write_head`  *)
(* and `head` publish, in the order of the claims.                         *)
Claimed(p) == IF p \in Producer THEN "tail" ELSE "read_tail"
Limit(p) == IF p \in Producer THEN "head" ELSE "write_head"
Published(p) == IF p \in Producer THEN "write_head" ELSE "head"

BatchLoad(p) ==
  /\ th[p].pc = "idle" /\ UNCHANGED q
  /\ \E k \in 1..Batch :
       /\ q[Claimed(p)] + k <= MaxPos
       /\ th' = [th EXCEPT ![p].at = q[Claimed(p)], ![p].n = k, ![p].pc = "limit"]

\* How many there is room for (that there are), by the limit loaded now
BatchLimit(p) ==
  LET room == IF p \in Producer THEN Capacity - (th[p].at - q[Limit(p)])
                                ELSE q[Limit(p)] - th[p].at
      k == Least(th[p].n, room)
  IN  /\ th[p].pc = "limit" /\ UNCHANGED q
      /\ th' = [th EXCEPT ![p].other = k, ![p].pc = IF k = 0 THEN "failed" ELSE "claim",
            ![p].was = IF p \in Producer THEN Full ELSE q.write_head = q.read_tail]

BatchClaim(p) ==
  /\ th[p].pc = "claim"
  /\ IF q[Claimed(p)] = th[p].at
     THEN /\ q' = [q EXCEPT ![Claimed(p)] = @ + th[p].other]
          /\ th' = [th EXCEPT ![p].pc = "memcpy", ![p].n = th[p].other]
     ELSE /\ q[Claimed(p)] + th[p].n <= MaxPos
          /\ th' = [th EXCEPT ![p].at = q[Claimed(p)], ![p].pc = "limit"] /\ UNCHANGED q

BatchCopy(p) ==
  /\ th[p].pc = "memcpy"
  /\ IF p \in Producer
     THEN q' = [q EXCEPT !.slots = Written(th[p].at, th[p].n)] /\ th' = [th EXCEPT ![p].pc = "order"]
     ELSE th' = [th EXCEPT ![p].got = Read(th[p].at, th[p].n), ![p].pc = "order"] /\ UNCHANGED q

\* fault: whoever comes first publishes
BatchPublishAny(p) ==
  /\ th[p].pc = "order" /\ q' = [q EXCEPT ![Published(p)] = @ + th[p].n]
  /\ th' = [th EXCEPT ![p] = Idle]

BatchPublish(p) ==
  /\ th[p].pc = "order" /\ q[Published(p)] = th[p].at
  /\ q' = [q EXCEPT ![Published(p)] = @ + th[p].n] /\ th' = [th EXCEPT ![p] = Idle]

BatchMPMC(p) ==
  BatchLoad(p) \/ BatchLimit(p) \/ BatchClaim(p) \/ BatchCopy(p) \/ BatchPublish(p)

(* LockfreeSPSCRingQueue: one thread on each side, no claims.              *)
SpscBegin(p) ==
  LET t == q[Side(p)]
      room == IF p \in Producer THEN Capacity - (t - q.head) ELSE q.tail - t
  IN  /\ th[p].pc = "idle" /\ UNCHANGED q
      /\ \E k \in 1..Batch, fully \in BOOLEAN :
           LET got == IF fully /\ p \in Producer /\ k > room THEN 0 ELSE Least(k, room) IN
           /\ t + k <= MaxPos
           /\ th' = [th EXCEPT ![p].at = t, ![p].n = got,
                               ![p].was = IF fully THEN room < k ELSE Full \/ Empty,
                               ![p].pc = IF got = 0 THEN "failed" ELSE "memcpy"]

SpscCopy(p) ==
  /\ th[p].pc = "memcpy"
  /\ IF p \in Producer
     THEN q' = [q EXCEPT !.slots = Written(th[p].at, th[p].n)] /\ th' = [th EXCEPT ![p].pc = "store"]
     ELSE th' = [th EXCEPT ![p].got = Read(th[p].at, th[p].n), ![p].pc = "store"] /\ UNCHANGED q

SpscStore(p) ==
  /\ th[p].pc = "store" /\ q' = [q EXCEPT ![Side(p)] = th[p].at + th[p].n]
  /\ th' = [th EXCEPT ![p] = Idle]

SPSC(p) == SpscBegin(p) \/ SpscCopy(p) \/ SpscStore(p)

\* A call returns without success.
Fail(p) == th[p].pc = "failed" /\ th' = [th EXCEPT ![p] = Idle] /\ UNCHANGED q

Next == \E p \in Thread :
  \/ Kind = "mpmc" /\ MPMC(p)
  \/ Kind = "batch" /\ BatchMPMC(p)
  \/ Kind = "spsc" /\ SPSC(p)
  \/ Fail(p)
Spec == Init /\ [][Next]_qvars

------------------------------------------------------------------------------
(* A consumer gets the items of the positions it claimed: none is lost,    *)
(* doubled, torn or overtaken, however the copies of producers and         *)
(* consumers interleave.                                                   *)
ItemsInOrder == \A c \in Consumer : \A d \in DOMAIN th[c].got : th[c].got[d] = th[c].at + d - 1

(* push() and pop() without send() and recv() fail only if the queue was   *)
(* full (empty) at a moment during the call.                               *)
FailureIsHonest == ~ Blocking => \A p \in Thread : th[p].pc = "failed" => th[p].was
==============================================================================
