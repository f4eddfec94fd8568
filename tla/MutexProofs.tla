---------------------------- MODULE MutexProofs ----------------------------
(***************************************************************************)
(* The owner of a photon::mutex, for any set of threads and any number of  *)
(* retries: who holds it, who is handed it, and in which order.  IInv is   *)
(* the inductive invariant; the lemmas before it are about wait queues.    *)
(***************************************************************************)
EXTENDS Mutex, SequenceTheorems, TLAPS

\* No element of s occurs twice; t is an element of s.
Once(s) == \A i, j \in DOMAIN s : s[i] = s[j] => i = j
In(t, s) == \E i \in DOMAIN s : s[i] = t

(* Erase() takes one element out, and moves the ones behind it up.         *)
LEMMA ErasePlace ==
  ASSUME NEW S, NEW s \in Seq(S), NEW t, In(t, s)
  PROVE  \E k \in 1 .. Len(s) :
           /\ s[k] = t
           /\ Erase(s, t) \in Seq(S) /\ Len(Erase(s, t)) = Len(s) - 1
           /\ \A i \in 1 .. Len(s) - 1 :
                Erase(s, t)[i] = IF i < k THEN s[i] ELSE s[i + 1]
<1> DEFINE k == CHOOSE i \in DOMAIN s : s[i] = t
           a == SubSeq(s, 1, k - 1)
           b == SubSeq(s, k + 1, Len(s))
<1>1. k \in 1 .. Len(s) /\ s[k] = t
  BY DEF In
<1>2. Erase(s, t) = a \o b
  BY DEF Erase, In
<1> HIDE DEF k
<1>3. /\ a \in Seq(S) /\ Len(a) = k - 1
      /\ \A i \in 1 .. k - 1 : a[i] = s[i]
  <2>1. \A i \in 1 .. k - 1 : s[i] \in S
    BY <1>1, ElementOfSeq
  <2> QED BY <2>1, <1>1, SubSeqProperties
<1>4. /\ b \in Seq(S) /\ Len(b) = Len(s) - k
      /\ \A i \in 1 .. Len(s) - k : b[i] = s[k + i]
  <2>1. \A i \in k + 1 .. Len(s) : s[i] \in S
    BY <1>1, ElementOfSeq
  <2> QED BY <2>1, <1>1, SubSeqProperties
<1> HIDE DEF a, b
<1>5. a \o b \in Seq(S) /\ Len(a \o b) = Len(s) - 1
  BY <1>1, <1>3, <1>4, ConcatProperties
<1>6. \A i \in 1 .. Len(s) - 1 : (a \o b)[i] = IF i < k THEN s[i] ELSE s[i + 1]
  BY <1>1, <1>3, <1>4, ConcatProperties
<1> QED BY <1>1, <1>2, <1>5, <1>6

(* ... so it leaves a sequence ...                                         *)
LEMMA EraseSeq ==
  ASSUME NEW S, NEW s \in Seq(S), NEW t
  PROVE  Erase(s, t) \in Seq(S)
<1>1. CASE In(t, s)
  BY <1>1, ErasePlace
<1>2. CASE ~ In(t, s)
  BY <1>2 DEF Erase, In
<1> QED BY <1>1, <1>2

(* ... of the other elements, with the same head unless that is taken out. *)
LEMMA EraseProps ==
  ASSUME NEW S, NEW s \in Seq(S), NEW t, Once(s)
  PROVE  /\ Once(Erase(s, t))
         /\ \A u : In(u, Erase(s, t)) <=> In(u, s) /\ u # t
         /\ s # <<>> /\ Head(s) # t => Erase(s, t) # <<>> /\ Head(Erase(s, t)) = Head(s)
<1>1. CASE ~ In(t, s)
  BY <1>1 DEF Erase, In
<1>2. CASE In(t, s)
  <2> DEFINE r == Erase(s, t)
  <2>1. PICK k \in 1 .. Len(s) :
          /\ s[k] = t
          /\ r \in Seq(S) /\ Len(r) = Len(s) - 1
          /\ \A i \in 1 .. Len(s) - 1 : r[i] = IF i < k THEN s[i] ELSE s[i + 1]
    BY <1>2, ErasePlace
  <2> HIDE DEF r
  <2>2. Once(r)
    <3> SUFFICES ASSUME NEW i \in 1 .. Len(s) - 1, NEW j \in 1 .. Len(s) - 1, r[i] = r[j]
                 PROVE  i = j
      BY <2>1 DEF Once
    <3> DEFINE up(n) == IF n < k THEN n ELSE n + 1
    <3>1. up(i) \in 1 .. Len(s) /\ up(j) \in 1 .. Len(s) /\ s[up(i)] = s[up(j)]
      BY <2>1
    <3>2. up(i) = up(j)
      BY <3>1 DEF Once
    <3> QED BY <3>2
  <2>3. ASSUME NEW u, In(u, r) PROVE In(u, s) /\ u # t
    <3>1. PICK i \in 1 .. Len(s) - 1 : r[i] = u
      BY <2>1, <2>3 DEF In
    <3> DEFINE n == IF i < k THEN i ELSE i + 1
    <3>2. n \in 1 .. Len(s) /\ s[n] = u /\ n # k
      BY <3>1, <2>1
    <3> HIDE DEF n
    <3>3. s[n] # s[k]
      BY <3>2 DEF Once
    <3> QED BY <3>2, <3>3, <2>1 DEF In
  <2>4. ASSUME NEW u, In(u, s), u # t PROVE In(u, r)
    <3>1. PICK i \in 1 .. Len(s) : s[i] = u
      BY <2>4 DEF In
    <3>2. CASE i < k
      BY <3>1, <3>2, <2>1 DEF In
    <3>3. CASE i > k
      <4>1. i - 1 \in 1 .. Len(s) - 1 /\ r[i - 1] = u
        BY <3>1, <3>3, <2>1
      <4> QED BY <4>1, <2>1 DEF In
    <3> QED BY <3>1, <3>2, <3>3, <2>4, <2>1
  <2>5. ASSUME s # <<>>, Head(s) # t PROVE r # <<>> /\ Head(r) = Head(s)
    <3>1. s[1] # t /\ k > 1
      BY <2>1, <2>5
    <3>2. Len(s) > 1 /\ r[1] = s[1]
      BY <3>1, <2>1
    <3> QED BY <3>2, <2>1
  <2> QED BY <2>2, <2>3, <2>4, <2>5 DEF r
<1> QED BY <1>1, <1>2


\* The wait queue holds the threads that sleep, once each.
Sleepers ==
  /\ Once(queue["q"])
  /\ \A t \in Thread : /\ asleep[t] <=> In(t, queue["q"])
                       /\ asleep[t] => pc[t] \in {"switch", "sleep"}

\* splock is held by the thread that is at one of these lines.
Locked == \A t \in Thread :
  pc[t] \in {"check", "switch", "unlock", "handoff", "grant"} <=> splock = t

\* unlock() holds the lock of the head of the queue, and nobody else's.
Pinned ==
  /\ \A h, t \in Thread :
       pin[h] = t => /\ pc[t] \in {"handoff", "grant"}
                     /\ queue["q"] # <<>> /\ h = Head(queue["q"])
  /\ \A t \in Thread :
       pc[t] \in {"handoff", "grant"} => queue["q"] # <<>> /\ pin[Head(queue["q"])] = t

\* Who believes to have the mutex is the owner.
Believers == \A t \in Thread :
  /\ Holds(t) => owner = t
  /\ pc[t] = "grant" => owner = Head(queue["q"])
  /\ error_number[t] = RESUMED => pc[t] = "sleep" /\ ~asleep[t] /\ owner = t

\* The owner has it, or is about to; without an owner nobody waits.
Owned ==
  /\ owner # None => Holds(owner) \/ Handed(owner)
  /\ owner = None => queue["q"] = <<>>

\* A thread that yields has rounds left.
Rounds == \A t \in Thread : pc[t] = "yield" => re[t] > 0

IInv == TypeOK /\ Sleepers /\ Locked /\ Pinned /\ Believers /\ Owned /\ Rounds

(* A thread that falls asleep becomes the last element.                    *)
LEMMA AppendProps ==
  ASSUME NEW S, NEW s \in Seq(S), NEW t \in S, Once(s), ~ In(t, s)
  PROVE  /\ Append(s, t) \in Seq(S) /\ Append(s, t) # <<>>
         /\ Once(Append(s, t))
         /\ \A u : In(u, Append(s, t)) <=> In(u, s) \/ u = t
         /\ s # <<>> => Head(Append(s, t)) = Head(s)
<1> DEFINE r == Append(s, t)
<1>1. /\ r \in Seq(S) /\ Len(r) = Len(s) + 1 /\ r[Len(s) + 1] = t
      /\ \A i \in 1 .. Len(s) : r[i] = s[i]
  OBVIOUS
<1> HIDE DEF r
<1>2. Once(r)
  BY <1>1 DEF Once, In
<1>3. \A u : In(u, r) <=> In(u, s) \/ u = t
  BY <1>1 DEF In
<1>4. r # <<>> /\ (s # <<>> => Head(r) = Head(s))
  BY <1>1
<1> QED BY <1>1, <1>2, <1>3, <1>4 DEF r

(* The first waiter, whom unlock() chooses, is a sleeping thread.          *)
LEMMA HeadSleeps ==
  ASSUME IInv, queue["q"] # <<>>
  PROVE  Head(queue["q"]) \in Thread /\ asleep[Head(queue["q"])]
<1> DEFINE s == queue["q"]
<1>1. s \in Seq(Thread) /\ s # <<>>
  BY RetriesAssumption DEF IInv, TypeOK
<1>2. Head(s) \in Thread /\ In(Head(s), s)
  BY <1>1 DEF In
<1> QED BY <1>2 DEF IInv, Sleepers

(* The free mutex satisfies the invariant ...                              *)
LEMMA InitIInv == Init => IInv
  BY SleepWakeAssumption, RetriesAssumption
     DEF Init, SWInit, IInv, TypeOK, Sleepers, Locked, Pinned, Believers, Owned, Rounds,
         Once, In, Holds, Handed, PCs, Errno, RESUMED, EINTR, EPERM

(* ... and every step of lock(), unlock(), timeouts and interrupts keeps it. *)
LEMMA NextIInv == IInv /\ [Next]_vars => IInv'
<1> USE SleepWakeAssumption, RetriesAssumption DEF Goto, PCs, Errno, RESUMED, EINTR, EPERM
<1> SUFFICES ASSUME IInv, [Next]_vars PROVE IInv'
  OBVIOUS
<1>1. ASSUME NEW t \in Thread, LockFast(t) PROVE IInv'
  <2>1. TypeOK'
    BY <1>1 DEF LockFast, TryLock, swVars, IInv, TypeOK
  <2>2. Sleepers'
    BY <1>1 DEF LockFast, TryLock, swVars, IInv, TypeOK, Sleepers
  <2>3. Locked'
    BY <1>1 DEF LockFast, TryLock, swVars, IInv, TypeOK, Locked
  <2>4. Pinned'
    BY <1>1 DEF LockFast, TryLock, swVars, IInv, TypeOK, Pinned
  <2>5. Believers'
    BY <1>1 DEF LockFast, TryLock, swVars, IInv, TypeOK, Sleepers, Locked, Pinned,
       Believers, Owned, Holds
  <2>6. Owned'
    BY <1>1 DEF LockFast, TryLock, swVars, IInv, TypeOK, Owned, Holds, Handed
  <2>7. Rounds'
    BY <1>1 DEF LockFast, TryLock, swVars, IInv, TypeOK, Rounds
  <2> QED BY <2>1, <2>2, <2>3, <2>4, <2>5, <2>6, <2>7 DEF IInv
<1>2. ASSUME NEW t \in Thread, LockBusy(t) PROVE IInv'
  <2>1. TypeOK'
    <3>1. re' \in [Thread -> 0 .. Retries]
      BY <1>2 DEF LockBusy, IInv, TypeOK
    <3>2. pc' \in [Thread -> PCs]
      BY <1>2 DEF LockBusy, IInv, TypeOK
    <3>3. error_number' \in [Thread -> Errno] /\ UNCHANGED <<asleep, queue>>
      BY <1>2 DEF LockBusy, Clear, swVars, IInv, TypeOK
    <3> QED BY <1>2, <3>1, <3>2, <3>3 DEF LockBusy, IInv, TypeOK
  <2>2. Sleepers'
    BY <1>2 DEF LockBusy, Clear, swVars, IInv, TypeOK, Sleepers
  <2>3. Locked'
    BY <1>2 DEF LockBusy, Clear, swVars, IInv, TypeOK, Locked
  <2>4. Pinned'
    <3>1. UNCHANGED <<queue, pin>>
      BY <1>2 DEF LockBusy, Clear, swVars
    <3>2. \A u \in Thread : pc'[u] \in {"handoff", "grant"} <=> pc[u] \in {"handoff", "grant"}
      BY <1>2 DEF LockBusy, IInv, TypeOK
    <3> QED BY <3>1, <3>2 DEF IInv, TypeOK, Pinned
  <2>5. Believers'
    BY <1>2 DEF LockBusy, Clear, swVars, IInv, TypeOK, Believers, Holds
  <2>6. Owned'
    BY <1>2 DEF LockBusy, Clear, swVars, IInv, TypeOK, Owned, Holds, Handed
  <2>7. Rounds'
    BY <1>2 DEF LockBusy, Clear, swVars, IInv, TypeOK, Rounds
  <2> QED BY <2>1, <2>2, <2>3, <2>4, <2>5, <2>6, <2>7 DEF IInv
<1>3. ASSUME NEW t \in Thread, YieldReturn(t) PROVE IInv'
  <2>1. TypeOK'
    <3>1. re[t] \in 1 .. Retries
      BY <1>3 DEF YieldReturn, IInv, TypeOK, Rounds
    <3>2. re' \in [Thread -> 0 .. Retries]
      <4>1. re' = [re EXCEPT ![t] = 0] \/ re' = [re EXCEPT ![t] = re[t] - 1]
        BY <1>3 DEF YieldReturn
      <4>2. 0 \in 0 .. Retries /\ re[t] - 1 \in 0 .. Retries
        BY <3>1
      <4> QED BY <4>1, <4>2 DEF IInv, TypeOK
    <3>3. pc' \in [Thread -> PCs]
      <4>1. pc' = pc \/ \E l \in PCs : pc' = [pc EXCEPT ![t] = l]
        BY <1>3 DEF YieldReturn
      <4> QED BY <4>1 DEF IInv, TypeOK
    <3>4. error_number' \in [Thread -> Errno] /\ UNCHANGED <<asleep, queue>>
      BY <1>3 DEF YieldReturn, Clear, swVars, IInv, TypeOK
    <3>5. owner' \in Thread \cup {None} /\ UNCHANGED <<splock, pin>>
      BY <1>3 DEF YieldReturn, TryLock, IInv, TypeOK
    <3> QED BY <3>2, <3>3, <3>4, <3>5 DEF IInv, TypeOK
  <2>2. Sleepers'
    BY <1>3 DEF YieldReturn, Clear, TryLock, swVars, IInv, TypeOK, Sleepers
  <2>3. Locked'
    BY <1>3 DEF YieldReturn, Clear, TryLock, swVars, IInv, TypeOK, Locked
  <2>4. Pinned'
    <3>1. UNCHANGED <<queue, pin>>
      BY <1>3 DEF YieldReturn, Clear, swVars
    <3>2. \A u \in Thread : pc'[u] \in {"handoff", "grant"} <=> pc[u] \in {"handoff", "grant"}
      BY <1>3 DEF YieldReturn, IInv, TypeOK
    <3> QED BY <3>1, <3>2 DEF IInv, TypeOK, Pinned
  <2>5. Believers'
    BY <1>3 DEF YieldReturn, Clear, TryLock, swVars, IInv, TypeOK, Pinned,
       Believers, Owned, Holds
  <2>6. Owned'
    BY <1>3 DEF YieldReturn, Clear, TryLock, swVars, IInv, TypeOK, Owned, Holds,
       Handed
  <2>7. Rounds'
    <3>1. re[t] \in 1 .. Retries
      BY <1>3 DEF YieldReturn, IInv, TypeOK, Rounds
    <3>2. pc'[t] = "yield" => re'[t] = re[t] - 1 /\ re[t] # 1
      BY <1>3 DEF YieldReturn, IInv, TypeOK
    <3>3. \A u \in Thread \ {t} : pc'[u] = pc[u] /\ re'[u] = re[u]
      BY <1>3 DEF YieldReturn, IInv, TypeOK
    <3> QED BY <3>1, <3>2, <3>3 DEF IInv, Rounds
  <2> QED BY <2>1, <2>2, <2>3, <2>4, <2>5, <2>6, <2>7 DEF IInv
<1>4. ASSUME NEW t \in Thread, LockSplock(t) PROVE IInv'
  <2>1. TypeOK'
    BY <1>4 DEF LockSplock, swVars, IInv, TypeOK
  <2>2. Sleepers'
    BY <1>4 DEF LockSplock, swVars, IInv, TypeOK, Sleepers
  <2>3. Locked'
    BY <1>4 DEF LockSplock, swVars, IInv, TypeOK, Locked
  <2>4. Pinned'
    BY <1>4 DEF LockSplock, swVars, IInv, TypeOK, Pinned
  <2>5. Believers'
    BY <1>4 DEF LockSplock, swVars, IInv, TypeOK, Believers, Holds
  <2>6. Owned'
    BY <1>4 DEF LockSplock, swVars, IInv, TypeOK, Owned, Holds, Handed
  <2>7. Rounds'
    BY <1>4 DEF LockSplock, swVars, IInv, TypeOK, Rounds
  <2> QED BY <2>1, <2>2, <2>3, <2>4, <2>5, <2>6, <2>7 DEF IInv
<1>5. ASSUME NEW t \in Thread, LockCheck(t) PROVE IInv'
  <2>1. TypeOK'
    BY <1>5 DEF LockCheck, TryLock, swVars, IInv, TypeOK
  <2>2. Sleepers'
    BY <1>5 DEF LockCheck, TryLock, swVars, IInv, TypeOK, Sleepers
  <2>3. Locked'
    BY <1>5 DEF LockCheck, TryLock, swVars, IInv, TypeOK, Locked
  <2>4. Pinned'
    BY <1>5 DEF LockCheck, TryLock, swVars, IInv, TypeOK, Pinned
  <2>5. Believers'
    BY <1>5 DEF LockCheck, TryLock, swVars, IInv, TypeOK, Sleepers, Locked, Pinned,
       Believers, Owned, Holds
  <2>6. Owned'
    BY <1>5 DEF LockCheck, TryLock, swVars, IInv, TypeOK, Owned, Holds, Handed
  <2>7. Rounds'
    BY <1>5 DEF LockCheck, TryLock, swVars, IInv, TypeOK, Rounds
  <2> QED BY <2>1, <2>2, <2>3, <2>4, <2>5, <2>6, <2>7 DEF IInv
<1>6. ASSUME NEW t \in Thread, LockExpired(t) PROVE IInv'
  <2>1. TypeOK'
    BY <1>6 DEF LockExpired, swVars, IInv, TypeOK
  <2>2. Sleepers'
    BY <1>6 DEF LockExpired, swVars, IInv, TypeOK, Sleepers
  <2>3. Locked'
    BY <1>6 DEF LockExpired, swVars, IInv, TypeOK, Locked
  <2>4. Pinned'
    BY <1>6 DEF LockExpired, swVars, IInv, TypeOK, Pinned
  <2>5. Believers'
    BY <1>6 DEF LockExpired, swVars, IInv, TypeOK, Believers, Holds
  <2>6. Owned'
    BY <1>6 DEF LockExpired, swVars, IInv, TypeOK, Owned, Holds, Handed
  <2>7. Rounds'
    BY <1>6 DEF LockExpired, swVars, IInv, TypeOK, Rounds
  <2> QED BY <2>1, <2>2, <2>3, <2>4, <2>5, <2>6, <2>7 DEF IInv
<1>7. ASSUME NEW t \in Thread, LockSleep(t) PROVE IInv'
  <2>0. LET s == queue["q"] IN
        /\ queue'["q"] \in Seq(Thread) /\ queue'["q"] # <<>>
        /\ Once(queue'["q"])
        /\ \A u \in Thread : In(u, queue'["q"]) <=> In(u, s) \/ u = t
        /\ s # <<>> => Head(queue'["q"]) = Head(s)
    BY <1>7, AppendProps DEF LockSleep, Sleep, IInv, TypeOK, Sleepers
  <2>1. TypeOK'
    BY <1>7, <2>0 DEF LockSleep, Sleep, swVars, IInv, TypeOK
  <2>2. Sleepers'
    BY <1>7, <2>0 DEF LockSleep, Sleep, swVars, IInv, TypeOK, Sleepers
  <2>3. Locked'
    BY <1>7, <2>0 DEF LockSleep, Sleep, swVars, IInv, TypeOK, Locked
  <2>4. Pinned'
    BY <1>7, <2>0 DEF LockSleep, Sleep, swVars, IInv, TypeOK, Sleepers, Locked, Pinned
  <2>5. Believers'
    BY <1>7, <2>0 DEF LockSleep, Sleep, swVars, IInv, TypeOK, Sleepers, Locked,
       Pinned, Believers, Owned, Holds
  <2>6. Owned'
    BY <1>7, <2>0 DEF LockSleep, Sleep, swVars, IInv, TypeOK, Sleepers, Locked,
       Pinned, Believers, Owned, Holds, Handed
  <2>7. Rounds'
    BY <1>7, <2>0 DEF LockSleep, Sleep, swVars, IInv, TypeOK, Rounds
  <2> QED BY <2>1, <2>2, <2>3, <2>4, <2>5, <2>6, <2>7 DEF IInv
<1>8. ASSUME NEW t \in Thread, DeferredUnlock(t) PROVE IInv'
  <2>1. TypeOK'
    BY <1>8 DEF DeferredUnlock, swVars, IInv, TypeOK
  <2>2. Sleepers'
    BY <1>8 DEF DeferredUnlock, swVars, IInv, TypeOK, Sleepers
  <2>3. Locked'
    BY <1>8 DEF DeferredUnlock, swVars, IInv, TypeOK, Locked
  <2>4. Pinned'
    BY <1>8 DEF DeferredUnlock, swVars, IInv, TypeOK, Pinned
  <2>5. Believers'
    BY <1>8 DEF DeferredUnlock, swVars, IInv, TypeOK, Believers, Holds
  <2>6. Owned'
    BY <1>8 DEF DeferredUnlock, swVars, IInv, TypeOK, Owned, Holds, Handed
  <2>7. Rounds'
    BY <1>8 DEF DeferredUnlock, swVars, IInv, TypeOK, Rounds
  <2> QED BY <2>1, <2>2, <2>3, <2>4, <2>5, <2>6, <2>7 DEF IInv
<1>9. ASSUME NEW t \in Thread, LockReturn(t) PROVE IInv'
  <2>1. TypeOK'
    BY <1>9 DEF LockReturn, Clear, swVars, IInv, TypeOK
  <2>2. Sleepers'
    BY <1>9 DEF LockReturn, Clear, swVars, IInv, TypeOK, Sleepers
  <2>3. Locked'
    BY <1>9 DEF LockReturn, Clear, swVars, IInv, TypeOK, Locked
  <2>4. Pinned'
    BY <1>9 DEF LockReturn, Clear, swVars, IInv, TypeOK, Pinned
  <2>5. Believers'
    BY <1>9 DEF LockReturn, Clear, swVars, IInv, TypeOK, Believers, Holds
  <2>6. Owned'
    BY <1>9 DEF LockReturn, Clear, swVars, IInv, TypeOK, Sleepers, Locked, Pinned,
       Believers, Owned, Holds, Handed
  <2>7. Rounds'
    BY <1>9 DEF LockReturn, Clear, swVars, IInv, TypeOK, Rounds
  <2> QED BY <2>1, <2>2, <2>3, <2>4, <2>5, <2>6, <2>7 DEF IInv
<1>10. ASSUME NEW t \in Thread, UnlockSplock(t) PROVE IInv'
  <2>1. TypeOK'
    BY <1>10 DEF UnlockSplock, swVars, IInv, TypeOK
  <2>2. Sleepers'
    BY <1>10 DEF UnlockSplock, swVars, IInv, TypeOK, Sleepers
  <2>3. Locked'
    BY <1>10 DEF UnlockSplock, swVars, IInv, TypeOK, Locked
  <2>4. Pinned'
    BY <1>10 DEF UnlockSplock, swVars, IInv, TypeOK, Pinned
  <2>5. Believers'
    BY <1>10 DEF UnlockSplock, swVars, IInv, TypeOK, Believers, Holds
  <2>6. Owned'
    BY <1>10 DEF UnlockSplock, swVars, IInv, TypeOK, Owned, Holds, Handed
  <2>7. Rounds'
    BY <1>10 DEF UnlockSplock, swVars, IInv, TypeOK, Rounds
  <2> QED BY <2>1, <2>2, <2>3, <2>4, <2>5, <2>6, <2>7 DEF IInv
<1>11. ASSUME NEW t \in Thread, UnlockPinHead(t) PROVE IInv'
  <2>1. TypeOK'
    <3>1. CASE queue["q"] = <<>>
      BY <1>11, <3>1 DEF UnlockPinHead, swVars, IInv, TypeOK
    <3>2. CASE queue["q"] # <<>>
      <4>1. Head(queue["q"]) \in Thread
        BY <3>2, HeadSleeps
      <4>2. pin' \in [Thread -> Thread \cup {None}]
        <5>1. pin' = [pin EXCEPT ![Head(queue["q"])] = t]
          BY <1>11, <3>2 DEF UnlockPinHead
        <5>2. pin \in [Thread -> Thread \cup {None}]
          BY DEF IInv, TypeOK
        <5> QED BY <4>1, <5>1, <5>2
      <4>3. pc' \in [Thread -> PCs] /\ UNCHANGED <<swVars, owner, splock, re>>
        BY <1>11, <3>2 DEF UnlockPinHead, IInv, TypeOK
      <4> QED BY <4>2, <4>3 DEF swVars, IInv, TypeOK
    <3> QED BY <3>1, <3>2
  <2>2. Sleepers'
    BY <1>11 DEF UnlockPinHead, swVars, IInv, TypeOK, Sleepers
  <2>3. Locked'
    <3>1. CASE queue["q"] = <<>>
      BY <1>11, <3>1 DEF UnlockPinHead, IInv, TypeOK, Locked
    <3>2. CASE queue["q"] # <<>>
      <4>1. pc' = [pc EXCEPT ![t] = "handoff"] /\ splock' = splock /\ pc[t] = "unlock"
        BY <1>11, <3>2 DEF UnlockPinHead
      <4> QED BY <4>1 DEF IInv, TypeOK, Locked
    <3> QED BY <3>1, <3>2
  <2>4. Pinned'
    BY <1>11 DEF UnlockPinHead, swVars, IInv, TypeOK, Sleepers, Locked, Pinned
  <2>5. Believers'
    BY <1>11 DEF UnlockPinHead, swVars, IInv, TypeOK, Sleepers, Locked, Pinned,
       Believers, Owned, Holds
  <2>6. Owned'
    BY <1>11 DEF UnlockPinHead, swVars, IInv, TypeOK, Sleepers, Locked, Pinned,
       Believers, Owned, Holds, Handed
  <2>7. Rounds'
    BY <1>11 DEF UnlockPinHead, swVars, IInv, TypeOK, Rounds
  <2> QED BY <2>1, <2>2, <2>3, <2>4, <2>5, <2>6, <2>7 DEF IInv
<1>12. ASSUME NEW t \in Thread, UnlockHandoff(t) PROVE IInv'
  <2>1. TypeOK'
    <3>1. queue["q"] # <<>>
      BY <1>12 DEF UnlockHandoff, IInv, Pinned
    <3>2. Head(queue["q"]) \in Thread
      BY <3>1, HeadSleeps
    <3> QED BY <1>12, <3>2 DEF UnlockHandoff, swVars, IInv, TypeOK
  <2>2. Sleepers'
    BY <1>12 DEF UnlockHandoff, swVars, IInv, TypeOK, Sleepers
  <2>3. Locked'
    BY <1>12 DEF UnlockHandoff, swVars, IInv, TypeOK, Locked
  <2>4. Pinned'
    BY <1>12 DEF UnlockHandoff, swVars, IInv, TypeOK, Pinned
  <2>5. Believers'
    BY <1>12 DEF UnlockHandoff, swVars, IInv, TypeOK, Sleepers, Locked, Pinned,
       Believers, Owned, Holds
  <2>6. Owned'
    BY <1>12, HeadSleeps DEF UnlockHandoff, swVars, IInv, TypeOK, Pinned, Locked,
       Sleepers, Owned, Holds, Handed
  <2>7. Rounds'
    BY <1>12 DEF UnlockHandoff, swVars, IInv, TypeOK, Rounds
  <2> QED BY <2>1, <2>2, <2>3, <2>4, <2>5, <2>6, <2>7 DEF IInv
<1>13. ASSUME NEW t \in Thread, UnlockGrant(t) PROVE IInv'
  <2>0. LET s == queue["q"] IN
        /\ Once(queue'["q"])
        /\ \A u \in Thread : In(u, queue'["q"]) <=> In(u, s) /\ u # Head(queue["q"])
        /\ s # <<>> /\ Head(s) # Head(queue["q"]) => queue'["q"] # <<>> /\ Head(queue'["q"]) = Head(s)
    BY <1>13, EraseProps DEF UnlockGrant, Leave, Expire, Resume, IInv, TypeOK,
       Sleepers
  <2>1. TypeOK'
    BY <1>13, EraseSeq, HeadSleeps DEF UnlockGrant, Resume, Leave, swVars, IInv,
       TypeOK
  <2>2. Sleepers'
    BY <1>13, <2>0, HeadSleeps DEF UnlockGrant, Resume, Leave, swVars, IInv, TypeOK,
       Sleepers
  <2>3. Locked'
    BY <1>13, <2>0, HeadSleeps DEF UnlockGrant, Resume, Leave, swVars, IInv, TypeOK,
       Locked
  <2>4. Pinned'
    BY <1>13, <2>0, HeadSleeps DEF UnlockGrant, Resume, Leave, swVars, IInv, TypeOK,
       Sleepers, Locked, Pinned
  <2>5. Believers'
    BY <1>13, <2>0, HeadSleeps DEF UnlockGrant, Resume, Leave, swVars, IInv, TypeOK,
       Sleepers, Locked, Pinned, Believers, Owned, Holds
  <2>6. Owned'
    <3> DEFINE h == Head(queue["q"])
    <3>1. h \in Thread /\ asleep[h]
      BY <1>13, HeadSleeps DEF UnlockGrant, Resume
    <3>2. pc[h] = "sleep" /\ h # t
      BY <1>13, <3>1 DEF UnlockGrant, IInv, Sleepers, Locked
    <3>3. owner' = h
      BY <1>13 DEF UnlockGrant, IInv, Believers
    <3>4. error_number'[h] = RESUMED /\ pc'[h] = "sleep"
      BY <1>13, <3>1, <3>2 DEF UnlockGrant, Resume, IInv, TypeOK
    <3> QED BY <3>1, <3>3, <3>4 DEF Owned, Handed
  <2>7. Rounds'
    BY <1>13, <2>0, HeadSleeps DEF UnlockGrant, Resume, Leave, swVars, IInv, TypeOK,
       Rounds
  <2> QED BY <2>1, <2>2, <2>3, <2>4, <2>5, <2>6, <2>7 DEF IInv
<1>14. ASSUME NEW t \in Thread, Timeout(t) PROVE IInv'
  <2>0. LET s == queue["q"] IN
        /\ Once(queue'["q"])
        /\ \A u \in Thread : In(u, queue'["q"]) <=> In(u, s) /\ u # t
        /\ s # <<>> /\ Head(s) # t => queue'["q"] # <<>> /\ Head(queue'["q"]) = Head(s)
    BY <1>14, EraseProps DEF Timeout, Leave, Expire, Resume, IInv, TypeOK, Sleepers
  <2>1. TypeOK'
    BY <1>14, EraseSeq DEF Timeout, Expire, Leave, swVars, IInv, TypeOK
  <2>2. Sleepers'
    BY <1>14, <2>0 DEF Timeout, Expire, Leave, swVars, IInv, TypeOK, Sleepers
  <2>3. Locked'
    BY <1>14, <2>0 DEF Timeout, Expire, Leave, swVars, IInv, TypeOK, Locked
  <2>4. Pinned'
    BY <1>14, <2>0 DEF Timeout, Expire, Leave, swVars, IInv, TypeOK, Sleepers,
       Locked, Pinned
  <2>5. Believers'
    BY <1>14, <2>0 DEF Timeout, Expire, Leave, swVars, IInv, TypeOK, Sleepers,
       Locked, Pinned, Believers, Owned, Holds
  <2>6. Owned'
    <3>1. owner # None
      BY <1>14 DEF Timeout, Expire, Leave, IInv, Sleepers, Owned, In
    <3>2. Holds(owner) \/ Handed(owner)
      BY <3>1 DEF IInv, Owned
    <3>3. owner \in Thread /\ owner' = owner
      BY <1>14, <3>1 DEF Timeout, Expire, Leave, IInv, TypeOK
    <3>4. Holds(owner)' \/ Handed(owner)'
      BY <1>14, <3>2, <3>3 DEF Timeout, Expire, Leave, IInv, TypeOK, Believers,
         Holds, Handed
    <3> QED BY <3>1, <3>3, <3>4 DEF Owned
  <2>7. Rounds'
    BY <1>14, <2>0 DEF Timeout, Expire, Leave, swVars, IInv, TypeOK, Rounds
  <2> QED BY <2>1, <2>2, <2>3, <2>4, <2>5, <2>6, <2>7 DEF IInv
<1>15. ASSUME NEW t \in Thread, pin[t] = None, Interrupt(t, EINTR),
             UNCHANGED <<owner, splock, pin, pc, re>>
      PROVE IInv'
  <2>0. LET s == queue["q"] IN
        /\ Once(queue'["q"])
        /\ \A u \in Thread : In(u, queue'["q"]) <=> In(u, s) /\ u # t
        /\ s # <<>> /\ Head(s) # t => queue'["q"] # <<>> /\ Head(queue'["q"]) = Head(s)
    BY <1>15, EraseProps DEF Interrupt, Leave, Expire, Resume, IInv, TypeOK, Sleepers
  <2>1. TypeOK'
    BY <1>15, EraseSeq DEF Interrupt, Leave, swVars, IInv, TypeOK
  <2>2. Sleepers'
    BY <1>15, <2>0 DEF Interrupt, Leave, swVars, IInv, TypeOK, Sleepers
  <2>3. Locked'
    BY <1>15, <2>0 DEF Interrupt, Leave, swVars, IInv, TypeOK, Locked
  <2>4. Pinned'
    BY <1>15, <2>0 DEF Interrupt, Leave, swVars, IInv, TypeOK, Sleepers, Locked,
       Pinned
  <2>5. Believers'
    BY <1>15, <2>0 DEF Interrupt, Leave, swVars, IInv, TypeOK, Sleepers, Locked,
       Pinned, Believers, Owned, Holds
  <2>6. Owned'
    <3>1. owner # None
      BY <1>15 DEF Interrupt, Leave, IInv, Sleepers, Owned, In
    <3>2. Holds(owner) \/ Handed(owner)
      BY <3>1 DEF IInv, Owned
    <3>3. owner \in Thread /\ owner' = owner
      BY <1>15, <3>1 DEF Interrupt, Leave, IInv, TypeOK
    <3>4. Holds(owner)' \/ Handed(owner)'
      BY <1>15, <3>2, <3>3 DEF Interrupt, Leave, IInv, TypeOK, Believers, Holds,
         Handed
    <3> QED BY <3>1, <3>3, <3>4 DEF Owned
  <2>7. Rounds'
    BY <1>15, <2>0 DEF Interrupt, Leave, swVars, IInv, TypeOK, Rounds
  <2> QED BY <2>1, <2>2, <2>3, <2>4, <2>5, <2>6, <2>7 DEF IInv
<1>16. ASSUME NEW t \in Thread, Nudge(t, EINTR), UNCHANGED <<owner, splock, pin, pc, re>>
      PROVE IInv'
  <2>1. TypeOK'
    BY <1>16 DEF Nudge, swVars, IInv, TypeOK
  <2>2. Sleepers'
    BY <1>16 DEF Nudge, swVars, IInv, TypeOK, Sleepers
  <2>3. Locked'
    BY <1>16 DEF Nudge, swVars, IInv, TypeOK, Locked
  <2>4. Pinned'
    BY <1>16 DEF Nudge, swVars, IInv, TypeOK, Pinned
  <2>5. Believers'
    BY <1>16 DEF Nudge, swVars, IInv, TypeOK, Believers, Holds
  <2>6. Owned'
    BY <1>16 DEF Nudge, swVars, IInv, TypeOK, Owned, Holds, Handed
  <2>7. Rounds'
    BY <1>16 DEF Nudge, swVars, IInv, TypeOK, Rounds
  <2> QED BY <2>1, <2>2, <2>3, <2>4, <2>5, <2>6, <2>7 DEF IInv
<1>17. CASE UNCHANGED vars
  BY <1>17 DEF vars, swVars, IInv, TypeOK, Sleepers, Locked, Pinned, Believers,
     Owned, Rounds, Holds, Handed
<1> QED
  BY <1>1, <1>2, <1>3, <1>4, <1>5, <1>6, <1>7, <1>8, <1>9, <1>10, <1>11, <1>12,
     <1>13, <1>14, <1>15, <1>16, <1>17 DEF Next, Lock, Unlock, InterruptWaiter

(* Queue, splock, locked head and owner of a mutex agree.                  *)
THEOREM Invariance == Spec => []IInv
<1> QED
  BY InitIInv, NextIInv, PTL DEF Spec

(* unlock() never hands the mutex to a thread whose lock() then fails, and *)
(* no lock() succeeds for a thread that is not the owner.                  *)
THEOREM OwnerKnows == Spec => []OwnerKnowsIt
<1>1. IInv => OwnerKnowsIt
  BY DEF IInv, Believers, Owned, OwnerKnowsIt
<1> QED
  BY <1>1, Invariance, PTL

(* While threads wait, do_mutex_unlock() makes the first of them the owner, *)
(* and no try_lock() gets in between.                                      *)
THEOREM HandsOver == Spec => NoBarging
<1>1. ASSUME IInv, [Next]_vars, owner' # owner, owner' # None, queue["q"] # <<>>
      PROVE  owner' = Head(queue["q"])
  <2>1. owner # None
    BY <1>1 DEF IInv, Owned
  <2>2. PICK t \in Thread : UnlockHandoff(t)
    BY <1>1, <2>1 DEF Next, vars, LockFast, LockBusy, Lock, YieldReturn, LockSplock,
       LockCheck,
       TryLock, LockSleep, DeferredUnlock, LockReturn, LockExpired, UnlockSplock, Unlock,
       UnlockPinHead, UnlockGrant, Timeout, InterruptWaiter
  <2> QED BY <2>2 DEF UnlockHandoff
<1> QED
  BY <1>1, Invariance, PTL DEF Spec, NoBarging

(* mutex excludes: one thread at most is between lock() and unlock().      *)
THEOREM Exclusion == Spec => []MutualExclusion
<1>1. IInv => MutualExclusion
  BY DEF IInv, Believers, MutualExclusion
<1> QED
  BY <1>1, Invariance, PTL
==============================================================================
