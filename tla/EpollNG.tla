------------------------------ MODULE EpollNG ------------------------------
(***************************************************************************)
(* The epoll-ng event engine (io/epoll-ng.cpp): one epoll per kind of      *)
(* event.  What a poller reports is kept in its buffer as a pointer to the *)
(* waiter, which is on the stack of wait_for_fd(), until the next call of  *)
(* wait_and_fire_events() notifies it.  At most one thread waits for an    *)
(* event of a descriptor at a time.                                        *)
(***************************************************************************)
EXTENDS Naturals, FiniteSets, TLAPS

CONSTANTS Thread, Fd, Null

VARIABLES reg,    \* the registrations of the three pollers: none, armed or disarmed
          buf,    \* the events the pollers have reaped: poller and waiter
          ready,  \* what the descriptors are ready for (the kernel)
          th      \* the threads

vars == <<reg, buf, ready, th>>

Poller == {"r", "w", "e"}

Idle == [pc |-> "run", fd |-> Null, ints |-> {}]

Init ==
    /\ reg = [p \in Poller |-> [f \in Fd |-> Null]]
    /\ buf = {}
    /\ ready = [f \in Fd |-> {}]
    /\ th = [t \in Thread |-> Idle]

----------------------------------------------------------------------------
\* add_interest(): EPOLL_CTL_ADD, one-shot, to the poller of every interest; and sleep.
WaitForFd(t, f, ints) ==
    /\ th[t].pc = "run"
    /\ \A u \in Thread : th[u].fd = f => th[u].ints \cap ints = {}
    /\ reg' = [p \in Poller |-> IF p \in ints THEN [reg[p] EXCEPT ![f] = [waiter |-> t, armed |-> TRUE]]
                                ELSE reg[p]]
    /\ th' = [th EXCEPT ![t] = [pc |-> "sleep", fd |-> f, ints |-> ints]]
    /\ UNCHANGED <<buf, ready>>

\* rm_interest() for a set of waiters.
RmInterest(rg, ts) ==
    [p \in Poller |-> [f \in Fd |->
        IF \E t \in ts : th[t].fd = f /\ p \in th[t].ints THEN Null ELSE rg[p][f]]]

Reported(rg) ==
    {x \in Poller \X Fd : LET r == rg[x[1]][x[2]] IN r # Null /\ r.armed /\ x[1] \in ready[x[2]]}

\* wait_and_fire_events(): notify whatever is in the buffers - the registrations of the
\* waiter are removed, its thread is interrupted with EOK, which also becomes the result of
\* a sleep that has just timed out; with empty buffers, reap.
WaitAndFire(rg, self) ==
    LET woken == {b[2] : b \in buf} IN
    IF buf # {}
    THEN /\ reg' = RmInterest(rg, woken)
         /\ buf' = {}
         /\ th' = [t \in Thread |-> IF t = self THEN Idle
                                    ELSE IF t \in woken /\ th[t].pc \in {"sleep", "timeout"}
                                    THEN [th[t] EXCEPT !.pc = "fired"] ELSE th[t]]
    ELSE /\ buf' = {<<x[1], rg[x[1]][x[2]].waiter>> : x \in Reported(rg)}
         /\ reg' = [p \in Poller |-> [f \in Fd |->
                      IF <<p, f>> \in Reported(rg) THEN [rg[p][f] EXCEPT !.armed = FALSE] ELSE rg[p][f]]]
         /\ th' = [t \in Thread |-> IF t = self THEN Idle ELSE th[t]]

IdleLoop ==
    /\ buf # {} \/ Reported(reg) # {}
    /\ WaitAndFire(reg, Null)
    /\ ready' = ready

\* The sleep ends otherwise: its deadline, or another thread interrupts.
SleepEnds(t) ==
    /\ th[t].pc = "sleep"
    /\ \E how \in {"timeout", "interrupt"} : th' = [th EXCEPT ![t].pc = how]
    /\ UNCHANGED <<reg, buf, ready>>

\* Woken with EOK, wait_for_fd() returns 0.
Fired(t) ==
    /\ th[t].pc = "fired"
    /\ th' = [th EXCEPT ![t] = Idle]
    /\ UNCHANGED <<reg, buf, ready>>

\* fault: the events in the buffers are not notified
EndedUnflushed(t) ==
    /\ th[t].pc \in {"timeout", "interrupt"}
    /\ reg' = RmInterest(reg, {t})
    /\ th' = [th EXCEPT ![t] = Idle]
    /\ UNCHANGED <<buf, ready>>

\* fault: the registration of a wait that has ended stays
EndedUnremoved(t) ==
    /\ th[t].pc \in {"timeout", "interrupt"}
    /\ WaitAndFire(reg, t)
    /\ ready' = ready

\* Otherwise it removes its interests, and lets the events in the buffers be notified while
\* its waiter still exists.
Ended(t) ==
    /\ th[t].pc \in {"timeout", "interrupt"}
    /\ WaitAndFire(RmInterest(reg, {t}), t)
    /\ ready' = ready

\* The peer and the kernel change what a descriptor is ready for.
Changes(f, p) ==
    /\ ready' = [ready EXCEPT ![f] = IF p \in @ THEN @ \ {p} ELSE @ \cup {p}]
    /\ UNCHANGED <<reg, buf, th>>

Next ==
    \/ \E t \in Thread : \/ SleepEnds(t) \/ Fired(t) \/ Ended(t)
                         \/ \E f \in Fd, ints \in SUBSET Poller \ {{}} : WaitForFd(t, f, ints)
    \/ IdleLoop
    \/ \E f \in Fd, p \in Poller : Changes(f, p)

Spec == Init /\ [][Next]_vars

----------------------------------------------------------------------------
\* Every waiter in a buffer, or known to a poller, is that of a call that has not returned:
\* no pointer into a stack frame that is gone is ever followed.
WaitersAlive ==
    /\ \A b \in buf : th[b[2]].pc # "run"
    /\ \A p \in Poller, f \in Fd : reg[p][f] # Null => th[reg[p][f].waiter].fd = f

\* A thread that sleeps is registered for all it waits for, or its event is in a buffer.
SleeperRegistered ==
    \A t \in Thread : th[t].pc = "sleep" =>
       \A p \in th[t].ints :
          /\ reg[p][th[t].fd] # Null /\ reg[p][th[t].fd].waiter = t
          /\ ~reg[p][th[t].fd].armed => \E q \in Poller : <<q, t>> \in buf

----------------------------------------------------------------------------
(* The proof that no waiter outlives its call, for any number of threads   *)
(* and descriptors.                                                        *)

Registration == [waiter : Thread, armed : BOOLEAN]

Nulls == Null \notin Fd /\ Null \notin Thread /\ Null \notin Registration

Caller == [pc : {"run", "sleep", "timeout", "interrupt", "fired"}, fd : Fd \cup {Null}, ints : SUBSET Poller]

Shape ==
    /\ th \in [Thread -> Caller]
    /\ reg \in [Poller -> [Fd -> Registration \cup {Null}]]
    /\ buf \in SUBSET (Poller \X Thread)

Threads ==
    /\ \A t \in Thread : IF th[t].pc = "run" THEN th[t].fd = Null ELSE th[t].fd \in Fd
    /\ \A t, u \in Thread : t # u /\ th[t].fd \in Fd /\ th[t].fd = th[u].fd => th[t].ints \cap th[u].ints = {}

\* A registration is that of a thread that waits for the event and has not been notified.
Registered ==
    \A p \in Poller, f \in Fd : reg[p][f] # Null =>
       LET w == reg[p][f].waiter IN th[w].fd = f /\ p \in th[w].ints /\ th[w].pc # "fired"

Buffered == \A b \in buf : th[b[2]].pc \notin {"run", "fired"}

Inv == Shape /\ Threads /\ Registered /\ Buffered /\ SleeperRegistered

\* wait_for_fd() of a thread registers an event that nobody waits for.
LEMMA WaitForFdKeeps == ASSUME Nulls, Inv, NEW t \in Thread, NEW f \in Fd,
                               NEW ints \in SUBSET Poller \ {{}}, WaitForFd(t, f, ints)
                        PROVE  Inv'
<1> USE DEF Inv
<1> DEFINE r == [waiter |-> t, armed |-> TRUE]
<1>1. r \in Registration /\ r # Null /\ r.waiter = t /\ r.armed = TRUE
  <2>1. r \in Registration /\ r.waiter = t /\ r.armed = TRUE
    BY DEF Registration
  <2>2. QED
    BY <2>1 DEF Nulls
<1>2. \A p \in Poller, g \in Fd : reg'[p][g] = IF p \in ints /\ g = f THEN r ELSE reg[p][g]
  BY DEF WaitForFd, Shape
<1>3. /\ th'[t] = [pc |-> "sleep", fd |-> f, ints |-> ints] /\ th'[t] \in Caller
      /\ \A u \in Thread : u # t => th'[u] = th[u]
  BY DEF WaitForFd, Shape, Caller
<1>4. th[t].pc = "run" /\ th[t].fd = Null /\ buf' = buf
  BY DEF WaitForFd, Threads
<1>5. \A u \in Thread : th[u].fd = f => th[u].ints \cap ints = {}
  BY DEF WaitForFd
<1>6. Shape'
  <2>1. \A p \in Poller : reg'[p] \in [Fd -> Registration \cup {Null}]
    BY <1>1 DEF WaitForFd, Shape
  <2>2. reg' \in [Poller -> [Fd -> Registration \cup {Null}]]
    BY <2>1 DEF WaitForFd
  <2>3. th' \in [Thread -> Caller]
    BY <1>3 DEF WaitForFd, Shape
  <2>4. QED
    BY <1>4, <2>2, <2>3 DEF Shape
<1> HIDE DEF r
<1>7. Threads'
  BY <1>3, <1>5 DEF Threads, Nulls
<1>8. Registered'
  <2> SUFFICES ASSUME NEW p \in Poller, NEW g \in Fd, reg'[p][g] # Null
               PROVE  LET w == reg'[p][g].waiter IN th'[w].fd = g /\ p \in th'[w].ints /\ th'[w].pc # "fired"
    BY DEF Registered
  <2>1. CASE p \in ints /\ g = f
    BY <2>1, <1>1, <1>2, <1>3
  <2>2. CASE ~(p \in ints /\ g = f)
    <3>1. reg'[p][g] = reg[p][g] /\ reg[p][g] # Null
      BY <2>2, <1>2
    <3>2. reg[p][g].waiter \in Thread
      BY <3>1 DEF Shape, Registration
    <3>3. reg[p][g].waiter # t
      BY <3>1, <1>4 DEF Registered, Nulls
    <3>4. QED
      BY <3>1, <3>2, <3>3, <1>3 DEF Registered
  <2>3. QED
    BY <2>1, <2>2
<1>9. Buffered'
  BY <1>3, <1>4 DEF Buffered, Shape
<1>10. SleeperRegistered'
  <2> SUFFICES ASSUME NEW u \in Thread, th'[u].pc = "sleep", NEW p \in th'[u].ints
               PROVE  /\ reg'[p][th'[u].fd] # Null /\ reg'[p][th'[u].fd].waiter = u
                      /\ ~reg'[p][th'[u].fd].armed => \E q \in Poller : <<q, u>> \in buf'
    BY DEF SleeperRegistered
  <2>1. CASE u = t
    BY <2>1, <1>1, <1>2, <1>3
  <2>2. CASE u # t
    <3>1. th'[u] = th[u] /\ th[u].fd \in Fd /\ p \in Poller /\ p \in th[u].ints
      BY <2>2, <1>3 DEF Threads, Shape, Caller
    <3>2. reg'[p][th[u].fd] = reg[p][th[u].fd]
      BY <3>1, <1>2, <1>5
    <3>3. QED
      BY <3>1, <3>2, <1>4 DEF SleeperRegistered
  <2>3. QED
    BY <2>1, <2>2
<1>11. QED
  BY <1>6, <1>7, <1>8, <1>9, <1>10

\* A turn of wait_and_fire_events() over registrations rg: those of the thread that calls it,
\* if it is one that ends its wait, are gone, and nobody else's are missing.
LEMMA FireKeeps ==
    ASSUME Nulls, Inv, NEW self, NEW rg \in [Poller -> [Fd -> Registration \cup {Null}]],
           self \in Thread => th[self].pc \in {"timeout", "interrupt"},
           \A p \in Poller, f \in Fd : rg[p][f] # Null => rg[p][f] = reg[p][f] /\ rg[p][f].waiter # self,
           \A p \in Poller, f \in Fd : reg[p][f] # Null /\ reg[p][f].waiter # self => rg[p][f] = reg[p][f],
           WaitAndFire(rg, self)
    PROVE  Inv'
<1> USE DEF Inv
<1>i. [pc |-> "run", fd |-> Null, ints |-> {}] \in Caller
  BY DEF Caller
<1>1. CASE buf # {}
  <2> DEFINE woken == {b[2] : b \in buf}
  <2>1. /\ reg' = RmInterest(rg, woken) /\ buf' = {}
        /\ th' = [t \in Thread |-> IF t = self THEN Idle
                                   ELSE IF t \in woken /\ th[t].pc \in {"sleep", "timeout"}
                                   THEN [th[t] EXCEPT !.pc = "fired"] ELSE th[t]]
    BY <1>1 DEF WaitAndFire
  <2>2. \A t \in woken : t \in Thread
    BY DEF Shape
  <2>e. \A b \in buf : b[2] \in woken
    OBVIOUS
  <2> HIDE DEF woken
  <2>3. \A p \in Poller, f \in Fd :
          reg'[p][f] = IF \E t \in woken : th[t].fd = f /\ p \in th[t].ints THEN Null ELSE rg[p][f]
    BY <2>1 DEF RmInterest
  <2>4. \A t \in Thread : /\ t = self => th'[t] = [pc |-> "run", fd |-> Null, ints |-> {}]
                          /\ t # self => /\ th'[t].fd = th[t].fd /\ th'[t].ints = th[t].ints
                                         /\ th'[t].pc = th[t].pc \/ (t \in woken /\ th'[t].pc = "fired" /\ th[t].pc # "run")
                                         /\ t \in woken => th'[t].pc # "sleep"
                          /\ th'[t] \in Caller
    <3> TAKE t \in Thread
    <3>1. CASE t = self
      BY <3>1, <2>1, <1>i DEF Idle
    <3>2. CASE t # self /\ t \in woken /\ th[t].pc \in {"sleep", "timeout"}
      <4>1. th'[t] = [th[t] EXCEPT !.pc = "fired"] /\ th[t] \in Caller
        BY <3>2, <2>1 DEF Shape
      <4>2. QED
        BY <3>2, <4>1 DEF Caller
    <3>3. CASE t # self /\ ~(t \in woken /\ th[t].pc \in {"sleep", "timeout"})
      <4>1. th'[t] = th[t] /\ th[t] \in Caller
        BY <3>3, <2>1 DEF Shape
      <4>2. QED
        BY <3>3, <4>1
    <3>4. QED
      BY <3>1, <3>2, <3>3
  <2>5. Shape'
    <3>1. \A p \in Poller : reg'[p] \in [Fd -> Registration \cup {Null}]
      BY <2>1 DEF RmInterest
    <3>2. reg' \in [Poller -> [Fd -> Registration \cup {Null}]]
      BY <2>1, <3>1 DEF RmInterest
    <3>3. th' \in [Thread -> Caller]
      BY <2>1, <2>4
    <3>4. QED
      BY <2>1, <3>2, <3>3 DEF Shape
  <2>6. Threads'
    <3>1. ASSUME NEW t \in Thread PROVE IF th'[t].pc = "run" THEN th'[t].fd = Null ELSE th'[t].fd \in Fd
      BY <2>4 DEF Threads
    <3>2. ASSUME NEW t \in Thread, NEW u \in Thread, t # u, th'[t].fd \in Fd, th'[t].fd = th'[u].fd
          PROVE  th'[t].ints \cap th'[u].ints = {}
      <4>1. t # self /\ u # self
        BY <3>2, <2>4 DEF Nulls
      <4>2. QED
        BY <3>2, <4>1, <2>4 DEF Threads
    <3>3. QED
      BY <3>1, <3>2 DEF Threads
  <2>7. Registered'
    <3> SUFFICES ASSUME NEW p \in Poller, NEW f \in Fd, reg'[p][f] # Null
                 PROVE  LET w == reg'[p][f].waiter IN th'[w].fd = f /\ p \in th'[w].ints /\ th'[w].pc # "fired"
      BY DEF Registered
    <3>1. reg'[p][f] = reg[p][f] /\ reg[p][f] # Null /\ reg[p][f].waiter # self
          /\ ~\E t \in woken : th[t].fd = f /\ p \in th[t].ints
      BY <2>3
    <3> DEFINE w == reg[p][f].waiter
    <3>2. w \in Thread
      BY <3>1 DEF Shape, Registration
    <3>3. th[w].fd = f /\ p \in th[w].ints /\ th[w].pc # "fired"
      BY <3>1 DEF Registered
    <3>4. w \notin woken
      BY <3>1, <3>3
    <3>5. QED
      BY <3>1, <3>2, <3>3, <3>4, <2>4
  <2>8. Buffered'
    BY <2>1 DEF Buffered
  <2>9. SleeperRegistered'
    <3> SUFFICES ASSUME NEW u \in Thread, th'[u].pc = "sleep", NEW p \in th'[u].ints
                 PROVE  /\ reg'[p][th'[u].fd] # Null /\ reg'[p][th'[u].fd].waiter = u
                        /\ ~reg'[p][th'[u].fd].armed => \E q \in Poller : <<q, u>> \in buf'
      BY DEF SleeperRegistered
    <3>1. u # self /\ u \notin woken /\ th[u].pc = "sleep" /\ th'[u].fd = th[u].fd /\ p \in th[u].ints
      BY <2>4
    <3>2. th[u].fd \in Fd /\ p \in Poller
      BY <3>1 DEF Threads, Shape, Caller
    <3>3. /\ reg[p][th[u].fd] # Null /\ reg[p][th[u].fd].waiter = u
          /\ ~reg[p][th[u].fd].armed => \E q \in Poller : <<q, u>> \in buf
      BY <3>1 DEF SleeperRegistered
    <3>4. \A q \in Poller : <<q, u>> \notin buf
      BY <3>1, <2>e
    <3>5. \A t \in woken : ~(th[t].fd = th[u].fd /\ p \in th[t].ints)
      BY <3>1, <3>2, <2>2 DEF Threads
    <3>6. reg'[p][th[u].fd] = reg[p][th[u].fd]
      BY <3>1, <3>2, <3>3, <3>5, <2>3
    <3>7. QED
      BY <3>1, <3>3, <3>4, <3>6
  <2>10. QED
    BY <2>5, <2>6, <2>7, <2>8, <2>9
<1>2. CASE buf = {}
  <2>1. /\ buf' = {<<x[1], rg[x[1]][x[2]].waiter>> : x \in Reported(rg)}
        /\ reg' = [p \in Poller |-> [f \in Fd |->
                     IF <<p, f>> \in Reported(rg) THEN [rg[p][f] EXCEPT !.armed = FALSE] ELSE rg[p][f]]]
        /\ th' = [t \in Thread |-> IF t = self THEN Idle ELSE th[t]]
    BY <1>2 DEF WaitAndFire
  <2>2. \A x \in Reported(rg) : x[1] \in Poller /\ x[2] \in Fd /\ rg[x[1]][x[2]] # Null
    BY DEF Reported
  <2>3. \A r \in Registration : /\ [r EXCEPT !.armed = FALSE] \in Registration
                                /\ [r EXCEPT !.armed = FALSE].waiter = r.waiter
    BY DEF Registration
  <2>4. ASSUME NEW p \in Poller, NEW f \in Fd
        PROVE  /\ reg'[p][f] \in Registration \cup {Null}
               /\ rg[p][f] = Null => reg'[p][f] = Null
               /\ rg[p][f] # Null => reg'[p][f] # Null
               /\ rg[p][f] # Null => reg'[p][f].waiter = rg[p][f].waiter
               /\ <<p, f>> \notin Reported(rg) => reg'[p][f] = rg[p][f]
    <3>1. CASE <<p, f>> \in Reported(rg)
      <4>1. rg[p][f] \in Registration
        BY <3>1, <2>2
      <4>2. reg'[p][f] = [rg[p][f] EXCEPT !.armed = FALSE]
        BY <3>1, <2>1
      <4>3. QED
        BY <3>1, <4>1, <4>2, <2>3 DEF Nulls
    <3>2. CASE <<p, f>> \notin Reported(rg)
      BY <3>2, <2>1
    <3>3. QED
      BY <3>1, <3>2
  <2>5. \A t \in Thread : /\ t = self => th'[t] = [pc |-> "run", fd |-> Null, ints |-> {}]
                          /\ t # self => th'[t] = th[t]
                          /\ th'[t] \in Caller
    BY <2>1, <1>i DEF Idle, Shape
  <2>6. \A p \in Poller, f \in Fd : rg[p][f] # Null => rg[p][f].waiter \in Thread
    BY DEF Registration
  <2>7. Shape'
    <3>1. \A p \in Poller : reg'[p] \in [Fd -> Registration \cup {Null}]
      <4> TAKE p \in Poller
      <4>1. reg'[p] = [f \in Fd |->
                        IF <<p, f>> \in Reported(rg) THEN [rg[p][f] EXCEPT !.armed = FALSE] ELSE rg[p][f]]
        BY <2>1
      <4>2. \A f \in Fd : reg'[p][f] \in Registration \cup {Null}
        BY <2>4
      <4>3. QED
        BY <4>1, <4>2
    <3>2. reg' \in [Poller -> [Fd -> Registration \cup {Null}]]
      BY <2>1, <3>1
    <3>3. th' \in [Thread -> Caller]
      BY <2>1, <2>5
    <3>4. buf' \in SUBSET (Poller \X Thread)
      BY <2>1, <2>2, <2>6
    <3>5. QED
      BY <3>2, <3>3, <3>4 DEF Shape
  <2>8. Threads'
    <3>1. ASSUME NEW t \in Thread PROVE IF th'[t].pc = "run" THEN th'[t].fd = Null ELSE th'[t].fd \in Fd
      BY <2>5 DEF Threads
    <3>2. ASSUME NEW t \in Thread, NEW u \in Thread, t # u, th'[t].fd \in Fd, th'[t].fd = th'[u].fd
          PROVE  th'[t].ints \cap th'[u].ints = {}
      <4>1. t # self /\ u # self
        BY <3>2, <2>5 DEF Nulls
      <4>2. QED
        BY <3>2, <4>1, <2>5 DEF Threads
    <3>3. QED
      BY <3>1, <3>2 DEF Threads
  <2>9. Registered'
    <3> SUFFICES ASSUME NEW p \in Poller, NEW f \in Fd, reg'[p][f] # Null
                 PROVE  LET w == reg'[p][f].waiter IN th'[w].fd = f /\ p \in th'[w].ints /\ th'[w].pc # "fired"
      BY DEF Registered
    <3>1. rg[p][f] # Null /\ reg'[p][f].waiter = rg[p][f].waiter
      BY <2>4
    <3>2. /\ reg[p][f] # Null /\ reg[p][f].waiter # self /\ reg[p][f].waiter \in Thread
          /\ reg'[p][f].waiter = reg[p][f].waiter
      BY <3>1, <2>6
    <3>3. QED
      BY <3>2, <2>5 DEF Registered
  <2>10. Buffered'
    <3> SUFFICES ASSUME NEW x \in Reported(rg) PROVE th'[rg[x[1]][x[2]].waiter].pc \notin {"run", "fired"}
      BY <2>1 DEF Buffered
    <3> DEFINE w == rg[x[1]][x[2]].waiter
    <3>1. /\ x[1] \in Poller /\ x[2] \in Fd /\ w # self /\ w \in Thread
          /\ reg[x[1]][x[2]] # Null /\ w = reg[x[1]][x[2]].waiter
      BY <2>2, <2>6
    <3>2. th[w].fd = x[2] /\ th[w].pc # "fired"
      BY <3>1 DEF Registered
    <3>3. th[w].pc # "run"
      BY <3>1, <3>2 DEF Threads, Nulls
    <3>4. QED
      BY <3>1, <3>2, <3>3, <2>5
  <2>11. SleeperRegistered'
    <3> SUFFICES ASSUME NEW u \in Thread, th'[u].pc = "sleep", NEW p \in th'[u].ints
                 PROVE  /\ reg'[p][th'[u].fd] # Null /\ reg'[p][th'[u].fd].waiter = u
                        /\ ~reg'[p][th'[u].fd].armed => \E q \in Poller : <<q, u>> \in buf'
      BY DEF SleeperRegistered
    <3> DEFINE f == th[u].fd
    <3>1. u # self /\ th[u].pc = "sleep" /\ th'[u] = th[u] /\ p \in th[u].ints
      BY <2>5
    <3>2. f \in Fd /\ p \in Poller
      BY <3>1 DEF Threads, Shape, Caller
    <3>3. reg[p][f] # Null /\ reg[p][f].waiter = u /\ reg[p][f].armed
      BY <1>2, <3>1 DEF SleeperRegistered
    <3>4. rg[p][f] = reg[p][f]
      BY <3>1, <3>2, <3>3
    <3> HIDE DEF f
    <3>5. reg'[p][f] # Null /\ reg'[p][f].waiter = u
      <4>1. rg[p][f] # Null /\ rg[p][f].waiter = u
        BY <3>3, <3>4
      <4>2. QED
        BY <3>2, <4>1, <2>4
    <3>6. CASE <<p, f>> \in Reported(rg)
      <4>1. <<p, u>> \in buf'
        BY <3>3, <3>4, <3>6, <2>1
      <4>2. QED
        BY <3>1, <3>2, <3>5, <4>1 DEF f
    <3>7. CASE <<p, f>> \notin Reported(rg)
      <4>1. reg'[p][f] = reg[p][f]
        BY <3>2, <3>4, <3>7, <2>4
      <4>2. QED
        BY <3>1, <3>3, <3>5, <4>1 DEF f
    <3>8. QED
      BY <3>6, <3>7
  <2>12. QED
    BY <2>7, <2>8, <2>9, <2>10, <2>11
<1>3. QED
  BY <1>1, <1>2

\* Neither the buffers nor the pollers of the epoll-ng engine ever lead to a waiter whose
\* wait_for_fd() has returned, and a thread that sleeps there is still known to the pollers
\* of all it waits for, or is about to be notified.
THEOREM WaitersLive == ASSUME Nulls PROVE Spec => [](WaitersAlive /\ SleeperRegistered)
<1>1. Init => Inv
  BY DEF Init, Inv, Shape, Threads, Registered, Buffered, SleeperRegistered, Idle, Caller
<1>2. ASSUME Inv, [Next]_vars PROVE Inv'
  <2> USE <1>2 DEF Inv
  <2>1. ASSUME NEW t \in Thread, SleepEnds(t) PROVE Inv'
    <3>1. /\ \A u \in Thread : u # t => th'[u] = th[u]
          /\ th[t].pc = "sleep" /\ th'[t].pc \in {"timeout", "interrupt"}
          /\ th'[t].fd = th[t].fd /\ th'[t].ints = th[t].ints
          /\ th' \in [Thread -> Caller] /\ reg' = reg /\ buf' = buf
      BY <2>1 DEF SleepEnds, Shape, Caller
    <3>2. Shape' /\ Threads' /\ Registered'
      BY <3>1 DEF Shape, Threads, Registered, Registration
    <3>3. Buffered'
      BY <3>1 DEF Shape, Buffered
    <3>4. SleeperRegistered'
      BY <3>1 DEF SleeperRegistered
    <3>5. QED
      BY <3>2, <3>3, <3>4
  <2>2. ASSUME NEW t \in Thread, Fired(t) PROVE Inv'
    <3>1. /\ \A u \in Thread : u # t => th'[u] = th[u]
          /\ th[t].pc = "fired" /\ th'[t] = [pc |-> "run", fd |-> Null, ints |-> {}]
          /\ th' \in [Thread -> Caller] /\ reg' = reg /\ buf' = buf
      BY <2>2 DEF Fired, Shape, Caller, Idle
    <3>2. Shape' /\ Threads'
      BY <3>1 DEF Shape, Threads, Nulls
    <3>3. Registered'
      BY <3>1 DEF Registered, Shape, Registration
    <3>4. Buffered'
      BY <3>1 DEF Shape, Buffered
    <3>5. SleeperRegistered'
      BY <3>1 DEF SleeperRegistered
    <3>6. QED
      BY <3>2, <3>3, <3>4, <3>5
  <2>3. ASSUME NEW t \in Thread, Ended(t) PROVE Inv'
    <3> DEFINE rg == RmInterest(reg, {t})
    <3>1. \A p \in Poller, f \in Fd : rg[p][f] = IF th[t].fd = f /\ p \in th[t].ints THEN Null ELSE reg[p][f]
      BY DEF RmInterest
    <3>2. rg \in [Poller -> [Fd -> Registration \cup {Null}]]
      BY DEF RmInterest, Shape
    <3>3. th[t].pc \in {"timeout", "interrupt"} /\ WaitAndFire(rg, t)
      BY <2>3 DEF Ended
    <3> HIDE DEF rg
    <3>4. \A p \in Poller, f \in Fd : rg[p][f] # Null => rg[p][f] = reg[p][f] /\ rg[p][f].waiter # t
      BY <3>1 DEF Registered
    <3>5. ASSUME NEW p \in Poller, NEW f \in Fd, reg[p][f] # Null, reg[p][f].waiter # t
          PROVE  rg[p][f] = reg[p][f]
      <4> DEFINE w == reg[p][f].waiter
      <4>1. w \in Thread /\ th[w].fd = f /\ p \in th[w].ints
        BY <3>5 DEF Registered, Shape, Registration
      <4>2. ~(th[t].fd = f /\ p \in th[t].ints)
        BY <3>5, <4>1 DEF Threads
      <4>3. QED
        BY <3>1, <4>2
    <3>6. QED
      BY <3>2, <3>3, <3>4, <3>5, FireKeeps
  <2>4. ASSUME NEW t \in Thread, NEW f \in Fd, NEW ints \in SUBSET Poller \ {{}}, WaitForFd(t, f, ints)
        PROVE  Inv'
    BY <2>4, WaitForFdKeeps
  <2>5. CASE IdleLoop
    <3>1. \A p \in Poller, f \in Fd : reg[p][f] # Null => reg[p][f].waiter # Null
      BY DEF Shape, Registration, Nulls
    <3>2. WaitAndFire(reg, Null) /\ Null \notin Thread /\ reg \in [Poller -> [Fd -> Registration \cup {Null}]]
      BY <2>5 DEF IdleLoop, Shape, Nulls
    <3>3. QED
      BY <3>1, <3>2, FireKeeps
  <2>6. CASE UNCHANGED <<reg, buf, th>>
    <3>1. Shape' /\ Threads' /\ Registered'
      BY <2>6 DEF Shape, Threads, Registered
    <3>2. Buffered'
      BY <2>6 DEF Buffered
    <3>3. SleeperRegistered'
      BY <2>6 DEF SleeperRegistered
    <3>4. QED
      BY <3>1, <3>2, <3>3
  <2>7. QED
    BY <2>1, <2>2, <2>3, <2>4, <2>5, <2>6 DEF Next, Changes, vars
<1>3. Inv => WaitersAlive /\ SleeperRegistered
  BY DEF Inv, Buffered, Registered, WaitersAlive
<1>4. QED
  BY <1>1, <1>2, <1>3, PTL DEF Spec
============================================================================
