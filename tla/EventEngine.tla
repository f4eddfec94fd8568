---------------------------- MODULE EventEngine ----------------------------
(***************************************************************************)
(* The epoll master event engine (io/epoll.cpp): threads of one vCPU wait  *)
(* for an event of a descriptor, the idle loop reaps the kernel's events   *)
(* and interrupts the waiters.  The engine keeps in _inflight_events which *)
(* interests it has registered and for whom; the kernel (external) keeps   *)
(* one registration per descriptor, disarmed by every report (ONE_SHOT).   *)
(***************************************************************************)
EXTENDS Naturals, FiniteSets, TLAPS

CONSTANTS Thread, Fd, Null,
          Shared   \* several threads wait for the same event of a descriptor

VARIABLES entry,  \* _inflight_events
          ker,    \* the kernel's registration of a descriptor, and its state
          th      \* the threads of the vCPU

vars == <<entry, ker, th>>

Interest == {"read", "write", "error"}

Event == {"in", "out", "err", "hup"}

\* evmap.translate_bitwisely(), and the events the kernel reports whatever was asked for.
Mask(ints) ==
    {"err", "hup"} \cup (IF "read" \in ints THEN {"in"} ELSE {})
                   \cup (IF "write" \in ints THEN {"out"} ELSE {})

\* ERRBIT, READBITS and WRITEBITS: the reported events that fire an interest.
Bits == [read |-> {"in", "err", "hup"}, write |-> {"out", "err", "hup"}, error |-> {"err"}]

NoEntry == [ints |-> {}, shot |-> FALSE, data |-> [i \in Interest |-> Null]]

NoReg == [reg |-> FALSE, mask |-> {}, armed |-> FALSE]

Idle == [pc |-> "run", fd |-> Null, int |-> Null]

Init ==
    /\ entry = [f \in Fd |-> NoEntry]
    /\ ker = [f \in Fd |-> [k |-> NoReg, ready |-> {}]]
    /\ th = [t \in Thread |-> Idle]

\* epoll_ctl(EPOLL_CTL_ADD or MOD): registered and armed for the events.
Ctl(k, ints) == [k EXCEPT !.k = [reg |-> TRUE, mask |-> Mask(ints), armed |-> TRUE]]

----------------------------------------------------------------------------
\* add_interest() refuses an interest that is registered for other data.
Conflict(e, i, t) == i \in e.ints /\ e.data[i] # t

\* wait_for_fd(): add_interest(ONE_SHOT) - EPOLL_CTL_MOD, or EPOLL_CTL_ADD when the entry is
\* empty or the kernel knows the descriptor no longer - and sleep.
WaitForFd(t, f, i) ==
    /\ th[t].pc = "run" /\ ~Conflict(entry[f], i, t)
    /\ Shared \/ \A u \in Thread : ~(th[u].fd = f /\ th[u].int = i)
    /\ ker' = [ker EXCEPT ![f] = Ctl(@, entry[f].ints \cup {i})]
    /\ entry' = [entry EXCEPT ![f] = [ints |-> @.ints \cup {i}, shot |-> TRUE,
                                      data |-> [@.data EXCEPT ![i] = t]]]
    /\ th' = [th EXCEPT ![t] = [pc |-> "sleep", fd |-> f, int |-> i]]

\* rm_interest(): with interests left the kernel's registration is changed, and armed; with
\* only ONE_SHOT left it stays as it is.
RmInterest(e, gone) ==
    [e EXCEPT !.ints = @ \ gone, !.data = [i \in Interest |-> IF i \in gone THEN Null ELSE @[i]]]

\* fault: what is left of a descriptor's interests is not armed again
RmCtlNot(k, e, gone) == k

RmCtl(k, e, gone) ==
    IF e.ints \cap gone = {} \/ e.ints \ gone = {} THEN k ELSE Ctl(k, e.ints \ gone)

Reported(f) == ker[f].ready \cap ker[f].k.mask

\* wait_and_fire_events() for one reported descriptor: every interest it fires wakes its
\* thread with EOK - or makes EOK the result of a sleep that timed out and has no result
\* yet, thread_interrupt() - and is removed.
Fire(f) ==
    LET fired == {i \in entry[f].ints : Bits[i] \cap Reported(f) # {}}
        woken == {entry[f].data[i] : i \in fired}
        disarmed == [ker[f] EXCEPT !.k.armed = FALSE]
    IN
    /\ ker[f].k.reg /\ ker[f].k.armed /\ Reported(f) # {}
    /\ th' = [t \in Thread |-> IF t \in woken /\ th[t].pc \in {"sleep", "timeout"}
                               THEN [th[t] EXCEPT !.pc = "fired"] ELSE th[t]]
    /\ ker' = [ker EXCEPT ![f] = RmCtl(disarmed, entry[f], fired)]
    /\ entry' = [entry EXCEPT ![f] = RmInterest(@, fired)]

\* The sleep of wait_for_fd() ends otherwise: its deadline, or another thread interrupts.
SleepEnds(t) ==
    /\ th[t].pc = "sleep"
    /\ \E how \in {"timeout", "interrupt"} : th' = [th EXCEPT ![t].pc = how]
    /\ UNCHANGED <<entry, ker>>

\* fault: the interest of a wait that timed out stays
ReturnUnremoved(t) ==
    /\ th[t].pc \in {"fired", "timeout", "interrupt"}
    /\ th' = [th EXCEPT ![t] = Idle]
    /\ UNCHANGED <<entry, ker>>

\* wait_for_fd() returns 0 after EOK, and otherwise removes its interest and returns -1.
Return(t) ==
    LET f == th[t].fd
        gone == IF th[t].pc = "fired" THEN {} ELSE {th[t].int}
    IN
    /\ th[t].pc \in {"fired", "timeout", "interrupt"}
    /\ ker' = [ker EXCEPT ![f] = RmCtl(@, entry[f], gone)]
    /\ entry' = [entry EXCEPT ![f] = RmInterest(@, gone)]
    /\ th' = [th EXCEPT ![t] = Idle]

\* A descriptor nobody waits for is closed and its number used again: the kernel forgets the
\* registration, the entry stays unless wait_for_fd(fd, 0) removed it.
CloseFd(f) ==
    /\ \A t \in Thread : th[t].fd # f
    /\ ker' = [ker EXCEPT ![f] = [k |-> NoReg, ready |-> {}]]
    /\ entry' \in {entry, [entry EXCEPT ![f] = NoEntry]}
    /\ th' = th

\* The peer and the kernel change what a descriptor is ready for; a hang-up is for good.
Changes(f) ==
    /\ \/ \E e \in Event : ker' = [ker EXCEPT ![f].ready = @ \cup {e}]
       \/ \E e \in Event \ {"hup"} : ker' = [ker EXCEPT ![f].ready = @ \ {e}]
    /\ UNCHANGED <<entry, th>>

Next ==
    \/ \E t \in Thread : SleepEnds(t) \/ Return(t) \/ \E f \in Fd, i \in Interest : WaitForFd(t, f, i)
    \/ \E f \in Fd : Fire(f) \/ CloseFd(f) \/ Changes(f)

Spec == Init /\ [][Next]_vars

FairSpec == Spec /\ (\A f \in Fd : WF_vars(Fire(f))) /\ (\A t \in Thread : WF_vars(Return(t)))

----------------------------------------------------------------------------
\* A thread that sleeps in wait_for_fd() is registered: the entry leads to it, and the kernel
\* is armed for its event, whatever fired for, timed out on or was added to the descriptor -
\* but for a wait for errors after a hang-up, which fires nothing and disarms.
WaiterArmed ==
    \A t \in Thread : th[t].pc = "sleep" =>
       LET f == th[t].fd IN
       /\ th[t].int \in entry[f].ints /\ entry[f].data[th[t].int] = t
       /\ \/ ker[f].k.reg /\ ker[f].k.armed /\ Mask({th[t].int}) \subseteq ker[f].k.mask
          \/ th[t].int = "error" /\ "hup" \in ker[f].ready

\* An entry leads only to a thread that is in wait_for_fd() for that very event: no other
\* sleep of a thread is ended by a stale registration.
EntryLeadsToWaiter ==
    \A f \in Fd : \A i \in entry[f].ints :
       entry[f].data[i] \in Thread /\ th[entry[f].data[i]].fd = f /\ th[entry[f].data[i]].int = i

\* Whoever waits for an event that is there and stays is woken.
Due(t) ==
    /\ th[t].pc = "sleep" /\ ker[th[t].fd].ready \cap Bits[th[t].int] # {}
    /\ th[t].int = "error" => "hup" \notin ker[th[t].fd].ready
Settled(t) ==
    th[t].pc = "sleep" => LET ready == ker[th[t].fd].ready IN
                          ready \cap Bits[th[t].int] = {} \/ "hup" \in ready
ReadyWakes == \A t \in Thread : Due(t) ~> Settled(t)
----------------------------------------------------------------------------
(* The proof that waiters stay armed, for any number of threads and        *)
(* descriptors, when an event of a descriptor has one waiter at a time.    *)

Waits == {"sleep", "fired", "timeout", "interrupt"}

Threads ==
    /\ th \in [Thread -> [pc : Waits \cup {"run"}, fd : Fd \cup {Null}, int : Interest \cup {Null}]]
    /\ \A t \in Thread : th[t].pc \in Waits => th[t].fd \in Fd /\ th[t].int \in Interest
    /\ \A t \in Thread : th[t].pc = "run" => th[t].fd = Null
    /\ \A t, u \in Thread : th[t].pc \in Waits /\ th[t].fd = th[u].fd /\ th[t].int = th[u].int => t = u

Entry == [ints : SUBSET Interest, shot : BOOLEAN, data : [Interest -> Thread \cup {Null}]]
Registration == [k : [reg : BOOLEAN, mask : SUBSET Event, armed : BOOLEAN], ready : SUBSET Event]
Tables == entry \in [Fd -> Entry] /\ ker \in [Fd -> Registration]

\* The kernel is asked for what the entry says; it is armed, unless a hang-up has been reported
\* to an entry with nothing but a wait for errors.
Asked(k, e) ==
    e.ints # {} => /\ k.k.reg = TRUE /\ k.k.mask = Mask(e.ints)
                   /\ k.k.armed = TRUE \/ (e.ints = {"error"} /\ "hup" \in k.ready)

KernelAsked == \A f \in Fd : Asked(ker[f], entry[f])

SleeperEntered ==
    \A t \in Thread : th[t].pc = "sleep" =>
       th[t].int \in entry[th[t].fd].ints /\ entry[th[t].fd].data[th[t].int] = t

FiredRemoved == \A t \in Thread : th[t].pc = "fired" => th[t].int \notin entry[th[t].fd].ints

Inv == Threads /\ Tables /\ KernelAsked /\ SleeperEntered /\ FiredRemoved /\ EntryLeadsToWaiter

\* epoll_ctl() asks the kernel for what it is told to.
LEMMA CtlAsks == ASSUME NEW k \in Registration, NEW ints \in SUBSET Interest
                 PROVE  /\ Ctl(k, ints) \in Registration
                        /\ Ctl(k, ints).k.reg = TRUE /\ Ctl(k, ints).k.armed = TRUE
                        /\ Ctl(k, ints).k.mask = Mask(ints) /\ Ctl(k, ints).ready = k.ready
<1>1. Mask(ints) \in SUBSET Event
  BY DEF Mask, Event
<1>2. [reg |-> TRUE, mask |-> Mask(ints), armed |-> TRUE] \in
        [reg : BOOLEAN, mask : SUBSET Event, armed : BOOLEAN]
  BY <1>1
<1>3. QED
  BY <1>1, <1>2 DEF Ctl, Registration

\* rm_interest() leaves the kernel asked for what is left.
LEMMA RmKeepsAsked == ASSUME NEW k \in Registration, NEW e \in Entry, NEW gone \in SUBSET Interest,
                             Asked(k, e) \/ e.ints \cap gone # {}
                      PROVE  /\ Asked(RmCtl(k, e, gone), RmInterest(e, gone))
                             /\ RmCtl(k, e, gone) \in Registration
                             /\ RmInterest(e, gone) \in Entry
                             /\ RmInterest(e, gone).ints = e.ints \ gone
                             /\ \A i \in Interest \ gone : RmInterest(e, gone).data[i] = e.data[i]
<1> DEFINE d == [i \in Interest |-> IF i \in gone THEN Null ELSE e.data[i]]
<1>1. d \in [Interest -> Thread \cup {Null}] /\ \A i \in Interest \ gone : d[i] = e.data[i]
  BY DEF Entry
<1>2. RmInterest(e, gone) = [e EXCEPT !.ints = e.ints \ gone, !.data = d]
  BY DEF RmInterest, Entry
<1>3. RmInterest(e, gone) = [ints |-> e.ints \ gone, shot |-> e.shot, data |-> d]
  BY <1>2 DEF Entry
<1>4. RmInterest(e, gone) \in Entry
  <2> HIDE DEF d
  <2> QED BY <1>1, <1>3 DEF Entry
<1>5. RmInterest(e, gone).ints = e.ints \ gone /\ RmInterest(e, gone).data = d
  BY <1>3
<1>6. e.ints \ gone \in SUBSET Interest
  BY DEF Entry
<1>7. CASE e.ints \cap gone = {}
  <2>1. e.ints \ gone = e.ints /\ RmCtl(k, e, gone) = k
    BY <1>7 DEF RmCtl
  <2>2. QED
    BY <1>1, <1>4, <1>5, <1>7, <2>1 DEF Asked
<1>8. CASE e.ints \ gone = {}
  BY <1>1, <1>4, <1>5, <1>8 DEF Asked, RmCtl
<1>9. CASE e.ints \cap gone # {} /\ e.ints \ gone # {}
  <2>1. RmCtl(k, e, gone) = Ctl(k, e.ints \ gone)
    BY <1>9 DEF RmCtl
  <2> DEFINE left == e.ints \ gone
  <2>2. left \in SUBSET Interest
    BY <1>6
  <2> HIDE DEF left
  <2>3. /\ Ctl(k, left) \in Registration /\ Ctl(k, left).k.reg = TRUE /\ Ctl(k, left).k.armed = TRUE
        /\ Ctl(k, left).k.mask = Mask(left)
    BY <2>2, CtlAsks
  <2>4. Asked(RmCtl(k, e, gone), RmInterest(e, gone)) /\ RmCtl(k, e, gone) \in Registration
    BY <1>5, <2>1, <2>3 DEF Asked, left
  <2>5. QED
    BY <1>1, <1>4, <1>5, <2>4
<1>10. QED
  BY <1>7, <1>8, <1>9

\* wait_for_fd() asks for its event besides what others wait for.
LEMMA WaitForFdKeeps == ASSUME ~Shared, Null \notin Fd, Inv, NEW t \in Thread, NEW f \in Fd,
                               NEW i \in Interest, WaitForFd(t, f, i)
                        PROVE  Inv'
<1> USE DEF Inv
<1> DEFINE e == [ints |-> entry[f].ints \cup {i}, shot |-> TRUE, data |-> [entry[f].data EXCEPT ![i] = t]]
           k == Ctl(ker[f], entry[f].ints \cup {i})
<1>1. entry[f] \in Entry /\ ker[f] \in Registration
  BY DEF Tables
<1>2. entry[f].ints \cup {i} \in SUBSET Interest /\ [entry[f].data EXCEPT ![i] = t] \in [Interest -> Thread \cup {Null}]
  BY <1>1 DEF Entry
<1>3. e \in Entry
  BY <1>2 DEF Entry
<1>4. k \in Registration /\ Asked(k, e)
  BY <1>1, <1>2, CtlAsks DEF Asked
<1>5. entry' = [entry EXCEPT ![f] = e] /\ ker' = [ker EXCEPT ![f] = k]
  BY DEF WaitForFd
<1>6. th' = [th EXCEPT ![t] = [pc |-> "sleep", fd |-> f, int |-> i]] /\ th[t].pc = "run"
  BY DEF WaitForFd
<1>7. e.ints = entry[f].ints \cup {i} /\ e.data[i] = t
      /\ \A j \in Interest : j # i => e.data[j] = entry[f].data[j]
  BY <1>1 DEF Entry
<1>8. \A u \in Thread : ~(th[u].fd = f /\ th[u].int = i)
  BY DEF WaitForFd
<1> HIDE DEF e, k
<1>9. Tables'
  BY <1>3, <1>4, <1>5 DEF Tables
<1>10. KernelAsked'
  BY <1>4, <1>5 DEF KernelAsked, Tables
<1>11. Threads'
  BY <1>6, <1>8 DEF Threads, Waits
<1>12. th'[t] = [pc |-> "sleep", fd |-> f, int |-> i] /\ \A u \in Thread : u # t => th'[u] = th[u]
  BY <1>6 DEF Threads
<1>13. entry'[f] = e /\ \A g \in Fd : g # f => entry'[g] = entry[g]
  BY <1>5 DEF Tables
<1>14. SleeperEntered'
  BY <1>7, <1>8, <1>12, <1>13 DEF SleeperEntered, Threads, Waits
<1>15. FiredRemoved'
  BY <1>7, <1>8, <1>12, <1>13 DEF FiredRemoved, Threads, Waits
<1>16. EntryLeadsToWaiter'
  <2>1. \A g \in Fd : \A j \in entry[g].ints : entry[g].data[j] # t
    BY <1>6 DEF EntryLeadsToWaiter, Threads
  <2>2. \A g \in Fd : entry[g].ints \subseteq Interest
    BY DEF Tables, Entry
  <2>3. QED
    BY <1>7, <1>12, <1>13, <2>1, <2>2 DEF EntryLeadsToWaiter
<1>17. QED
  BY <1>9, <1>10, <1>11, <1>14, <1>15, <1>16

\* What a report does not wake stays armed: it is armed again with what is left, or nothing
\* fired, and then it was a hang-up for a wait for errors.
LEMMA FireKeeps == ASSUME Inv, NEW f \in Fd, Fire(f) PROVE Inv'
<1> USE DEF Inv
<1> DEFINE fired == {i \in entry[f].ints : Bits[i] \cap Reported(f) # {}}
           disarmed == [ker[f] EXCEPT !.k.armed = FALSE]
           woken == {entry[f].data[i] : i \in fired}
<1>1. entry[f] \in Entry /\ ker[f] \in Registration
  BY DEF Tables
<1>2. disarmed \in Registration /\ disarmed.k.reg = ker[f].k.reg /\ disarmed.k.mask = ker[f].k.mask
      /\ disarmed.ready = ker[f].ready
  BY <1>1 DEF Registration
<1>3. fired \in SUBSET Interest /\ fired \subseteq entry[f].ints
  BY <1>1 DEF Entry
<1>4. Reported(f) # {} /\ Reported(f) \subseteq ker[f].ready /\ Reported(f) \subseteq ker[f].k.mask
  BY DEF Fire, Reported
<1>5. Asked(disarmed, entry[f]) \/ entry[f].ints \cap fired # {}
  <2> SUFFICES ASSUME fired = {}, entry[f].ints # {} PROVE Asked(disarmed, entry[f])
    BY <1>3 DEF Asked
  <2>1. ker[f].k.reg = TRUE /\ ker[f].k.mask = Mask(entry[f].ints)
    BY DEF KernelAsked, Asked
  <2>2. \A i \in entry[f].ints : Bits[i] \cap Reported(f) = {}
    OBVIOUS
  <2>3. "err" \notin Reported(f)
    BY <1>1, <2>2 DEF Entry, Interest, Bits
  <2>4. "in" \notin Reported(f)
    BY <1>4, <2>1, <2>2 DEF Mask, Bits
  <2>5. "out" \notin Reported(f)
    BY <1>4, <2>1, <2>2 DEF Mask, Bits
  <2>6. "hup" \in Reported(f)
    BY <1>1, <1>4, <2>3, <2>4, <2>5 DEF Registration, Event
  <2>7. entry[f].ints = {"error"}
    BY <1>1, <2>2, <2>6 DEF Entry, Interest, Bits
  <2>8. QED
    BY <1>2, <1>4, <2>1, <2>6, <2>7 DEF Asked
<1> DEFINE e == RmInterest(entry[f], fired)
           k == RmCtl(disarmed, entry[f], fired)
<1>6. /\ Asked(k, e) /\ k \in Registration /\ e \in Entry /\ e.ints = entry[f].ints \ fired
      /\ \A i \in Interest \ fired : e.data[i] = entry[f].data[i]
  <2> HIDE DEF fired, disarmed
  <2> QED BY <1>1, <1>2, <1>3, <1>5, RmKeepsAsked
<1>7. entry' = [entry EXCEPT ![f] = e] /\ ker' = [ker EXCEPT ![f] = k]
  BY DEF Fire
<1>8. th' = [t \in Thread |-> IF t \in woken /\ th[t].pc \in {"sleep", "timeout"}
                               THEN [th[t] EXCEPT !.pc = "fired"] ELSE th[t]]
  BY DEF Fire
<1>9. \A t \in woken : t \in Thread /\ th[t].fd = f /\ th[t].int \in fired
  BY <1>3 DEF EntryLeadsToWaiter
<1>w. \A i \in fired : entry[f].data[i] \in woken
  OBVIOUS
<1> HIDE DEF e, k, fired, disarmed, woken
<1>10. Tables' /\ KernelAsked'
  BY <1>6, <1>7 DEF Tables, KernelAsked
<1>11. \A t \in Thread : /\ th'[t].fd = th[t].fd /\ th'[t].int = th[t].int
                         /\ th'[t].pc \in Waits <=> th[t].pc \in Waits
                         /\ th'[t].pc = "run" <=> th[t].pc = "run"
                         /\ th'[t] \in [pc : Waits \cup {"run"}, fd : Fd \cup {Null}, int : Interest \cup {Null}]
  BY <1>8 DEF Threads, Waits
<1>12. Threads'
  BY <1>8, <1>11 DEF Threads
<1>13. entry'[f] = e /\ \A g \in Fd : g # f => entry'[g] = entry[g]
  BY <1>7 DEF Tables
<1>14. SleeperEntered'
  <2> SUFFICES ASSUME NEW t \in Thread, th'[t].pc = "sleep"
               PROVE  th'[t].int \in entry'[th'[t].fd].ints /\ entry'[th'[t].fd].data[th'[t].int] = t
    BY DEF SleeperEntered
  <2>1. th'[t] = th[t] /\ t \notin woken
    BY <1>8 DEF Threads
  <2>2. th[t].int \in entry[th[t].fd].ints /\ entry[th[t].fd].data[th[t].int] = t
    BY <2>1 DEF SleeperEntered
  <2>3. th[t].fd = f => th[t].int \notin fired
    BY <2>1, <2>2, <1>w
  <2>4. th[t].fd \in Fd /\ th[t].int \in Interest
    BY <2>1 DEF Threads, Waits
  <2>5. QED
    BY <2>1, <2>2, <2>3, <2>4, <1>6, <1>13
<1>15. FiredRemoved'
  <2> SUFFICES ASSUME NEW t \in Thread, th'[t].pc = "fired"
               PROVE  th'[t].int \notin entry'[th'[t].fd].ints
    BY DEF FiredRemoved
  <2>1. CASE t \in woken
    BY <2>1, <1>6, <1>9, <1>11, <1>13
  <2>2. CASE t \notin woken
    <3>1. th'[t] = th[t]
      BY <2>2, <1>8
    <3>2. th[t].fd \in Fd /\ th[t].int \notin entry[th[t].fd].ints
      BY <3>1 DEF FiredRemoved, Threads, Waits
    <3>3. QED
      BY <3>1, <3>2, <1>6, <1>13
  <2>3. QED
    BY <2>1, <2>2
<1>16. EntryLeadsToWaiter'
  <2>1. \A g \in Fd : entry'[g].ints \subseteq entry[g].ints
    BY <1>6, <1>13
  <2>2. \A g \in Fd : \A j \in entry'[g].ints : entry'[g].data[j] = entry[g].data[j]
    BY <1>1, <1>6, <1>13 DEF Entry
  <2>3. QED
    BY <1>11, <2>1, <2>2 DEF EntryLeadsToWaiter
<1>17. QED
  BY <1>10, <1>12, <1>14, <1>15, <1>16

\* A thread that leaves wait_for_fd() takes its own interest with it, and no other.
LEMMA ReturnKeeps == ASSUME Null \notin Fd, Inv, NEW t \in Thread, Return(t) PROVE Inv'
<1> USE DEF Inv
<1> DEFINE f == th[t].fd
           gone == IF th[t].pc = "fired" THEN {} ELSE {th[t].int}
           e == RmInterest(entry[f], gone)
           k == RmCtl(ker[f], entry[f], gone)
<1>1. th[t].pc \in {"fired", "timeout", "interrupt"} /\ f \in Fd /\ th[t].int \in Interest
  BY DEF Return, Threads, Waits
<1>2. entry[f] \in Entry /\ ker[f] \in Registration /\ Asked(ker[f], entry[f])
  BY <1>1 DEF Tables, KernelAsked
<1>3. gone \in SUBSET Interest /\ (\A i \in gone : i = th[t].int)
  BY <1>1
<1>4. th[t].int \notin entry[f].ints \ gone
  BY <1>1 DEF FiredRemoved
<1>5. entry' = [entry EXCEPT ![f] = e] /\ ker' = [ker EXCEPT ![f] = k] /\ th' = [th EXCEPT ![t] = Idle]
  BY DEF Return
<1> HIDE DEF gone
<1>6. /\ Asked(k, e) /\ k \in Registration /\ e \in Entry /\ e.ints = entry[f].ints \ gone
      /\ \A i \in Interest \ gone : e.data[i] = entry[f].data[i]
  BY <1>2, <1>3, RmKeepsAsked
<1> HIDE DEF e, k
<1>7. Tables' /\ KernelAsked'
  BY <1>1, <1>5, <1>6 DEF Tables, KernelAsked
<1>8. th'[t] = [pc |-> "run", fd |-> Null, int |-> Null] /\ \A u \in Thread : u # t => th'[u] = th[u]
  BY <1>5 DEF Threads, Idle
<1>9. Threads'
  BY <1>5, <1>8 DEF Threads, Waits, Idle
<1>10. entry'[f] = e /\ \A g \in Fd : g # f => entry'[g] = entry[g]
  BY <1>1, <1>5 DEF Tables
<1>11. \A u \in Thread : u # t /\ th[u].fd = f => th[u].int # th[t].int
  BY <1>1 DEF Threads, Waits
<1>12. SleeperEntered'
  <2> SUFFICES ASSUME NEW u \in Thread, th'[u].pc = "sleep"
               PROVE  th'[u].int \in entry'[th'[u].fd].ints /\ entry'[th'[u].fd].data[th'[u].int] = u
    BY DEF SleeperEntered
  <2>1. u # t /\ th'[u] = th[u]
    BY <1>8
  <2>2. th[u].int \in entry[th[u].fd].ints /\ entry[th[u].fd].data[th[u].int] = u
        /\ th[u].fd \in Fd /\ th[u].int \in Interest
    BY <2>1 DEF SleeperEntered, Threads, Waits
  <2>3. QED
    BY <2>1, <2>2, <1>3, <1>6, <1>10, <1>11
<1>13. FiredRemoved'
  BY <1>6, <1>8, <1>10 DEF FiredRemoved, Threads, Waits
<1>14. EntryLeadsToWaiter'
  <2>1. \A g \in Fd : entry'[g].ints \subseteq entry[g].ints
    BY <1>6, <1>10
  <2>2. \A g \in Fd : \A j \in entry'[g].ints : entry'[g].data[j] = entry[g].data[j]
    BY <1>2, <1>6, <1>10 DEF Entry
  <2>3. \A g \in Fd : \A j \in entry'[g].ints : entry[g].data[j] # t
    BY <2>1, <1>4, <1>6, <1>10 DEF EntryLeadsToWaiter
  <2>4. QED
    BY <1>8, <2>1, <2>2, <2>3 DEF EntryLeadsToWaiter
<1>15. QED
  BY <1>7, <1>9, <1>12, <1>13, <1>14

\* The epoll engine keeps the invariant, when an event of a descriptor has one waiter at a time.
THEOREM Invariance == ASSUME ~Shared, Null \notin Fd PROVE Spec => []Inv
<1>1. Init => Inv
  <2> SUFFICES ASSUME Init PROVE Inv
    OBVIOUS
  <2>1. NoEntry \in Entry /\ NoEntry.ints = {}
    BY DEF NoEntry, Entry
  <2>2. [k |-> NoReg, ready |-> {}] \in Registration
    BY DEF NoReg, Registration
  <2>3. Tables /\ KernelAsked /\ EntryLeadsToWaiter
    BY <2>1, <2>2 DEF Init, Tables, KernelAsked, Asked, EntryLeadsToWaiter
  <2>4. Threads /\ SleeperEntered /\ FiredRemoved
    BY DEF Init, Idle, Threads, Waits, SleeperEntered, FiredRemoved
  <2>5. QED
    BY <2>3, <2>4 DEF Inv
<1>2. Inv /\ [Next]_vars => Inv'
  <2> SUFFICES ASSUME Inv, [Next]_vars PROVE Inv'
    OBVIOUS
  <2> USE DEF Inv
  <2>1. CASE UNCHANGED vars
    BY <2>1 DEF vars, Threads, Tables, KernelAsked, SleeperEntered, FiredRemoved, EntryLeadsToWaiter
  <2>2. ASSUME NEW t \in Thread, SleepEnds(t) PROVE Inv'
    <3>1. entry' = entry /\ ker' = ker /\ th[t].pc = "sleep"
          /\ \E how \in {"timeout", "interrupt"} : th' = [th EXCEPT ![t].pc = how]
      BY <2>2 DEF SleepEnds
    <3>2. /\ th'[t].fd = th[t].fd /\ th'[t].int = th[t].int /\ th'[t].pc \in {"timeout", "interrupt"}
          /\ th'[t] \in [pc : Waits \cup {"run"}, fd : Fd \cup {Null}, int : Interest \cup {Null}]
          /\ \A u \in Thread : u # t => th'[u] = th[u]
      BY <3>1 DEF Threads, Waits
    <3>3. Threads'
      BY <3>1, <3>2 DEF Threads, Waits
    <3>4. SleeperEntered' /\ FiredRemoved' /\ EntryLeadsToWaiter'
      BY <3>1, <3>2 DEF SleeperEntered, FiredRemoved, EntryLeadsToWaiter
    <3>5. QED
      BY <3>1, <3>3, <3>4 DEF Tables, KernelAsked
  <2>3. ASSUME NEW f \in Fd, CloseFd(f) PROVE Inv'
    <3>1. th' = th /\ ker' = [ker EXCEPT ![f] = [k |-> NoReg, ready |-> {}]]
          /\ entry' \in {entry, [entry EXCEPT ![f] = NoEntry]} /\ \A t \in Thread : th[t].fd # f
      BY <2>3 DEF CloseFd
    <3>2. entry[f].ints = {}
      BY <3>1 DEF EntryLeadsToWaiter
    <3>3. NoEntry \in Entry /\ NoEntry.ints = {} /\ [k |-> NoReg, ready |-> {}] \in Registration
      BY DEF NoEntry, Entry, NoReg, Registration
    <3>4. entry'[f].ints = {} /\ \A g \in Fd : g # f => entry'[g] = entry[g] /\ ker'[g] = ker[g]
      BY <3>1, <3>2, <3>3 DEF Tables
    <3>5. Tables'
      BY <3>1, <3>3 DEF Tables
    <3>6. KernelAsked'
      BY <3>4 DEF KernelAsked, Asked
    <3>7. SleeperEntered' /\ FiredRemoved' /\ EntryLeadsToWaiter'
      BY <3>1, <3>4 DEF SleeperEntered, FiredRemoved, EntryLeadsToWaiter, Threads, Waits
    <3>8. QED
      BY <3>1, <3>5, <3>6, <3>7 DEF Threads
  <2>4. ASSUME NEW f \in Fd, Changes(f) PROVE Inv'
    <3>1. PICK r \in SUBSET Event : ker' = [ker EXCEPT ![f].ready = r] /\ ("hup" \in ker[f].ready => "hup" \in r)
      <4>1. ker[f].ready \in SUBSET Event
        BY DEF Tables, Registration
      <4>2. QED
        BY <2>4, <4>1 DEF Changes, Event
    <3>2. entry' = entry /\ th' = th
      BY <2>4 DEF Changes
    <3>3. ker'[f].k = ker[f].k /\ ker'[f].ready = r /\ ker'[f] \in Registration
          /\ \A g \in Fd : g # f => ker'[g] = ker[g]
      BY <3>1 DEF Tables, Registration
    <3>4. Tables'
      BY <3>1, <3>2, <3>3 DEF Tables
    <3>5. KernelAsked'
      BY <3>1, <3>2, <3>3 DEF KernelAsked, Asked
    <3>6. QED
      BY <3>2, <3>4, <3>5 DEF Threads, SleeperEntered, FiredRemoved, EntryLeadsToWaiter
  <2>5. QED
    BY <2>1, <2>2, <2>3, <2>4, WaitForFdKeeps, FireKeeps, ReturnKeeps DEF Next
<1>3. QED
  BY <1>1, <1>2, PTL DEF Spec

\* For any number of threads and descriptors: a thread that sleeps in wait_for_fd() is armed
\* in the kernel and the engine's entry leads to it, and to nobody who does not wait - as long
\* as no two threads wait for the same event of a descriptor.
THEOREM Armed == ASSUME ~Shared, Null \notin Fd PROVE Spec => [](WaiterArmed /\ EntryLeadsToWaiter)
<1>1. Inv => WaiterArmed /\ EntryLeadsToWaiter
  <2> SUFFICES ASSUME Inv, NEW t \in Thread, th[t].pc = "sleep"
               PROVE  LET f == th[t].fd IN
                      /\ th[t].int \in entry[f].ints /\ entry[f].data[th[t].int] = t
                      /\ \/ ker[f].k.reg /\ ker[f].k.armed /\ Mask({th[t].int}) \subseteq ker[f].k.mask
                         \/ th[t].int = "error" /\ "hup" \in ker[f].ready
    BY DEF WaiterArmed, Inv
  <2> DEFINE f == th[t].fd
  <2>1. f \in Fd /\ th[t].int \in entry[f].ints /\ entry[f].data[th[t].int] = t
    BY DEF Inv, SleeperEntered, Threads, Waits
  <2>2. Asked(ker[f], entry[f])
    BY <2>1 DEF Inv, KernelAsked
  <2>3. Mask({th[t].int}) \subseteq Mask(entry[f].ints)
    BY <2>1 DEF Mask
  <2>4. QED
    BY <2>1, <2>2, <2>3 DEF Asked
<1>2. QED
  BY <1>1, Invariance, PTL
============================================================================
