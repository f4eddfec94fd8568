---------------------------- MODULE SocketStream ----------------------------
(***************************************************************************)
(* An edge-triggered stream (net/kernel_socket.cpp, ETKernelSocketStream)  *)
(* with a thread that reads and one that writes, the poller that turns the *)
(* edges into wake-ups, and the event loop (common/event-loop.cpp) that    *)
(* runs the poller.  The kernel's buffers and the peer are external.       *)
(***************************************************************************)
EXTENDS Integers, TLAPS

CONSTANTS Cap,     \* size of either buffer of the connection
          MaxLen   \* bound on the length of a read or a write

VARIABLES kern,   \* bytes that can be read and written now, end of file, edges not yet reported
          io,     \* the reader and the writer
          waiter, \* NotifyContext::waiter
          loop    \* m_state of the event loop, and the thread in stop()

vars == <<kern, io, waiter, loop>>

Dir == {"r", "w"}

Init ==
    /\ kern = [room |-> [d \in Dir |-> IF d = "r" THEN 0 ELSE Cap], eof |-> FALSE, edge |-> {}]
    /\ io = [d \in Dir |-> [pc |-> "run", want |-> 0, n |-> 0]]
    /\ waiter = [d \in Dir |-> FALSE]
    /\ loop = [state |-> "WAITING", stopper |-> "run"]

Smaller(a, b) == IF a < b THEN a ELSE b

----------------------------------------------------------------------------
\* read() and write() of `count` bytes.
Call(d, count) ==
    /\ io[d].pc \in {"run", "done", "failed"}
    /\ io' = [io EXCEPT ![d] = [pc |-> "io", want |-> count, n |-> 0]]
    /\ UNCHANGED <<kern, waiter, loop>>

\* fault: EAGAIN is found before the thread is known as the waiter, and an edge in between is lost
DoIoRegisteredLate(d) ==
    LET m == Smaller(kern.room[d], io[d].want - io[d].n) IN
    /\ io[d].pc = "io"
    /\ \/ /\ kern.room[d] > 0
          /\ kern' = [kern EXCEPT !.room[d] = @ - m]
          /\ io' = [io EXCEPT ![d].n = @ + m, ![d].pc = IF io[d].n + m = io[d].want THEN "done" ELSE "io"]
       \/ /\ kern.room[d] = 0 /\ ~kern.eof
          /\ io' = [io EXCEPT ![d].pc = "sleep"]
          /\ kern' = [kern EXCEPT !.edge = {}]
    /\ waiter' = waiter
    /\ loop' = loop

\* doio_loop() over etdoio(): as much as there is; again until all is done, the end of the
\* file, or EAGAIN, with which the thread becomes the waiter and sleeps.
DoIo(d) ==
    LET m == Smaller(kern.room[d], io[d].want - io[d].n) IN
    /\ io[d].pc = "io"
    /\ \/ /\ kern.room[d] > 0
          /\ kern' = [kern EXCEPT !.room[d] = @ - m]
          /\ io' = [io EXCEPT ![d].n = @ + m, ![d].pc = IF io[d].n + m = io[d].want THEN "done" ELSE "io"]
          /\ waiter' = waiter
       \/ /\ kern.room[d] = 0 /\ kern.eof
          /\ io' = [io EXCEPT ![d].pc = IF d = "r" THEN "done" ELSE "failed"]
          /\ UNCHANGED <<kern, waiter>>
       \/ /\ kern.room[d] = 0 /\ ~kern.eof
          /\ waiter' = [waiter EXCEPT ![d] = TRUE]
          /\ io' = [io EXCEPT ![d].pc = "sleep"]
          /\ kern' = kern
    /\ loop' = loop

SleepEnds(d) ==
    /\ io[d].pc = "sleep"
    /\ \E how \in {"timeout", "interrupt"} : io' = [io EXCEPT ![d].pc = how]
    /\ UNCHANGED <<kern, waiter, loop>>

\* wait_for_state() after its sleep: EOK retries, anything else is an error of the call.
WaitForStateEnds(d) ==
    /\ io[d].pc \in {"fired", "timeout", "interrupt"}
    /\ waiter' = [waiter EXCEPT ![d] = FALSE]
    /\ io' = [io EXCEPT ![d].pc = IF @ = "fired" THEN "io" ELSE "failed"]
    /\ UNCHANGED <<kern, loop>>

----------------------------------------------------------------------------
\* on_event(): interrupts the waiters of the reported edges with EOK.
OnEvent(edges) ==
    [d \in Dir |-> IF d \in edges /\ waiter[d] /\ io[d].pc \in {"sleep", "timeout"}
                   THEN [io[d] EXCEPT !.pc = "fired"] ELSE io[d]]

\* fault: one event is taken, the rest dropped
NotifyOne ==
    /\ loop.state = "WAITING" /\ kern.edge # {}
    /\ \E d \in kern.edge : io' = OnEvent({d})
    /\ kern' = [kern EXCEPT !.edge = {}]
    /\ UNCHANGED <<waiter, loop>>

\* One turn of the event loop: the epoll is readable, its edges are fetched and reported.
Notify ==
    /\ loop.state = "WAITING" /\ kern.edge # {}
    /\ io' = OnEvent(kern.edge)
    /\ kern' = [kern EXCEPT !.edge = {}]
    /\ UNCHANGED <<waiter, loop>>

\* stop(): asks, interrupts the loop's thread, and waits for it.
Stop ==
    /\ loop.stopper = "run"
    /\ loop' = IF loop.state = "STOP" THEN loop ELSE [state |-> "STOPPING", stopper |-> "wait"]
    /\ UNCHANGED <<kern, io, waiter>>

\* __run() leaves its loops.
RunExits ==
    /\ loop.state = "STOPPING"
    /\ loop' = [state |-> "STOP", stopper |-> "run"]
    /\ UNCHANGED <<kern, io, waiter>>

\* async_run()
AsyncRun ==
    /\ loop.state = "STOP" /\ loop.stopper = "run"
    /\ loop' = [loop EXCEPT !.state = "WAITING"]
    /\ UNCHANGED <<kern, io, waiter>>

\* The peer sends (d = "r") or receives (d = "w"), or closes.  The kernel raises an edge.
Peer(d, m) ==
    /\ ~kern.eof /\ kern.room[d] + m <= Cap
    /\ kern' = [kern EXCEPT !.room[d] = @ + m, !.edge = @ \cup {d}]
    /\ UNCHANGED <<io, waiter, loop>>

PeerCloses ==
    /\ ~kern.eof
    /\ kern' = [kern EXCEPT !.eof = TRUE, !.edge = Dir]
    /\ UNCHANGED <<io, waiter, loop>>

Next ==
    \/ \E d \in Dir : \/ DoIo(d) \/ SleepEnds(d) \/ WaitForStateEnds(d)
                      \/ \E m \in 1..MaxLen : Call(d, m) \/ Peer(d, m)
    \/ Notify \/ Stop \/ RunExits \/ AsyncRun \/ PeerCloses

Spec == Init /\ [][Next]_vars

FairSpec ==
    /\ Spec /\ WF_vars(Notify) /\ WF_vars(RunExits)
    /\ \A d \in Dir : WF_vars(DoIo(d)) /\ WF_vars(WaitForStateEnds(d))

----------------------------------------------------------------------------
Can(d) == kern.room[d] > 0 \/ kern.eof

\* Edges are reported once.  A thread that sleeps although its stream can go on still has an
\* edge to come and is known as its waiter: no edge was consumed in vain.
NoLostEdge == \A d \in Dir : io[d].pc = "sleep" => waiter[d] /\ (Can(d) => d \in kern.edge)

\* A read or write is short only at the end of the file.
ShortAtEof == \A d \in Dir : io[d].pc = "done" /\ io[d].n < io[d].want => kern.eof /\ d = "r"

\* While the loop runs, a thread that sleeps on a stream that can go on is woken.
Due(d) == io[d].pc = "sleep" /\ Can(d)
Settled(d) == io[d].pc # "sleep" \/ loop.state # "WAITING"
EdgeWakes == \A d \in Dir : Due(d) ~> Settled(d)
----------------------------------------------------------------------------
(* The proof that no edge is lost, for buffers and calls of any size.      *)

Pc == {"run", "io", "sleep", "timeout", "interrupt", "fired", "done", "failed"}
Transfer == [pc : Pc, want : Int, n : Int]

\* The shape of the state, as far as the proof needs it.
Shape ==
    /\ kern \in [room : [Dir -> Int], eof : BOOLEAN, edge : SUBSET Dir]
    /\ io \in [Dir -> Transfer]
    /\ waiter \in [Dir -> BOOLEAN]

\* A transfer that moves on is a transfer.
LEMMA Moves == ASSUME NEW r \in Transfer, NEW p \in Pc, NEW m \in Int
               PROVE  [r EXCEPT !.n = @ + m, !.pc = p] \in Transfer
<1>1. r.n + m \in Int
  BY DEF Transfer
<1>2. \A k \in Int : [r EXCEPT !.n = k, !.pc = p] \in Transfer
  BY DEF Transfer
<1>3. QED
  BY <1>1, <1>2

\* The shape is kept by every step.
LEMMA ShapeKept == ASSUME MaxLen \in Nat, Shape, [Next]_vars PROVE Shape'
<1> USE DEF Shape
<1>a. \A r \in Transfer, p \in Pc : [r EXCEPT !.pc = p] \in Transfer
  BY DEF Transfer
<1>b. {"sleep", "timeout", "interrupt", "fired", "io", "done", "failed"} \subseteq Pc
  BY DEF Pc
<1>1. CASE UNCHANGED vars
  BY <1>1 DEF vars
<1>2. ASSUME NEW d \in Dir, DoIo(d) PROVE Shape'
  <2> DEFINE m == Smaller(kern.room[d], io[d].want - io[d].n)
  <2>1. m \in Int
    BY DEF Smaller, Transfer
  <2>2. CASE /\ kern' = [kern EXCEPT !.room[d] = @ - m]
             /\ io' = [io EXCEPT ![d].n = @ + m,
                                 ![d].pc = IF io[d].n + m = io[d].want THEN "done" ELSE "io"]
             /\ waiter' = waiter
    <3> HIDE DEF m
    <3>1. [kern.room EXCEPT ![d] = @ - m] \in [Dir -> Int]
      BY <2>1
    <3>2. kern' = [kern EXCEPT !.room = [kern.room EXCEPT ![d] = @ - m]]
      BY <2>2
    <3> DEFINE s == IF io[d].n + m = io[d].want THEN "done" ELSE "io"
    <3>3. s \in Pc
      BY <1>b
    <3>4. [io[d] EXCEPT !.n = @ + m, !.pc = s] \in Transfer
      BY <2>1, <3>3, Moves
    <3>5. io' \in [Dir -> Transfer]
      BY <2>2, <3>4
    <3>6. QED
      BY <2>2, <3>1, <3>2, <3>5
  <2>3. CASE /\ \E s \in Pc : io' = [io EXCEPT ![d].pc = s]
             /\ kern' = kern /\ waiter' \in {waiter, [waiter EXCEPT ![d] = TRUE]}
    <3>1. PICK s \in Pc : io' = [io EXCEPT ![d].pc = s]
      BY <2>3
    <3>2. [io[d] EXCEPT !.pc = s] \in Transfer
      BY <1>a
    <3>3. QED
      BY <2>3, <3>1, <3>2
  <2>4. CASE kern.room[d] > 0
    <3>1. kern.room[d] # 0
      BY <2>4
    <3>2. QED
      BY <1>2, <3>1, <2>2 DEF DoIo
  <2>5. CASE kern.room[d] = 0
    BY <1>2, <1>b, <2>5, <2>3 DEF DoIo
  <2>6. QED
    BY <1>2, <2>4, <2>5 DEF DoIo
<1>3. ASSUME NEW d \in Dir, SleepEnds(d) PROVE Shape'
  BY <1>3, <1>a, <1>b DEF SleepEnds
<1>4. ASSUME NEW d \in Dir, WaitForStateEnds(d) PROVE Shape'
  BY <1>4, <1>a, <1>b DEF WaitForStateEnds
<1>5. ASSUME NEW d \in Dir, NEW m \in 1..MaxLen, Call(d, m) PROVE Shape'
  BY <1>5, <1>b DEF Call, Transfer
<1>6. ASSUME NEW d \in Dir, NEW m \in 1..MaxLen, Peer(d, m) PROVE Shape'
  <2>1. [kern.room EXCEPT ![d] = @ + m] \in [Dir -> Int] /\ kern.edge \cup {d} \in SUBSET Dir
    OBVIOUS
  <2>2. kern' = [kern EXCEPT !.room = [kern.room EXCEPT ![d] = @ + m], !.edge = kern.edge \cup {d}]
    BY <1>6 DEF Peer
  <2>3. QED
    BY <1>6, <2>1, <2>2 DEF Peer
<1>7. CASE Notify
  <2>1. \A d \in Dir : io'[d] = io[d] \/ io'[d] = [io[d] EXCEPT !.pc = "fired"]
    BY <1>7 DEF Notify, OnEvent
  <2>2. \A d \in Dir : io'[d] \in Transfer
    <3> TAKE d \in Dir
    <3>1. io[d] \in Transfer /\ [io[d] EXCEPT !.pc = "fired"] \in Transfer
      BY <1>a, <1>b
    <3>2. QED
      BY <2>1, <3>1
  <2>3. io' \in [Dir -> Transfer]
    BY <1>7, <2>2 DEF Notify, OnEvent
  <2>4. QED
    BY <1>7, <2>3 DEF Notify
<1>8. CASE Stop \/ RunExits \/ AsyncRun
  BY <1>8 DEF Stop, RunExits, AsyncRun
<1>9. CASE PeerCloses
  BY <1>9 DEF PeerCloses, Dir
<1>10. QED
  BY <1>1, <1>2, <1>3, <1>4, <1>5, <1>6, <1>7, <1>8, <1>9 DEF Next

\* A thread that finds its stream unable to go on is registered before any edge can be
\* reported, and a report wakes it or leaves the stream unable to go on.
LEMMA EdgeKept == ASSUME MaxLen \in Nat, Shape, NoLostEdge, [Next]_vars PROVE NoLostEdge'
<1> USE DEF Shape, NoLostEdge, Can
<1>1. CASE UNCHANGED vars
  BY <1>1 DEF vars
<1>2. ASSUME NEW d \in Dir, DoIo(d) PROVE NoLostEdge'
  <2> SUFFICES ASSUME NEW c \in Dir, io'[c].pc = "sleep"
               PROVE  waiter'[c] /\ (Can(c)' => c \in kern'.edge)
    BY DEF NoLostEdge
  <2>1. CASE c # d
    <3>1. io'[c] = io[c] /\ waiter'[c] = waiter[c] /\ kern'.edge = kern.edge
      BY <1>2, <2>1 DEF DoIo
    <3>2. kern'.room[c] = kern.room[c] /\ kern'.eof = kern.eof
      BY <1>2, <2>1 DEF DoIo
    <3>3. QED
      BY <3>1, <3>2
  <2>2. CASE c = d
    <3> DEFINE m == Smaller(kern.room[d], io[d].want - io[d].n)
    <3>1. CASE io' = [io EXCEPT ![d].n = @ + m,
                                ![d].pc = IF io[d].n + m = io[d].want THEN "done" ELSE "io"]
      <4>1. io'[d].pc \in {"done", "io"}
        BY <3>1 DEF Transfer
      <4>2. QED
        BY <2>2, <4>1
    <3>2. CASE io' = [io EXCEPT ![d].pc = IF d = "r" THEN "done" ELSE "failed"]
      <4>1. io'[d].pc \in {"done", "failed"}
        BY <3>2 DEF Transfer
      <4>2. QED
        BY <2>2, <4>1
    <3>3. CASE waiter' = [waiter EXCEPT ![d] = TRUE] /\ kern' = kern /\ kern.room[d] = 0 /\ ~kern.eof
      BY <2>2, <3>3
    <3>4. QED
      BY <1>2, <3>1, <3>2, <3>3 DEF DoIo
  <2>3. QED
    BY <2>1, <2>2
<1>3. ASSUME NEW d \in Dir, SleepEnds(d) PROVE NoLostEdge'
  BY <1>3 DEF SleepEnds
<1>4. ASSUME NEW d \in Dir, WaitForStateEnds(d) PROVE NoLostEdge'
  BY <1>4 DEF WaitForStateEnds
<1>5. ASSUME NEW d \in Dir, NEW m \in 1..MaxLen, Call(d, m) PROVE NoLostEdge'
  BY <1>5 DEF Call
<1>6. ASSUME NEW d \in Dir, NEW m \in 1..MaxLen, Peer(d, m) PROVE NoLostEdge'
  BY <1>6 DEF Peer
<1>7. CASE Notify
  <2> SUFFICES ASSUME NEW c \in Dir, io'[c].pc = "sleep"
               PROVE  waiter'[c] /\ (Can(c)' => c \in kern'.edge)
    BY DEF NoLostEdge
  <2>1. io[c].pc = "sleep" /\ c \notin kern.edge
    BY <1>7 DEF Notify, OnEvent
  <2>2. waiter[c] /\ ~Can(c)
    BY <2>1
  <2>3. QED
    BY <1>7, <2>2 DEF Notify
<1>8. CASE Stop \/ RunExits \/ AsyncRun
  BY <1>8 DEF Stop, RunExits, AsyncRun
<1>9. CASE PeerCloses
  BY <1>9 DEF PeerCloses
<1>10. QED
  BY <1>1, <1>2, <1>3, <1>4, <1>5, <1>6, <1>7, <1>8, <1>9 DEF Next

\* For buffers and transfers of any size, no edge that a sleeping reader or writer needs is
\* consumed in vain: ETKernelSocketStream never loses a wake-up, whatever stops or restarts
\* the loop that reports the edges.
THEOREM EdgesKept == ASSUME Cap \in Nat, MaxLen \in Nat PROVE Spec => []NoLostEdge
<1>1. Init => Shape /\ NoLostEdge
  BY DEF Init, Shape, Transfer, Pc, NoLostEdge
<1>2. Shape /\ NoLostEdge /\ [Next]_vars => (Shape /\ NoLostEdge)'
  BY ShapeKept, EdgeKept
<1>3. QED
  BY <1>1, <1>2, PTL DEF Spec
============================================================================
