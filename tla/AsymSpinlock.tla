---------------------------- MODULE AsymSpinlock ----------------------------
(***************************************************************************)
(* asymmetric_spinLock (thread/thread.cpp): the lock of a vCPU's run queue.*)
(* The vCPU itself (the foreground) takes it with a plain store and a load,*)
(* vCPUs that steal work (the background) with an exchange.                *)
(*                                                                         *)
(* Stores wait in the store buffer of their CPU, as on x86: a release store*)
(* and a later acquire load of another location may be reordered.  With    *)
(* buffers of size 0 the memory is sequentially consistent.                *)
(***************************************************************************)
EXTENDS Naturals, SequencesExt

CONSTANTS Fg, Background, BufferSize

CPU == {Fg} \cup Background

VARIABLES
  foreground_locked, background_locked,   \* the two atomics in memory
  buf,                                    \* stores not in memory yet
  pc

vars == <<foreground_locked, background_locked, buf, pc>>

Init ==
  /\ foreground_locked = FALSE
  /\ background_locked = FALSE
  /\ buf = [c \in CPU |-> <<>>]
  /\ pc = [c \in CPU |-> "out"]

Goto(c, l) == pc' = [pc EXCEPT ![c] = l]

\* c stores `val` into its own flag: the foreground only ever writes
\* foreground_locked, the background only background_locked.
Store(c, val) ==
  IF BufferSize > 0
  THEN /\ Len(buf[c]) < BufferSize
       /\ buf' = [buf EXCEPT ![c] = Append(@, val)]
       /\ UNCHANGED <<foreground_locked, background_locked>>
  ELSE /\ IF c = Fg THEN foreground_locked' = val /\ UNCHANGED background_locked
                    ELSE background_locked' = val /\ UNCHANGED foreground_locked
       /\ UNCHANGED buf

(* The CPU writes its oldest buffered store to memory. *)
Flush(c) ==
  /\ buf[c] # <<>>
  /\ buf' = [buf EXCEPT ![c] = Tail(@)]
  /\ IF c = Fg THEN foreground_locked' = Head(buf[c]) /\ UNCHANGED background_locked
               ELSE background_locked' = Head(buf[c]) /\ UNCHANGED foreground_locked
  /\ UNCHANGED pc

------------------------------------------------------------------------------
(* foreground_lock(): store ...                                            *)
ForegroundStore ==
  /\ pc[Fg] = "out"
  /\ Store(Fg, TRUE)
  /\ Goto(Fg, "wait")

\* fault: foreground_lock() does not wait
ForegroundNoWait ==
  /\ pc[Fg] = "wait"
  /\ Goto(Fg, "in")
  /\ UNCHANGED <<foreground_locked, background_locked, buf>>

(* ... and wait_while(background_locked)                                   *)
ForegroundWait ==
  /\ pc[Fg] = "wait"
  /\ ~background_locked
  /\ Goto(Fg, "in")
  /\ UNCHANGED <<foreground_locked, background_locked, buf>>

ForegroundUnlock ==
  /\ pc[Fg] = "in"
  /\ Store(Fg, FALSE)
  /\ Goto(Fg, "out")

(* a round of wait_while()                                                 *)
ForegroundSpin ==
  /\ pc[Fg] = "wait"
  /\ background_locked
  /\ UNCHANGED vars

(* background_try_lock(): wait_while(foreground_locked) ...                *)
BackgroundWait(b) ==
  /\ pc[b] = "out"
  /\ ~foreground_locked
  /\ Goto(b, "exchange")
  /\ UNCHANGED <<foreground_locked, background_locked, buf>>

(* ... exchange, which drains the store buffer; fail if it was locked ...  *)
BackgroundExchange(b) ==
  /\ pc[b] = "exchange"
  /\ buf[b] = <<>>
  /\ background_locked' = TRUE
  /\ Goto(b, IF background_locked THEN "out" ELSE "check")
  /\ UNCHANGED <<foreground_locked, buf>>

(* ... check again ...                                                     *)
BackgroundCheck(b) ==
  /\ pc[b] = "check"
  /\ Goto(b, IF foreground_locked THEN "release" ELSE "in")
  /\ UNCHANGED <<foreground_locked, background_locked, buf>>

\* fault: the background waits for the foreground with the lock held
BackgroundInsist(b) ==
  /\ pc[b] = "release"
  /\ ~foreground_locked
  /\ Goto(b, "in")
  /\ UNCHANGED <<foreground_locked, background_locked, buf>>

(* ... and step back if the foreground has come: "otherwise release lock,  *)
(* wait, and repeat again"                                                 *)
BackgroundRelease(b) ==
  /\ pc[b] = "release"
  /\ Store(b, FALSE)
  /\ Goto(b, "out")

BackgroundUnlock(b) ==
  /\ pc[b] = "in"
  /\ Store(b, FALSE)
  /\ Goto(b, "out")

------------------------------------------------------------------------------
Foreground == ForegroundWait \/ ForegroundUnlock
BackgroundLeaves(b) == BackgroundCheck(b) \/ BackgroundRelease(b) \/ BackgroundUnlock(b)
Leaves(c) == IF c = Fg THEN Foreground ELSE BackgroundLeaves(c)

Next ==
  \/ ForegroundStore \/ ForegroundSpin \/ Foreground
  \/ \E b \in Background : BackgroundWait(b) \/ BackgroundExchange(b) \/ BackgroundLeaves(b)
  \/ \E c \in CPU : Flush(c)

Spec == Init /\ [][Next]_vars

(* Holders leave, and the foreground spins until it sees the lock free.    *)
Fairness ==
  \A c \in CPU : WF_vars(Leaves(c) \/ Flush(c))
FairSpec == Spec /\ Fairness

------------------------------------------------------------------------------
(* One CPU is in the critical section at a time: "check to make sure it is *)
(* still unlocked".                                                        *)
MutualExclusion == \A c, d \in CPU : pc[c] = "in" /\ pc[d] = "in" => c = d

(* foreground_lock() gets the lock whatever the background tries: it steps *)
(* back each time it finds that the foreground wants the lock.             *)
ForegroundEnters == pc[Fg] = "wait" ~> pc[Fg] = "in"
==============================================================================
