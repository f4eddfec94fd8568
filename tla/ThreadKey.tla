----------------------------- MODULE ThreadKey -----------------------------
(***************************************************************************)
(* Thread specific data (thread/thread-key.cpp) for threads of one vCPU:   *)
(* keys that are created and deleted while threads hold values under       *)
(* them, the two-level table of a thread, and deallocate_tls(), whose      *)
(* destructors are code of the user and may create, delete and set again.  *)
(***************************************************************************)
EXTENDS Naturals, Sequences, FiniteSetsExt

CONSTANTS Thread,
          FirstLevel,   \* THREAD_KEY_1STLEVEL_SIZE: blocks of a table
          SecondLevel,  \* THREAD_KEY_2NDLEVEL_SIZE: slots of a block
          Iterations,   \* THREAD_DESTRUCTOR_ITERATIONS
          Used,         \* the keys that the program deletes and sets values under
          MaxTimes,     \* bound on the times a key is created
          MaxValue,     \* bound on the values that are set
          Null

VARIABLES keys,   \* thread_keys: seq, odd while the key is in use, whether it has a dtor; and how
                  \* often the key was created (a history variable)
          tls,    \* the table of a thread: specific_used, the blocks, the slots; or Null
          th,     \* threads: running, or in deallocate_tls()
          value   \* the values set so far: under which key, and what became of them

vars == <<keys, tls, th, value>>

Key == 0..(FirstLevel * SecondLevel - 1)
Block(k) == k \div SecondLevel

\* The keys that others use have been created.
Init ==
    /\ keys = [k \in Key |-> [seq |-> IF k \in Used THEN 0 ELSE 1, dtor |-> TRUE, times |-> 0]]
    /\ tls = [t \in Thread |-> Null]
    /\ th = [t \in Thread |-> [pc |-> "run", pos |-> 0, idx |-> 0, round |-> 0]]
    /\ value = <<>>

InUse(k) == keys[k].seq % 2 = 1

\* The user's code runs: the thread's own, or a destructor.
UserCode(t) == th[t].pc \in {"run", "dtor"}

----------------------------------------------------------------------------
\* thread_key_create(): the first slot that is not in use.
Create(dtor) ==
    LET free == {k \in Key : ~InUse(k)} IN
    /\ free # {} /\ keys[Min(free)].times < MaxTimes
    /\ keys' = [keys EXCEPT ![Min(free)] = [seq |-> @.seq + 1, dtor |-> dtor, times |-> @.times + 1]]
    /\ UNCHANGED <<tls, th, value>>

\* fault: a deleted key takes its sequence number back
DeleteRewinds(k) ==
    /\ InUse(k)
    /\ keys' = [keys EXCEPT ![k].seq = @ - 1]
    /\ UNCHANGED <<tls, th, value>>

\* thread_key_delete()
Delete(k) ==
    /\ InUse(k)
    /\ keys' = [keys EXCEPT ![k].seq = @ + 1]
    /\ UNCHANGED <<tls, th, value>>

EmptyTable == [used |-> FALSE, blocks |-> {0}, slot |-> [k \in Key |-> [seq |-> 0, data |-> 0]]]

Table(t) == IF tls[t] = Null THEN EmptyTable ELSE tls[t]

\* What becomes of the value in a slot that is overwritten.
Dropped(t, k) ==
    LET old == Table(t).slot[k].data IN
    IF old = 0 THEN value ELSE [value EXCEPT ![old].fate = "dropped"]

\* fault: a value in another block than the first does not count as one
SetSpecificUncounted(t, k) ==
    LET n == Len(value) + 1 IN
    /\ UserCode(t) /\ InUse(k) /\ n <= MaxValue
    /\ tls' = [tls EXCEPT ![t] = [used |-> Table(t).used \/ Block(k) = 0,
                                  blocks |-> Table(t).blocks \cup {Block(k)},
                                  slot |-> [Table(t).slot EXCEPT ![k] = [seq |-> keys[k].seq, data |-> n]]]]
    /\ value' = Append(Dropped(t, k), [of |-> t, key |-> k, time |-> keys[k].times, fate |-> "set"])
    /\ UNCHANGED <<keys, th>>

\* thread_setspecific() of a value
SetSpecific(t, k) ==
    LET n == Len(value) + 1 IN
    /\ UserCode(t) /\ InUse(k) /\ n <= MaxValue
    /\ tls' = [tls EXCEPT ![t] = [used |-> TRUE,
                                  blocks |-> Table(t).blocks \cup {Block(k)},
                                  slot |-> [Table(t).slot EXCEPT ![k] = [seq |-> keys[k].seq, data |-> n]]]]
    /\ value' = Append(Dropped(t, k), [of |-> t, key |-> k, time |-> keys[k].times, fate |-> "set"])
    /\ UNCHANGED <<keys, th>>

\* thread_setspecific() of the null pointer: no block is allocated for it.
SetNull(t, k) ==
    /\ UserCode(t) /\ InUse(k)
    /\ tls' = [tls EXCEPT ![t] =
                 IF Block(k) \notin Table(t).blocks THEN Table(t)
                 ELSE [Table(t) EXCEPT !.used = @ \/ Block(k) # 0,
                                       !.slot[k] = [seq |-> keys[k].seq, data |-> 0]]]
    /\ value' = Dropped(t, k)
    /\ UNCHANGED <<keys, th>>

\* What thread_getspecific() returns; 0 is the null pointer.
Got(t, k) ==
    LET s == Table(t).slot[k] IN
    IF Block(k) \in Table(t).blocks /\ s.seq = keys[k].seq THEN s.data ELSE 0

\* thread_getspecific() forgets the value of a key that was deleted.
GetSpecific(t, k) ==
    /\ UserCode(t) /\ tls[t] # Null /\ Block(k) \in tls[t].blocks
    /\ tls[t].slot[k].data # 0 /\ Got(t, k) = 0
    /\ tls' = [tls EXCEPT ![t].slot[k].data = 0]
    /\ value' = Dropped(t, k)
    /\ UNCHANGED <<keys, th>>

----------------------------------------------------------------------------
\* `delete tls`: what is in it now is not destroyed any more.
FreeTls(t) ==
    LET left == {k \in Key : Got(t, k) # 0 /\ keys[k].dtor} IN
    /\ tls' = [tls EXCEPT ![t] = Null]
    /\ value' = [n \in DOMAIN value |->
                   IF n \in {Got(t, k) : k \in left}
                   THEN [value[n] EXCEPT !.fate = IF th[t].round + 1 < Iterations THEN "leaked" ELSE "given up"]
                   ELSE value[n]]
    /\ th' = [th EXCEPT ![t] = [pc |-> "run", pos |-> 0, idx |-> 0, round |-> 0]]
    /\ keys' = keys

\* deallocate_tls(), called when the thread ends or goes back to a pool of threads.
Deallocate(t) ==
    /\ th[t].pc = "run" /\ tls[t] # Null
    /\ IF tls[t].used
       THEN /\ tls' = [tls EXCEPT ![t].used = FALSE]
            /\ th' = [th EXCEPT ![t].pc = "scan"]
            /\ UNCHANGED <<keys, value>>
       ELSE FreeTls(t)

\* fault: the index of the key is that of the slot among the allocated blocks
ScanUncounted(t) ==
    LET k == th[t].pos
        data == tls[t].slot[k].data
        call == data # 0 /\ tls[t].slot[k].seq = keys[th[t].idx].seq /\ keys[th[t].idx].dtor IN
    /\ th[t].pc = "scan" /\ k \in Key
    /\ IF Block(k) \in tls[t].blocks
       THEN /\ tls' = [tls EXCEPT ![t].slot[k].data = 0]
            /\ th' = [th EXCEPT ![t].pc = IF call THEN "dtor" ELSE "scan",
                                ![t].pos = k + 1, ![t].idx = @ + 1]
            /\ value' = IF data = 0 THEN value
                        ELSE [value EXCEPT ![data].fate = IF ~call THEN "dropped"
                                ELSE IF @ = "set" /\ value[data].key = th[t].idx THEN "destroyed" ELSE "misused"]
       ELSE /\ th' = [th EXCEPT ![t].pos = @ + SecondLevel]
            /\ UNCHANGED <<tls, value>>
    /\ keys' = keys

\* One slot, or one absent block, of a round over the table.  The value is always cleared; the
\* destructor is called when the slot's sequence number is the key's.
Scan(t) ==
    LET k == th[t].pos
        data == tls[t].slot[k].data
        call == data # 0 /\ tls[t].slot[k].seq = keys[th[t].idx].seq /\ keys[th[t].idx].dtor IN
    /\ th[t].pc = "scan" /\ k \in Key
    /\ IF Block(k) \in tls[t].blocks
       THEN /\ tls' = [tls EXCEPT ![t].slot[k].data = 0]
            /\ th' = [th EXCEPT ![t].pc = IF call THEN "dtor" ELSE "scan",
                                ![t].pos = k + 1, ![t].idx = @ + 1]
            /\ value' = IF data = 0 THEN value
                        ELSE [value EXCEPT ![data].fate = IF ~call THEN "dropped"
                                ELSE IF @ = "set" /\ value[data].key = th[t].idx THEN "destroyed" ELSE "misused"]
       ELSE /\ th' = [th EXCEPT ![t].pos = @ + SecondLevel, ![t].idx = @ + FirstLevel]
            /\ UNCHANGED <<tls, value>>
    /\ keys' = keys

DtorReturns(t) ==
    /\ th[t].pc = "dtor"
    /\ th' = [th EXCEPT ![t].pc = "scan"]
    /\ UNCHANGED <<keys, tls, value>>

\* The end of a round: another one while destructors have set values, but so many at most.
RoundEnds(t) ==
    /\ th[t].pc = "scan" /\ th[t].pos \notin Key
    /\ IF tls[t].used /\ th[t].round + 1 < Iterations
       THEN /\ tls' = [tls EXCEPT ![t].used = FALSE]
            /\ th' = [th EXCEPT ![t] = [pc |-> "scan", pos |-> 0, idx |-> 0, round |-> @.round + 1]]
            /\ UNCHANGED <<keys, value>>
       ELSE FreeTls(t)

Next ==
    \/ \E dtor \in BOOLEAN : Create(dtor)
    \/ \E k \in Used : Delete(k)
    \/ \E t \in Thread : \/ Deallocate(t) \/ Scan(t) \/ DtorReturns(t) \/ RoundEnds(t)
                         \/ \E k \in Used : SetSpecific(t, k) \/ SetNull(t, k) \/ GetSpecific(t, k)

Spec == Init /\ [][Next]_vars

----------------------------------------------------------------------------
\* A key never shows a value that was set under an earlier key of the same number, or by
\* another thread; and no destructor gets a value twice, or that of another key.
ValuesOfKey ==
    /\ \A t \in Thread, k \in Key : Got(t, k) # 0 =>
          LET v == value[Got(t, k)] IN v.of = t /\ v.key = k /\ v.time = keys[k].times /\ v.fate = "set"
    /\ \A n \in DOMAIN value : value[n].fate # "misused"

\* When the table goes, every value under a key that has a destructor was given to it - unless
\* destructors have set new values for as many rounds as there are.
ValuesDestroyed == \A n \in DOMAIN value : value[n].fate # "leaked"
============================================================================
