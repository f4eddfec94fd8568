----------------------------- MODULE FileCache -----------------------------
(***************************************************************************)
(* The full-file cache (fs/cache): preadv2() and prefetch() of a store     *)
(* (store.cpp, full_file_cache/cache_store.cpp) refill what the media file *)
(* lacks from the source, and FileCachePool (cache_pool.cpp) truncates and *)
(* unlinks the files used longest ago.  The media file system is external  *)
(* and does not fail; reads and writes of file data yield, the rest of its *)
(* operations do not.  FileCachePool makes its ICachePool with no threads  *)
(* for refilling, and then with no threshold; another pool may have them.  *)
(***************************************************************************)
EXTENDS Integers, Sequences, SequencesExt, FiniteSets, FiniteSetsExt

CONSTANTS Thread, File, Pages, Null,
          WaterMark, RiskMark,     \* of the pool, in pages
          Threshold, MaxRefilling, \* m_refilling_threshold, m_max_refilling
          MaxUsed                  \* bound on what totalUsed_ has drifted to

VARIABLES fl,    \* a media file, and its LruEntry
          pool,  \* totalUsed_, isFull_, lru_, and the eviction
          th,    \* callers of a store
          wr     \* the writes of refilled ranges

vars == <<fl, pool, th, wr>>

Page == 1..Pages

NoFile == [idx |-> FALSE, open |-> 0, size |-> 0, tdone |-> FALSE,
           cached |-> {}, long |-> FALSE, rl |-> 0]

Caller == [pc |-> "idle", f |-> Null, input |-> FALSE, need |-> {}, rng |-> {}, zero |-> FALSE]

Off == [pc |-> "off", f |-> Null, size |-> 0, left |-> 0]

Init ==
    /\ fl = [f \in File |-> NoFile]
    /\ pool = [used |-> 0, full |-> FALSE, lru |-> <<>>, ev |-> Off]
    /\ th = [t \in Thread |-> Caller]
    /\ wr = {}

Hull(s) == IF s = {} THEN {} ELSE Min(s)..Max(s)

\* lru_.access(): to the front of the ring.
Access(lru, f) == <<f>> \o SelectSeq(lru, LAMBDA g : g # f)

----------------------------------------------------------------------------
\* ICachePool::open() and do_open(): the stores of a file are one (ObjectCache).
DoOpen(f) ==
    /\ fl[f].open = 0
    /\ fl' = [fl EXCEPT ![f] = IF @.idx THEN [@ EXCEPT !.open = 1] ELSE [NoFile EXCEPT !.idx = TRUE, !.open = 1]]
    /\ pool' = [pool EXCEPT !.lru = Access(@, f)]
    /\ UNCHANGED <<th, wr>>

\* ~FileCacheStore() and removeOpenFile(), of a store that nobody uses.
RemoveOpenFile(f) ==
    /\ fl[f].open = 1
    /\ \A t \in Thread : th[t].f # f
    /\ \A w \in wr : w.f # f
    /\ fl' = [fl EXCEPT ![f].open = 0]
    /\ UNCHANGED <<pool, th, wr>>

\* preadv2() and try_refill_range() begin; only the former has an input to fill.
Begin(t, f, need, input) ==
    /\ th[t].pc = "idle" /\ fl[f].open = 1
    /\ th' = [th EXCEPT ![t] = [Caller EXCEPT !.pc = "try", !.f = f, !.need = need, !.input = input]]
    /\ UNCHANGED <<fl, pool, wr>>

Hole(t) == Hull(th[t].need \ fl[th[t].f].cached)

\* fault: the file is not locked against truncation while it is read
TryHitUnlocked(t) ==
    LET f == th[t].f IN
    /\ th[t].pc \in {"try", "rest"} /\ th[t].input /\ Hole(t) = {}
    /\ fl' = fl
    /\ pool' = [pool EXCEPT !.lru = Access(@, f)]
    /\ th' = [th EXCEPT ![t].pc = "pread"]
    /\ wr' = wr

\* try_preadv2() of pages that are all cached: RLOCK, and read the media file.
TryHit(t) ==
    LET f == th[t].f IN
    /\ th[t].pc \in {"try", "rest"} /\ th[t].input /\ Hole(t) = {}
    /\ fl' = [fl EXCEPT ![f].rl = @ + 1]
    /\ pool' = [pool EXCEPT !.lru = Access(@, f)]
    /\ th' = [th EXCEPT ![t].pc = "pread"]
    /\ wr' = wr

\* do_preadv2() ends: a page that is a hole by now reads as zeros, past the end of the file
\* it is a short read, which the source file makes up for.
Pread(t) ==
    LET f == th[t].f
        hit == th[t].need \subseteq fl[f].cached
    IN
    /\ th[t].pc = "pread"
    /\ fl' = [fl EXCEPT ![f].rl = IF @ > 0 THEN @ - 1 ELSE 0]
    /\ th' = [th EXCEPT ![t].pc = IF hit \/ fl[f].long THEN "done" ELSE "source",
                        ![t].zero = ~hit /\ fl[f].long]
    /\ UNCHANGED <<pool, wr>>

Prefetched(t) ==
    /\ th[t].pc = "try" /\ ~th[t].input /\ Hole(t) = {}
    /\ th' = [th EXCEPT ![t].pc = "done"]
    /\ UNCHANGED <<fl, pool, wr>>

\* range_lock_ of a file: held by who reads the source and until the refill is written.
Locked(f) ==
    UNION ({th[t].rng : t \in {u \in Thread : th[u].f = f /\ th[u].pc = "refill"}}
           \cup {w.rng : w \in {v \in wr : v.f = f}})

\* A miss: with too many refills on their way read the source; otherwise lock the range to
\* refill, or wait for who holds it and try again.
TryMiss(t) ==
    /\ th[t].pc = "try" /\ Hole(t) # {}
    /\ IF th[t].input /\ Cardinality(wr) >= Threshold
       THEN th' = [th EXCEPT ![t].pc = "source"]
       ELSE /\ Hole(t) \cap Locked(th[t].f) = {}
            /\ th' = [th EXCEPT ![t].pc = "refill", ![t].rng = Hole(t)]
    /\ UNCHANGED <<fl, pool, wr>>

\* What of the input the refilled range fills: its front or its tail.
Copied(t) ==
    LET r == th[t].rng  n == th[t].need IN
    IF th[t].input /\ (Min(r) <= Min(n) \/ Max(r) >= Max(n)) THEN n \cap r ELSE {}

\* do_refill_range() after reading the source: copy to the input, and write the range here
\* or in a thread of the pool, which then also unlocks it.
Refill(t) ==
    LET async == th[t].input /\ Copied(t) # {} /\ Cardinality(wr) < MaxRefilling IN
    /\ th[t].pc = "refill"
    /\ wr' = wr \cup {[f |-> th[t].f, rng |-> th[t].rng, pc |-> "write", by |-> IF async THEN Null ELSE t]}
    /\ th' = [th EXCEPT ![t].pc = IF async THEN "written" ELSE "writing", ![t].need = @ \ Copied(t)]
    /\ UNCHANGED <<fl, pool>>

\* The source cannot be read: the range is unlocked, the call fails.
RefillFails(t) ==
    /\ th[t].pc = "refill"
    /\ th' = [th EXCEPT ![t].pc = "done"]
    /\ UNCHANGED <<fl, pool, wr>>

\* After the refill: the rest of the input comes from the cache, if it is all there, or else
\* from the source.
Rest(t) ==
    /\ th[t].pc = "written"
    /\ th' = [th EXCEPT ![t].rng = {},
                        ![t].pc = IF ~th[t].input \/ th[t].need = {} THEN "done" ELSE "rest"]
    /\ UNCHANGED <<fl, pool, wr>>

RestMissing(t) ==
    /\ th[t].pc = "rest" /\ Hole(t) # {}
    /\ th' = [th EXCEPT ![t].pc = "source"]
    /\ UNCHANGED <<fl, pool, wr>>

Return(t) ==
    /\ th[t].pc \in {"done", "source"}
    /\ th' = [th EXCEPT ![t] = Caller]
    /\ UNCHANGED <<fl, pool, wr>>

----------------------------------------------------------------------------
\* The write of a range is over: the range is unlocked, a caller that waits goes on.
Written(w) ==
    /\ wr' = wr \ {w}
    /\ th' = [t \in Thread |-> IF t = w.by THEN [th[t] EXCEPT !.pc = "written"] ELSE th[t]]

\* do_pwritev2() of a full cache: ENOSPC.
WriteRefused(w) ==
    /\ w.pc = "write" /\ pool.full
    /\ Written(w)
    /\ UNCHANGED <<fl, pool>>

\* do_pwritev(): RLOCK, give a truncated media file its size, write.
Write(w) ==
    /\ w.pc = "write" /\ ~pool.full
    /\ fl' = [fl EXCEPT ![w.f].rl = @ + 1, ![w.f].tdone = TRUE, ![w.f].long = @ \/ ~fl[w.f].tdone]
    /\ wr' = (wr \ {w}) \cup {[w EXCEPT !.pc = "pwritev"]}
    /\ UNCHANGED <<pool, th>>

\* eviction() begins, unless it is running: what is above the water mark is to go.
Start(p) ==
    IF p.ev.pc # "off" THEN p
    ELSE IF p.used <= WaterMark THEN [p EXCEPT !.full = FALSE]
    ELSE [p EXCEPT !.full = TRUE, !.ev = [Off EXCEPT !.pc = "pick", !.left = p.used - WaterMark]]

\* fault: the size of a file replaces what the pool counted for it only when it is new
SpaceFirst(p, old, new) == [p EXCEPT !.used = IF old = 0 THEN @ + new ELSE @]

\* updateSpace(): the pool counts what a file has grown by.
Space(p, old, new) == [p EXCEPT !.used = IF new > old THEN @ + new - old ELSE @]

\* pwritev() ends: RUNLOCK, fstat(), updateLru() and updateSpace(), which evicts when the
\* cache is all but full - in this thread, before it unlocks the range.
WriteEnds(w) ==
    LET f == w.f
        new == Cardinality(fl[f].cached \cup w.rng)
        p == [Space(pool, fl[f].size, new) EXCEPT !.lru = Access(@, f)]
        risk == p.used >= RiskMark
    IN
    /\ w.pc = "pwritev"
    /\ fl' = [fl EXCEPT ![f] = [@ EXCEPT !.rl = @ - 1, !.cached = @ \cup w.rng, !.size = new]]
    /\ pool' = IF risk THEN Start([p EXCEPT !.full = TRUE]) ELSE p
    /\ IF risk /\ pool.ev.pc = "off" THEN wr' = (wr \ {w}) \cup {[w EXCEPT !.pc = "recycle"]} /\ th' = th
       ELSE Written(w)

Recycled(w) ==
    /\ w.pc = "recycle" /\ pool.ev.pc = "off"
    /\ Written(w)
    /\ UNCHANGED <<fl, pool>>

----------------------------------------------------------------------------
\* timerHandler()
TimerHandler ==
    /\ pool.ev.pc = "off" /\ Start(pool) # pool
    /\ pool' = Start(pool)
    /\ UNCHANGED <<fl, th, wr>>

\* fault: a file is unlinked although it is open
AfterFtruncateOpen(e) == [e EXCEPT !.size = 0, !.idx = FALSE]

\* afterFtrucate() for the entry: nobody having it open, it is unlinked and erased.
AfterFtruncate(e) == IF e.open = 0 THEN NoFile ELSE [e EXCEPT !.size = 0]

\* afterFtrucate() for the pool.
Counted(p, f) ==
    [p EXCEPT !.used = Max({0, @ - fl[f].size}),
              !.lru = IF fl[f].open = 0 THEN SelectSeq(@, LAMBDA g : g # f) ELSE @]

\* eviction(), one turn: the file used longest ago leaves the ring, or goes to its front while
\* it is open; an empty one is unlinked, any other is to be truncated.
Evict ==
    LET f == Last(pool.lru)
        p == [pool EXCEPT !.lru = IF fl[f].open = 0 THEN Front(@) ELSE Access(@, f)]
    IN
    /\ pool.ev.pc = "pick" /\ pool.ev.left > 0 /\ pool.lru # <<>>
    /\ IF fl[f].size = 0
       THEN /\ fl' = [fl EXCEPT ![f] = IF @.open = 0 THEN AfterFtruncate(@) ELSE @]
            /\ pool' = p
       ELSE /\ fl' = fl
            /\ pool' = [p EXCEPT !.ev = [@ EXCEPT !.pc = "wlock", !.f = f, !.size = fl[f].size]]
    /\ UNCHANGED <<th, wr>>

\* WLOCK, truncate(), afterFtrucate(), yield.
Truncate ==
    LET f == pool.ev.f IN
    /\ pool.ev.pc = "wlock" /\ fl[f].rl = 0
    /\ fl' = [fl EXCEPT ![f] = AfterFtruncate([@ EXCEPT !.cached = {}, !.long = FALSE, !.tdone = FALSE])]
    /\ pool' = [Counted(pool, f) EXCEPT !.ev = [Off EXCEPT !.pc = "pick", !.left = pool.ev.left - pool.ev.size]]
    /\ UNCHANGED <<th, wr>>

EvictEnds ==
    /\ pool.ev.pc = "pick" /\ (pool.ev.left <= 0 \/ pool.lru = <<>>)
    /\ pool' = [pool EXCEPT !.full = FALSE, !.ev = Off]
    /\ UNCHANGED <<fl, th, wr>>

\* CachedFile::fallocate(): a hole, with no read of the file on its way.
PunchHole(f, s) ==
    /\ fl[f].open = 1 /\ (\A t \in Thread : th[t].f # f) /\ pool.used < MaxUsed
    /\ s \cap fl[f].cached # {}
    /\ fl' = [fl EXCEPT ![f].cached = @ \ s]
    /\ UNCHANGED <<pool, th, wr>>

Next ==
    \/ \E f \in File : \/ DoOpen(f) \/ RemoveOpenFile(f)
                       \/ \E i, j \in Page : i <= j /\ PunchHole(f, i..j)
    \/ \E t \in Thread :
          \/ \E f \in File, i, j \in Page, input \in BOOLEAN : i <= j /\ Begin(t, f, i..j, input)
          \/ TryHit(t) \/ Pread(t) \/ Prefetched(t) \/ TryMiss(t) \/ Refill(t) \/ RefillFails(t)
          \/ Rest(t) \/ RestMissing(t) \/ Return(t)
    \/ \E w \in wr : WriteRefused(w) \/ Write(w) \/ WriteEnds(w) \/ Recycled(w)
    \/ TimerHandler \/ Evict \/ Truncate \/ EvictEnds

Spec == Init /\ [][Next]_vars

----------------------------------------------------------------------------
\* No read returns the zeros of a hole: whatever is truncated, refilled or evicted meanwhile,
\* what a read returns came from the source.
NoHoleRead == \A t \in Thread : ~th[t].zero

\* The pool counts at least what the media files occupy: space that is in use is always
\* seen by the next eviction.
SpaceCounted ==
    /\ \A f \in File : Cardinality(fl[f].cached) <= fl[f].size
    /\ MapThenSumSet(LAMBDA f : fl[f].size, File) <= pool.used

\* The entry of an open file is in the index, and no entry that is erased is still in the
\* ring: "nobody hold erased iterator".
OpenIndexed ==
    /\ \A f \in File : fl[f].open = 1 => fl[f].idx
    /\ \A i \in 1..Len(pool.lru) : fl[pool.lru[i]].idx
============================================================================
