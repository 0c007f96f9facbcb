-------------------------------- MODULE Heap --------------------------------
(***************************************************************************)
(* The heaps of MAlloc and Free: alloc.c gives stb_malloc.h its lock, a    *)
(* spinning compare-and-swap, and its memory, mmap, which for code is      *)
(* registered in the table of MemMap.  A request is small (a slot of a     *)
(* chunk that is a medium block itself), medium (a run of units of a       *)
(* region, boundary-tagged and coalesced) or large (a region).  The lock   *)
(* is given up to get a region, and between the small and the medium part  *)
(* of a request.  A section that holds it is two steps where it first      *)
(* finds a block and then changes the lists, otherwise one.                *)
(*                                                                         *)
(* Sizes are units.  A region freed is not unmapped (nop_system_free) nor  *)
(* used again: cache_medium_chunks is never set.                           *)
(***************************************************************************)
EXTENDS MemMap, FiniteSets, FiniteSetsExt

CONSTANTS
  Heaps, CodeHeap,
  Units,        \* of a region that holds medium blocks
  ChunkUnits,   \* of a chunk of small blocks
  Slots,        \* the small blocks of a chunk
  Requests,     \* what a thread asks MAlloc for: "small", "medium", "large"
  MaxLive,      \* allocations at a time (bounds the model)
  Exhausting,   \* whether mmap can fail
  MayFault      \* the threads whose code may fault (bounds the model)

ASSUME HeapAssumption ==
  /\ CodeHeap \in Heaps /\ None \notin Heaps
  /\ Units \in Nat \ {0} /\ ChunkUnits \in 1..Units
  /\ IsFiniteSet(Slots) /\ Cardinality(Slots) > 1
  /\ Requests \in [Threads -> SUBSET {"small", "medium", "large"}]
  /\ MaxLive \in Nat /\ Exhausting \in BOOLEAN /\ MayFault \subseteq Threads

VARIABLES
  held,      \* for each heap, the thread whose compare-and-swap set its lock
  sys,       \* for each region, the heap it belongs to and what it is used for
  free,      \* the blocks on the free lists
  used,      \* the allocated medium blocks, the chunks of small blocks among them
  prevFree,  \* the places whose header says STBM__PREVIOUS_free
  small,     \* for every chunk on a list, its allocated slots
  cache,     \* chunkcache of each heap
  live,      \* what MAlloc has returned and Free has not been given
  loc        \* the locals of a thread

heapvars == <<held, sys, free, used, prevFree, small, cache, live, loc>>
vars == <<mapvars, pc, region, raced, heapvars>>

Block(r, at, n) == [r |-> r, at |-> at, n |-> n]
Blocks == {b \in [r : Regions, at : 0..Units - 1, n : 1..Units] : b.at + b.n <= Units}
Start(b) == <<b.r, b.at>>
End(b) == <<b.r, b.at + b.n>>

Idle == [heap |-> None, want |-> 0, blk |-> None, slot |-> None, chunk |-> FALSE, seen |-> FALSE]

OfHeap(r, h) == sys[r].heap = h
Chunks(h) == {c \in DOMAIN small : OfHeap(c.r, h)}

Init ==
  /\ MapInit /\ raced = FALSE
  /\ pc = [t \in Threads |-> "user"] /\ region = [t \in Threads |-> None]
  /\ held = [h \in Heaps |-> None]
  /\ sys = [r \in Regions |-> [heap |-> None, use |-> "unmapped"]]
  /\ free = {} /\ used = {} /\ prevFree = {}
  /\ small = <<>> /\ cache = [h \in Heaps |-> None]
  /\ live = {}
  /\ loc = [t \in Threads |-> Idle]

Acquire(t, from, to) ==
  /\ Goto(t, from, to)
  /\ held[loc[t].heap] = None
  /\ held' = [held EXCEPT ![loc[t].heap] = t]

Release(t) == held' = [held EXCEPT ![loc[t].heap] = None]

\* The call returns, its locals are gone.
Return(t, from) ==
  /\ Goto(t, from, "user")
  /\ loc' = [loc EXCEPT ![t] = Idle]

-----------------------------------------------------------------------------
(* syscall_MAlloc: malloc_for_templeos, stbm_alloc, stbm__heap_alloc.      *)

MAlloc(t) ==
  /\ pc[t] = "user" /\ Cardinality(live) < MaxLive
  /\ \E h \in Heaps, k \in Requests[t] :
       \/ /\ k = "small"
          /\ pc' = [pc EXCEPT ![t] = "s_lock"]
          /\ loc' = [loc EXCEPT ![t] = [Idle EXCEPT !.heap = h]]
       \/ /\ k = "medium"
          /\ pc' = [pc EXCEPT ![t] = "m_lock"]
          /\ \E n \in 1..Units : loc' = [loc EXCEPT ![t] = [Idle EXCEPT !.heap = h, !.want = n]]
       \/ /\ k = "large"
          /\ pc' = [pc EXCEPT ![t] = "l_map"]
          /\ loc' = [loc EXCEPT ![t] = [Idle EXCEPT !.heap = h]]
  /\ UNCHANGED <<mapvars, region, raced, held, sys, free, used, prevFree, small, cache, live>>

(* stbm__small_alloc *)

\* A chunk that is not full.
SmallPick(t) ==
  /\ Acquire(t, "s_lock", "s_take")
  /\ \E c \in Chunks(loc[t].heap) :
       small[c] # Slots /\ loc' = [loc EXCEPT ![t].blk = c]
  /\ UNCHANGED <<mapvars, region, raced, sys, free, used, prevFree, small, cache, live>>

AllFull(h) == \A c \in Chunks(h) : small[c] = Slots

WithChunk(c) == [d \in DOMAIN small \cup {c} |-> IF d = c THEN {} ELSE small[d]]

SmallCached(t) ==
  LET h == loc[t].heap IN
  /\ Acquire(t, "s_lock", "s_take")
  /\ AllFull(h) /\ cache[h] # None
  /\ loc' = [loc EXCEPT ![t].blk = cache[h]]
  /\ small' = WithChunk(cache[h])
  /\ cache' = [cache EXCEPT ![h] = None]
  /\ UNCHANGED <<mapvars, region, raced, sys, free, used, prevFree, live>>

\* Mutant: the lock is not released ("avoid nesting mutexes").
SmallNoneLocked(t) ==
  LET h == loc[t].heap IN
  /\ Acquire(t, "s_lock", "m_lock")
  /\ AllFull(h) /\ cache[h] = None
  /\ loc' = [loc EXCEPT ![t].want = ChunkUnits, ![t].chunk = TRUE]
  /\ UNCHANGED <<mapvars, region, raced, sys, free, used, prevFree, small, cache, live>>

SmallNone(t) ==
  LET h == loc[t].heap IN
  /\ Goto(t, "s_lock", "m_lock")
  /\ held[h] = None
  /\ AllFull(h) /\ cache[h] = None
  /\ loc' = [loc EXCEPT ![t].want = ChunkUnits, ![t].chunk = TRUE]
  /\ UNCHANGED <<mapvars, region, raced, held, sys, free, used, prevFree, small, cache, live>>

SmallRelock(t) ==
  /\ Acquire(t, "s_relock", "s_take")
  /\ small' = WithChunk(loc[t].blk)
  /\ UNCHANGED <<mapvars, region, raced, sys, free, used, prevFree, cache, live, loc>>

SmallTake(t) ==
  LET c == loc[t].blk
      s == CHOOSE s \in Slots : s \notin small[c]
  IN
  /\ Return(t, "s_take")
  /\ small' = [small EXCEPT ![c] = @ \cup {s}]
  /\ live' = live \cup {[kind |-> "small", blk |-> c, slot |-> s]}
  /\ Release(t)
  /\ UNCHANGED <<mapvars, region, raced, sys, free, used, prevFree, cache>>

(* stbm__medium_alloc *)

Fitting(t) == {b \in free : OfHeap(b.r, loc[t].heap) /\ b.n >= loc[t].want}

\* The first block of the smallest size class that has one.
MediumFind(t) ==
  /\ Acquire(t, "m_lock", "m_split")
  /\ \E b \in Fitting(t) :
       /\ \A c \in Fitting(t) : b.n <= c.n
       /\ free' = free \ {b}
       /\ loc' = [loc EXCEPT ![t].blk = b]
  /\ UNCHANGED <<mapvars, region, raced, sys, used, prevFree, small, cache, live>>

\* There is none: a region is needed, and the lock is given up to get one.
MediumGrow(t) ==
  /\ Goto(t, "m_lock", "g_map")
  /\ held[loc[t].heap] = None
  /\ Fitting(t) = {}
  /\ UNCHANGED <<mapvars, region, raced, held, sys, free, used, prevFree, small, cache, live, loc>>

\* code_heap_system_alloc and data_heap_system_alloc.
SystemAlloc(t, from, to) ==
  /\ Goto(t, from, IF loc[t].heap = CodeHeap THEN "r_test" ELSE to)
  /\ \/ \E r \in Regions :
          /\ sys[r].use = "unmapped"
          /\ sys' = [sys EXCEPT ![r] = [heap |-> loc[t].heap, use |-> "mapped"]]
          /\ region' = [region EXCEPT ![t] = r]
     \/ /\ Exhausting /\ \A r \in Regions : sys[r].use # "unmapped"
        /\ region' = [region EXCEPT ![t] = Failed]
        /\ UNCHANGED sys
  /\ UNCHANGED <<mapvars, raced, held, free, used, prevFree, small, cache, live, loc>>

MediumMap(t) == SystemAlloc(t, "g_map", "g_init")
LargeMap(t) == SystemAlloc(t, "l_map", "l_lock")

\* A large request has no size in units.
Registered(t) ==
  LET to == IF loc[t].want = 0 THEN "l_lock" ELSE "g_init"
  IN  (RegisterLen(t, to) \/ RegisterUnknown(t, to)) /\ UNCHANGED heapvars

\* stbm__medium_init_chunk, "called without any locks taken": the first block says that
\* the one before it is free, and so does the end.
InitChunk(t) ==
  LET r == region[t] IN
  /\ Goto(t, "g_init", "g_lock")
  /\ r # Failed
  /\ prevFree' = prevFree \cup {<<r, 0>>, <<r, Units>>}
  /\ loc' = [loc EXCEPT ![t].blk = Block(r, 0, Units)]
  /\ UNCHANGED <<mapvars, region, raced, held, sys, free, used, small, cache, live>>

\* MAP_FAILED is not NULL, and is written to.
InitChunkFaults(t) ==
  /\ Goto(t, "g_init", "h_lock")
  /\ region[t] = Failed
  /\ region' = [region EXCEPT ![t] = Elsewhere]
  /\ loc' = [loc EXCEPT ![t] = Idle]
  /\ UNCHANGED <<mapvars, raced, held, sys, free, used, prevFree, small, cache, live>>

GrowLock(t) ==
  /\ Acquire(t, "g_lock", "m_split")
  /\ sys' = [sys EXCEPT ![region[t]].use = "medium"]
  /\ region' = [region EXCEPT ![t] = None]
  /\ UNCHANGED <<mapvars, raced, free, used, prevFree, small, cache, live, loc>>

\* What is not needed goes back to a list; the block that follows is told that the one
\* before it is allocated.
MediumSplit(t) ==
  LET b == loc[t].blk
      a == Block(b.r, b.at, loc[t].want)
  IN
  /\ Goto(t, "m_split", IF loc[t].chunk THEN "s_relock" ELSE "a_load")
  /\ free' = IF a = b THEN free ELSE free \cup {Block(b.r, b.at + a.n, b.n - a.n)}
  /\ used' = used \cup {a}
  /\ prevFree' = prevFree \ {End(a)}
  /\ Release(t)
  /\ loc' = [loc EXCEPT ![t].blk = a]
  /\ UNCHANGED <<mapvars, region, raced, sys, small, cache, live>>

\* stbm__alloc_normal sets the user data bits of the header: a load and a store of all of
\* it, after the lock has been released.
AllocLoad(t) ==
  /\ Goto(t, "a_load", "a_store")
  /\ loc' = [loc EXCEPT ![t].seen = Start(loc[t].blk) \in prevFree]
  /\ UNCHANGED <<mapvars, region, raced, held, sys, free, used, prevFree, small, cache, live>>

AllocStore(t) ==
  LET b == loc[t].blk IN
  /\ Return(t, "a_store")
  /\ prevFree' = IF loc[t].seen THEN prevFree \cup {Start(b)} ELSE prevFree \ {Start(b)}
  /\ live' = live \cup {[kind |-> "medium", blk |-> b]}
  /\ UNCHANGED <<mapvars, region, raced, held, sys, free, used, small, cache>>

(* stbm__large_alloc *)

LargeLink(t) ==
  /\ Return(t, "l_lock")
  /\ held[loc[t].heap] = None /\ region[t] # Failed
  /\ sys' = [sys EXCEPT ![region[t]].use = "large"]
  /\ live' = live \cup {[kind |-> "large", r |-> region[t]]}
  /\ region' = [region EXCEPT ![t] = None]
  /\ UNCHANGED <<mapvars, raced, held, free, used, prevFree, small, cache>>

\* stbm__system_alloc_link writes to MAP_FAILED with the lock held, which stays so.
LargeLinkFaults(t) ==
  /\ Acquire(t, "l_lock", "h_lock")
  /\ region[t] = Failed
  /\ region' = [region EXCEPT ![t] = Elsewhere]
  /\ loc' = [loc EXCEPT ![t] = Idle]
  /\ UNCHANGED <<mapvars, raced, sys, free, used, prevFree, small, cache, live>>

-----------------------------------------------------------------------------
(* syscall_Free: free_for_templeos, stbm_free, stbm__heap_free.  Any       *)
(* thread frees what is live, once.                                        *)

Free(t) ==
  /\ pc[t] = "user"
  /\ \E x \in live :
       /\ live' = live \ {x}
       /\ \/ /\ x.kind = "small"
             /\ pc' = [pc EXCEPT ![t] = "fs_lock"]
             /\ loc' = [loc EXCEPT ![t] = [Idle EXCEPT !.heap = sys[x.blk.r].heap,
                                                       !.blk = x.blk, !.slot = x.slot]]
             /\ UNCHANGED region
          \/ /\ x.kind = "medium"
             /\ pc' = [pc EXCEPT ![t] = "fm_lock"]
             /\ loc' = [loc EXCEPT ![t] = [Idle EXCEPT !.heap = sys[x.blk.r].heap,
                                                       !.blk = x.blk]]
             /\ UNCHANGED region
          \/ /\ x.kind = "large"
             /\ pc' = [pc EXCEPT ![t] = "fl_lock"]
             /\ loc' = [loc EXCEPT ![t] = [Idle EXCEPT !.heap = sys[x.r].heap]]
             /\ region' = [region EXCEPT ![t] = x.r]
  /\ UNCHANGED <<mapvars, raced, held, sys, free, used, prevFree, small, cache>>

(* stbm__small_free *)

\* A chunk that becomes empty is kept if there is no such chunk yet ("cache one smallblock
\* chunk for hysteresis"), otherwise freed, without the lock.
SmallFree(t) ==
  LET c == loc[t].blk
      h == loc[t].heap
      others == [d \in DOMAIN small \ {c} |-> small[d]]
      left == small[c] \ {loc[t].slot}
  IN
  /\ pc[t] = "fs_lock" /\ held[h] = None
  /\ \/ /\ left # {} /\ Return(t, "fs_lock")
        /\ small' = [small EXCEPT ![c] = left]
        /\ UNCHANGED cache
     \/ /\ left = {} /\ cache[h] = None /\ Return(t, "fs_lock")
        /\ small' = others
        /\ cache' = [cache EXCEPT ![h] = c]
     \/ /\ left = {} /\ cache[h] # None /\ Goto(t, "fs_lock", "fm_lock")
        /\ small' = others
        /\ UNCHANGED <<cache, loc>>
  /\ UNCHANGED <<mapvars, region, raced, held, sys, free, used, prevFree, live>>

(* stbm__medium_free *)

Before(b) == {p \in free : End(p) = Start(b)}
After(b) == {f \in free : Start(f) = End(b)}

\* One block of blocks that follow each other.
Joined(parts) ==
  LET lo == Min({x.at : x \in parts})
      hi == Max({x.at + x.n : x \in parts})
  IN  Block((CHOOSE x \in parts : TRUE).r, lo, hi - lo)

\* Mutant: the block that follows is taken in, but stays on its list.
MediumFreeMergeKeeps(t) ==
  LET b == loc[t].blk
      merge == b.at > 0 /\ Start(b) \in prevFree
      p == IF merge THEN Before(b) ELSE {}
      parts == {b} \cup p \cup After(b)
  IN
  /\ pc[t] = "fm_lock" /\ held[loc[t].heap] = None
  /\ IF End(b) \in prevFree \/ (merge /\ p = {}) THEN Break
     ELSE pc' = [pc EXCEPT ![t] = "fm_link"]
  /\ held' = [held EXCEPT ![loc[t].heap] = t]
  /\ used' = used \ {b}
  /\ free' = free \ p
  /\ loc' = [loc EXCEPT ![t].blk = Joined(parts)]
  /\ prevFree' = prevFree \ {Start(x) : x \in p}
  /\ UNCHANGED <<mapvars, region, raced, sys, small, cache, live>>

\* The block takes in the free blocks after it and, if its header says that there is one,
\* before it; it is then the place after an allocated block, also at the start of a region.
\* Where the header is wrong, what is taken for the size of a block is not: an assertion
\* ends the process, or memory is overwritten.
MediumFreeMerge(t) ==
  LET b == loc[t].blk
      merge == b.at > 0 /\ Start(b) \in prevFree
      p == IF merge THEN Before(b) ELSE {}
      parts == {b} \cup p \cup After(b)
  IN
  /\ pc[t] = "fm_lock" /\ held[loc[t].heap] = None
  /\ IF End(b) \in prevFree \/ (merge /\ p = {}) THEN Break
     ELSE pc' = [pc EXCEPT ![t] = "fm_link"]
  /\ held' = [held EXCEPT ![loc[t].heap] = t]
  /\ used' = used \ {b}
  /\ free' = free \ parts
  /\ loc' = [loc EXCEPT ![t].blk = Joined(parts)]
  /\ prevFree' = prevFree \ {Start(x) : x \in p}
  /\ UNCHANGED <<mapvars, region, raced, sys, small, cache, live>>

\* The freed block is the first of its region, which its header says, and the last.
Whole(b) == b.n = Units /\ Start(b) \in prevFree

\* stbm__medium_free_chunk: the region is forgotten.
MediumFreeChunk(t) ==
  LET b == loc[t].blk IN
  /\ Return(t, "fm_link")
  /\ Whole(b)
  /\ sys' = [sys EXCEPT ![b.r].use = "dropped"]
  /\ prevFree' = prevFree \ {Start(b), End(b)}
  /\ Release(t)
  /\ UNCHANGED <<mapvars, region, raced, free, used, small, cache, live>>

MediumFreeLink(t) ==
  LET b == loc[t].blk IN
  /\ Return(t, "fm_link")
  /\ ~Whole(b)
  /\ free' = free \cup {b}
  /\ prevFree' = prevFree \cup {End(b)}
  /\ Release(t)
  /\ UNCHANGED <<mapvars, region, raced, sys, used, small, cache, live>>

(* stbm__large_free *)

LargeFree(t) ==
  /\ Return(t, "fl_lock")
  /\ held[loc[t].heap] = None
  /\ sys' = [sys EXCEPT ![region[t]].use = "dropped"]
  /\ region' = [region EXCEPT ![t] = None]
  /\ UNCHANGED <<mapvars, raced, held, free, used, prevFree, small, cache, live>>

-----------------------------------------------------------------------------
\* The code of a task faults: in code that is in a block of the code heap, or elsewhere.
Fault(t) ==
  /\ t \in MayFault
  /\ Goto(t, "user", "h_lock")
  /\ \E a \in {Elsewhere} \cup {x.r : x \in {y \in live : y.kind = "large"}}
                \cup {x.blk.r : x \in {y \in live : y.kind # "large"}} :
       /\ a # Elsewhere => sys[a].heap = CodeHeap
       /\ region' = [region EXCEPT ![t] = a]
  /\ UNCHANGED <<mapvars, raced, heapvars>>

-----------------------------------------------------------------------------
Alloc(t) ==
  \/ SmallPick(t) \/ SmallCached(t) \/ SmallNone(t) \/ SmallRelock(t)
  \/ SmallTake(t) \/ MediumFind(t) \/ MediumGrow(t) \/ MediumMap(t)
  \/ InitChunk(t) \/ InitChunkFaults(t) \/ GrowLock(t) \/ MediumSplit(t)
  \/ AllocLoad(t) \/ AllocStore(t) \/ LargeMap(t) \/ LargeLink(t) \/ LargeLinkFaults(t)

FreeStep(t) ==
  \/ SmallFree(t) \/ MediumFreeMerge(t)
  \/ MediumFreeChunk(t) \/ MediumFreeLink(t) \/ LargeFree(t)

MapStep(t) ==
  \/ RegisterTest(t) /\ UNCHANGED heapvars
  \/ RegisterRace(t) /\ UNCHANGED heapvars
  \/ RegisterGrow(t) /\ UNCHANGED heapvars
  \/ RegisterMoved(t) /\ UNCHANGED heapvars
  \/ RegisterEntry(t) /\ UNCHANGED heapvars
  \/ HandlerLock(t) /\ UNCHANGED heapvars
  \/ LookupLen(t) /\ UNCHANGED heapvars
  \/ LookupRead(t) /\ UNCHANGED heapvars
  \/ HandlerExit(t) /\ UNCHANGED heapvars

Step(t) == Alloc(t) \/ FreeStep(t) \/ MapStep(t) \/ Registered(t)

Next == \E t \in Threads : MAlloc(t) \/ Free(t) \/ Fault(t) \/ Step(t)

Spec == Init /\ [][Next]_vars

\* A thread inside one of these functions is scheduled again and again; nobody has to
\* call one, or to fault.
FairSpec == Spec /\ \A t \in Threads : WF_vars(Step(t))

-----------------------------------------------------------------------------
(* Properties.                                                             *)

\* The blocks of a region: on a list, allocated, or in the hands of a thread.
Pieces(r) ==
  {<<b, "free", None>> : b \in {x \in free : x.r = r}}
  \cup {<<b, "used", None>> : b \in {x \in used : x.r = r}}
  \cup {<<loc[t].blk, "hand", t>> :
          t \in {u \in Threads : pc[u] \in {"m_split", "fm_link"} /\ loc[u].blk.r = r}}

Tiled(r) ==
  \A n \in 0..Units - 1 :
    \E p \in Pieces(r) : \A q \in Pieces(r) :
      q[1].at <= n /\ n < q[1].at + q[1].n <=> q = p

\* Every unit of a region is in one block: two requests never get the same memory, none is
\* lost, and what Free is given back comes from there.
BlocksApart ==
  ~Broken =>
    /\ \A r \in Regions : sys[r].use = "medium" => Tiled(r)
    /\ \A x \in live :
         \/ x.kind = "small" /\ x.blk \in used \cap DOMAIN small /\ x.slot \in small[x.blk]
         \/ x.kind = "medium" /\ x.blk \in used \ DOMAIN small
         \/ x.kind = "large" /\ sys[x.r].use = "large"

\* When nobody works on the lists of a heap, the header of an allocated block says that
\* the block before it is free exactly if it is (or if there is none).
TagsRight ==
  ~Broken =>
    \A b \in used : b.at > 0 /\ held[sys[b.r].heap] = None =>
      (Start(b) \in prevFree <=> Before(b) # {})

\* is_templeos_memory beside a registration that moves the table: its answer is wrong only if
\* realloc freed v between the load of v and the read of the entry that decides, which is the
\* one that holds the address, or, of an address in none, the one it was found in.  Tables
\* moved at any other moment of the look-up do no harm.  Two threads that register at once
\* are set aside: what the table holds is then unknown.
WrongOnlyIfMoved ==
  ~raced /\ ~Broken =>
    \A t \in Threads : pc[t] = "h_done" =>
      /\ verdict[t] /\ region[t] = Elsewhere => i[t] \in misread[t]
      /\ ~verdict[t] /\ region[t] # Elsewhere =>
           \E k \in misread[t] : k <= len /\ table[k] = region[t]

\* The lock of a heap whose owner has faulted is never released.
Stuck(h) == held[h] # None /\ pc[held[h]] \in {"h_lock", "h_len", "h_read", "h_done", "dead"}

\* The lock is not fair: a call of MAlloc or Free returns once the other threads make none
\* (or its thread faults, for lack of memory).
CallsEnd ==
  \A t \in Threads :
    <>[](\A u \in Threads \ {t} : pc[u] \in {"user", "dead"}) =>
      (pc[t] # "user" ~> pc[t] \in {"user", "dead"} \/ Broken \/ \E h \in Heaps : Stuck(h))
=============================================================================
