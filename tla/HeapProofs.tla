----------------------------- MODULE HeapProofs ------------------------------
(***************************************************************************)
(* Theorems about Heap for any number of threads, heaps and regions, any   *)
(* sizes, and whatever fails.                                              *)
(***************************************************************************)
EXTENDS Heap, FiniteSetTheorems, SequenceTheorems, WellFoundedInduction, TLAPS

\* Outside of the allocator; with a region from mmap that is in no list yet; with a lock
\* held; with an allocated block that is not the caller's (or no longer).
PlainPCs == {"user", "h_lock", "h_len", "h_read", "h_done", "dead"}
RegPCs == {"r_test", "r_grow", "r_moved", "r_entry", "r_len", "g_init", "l_lock"}
MapPCs == RegPCs \cup {"g_lock"}
HandPCs == {"m_split", "fm_link"}
LockPCs == HandPCs \cup {"s_take"}
HoldPCs == {"s_relock", "a_load", "a_store", "fm_lock"}
SizePCs == {"m_lock", "g_map", "g_init", "g_lock", "m_split"}
WorkPCs == MapPCs \cup LockPCs \cup HoldPCs
             \cup {"s_lock", "m_lock", "g_map", "l_map", "fs_lock", "fl_lock"}
PCs == PlainPCs \cup WorkPCs

Local == [heap : Heaps \cup {None}, want : 0..Units, blk : Blocks \cup {None},
          slot : Slots \cup {None}, chunk : BOOLEAN, seen : BOOLEAN]
Places == Regions \cup {None, Failed, Elsewhere}
Uses == {"unmapped", "mapped", "medium", "large", "dropped"}
SmallLive == [kind : {"small"}, blk : Blocks, slot : Slots]
MediumLive == [kind : {"medium"}, blk : Blocks]
LargeLive == [kind : {"large"}, r : Regions]
Medium(b) == [kind |-> "medium", blk |-> b]
Small(b, s) == [kind |-> "small", blk |-> b, slot |-> s]
Large(r) == [kind |-> "large", r |-> r]

Typed ==
  /\ pc \in [Threads -> PCs]
  /\ region \in [Threads -> Places]
  /\ held \in [Heaps -> Threads \cup {None}]
  /\ sys \in [Regions -> [heap : Heaps \cup {None}, use : Uses]]
  /\ free \subseteq Blocks /\ used \subseteq Blocks
  /\ DOMAIN small \subseteq Blocks /\ small \in [DOMAIN small -> SUBSET Slots]
  /\ cache \in [Heaps -> Blocks \cup {None}]
  /\ live \subseteq SmallLive \cup MediumLive \cup LargeLive
  /\ loc \in [Threads -> Local]

\* A thread inside works on a heap, with its lock held where it has to be; a request for a
\* medium block has a size.
Working ==
  \A t \in Threads :
    /\ pc[t] \in WorkPCs => loc[t].heap \in Heaps
    /\ pc[t] \in LockPCs => held[loc[t].heap] = t
    /\ pc[t] \in SizePCs => loc[t].want \in 1..Units

\* A region that mmap has returned is nobody else's until it is linked.
RegionsApart ==
  /\ \A r \in Regions : sys[r].use # "unmapped" => sys[r].heap \in Heaps
  /\ \A t \in Threads :
       /\ pc[t] \in RegPCs => region[t] \in Regions \cup {Failed}
       /\ pc[t] = "g_lock" => region[t] \in Regions /\ loc[t].blk = Block(region[t], 0, Units)
       /\ pc[t] \in MapPCs /\ region[t] \in Regions =>
            /\ sys[region[t]] = [heap |-> loc[t].heap, use |-> "mapped"]
            /\ \A u \in Threads \ {t} : pc[u] \in MapPCs => region[u] # region[t]

\* Large allocations have a region of their own.
LargeApart ==
  /\ \A r \in Regions : Large(r) \in live => sys[r].use = "large"
  /\ \A t \in Threads : pc[t] = "fl_lock" =>
       /\ region[t] \in Regions /\ sys[region[t]].use = "large" /\ Large(region[t]) \notin live
       /\ \A u \in Threads \ {t} : pc[u] = "fl_lock" => region[u] # region[t]

\* An allocated medium block has one owner: the caller, the list of chunks, the cache, or
\* the thread that allocates or frees it.
MediumOwned ==
  /\ DOMAIN small \subseteq used
  /\ \A b \in Blocks : Medium(b) \in live => b \in used \ DOMAIN small
  /\ \A h \in Heaps : cache[h] # None =>
       /\ cache[h] \in used \ DOMAIN small /\ sys[cache[h].r].heap = h
       /\ Medium(cache[h]) \notin live
  /\ \A t \in Threads : pc[t] \in HoldPCs =>
       /\ loc[t].blk \in used \ DOMAIN small /\ Medium(loc[t].blk) \notin live
       /\ \A h \in Heaps : cache[h] # None => cache[h] # loc[t].blk
       /\ \A u \in Threads \ {t} : pc[u] \in HoldPCs => loc[u].blk # loc[t].blk
       /\ pc[t] = "s_relock" => sys[loc[t].blk.r].heap = loc[t].heap

\* So has an allocated slot of a chunk: the caller, or the thread that frees it.
SmallOwned ==
  /\ \A b \in Blocks, s \in Slots : Small(b, s) \in live => b \in DOMAIN small /\ s \in small[b]
  /\ \A t \in Threads :
       pc[t] \in {"s_take", "fs_lock"} =>
         loc[t].blk \in DOMAIN small /\ sys[loc[t].blk.r].heap = loc[t].heap
  /\ \A t \in Threads : pc[t] = "s_take" => small[loc[t].blk] # Slots
  /\ \A t \in Threads : pc[t] = "fs_lock" =>
       /\ loc[t].slot \in small[loc[t].blk] /\ Small(loc[t].blk, loc[t].slot) \notin live
       /\ \A u \in Threads \ {t} : pc[u] = "fs_lock" /\ loc[u].blk = loc[t].blk
                                    => loc[u].slot # loc[t].slot

\* The units of a block; that two have one in common.
In(b, n) == b.at <= n /\ n < b.at + b.n
Meet(b, c) == b.r = c.r /\ b.at < c.at + c.n /\ c.at < b.at + b.n

\* No two blocks have a unit in common, and every unit of a region is in one.
Apart ==
  /\ \A b, c \in free : Meet(b, c) => b = c
  /\ \A b, c \in used : Meet(b, c) => b = c
  /\ \A b \in free, c \in used : ~Meet(b, c)
  /\ \A t \in Threads : pc[t] \in HandPCs =>
       /\ loc[t].blk \in Blocks
       /\ \A b \in free \cup used : ~Meet(loc[t].blk, b)
       /\ \A u \in Threads \ {t} : pc[u] \in HandPCs => ~Meet(loc[t].blk, loc[u].blk)

InMedium ==
  /\ \A b \in free \cup used : sys[b.r].use = "medium"
  /\ \A t \in Threads :
       /\ pc[t] \in HandPCs => sys[loc[t].blk.r].use = "medium"
       /\ pc[t] = "m_split" => loc[t].want <= loc[t].blk.n /\ sys[loc[t].blk.r].heap = loc[t].heap

Covered ==
  \A r \in Regions, n \in 0..Units - 1 : sys[r].use = "medium" =>
    \/ \E b \in free \cup used : b.r = r /\ In(b, n)
    \/ \E t \in Threads : pc[t] \in HandPCs /\ loc[t].blk.r = r /\ In(loc[t].blk, n)

HeapInv ==
  /\ Typed /\ Working /\ RegionsApart /\ LargeApart /\ MediumOwned /\ SmallOwned
  /\ Apart /\ InMedium /\ Covered

\* After an assertion has failed nothing is claimed.
AllBroken == Broken /\ \A t \in Threads : pc[t] = "broken"
IInv == AllBroken \/ HeapInv

\* The table, unless two threads have registered at once: what it holds up to len, who writes
\* behind that, and which regions it knows.
LookPCs == {"h_lock", "h_len", "h_read", "h_done"}
ListedPCs == {"g_init", "g_lock", "l_lock"}
ListedUses == {"medium", "large", "dropped"}
Listed(r) == \E k \in 1..len : table[k] = r

Entries ==
  /\ table \in Seq(Regions \cup {Failed, Clear, Unknown}) /\ Len(table) > 0
  /\ len \in Nat /\ len <= Len(table)
  /\ \A k \in 1..len : table[k] \in Regions \cup {Failed}

OneRegisters ==
  /\ \A t, u \in Threads : pc[t] \in Registering /\ pc[u] \in Registering => t = u
  /\ \A t \in Threads :
       /\ pc[t] \in {"r_moved", "r_entry", "r_len"} => len < Len(table)
       /\ pc[t] = "r_len" => table[len + 1] = region[t]

AllListed ==
  /\ \A r \in Regions : sys[r].heap = CodeHeap /\ sys[r].use \in ListedUses => Listed(r)
  /\ \A t \in Threads :
       pc[t] \in ListedPCs /\ loc[t].heap = CodeHeap /\ region[t] \in Regions => Listed(region[t])

\* What WrongOnlyIfMoved says of an answer.
Decided(t) ==
  /\ verdict[t] /\ region[t] = Elsewhere => i[t] \in misread[t]
  /\ ~verdict[t] /\ region[t] # Elsewhere =>
       \E k \in misread[t] : k <= len /\ table[k] = region[t]

\* What a look-up has passed over does not hold the address, or was read in freed memory.
LookupAt(t) ==
  /\ i[t] \in Nat /\ verdict[t] \in BOOLEAN /\ misread[t] \subseteq 1..i[t]
  /\ pc[t] \notin LookPCs \ {"h_lock"} => i[t] = 0 /\ ~verdict[t]
  /\ pc[t] \in LookPCs =>
       region[t] \in Regions \cup {Elsewhere} /\ (region[t] \in Regions => Listed(region[t]))
  /\ pc[t] \in {"h_len", "h_read"} =>
       i[t] <= len /\ ~verdict[t] /\ \A k \in 1..i[t] : table[k] = region[t] => k \in misread[t]
  /\ pc[t] = "h_read" => i[t] < len
  /\ pc[t] = "h_done" => Decided(t)

Lookups ==
  /\ i \in [Threads -> Nat] /\ verdict \in [Threads -> BOOLEAN]
  /\ misread \in [Threads -> SUBSET Nat]
  /\ \A t \in Threads : LookupAt(t)

TableInv == Entries /\ OneRegisters /\ AllListed /\ Lookups
TraceInv == Broken \/ raced \/ TableInv

-----------------------------------------------------------------------------
(* Blocks, and what MAlloc returns.                                        *)

LEMMA BlockFields ==
  ASSUME NEW b \in Blocks
  PROVE  /\ b.r \in Regions /\ b.at \in Nat /\ b.n \in Nat /\ b.n > 0
         /\ b.at < Units /\ b.at + b.n <= Units
         /\ b = Block(b.r, b.at, b.n)
  BY HeapAssumption DEF Blocks, Block

LEMMA BlockIs ==
  ASSUME NEW r \in Regions, NEW at \in Nat, NEW n \in Nat, n > 0, at + n <= Units
  PROVE  Block(r, at, n) \in Blocks
  BY HeapAssumption DEF Blocks, Block

LEMMA LiveForms ==
  ASSUME NEW x \in SmallLive \cup MediumLive \cup LargeLive
  PROVE  \/ x.kind = "small" /\ x.blk \in Blocks /\ x.slot \in Slots /\ x = Small(x.blk, x.slot)
         \/ x.kind = "medium" /\ x.blk \in Blocks /\ x = Medium(x.blk)
         \/ x.kind = "large" /\ x.r \in Regions /\ x = Large(x.r)
  BY DEF SmallLive, MediumLive, LargeLive, Small, Medium, Large

LEMMA FormsDiffer ==
  ASSUME NEW a, NEW b, NEW s, NEW r
  PROVE  /\ Small(a, s) # Medium(b) /\ Small(a, s) # Large(r) /\ Medium(b) # Large(r)
         /\ Medium(a) = Medium(b) => a = b
  <1>1. /\ Small(a, s).kind = "small" /\ Medium(b).kind = "medium" /\ Large(r).kind = "large"
        /\ Medium(a).blk = a /\ Medium(b).blk = b
    BY DEF Small, Medium, Large
  <1>. QED  BY <1>1

LEMMA SmallsDiffer ==
  ASSUME NEW a, NEW b, NEW s, NEW c, Small(a, s) = Small(b, c)
  PROVE  a = b /\ s = c
  <1>1. Small(a, s).blk = a /\ Small(a, s).slot = s /\ Small(b, c).blk = b /\ Small(b, c).slot = c
    BY DEF Small
  <1>. QED  BY <1>1

LEMMA LargesDiffer ==
  ASSUME NEW q, NEW r, Large(q) = Large(r)
  PROVE  q = r
  <1>1. Large(q).r = q /\ Large(r).r = r
    BY DEF Large
  <1>. QED  BY <1>1

\* The least and the greatest of a set of numbers.
LEMMA MinIs ==
  ASSUME NEW S \in SUBSET Int, NEW m \in S, \A x \in S : m <= x
  PROVE  Min(S) = m
  <1>. DEFINE Is(x) == x \in S /\ \A y \in S : x <= y
  <1>1. Min(S) = CHOOSE x : Is(x)
    BY DEF Min
  <1>2. \A x : Is(x) => x = m
    OBVIOUS
  <1>3. Is(m)
    OBVIOUS
  <1>. HIDE DEF Is
  <1>. QED  BY <1>1, <1>2, <1>3, Zenon

LEMMA MaxIs ==
  ASSUME NEW S \in SUBSET Int, NEW m \in S, \A x \in S : x <= m
  PROVE  Max(S) = m
  <1>. DEFINE Is(x) == x \in S /\ \A y \in S : x >= y
  <1>1. Max(S) = CHOOSE x : Is(x)
    BY DEF Max
  <1>2. \A x : Is(x) => x = m
    OBVIOUS
  <1>3. Is(m)
    OBVIOUS
  <1>. HIDE DEF Is
  <1>. QED  BY <1>1, <1>2, <1>3, Zenon

-----------------------------------------------------------------------------
(* Steps of a registration and of the handler, which leave the heap alone. *)

RegMove(t) ==
  /\ pc[t] \in RegPCs
  /\ \E to \in RegPCs : pc' = [pc EXCEPT ![t] = to] /\ (to = "g_init" => loc[t].want # 0)
  /\ UNCHANGED <<region, heapvars>>

PlainMove(t) ==
  /\ pc[t] \in PlainPCs
  /\ \E to \in PlainPCs : pc' = [pc EXCEPT ![t] = to]
  /\ \E x \in Places : region' = [region EXCEPT ![t] = x]
  /\ UNCHANGED heapvars

LEMMA RegMoves ==
  ASSUME Typed, NEW t \in Threads, ~Break,
         \/ RegisterTest(t) /\ UNCHANGED heapvars
         \/ RegisterRace(t) /\ UNCHANGED heapvars
         \/ RegisterGrow(t) /\ UNCHANGED heapvars
         \/ RegisterMoved(t) /\ UNCHANGED heapvars
         \/ RegisterEntry(t) /\ UNCHANGED heapvars
         \/ Registered(t)
  PROVE  RegMove(t)
  <1>1. CASE (RegisterTest(t) \/ RegisterRace(t)) /\ UNCHANGED heapvars
    BY <1>1 DEF RegisterTest, RegisterRace, Goto, RegMove, RegPCs
  <1>2. CASE (RegisterGrow(t) \/ RegisterMoved(t) \/ RegisterEntry(t)) /\ UNCHANGED heapvars
    BY <1>2 DEF RegisterGrow, RegisterMoved, RegisterEntry, Goto, RegMove, RegPCs
  <1>3. CASE Registered(t)
    <2>. DEFINE to == IF loc[t].want = 0 THEN "l_lock" ELSE "g_init"
    <2>1. (RegisterLen(t, to) \/ RegisterUnknown(t, to)) /\ UNCHANGED heapvars
      BY <1>3 DEF Registered
    <2>2. pc[t] \in RegPCs
      BY <2>1 DEF RegisterLen, RegisterUnknown, Registering, Goto, RegPCs
    <2>4. pc' = [pc EXCEPT ![t] = to] /\ UNCHANGED region
      BY <2>1 DEF RegisterLen, RegisterUnknown, Goto
    <2>5. to \in RegPCs /\ (to = "g_init" => loc[t].want # 0)
      BY DEF RegPCs
    <2>. HIDE DEF to
    <2>. QED  BY <2>1, <2>2, <2>4, <2>5 DEF RegMove
  <1>. QED  BY <1>1, <1>2, <1>3

LEMMA PlainMoves ==
  ASSUME Typed, NEW t \in Threads,
         \/ Fault(t)
         \/ HandlerLock(t) /\ UNCHANGED heapvars
         \/ LookupLen(t) /\ UNCHANGED heapvars
         \/ LookupRead(t) /\ UNCHANGED heapvars
         \/ HandlerExit(t) /\ UNCHANGED heapvars
  PROVE  PlainMove(t)
  <1>1. region[t] \in Places /\ region = [region EXCEPT ![t] = region[t]]
    BY DEF Typed
  <1>2. CASE Fault(t)
    <2>1. PICK a \in {Elsewhere} \cup {x.r : x \in {y \in live : y.kind = "large"}}
                    \cup {x.blk.r : x \in {y \in live : y.kind # "large"}} :
            region' = [region EXCEPT ![t] = a]
      BY <1>2 DEF Fault
    <2>2. \A y \in live : y.kind = "large" => y.r \in Regions
      BY LiveForms DEF Typed
    <2>3. \A y \in live : y.kind # "large" => y.blk.r \in Regions
      BY LiveForms, BlockFields DEF Typed
    <2>4. a \in Places
      BY <2>2, <2>3 DEF Places
    <2>. QED  BY <1>2, <2>1, <2>4 DEF Fault, Goto, PlainMove, PlainPCs
  <1>3. CASE HandlerLock(t) /\ UNCHANGED heapvars
    BY <1>1, <1>3 DEF HandlerLock, Goto, PlainMove, PlainPCs
  <1>4. CASE LookupLen(t) /\ UNCHANGED heapvars
    BY <1>1, <1>4 DEF LookupLen, Goto, PlainMove, PlainPCs
  <1>5. CASE LookupRead(t) /\ UNCHANGED heapvars
    BY <1>1, <1>5 DEF LookupRead, PlainMove, PlainPCs
  <1>6. CASE HandlerExit(t) /\ UNCHANGED heapvars
    BY <1>6 DEF HandlerExit, Goto, PlainMove, PlainPCs, Places
  <1>. QED  BY <1>2, <1>3, <1>4, <1>5, <1>6

-----------------------------------------------------------------------------
(* What MediumFreeMerge joins: the block, at most one before it, at most   *)
(* one after it.                                                           *)

LEMMA Neighbours ==
  ASSUME Typed, Apart, NEW b \in Blocks
  PROVE  /\ \A x \in Before(b) : x \in Blocks /\ x \in free /\ x.r = b.r /\ x.at + x.n = b.at
         /\ \A x \in After(b) : x \in Blocks /\ x \in free /\ x.r = b.r /\ b.at + b.n = x.at
         /\ \A x, y \in Before(b) : x = y
         /\ \A x, y \in After(b) : x = y
  <1>1. \A x \in Before(b) : x \in Blocks /\ x \in free /\ x.r = b.r /\ x.at + x.n = b.at
    BY DEF Before, Start, End, Typed
  <1>2. \A x \in After(b) : x \in Blocks /\ x \in free /\ x.r = b.r /\ b.at + b.n = x.at
    BY DEF After, Start, End, Typed
  <1>3. ASSUME NEW x \in Before(b), NEW y \in Before(b)
        PROVE  x = y
    <2>1. Meet(x, y)
      BY <1>1, <1>3, BlockFields DEF Meet
    <2>. QED  BY <1>1, <2>1 DEF Apart
  <1>4. ASSUME NEW x \in After(b), NEW y \in After(b)
        PROVE  x = y
    <2>1. Meet(x, y)
      BY <1>2, <1>4, BlockFields DEF Meet
    <2>. QED  BY <1>2, <2>1 DEF Apart
  <1>. QED  BY <1>1, <1>2, <1>3, <1>4

LEMMA JoinedIs ==
  ASSUME Typed, Apart, NEW b \in Blocks, NEW p \in SUBSET Before(b), NEW parts,
         parts = {b} \cup p \cup After(b)
  PROVE  /\ Joined(parts) \in Blocks /\ \A x \in parts : x \in Blocks /\ x.r = Joined(parts).r
         /\ \A c \in Blocks : Meet(Joined(parts), c) => \E x \in parts : Meet(x, c)
         /\ \A n \in Int, x \in parts : In(x, n) => In(Joined(parts), n)
  <1>. DEFINE lo == Min({x.at : x \in parts})
              hi == Max({x.at + x.n : x \in parts})
              k == CHOOSE x \in parts : TRUE
  <1>1. /\ \A x \in p : x \in Blocks /\ x.r = b.r /\ x.at + x.n = b.at
        /\ \A x \in After(b) : x \in Blocks /\ x.r = b.r /\ b.at + b.n = x.at
        /\ \A x, y \in p : x = y
        /\ \A x, y \in After(b) : x = y
    BY Neighbours
  <1>2. b \in parts /\ \A x \in parts : x \in Blocks /\ x.r = b.r
    BY <1>1
  <1>3. k.r = b.r
    BY <1>2
  <1>4. \A x \in parts : x.at \in Nat /\ x.n \in Nat /\ x.n > 0
    BY <1>2, BlockFields
  <1>5. \/ lo = b.at /\ p = {}
        \/ \E x \in p : p = {x} /\ lo = x.at
    <2>. DEFINE S == {x.at : x \in parts}
    <2>0. S \in SUBSET Int
      BY <1>4
    <2>1. CASE p = {}
      <3>1. \A x \in parts : b.at <= x.at
        BY <1>1, <1>4, <2>1
      <3>2. b.at \in S /\ \A y \in S : b.at <= y
        BY <1>2, <3>1
      <3>. HIDE DEF S
      <3>3. Min(S) = b.at
        BY <2>0, <3>2, MinIs
      <3>. QED  BY <2>1, <3>3 DEF S
    <2>2. CASE p # {}
      <3>1. PICK z \in p : TRUE
        BY <2>2
      <3>2. p = {z} /\ z \in parts
        BY <1>1, <3>1
      <3>3. \A x \in parts : z.at <= x.at
        BY <1>1, <1>2, <1>4, <3>2
      <3>4. z.at \in S /\ \A y \in S : z.at <= y
        BY <3>2, <3>3
      <3>. HIDE DEF S
      <3>5. Min(S) = z.at
        BY <2>0, <3>4, MinIs
      <3>. QED  BY <3>2, <3>5 DEF S
    <2>. QED  BY <2>1, <2>2
  <1>6. \/ hi = b.at + b.n /\ After(b) = {}
        \/ \E x \in After(b) : After(b) = {x} /\ hi = x.at + x.n
    <2>. DEFINE S == {x.at + x.n : x \in parts}
    <2>0. S \in SUBSET Int
      BY <1>4
    <2>1. CASE After(b) = {}
      <3>1. \A x \in parts : x.at + x.n <= b.at + b.n
        BY <1>1, <1>4, <2>1
      <3>2. b.at + b.n \in S /\ \A y \in S : y <= b.at + b.n
        BY <1>2, <3>1
      <3>. HIDE DEF S
      <3>3. Max(S) = b.at + b.n
        BY <2>0, <3>2, MaxIs
      <3>. QED  BY <2>1, <3>3 DEF S
    <2>2. CASE After(b) # {}
      <3>1. PICK z \in After(b) : TRUE
        BY <2>2
      <3>2. After(b) = {z} /\ z \in parts
        BY <1>1, <3>1
      <3>3. \A x \in parts : x.at + x.n <= z.at + z.n
        BY <1>1, <1>2, <1>4, <3>2
      <3>4. z.at + z.n \in S /\ \A y \in S : y <= z.at + z.n
        BY <3>2, <3>3
      <3>. HIDE DEF S
      <3>5. Max(S) = z.at + z.n
        BY <2>0, <3>4, MaxIs
      <3>. QED  BY <3>2, <3>5 DEF S
    <2>. QED  BY <2>1, <2>2
  <1>7. Joined(parts) = [r |-> b.r, at |-> lo, n |-> hi - lo]
    BY <1>3 DEF Joined, Block
  <1>. DEFINE j == Joined(parts)
  <1>. HIDE DEF lo, hi, k
  <1>8. j.r = b.r /\ j.at = lo /\ j.n = hi - lo
    BY <1>7
  <1>. HIDE DEF j
  <1>9. lo \in Nat /\ lo <= b.at /\ hi \in Nat /\ b.at + b.n <= hi /\ hi <= Units
    BY <1>1, <1>2, <1>4, <1>5, <1>6, BlockFields
  <1>10. j \in Blocks
    <2>1. hi - lo \in Nat /\ hi - lo > 0 /\ lo + (hi - lo) <= Units
      BY <1>2, <1>4, <1>9, HeapAssumption
    <2>2. b.r \in Regions /\ lo \in Nat
      BY <1>2, <1>9, BlockFields
    <2>3. Block(b.r, lo, hi - lo) \in Blocks
      BY <2>1, <2>2, BlockIs
    <2>. QED  BY <1>7, <2>3 DEF Block, j
  <1>11. ASSUME NEW c \in Blocks, Meet(j, c)
         PROVE  \E x \in parts : Meet(x, c)
    <2>1. c.r = b.r /\ lo < c.at + c.n /\ c.at < hi /\ c.at \in Nat /\ c.n \in Nat /\ c.n > 0
      BY <1>8, <1>9, <1>11, BlockFields DEF Meet
    <2>2. CASE c.at + c.n <= b.at
      <3>1. PICK x \in p : lo = x.at
        BY <1>2, <1>4, <1>5, <2>1, <2>2
      <3>2. x \in parts /\ Meet(x, c)
        BY <1>1, <1>4, <2>1, <2>2, <3>1 DEF Meet
      <3>. QED  BY <3>2
    <2>3. CASE b.at + b.n <= c.at
      <3>1. PICK x \in After(b) : hi = x.at + x.n
        BY <1>2, <1>4, <1>6, <2>1, <2>3
      <3>2. x \in parts /\ Meet(x, c)
        BY <1>1, <1>4, <2>1, <2>3, <3>1 DEF Meet
      <3>. QED  BY <3>2
    <2>4. CASE ~(c.at + c.n <= b.at) /\ ~(b.at + b.n <= c.at)
      <3>1. Meet(b, c)
        BY <1>2, <1>4, <2>1, <2>4 DEF Meet
      <3>. QED  BY <1>2, <3>1
    <2>. QED  BY <2>2, <2>3, <2>4
  <1>12. ASSUME NEW n \in Int, NEW x \in parts, In(x, n)
         PROVE  In(j, n)
    <2>1. x = b \/ x \in p \/ x \in After(b)
      OBVIOUS
    <2>2. lo <= x.at /\ x.at + x.n <= hi
      BY <1>1, <1>2, <1>4, <1>5, <1>6, <1>9, <2>1
    <2>. QED  BY <1>4, <1>8, <1>9, <1>12, <2>2 DEF In
  <1>. QED  BY <1>2, <1>8, <1>10, <1>11, <1>12 DEF j

-----------------------------------------------------------------------------
(* The steps, each as what the proofs need of it.                          *)

\* MediumFreeMerge where the headers are right: the blocks of P are joined to j.
MergeMove(t, P, j) ==
  LET b == loc[t].blk IN
  /\ pc[t] = "fm_lock" /\ held[loc[t].heap] = None
  /\ pc' = [pc EXCEPT ![t] = "fm_link"]
  /\ held' = [held EXCEPT ![loc[t].heap] = t]
  /\ used' = used \ {b} /\ free' = free \ P
  /\ loc' = [loc EXCEPT ![t].blk = j]
  /\ UNCHANGED <<region, sys, small, cache, live>>
  /\ P \subseteq free
  /\ \A x \in P \cup {b} : x.r = j.r /\ \A n \in Int : In(x, n) => In(j, n)
  /\ \A c \in Blocks : Meet(j, c) => Meet(b, c) \/ \E x \in P : Meet(x, c)

LEMMA MergeMoves ==
  ASSUME Typed, MediumOwned, Apart, NEW t \in Threads, ~Break, MediumFreeMerge(t)
  PROVE  \E j \in Blocks, P \in SUBSET free : MergeMove(t, P, j)
  <1>. DEFINE b == loc[t].blk
              p == IF b.at > 0 /\ Start(b) \in prevFree THEN Before(b) ELSE {}
              P == p \cup After(b)
              parts == {b} \cup p \cup After(b)
              j == Joined(parts)
  <1>1. b \in used /\ b \in Blocks
    BY DEF MediumFreeMerge, MediumOwned, HoldPCs, Typed
  <1>3. /\ pc[t] = "fm_lock" /\ held[loc[t].heap] = None
        /\ pc' = [pc EXCEPT ![t] = "fm_link"]
        /\ held' = [held EXCEPT ![loc[t].heap] = t]
        /\ used' = used \ {b} /\ free' = free \ parts
        /\ loc' = [loc EXCEPT ![t].blk = j]
        /\ UNCHANGED <<region, sys, small, cache, live>>
    BY DEF MediumFreeMerge
  <1>4. p \subseteq Before(b)
    OBVIOUS
  <1>. HIDE DEF b, p, j
  <1>5. parts = {b} \cup P
    OBVIOUS
  <1>. HIDE DEF parts, P
  <1>6. /\ j \in Blocks /\ \A x \in parts : x \in Blocks /\ x.r = j.r
        /\ \A c \in Blocks : Meet(j, c) => \E x \in parts : Meet(x, c)
        /\ \A n \in Int, x \in parts : In(x, n) => In(j, n)
    BY <1>1, <1>4, JoinedIs DEF j, parts
  <1>7. P \subseteq free
    BY <1>4 DEF P, Before, After
  <1>8. b \notin free
    <2>1. Meet(b, b)
      BY <1>1, BlockFields DEF Meet
    <2>. QED  BY <1>1, <2>1 DEF Apart
  <1>9. free' = free \ P
    BY <1>3, <1>5, <1>8
  <1>10. \A x \in P \cup {b} : x.r = j.r /\ \A n \in Int : In(x, n) => In(j, n)
    BY <1>5, <1>6
  <1>11. \A c \in Blocks : Meet(j, c) => Meet(b, c) \/ \E x \in P : Meet(x, c)
    BY <1>5, <1>6
  <1>12. MergeMove(t, P, j)
    BY <1>3, <1>7, <1>9, <1>10, <1>11 DEF MergeMove, b
  <1>. QED  BY <1>6, <1>7, <1>12

\* A step that does not end in a failed assertion.
Move(t) ==
  \/ MAlloc(t) \/ SmallPick(t) \/ SmallCached(t) \/ SmallNone(t) \/ SmallRelock(t)
  \/ SmallTake(t) \/ MediumFind(t) \/ MediumGrow(t) \/ MediumMap(t) \/ LargeMap(t)
  \/ InitChunk(t) \/ InitChunkFaults(t) \/ GrowLock(t) \/ MediumSplit(t)
  \/ AllocLoad(t) \/ AllocStore(t) \/ LargeLink(t) \/ LargeLinkFaults(t)
  \/ Free(t) \/ SmallFree(t) \/ MediumFreeChunk(t) \/ MediumFreeLink(t) \/ LargeFree(t)
  \/ RegMove(t) \/ PlainMove(t)
  \/ \E j \in Blocks, P \in SUBSET free : MergeMove(t, P, j)

LEMMA Moves ==
  ASSUME HeapInv, NEW t \in Threads, MAlloc(t) \/ Free(t) \/ Fault(t) \/ Step(t), ~Break
  PROVE  Move(t)
  <1>1. Typed /\ MediumOwned /\ Apart
    BY DEF HeapInv
  <1>2. CASE MediumFreeMerge(t)
    BY <1>1, <1>2, MergeMoves DEF Move
  <1>3. CASE MapStep(t) \/ Registered(t) \/ Fault(t)
    BY <1>1, <1>3, RegMoves, PlainMoves DEF Move, MapStep
  <1>. QED  BY <1>2, <1>3 DEF Move, Step, Alloc, FreeStep

(* What a step changes of the thread that takes it.                        *)

LEMMA PcMoves ==
  ASSUME Typed, NEW t \in Threads, Move(t)
  PROVE  \E x \in PCs : pc' = [pc EXCEPT ![t] = x]
  <1>. USE DEF PCs, PlainPCs, WorkPCs, MapPCs, RegPCs, LockPCs, HandPCs, HoldPCs
  <1>1. CASE MAlloc(t)
    BY <1>1 DEF MAlloc
  <1>2. CASE SmallPick(t) \/ SmallCached(t) \/ SmallNone(t) \/ SmallRelock(t) \/ SmallTake(t)
    BY <1>2 DEF SmallPick, SmallCached, SmallNone, SmallRelock, SmallTake, Acquire, Return, Goto
  <1>3. CASE MediumFind(t) \/ MediumGrow(t) \/ InitChunk(t) \/ InitChunkFaults(t) \/ GrowLock(t)
    BY <1>3 DEF MediumFind, MediumGrow, InitChunk, InitChunkFaults, GrowLock, Acquire, Goto
  <1>4. CASE MediumMap(t) \/ LargeMap(t)
    BY <1>4 DEF MediumMap, LargeMap, SystemAlloc, Goto
  <1>5. CASE MediumSplit(t) \/ AllocLoad(t) \/ AllocStore(t) \/ LargeLink(t) \/ LargeLinkFaults(t)
    BY <1>5 DEF MediumSplit, AllocLoad, AllocStore, LargeLink, LargeLinkFaults, Acquire, Return,
       Goto
  <1>6. CASE Free(t) \/ SmallFree(t) \/ MediumFreeChunk(t) \/ MediumFreeLink(t) \/ LargeFree(t)
    BY <1>6 DEF Free, SmallFree, MediumFreeChunk, MediumFreeLink, LargeFree, Return, Goto
  <1>7. CASE RegMove(t) \/ PlainMove(t)
    BY <1>7 DEF RegMove, PlainMove
  <1>8. CASE \E j \in Blocks, P \in SUBSET free : MergeMove(t, P, j)
    BY <1>8 DEF MergeMove
  <1>. QED  BY <1>1, <1>2, <1>3, <1>4, <1>5, <1>6, <1>7, <1>8 DEF Move

LEMMA RegionMoves ==
  ASSUME Typed, LargeApart, NEW t \in Threads, Move(t)
  PROVE  \E x \in Places : region' = [region EXCEPT ![t] = x]
  <1>0. region[t] \in Places /\ region = [region EXCEPT ![t] = region[t]]
    BY DEF Typed
  <1>. USE DEF Places
  <1>1. CASE MAlloc(t)
    BY <1>0, <1>1 DEF MAlloc
  <1>2. CASE SmallPick(t) \/ SmallCached(t) \/ SmallNone(t) \/ SmallRelock(t) \/ SmallTake(t)
    BY <1>0, <1>2 DEF SmallPick, SmallCached, SmallNone, SmallRelock, SmallTake
  <1>3. CASE MediumFind(t) \/ MediumGrow(t) \/ InitChunk(t) \/ InitChunkFaults(t) \/ GrowLock(t)
    BY <1>0, <1>3 DEF MediumFind, MediumGrow, InitChunk, InitChunkFaults, GrowLock
  <1>4. CASE MediumMap(t) \/ LargeMap(t)
    BY <1>4 DEF MediumMap, LargeMap, SystemAlloc
  <1>5. CASE MediumSplit(t) \/ AllocLoad(t) \/ AllocStore(t) \/ LargeLink(t) \/ LargeLinkFaults(t)
    BY <1>0, <1>5 DEF MediumSplit, AllocLoad, AllocStore, LargeLink, LargeLinkFaults
  <1>6. CASE Free(t)
    <2>1. \A x \in live : x.kind = "large" => x.r \in Regions
      BY LiveForms DEF Typed
    <2>. QED  BY <1>0, <1>6, <2>1 DEF Free
  <1>7. CASE SmallFree(t) \/ MediumFreeChunk(t) \/ MediumFreeLink(t) \/ LargeFree(t)
    BY <1>0, <1>7 DEF SmallFree, MediumFreeChunk, MediumFreeLink, LargeFree
  <1>8. CASE RegMove(t) \/ PlainMove(t)
    BY <1>0, <1>8 DEF RegMove, PlainMove
  <1>9. CASE \E j \in Blocks, P \in SUBSET free : MergeMove(t, P, j)
    BY <1>0, <1>9 DEF MergeMove
  <1>. QED  BY <1>1, <1>2, <1>3, <1>4, <1>5, <1>6, <1>7, <1>8, <1>9 DEF Move

LEMMA Locals ==
  /\ Idle \in Local
  /\ \A l \in Local, b \in Blocks \cup {None} : [l EXCEPT !.blk = b] \in Local
  /\ \A l \in Local, e \in BOOLEAN : [l EXCEPT !.seen = e] \in Local
  /\ \A l \in Local, n \in 0..Units, e \in BOOLEAN : [l EXCEPT !.want = n, !.chunk = e] \in Local
  /\ \A l \in Local, h \in Heaps \cup {None} : [l EXCEPT !.heap = h] \in Local
  /\ \A l \in Local, h \in Heaps \cup {None}, n \in 0..Units :
       [l EXCEPT !.heap = h, !.want = n] \in Local
  /\ \A l \in Local, h \in Heaps \cup {None}, b \in Blocks \cup {None} :
       [l EXCEPT !.heap = h, !.blk = b] \in Local
  /\ \A l \in Local, h \in Heaps \cup {None}, b \in Blocks \cup {None}, s \in Slots :
       [l EXCEPT !.heap = h, !.blk = b, !.slot = s] \in Local
  <1>1. Idle \in Local
    BY HeapAssumption DEF Local, Idle
  <1>2. \A l \in Local, n \in 0..Units, e \in BOOLEAN : [l EXCEPT !.want = n, !.chunk = e] \in Local
    BY DEF Local
  <1>3. \A l \in Local, h \in Heaps \cup {None}, n \in 0..Units :
          [l EXCEPT !.heap = h, !.want = n] \in Local
    BY DEF Local
  <1>4. \A l \in Local, h \in Heaps \cup {None}, b \in Blocks \cup {None} :
          [l EXCEPT !.heap = h, !.blk = b] \in Local
    BY DEF Local
  <1>5. \A l \in Local, h \in Heaps \cup {None}, b \in Blocks \cup {None}, s \in Slots :
          [l EXCEPT !.heap = h, !.blk = b, !.slot = s] \in Local
    BY DEF Local
  <1>. QED  BY <1>1, <1>2, <1>3, <1>4, <1>5 DEF Local

LEMMA LocMoves ==
  ASSUME HeapInv, NEW t \in Threads, Move(t)
  PROVE  \E l \in Local : loc' = [loc EXCEPT ![t] = l]
  <1>0. /\ Typed /\ Working /\ RegionsApart /\ MediumOwned /\ SmallOwned /\ Apart /\ InMedium
        /\ loc \in [Threads -> Local] /\ loc[t] \in Local /\ loc = [loc EXCEPT ![t] = loc[t]]
    BY DEF HeapInv, Typed
  <1>1. CASE MAlloc(t)
    <2>1. 0..Units \cap (1..Units) = 1..Units
      BY HeapAssumption
    <2>. QED  BY <1>0, <1>1, <2>1, Locals DEF MAlloc
  <1>2. CASE SmallPick(t) \/ SmallCached(t)
    <2>1. \A c \in DOMAIN small : c \in Blocks
      BY <1>0 DEF Typed
    <2>2. \A h \in Heaps : cache[h] \in Blocks \cup {None}
      BY <1>0 DEF Typed
    <2>3. CASE SmallPick(t)
      BY <1>0, <2>1, <2>3, Locals DEF SmallPick, Chunks
    <2>4. CASE SmallCached(t)
      <3>1. loc[t].heap \in Heaps
        BY <1>0, <2>4 DEF SmallCached, Acquire, Goto, Working, WorkPCs
      <3>. QED  BY <1>0, <2>2, <2>4, <3>1, Locals DEF SmallCached
    <2>. QED  BY <1>2, <2>3, <2>4
  <1>3. CASE SmallNone(t)
    <2>1. ChunkUnits \in 0..Units
      BY HeapAssumption
    <2>2. [loc[t] EXCEPT !.want = ChunkUnits, !.chunk = TRUE] \in Local
      BY <1>0, <2>1, Locals
    <2>3. loc' = [loc EXCEPT ![t] = [loc[t] EXCEPT !.want = ChunkUnits, !.chunk = TRUE]]
      BY <1>0, <1>3 DEF SmallNone
    <2>. QED  BY <2>2, <2>3
  <1>4. CASE SmallRelock(t) \/ MediumGrow(t) \/ MediumMap(t) \/ LargeMap(t) \/ GrowLock(t)
    BY <1>0, <1>4 DEF SmallRelock, MediumGrow, MediumMap, LargeMap, SystemAlloc, GrowLock
  <1>5. CASE SmallTake(t) \/ InitChunkFaults(t) \/ AllocStore(t) \/ LargeLink(t) \/ LargeLinkFaults(t)
             \/ MediumFreeChunk(t) \/ MediumFreeLink(t) \/ LargeFree(t)
    BY <1>0, <1>5, Locals DEF SmallTake, InitChunkFaults, AllocStore, LargeLink, LargeLinkFaults,
         MediumFreeChunk, MediumFreeLink, LargeFree, Return
  <1>6. CASE MediumFind(t)
    <2>1. \A b \in free : b \in Blocks
      BY <1>0 DEF Typed
    <2>. QED  BY <1>0, <1>6, <2>1, Locals DEF MediumFind, Fitting
  <1>7. CASE InitChunk(t)
    <2>1. region[t] \in Regions
      BY <1>0, <1>7 DEF InitChunk, Goto, RegionsApart, RegPCs
    <2>2. Block(region[t], 0, Units) \in Blocks
      BY <2>1, BlockIs, HeapAssumption
    <2>. HIDE DEF Block
    <2>. QED  BY <1>0, <1>7, <2>2, Locals DEF InitChunk
  <1>8. CASE MediumSplit(t)
    <2>. DEFINE b == loc[t].blk
                a == Block(b.r, b.at, loc[t].want)
    <2>1. b \in Blocks /\ loc[t].want \in 1..Units /\ loc[t].want <= b.n
      BY <1>0, <1>8 DEF MediumSplit, Goto, Apart, HandPCs, Working, SizePCs, InMedium
    <2>2. a \in Blocks
      <3>1. b.r \in Regions /\ b.at \in Nat /\ b.at + loc[t].want <= Units
        BY <2>1, BlockFields, HeapAssumption
      <3>. QED  BY <2>1, <3>1, BlockIs, HeapAssumption
    <2>3. loc' = [loc EXCEPT ![t].blk = a]
      BY <1>8 DEF MediumSplit
    <2>. HIDE DEF a
    <2>. QED  BY <1>0, <2>2, <2>3, Locals
  <1>9. CASE AllocLoad(t)
    <2>1. (Start(loc[t].blk) \in prevFree) \in BOOLEAN
      OBVIOUS
    <2>. QED  BY <1>0, <1>9, <2>1, Locals DEF AllocLoad
  <1>10. CASE Free(t)
    <2>1. PICK x \in live :
            \/ x.kind = "small" /\ loc' = [loc EXCEPT ![t] = [Idle EXCEPT !.heap = sys[x.blk.r].heap,
                                                                         !.blk = x.blk,
                                                                              !.slot = x.slot]]
            \/ x.kind = "medium" /\ loc' = [loc EXCEPT ![t] = [Idle EXCEPT !.heap = sys[x.blk.r].heap,
                                                                          !.blk = x.blk]]
            \/ x.kind = "large" /\ loc' = [loc EXCEPT ![t] = [Idle EXCEPT !.heap = sys[x.r].heap]]
      BY <1>10 DEF Free
    <2>2. \/ x.kind = "small" /\ x.blk \in Blocks /\ x.slot \in Slots
          \/ x.kind = "medium" /\ x.blk \in Blocks
          \/ x.kind = "large" /\ x.r \in Regions
      BY <1>0, LiveForms DEF Typed
    <2>3. \A r \in Regions : sys[r].heap \in Heaps \cup {None}
      BY <1>0 DEF Typed
    <2>4. x.kind = "large" \/ sys[x.blk.r].heap \in Heaps \cup {None}
      BY <2>2, <2>3, BlockFields
    <2>5. CASE x.kind = "small"
      BY <2>1, <2>2, <2>4, <2>5, Locals
    <2>6. CASE x.kind = "medium"
      BY <2>1, <2>2, <2>4, <2>6, Locals
    <2>7. CASE x.kind = "large"
      BY <2>1, <2>2, <2>3, <2>7, Locals
    <2>. QED  BY <2>2, <2>5, <2>6, <2>7
  <1>11. CASE SmallFree(t)
    BY <1>0, <1>11, Locals DEF SmallFree, Return
  <1>12. CASE RegMove(t) \/ PlainMove(t)
    BY <1>0, <1>12 DEF RegMove, PlainMove, heapvars
  <1>13. CASE \E j \in Blocks, P \in SUBSET free : MergeMove(t, P, j)
    BY <1>0, <1>13, Locals DEF MergeMove
  <1>. QED
    BY <1>1, <1>2, <1>3, <1>4, <1>5, <1>6, <1>7, <1>8, <1>9, <1>10, <1>11, <1>12, <1>13 DEF Move

\* The other threads are where they were.
Others(t) ==
  \A u \in Threads \ {t} : pc'[u] = pc[u] /\ region'[u] = region[u] /\ loc'[u] = loc[u]

LEMMA OthersStay ==
  ASSUME HeapInv, NEW t \in Threads, Move(t)
  PROVE  /\ Others(t)
         /\ pc' \in [Threads -> PCs] /\ region' \in [Threads -> Places] /\ loc' \in [Threads -> Local]
  <1>1. Typed /\ LargeApart /\ pc \in [Threads -> PCs] /\ region \in [Threads -> Places]
        /\ loc \in [Threads -> Local]
    BY DEF HeapInv, Typed
  <1>2. \E x \in PCs : pc' = [pc EXCEPT ![t] = x]
    BY <1>1, PcMoves
  <1>3. \E x \in Places : region' = [region EXCEPT ![t] = x]
    BY <1>1, RegionMoves
  <1>4. \E l \in Local : loc' = [loc EXCEPT ![t] = l]
    BY LocMoves
  <1>. QED  BY <1>1, <1>2, <1>3, <1>4 DEF Others

LEMMA HeldMoves ==
  ASSUME HeapInv, NEW t \in Threads, Move(t)
  PROVE  held' \in [Heaps -> Threads \cup {None}]
  <1>1. held \in [Heaps -> Threads \cup {None}]
    BY DEF HeapInv, Typed
  <1>2. CASE MAlloc(t) \/ SmallNone(t) \/ MediumGrow(t) \/ MediumMap(t) \/ LargeMap(t)
              \/ InitChunk(t) \/ InitChunkFaults(t) \/ AllocLoad(t) \/ AllocStore(t) \/ LargeLink(t)
              \/ Free(t) \/ SmallFree(t) \/ LargeFree(t) \/ RegMove(t) \/ PlainMove(t)
    BY <1>1, <1>2 DEF MAlloc, SmallNone, MediumGrow, MediumMap, LargeMap, SystemAlloc, InitChunk,
         InitChunkFaults, AllocLoad, AllocStore, LargeLink, Free, SmallFree, LargeFree, RegMove,
         PlainMove, heapvars
  <1>3. CASE SmallPick(t) \/ SmallCached(t) \/ SmallRelock(t) \/ MediumFind(t) \/ GrowLock(t)
              \/ LargeLinkFaults(t)
    BY <1>1, <1>3 DEF SmallPick, SmallCached, SmallRelock, MediumFind, GrowLock, LargeLinkFaults,
       Acquire
  <1>4. CASE SmallTake(t) \/ MediumSplit(t) \/ MediumFreeChunk(t) \/ MediumFreeLink(t)
    BY <1>1, <1>4 DEF SmallTake, MediumSplit, MediumFreeChunk, MediumFreeLink, Release
  <1>5. CASE \E j \in Blocks, P \in SUBSET free : MergeMove(t, P, j)
    BY <1>1, <1>5 DEF MergeMove
  <1>. QED  BY <1>2, <1>3, <1>4, <1>5 DEF Move

\* What becomes of the lists of medium blocks.
LEMMA ListMoves ==
  ASSUME HeapInv, NEW t \in Threads, Move(t)
  PROVE  free' \subseteq Blocks /\ used' \subseteq Blocks
  <1>1. Typed /\ Apart /\ Working /\ InMedium /\ free \subseteq Blocks /\ used \subseteq Blocks
    BY DEF HeapInv, Typed
  <1>2. CASE MAlloc(t) \/ SmallPick(t) \/ SmallCached(t) \/ SmallNone(t) \/ SmallRelock(t)
              \/ SmallTake(t) \/ MediumGrow(t) \/ MediumMap(t) \/ LargeMap(t)
              \/ InitChunk(t) \/ InitChunkFaults(t) \/ GrowLock(t) \/ AllocLoad(t) \/ AllocStore(t)
              \/ LargeLink(t) \/ LargeLinkFaults(t) \/ Free(t) \/ SmallFree(t) \/ MediumFreeChunk(t)
              \/ LargeFree(t) \/ RegMove(t) \/ PlainMove(t)
    BY <1>1, <1>2 DEF MAlloc, SmallPick, SmallCached, SmallNone, SmallRelock, SmallTake, MediumGrow,
         MediumMap, LargeMap, SystemAlloc, InitChunk, InitChunkFaults, GrowLock, AllocLoad,
              AllocStore,
         LargeLink, LargeLinkFaults, Free, SmallFree, MediumFreeChunk, LargeFree, RegMove,
              PlainMove,
         heapvars
  <1>3. CASE MediumFind(t)
    BY <1>1, <1>3 DEF MediumFind
  <1>4. CASE MediumSplit(t)
    <2>. DEFINE b == loc[t].blk
                w == loc[t].want
                a == Block(b.r, b.at, w)
                c == Block(b.r, b.at + a.n, b.n - a.n)
    <2>1. b \in Blocks /\ w \in 1..Units /\ w <= b.n
      BY <1>1, <1>4 DEF MediumSplit, Goto, Apart, HandPCs, Working, SizePCs, InMedium
    <2>2. b.r \in Regions /\ b.at \in Nat /\ b.n \in Nat /\ b.at + b.n <= Units /\ b = Block(b.r,
               b.at, b.n)
      BY <2>1, BlockFields
    <2>3. a \in Blocks
      <3>1. b.at + w <= Units
        BY <2>1, <2>2, HeapAssumption
      <3>. QED  BY <2>1, <2>2, <3>1, BlockIs, HeapAssumption
    <2>4. a # b => c \in Blocks
      <3>1. a.n = w
        BY DEF Block
      <3>2. a # b => w # b.n
        BY <2>2
      <3>3. a # b => b.at + w \in Nat /\ b.n - w \in Nat /\ b.n - w > 0 /\ (b.at + w) + (b.n - w) <= Units
        BY <2>1, <2>2, <3>2, HeapAssumption
      <3>. QED  BY <2>2, <3>1, <3>3, BlockIs
    <2>5. used' = used \cup {a} /\ free' = IF a = b THEN free ELSE free \cup {c}
      BY <1>4 DEF MediumSplit
    <2>. HIDE DEF a, b, c
    <2>. QED  BY <1>1, <2>3, <2>4, <2>5
  <1>5. CASE MediumFreeLink(t)
    BY <1>1, <1>5 DEF MediumFreeLink, Return, Goto, Apart, HandPCs
  <1>6. CASE \E j \in Blocks, P \in SUBSET free : MergeMove(t, P, j)
    BY <1>1, <1>6 DEF MergeMove
  <1>. QED  BY <1>2, <1>3, <1>4, <1>5, <1>6 DEF Move

\* What becomes of the chunks and of what MAlloc has returned.
SmallTyped ==
  /\ DOMAIN small \subseteq Blocks /\ small \in [DOMAIN small -> SUBSET Slots]
  /\ cache \in [Heaps -> Blocks \cup {None}]

LEMMA SmallMoves ==
  ASSUME HeapInv, NEW t \in Threads, Move(t)
  PROVE  SmallTyped'
  <1>1. Typed /\ Working /\ MediumOwned /\ SmallOwned /\ SmallTyped
    BY DEF HeapInv, Typed, SmallTyped
  <1>2. CASE MAlloc(t) \/ SmallPick(t) \/ SmallNone(t) \/ MediumGrow(t) \/ MediumMap(t) \/ LargeMap(t)
              \/ InitChunk(t) \/ InitChunkFaults(t) \/ GrowLock(t) \/ AllocLoad(t) \/ AllocStore(t)
              \/ LargeLink(t) \/ LargeLinkFaults(t) \/ Free(t) \/ MediumFreeChunk(t)
              \/ LargeFree(t) \/ RegMove(t) \/ PlainMove(t)
    BY <1>1, <1>2 DEF MAlloc, SmallPick, SmallNone, MediumGrow, SmallTyped,
         MediumMap, LargeMap, SystemAlloc, InitChunk, InitChunkFaults, GrowLock, AllocLoad,
              AllocStore,
         LargeLink, LargeLinkFaults, Free, MediumFreeChunk, LargeFree, RegMove, PlainMove, heapvars
  <1>3. CASE MediumFind(t) \/ MediumSplit(t) \/ MediumFreeLink(t)
              \/ \E j \in Blocks, P \in SUBSET free : MergeMove(t, P, j)
    BY <1>1, <1>3 DEF MediumFind, MediumSplit, MediumFreeLink, MergeMove, SmallTyped
  <1>4. CASE SmallCached(t)
    <2>1. loc[t].heap \in Heaps
      BY <1>1, <1>4 DEF SmallCached, Acquire, Goto, Working, WorkPCs
    <2>. QED  BY <1>1, <1>4, <2>1 DEF SmallCached, WithChunk, SmallTyped
  <1>5. CASE SmallRelock(t)
    <2>1. loc[t].blk \in Blocks
      BY <1>1, <1>5 DEF SmallRelock, Acquire, Goto, MediumOwned, HoldPCs, Typed
    <2>. QED  BY <1>1, <1>5, <2>1 DEF SmallRelock, WithChunk, SmallTyped
  <1>6. CASE SmallTake(t)
    <2>. DEFINE c == loc[t].blk
                s == CHOOSE s \in Slots : s \notin small[c]
    <2>1. c \in DOMAIN small /\ small[c] # Slots /\ small[c] \subseteq Slots
      BY <1>1, <1>6 DEF SmallTake, Return, Goto, SmallOwned, SmallTyped
    <2>2. s \in Slots
      BY <2>1
    <2>3. small' = [small EXCEPT ![c] = @ \cup {s}] /\ UNCHANGED cache
      BY <1>6 DEF SmallTake
    <2>. HIDE DEF s, c
    <2>. QED  BY <1>1, <2>1, <2>2, <2>3 DEF SmallTyped
  <1>7. CASE SmallFree(t)
    <2>1. loc[t].blk \in DOMAIN small /\ loc[t].blk \in Blocks /\ loc[t].heap \in Heaps
      BY <1>1, <1>7 DEF SmallFree, SmallOwned, Typed, Working, WorkPCs
    <2>. QED  BY <1>1, <1>7, <2>1 DEF SmallFree, SmallTyped
  <1>. QED  BY <1>2, <1>3, <1>4, <1>5, <1>6, <1>7 DEF Move

LEMMA LiveMoves ==
  ASSUME HeapInv, NEW t \in Threads, Move(t)
  PROVE  \/ live' = live
         \/ live' = live \cup {Medium(loc[t].blk)} /\ AllocStore(t)
         \/ /\ SmallTake(t) /\ \E s \in Slots \ small[loc[t].blk] :
                 /\ live' = live \cup {Small(loc[t].blk, s)}
                 /\ small' = [small EXCEPT ![loc[t].blk] = @ \cup {s}]
         \/ live' = live \cup {Large(region[t])} /\ LargeLink(t)
         \/ Free(t) /\ \E x \in live : live' = live \ {x}
  <1>1. SmallOwned /\ SmallTyped
    BY DEF HeapInv, Typed, SmallTyped
  <1>2. CASE MAlloc(t) \/ SmallPick(t) \/ SmallCached(t) \/ SmallNone(t) \/ SmallRelock(t)
              \/ MediumGrow(t) \/ MediumMap(t) \/ LargeMap(t)
              \/ InitChunk(t) \/ InitChunkFaults(t) \/ GrowLock(t) \/ AllocLoad(t)
              \/ LargeLinkFaults(t) \/ SmallFree(t) \/ MediumFreeChunk(t)
              \/ LargeFree(t) \/ RegMove(t) \/ PlainMove(t)
    BY <1>2 DEF MAlloc, SmallPick, SmallCached, SmallNone, SmallRelock, MediumGrow,
         MediumMap, LargeMap, SystemAlloc, InitChunk, InitChunkFaults, GrowLock, AllocLoad,
         LargeLinkFaults, SmallFree, MediumFreeChunk, LargeFree, RegMove, PlainMove, heapvars
  <1>3. CASE MediumFind(t) \/ MediumSplit(t) \/ MediumFreeLink(t)
              \/ \E j \in Blocks, P \in SUBSET free : MergeMove(t, P, j)
    BY <1>3 DEF MediumFind, MediumSplit, MediumFreeLink, MergeMove
  <1>4. CASE SmallTake(t)
    <2>. DEFINE c == loc[t].blk
                s == CHOOSE s \in Slots : s \notin small[c]
    <2>1. small[c] # Slots /\ small[c] \subseteq Slots
      BY <1>1, <1>4 DEF SmallTake, Return, Goto, SmallOwned, SmallTyped
    <2>2. s \in Slots \ small[c]
      BY <2>1
    <2>3. live' = live \cup {Small(c, s)} /\ small' = [small EXCEPT ![c] = @ \cup {s}]
      BY <1>4 DEF SmallTake, Small
    <2>. QED  BY <1>4, <2>2, <2>3
  <1>5. CASE AllocStore(t)
    BY <1>5 DEF AllocStore, Medium
  <1>6. CASE LargeLink(t)
    BY <1>6 DEF LargeLink, Large
  <1>7. CASE Free(t)
    BY <1>7 DEF Free
  <1>. QED  BY <1>2, <1>3, <1>4, <1>5, <1>6, <1>7 DEF Move

\* What becomes of the regions.
SysMove(t) ==
  \/ sys' = sys
  \/ /\ MediumMap(t) \/ LargeMap(t)
     /\ \E r \in Regions :
          /\ sys[r].use = "unmapped" /\ region' = [region EXCEPT ![t] = r]
          /\ sys' = [sys EXCEPT ![r] = [heap |-> loc[t].heap, use |-> "mapped"]]
  \/ /\ GrowLock(t)
     /\ region[t] \in Regions /\ sys[region[t]] = [heap |-> loc[t].heap, use |-> "mapped"]
     /\ sys' = [sys EXCEPT ![region[t]].use = "medium"]
  \/ /\ LargeLink(t)
     /\ region[t] \in Regions /\ sys[region[t]] = [heap |-> loc[t].heap, use |-> "mapped"]
     /\ sys' = [sys EXCEPT ![region[t]].use = "large"]
  \/ /\ MediumFreeChunk(t)
     /\ loc[t].blk \in Blocks /\ sys[loc[t].blk.r].use = "medium"
     /\ sys' = [sys EXCEPT ![loc[t].blk.r].use = "dropped"]
  \/ /\ LargeFree(t)
     /\ region[t] \in Regions /\ sys[region[t]].use = "large"
     /\ sys' = [sys EXCEPT ![region[t]].use = "dropped"]

LEMMA SysMoves ==
  ASSUME HeapInv, NEW t \in Threads, Move(t)
  PROVE  SysMove(t) /\ sys' \in [Regions -> [heap : Heaps \cup {None}, use : Uses]]
  <1>1. Working /\ RegionsApart /\ LargeApart /\ Apart /\ InMedium
        /\ sys \in [Regions -> [heap : Heaps \cup {None}, use : Uses]]
    BY DEF HeapInv, Typed
  <1>2. CASE MAlloc(t) \/ SmallPick(t) \/ SmallCached(t) \/ SmallNone(t) \/ SmallRelock(t)
              \/ SmallTake(t) \/ MediumFind(t) \/ MediumGrow(t) \/ InitChunk(t) \/ InitChunkFaults(t)
              \/ MediumSplit(t) \/ AllocLoad(t) \/ AllocStore(t) \/ LargeLinkFaults(t) \/ Free(t)
              \/ SmallFree(t) \/ MediumFreeLink(t) \/ RegMove(t) \/ PlainMove(t)
              \/ \E j \in Blocks, P \in SUBSET free : MergeMove(t, P, j)
    <2>1. sys' = sys
      BY <1>2 DEF MAlloc, SmallPick, SmallCached, SmallNone, SmallRelock, SmallTake, MediumFind,
           MediumGrow, InitChunk, InitChunkFaults, MediumSplit, AllocLoad, AllocStore,
                LargeLinkFaults,
           Free, SmallFree, MediumFreeLink, RegMove, PlainMove, heapvars, MergeMove
    <2>. QED  BY <1>1, <2>1 DEF SysMove
  <1>3. CASE MediumMap(t) \/ LargeMap(t)
    <2>1. loc[t].heap \in Heaps
      BY <1>1, <1>3 DEF MediumMap, LargeMap, SystemAlloc, Goto, Working, WorkPCs
    <2>2. sys' = sys \/ \E r \in Regions :
            /\ sys[r].use = "unmapped" /\ region' = [region EXCEPT ![t] = r]
            /\ sys' = [sys EXCEPT ![r] = [heap |-> loc[t].heap, use |-> "mapped"]]
      BY <1>3 DEF MediumMap, LargeMap, SystemAlloc
    <2>3. sys' \in [Regions -> [heap : Heaps \cup {None}, use : Uses]]
      BY <1>1, <2>1, <2>2 DEF Uses
    <2>. QED  BY <1>3, <2>2, <2>3 DEF SysMove
  <1>4. CASE GrowLock(t)
    <2>1. region[t] \in Regions /\ sys[region[t]] = [heap |-> loc[t].heap, use |-> "mapped"]
      BY <1>1, <1>4 DEF GrowLock, Acquire, Goto, RegionsApart, MapPCs
    <2>2. sys' = [sys EXCEPT ![region[t]].use = "medium"]
      BY <1>4 DEF GrowLock
    <2>. QED  BY <1>1, <1>4, <2>1, <2>2 DEF SysMove, Uses
  <1>5. CASE LargeLink(t)
    <2>1. region[t] \in Regions /\ sys[region[t]] = [heap |-> loc[t].heap, use |-> "mapped"]
      BY <1>1, <1>5 DEF LargeLink, Return, Goto, RegionsApart, MapPCs, RegPCs
    <2>2. sys' = [sys EXCEPT ![region[t]].use = "large"]
      BY <1>5 DEF LargeLink
    <2>. QED  BY <1>1, <1>5, <2>1, <2>2 DEF SysMove, Uses
  <1>6. CASE MediumFreeChunk(t)
    <2>1. loc[t].blk \in Blocks /\ sys[loc[t].blk.r].use = "medium"
      BY <1>1, <1>6 DEF MediumFreeChunk, Return, Goto, Apart, InMedium, HandPCs
    <2>2. sys' = [sys EXCEPT ![loc[t].blk.r].use = "dropped"]
      BY <1>6 DEF MediumFreeChunk
    <2>. QED  BY <1>1, <1>6, <2>1, <2>2, BlockFields DEF SysMove, Uses
  <1>7. CASE LargeFree(t)
    <2>1. region[t] \in Regions /\ sys[region[t]].use = "large"
      BY <1>1, <1>7 DEF LargeFree, Return, Goto, LargeApart
    <2>2. sys' = [sys EXCEPT ![region[t]].use = "dropped"]
      BY <1>7 DEF LargeFree
    <2>. QED  BY <1>1, <1>7, <2>1, <2>2 DEF SysMove, Uses
  <1>. QED  BY <1>2, <1>3, <1>4, <1>5, <1>6, <1>7 DEF Move

\* A region changes its use only where it is linked, or forgotten, and never its heap.
SysKept(t, r) ==
  /\ sys[r].use # "unmapped" => sys'[r].use # "unmapped" /\ sys'[r].heap = sys[r].heap
  /\ sys[r].use = "mapped" =>
       sys'[r] = sys[r] \/ ((GrowLock(t) \/ LargeLink(t)) /\ region[t] = r)
  /\ sys[r].use = "medium" =>
       sys'[r] = sys[r] \/ (MediumFreeChunk(t) /\ loc[t].blk.r = r)
  /\ sys[r].use = "large" => sys'[r] = sys[r] \/ (LargeFree(t) /\ region[t] = r)
  /\ sys[r].use = "unmapped" =>
       \/ sys'[r] = sys[r]
       \/ /\ MediumMap(t) \/ LargeMap(t)
          /\ region' = [region EXCEPT ![t] = r]
          /\ sys'[r] = [heap |-> loc[t].heap, use |-> "mapped"]

LEMMA SysStays ==
  ASSUME HeapInv, NEW t \in Threads, Move(t)
  PROVE  \A r \in Regions : SysKept(t, r)
  <1>1. SysMove(t) /\ sys \in [Regions -> [heap : Heaps \cup {None}, use : Uses]]
    BY SysMoves DEF HeapInv, Typed
  <1>2. ASSUME NEW r \in Regions
        PROVE  SysKept(t, r)
    BY <1>1, <1>2 DEF SysMove, SysKept
  <1>. QED  BY <1>2

LEMMA TypedStep ==
  ASSUME HeapInv, NEW t \in Threads, Move(t)
  PROVE  Typed'
  <1>1. Typed /\ MediumOwned /\ RegionsApart /\ SmallOwned /\ SmallTyped
    BY DEF HeapInv, Typed, SmallTyped
  <1>2. live' \subseteq SmallLive \cup MediumLive \cup LargeLive
    <2>1. CASE AllocStore(t)
      <3>1. Medium(loc[t].blk) \in MediumLive
        BY <1>1, <2>1 DEF AllocStore, Return, Goto, MediumOwned, HoldPCs, Typed, Medium, MediumLive
      <3>2. live' = live \cup {Medium(loc[t].blk)}
        BY <2>1 DEF AllocStore, Medium
      <3>. QED  BY <1>1, <3>1, <3>2 DEF Typed
    <2>2. CASE LargeLink(t)
      <3>1. Large(region[t]) \in LargeLive
        BY <1>1, <2>2 DEF LargeLink, Return, Goto, RegionsApart, RegPCs, Large, LargeLive
      <3>2. live' = live \cup {Large(region[t])}
        BY <2>2 DEF LargeLink, Large
      <3>. QED  BY <1>1, <3>1, <3>2 DEF Typed
    <2>3. CASE SmallTake(t) /\ \E s \in Slots \ small[loc[t].blk] :
                 live' = live \cup {Small(loc[t].blk, s)}
      <3>1. loc[t].blk \in Blocks
        BY <1>1, <2>3 DEF SmallTake, Return, Goto, SmallOwned, SmallTyped
      <3>2. \A s \in Slots : Small(loc[t].blk, s) \in SmallLive
        BY <3>1 DEF Small, SmallLive
      <3>. QED  BY <1>1, <2>3, <3>2 DEF Typed
    <2>. QED  BY <1>1, <2>1, <2>2, <2>3, LiveMoves DEF Typed
  <1>. QED  BY <1>2, OthersStay, HeldMoves, ListMoves, SmallMoves, SysMoves DEF Typed, SmallTyped

-----------------------------------------------------------------------------
(* Working: who holds which lock.                                          *)

LEMMA HeldKept ==
  ASSUME HeapInv, NEW t \in Threads, Move(t), NEW u \in Threads \ {t}, NEW h \in Heaps, held[h] = u
  PROVE  held'[h] = u
  <1>1. held \in [Heaps -> Threads \cup {None}] /\ None \notin Threads /\ Working
    BY MemMapAssumption DEF HeapInv, Typed
  <1>2. CASE MAlloc(t) \/ SmallNone(t) \/ MediumGrow(t) \/ MediumMap(t) \/ LargeMap(t)
              \/ InitChunk(t) \/ InitChunkFaults(t) \/ AllocLoad(t) \/ AllocStore(t) \/ LargeLink(t)
              \/ Free(t) \/ SmallFree(t) \/ LargeFree(t) \/ RegMove(t) \/ PlainMove(t)
    BY <1>1, <1>2 DEF MAlloc, SmallNone, MediumGrow, MediumMap, LargeMap, SystemAlloc, InitChunk,
         InitChunkFaults, AllocLoad, AllocStore, LargeLink, Free, SmallFree, LargeFree, RegMove,
         PlainMove, heapvars
  <1>3. CASE SmallPick(t) \/ SmallCached(t) \/ SmallRelock(t) \/ MediumFind(t) \/ GrowLock(t)
              \/ LargeLinkFaults(t)
    BY <1>1, <1>3 DEF SmallPick, SmallCached, SmallRelock, MediumFind, GrowLock, LargeLinkFaults,
       Acquire
  <1>4. CASE SmallTake(t) \/ MediumSplit(t) \/ MediumFreeChunk(t) \/ MediumFreeLink(t)
    <2>1. held[loc[t].heap] = t
      BY <1>1, <1>4 DEF SmallTake, MediumSplit, MediumFreeChunk, MediumFreeLink, Return, Goto,
         Working,
           LockPCs, HandPCs
    <2>2. held' = [held EXCEPT ![loc[t].heap] = None]
      BY <1>4 DEF SmallTake, MediumSplit, MediumFreeChunk, MediumFreeLink, Release
    <2>. QED  BY <1>1, <2>1, <2>2
  <1>5. CASE \E j \in Blocks, P \in SUBSET free : MergeMove(t, P, j)
    BY <1>1, <1>5 DEF MergeMove
  <1>. QED  BY <1>2, <1>3, <1>4, <1>5 DEF Move

WorkingIn(t) ==
  /\ pc[t] \in WorkPCs => loc[t].heap \in Heaps
  /\ pc[t] \in LockPCs => held[loc[t].heap] = t
  /\ pc[t] \in SizePCs => loc[t].want \in 1..Units

LEMMA WorkingStep ==
  ASSUME HeapInv, NEW t \in Threads, Move(t)
  PROVE  Working'
  <1>1. /\ Working /\ pc \in [Threads -> PCs] /\ region \in [Threads -> Places]
        /\ held \in [Heaps -> Threads \cup {None}] /\ loc \in [Threads -> Local]
        /\ WorkingIn(t)
    BY DEF HeapInv, Typed, Working, WorkingIn
  <1>2. ASSUME NEW u \in Threads \ {t}
        PROVE  WorkingIn(u)'
    <2>1. pc'[u] = pc[u] /\ loc'[u] = loc[u]
      BY <1>2, OthersStay DEF Others
    <2>2. LockPCs \subseteq WorkPCs
      BY DEF WorkPCs
    <2>3. pc[u] \in LockPCs => held'[loc[u].heap] = u
      BY <1>1, <1>2, <2>2, HeldKept DEF Working
    <2>. QED  BY <1>1, <2>1, <2>3 DEF Working, WorkingIn
  <1>3. WorkingIn(t)'
    <2>. USE <1>1
    <2>1. CASE MAlloc(t)
      <3>1. PICK h \in Heaps :
              \/ /\ pc' = [pc EXCEPT ![t] = "s_lock"]
                 /\ loc' = [loc EXCEPT ![t] = [Idle EXCEPT !.heap = h]]
              \/ /\ pc' = [pc EXCEPT ![t] = "m_lock"]
                 /\ \E n \in 1..Units : loc' = [loc EXCEPT ![t] = [Idle EXCEPT !.heap = h,
                                         !.want = n]]
              \/ /\ pc' = [pc EXCEPT ![t] = "l_map"]
                 /\ loc' = [loc EXCEPT ![t] = [Idle EXCEPT !.heap = h]]
        BY <2>1 DEF MAlloc
      <3>. QED  BY <3>1 DEF WorkingIn, Idle, WorkPCs, MapPCs, RegPCs, LockPCs, HandPCs, HoldPCs,
                   SizePCs
    <2>2. CASE SmallPick(t) \/ SmallCached(t) \/ SmallRelock(t)
      <3>1. pc[t] \in WorkPCs /\ loc'[t].heap = loc[t].heap /\ pc'[t] = "s_take"
            /\ held' = [held EXCEPT ![loc[t].heap] = t]
        <4>1. CASE SmallPick(t)
          BY <4>1 DEF SmallPick, Acquire, Goto, WorkPCs
        <4>2. CASE SmallCached(t)
          BY <4>2 DEF SmallCached, Acquire, Goto, WorkPCs
        <4>3. CASE SmallRelock(t)
          BY <4>3 DEF SmallRelock, Acquire, Goto, WorkPCs, HoldPCs
        <4>. QED  BY <2>2, <4>1, <4>2, <4>3
      <3>. QED  BY <3>1 DEF WorkingIn, LockPCs, HandPCs, SizePCs
    <2>3. CASE SmallNone(t)
      <3>1. pc[t] \in WorkPCs /\ loc'[t].heap = loc[t].heap /\ loc'[t].want = ChunkUnits /\ pc'[t] = "m_lock"
        BY <2>3 DEF SmallNone, Goto, WorkPCs, Local
      <3>. QED  BY <3>1, HeapAssumption DEF WorkingIn, LockPCs, HandPCs, SizePCs
    <2>4. CASE MediumFind(t)
      <3>1. pc[t] \in WorkPCs \cap SizePCs /\ loc'[t].heap = loc[t].heap /\ loc'[t].want = loc[t].want
            /\ pc'[t] = "m_split" /\ held' = [held EXCEPT ![loc[t].heap] = t]
        BY <2>4 DEF MediumFind, Acquire, Goto, WorkPCs, SizePCs
      <3>. QED  BY <3>1 DEF WorkingIn
    <2>5. CASE MediumGrow(t)
      BY <2>5 DEF WorkingIn, MediumGrow, Goto, WorkPCs, MapPCs, RegPCs, LockPCs, HandPCs, HoldPCs,
         SizePCs
    <2>6. CASE MediumMap(t) \/ LargeMap(t)
      BY <2>6 DEF WorkingIn, MediumMap, LargeMap, SystemAlloc, Goto, WorkPCs, MapPCs, RegPCs,
         LockPCs,
           HandPCs, HoldPCs, SizePCs
    <2>7. CASE InitChunk(t)
      <3>1. pc[t] \in WorkPCs \cap SizePCs /\ loc'[t].heap = loc[t].heap /\ loc'[t].want = loc[t].want
            /\ pc'[t] = "g_lock"
        BY <2>7 DEF InitChunk, Goto, WorkPCs, MapPCs, RegPCs, SizePCs
      <3>. QED  BY <3>1 DEF WorkingIn, LockPCs, HandPCs
    <2>8. CASE GrowLock(t)
      <3>1. pc[t] \in WorkPCs \cap SizePCs /\ loc'[t] = loc[t]
            /\ pc'[t] = "m_split" /\ held' = [held EXCEPT ![loc[t].heap] = t]
        BY <2>8 DEF GrowLock, Acquire, Goto, WorkPCs, MapPCs, SizePCs
      <3>. QED  BY <3>1 DEF WorkingIn
    <2>9. CASE MediumSplit(t)
      <3>1. pc[t] \in WorkPCs /\ loc'[t].heap = loc[t].heap /\ pc'[t] \in {"s_relock", "a_load"}
        BY <2>9 DEF MediumSplit, Goto, WorkPCs, LockPCs, HandPCs
      <3>. QED  BY <3>1 DEF WorkingIn, LockPCs, HandPCs, SizePCs
    <2>10. CASE AllocLoad(t)
      <3>1. pc[t] \in WorkPCs /\ loc'[t].heap = loc[t].heap /\ pc'[t] = "a_store"
        BY <2>10 DEF AllocLoad, Goto, WorkPCs, HoldPCs
      <3>. QED  BY <3>1 DEF WorkingIn, LockPCs, HandPCs, SizePCs
    <2>11. CASE InitChunkFaults(t) \/ LargeLinkFaults(t) \/ SmallTake(t) \/ AllocStore(t) \/ LargeLink(t)
                \/ MediumFreeChunk(t) \/ MediumFreeLink(t) \/ LargeFree(t) \/ PlainMove(t)
      <3>1. pc'[t] \in PlainPCs
        BY <2>11 DEF InitChunkFaults, LargeLinkFaults, SmallTake, AllocStore, LargeLink,
             MediumFreeChunk, MediumFreeLink, LargeFree, PlainMove, Acquire, Return, Goto, PlainPCs
      <3>2. PlainPCs \cap WorkPCs = {} /\ LockPCs \cup SizePCs \subseteq WorkPCs
        BY DEF PlainPCs, WorkPCs, MapPCs, RegPCs, LockPCs, HandPCs, HoldPCs, SizePCs
      <3>. QED  BY <3>1, <3>2 DEF WorkingIn
    <2>12. CASE Free(t)
      <3>1. PICK x \in live :
              \/ /\ x.kind = "small" /\ pc' = [pc EXCEPT ![t] = "fs_lock"]
                 /\ loc' = [loc EXCEPT ![t] = [Idle EXCEPT !.heap = sys[x.blk.r].heap,
                                                           !.blk = x.blk, !.slot = x.slot]]
              \/ /\ x.kind = "medium" /\ pc' = [pc EXCEPT ![t] = "fm_lock"]
                 /\ loc' = [loc EXCEPT ![t] = [Idle EXCEPT !.heap = sys[x.blk.r].heap,
                                         !.blk = x.blk]]
              \/ /\ x.kind = "large" /\ pc' = [pc EXCEPT ![t] = "fl_lock"]
                 /\ loc' = [loc EXCEPT ![t] = [Idle EXCEPT !.heap = sys[x.r].heap]]
        BY <2>12 DEF Free
      <3>2. /\ MediumOwned /\ SmallOwned /\ LargeApart /\ RegionsApart /\ InMedium
            /\ live \subseteq SmallLive \cup MediumLive \cup LargeLive
        BY DEF HeapInv, Typed
      <3>3. \A b \in used : b \in Blocks /\ sys[b.r].heap \in Heaps
        BY <3>2, BlockFields DEF InMedium, RegionsApart, HeapInv, Typed
      <3>4. x.kind = "small" => sys[x.blk.r].heap \in Heaps
        BY <3>2, <3>3, LiveForms DEF SmallOwned, MediumOwned
      <3>5. x.kind = "medium" => sys[x.blk.r].heap \in Heaps
        BY <3>2, <3>3, LiveForms DEF MediumOwned
      <3>6. x.kind = "large" => sys[x.r].heap \in Heaps
        BY <3>2, LiveForms DEF LargeApart, RegionsApart
      <3>7. loc'[t].heap \in Heaps /\ pc'[t] \in {"fs_lock", "fm_lock", "fl_lock"}
        BY <3>1, <3>4, <3>5, <3>6 DEF Idle
      <3>. QED  BY <3>7 DEF WorkingIn, LockPCs, HandPCs, SizePCs
    <2>13. CASE SmallFree(t)
      <3>1. \/ pc'[t] = "user"
            \/ pc'[t] = "fm_lock" /\ loc'[t] = loc[t] /\ pc[t] \in WorkPCs
        BY <2>13 DEF SmallFree, Return, Goto, WorkPCs
      <3>2. "user" \notin WorkPCs /\ LockPCs \cup SizePCs \subseteq WorkPCs
            /\ "fm_lock" \notin LockPCs \cup SizePCs
        BY DEF WorkPCs, MapPCs, RegPCs, LockPCs, HandPCs, HoldPCs, SizePCs
      <3>. QED  BY <3>1, <3>2 DEF WorkingIn
    <2>14. CASE RegMove(t)
      <3>1. /\ pc[t] \in WorkPCs /\ pc'[t] \in RegPCs /\ loc'[t] = loc[t]
            /\ pc'[t] = "g_init" => loc[t].want # 0
        BY <2>14 DEF RegMove, WorkPCs, MapPCs, heapvars
      <3>2. RegPCs \cap LockPCs = {} /\ RegPCs \cap SizePCs = {"g_init"}
        BY DEF RegPCs, LockPCs, HandPCs, SizePCs
      <3>3. loc[t].want \in 0..Units
        BY DEF Local
      <3>4. loc[t].want # 0 => loc[t].want \in 1..Units
        BY <3>3, HeapAssumption
      <3>. QED  BY <3>1, <3>2, <3>4 DEF WorkingIn
    <2>15. CASE \E j \in Blocks, P \in SUBSET free : MergeMove(t, P, j)
      <3>1. pc[t] \in WorkPCs /\ loc'[t].heap = loc[t].heap /\ pc'[t] = "fm_link"
            /\ held' = [held EXCEPT ![loc[t].heap] = t]
        BY <2>15 DEF MergeMove, WorkPCs, HoldPCs
      <3>. QED  BY <3>1 DEF WorkingIn, SizePCs
    <2>. QED
      BY <2>1, <2>2, <2>3, <2>4, <2>5, <2>6, <2>7, <2>8, <2>9, <2>10, <2>11, <2>12, <2>13, <2>14,
         <2>15
      DEF Move
  <1>. QED  BY <1>2, <1>3 DEF Working, WorkingIn

-----------------------------------------------------------------------------
(* Regions: that of a thread that maps one, and those of large blocks.     *)

FreeSmall(t, b, s) ==
  /\ Small(b, s) \in live /\ live' = live \ {Small(b, s)}
  /\ pc' = [pc EXCEPT ![t] = "fs_lock"] /\ region' = region
  /\ loc' = [loc EXCEPT ![t] = [Idle EXCEPT !.heap = sys[b.r].heap, !.blk = b, !.slot = s]]

FreeMedium(t, b) ==
  /\ Medium(b) \in live /\ live' = live \ {Medium(b)}
  /\ pc' = [pc EXCEPT ![t] = "fm_lock"] /\ region' = region
  /\ loc' = [loc EXCEPT ![t] = [Idle EXCEPT !.heap = sys[b.r].heap, !.blk = b]]

FreeLarge(t, r) ==
  /\ Large(r) \in live /\ live' = live \ {Large(r)}
  /\ pc' = [pc EXCEPT ![t] = "fl_lock"] /\ region' = [region EXCEPT ![t] = r]
  /\ loc' = [loc EXCEPT ![t] = [Idle EXCEPT !.heap = sys[r].heap]]

LEMMA FreeMoves ==
  ASSUME HeapInv, NEW t \in Threads, Free(t)
  PROVE  /\ pc[t] = "user" /\ UNCHANGED <<held, sys, free, used, prevFree, small, cache>>
         /\ \/ \E b \in Blocks, s \in Slots : FreeSmall(t, b, s)
            \/ \E b \in Blocks : FreeMedium(t, b)
            \/ \E r \in Regions : FreeLarge(t, r)
  <1>1. PICK x \in live :
          /\ live' = live \ {x}
          /\ \/ /\ x.kind = "small"
                /\ pc' = [pc EXCEPT ![t] = "fs_lock"]
                /\ loc' = [loc EXCEPT ![t] = [Idle EXCEPT !.heap = sys[x.blk.r].heap,
                                                          !.blk = x.blk, !.slot = x.slot]]
                /\ UNCHANGED region
             \/ /\ x.kind = "medium"
                /\ pc' = [pc EXCEPT ![t] = "fm_lock"]
                /\ loc' = [loc EXCEPT ![t] = [Idle EXCEPT !.heap = sys[x.blk.r].heap,
                                                          !.blk = x.blk]]
                /\ UNCHANGED region
             \/ /\ x.kind = "large"
                /\ pc' = [pc EXCEPT ![t] = "fl_lock"]
                /\ loc' = [loc EXCEPT ![t] = [Idle EXCEPT !.heap = sys[x.r].heap]]
                /\ region' = [region EXCEPT ![t] = x.r]
    BY DEF Free
  <1>2. \/ x.kind = "small" /\ x.blk \in Blocks /\ x.slot \in Slots /\ x = Small(x.blk, x.slot)
        \/ x.kind = "medium" /\ x.blk \in Blocks /\ x = Medium(x.blk)
        \/ x.kind = "large" /\ x.r \in Regions /\ x = Large(x.r)
    BY LiveForms DEF HeapInv, Typed
  <1>3. pc[t] = "user" /\ UNCHANGED <<held, sys, free, used, prevFree, small, cache>>
    BY DEF Free
  <1>4. CASE x.kind = "small"
    <2>1. FreeSmall(t, x.blk, x.slot) /\ x.blk \in Blocks /\ x.slot \in Slots
      BY <1>1, <1>2, <1>4 DEF FreeSmall
    <2>. QED  BY <1>3, <2>1
  <1>5. CASE x.kind = "medium"
    BY <1>1, <1>2, <1>3, <1>5 DEF FreeMedium
  <1>6. CASE x.kind = "large"
    BY <1>1, <1>2, <1>3, <1>6 DEF FreeLarge
  <1>. QED  BY <1>2, <1>4, <1>5, <1>6

\* How a thread comes to the steps of each kind.
LEMMA MapsOnly ==
  ASSUME HeapInv, NEW t \in Threads, Move(t), pc'[t] \in MapPCs
  PROVE  MediumMap(t) \/ LargeMap(t) \/ InitChunk(t) \/ RegMove(t)
  <1>1. pc \in [Threads -> PCs]
    BY DEF HeapInv, Typed
  <1>. USE DEF MapPCs, RegPCs
  <1>2. ~MAlloc(t) /\ ~SmallPick(t) /\ ~SmallCached(t) /\ ~SmallNone(t) /\ ~SmallRelock(t) /\ ~SmallTake(t)
    BY <1>1 DEF MAlloc, SmallPick, SmallCached, SmallNone, SmallRelock, SmallTake, Acquire,
       Return, Goto
  <1>3. ~MediumFind(t) /\ ~MediumGrow(t) /\ ~InitChunkFaults(t) /\ ~GrowLock(t) /\ ~MediumSplit(t)
    BY <1>1 DEF MediumFind, MediumGrow, InitChunkFaults, GrowLock, MediumSplit, Acquire, Goto
  <1>4. ~AllocLoad(t) /\ ~AllocStore(t) /\ ~LargeLink(t) /\ ~LargeLinkFaults(t)
    BY <1>1 DEF AllocLoad, AllocStore, LargeLink, LargeLinkFaults, Acquire, Return, Goto
  <1>5. ~Free(t) /\ ~SmallFree(t) /\ ~MediumFreeChunk(t) /\ ~MediumFreeLink(t) /\ ~LargeFree(t)
    BY <1>1 DEF Free, SmallFree, MediumFreeChunk, MediumFreeLink, LargeFree, Return, Goto
  <1>6. ~PlainMove(t) /\ \A j \in Blocks, P \in SUBSET free : ~MergeMove(t, P, j)
    BY <1>1 DEF PlainMove, PlainPCs, MergeMove
  <1>. QED  BY <1>2, <1>3, <1>4, <1>5, <1>6 DEF Move

RegionApart(t) ==
  /\ pc[t] \in RegPCs => region[t] \in Regions \cup {Failed}
  /\ pc[t] = "g_lock" => region[t] \in Regions /\ loc[t].blk = Block(region[t], 0, Units)
  /\ pc[t] \in MapPCs /\ region[t] \in Regions =>
       /\ sys[region[t]] = [heap |-> loc[t].heap, use |-> "mapped"]
       /\ \A u \in Threads \ {t} : pc[u] \in MapPCs => region[u] # region[t]

\* What is in a region's entry after MediumMap or LargeMap.
LEMMA Mapped ==
  ASSUME HeapInv, NEW t \in Threads, MediumMap(t) \/ LargeMap(t)
  PROVE  /\ pc'[t] \in RegPCs /\ loc' = loc /\ loc[t].heap \in Heaps /\ pc[t] \in {"g_map", "l_map"}
         /\ \/ region'[t] = Failed
            \/ /\ region'[t] \in Regions /\ sys[region'[t]].use = "unmapped"
               /\ sys'[region'[t]] = [heap |-> loc[t].heap, use |-> "mapped"]
  <1>1. /\ Working /\ pc \in [Threads -> PCs] /\ region \in [Threads -> Places]
        /\ sys \in [Regions -> [heap : Heaps \cup {None}, use : Uses]]
    BY DEF HeapInv, Typed
  <1>2. pc'[t] \in RegPCs /\ loc' = loc /\ pc[t] \in {"g_map", "l_map"}
    BY <1>1 DEF MediumMap, LargeMap, SystemAlloc, Goto, RegPCs
  <1>3. loc[t].heap \in Heaps
    BY <1>1, <1>2 DEF Working, WorkPCs
  <1>4. \/ region' = [region EXCEPT ![t] = Failed]
        \/ \E r \in Regions :
             /\ sys[r].use = "unmapped" /\ region' = [region EXCEPT ![t] = r]
             /\ sys' = [sys EXCEPT ![r] = [heap |-> loc[t].heap, use |-> "mapped"]]
    BY DEF MediumMap, LargeMap, SystemAlloc
  <1>. QED  BY <1>1, <1>2, <1>3, <1>4

LEMMA RegionsApartStep ==
  ASSUME HeapInv, NEW t \in Threads, Move(t)
  PROVE  RegionsApart'
  <1>1. /\ Working /\ RegionsApart /\ pc \in [Threads -> PCs] /\ region \in [Threads -> Places]
        /\ sys \in [Regions -> [heap : Heaps \cup {None}, use : Uses]]
        /\ \A u \in Threads : RegionApart(u)
        /\ Failed \notin Regions
    BY MemMapAssumption DEF HeapInv, Typed, RegionsApart, RegionApart
  <1>2. ASSUME NEW r \in Regions, sys'[r].use # "unmapped"
        PROVE  sys'[r].heap \in Heaps
    <2>1. SysKept(t, r)
      BY SysStays
    <2>2. CASE sys[r].use # "unmapped"
      BY <1>1, <2>1, <2>2 DEF SysKept, RegionsApart
    <2>3. CASE sys[r].use = "unmapped"
      <3>1. (MediumMap(t) \/ LargeMap(t)) /\ sys'[r] = [heap |-> loc[t].heap, use |-> "mapped"]
        BY <1>2, <2>1, <2>3 DEF SysKept
      <3>. QED  BY <3>1, Mapped
    <2>. QED  BY <2>2, <2>3
  <1>3. \A u \in Threads \ {t} : pc'[u] = pc[u] /\ region'[u] = region[u] /\ loc'[u] = loc[u]
    BY OthersStay DEF Others
  <1>4. GrowLock(t) \/ LargeLink(t) => pc[t] \in MapPCs
    BY DEF GrowLock, LargeLink, Acquire, Return, Goto, MapPCs, RegPCs
  \* A region that is used by another thread is not taken.
  <1>5. ASSUME NEW u \in Threads \ {t}, pc[u] \in MapPCs, region[u] \in Regions, pc'[t] \in MapPCs
        PROVE  region'[t] # region[u]
    <2>1. CASE MediumMap(t) \/ LargeMap(t)
      <3>1. sys[region[u]].use = "mapped"
        <4>1. RegionApart(u)
          BY <1>1
        <4>. QED  BY <1>5, <4>1 DEF RegionApart
      <3>. QED  BY <1>1, <1>5, <2>1, <3>1, Mapped
    <2>2. CASE InitChunk(t) \/ RegMove(t)
      <3>1. pc[t] \in MapPCs /\ region'[t] = region[t]
        BY <2>2 DEF InitChunk, RegMove, Goto, MapPCs, RegPCs
      <3>. QED  BY <1>1, <1>5, <3>1 DEF RegionApart
    <2>. QED  BY <1>5, <2>1, <2>2, MapsOnly
  <1>6. ASSUME NEW u \in Threads \ {t}
        PROVE  RegionApart(u)'
    <2>1. pc'[u] = pc[u] /\ region'[u] = region[u] /\ loc'[u] = loc[u] /\ RegionApart(u)
      BY <1>1, <1>3
    <2>2. ASSUME pc[u] \in MapPCs, region[u] \in Regions
          PROVE  /\ sys'[region[u]] = [heap |-> loc[u].heap, use |-> "mapped"]
                 /\ \A v \in Threads \ {u} : pc'[v] \in MapPCs => region'[v] # region[u]
      <3>1. sys[region[u]] = [heap |-> loc[u].heap, use |-> "mapped"]
        BY <2>1, <2>2 DEF RegionApart
      <3>2. GrowLock(t) \/ LargeLink(t) => region[t] # region[u]
        BY <1>4, <2>1, <2>2 DEF RegionApart
      <3>3. sys'[region[u]] = sys[region[u]]
        <4>1. SysKept(t, region[u])
          BY <2>2, SysStays
        <4>. QED  BY <3>1, <3>2, <4>1 DEF SysKept
      <3>4. \A v \in Threads \ {u} : pc'[v] \in MapPCs => region'[v] # region[u]
        BY <1>3, <1>5, <2>1, <2>2 DEF RegionApart
      <3>. QED  BY <3>1, <3>3, <3>4
    <2>. QED  BY <2>1, <2>2 DEF RegionApart
  <1>7. RegionApart(t)'
    <2>1. CASE pc'[t] \notin MapPCs
      BY <2>1 DEF RegionApart, MapPCs
    <2>2. CASE (MediumMap(t) \/ LargeMap(t)) /\ pc'[t] \in MapPCs
      <3>1. "g_lock" \notin RegPCs
        BY DEF RegPCs
      <3>2. \A u \in Threads \ {t} : pc'[u] \in MapPCs /\ region'[t] \in Regions => region'[u] # region'[t]
        BY <1>3, <1>5, <2>2
      <3>. QED  BY <1>1, <2>2, <3>1, <3>2, Mapped DEF RegionApart
    <2>3. CASE (InitChunk(t) \/ RegMove(t)) /\ pc'[t] \in MapPCs
      <3>1. pc[t] \in RegPCs /\ region'[t] = region[t] /\ loc'[t].heap = loc[t].heap /\ sys' = sys
            /\ RegionApart(t)
        <4>1. CASE InitChunk(t)
          BY <1>1, <4>1 DEF InitChunk, Goto, RegPCs, HeapInv, Typed
        <4>2. CASE RegMove(t)
          BY <1>1, <4>2 DEF RegMove, heapvars
        <4>. QED  BY <2>3, <4>1, <4>2
      <3>2. pc'[t] = "g_lock" => region'[t] \in Regions /\ loc'[t].blk = Block(region'[t], 0, Units)
        <4>1. CASE InitChunk(t)
          <5>1. loc'[t].blk = Block(region[t], 0, Units) /\ region[t] # Failed
            BY <4>1 DEF InitChunk, HeapInv, Typed
          <5>. QED  BY <3>1, <5>1 DEF RegionApart
        <4>2. CASE RegMove(t)
          BY <1>1, <4>2 DEF RegMove, RegPCs
        <4>. QED  BY <2>3, <4>1, <4>2
      <3>3. \A u \in Threads \ {t} : pc'[u] \in MapPCs => pc[u] \in MapPCs /\ region'[u] = region[u]
        BY <1>3
      <3>. QED  BY <3>1, <3>2, <3>3 DEF RegionApart, MapPCs
    <2>. QED  BY <2>1, <2>2, <2>3, MapsOnly
  <1>. QED  BY <1>2, <1>6, <1>7 DEF RegionsApart, RegionApart

\* Only Free takes a thread to the freeing of a region.
LEMMA FreesOnly ==
  ASSUME HeapInv, NEW t \in Threads, Move(t), pc'[t] = "fl_lock"
  PROVE  Free(t)
  <1>1. pc \in [Threads -> PCs]
    BY DEF HeapInv, Typed
  <1>2. ~MAlloc(t) /\ ~SmallPick(t) /\ ~SmallCached(t) /\ ~SmallNone(t) /\ ~SmallRelock(t) /\ ~SmallTake(t)
    BY <1>1 DEF MAlloc, SmallPick, SmallCached, SmallNone, SmallRelock, SmallTake, Acquire,
       Return, Goto
  <1>3. ~MediumFind(t) /\ ~MediumGrow(t) /\ ~InitChunkFaults(t) /\ ~GrowLock(t) /\ ~MediumSplit(t)
    BY <1>1 DEF MediumFind, MediumGrow, InitChunkFaults, GrowLock, MediumSplit, Acquire, Goto
  <1>4. ~AllocLoad(t) /\ ~AllocStore(t) /\ ~LargeLink(t) /\ ~LargeLinkFaults(t)
    BY <1>1 DEF AllocLoad, AllocStore, LargeLink, LargeLinkFaults, Acquire, Return, Goto
  <1>5. ~SmallFree(t) /\ ~MediumFreeChunk(t) /\ ~MediumFreeLink(t) /\ ~LargeFree(t)
    BY <1>1 DEF SmallFree, MediumFreeChunk, MediumFreeLink, LargeFree, Return, Goto
  <1>6. ~PlainMove(t) /\ ~RegMove(t) /\ \A j \in Blocks, P \in SUBSET free : ~MergeMove(t, P, j)
    BY <1>1 DEF PlainMove, PlainPCs, RegMove, RegPCs, MergeMove
  <1>7. ~MediumMap(t) /\ ~LargeMap(t) /\ ~InitChunk(t)
    BY <1>1 DEF MediumMap, LargeMap, SystemAlloc, InitChunk, Goto
  <1>. QED  BY <1>2, <1>3, <1>4, <1>5, <1>6, <1>7 DEF Move

\* What MAlloc has returned grows by what is its own kind.
LEMMA LiveGrows ==
  ASSUME HeapInv, NEW t \in Threads, Move(t)
  PROVE  /\ \A r \in Regions : Large(r) \in live' => Large(r) \in live \/ (LargeLink(t) /\ region[t] = r)
         /\ \A b \in Blocks : Medium(b) \in live' => Medium(b) \in live \/ (AllocStore(t) /\ loc[t].blk = b)
         /\ \A b \in Blocks, s \in Slots : Small(b, s) \in live' =>
              \/ Small(b, s) \in live
              \/ /\ SmallTake(t) /\ loc[t].blk = b
                 /\ s \notin small[b] /\ small' = [small EXCEPT ![b] = @ \cup {s}]
  <1>1. CASE live' = live \/ \E x \in live : live' = live \ {x}
    BY <1>1
  <1>2. CASE live' = live \cup {Medium(loc[t].blk)} /\ AllocStore(t)
    BY <1>2, FormsDiffer
  <1>3. CASE SmallTake(t) /\ \E s \in Slots \ small[loc[t].blk] :
               /\ live' = live \cup {Small(loc[t].blk, s)}
               /\ small' = [small EXCEPT ![loc[t].blk] = @ \cup {s}]
    <2>1. PICK s \in Slots \ small[loc[t].blk] :
            /\ live' = live \cup {Small(loc[t].blk, s)}
            /\ small' = [small EXCEPT ![loc[t].blk] = @ \cup {s}]
      BY <1>3
    <2>2. \A b \in Blocks, e \in Slots : Small(b, e) = Small(loc[t].blk,
               s) => b = loc[t].blk /\ e = s
      BY SmallsDiffer
    <2>. QED  BY <1>3, <2>1, <2>2, FormsDiffer
  <1>4. CASE live' = live \cup {Large(region[t])} /\ LargeLink(t)
    <2>1. \A r \in Regions : Large(r) = Large(region[t]) => r = region[t]
      BY LargesDiffer
    <2>. QED  BY <1>4, <2>1, FormsDiffer
  <1>. QED  BY <1>1, <1>2, <1>3, <1>4, LiveMoves

LargeIn(t) ==
  pc[t] = "fl_lock" =>
    /\ region[t] \in Regions /\ sys[region[t]].use = "large" /\ Large(region[t]) \notin live
    /\ \A u \in Threads \ {t} : pc[u] = "fl_lock" => region[u] # region[t]

LEMMA LargeApartStep ==
  ASSUME HeapInv, NEW t \in Threads, Move(t)
  PROVE  LargeApart'
  <1>1. /\ LargeApart /\ pc \in [Threads -> PCs] /\ region \in [Threads -> Places]
        /\ sys \in [Regions -> [heap : Heaps \cup {None}, use : Uses]]
        /\ \A u \in Threads : LargeIn(u)
    BY DEF HeapInv, Typed, LargeApart, LargeIn
  <1>2. \A u \in Threads \ {t} : pc'[u] = pc[u] /\ region'[u] = region[u] /\ loc'[u] = loc[u]
    BY OthersStay DEF Others
  <1>3. LargeFree(t) => pc[t] = "fl_lock"
    BY DEF LargeFree, Return, Goto
  <1>4. LargeLink(t) => region[t] \in Regions /\ sys[region[t]].use = "mapped"
                        /\ sys' = [sys EXCEPT ![region[t]].use = "large"]
    <2>1. RegionApart(t)
      BY DEF HeapInv, RegionsApart, RegionApart
    <2>2. LargeLink(t) => pc[t] \in RegPCs \cap MapPCs /\ region[t] # Failed
                          /\ sys' = [sys EXCEPT ![region[t]].use = "large"]
      BY DEF LargeLink, Return, Goto, MapPCs, RegPCs
    <2>. QED  BY <2>1, <2>2 DEF RegionApart
  <1>5. ASSUME NEW r \in Regions, Large(r) \in live'
        PROVE  sys'[r].use = "large"
    <2>1. CASE Large(r) \in live
      <3>1. sys[r].use = "large" /\ SysKept(t, r)
        BY <1>1, <2>1, SysStays DEF LargeApart
      <3>2. ~(LargeFree(t) /\ region[t] = r)
        BY <1>1, <1>3, <2>1 DEF LargeIn
      <3>. QED  BY <3>1, <3>2 DEF SysKept
    <2>2. CASE LargeLink(t) /\ region[t] = r
      BY <1>1, <1>4, <2>2
    <2>. QED  BY <1>5, <2>1, <2>2, LiveGrows
  <1>6. ASSUME NEW u \in Threads \ {t}, pc[u] = "fl_lock"
        PROVE  /\ sys'[region[u]].use = "large" /\ Large(region[u]) \notin live'
               /\ pc'[t] = "fl_lock" => region'[t] # region[u]
    <2>1. region[u] \in Regions /\ sys[region[u]].use = "large" /\ Large(region[u]) \notin live
          /\ SysKept(t, region[u]) /\ (pc[t] = "fl_lock" => region[t] # region[u])
      BY <1>1, <1>6, SysStays DEF LargeIn
    <2>2. sys'[region[u]].use = "large"
      BY <1>3, <2>1 DEF SysKept
    <2>3. Large(region[u]) \notin live'
      BY <1>4, <2>1, LiveGrows
    <2>4. ASSUME pc'[t] = "fl_lock"
          PROVE  region'[t] # region[u]
      <3>1. PICK r \in Regions : FreeLarge(t, r)
        BY <1>1, <2>4, FreesOnly, FreeMoves DEF FreeSmall, FreeMedium
      <3>. QED  BY <1>1, <2>1, <3>1 DEF FreeLarge
    <2>. QED  BY <2>2, <2>3, <2>4
  <1>7. ASSUME pc'[t] = "fl_lock"
        PROVE  /\ region'[t] \in Regions /\ sys'[region'[t]].use = "large"
               /\ Large(region'[t]) \notin live'
    <2>1. PICK r \in Regions : FreeLarge(t, r)
      BY <1>1, <1>7, FreesOnly, FreeMoves DEF FreeSmall, FreeMedium
    <2>2. sys' = sys
      BY <1>7, FreesOnly, FreeMoves
    <2>. QED  BY <1>1, <2>1, <2>2 DEF LargeApart, FreeLarge
  <1>8. \A u \in Threads : LargeIn(u)'
    <2>1. ASSUME NEW u \in Threads \ {t}
          PROVE  LargeIn(u)'
      <3>1. LargeIn(u)
        BY <1>1
      <3>. QED  BY <1>2, <1>6, <2>1, <3>1 DEF LargeIn
    <2>2. LargeIn(t)'
      BY <1>2, <1>6, <1>7 DEF LargeIn
    <2>. QED  BY <2>1, <2>2
  <1>. QED  BY <1>5, <1>8 DEF LargeApart, LargeIn

-----------------------------------------------------------------------------
(* Owners of the medium blocks.                                            *)

HoldIn(t) ==
  pc[t] \in HoldPCs =>
    /\ loc[t].blk \in used \ DOMAIN small /\ Medium(loc[t].blk) \notin live
    /\ \A h \in Heaps : cache[h] # None => cache[h] # loc[t].blk
    /\ \A u \in Threads \ {t} : pc[u] \in HoldPCs => loc[u].blk # loc[t].blk
    /\ pc[t] = "s_relock" => sys[loc[t].blk.r].heap = loc[t].heap

CacheIn(h) ==
  cache[h] # None =>
    /\ cache[h] \in used \ DOMAIN small /\ sys[cache[h].r].heap = h
    /\ Medium(cache[h]) \notin live

LEMMA OwnedParts ==
  MediumOwned <=> /\ DOMAIN small \subseteq used
                  /\ \A b \in Blocks : Medium(b) \in live => b \in used \ DOMAIN small
                  /\ \A h \in Heaps : CacheIn(h)
                  /\ \A t \in Threads : HoldIn(t)
  BY DEF MediumOwned, CacheIn, HoldIn

\* The caches of two heaps are two chunks.
LEMMA CachesDiffer ==
  ASSUME MediumOwned, NEW g \in Heaps, NEW h \in Heaps, cache[g] # None, cache[g] = cache[h]
  PROVE  g = h
  BY DEF MediumOwned

\* The heap of a block stays, and so do most owners.
LEMMA UsedKept ==
  ASSUME HeapInv, NEW t \in Threads, Move(t)
  PROVE  \A b \in used : b \in Blocks /\ b.r \in Regions /\ sys'[b.r].heap = sys[b.r].heap
  <1>1. ASSUME NEW b \in used
        PROVE  b \in Blocks /\ b.r \in Regions /\ sys'[b.r].heap = sys[b.r].heap
    <2>1. b \in Blocks /\ sys[b.r].use = "medium"
      BY DEF HeapInv, Typed, InMedium
    <2>2. b.r \in Regions
      BY <2>1, BlockFields
    <2>3. SysKept(t, b.r)
      BY <2>2, SysStays
    <2>. QED  BY <2>1, <2>2, <2>3 DEF SysKept
  <1>. QED  BY <1>1

OwnersQuiet(t) ==
  /\ used' = used /\ cache' = cache /\ DOMAIN small' = DOMAIN small
  /\ \A b \in Blocks : Medium(b) \in live' => Medium(b) \in live
  /\ pc'[t] \in HoldPCs => pc[t] \in HoldPCs /\ loc'[t].blk = loc[t].blk /\ pc'[t] # "s_relock"

LEMMA QuietMoves ==
  ASSUME HeapInv, NEW t \in Threads, Move(t)
  PROVE  \/ OwnersQuiet(t)
         \/ SmallCached(t) \/ SmallRelock(t) \/ MediumSplit(t) \/ AllocStore(t) \/ Free(t) \/ SmallFree(t)
         \/ \E j \in Blocks, P \in SUBSET free : MergeMove(t, P, j)
  <1>1. pc \in [Threads -> PCs] /\ loc \in [Threads -> Local]
    BY DEF HeapInv, Typed
  <1>2. ~AllocStore(t) => \A b \in Blocks : Medium(b) \in live' => Medium(b) \in live
    BY LiveGrows
  <1>. USE DEF HoldPCs
  <1>3. CASE MAlloc(t) \/ SmallPick(t) \/ SmallNone(t) \/ MediumFind(t) \/ MediumGrow(t)
    <2>1. pc'[t] \notin HoldPCs
      BY <1>1, <1>3 DEF MAlloc, SmallPick, SmallNone, MediumFind, MediumGrow, Acquire, Goto
    <2>2. UNCHANGED <<used, cache, small, live>>
      BY <1>3 DEF MAlloc, SmallPick, SmallNone, MediumFind, MediumGrow
    <2>. QED  BY <2>1, <2>2 DEF OwnersQuiet
  <1>4. CASE MediumMap(t) \/ LargeMap(t) \/ InitChunk(t) \/ InitChunkFaults(t) \/ GrowLock(t)
    <2>1. pc'[t] \notin HoldPCs
      BY <1>1, <1>4 DEF MediumMap, LargeMap, SystemAlloc, InitChunk, InitChunkFaults, GrowLock,
         Acquire, Goto
    <2>2. UNCHANGED <<used, cache, small, live>>
      BY <1>4 DEF MediumMap, LargeMap, SystemAlloc, InitChunk, InitChunkFaults, GrowLock
    <2>. QED  BY <2>1, <2>2 DEF OwnersQuiet
  <1>5. CASE LargeLink(t) \/ LargeLinkFaults(t) \/ MediumFreeChunk(t) \/ MediumFreeLink(t) \/ LargeFree(t)
              \/ RegMove(t) \/ PlainMove(t)
    <2>1. pc'[t] \notin HoldPCs
      BY <1>1, <1>5 DEF LargeLink, LargeLinkFaults, MediumFreeChunk, MediumFreeLink, LargeFree,
           RegMove, PlainMove, RegPCs, PlainPCs, Acquire, Return, Goto
    <2>2. UNCHANGED <<used, cache, small>>
      BY <1>5 DEF LargeLink, LargeLinkFaults, MediumFreeChunk, MediumFreeLink, LargeFree, RegMove,
           PlainMove, heapvars
    <2>3. ~AllocStore(t)
      BY <1>5 DEF LargeLink, LargeLinkFaults, MediumFreeChunk, MediumFreeLink, LargeFree, RegMove,
           PlainMove, RegPCs, PlainPCs, AllocStore, Acquire, Return, Goto
    <2>. QED  BY <1>2, <2>1, <2>2, <2>3 DEF OwnersQuiet
  <1>6. CASE SmallTake(t)
    <2>1. pc'[t] \notin HoldPCs /\ UNCHANGED <<used, cache>> /\ DOMAIN small' = DOMAIN small
      BY <1>1, <1>6 DEF SmallTake, Return, Goto
    <2>2. ~AllocStore(t)
      BY <1>6 DEF SmallTake, AllocStore, Return, Goto
    <2>. QED  BY <1>2, <2>1, <2>2 DEF OwnersQuiet
  <1>7. CASE AllocLoad(t)
    <2>1. pc[t] \in HoldPCs /\ pc'[t] = "a_store" /\ loc'[t].blk = loc[t].blk
          /\ UNCHANGED <<used, cache, small, live>>
      BY <1>1, <1>7 DEF AllocLoad, Goto
    <2>. QED  BY <2>1 DEF OwnersQuiet
  <1>. QED  BY <1>3, <1>4, <1>5, <1>6, <1>7 DEF Move

\* A new allocated block is none of those there were.
LEMMA SplitMoves ==
  ASSUME HeapInv, NEW t \in Threads, MediumSplit(t)
  PROVE  LET b == loc[t].blk
             w == loc[t].want
             a == Block(b.r, b.at, w)
             c == Block(b.r, b.at + w, b.n - w)
         IN  /\ b \in Blocks /\ a \in Blocks /\ a \notin used
             /\ pc' = [pc EXCEPT ![t] = IF loc[t].chunk THEN "s_relock" ELSE "a_load"]
             /\ w \in 1..Units /\ w <= b.n
             /\ used' = used \cup {a} /\ loc' = [loc EXCEPT ![t].blk = a]
             /\ \/ w = b.n /\ a = b /\ free' = free
                \/ w < b.n /\ c \in Blocks /\ free' = free \cup {c}
             /\ sys[b.r].heap = loc[t].heap /\ sys[b.r].use = "medium"
             /\ UNCHANGED <<region, sys, small, cache, live>>
  <1>. DEFINE b == loc[t].blk
              w == loc[t].want
              a == Block(b.r, b.at, w)
              c == Block(b.r, b.at + w, b.n - w)
  <1>1. Typed /\ Apart /\ Working /\ InMedium
    BY DEF HeapInv
  <1>2. pc[t] = "m_split"
    BY DEF MediumSplit, Goto
  <1>3. b \in Blocks /\ w \in 1..Units /\ w <= b.n /\ sys[b.r].heap = loc[t].heap /\ sys[b.r].use = "medium"
    BY <1>1, <1>2 DEF Apart, HandPCs, Working, SizePCs, InMedium
  <1>4. b.r \in Regions /\ b.at \in Nat /\ b.n \in Nat /\ b.at + b.n <= Units /\ b = Block(b.r,
           b.at, b.n)
    BY <1>3, BlockFields
  <1>5. w \in Nat /\ w > 0 /\ b.at + w <= Units /\ Units \in Nat
    BY <1>3, <1>4, HeapAssumption
  <1>6. a \in Blocks
    BY <1>4, <1>5, BlockIs
  <1>7. w < b.n => c \in Blocks
    <2>1. w < b.n => b.at + w \in Nat /\ b.n - w \in Nat /\ b.n - w > 0 /\ (b.at + w) + (b.n - w) <= Units
      BY <1>4, <1>5
    <2>. QED  BY <1>4, <2>1, BlockIs
  <1>8. a.r = b.r /\ a.at = b.at /\ a.n = w
    BY DEF Block
  <1>9. a \notin used
    <2>1. Meet(b, a)
      BY <1>4, <1>5, <1>8, <1>3, BlockFields DEF Meet
    <2>. QED  BY <1>1, <1>2, <2>1 DEF Apart, HandPCs
  <1>10. /\ used' = used \cup {a} /\ loc' = [loc EXCEPT ![t].blk = a]
         /\ free' = IF a = b THEN free ELSE free \cup {Block(b.r, b.at + a.n, b.n - a.n)}
         /\ UNCHANGED <<region, sys, small, cache, live>>
         /\ pc' = [pc EXCEPT ![t] = IF loc[t].chunk THEN "s_relock" ELSE "a_load"]
    BY DEF MediumSplit, Goto
  <1>11. \/ w = b.n /\ a = b /\ free' = free
         \/ w < b.n /\ free' = free \cup {c}
    <2>1. CASE w = b.n
      BY <1>4, <1>10, <2>1
    <2>2. CASE w # b.n
      <3>1. a # b
        BY <1>8, <2>2
      <3>2. w < b.n
        BY <1>3, <1>4, <1>5, <2>2
      <3>. QED  BY <1>8, <1>10, <3>1, <3>2
    <2>. QED  BY <2>1, <2>2
  <1>. QED  BY <1>3, <1>6, <1>7, <1>9, <1>10, <1>11

LEMMA MediumOwnedStep ==
  ASSUME HeapInv, NEW t \in Threads, Move(t)
  PROVE  MediumOwned'
  <1>1. /\ pc \in [Threads -> PCs] /\ loc \in [Threads -> Local] /\ cache \in [Heaps -> Blocks \cup {None}]
        /\ DOMAIN small \subseteq used /\ used \subseteq Blocks
        /\ \A b \in Blocks : Medium(b) \in live => b \in used \ DOMAIN small
        /\ \A h \in Heaps : CacheIn(h)
        /\ \A u \in Threads : HoldIn(u)
    BY OwnedParts DEF HeapInv, Typed
  <1>2. \A u \in Threads \ {t} : pc'[u] = pc[u] /\ loc'[u] = loc[u]
    BY OthersStay DEF Others
  <1>3. /\ pc' \in [Threads -> PCs] /\ loc' \in [Threads -> Local]
        /\ cache' \in [Heaps -> Blocks \cup {None}] /\ used' \subseteq Blocks
    BY TypedStep DEF Typed
  <1>4. \A b \in used : sys'[b.r].heap = sys[b.r].heap
    BY UsedKept
  <1>. DEFINE Kept == /\ DOMAIN small' \subseteq used'
                      /\ \A b \in Blocks : Medium(b) \in live' => b \in used' \ DOMAIN small'
                      /\ \A h \in Heaps : CacheIn(h)'
                      /\ \A u \in Threads \ {t} : HoldIn(u)'
                      /\ HoldIn(t)'
  <1>5. ASSUME OwnersQuiet(t)
        PROVE  Kept
    <2>1. ASSUME NEW h \in Heaps
          PROVE  CacheIn(h)'
      <3>1. CacheIn(h) /\ cache'[h] = cache[h]
        BY <1>1, <1>5 DEF OwnersQuiet
      <3>2. cache[h] # None => cache[h] \in Blocks
        BY <1>1
      <3>. QED  BY <1>4, <1>5, <3>1, <3>2 DEF OwnersQuiet, CacheIn
    <2>2. ASSUME NEW u \in Threads
          PROVE  HoldIn(u)'
      <3>1. ASSUME pc'[u] \in HoldPCs
            PROVE  /\ pc[u] \in HoldPCs /\ loc'[u].blk = loc[u].blk
                   /\ pc'[u] = "s_relock" => pc[u] = "s_relock" /\ loc'[u].heap = loc[u].heap
        BY <1>2, <1>5, <3>1 DEF OwnersQuiet
      <3>2. \A v \in Threads : pc'[v] \in HoldPCs => pc[v] \in HoldPCs /\ loc'[v].blk = loc[v].blk
        BY <1>2, <1>5 DEF OwnersQuiet
      <3>3. HoldIn(u)
        BY <1>1
      <3>. QED  BY <1>1, <1>4, <1>5, <3>1, <3>2, <3>3 DEF OwnersQuiet, HoldIn
    <2>3. \A b \in Blocks : Medium(b) \in live' => b \in used' \ DOMAIN small'
      BY <1>1, <1>5 DEF OwnersQuiet
    <2>. QED  BY <1>1, <1>5, <2>1, <2>2, <2>3 DEF OwnersQuiet
  <1>6. ASSUME SmallCached(t)
        PROVE  Kept
    <2>. DEFINE h == loc[t].heap
    <2>1. /\ h \in Heaps /\ cache[h] # None /\ pc'[t] = "s_take"
          /\ DOMAIN small' = DOMAIN small \cup {cache[h]} /\ cache' = [cache EXCEPT ![h] = None]
          /\ UNCHANGED <<sys, used, live>>
      BY <1>1, <1>6 DEF SmallCached, WithChunk, Acquire, Goto, HeapInv, Working, WorkPCs
    <2>. HIDE DEF h
    <2>2. cache[h] \in used \ DOMAIN small /\ Medium(cache[h]) \notin live
      BY <1>1, <2>1 DEF CacheIn
    <2>3. ASSUME NEW g \in Heaps
          PROVE  CacheIn(g)'
      <3>1. CacheIn(g) /\ CacheIn(h)
        BY <1>1, <2>1
      <3>. QED  BY <1>1, <2>1, <3>1 DEF CacheIn
    <2>4. ASSUME NEW u \in Threads \ {t}
          PROVE  HoldIn(u)'
      <3>1. HoldIn(u)
        BY <1>1
      <3>. QED  BY <1>1, <1>2, <2>1, <3>1 DEF HoldIn, HoldPCs
    <2>5. HoldIn(t)'
      BY <2>1 DEF HoldIn, HoldPCs
    <2>. QED  BY <1>1, <2>1, <2>2, <2>3, <2>4, <2>5
  <1>7. ASSUME SmallRelock(t)
        PROVE  Kept
    <2>. DEFINE b == loc[t].blk
    <2>1. /\ pc[t] \in HoldPCs /\ pc'[t] = "s_take"
          /\ DOMAIN small' = DOMAIN small \cup {b}
          /\ UNCHANGED <<sys, used, live, cache>>
      BY <1>1, <1>7 DEF SmallRelock, WithChunk, Acquire, Goto, HoldPCs
    <2>2. b \in used \ DOMAIN small /\ Medium(b) \notin live
      BY <1>1, <2>1 DEF HoldIn
    <2>3. ASSUME NEW g \in Heaps
          PROVE  CacheIn(g)'
      <3>1. CacheIn(g) /\ HoldIn(t)
        BY <1>1
      <3>. QED  BY <1>1, <2>1, <3>1 DEF CacheIn, HoldIn
    <2>4. ASSUME NEW u \in Threads \ {t}
          PROVE  HoldIn(u)'
      <3>1. HoldIn(u) /\ HoldIn(t)
        BY <1>1
      <3>. QED  BY <1>1, <1>2, <2>1, <3>1 DEF HoldIn, HoldPCs
    <2>5. HoldIn(t)'
      BY <2>1 DEF HoldIn, HoldPCs
    <2>. QED  BY <1>1, <2>1, <2>2, <2>3, <2>4, <2>5
  <1>8. ASSUME MediumSplit(t)
        PROVE  Kept
    <2>. DEFINE b == loc[t].blk
                a == Block(b.r, b.at, loc[t].want)
    <2>1. /\ a \notin used /\ used' = used \cup {a} /\ loc' = [loc EXCEPT ![t].blk = a]
          /\ sys[b.r].heap = loc[t].heap /\ a \in Blocks
          /\ UNCHANGED <<sys, small, cache, live>>
      BY <1>8, SplitMoves
    <2>2. a.r = b.r
      BY DEF Block
    <2>3. loc'[t].blk = a /\ loc'[t].heap = loc[t].heap
      BY <1>1, <2>1
    <2>. HIDE DEF a, b
    <2>4. ASSUME NEW g \in Heaps
          PROVE  CacheIn(g)'
      <3>1. CacheIn(g)
        BY <1>1
      <3>. QED  BY <1>1, <2>1, <3>1 DEF CacheIn
    <2>5. ASSUME NEW u \in Threads \ {t}
          PROVE  HoldIn(u)'
      <3>1. HoldIn(u)
        BY <1>1
      <3>. QED  BY <1>1, <1>2, <2>1, <2>3, <3>1 DEF HoldIn
    <2>6. HoldIn(t)'
      <3>1. \A h \in Heaps : cache[h] # None => cache[h] # a
        BY <1>1, <2>1 DEF CacheIn
      <3>2. \A u \in Threads \ {t} : pc'[u] \in HoldPCs => loc'[u].blk # a
        BY <1>1, <1>2, <2>1 DEF HoldIn
      <3>. QED  BY <1>1, <2>1, <2>2, <2>3, <3>1, <3>2 DEF HoldIn
    <2>. QED  BY <1>1, <2>1, <2>4, <2>5, <2>6
  <1>9. ASSUME AllocStore(t)
        PROVE  Kept
    <2>. DEFINE b == loc[t].blk
    <2>1. /\ pc[t] \in HoldPCs /\ pc'[t] = "user" /\ UNCHANGED <<sys, used, small, cache>>
      BY <1>1, <1>9 DEF AllocStore, Return, Goto, HoldPCs
    <2>2. b \in used \ DOMAIN small
      BY <1>1, <2>1 DEF HoldIn
    <2>3. \A c \in Blocks : Medium(c) \in live' => Medium(c) \in live \/ c = b
      BY LiveGrows
    <2>. HIDE DEF b
    <2>4. ASSUME NEW g \in Heaps
          PROVE  CacheIn(g)'
      <3>1. CacheIn(g) /\ (cache[g] # None => cache[g] # b /\ cache[g] \in Blocks)
        BY <1>1, <2>1 DEF HoldIn, b
      <3>. QED  BY <1>1, <2>1, <2>3, <3>1 DEF CacheIn
    <2>5. ASSUME NEW u \in Threads \ {t}
          PROVE  HoldIn(u)'
      <3>1. HoldIn(u) /\ (pc[u] \in HoldPCs => loc[u].blk # b)
        BY <1>1, <2>1, <2>5 DEF HoldIn, b
      <3>. QED  BY <1>1, <1>2, <2>1, <2>3, <3>1 DEF HoldIn, HoldPCs
    <2>6. HoldIn(t)'
      BY <2>1 DEF HoldIn, HoldPCs
    <2>. QED  BY <1>1, <2>1, <2>2, <2>3, <2>4, <2>5, <2>6
  <1>10. ASSUME Free(t)
        PROVE  Kept
    <2>1. UNCHANGED <<sys, used, small, cache>> /\ pc[t] = "user"
      BY <1>10, FreeMoves
    <2>2. live' \subseteq live
      BY <1>10, FreeMoves DEF FreeSmall, FreeMedium, FreeLarge
    <2>3. CASE pc'[t] \notin HoldPCs
      <3>1. OwnersQuiet(t)
        BY <2>1, <2>2, <2>3 DEF OwnersQuiet
      <3>. QED  BY <1>5, <3>1
    <2>4. CASE pc'[t] \in HoldPCs
      <3>1. PICK b \in Blocks : /\ Medium(b) \in live /\ live' = live \ {Medium(b)}
                                /\ pc' = [pc EXCEPT ![t] = "fm_lock"] /\ loc'[t].blk = b
        <4>2. ~(pc' = [pc EXCEPT ![t] = "fs_lock"]) /\ ~(pc' = [pc EXCEPT ![t] = "fl_lock"])
          BY <1>1, <2>4 DEF HoldPCs
        <4>3. PICK b \in Blocks : FreeMedium(t, b)
          BY <1>10, <4>2, FreeMoves DEF FreeSmall, FreeLarge
        <4>4. loc'[t] = [Idle EXCEPT !.heap = sys[b.r].heap, !.blk = b]
          BY <1>1, <4>3 DEF FreeMedium
        <4>5. loc'[t].blk = b
          BY <4>4 DEF Idle
        <4>. QED  BY <4>3, <4>5 DEF FreeMedium
      <3>2. b \in used \ DOMAIN small
        BY <1>1, <3>1
      <3>3. ASSUME NEW g \in Heaps
            PROVE  CacheIn(g)'
        <4>1. CacheIn(g)
          BY <1>1
        <4>. QED  BY <2>1, <2>2, <4>1 DEF CacheIn
      <3>4. ASSUME NEW u \in Threads \ {t}
            PROVE  HoldIn(u)' /\ (pc[u] \in HoldPCs => loc[u].blk # b)
        <4>1. HoldIn(u) /\ (pc[u] \in HoldPCs => loc[u].blk # b)
          BY <1>1, <3>1 DEF HoldIn
        <4>. QED  BY <1>1, <1>2, <2>1, <2>2, <3>1, <4>1 DEF HoldIn
      <3>5. HoldIn(t)'
        <4>1. \A g \in Heaps : cache[g] # None => cache[g] # b
          BY <1>1, <3>1 DEF CacheIn
        <4>2. pc'[t] = "fm_lock"
          BY <1>1, <3>1
        <4>. QED  BY <1>2, <2>1, <3>1, <3>2, <3>4, <4>1, <4>2 DEF HoldIn
      <3>. QED  BY <1>1, <2>1, <2>2, <3>3, <3>4, <3>5
    <2>. QED  BY <2>3, <2>4
  <1>11. ASSUME SmallFree(t)
        PROVE  Kept
    <2>. DEFINE c == loc[t].blk
                h == loc[t].heap
    <2>1. /\ pc[t] = "fs_lock" /\ UNCHANGED <<sys, used, live>>
          /\ \/ pc'[t] = "user" /\ DOMAIN small' = DOMAIN small /\ cache' = cache
             \/ /\ pc'[t] = "user" /\ DOMAIN small' = DOMAIN small \ {c}
                /\ cache[h] = None /\ cache' = [cache EXCEPT ![h] = c]
             \/ /\ pc'[t] = "fm_lock" /\ DOMAIN small' = DOMAIN small \ {c}
                /\ UNCHANGED <<cache, loc>>
      BY <1>1, <1>11 DEF SmallFree, Return, Goto
    <2>2. c \in DOMAIN small /\ sys[c.r].heap = h /\ h \in Heaps
      BY <2>1 DEF HeapInv, SmallOwned, Working, WorkPCs
    <2>3. c \in used /\ c \in Blocks /\ Medium(c) \notin live
      BY <1>1, <2>2
    <2>4. \A g \in Heaps : cache[g] # None => cache[g] # c
      BY <1>1, <2>2 DEF CacheIn
    <2>5. \A u \in Threads : pc[u] \in HoldPCs => loc[u].blk # c
      BY <1>1, <2>2 DEF HoldIn
    <2>. HIDE DEF c, h
    <2>6. CASE pc'[t] = "user" /\ DOMAIN small' = DOMAIN small /\ cache' = cache
      <3>1. OwnersQuiet(t)
        BY <2>1, <2>6 DEF OwnersQuiet, HoldPCs
      <3>. QED  BY <1>5, <3>1
    <2>7. CASE /\ pc'[t] = "user" /\ DOMAIN small' = DOMAIN small \ {c}
               /\ cache[h] = None /\ cache' = [cache EXCEPT ![h] = c]
      <3>1. ASSUME NEW g \in Heaps
            PROVE  CacheIn(g)'
        <4>1. CacheIn(g)
          BY <1>1
        <4>. QED  BY <1>1, <2>1, <2>2, <2>3, <2>7, <4>1 DEF CacheIn
      <3>2. ASSUME NEW u \in Threads \ {t}
            PROVE  HoldIn(u)'
        <4>1. HoldIn(u) /\ (pc[u] \in HoldPCs => loc[u].blk # c)
          BY <1>1, <2>5
        <4>. QED  BY <1>1, <1>2, <2>1, <2>2, <2>7, <4>1 DEF HoldIn, HoldPCs
      <3>3. HoldIn(t)'
        BY <2>7 DEF HoldIn, HoldPCs
      <3>. QED  BY <1>1, <2>1, <2>7, <3>1, <3>2, <3>3
    <2>8. CASE /\ pc'[t] = "fm_lock" /\ DOMAIN small' = DOMAIN small \ {c}
               /\ UNCHANGED <<cache, loc>>
      <3>1. ASSUME NEW g \in Heaps
            PROVE  CacheIn(g)'
        <4>1. CacheIn(g)
          BY <1>1
        <4>. QED  BY <1>1, <2>1, <2>8, <4>1 DEF CacheIn
      <3>2. ASSUME NEW u \in Threads \ {t}
            PROVE  HoldIn(u)'
        <4>1. HoldIn(u) /\ (pc[u] \in HoldPCs => loc[u].blk # c)
          BY <1>1, <2>5
        <4>2. loc'[t].blk = c
          BY <2>8 DEF c
        <4>. QED  BY <1>1, <1>2, <2>1, <2>8, <4>1, <4>2 DEF HoldIn
      <3>3. HoldIn(t)'
        <4>1. loc'[t].blk = c
          BY <2>8 DEF c
        <4>. QED  BY <1>2, <2>1, <2>3, <2>4, <2>5, <2>8, <4>1 DEF HoldIn
      <3>. QED  BY <1>1, <2>1, <2>8, <3>1, <3>2, <3>3
    <2>. QED  BY <2>1, <2>6, <2>7, <2>8
  <1>12. ASSUME \E j \in Blocks, P \in SUBSET free : MergeMove(t, P, j)
        PROVE  Kept
    <2>. DEFINE b == loc[t].blk
    <2>1. /\ pc[t] \in HoldPCs /\ pc'[t] = "fm_link" /\ used' = used \ {b}
          /\ UNCHANGED <<sys, small, cache, live>>
      BY <1>1, <1>12 DEF MergeMove, HoldPCs
    <2>2. b \in used \ DOMAIN small /\ Medium(b) \notin live
      BY <1>1, <2>1 DEF HoldIn
    <2>3. ASSUME NEW g \in Heaps
          PROVE  CacheIn(g)'
      <3>1. CacheIn(g) /\ (cache[g] # None => cache[g] # b)
        BY <1>1, <2>1 DEF HoldIn
      <3>. QED  BY <1>1, <2>1, <3>1 DEF CacheIn
    <2>4. ASSUME NEW u \in Threads \ {t}
          PROVE  HoldIn(u)'
      <3>1. HoldIn(u) /\ (pc[u] \in HoldPCs => loc[u].blk # b)
        BY <1>1, <2>1, <2>4 DEF HoldIn
      <3>. QED  BY <1>1, <1>2, <2>1, <3>1 DEF HoldIn, HoldPCs
    <2>5. HoldIn(t)'
      BY <2>1 DEF HoldIn, HoldPCs
    <2>. QED  BY <1>1, <2>1, <2>2, <2>3, <2>4, <2>5
  <1>13. Kept
    BY <1>5, <1>6, <1>7, <1>8, <1>9, <1>10, <1>11, <1>12, QuietMoves
  <1>14. \A u \in Threads : HoldIn(u)'
    BY <1>13
  <1>. QED  BY <1>13, <1>14 DEF MediumOwned, CacheIn, HoldIn

-----------------------------------------------------------------------------
(* Owners of the slots of chunks.                                          *)

ChunkPCs == {"s_take", "fs_lock"}

ChunkIn(t) ==
  /\ pc[t] \in ChunkPCs => loc[t].blk \in DOMAIN small /\ sys[loc[t].blk.r].heap = loc[t].heap
  /\ pc[t] = "s_take" => small[loc[t].blk] # Slots
  /\ pc[t] = "fs_lock" =>
       /\ loc[t].slot \in small[loc[t].blk] /\ Small(loc[t].blk, loc[t].slot) \notin live
       /\ \A u \in Threads \ {t} : pc[u] = "fs_lock" /\ loc[u].blk = loc[t].blk
                                    => loc[u].slot # loc[t].slot

SlotsIn == \A b \in Blocks, s \in Slots : Small(b,
     s) \in live => b \in DOMAIN small /\ s \in small[b]

LEMMA SmallParts == SmallOwned <=> SlotsIn /\ \A t \in Threads : ChunkIn(t)
  BY DEF SmallOwned, ChunkIn, SlotsIn, ChunkPCs

LEMMA SlotsNotEmpty == Slots # {}
  BY HeapAssumption, FS_EmptySet

ChunksQuiet(t) ==
  /\ small' = small /\ pc'[t] \notin ChunkPCs
  /\ \A b \in Blocks, s \in Slots : Small(b, s) \in live' => Small(b, s) \in live

LEMMA QuietChunks ==
  ASSUME HeapInv, NEW t \in Threads, Move(t)
  PROVE  \/ ChunksQuiet(t)
         \/ SmallPick(t) \/ SmallCached(t) \/ SmallRelock(t) \/ SmallTake(t) \/ Free(t) \/ SmallFree(t)
  <1>1. pc \in [Threads -> PCs]
    BY DEF HeapInv, Typed
  <1>2. ~SmallTake(t) => \A b \in Blocks, s \in Slots : Small(b, s) \in live' => Small(b,
           s) \in live
    BY LiveGrows
  <1>. USE DEF ChunkPCs
  <1>3. CASE MAlloc(t) \/ SmallNone(t) \/ MediumFind(t) \/ MediumGrow(t) \/ MediumMap(t) \/ LargeMap(t)
    BY <1>1, <1>2, <1>3 DEF ChunksQuiet, MAlloc, SmallNone, MediumFind, MediumGrow, MediumMap,
       LargeMap,
         SystemAlloc, Acquire, Goto
  <1>4. CASE InitChunk(t) \/ InitChunkFaults(t) \/ GrowLock(t) \/ MediumSplit(t) \/ AllocLoad(t)
    BY <1>1, <1>4 DEF ChunksQuiet, InitChunk, InitChunkFaults, GrowLock, MediumSplit, AllocLoad,
       Acquire, Goto
  <1>5. CASE AllocStore(t) \/ LargeLink(t) \/ LargeLinkFaults(t) \/ MediumFreeChunk(t)
              \/ MediumFreeLink(t) \/ LargeFree(t)
    <2>1. small' = small /\ pc'[t] \notin ChunkPCs /\ ~SmallTake(t)
      BY <1>1, <1>5 DEF AllocStore, LargeLink, LargeLinkFaults, MediumFreeChunk, MediumFreeLink,
           LargeFree, SmallTake, Acquire, Return, Goto
    <2>. QED  BY <1>2, <2>1 DEF ChunksQuiet
  <1>6. CASE RegMove(t) \/ PlainMove(t) \/ \E j \in Blocks, P \in SUBSET free : MergeMove(t, P, j)
    BY <1>1, <1>6 DEF ChunksQuiet, RegMove, PlainMove, MergeMove, RegPCs, PlainPCs, heapvars
  <1>. QED  BY <1>3, <1>4, <1>5, <1>6 DEF Move

LEMMA SmallOwnedStep ==
  ASSUME HeapInv, NEW t \in Threads, Move(t)
  PROVE  SmallOwned'
  <1>1. /\ pc \in [Threads -> PCs] /\ loc \in [Threads -> Local]
        /\ DOMAIN small \subseteq used /\ used \subseteq Blocks /\ Working
        /\ SmallTyped /\ SlotsIn
        /\ \A u \in Threads : ChunkIn(u)
    BY SmallParts DEF HeapInv, Typed, SmallTyped, MediumOwned
  <1>2. \A u \in Threads \ {t} : pc'[u] = pc[u] /\ loc'[u] = loc[u]
    BY OthersStay DEF Others
  <1>3. pc' \in [Threads -> PCs] /\ loc' \in [Threads -> Local]
    BY TypedStep DEF Typed
  <1>4. \A b \in used : sys'[b.r].heap = sys[b.r].heap
    BY UsedKept
  \* The lock keeps threads with a chunk of one heap apart.
  <1>5. ASSUME NEW u \in Threads \ {t}, pc[u] = "s_take",
               NEW c \in DOMAIN small, sys[c.r].heap = loc[t].heap,
               \/ pc[t] = "fs_lock" /\ held[loc[t].heap] = None
               \/ pc[t] = "s_take"
        PROVE  loc[u].blk # c
    <2>1. held[loc[u].heap] = u
      BY <1>1, <1>5 DEF Working, LockPCs
    <2>2. pc[t] = "s_take" => held[loc[t].heap] = t
      BY <1>1 DEF Working, LockPCs
    <2>3. ChunkIn(u) /\ u \in Threads /\ None \notin Threads
      BY <1>1, MemMapAssumption
    <2>. QED  BY <1>5, <2>1, <2>2, <2>3 DEF ChunkIn, ChunkPCs
  <1>. DEFINE Kept == SlotsIn' /\ (\A u \in Threads \ {t} : ChunkIn(u)') /\ ChunkIn(t)'
  <1>6. ASSUME ChunksQuiet(t)
        PROVE  Kept
    <2>1. ASSUME NEW u \in Threads \ {t}
          PROVE  ChunkIn(u)'
      <3>1. ChunkIn(u) /\ pc'[u] = pc[u] /\ loc'[u] = loc[u]
        BY <1>1, <1>2
      <3>2. pc[u] \in ChunkPCs => sys'[loc[u].blk.r].heap = sys[loc[u].blk.r].heap
        BY <1>1, <1>4, <3>1 DEF ChunkIn
      <3>3. pc[u] = "fs_lock" => Small(loc[u].blk, loc[u].slot) \notin live'
        <4>1. pc[u] = "fs_lock" => loc[u].blk \in Blocks /\ loc[u].slot \in Slots
          BY <1>1, <3>1 DEF ChunkIn, ChunkPCs, SmallTyped
        <4>. QED  BY <1>6, <3>1, <4>1 DEF ChunkIn, ChunksQuiet
      <3>4. \A v \in Threads : pc'[v] = "fs_lock" => pc[v] = "fs_lock" /\ loc'[v] = loc[v]
        BY <1>2, <1>6 DEF ChunksQuiet, ChunkPCs
      <3>5. small' = small
        BY <1>6 DEF ChunksQuiet
      <3>. QED  BY <3>1, <3>2, <3>3, <3>4, <3>5 DEF ChunkIn
    <2>2. ChunkIn(t)'
      BY <1>6 DEF ChunksQuiet, ChunkIn, ChunkPCs
    <2>3. SlotsIn'
      BY <1>1, <1>6 DEF ChunksQuiet, SlotsIn
    <2>. QED  BY <2>1, <2>2, <2>3
  <1>7. ASSUME SmallPick(t)
        PROVE  Kept
    <2>1. /\ pc'[t] = "s_take" /\ UNCHANGED <<sys, small, live>> /\ loc'[t].heap = loc[t].heap
          /\ loc'[t].blk \in DOMAIN small /\ small[loc'[t].blk] # Slots
          /\ sys[loc'[t].blk.r].heap = loc[t].heap
      BY <1>1, <1>7 DEF SmallPick, Acquire, Goto, Chunks, OfHeap
    <2>2. ASSUME NEW u \in Threads \ {t}
          PROVE  ChunkIn(u)'
      <3>1. ChunkIn(u) /\ pc'[u] = pc[u] /\ loc'[u] = loc[u]
        BY <1>1, <1>2
      <3>. QED  BY <1>2, <2>1, <3>1 DEF ChunkIn
    <2>3. ChunkIn(t)'
      BY <2>1 DEF ChunkIn
    <2>. QED  BY <1>1, <2>1, <2>2, <2>3 DEF SlotsIn
  <1>8. ASSUME NEW c \in used \ DOMAIN small, small' = WithChunk(c), pc'[t] = "s_take",
               UNCHANGED <<sys, live>>, loc'[t].heap = loc[t].heap, loc'[t].blk = c,
               sys[c.r].heap = loc[t].heap
        PROVE  Kept
    <2>1. DOMAIN small' = DOMAIN small \cup {c} /\ small'[c] = {}
          /\ \A d \in DOMAIN small : small'[d] = small[d]
      BY <1>8 DEF WithChunk
    <2>2. ASSUME NEW u \in Threads \ {t}
          PROVE  ChunkIn(u)'
      <3>1. ChunkIn(u) /\ pc'[u] = pc[u] /\ loc'[u] = loc[u]
        BY <1>1, <1>2
      <3>2. \A v \in Threads : pc'[v] = "fs_lock" => pc[v] = "fs_lock" /\ loc'[v] = loc[v]
        BY <1>2, <1>8
      <3>. QED  BY <1>8, <2>1, <3>1, <3>2 DEF ChunkIn, ChunkPCs
    <2>3. ChunkIn(t)'
      BY <1>8, <2>1, SlotsNotEmpty DEF ChunkIn
    <2>4. SlotsIn'
      BY <1>1, <1>8, <2>1 DEF SlotsIn
    <2>. QED  BY <2>2, <2>3, <2>4
  <1>9. ASSUME SmallCached(t)
        PROVE  Kept
    <2>1. pc[t] = "s_lock" /\ loc[t].heap \in Heaps
      BY <1>1, <1>9 DEF SmallCached, Acquire, Goto, Working, WorkPCs
    <2>2. /\ cache[loc[t].heap] # None /\ loc' = [loc EXCEPT ![t].blk = cache[loc[t].heap]]
          /\ small' = WithChunk(cache[loc[t].heap]) /\ UNCHANGED <<sys, live>> /\ pc'[t] = "s_take"
      BY <1>1, <1>9 DEF SmallCached, Acquire, Goto
    <2>3. cache[loc[t].heap] \in used \ DOMAIN small /\ sys[cache[loc[t].heap].r].heap = loc[t].heap
      BY <2>1, <2>2 DEF HeapInv, MediumOwned
    <2>4. loc'[t].heap = loc[t].heap /\ loc'[t].blk = cache[loc[t].heap]
      BY <1>1, <2>2
    <2>. QED  BY <1>8, <2>2, <2>3, <2>4
  <1>10. ASSUME SmallRelock(t)
         PROVE  Kept
    <2>1. pc[t] = "s_relock" /\ loc' = loc /\ small' = WithChunk(loc[t].blk)
          /\ UNCHANGED <<sys, live>> /\ pc'[t] = "s_take"
      BY <1>1, <1>10 DEF SmallRelock, Acquire, Goto
    <2>2. loc[t].blk \in used \ DOMAIN small /\ sys[loc[t].blk.r].heap = loc[t].heap
      BY <2>1 DEF HeapInv, MediumOwned, HoldPCs
    <2>. QED  BY <1>8, <2>1, <2>2
  <1>11. ASSUME SmallTake(t)
         PROVE  Kept
    <2>. DEFINE c == loc[t].blk
    <2>1. PICK s \in Slots \ small[c] :
            live' = live \cup {Small(c, s)} /\ small' = [small EXCEPT ![c] = @ \cup {s}]
      <3>1. pc[t] = "s_take" /\ pc'[t] = "user"
        BY <1>1, <1>11 DEF SmallTake, Return, Goto
      <3>2. ~AllocStore(t) /\ ~LargeLink(t) /\ ~Free(t)
        BY <3>1 DEF AllocStore, LargeLink, Free, Return, Goto
      <3>3. live' # live
        <4>. DEFINE e == CHOOSE e \in Slots : e \notin small[c]
        <4>1. live' = live \cup {Small(c, e)}
          BY <1>11 DEF SmallTake, Small
        <4>2. ChunkIn(t) /\ SmallTyped
          BY <1>1
        <4>3. c \in DOMAIN small /\ c \in Blocks /\ small[c] # Slots /\ small[c] \subseteq Slots
          BY <3>1, <4>2 DEF ChunkIn, ChunkPCs, SmallTyped
        <4>4. e \in Slots /\ e \notin small[c]
          BY <4>3
        <4>. HIDE DEF e
        <4>5. Small(c, e) \notin live
          BY <1>1, <4>3, <4>4 DEF SlotsIn
        <4>. QED  BY <4>1, <4>5
      <3>. QED  BY <3>2, <3>3, LiveMoves
    <2>2. pc[t] = "s_take" /\ pc'[t] = "user" /\ sys' = sys
      BY <1>1, <1>11 DEF SmallTake, Return, Goto
    <2>3. c \in DOMAIN small /\ sys[c.r].heap = loc[t].heap /\ small[c] \subseteq Slots
      BY <1>1, <2>2 DEF ChunkIn, ChunkPCs, SmallTyped
    <2>. HIDE DEF c
    <2>4. /\ DOMAIN small' = DOMAIN small /\ small'[c] = small[c] \cup {s}
          /\ \A d \in DOMAIN small \ {c} : small'[d] = small[d]
      BY <2>1, <2>3
    <2>5. ASSUME NEW u \in Threads \ {t}
          PROVE  ChunkIn(u)'
      <3>1. ChunkIn(u) /\ pc'[u] = pc[u] /\ loc'[u] = loc[u]
        BY <1>1, <1>2
      <3>2. pc[u] = "s_take" => loc[u].blk # c
        BY <1>5, <2>2, <2>3
      <3>3. ASSUME pc[u] = "fs_lock"
            PROVE  Small(loc[u].blk, loc[u].slot) \notin live'
        <4>1. loc[u].slot # s \/ loc[u].blk # c
          BY <2>1, <3>1, <3>3 DEF ChunkIn
        <4>2. Small(loc[u].blk, loc[u].slot) # Small(c, s)
          BY <4>1, SmallsDiffer
        <4>. QED  BY <2>1, <3>1, <3>3, <4>2 DEF ChunkIn
      <3>4. \A v \in Threads : pc'[v] = "fs_lock" => pc[v] = "fs_lock" /\ loc'[v] = loc[v]
        BY <1>2, <2>2
      <3>. QED  BY <2>2, <2>4, <3>1, <3>2, <3>3, <3>4 DEF ChunkIn, ChunkPCs
    <2>6. ChunkIn(t)'
      BY <2>2 DEF ChunkIn, ChunkPCs
    <2>7. SlotsIn'
      <3>1. ASSUME NEW b \in Blocks, NEW e \in Slots, Small(b, e) \in live'
            PROVE  b \in DOMAIN small' /\ e \in small'[b]
        <4>1. CASE Small(b, e) \in live
          BY <1>1, <2>4, <4>1 DEF SlotsIn
        <4>2. CASE Small(b, e) = Small(c, s)
          BY <2>3, <2>4, <4>2, SmallsDiffer
        <4>. QED  BY <2>1, <3>1, <4>1, <4>2
      <3>. QED  BY <3>1 DEF SlotsIn
    <2>. QED  BY <2>5, <2>6, <2>7
  <1>12. ASSUME Free(t)
         PROVE  Kept
    <2>1. pc[t] = "user" /\ UNCHANGED <<sys, small>> /\ live' \subseteq live
      BY <1>12, FreeMoves DEF FreeSmall, FreeMedium, FreeLarge
    <2>2. CASE pc'[t] \notin ChunkPCs
      <3>1. ChunksQuiet(t)
        BY <2>1, <2>2 DEF ChunksQuiet
      <3>. QED  BY <1>6, <3>1
    <2>3. CASE pc'[t] \in ChunkPCs
      <3>1. ~(pc' = [pc EXCEPT ![t] = "fm_lock"]) /\ ~(pc' = [pc EXCEPT ![t] = "fl_lock"])
        BY <1>1, <2>3 DEF ChunkPCs
      <3>2. PICK b \in Blocks, s \in Slots : FreeSmall(t, b, s)
        BY <1>12, <3>1, FreeMoves DEF FreeMedium, FreeLarge
      <3>3. loc'[t] = [Idle EXCEPT !.heap = sys[b.r].heap, !.blk = b,
                   !.slot = s] /\ pc'[t] = "fs_lock"
        BY <1>1, <3>2 DEF FreeSmall
      <3>4. loc'[t].blk = b /\ loc'[t].slot = s /\ loc'[t].heap = sys[b.r].heap
        BY <3>3 DEF Idle
      <3>5. b \in DOMAIN small /\ s \in small[b]
        BY <1>1, <3>2 DEF SlotsIn, FreeSmall
      <3>6. ASSUME NEW u \in Threads \ {t}
            PROVE  ChunkIn(u)' /\ (pc[u] = "fs_lock" /\ loc[u].blk = b => loc[u].slot # s)
        <4>1. ChunkIn(u) /\ pc'[u] = pc[u] /\ loc'[u] = loc[u]
          BY <1>1, <1>2
        <4>2. pc[u] = "fs_lock" /\ loc[u].blk = b => loc[u].slot # s
          BY <3>2, <4>1 DEF ChunkIn, FreeSmall
        <4>3. pc[u] = "fs_lock" =>
                \A v \in Threads \ {u} : pc'[v] = "fs_lock" /\ loc'[v].blk = loc[u].blk
                                          => loc'[v].slot # loc[u].slot
          BY <1>2, <3>4, <4>1, <4>2 DEF ChunkIn
        <4>. QED  BY <2>1, <4>1, <4>2, <4>3 DEF ChunkIn, ChunkPCs
      <3>7. ChunkIn(t)'
        BY <1>2, <2>1, <3>2, <3>3, <3>4, <3>5, <3>6 DEF ChunkIn, FreeSmall
      <3>. QED  BY <1>1, <2>1, <3>6, <3>7 DEF SlotsIn
    <2>. QED  BY <2>2, <2>3
  <1>13. ASSUME SmallFree(t)
         PROVE  Kept
    <2>. DEFINE c == loc[t].blk
                left == small[c] \ {loc[t].slot}
    <2>1. /\ pc[t] = "fs_lock" /\ held[loc[t].heap] = None /\ pc'[t] \notin ChunkPCs
          /\ UNCHANGED <<sys, live>>
          /\ \/ left # {} /\ small' = [small EXCEPT ![c] = left]
             \/ left = {} /\ small' = [d \in DOMAIN small \ {c} |-> small[d]]
      BY <1>1, <1>13 DEF SmallFree, Return, Goto, ChunkPCs
    <2>2. /\ c \in DOMAIN small /\ sys[c.r].heap = loc[t].heap /\ loc[t].slot \in small[c]
          /\ Small(c, loc[t].slot) \notin live /\ small[c] \subseteq Slots /\ c \in Blocks
      BY <1>1, <2>1 DEF ChunkIn, ChunkPCs, SmallTyped
    <2>3. /\ \A d \in DOMAIN small \ {c} : d \in DOMAIN small' /\ small'[d] = small[d]
          /\ \A s \in left : c \in DOMAIN small' /\ s \in small'[c]
      BY <2>1, <2>2
    <2>4. \A e \in Slots : Small(c, e) \in live => e \in left
      BY <1>1, <2>2 DEF SlotsIn
    <2>5. \A u \in Threads \ {t} : pc[u] = "fs_lock" /\ loc[u].blk = c => loc[u].slot \in left
      BY <1>1, <2>1 DEF ChunkIn
    <2>6. \A u \in Threads \ {t} : pc[u] = "s_take" => loc[u].blk # c
      BY <1>5, <2>1, <2>2
    <2>. HIDE DEF c, left
    <2>7. ASSUME NEW u \in Threads \ {t}
          PROVE  ChunkIn(u)'
      <3>1. ChunkIn(u) /\ pc'[u] = pc[u] /\ loc'[u] = loc[u]
        BY <1>1, <1>2
      <3>2. pc[u] \in ChunkPCs => pc[u] = "s_take" \/ pc[u] = "fs_lock"
        BY DEF ChunkPCs
      <3>3. pc[u] \in ChunkPCs => loc[u].blk \in DOMAIN small'
        BY <2>3, <2>5, <2>6, <3>1, <3>2 DEF ChunkIn
      <3>4. pc[u] = "s_take" => small'[loc[u].blk] # Slots
        BY <2>3, <2>6, <3>1 DEF ChunkIn, ChunkPCs
      <3>5. pc[u] = "fs_lock" => loc[u].slot \in small'[loc[u].blk]
        BY <2>3, <2>5, <3>1 DEF ChunkIn, ChunkPCs
      <3>6. \A v \in Threads : pc'[v] = "fs_lock" => pc[v] = "fs_lock" /\ loc'[v] = loc[v]
        BY <1>2, <2>1 DEF ChunkPCs
      <3>. QED  BY <2>1, <3>1, <3>3, <3>4, <3>5, <3>6 DEF ChunkIn
    <2>8. ChunkIn(t)'
      BY <2>1 DEF ChunkIn, ChunkPCs
    <2>9. SlotsIn'
      BY <1>1, <2>1, <2>3, <2>4 DEF SlotsIn
    <2>. QED  BY <2>7, <2>8, <2>9
  <1>14. Kept
    BY <1>6, <1>7, <1>9, <1>10, <1>11, <1>12, <1>13, QuietChunks
  <1>15. \A u \in Threads : ChunkIn(u)'
    BY <1>14
  <1>. QED  BY <1>14, <1>15 DEF SmallOwned, ChunkIn, SlotsIn, ChunkPCs

-----------------------------------------------------------------------------
(* The medium blocks of a region.                                          *)

LEMMA MeetSymmetric ==
  ASSUME NEW b, NEW c, Meet(b, c)
  PROVE  Meet(c, b)
  BY DEF Meet

LEMMA MeetsItself ==
  ASSUME NEW b \in Blocks
  PROVE  Meet(b, b)
  BY BlockFields DEF Meet

ListsApart ==
  /\ \A b, c \in free : Meet(b, c) => b = c
  /\ \A b, c \in used : Meet(b, c) => b = c
  /\ \A b \in free, c \in used : ~Meet(b, c)

HandIn(t) ==
  pc[t] \in HandPCs =>
    /\ loc[t].blk \in Blocks
    /\ \A b \in free \cup used : ~Meet(loc[t].blk, b)
    /\ \A u \in Threads \ {t} : pc[u] \in HandPCs => ~Meet(loc[t].blk, loc[u].blk)

SplitIn(t) ==
  /\ pc[t] \in HandPCs => sys[loc[t].blk.r].use = "medium"
  /\ pc[t] = "m_split" => loc[t].want <= loc[t].blk.n /\ sys[loc[t].blk.r].heap = loc[t].heap

LEMMA ApartParts ==
  /\ Apart <=> ListsApart /\ \A t \in Threads : HandIn(t)
  /\ InMedium <=> /\ \A b \in free \cup used : sys[b.r].use = "medium"
                  /\ \A t \in Threads : SplitIn(t)
  BY DEF Apart, InMedium, ListsApart, HandIn, SplitIn

UnitIn(r, n) ==
  \/ \E b \in free \cup used : b.r = r /\ In(b, n)
  \/ \E t \in Threads : pc[t] \in HandPCs /\ loc[t].blk.r = r /\ In(loc[t].blk, n)

BlocksQuiet(t) ==
  free' = free /\ used' = used /\ pc[t] \notin HandPCs /\ pc'[t] \notin HandPCs

LEMMA QuietBlocks ==
  ASSUME HeapInv, NEW t \in Threads, Move(t)
  PROVE  \/ BlocksQuiet(t) /\ ~MediumFreeChunk(t) /\ ~GrowLock(t)
         \/ MediumFind(t) \/ GrowLock(t) \/ MediumSplit(t) \/ MediumFreeChunk(t) \/ MediumFreeLink(t)
         \/ \E j \in Blocks, P \in SUBSET free : MergeMove(t, P, j)
  <1>1. pc \in [Threads -> PCs]
    BY DEF HeapInv, Typed
  <1>. USE DEF HandPCs, BlocksQuiet
  <1>2. CASE MAlloc(t) \/ SmallPick(t) \/ SmallCached(t) \/ SmallNone(t) \/ SmallRelock(t) \/ SmallTake(t)
    BY <1>1, <1>2 DEF MAlloc, SmallPick, SmallCached, SmallNone, SmallRelock, SmallTake,
       MediumFreeChunk,
         GrowLock, Acquire, Return, Goto
  <1>3. CASE MediumGrow(t) \/ MediumMap(t) \/ LargeMap(t) \/ InitChunk(t) \/ InitChunkFaults(t)
    BY <1>1, <1>3 DEF MediumGrow, MediumMap, LargeMap, SystemAlloc, InitChunk, InitChunkFaults,
         MediumFreeChunk, GrowLock, Acquire, Return, Goto
  <1>4. CASE AllocLoad(t) \/ AllocStore(t) \/ LargeLink(t) \/ LargeLinkFaults(t) \/ LargeFree(t)
    BY <1>1, <1>4 DEF AllocLoad, AllocStore, LargeLink, LargeLinkFaults, LargeFree, MediumFreeChunk,
         GrowLock, Acquire, Return, Goto
  <1>5. CASE Free(t) \/ SmallFree(t)
    BY <1>1, <1>5 DEF Free, SmallFree, MediumFreeChunk, GrowLock, Acquire, Return, Goto
  <1>6. CASE RegMove(t) \/ PlainMove(t)
    BY <1>1, <1>6 DEF RegMove, PlainMove, RegPCs, PlainPCs, heapvars, MediumFreeChunk, GrowLock,
       Acquire,
         Return, Goto
  <1>. QED  BY <1>2, <1>3, <1>4, <1>5, <1>6 DEF Move

LEMMA BlocksStep ==
  ASSUME HeapInv, NEW t \in Threads, Move(t)
  PROVE  Apart' /\ InMedium' /\ Covered'
  <1>1. /\ pc \in [Threads -> PCs] /\ loc \in [Threads -> Local] /\ free \subseteq Blocks /\ used \subseteq Blocks
        /\ ListsApart /\ \A u \in Threads : HandIn(u) /\ SplitIn(u)
        /\ \A b \in free \cup used : b \in Blocks /\ b.r \in Regions /\ sys[b.r].use = "medium"
        /\ \A r \in Regions, n \in 0..Units - 1 : sys[r].use = "medium" => UnitIn(r, n)
        /\ sys \in [Regions -> [heap : Heaps \cup {None}, use : Uses]]
    BY ApartParts, BlockFields DEF HeapInv, Typed, Covered, UnitIn
  <1>2. \A u \in Threads \ {t} : pc'[u] = pc[u] /\ loc'[u] = loc[u]
    BY OthersStay DEF Others
  <1>3. pc' \in [Threads -> PCs] /\ loc' \in [Threads -> Local] /\ free' \subseteq Blocks /\ used' \subseteq Blocks
    BY TypedStep DEF Typed
  <1>. DEFINE Kept ==
                /\ ListsApart' /\ (\A u \in Threads \ {t} : HandIn(u)' /\ SplitIn(u)')
                /\ HandIn(t)' /\ SplitIn(t)'
                /\ \A b \in free' \cup used' : sys'[b.r].use = "medium"
                /\ \A r \in Regions, n \in 0..Units - 1 : sys'[r].use = "medium" => UnitIn(r, n)'
  \* The regions stay those of the lists, unless one is linked or forgotten.
  <1>4. ASSUME ~MediumFreeChunk(t), NEW r \in Regions, sys[r].use = "medium"
        PROVE  sys'[r] = sys[r]
    <2>1. SysKept(t, r)
      BY SysStays
    <2>. QED  BY <1>4, <2>1 DEF SysKept
  <1>5. ASSUME ~GrowLock(t), NEW r \in Regions, sys'[r].use = "medium"
        PROVE  sys[r].use = "medium"
    <2>1. SysMove(t)
      BY SysMoves
    <2>. QED  BY <1>1, <1>5, <2>1 DEF SysMove
  <1>6. ASSUME NEW u \in Threads \ {t}, ~MediumFreeChunk(t)
        PROVE  SplitIn(u)'
    <2>1. SplitIn(u) /\ HandIn(u) /\ pc'[u] = pc[u] /\ loc'[u] = loc[u]
      BY <1>1, <1>2
    <2>2. pc[u] \in HandPCs => sys'[loc[u].blk.r] = sys[loc[u].blk.r]
      BY <1>4, <1>6, <2>1, BlockFields DEF SplitIn, HandIn
    <2>. QED  BY <2>1, <2>2 DEF SplitIn, HandPCs
  <1>7. ASSUME BlocksQuiet(t), ~MediumFreeChunk(t), ~GrowLock(t)
        PROVE  Kept
    <2>1. ListsApart'
      BY <1>1, <1>7 DEF ListsApart, BlocksQuiet
    <2>2. ASSUME NEW u \in Threads \ {t}
          PROVE  HandIn(u)'
      <3>1. HandIn(u) /\ pc'[u] = pc[u] /\ loc'[u] = loc[u]
        BY <1>1, <1>2
      <3>2. \A v \in Threads : pc'[v] \in HandPCs => pc[v] \in HandPCs /\ loc'[v] = loc[v]
        BY <1>2, <1>7 DEF BlocksQuiet
      <3>. QED  BY <1>7, <3>1, <3>2 DEF HandIn, BlocksQuiet
    <2>3. HandIn(t)' /\ SplitIn(t)'
      BY <1>7 DEF HandIn, SplitIn, BlocksQuiet, HandPCs
    <2>4. \A b \in free' \cup used' : sys'[b.r].use = "medium"
      BY <1>1, <1>4, <1>7 DEF BlocksQuiet
    <2>5. ASSUME NEW r \in Regions, NEW n \in 0..Units - 1, sys'[r].use = "medium"
          PROVE  UnitIn(r, n)'
      <3>1. UnitIn(r, n)
        BY <1>1, <1>5, <1>7, <2>5
      <3>2. \A u \in Threads : pc[u] \in HandPCs => pc'[u] = pc[u] /\ loc'[u] = loc[u]
        BY <1>2, <1>7 DEF BlocksQuiet
      <3>. QED  BY <1>7, <3>1, <3>2 DEF UnitIn, BlocksQuiet
    <2>. QED  BY <1>6, <1>7, <2>1, <2>2, <2>3, <2>4, <2>5
  <1>8. ASSUME MediumFind(t)
        PROVE  Kept
    <2>1. PICK b \in Fitting(t) : free' = free \ {b} /\ loc' = [loc EXCEPT ![t].blk = b]
      BY <1>8 DEF MediumFind
    <2>2. /\ b \in free /\ sys[b.r].heap = loc[t].heap /\ loc[t].want <= b.n
          /\ pc[t] = "m_lock" /\ pc'[t] = "m_split" /\ UNCHANGED <<used, sys>>
      <3>1. b.n \in Nat /\ loc[t].want \in 0..Units
        BY <1>1, <2>1, BlockFields DEF Fitting, Local
      <3>. QED  BY <1>1, <1>8, <2>1, <3>1, HeapAssumption DEF MediumFind, Fitting, OfHeap,
                   Acquire, Goto
    <2>3. loc'[t].blk = b /\ loc'[t].want = loc[t].want /\ loc'[t].heap = loc[t].heap
      BY <1>1, <2>1
    <2>4. ~MediumFreeChunk(t) /\ ~GrowLock(t)
      BY <2>2 DEF MediumFreeChunk, GrowLock, Acquire, Return, Goto
    <2>5. ListsApart'
      BY <1>1, <2>1, <2>2 DEF ListsApart
    <2>6. ASSUME NEW u \in Threads \ {t}
          PROVE  HandIn(u)' /\ (pc[u] \in HandPCs => ~Meet(b, loc[u].blk))
      <3>1. HandIn(u) /\ pc'[u] = pc[u] /\ loc'[u] = loc[u]
        BY <1>1, <1>2
      <3>2. pc[u] \in HandPCs => ~Meet(loc[u].blk, b) /\ ~Meet(b, loc[u].blk)
        BY <2>2, <3>1, MeetSymmetric DEF HandIn
      <3>3. \A v \in Threads \ {u} : pc'[v] \in HandPCs =>
              (pc[v] \in HandPCs /\ loc'[v].blk = loc[v].blk) \/ loc'[v].blk = b
        BY <1>2, <2>3
      <3>. QED  BY <2>1, <2>2, <3>1, <3>2, <3>3 DEF HandIn
    <2>7. HandIn(t)'
      <3>1. b \in Blocks /\ \A c \in (free \ {b}) \cup used : ~Meet(b, c)
        BY <1>1, <2>2 DEF ListsApart
      <3>. QED  BY <1>2, <2>1, <2>2, <2>3, <2>6, <3>1 DEF HandIn
    <2>8. SplitIn(t)'
      BY <1>1, <2>2, <2>3 DEF SplitIn
    <2>9. \A c \in free' \cup used' : sys'[c.r].use = "medium"
      BY <1>1, <2>1, <2>2
    <2>10. ASSUME NEW r \in Regions, NEW n \in 0..Units - 1, sys'[r].use = "medium"
           PROVE  UnitIn(r, n)'
      <3>1. UnitIn(r, n)
        BY <1>1, <2>2, <2>10
      <3>2. \A u \in Threads : pc[u] \in HandPCs => pc'[u] = pc[u] /\ loc'[u] = loc[u]
        BY <1>2, <2>2 DEF HandPCs
      <3>3. pc'[t] \in HandPCs
        BY <2>2 DEF HandPCs
      <3>. QED  BY <2>1, <2>2, <2>3, <3>1, <3>2, <3>3 DEF UnitIn
    <2>. QED  BY <1>6, <2>4, <2>5, <2>6, <2>7, <2>8, <2>9, <2>10
  <1>9. ASSUME GrowLock(t)
        PROVE  Kept
    <2>. DEFINE r0 == region[t]
                b == Block(r0, 0, Units)
    <2>1. /\ pc[t] = "g_lock" /\ pc'[t] = "m_split" /\ UNCHANGED <<free, used, loc>>
          /\ sys' = [sys EXCEPT ![r0].use = "medium"]
      BY <1>1, <1>9 DEF GrowLock, Acquire, Goto
    <2>2. /\ r0 \in Regions /\ sys[r0] = [heap |-> loc[t].heap, use |-> "mapped"] /\ loc[t].blk = b
          /\ loc[t].want \in 1..Units
      BY <2>1 DEF HeapInv, RegionsApart, MapPCs, Working, SizePCs
    <2>3. b \in Blocks
      BY <2>2, BlockIs, HeapAssumption
    <2>4. b.r = r0 /\ b.n = Units /\ b.at = 0
      BY DEF Block
    <2>. HIDE DEF b, r0
    <2>5. sys'[r0].use = "medium" /\ sys'[r0].heap = loc[t].heap
          /\ \A r \in Regions \ {r0} : sys'[r] = sys[r]
      BY <1>1, <2>1, <2>2
    <2>6. sys[r0].use = "mapped"
      BY <2>2
    <2>7. \A c \in free \cup used : c.r # r0
      BY <1>1, <2>6
    <2>8. \A u \in Threads : pc[u] \in HandPCs => loc[u].blk.r # r0
      BY <1>1, <2>6 DEF SplitIn
    <2>9. ~MediumFreeChunk(t)
      BY <2>1 DEF MediumFreeChunk, Return, Goto
    <2>10. ListsApart'
      BY <1>1, <2>1 DEF ListsApart
    <2>11. ASSUME NEW u \in Threads \ {t}
           PROVE  HandIn(u)'
      <3>1. HandIn(u) /\ pc'[u] = pc[u] /\ loc'[u] = loc[u]
        BY <1>1, <1>2
      <3>2. pc[u] \in HandPCs => ~Meet(loc[u].blk, b)
        BY <2>4, <2>8 DEF Meet
      <3>3. \A v \in Threads \ {u} : pc'[v] \in HandPCs =>
              (pc[v] \in HandPCs /\ loc'[v].blk = loc[v].blk) \/ loc'[v].blk = b
        BY <1>2, <2>1, <2>2
      <3>. QED  BY <2>1, <3>1, <3>2, <3>3 DEF HandIn
    <2>12. HandIn(t)'
      <3>1. \A c \in free \cup used : ~Meet(b, c)
        BY <2>4, <2>7 DEF Meet
      <3>2. \A u \in Threads \ {t} : pc'[u] \in HandPCs => ~Meet(b, loc'[u].blk)
        BY <1>2, <2>4, <2>8 DEF Meet
      <3>. QED  BY <2>1, <2>2, <2>3, <3>1, <3>2 DEF HandIn
    <2>13. SplitIn(t)'
      <3>1. loc[t].want <= Units
        BY <2>2, HeapAssumption
      <3>. QED  BY <2>1, <2>2, <2>4, <2>5, <3>1 DEF SplitIn
    <2>14. \A c \in free' \cup used' : sys'[c.r].use = "medium"
      BY <1>1, <2>1, <2>5, <2>7
    <2>15. ASSUME NEW r \in Regions, NEW n \in 0..Units - 1, sys'[r].use = "medium"
           PROVE  UnitIn(r, n)'
      <3>0. pc'[t] \in HandPCs
        BY <2>1 DEF HandPCs
      <3>1. CASE r = r0
        <4>1. In(b, n)
          BY <2>4, HeapAssumption DEF In
        <4>. QED  BY <2>1, <2>2, <2>4, <3>0, <3>1, <4>1 DEF UnitIn
      <3>2. CASE r # r0
        <4>1. UnitIn(r, n)
          BY <1>1, <2>5, <2>15, <3>2
        <4>2. \A u \in Threads : pc[u] \in HandPCs => pc'[u] = pc[u] /\ loc'[u] = loc[u]
          BY <1>2, <2>1 DEF HandPCs
        <4>. QED  BY <2>1, <4>1, <4>2 DEF UnitIn
      <3>. QED  BY <3>1, <3>2
    <2>. QED  BY <1>6, <2>9, <2>10, <2>11, <2>12, <2>13, <2>14, <2>15
  <1>10. ASSUME MediumSplit(t)
         PROVE  Kept
    <2>. DEFINE b == loc[t].blk
                w == loc[t].want
                a == Block(b.r, b.at, w)
                c == Block(b.r, b.at + w, b.n - w)
    <2>1. /\ b \in Blocks /\ a \in Blocks /\ w \in 1..Units /\ w <= b.n
          /\ used' = used \cup {a} /\ loc' = [loc EXCEPT ![t].blk = a]
          /\ \/ w = b.n /\ a = b /\ free' = free
             \/ w < b.n /\ c \in Blocks /\ free' = free \cup {c}
          /\ sys' = sys
      BY <1>10, SplitMoves
    <2>2. pc[t] = "m_split" /\ pc'[t] \notin HandPCs
      BY <1>1, <1>10 DEF MediumSplit, Goto, HandPCs
    <2>3. /\ b.r \in Regions /\ b.at \in Nat /\ b.n \in Nat /\ b.n > 0
          /\ a.r = b.r /\ a.at = b.at /\ a.n = w /\ c.r = b.r /\ c.at = b.at + w /\ c.n = b.n - w
          /\ w \in Nat /\ w > 0
      BY <2>1, BlockFields, HeapAssumption DEF Block
    <2>4. HandIn(t) /\ SplitIn(t) /\ pc[t] \in HandPCs
      BY <1>1, <2>2 DEF HandPCs
    <2>. HIDE DEF a, b, c, w
    <2>5. \A d \in Blocks : /\ Meet(a, d) => Meet(b, d)
                            /\ w < b.n /\ Meet(c, d) => Meet(b, d)
                            /\ Meet(d, a) => Meet(b, d)
                            /\ w < b.n /\ Meet(d, c) => Meet(b, d)
      BY <2>1, <2>3, BlockFields DEF Meet
    <2>6. ~Meet(a, c) /\ ~Meet(c, a)
      BY <2>3 DEF Meet
    <2>7. \A d \in free \cup used : ~Meet(b, d)
      BY <2>4 DEF HandIn, b
    <2>8. ListsApart'
      <3>1. \A d \in free \cup used : ~Meet(a, d) /\ ~Meet(d, a)
                                      /\ (w < b.n => ~Meet(c, d) /\ ~Meet(d, c))
        BY <1>1, <2>5, <2>7
      <3>. QED  BY <1>1, <2>1, <2>6, <3>1 DEF ListsApart
    <2>9. ASSUME NEW u \in Threads \ {t}
          PROVE  HandIn(u)'
      <3>1. HandIn(u) /\ pc'[u] = pc[u] /\ loc'[u] = loc[u]
        BY <1>1, <1>2
      <3>2. pc[u] \in HandPCs => loc[u].blk \in Blocks /\ ~Meet(b, loc[u].blk)
        BY <2>4, <2>9, <3>1 DEF HandIn, b
      <3>3. pc[u] \in HandPCs => ~Meet(loc[u].blk, a) /\ (w < b.n => ~Meet(loc[u].blk, c))
        BY <2>5, <3>2
      <3>4. \A v \in Threads \ {u} : pc'[v] \in HandPCs => pc[v] \in HandPCs /\ loc'[v].blk = loc[v].blk
        BY <1>2, <2>2
      <3>. QED  BY <2>1, <3>1, <3>3, <3>4 DEF HandIn
    <2>10. HandIn(t)' /\ SplitIn(t)'
      BY <2>2 DEF HandIn, SplitIn, HandPCs
    <2>11. \A d \in free' \cup used' : sys'[d.r].use = "medium"
      <3>1. sys[b.r].use = "medium"
        BY <2>4 DEF SplitIn, b
      <3>. QED  BY <1>1, <2>1, <2>3, <3>1
    <2>12. ASSUME NEW r \in Regions, NEW n \in 0..Units - 1, sys'[r].use = "medium"
           PROVE  UnitIn(r, n)'
      <3>1. UnitIn(r, n)
        BY <1>1, <2>1, <2>12
      <3>2. CASE \E d \in free \cup used : d.r = r /\ In(d, n)
        BY <2>1, <3>2 DEF UnitIn
      <3>3. CASE b.r = r /\ In(b, n)
        <4>1. n \in Int
          BY HeapAssumption
        <4>2. In(a, n) \/ (w < b.n /\ In(c, n))
          BY <2>1, <2>3, <3>3, <4>1 DEF In
        <4>. QED  BY <2>1, <2>3, <3>3, <4>2 DEF UnitIn
      <3>4. CASE \E u \in Threads \ {t} : pc[u] \in HandPCs /\ loc[u].blk.r = r /\ In(loc[u].blk, n)
        BY <1>2, <3>4 DEF UnitIn
      <3>. QED  BY <3>1, <3>2, <3>3, <3>4 DEF UnitIn, b
    <2>13. ~MediumFreeChunk(t)
      BY <2>2 DEF MediumFreeChunk, Return, Goto
    <2>. QED  BY <1>6, <2>8, <2>9, <2>10, <2>11, <2>12, <2>13
  <1>11. ASSUME NEW j \in Blocks, NEW P \in SUBSET free, MergeMove(t, P, j)
         PROVE  Kept
    <2>. DEFINE b == loc[t].blk
    <2>1. /\ pc[t] = "fm_lock" /\ pc'[t] = "fm_link" /\ sys' = sys
          /\ used' = used \ {b} /\ free' = free \ P /\ loc'[t].blk = j
          /\ \A x \in P \cup {b} : x.r = j.r /\ \A n \in Int : In(x, n) => In(j, n)
          /\ \A d \in Blocks : Meet(j, d) => Meet(b, d) \/ \E x \in P : Meet(x, d)
      BY <1>1, <1>11 DEF MergeMove
    <2>2. b \in used
      BY <2>1 DEF HeapInv, MediumOwned, HoldPCs
    <2>3. pc[t] \notin HandPCs /\ pc'[t] \in HandPCs
      BY <2>1 DEF HandPCs
    <2>. HIDE DEF b
    <2>4. ListsApart'
      BY <1>1, <2>1 DEF ListsApart
    <2>5. ASSUME NEW d \in (free \ P) \cup (used \ {b}), Meet(j, d)
          PROVE  FALSE
      <3>1. P \subseteq free /\ d \in Blocks
        BY <1>1
      <3>2. CASE Meet(b, d)
        <4>1. Meet(d, b)
          BY <3>2, MeetSymmetric
        <4>. QED  BY <1>1, <2>2, <2>5, <3>2, <4>1 DEF ListsApart
      <3>3. CASE \E x \in P : Meet(x, d)
        BY <1>1, <2>5, <3>1, <3>3 DEF ListsApart
      <3>. QED  BY <2>1, <2>5, <3>1, <3>2, <3>3
    <2>6. ASSUME NEW u \in Threads \ {t}, pc[u] \in HandPCs
          PROVE  ~Meet(j, loc[u].blk) /\ ~Meet(loc[u].blk, j)
      <3>1. HandIn(u) /\ P \subseteq free
        BY <1>1
      <3>2. loc[u].blk \in Blocks /\ \A d \in free \cup used : ~Meet(d, loc[u].blk)
        BY <2>6, <3>1, MeetSymmetric DEF HandIn
      <3>3. ~Meet(j, loc[u].blk)
        BY <2>1, <2>2, <3>1, <3>2
      <3>. QED  BY <3>3, MeetSymmetric
    <2>7. ASSUME NEW u \in Threads \ {t}
          PROVE  HandIn(u)'
      <3>1. HandIn(u) /\ pc'[u] = pc[u] /\ loc'[u] = loc[u]
        BY <1>1, <1>2
      <3>2. \A v \in Threads \ {u} : pc'[v] \in HandPCs =>
              (pc[v] \in HandPCs /\ loc'[v].blk = loc[v].blk) \/ loc'[v].blk = j
        BY <1>2, <2>1
      <3>. QED  BY <2>1, <2>6, <3>1, <3>2 DEF HandIn
    <2>8. HandIn(t)'
      BY <1>2, <2>1, <2>5, <2>6 DEF HandIn
    <2>9. SplitIn(t)'
      <3>1. j.r = b.r /\ sys[b.r].use = "medium"
        BY <1>1, <2>1, <2>2
      <3>. QED  BY <2>1, <3>1 DEF SplitIn
    <2>10. \A d \in free' \cup used' : sys'[d.r].use = "medium"
      BY <1>1, <2>1
    <2>11. ASSUME NEW r \in Regions, NEW n \in 0..Units - 1, sys'[r].use = "medium"
           PROVE  UnitIn(r, n)'
      <3>1. UnitIn(r, n)
        BY <1>1, <2>1, <2>11
      <3>2. n \in Int
        BY HeapAssumption
      <3>3. CASE \E d \in free \cup used : d.r = r /\ In(d, n)
        <4>1. PICK d \in free \cup used : d.r = r /\ In(d, n)
          BY <3>3
        <4>2. CASE d \in P \cup {b}
          BY <2>1, <2>3, <3>2, <4>1, <4>2 DEF UnitIn
        <4>3. CASE d \notin P \cup {b}
          BY <2>1, <4>1, <4>3 DEF UnitIn
        <4>. QED  BY <4>2, <4>3
      <3>4. CASE \E u \in Threads : pc[u] \in HandPCs /\ loc[u].blk.r = r /\ In(loc[u].blk, n)
        BY <1>2, <2>3, <3>4 DEF UnitIn
      <3>. QED  BY <3>1, <3>3, <3>4 DEF UnitIn
    <2>12. ~MediumFreeChunk(t)
      BY <2>1 DEF MediumFreeChunk, Return, Goto
    <2>. QED  BY <1>6, <2>4, <2>7, <2>8, <2>9, <2>10, <2>11, <2>12
  <1>12. ASSUME MediumFreeChunk(t)
         PROVE  Kept
    <2>. DEFINE b == loc[t].blk
    <2>1. /\ pc[t] = "fm_link" /\ pc'[t] \notin HandPCs /\ UNCHANGED <<free, used>> /\ b.n = Units
          /\ sys' = [sys EXCEPT ![b.r].use = "dropped"]
      BY <1>1, <1>12 DEF MediumFreeChunk, Whole, Return, Goto, HandPCs
    <2>2. HandIn(t) /\ pc[t] \in HandPCs
      BY <1>1, <2>1 DEF HandPCs
    <2>3. b \in Blocks
      BY <2>2 DEF HandIn
    <2>4. b.r \in Regions /\ b.at = 0 /\ b.at \in Nat /\ b.n \in Nat /\ Units \in Nat
      BY <2>1, <2>3, BlockFields, HeapAssumption
    <2>5. \A d \in Blocks : d.r = b.r => Meet(b, d)
      BY <2>1, <2>4, BlockFields DEF Meet
    <2>6. \A d \in free \cup used : d.r # b.r
      BY <1>1, <2>2, <2>5 DEF HandIn
    <2>7. \A u \in Threads \ {t} : pc[u] \in HandPCs => loc[u].blk \in Blocks /\ loc[u].blk.r # b.r
      BY <1>1, <2>2, <2>5 DEF HandIn
    <2>. HIDE DEF b
    <2>8. sys'[b.r].use = "dropped" /\ \A r \in Regions \ {b.r} : sys'[r] = sys[r]
      BY <1>1, <2>1, <2>4
    <2>9. ListsApart'
      BY <1>1, <2>1 DEF ListsApart
    <2>10. ASSUME NEW u \in Threads \ {t}
           PROVE  HandIn(u)' /\ SplitIn(u)'
      <3>1. HandIn(u) /\ SplitIn(u) /\ pc'[u] = pc[u] /\ loc'[u] = loc[u]
        BY <1>1, <1>2
      <3>2. \A v \in Threads \ {u} : pc'[v] \in HandPCs => pc[v] \in HandPCs /\ loc'[v].blk = loc[v].blk
        BY <1>2, <2>1
      <3>3. pc[u] \in HandPCs => sys'[loc[u].blk.r] = sys[loc[u].blk.r]
        BY <2>7, <2>8, BlockFields
      <3>4. pc[u] = "m_split" => pc[u] \in HandPCs
        BY DEF HandPCs
      <3>. QED  BY <2>1, <3>1, <3>2, <3>3, <3>4 DEF HandIn, SplitIn
    <2>11. HandIn(t)' /\ SplitIn(t)'
      BY <2>1 DEF HandIn, SplitIn, HandPCs
    <2>12. \A d \in free' \cup used' : sys'[d.r].use = "medium"
      BY <1>1, <2>1, <2>6, <2>8
    <2>13. ASSUME NEW r \in Regions, NEW n \in 0..Units - 1, sys'[r].use = "medium"
           PROVE  UnitIn(r, n)'
      <3>1. r # b.r /\ UnitIn(r, n)
        BY <1>1, <2>8, <2>13
      <3>2. CASE \E d \in free \cup used : d.r = r /\ In(d, n)
        BY <2>1, <3>2 DEF UnitIn
      <3>3. CASE \E u \in Threads : pc[u] \in HandPCs /\ loc[u].blk.r = r /\ In(loc[u].blk, n)
        BY <1>2, <3>1, <3>3 DEF UnitIn, b
      <3>. QED  BY <3>1, <3>2, <3>3 DEF UnitIn
    <2>. QED  BY <2>9, <2>10, <2>11, <2>12, <2>13
  <1>13. ASSUME MediumFreeLink(t)
         PROVE  Kept
    <2>. DEFINE b == loc[t].blk
    <2>1. /\ pc[t] = "fm_link" /\ pc'[t] \notin HandPCs /\ used' = used /\ sys' = sys
          /\ free' = free \cup {b}
      BY <1>1, <1>13 DEF MediumFreeLink, Return, Goto, HandPCs
    <2>2. HandIn(t) /\ SplitIn(t) /\ pc[t] \in HandPCs
      BY <1>1, <2>1 DEF HandPCs
    <2>3. /\ \A d \in free \cup used : ~Meet(b, d) /\ ~Meet(d, b)
          /\ \A u \in Threads \ {t} : pc[u] \in HandPCs => ~Meet(loc[u].blk, b)
          /\ sys[b.r].use = "medium"
      BY <2>2, MeetSymmetric DEF HandIn, SplitIn
    <2>4. ListsApart'
      BY <1>1, <2>1, <2>3 DEF ListsApart
    <2>5. ASSUME NEW u \in Threads \ {t}
          PROVE  HandIn(u)'
      <3>1. HandIn(u) /\ pc'[u] = pc[u] /\ loc'[u] = loc[u]
        BY <1>1, <1>2
      <3>2. \A v \in Threads \ {u} : pc'[v] \in HandPCs => pc[v] \in HandPCs /\ loc'[v].blk = loc[v].blk
        BY <1>2, <2>1
      <3>. QED  BY <2>1, <2>3, <3>1, <3>2 DEF HandIn
    <2>6. HandIn(t)' /\ SplitIn(t)'
      BY <2>1 DEF HandIn, SplitIn, HandPCs
    <2>7. \A d \in free' \cup used' : sys'[d.r].use = "medium"
      BY <1>1, <2>1, <2>3
    <2>8. ASSUME NEW r \in Regions, NEW n \in 0..Units - 1, sys'[r].use = "medium"
          PROVE  UnitIn(r, n)'
      <3>1. UnitIn(r, n)
        BY <1>1, <2>1, <2>8
      <3>2. CASE \E d \in free \cup used : d.r = r /\ In(d, n)
        BY <2>1, <3>2 DEF UnitIn
      <3>3. CASE \E u \in Threads : pc[u] \in HandPCs /\ loc[u].blk.r = r /\ In(loc[u].blk, n)
        BY <1>2, <2>1, <3>3 DEF UnitIn
      <3>. QED  BY <3>1, <3>2, <3>3 DEF UnitIn
    <2>9. MediumFreeChunk(t) => FALSE
      BY <1>13 DEF MediumFreeChunk, MediumFreeLink
    <2>. QED  BY <1>6, <2>4, <2>5, <2>6, <2>7, <2>8, <2>9
  <1>14. Kept
    BY <1>7, <1>8, <1>9, <1>10, <1>11, <1>12, <1>13, QuietBlocks
  <1>15. \A u \in Threads : HandIn(u)' /\ SplitIn(u)'
    BY <1>14
  <1>. QED  BY <1>14, <1>15 DEF Apart, InMedium, Covered, ListsApart, HandIn, SplitIn, UnitIn

-----------------------------------------------------------------------------
(* The invariant.                                                          *)

LEMMA InitHolds == Init => HeapInv
  <1>. SUFFICES ASSUME Init PROVE HeapInv
    OBVIOUS
  <1>1. /\ pc = [t \in Threads |-> "user"] /\ region = [t \in Threads |-> None]
        /\ held = [h \in Heaps |-> None] /\ cache = [h \in Heaps |-> None]
        /\ sys = [r \in Regions |-> [heap |-> None, use |-> "unmapped"]]
        /\ free = {} /\ used = {} /\ live = {} /\ small = <<>>
        /\ loc = [t \in Threads |-> Idle]
    BY DEF Init
  <1>2. DOMAIN small = {}
    BY <1>1
  <1>3. small \in [DOMAIN small -> SUBSET Slots]
    BY <1>1
  <1>4. Idle \in Local
    BY HeapAssumption DEF Idle, Local
  <1>5. \A t \in Threads : pc[t] = "user" /\ "user" \in PCs /\ "user" \notin WorkPCs
    BY <1>1 DEF PCs, PlainPCs, WorkPCs, MapPCs, RegPCs, LockPCs, HandPCs, HoldPCs
  <1>6. Typed
    BY <1>1, <1>2, <1>3, <1>4, <1>5 DEF Typed, Places, Uses
  <1>7. Working
    BY <1>5 DEF Working, WorkPCs, LockPCs, SizePCs, MapPCs, RegPCs
  <1>8. RegionsApart
    BY <1>1, <1>5 DEF RegionsApart, WorkPCs, MapPCs
  <1>9. LargeApart
    BY <1>1, <1>5 DEF LargeApart, WorkPCs
  <1>10. MediumOwned
    BY <1>1, <1>2, <1>5 DEF MediumOwned, WorkPCs
  <1>11. SmallOwned
    BY <1>1, <1>5 DEF SmallOwned, WorkPCs
  <1>12. Apart /\ InMedium /\ Covered
    BY <1>1, <1>5 DEF Apart, InMedium, Covered, WorkPCs, LockPCs
  <1>. QED  BY <1>6, <1>7, <1>8, <1>9, <1>10, <1>11, <1>12 DEF HeapInv

LEMMA NobodyBroken ==
  ASSUME Typed
  PROVE  ~Broken
  BY DEF Broken, Typed, PCs, PlainPCs, WorkPCs, MapPCs, RegPCs, LockPCs, HandPCs, HoldPCs

\* A failed assertion ends every thread at once.
LEMMA HeapStep ==
  ASSUME HeapInv, Next
  PROVE  IInv'
  <1>1. PICK t \in Threads : MAlloc(t) \/ Free(t) \/ Fault(t) \/ Step(t)
    BY DEF Next
  <1>2. CASE Break
    BY <1>2 DEF Break, IInv, AllBroken, Broken
  <1>3. CASE ~Break
    <2>1. Move(t)
      BY <1>1, <1>3, Moves
    <2>. QED  BY <2>1, TypedStep, WorkingStep, RegionsApartStep, LargeApartStep, MediumOwnedStep,
                SmallOwnedStep, BlocksStep DEF IInv, HeapInv
  <1>. QED  BY <1>2, <1>3

\* Nothing follows.
LEMMA NothingFollows ==
  ASSUME AllBroken, Next
  PROVE  FALSE
  <1>1. PICK t \in Threads : MAlloc(t) \/ Free(t) \/ Fault(t) \/ Step(t)
    BY DEF Next
  <1>2. pc[t] = "broken"
    BY DEF AllBroken
  <1>3. ~(MAlloc(t) \/ Free(t) \/ Fault(t))
    BY <1>2 DEF MAlloc, Free, Fault, Goto
  <1>4. ~Alloc(t)
    <2>1. ~(\/ SmallPick(t) \/ SmallCached(t) \/ SmallNone(t) \/ SmallRelock(t)
            \/ SmallTake(t) \/ MediumFind(t) \/ MediumGrow(t) \/ MediumMap(t))
      BY <1>2 DEF SmallPick, SmallCached, SmallNone, SmallRelock, SmallTake, MediumFind, MediumGrow,
           MediumMap, SystemAlloc, Acquire, Return, Goto
    <2>2. ~(\/ InitChunk(t) \/ InitChunkFaults(t) \/ GrowLock(t) \/ MediumSplit(t)
            \/ AllocLoad(t) \/ AllocStore(t) \/ LargeMap(t) \/ LargeLink(t) \/ LargeLinkFaults(t))
      BY <1>2 DEF InitChunk, InitChunkFaults, GrowLock, MediumSplit, AllocLoad, AllocStore,
           LargeMap, LargeLink, LargeLinkFaults, SystemAlloc, Acquire, Return, Goto
    <2>. QED  BY <2>1, <2>2 DEF Alloc
  <1>5. ~FreeStep(t)
    BY <1>2 DEF FreeStep, SmallFree, MediumFreeMerge, MediumFreeChunk, MediumFreeLink, LargeFree,
         Return, Goto
  <1>6. ~MapStep(t) /\ ~Registered(t)
    BY <1>2 DEF MapStep, Registered, RegisterTest, RegisterRace, RegisterGrow, RegisterMoved,
         RegisterEntry, RegisterLen, RegisterUnknown, Registering, HandlerLock, LookupLen,
         LookupRead, HandlerExit, Goto
  <1>. QED  BY <1>1, <1>3, <1>4, <1>5, <1>6 DEF Step

LEMMA NothingMoves ==
  ASSUME UNCHANGED vars
  PROVE  IInv' <=> IInv
  <1>1. UNCHANGED <<pc, region, held, sys, free, used, small, cache, live, loc>>
    BY DEF vars, heapvars
  <1>2. /\ AllBroken' <=> AllBroken
        /\ Typed' <=> Typed
        /\ Working' <=> Working
    BY <1>1 DEF AllBroken, Broken, Typed, Working
  <1>3. /\ RegionsApart' <=> RegionsApart
        /\ LargeApart' <=> LargeApart
        /\ MediumOwned' <=> MediumOwned
        /\ SmallOwned' <=> SmallOwned
    BY <1>1 DEF RegionsApart, LargeApart, MediumOwned, SmallOwned
  <1>4. /\ Apart' <=> Apart
        /\ InMedium' <=> InMedium
        /\ Covered' <=> Covered
    BY <1>1 DEF Apart, InMedium, Covered
  <1>. QED  BY <1>2, <1>3, <1>4 DEF IInv, HeapInv

LEMMA InvStep == IInv /\ [Next]_vars => IInv'
  BY HeapStep, NothingFollows, NothingMoves DEF IInv

\* Two blocks of a region with a unit in common meet.
LEMMA CommonUnit ==
  ASSUME NEW b \in Blocks, NEW c \in Blocks, b.r = c.r, NEW n \in Int, In(b, n), In(c, n)
  PROVE  Meet(b, c)
  BY BlockFields DEF In, Meet

LEMMA PiecesAre ==
  ASSUME HeapInv, NEW r \in Regions, NEW p \in Pieces(r)
  PROVE  /\ p[1] \in Blocks /\ p[1].r = r
         /\ \/ p = <<p[1], "free", None>> /\ p[1] \in free
            \/ p = <<p[1], "used", None>> /\ p[1] \in used
            \/ \E t \in Threads : pc[t] \in HandPCs /\ p[1] = loc[t].blk /\ p = <<p[1], "hand", t>>
  <1>1. free \subseteq Blocks /\ used \subseteq Blocks
        /\ \A t \in Threads : pc[t] \in HandPCs => loc[t].blk \in Blocks
    BY DEF HeapInv, Typed, Apart
  <1>2. CASE p \in {<<b, "free", None>> : b \in {x \in free : x.r = r}}
    BY <1>1, <1>2
  <1>3. CASE p \in {<<b, "used", None>> : b \in {x \in used : x.r = r}}
    BY <1>1, <1>3
  <1>4. CASE p \in {<<loc[t].blk, "hand", t>> :
                      t \in {u \in Threads : pc[u] \in {"m_split", "fm_link"} /\ loc[u].blk.r = r}}
    BY <1>1, <1>4 DEF HandPCs
  <1>. QED  BY <1>2, <1>3, <1>4 DEF Pieces

LEMMA PiecesApart ==
  ASSUME HeapInv, NEW r \in Regions, NEW p \in Pieces(r), NEW q \in Pieces(r), Meet(p[1], q[1])
  PROVE  p = q
  <1>1. Apart /\ Meet(q[1], p[1])
    BY MeetSymmetric DEF HeapInv
  <1>. DEFINE Own(x) == \/ x = <<x[1], "free", None>> /\ x[1] \in free
                        \/ x = <<x[1], "used", None>> /\ x[1] \in used
              Hand(x, t) == pc[t] \in HandPCs /\ x[1] = loc[t].blk /\ x = <<x[1], "hand", t>>
  <1>2. /\ Own(p) \/ \E t \in Threads : Hand(p, t)
        /\ Own(q) \/ \E t \in Threads : Hand(q, t)
    BY PiecesAre
  <1>3. CASE Own(p) /\ Own(q)
    BY <1>1, <1>3 DEF Apart
  <1>4. ASSUME NEW t \in Threads, Hand(p, t), Own(q)
        PROVE  FALSE
    BY <1>1, <1>4 DEF Apart
  <1>5. ASSUME NEW t \in Threads, Hand(q, t), Own(p)
        PROVE  FALSE
    BY <1>1, <1>5 DEF Apart
  <1>6. ASSUME NEW t \in Threads, NEW u \in Threads, Hand(p, t), Hand(q, u)
        PROVE  p = q
    <2>1. t = u
      BY <1>1, <1>6 DEF Apart
    <2>. QED  BY <1>6, <2>1
  <1>. QED  BY <1>2, <1>3, <1>4, <1>5, <1>6

LEMMA RegionsTiled ==
  ASSUME HeapInv, NEW r \in Regions, sys[r].use = "medium"
  PROVE  Tiled(r)
  <1>. SUFFICES ASSUME NEW n \in 0..Units - 1
                PROVE  \E p \in Pieces(r) : \A q \in Pieces(r) :
                         q[1].at <= n /\ n < q[1].at + q[1].n <=> q = p
    BY DEF Tiled
  <1>1. n \in Int
    BY HeapAssumption
  <1>2. \E p \in Pieces(r) : In(p[1], n)
    <2>1. \/ \E b \in free \cup used : b.r = r /\ In(b, n)
          \/ \E t \in Threads : pc[t] \in HandPCs /\ loc[t].blk.r = r /\ In(loc[t].blk, n)
      BY DEF HeapInv, Covered
    <2>2. CASE \E b \in free : b.r = r /\ In(b, n)
      <3>1. PICK b \in free : b.r = r /\ In(b, n)
        BY <2>2
      <3>2. <<b, "free", None>> \in Pieces(r) /\ <<b, "free", None>>[1] = b
        BY <3>1 DEF Pieces
      <3>. QED  BY <3>1, <3>2
    <2>3. CASE \E b \in used : b.r = r /\ In(b, n)
      <3>1. PICK b \in used : b.r = r /\ In(b, n)
        BY <2>3
      <3>2. <<b, "used", None>> \in Pieces(r) /\ <<b, "used", None>>[1] = b
        BY <3>1 DEF Pieces
      <3>. QED  BY <3>1, <3>2
    <2>4. CASE \E t \in Threads : pc[t] \in HandPCs /\ loc[t].blk.r = r /\ In(loc[t].blk, n)
      <3>1. PICK t \in Threads : pc[t] \in HandPCs /\ loc[t].blk.r = r /\ In(loc[t].blk, n)
        BY <2>4
      <3>2. <<loc[t].blk, "hand", t>> \in Pieces(r) /\ <<loc[t].blk, "hand", t>>[1] = loc[t].blk
        BY <3>1 DEF Pieces, HandPCs
      <3>. QED  BY <3>1, <3>2
    <2>. QED  BY <2>1, <2>2, <2>3, <2>4
  <1>3. PICK p \in Pieces(r) : In(p[1], n)
    BY <1>2
  <1>4. ASSUME NEW q \in Pieces(r), In(q[1], n)
        PROVE  q = p
    <2>1. p[1] \in Blocks /\ q[1] \in Blocks /\ p[1].r = r /\ q[1].r = r
      BY PiecesAre
    <2>2. Meet(q[1], p[1])
      BY <1>1, <1>3, <1>4, <2>1, CommonUnit
    <2>. QED  BY <2>2, PiecesApart
  <1>. QED  BY <1>3, <1>4 DEF In

LEMMA InvGivesApart == IInv => BlocksApart
  <1>. SUFFICES ASSUME IInv, ~Broken
                PROVE  BlocksApart
    BY DEF BlocksApart
  <1>1. HeapInv
    BY DEF IInv, AllBroken
  <1>2. \A r \in Regions : sys[r].use = "medium" => Tiled(r)
    BY <1>1, RegionsTiled
  <1>3. ASSUME NEW x \in live
        PROVE  \/ x.kind = "small" /\ x.blk \in used \cap DOMAIN small /\ x.slot \in small[x.blk]
               \/ x.kind = "medium" /\ x.blk \in used \ DOMAIN small
               \/ x.kind = "large" /\ sys[x.r].use = "large"
    <2>1. /\ x \in SmallLive \cup MediumLive \cup LargeLive
          /\ SmallOwned /\ MediumOwned /\ LargeApart
      BY <1>1 DEF HeapInv, Typed
    <2>2. CASE x.kind = "small" /\ x.blk \in Blocks /\ x.slot \in Slots /\ x = Small(x.blk, x.slot)
      <3>1. x.blk \in DOMAIN small /\ x.slot \in small[x.blk]
        BY <2>1, <2>2 DEF SmallOwned
      <3>. QED  BY <2>1, <2>2, <3>1 DEF MediumOwned
    <2>3. CASE x.kind = "medium" /\ x.blk \in Blocks /\ x = Medium(x.blk)
      BY <2>1, <2>3 DEF MediumOwned
    <2>4. CASE x.kind = "large" /\ x.r \in Regions /\ x = Large(x.r)
      BY <2>1, <2>4 DEF LargeApart
    <2>. QED  BY <2>1, <2>2, <2>3, <2>4, LiveForms
  <1>. QED  BY <1>2, <1>3 DEF BlocksApart

\* The invariant: whose every block, slot and region is, also between the steps of a call.
THEOREM HeapInvariant == Spec => []IInv
  <1>1. Init => IInv
    BY InitHolds DEF IInv
  <1>. QED  BY <1>1, InvStep, PTL DEF Spec

\* Every unit of a region of medium blocks is in exactly one block, free, allocated or in the
\* hands of a thread, and what MAlloc has returned is allocated: no two requests get the same
\* memory, and no unit is lost, however the threads of a task interleave in stb_malloc.h.
THEOREM MemoryApart == Spec => []BlocksApart
  BY HeapInvariant, InvGivesApart, PTL

-----------------------------------------------------------------------------
(* The table of the code heap's memory.                                    *)

LEMMA GrownIs ==
  ASSUME NEW S, NEW s \in Seq(S), Len(s) > 0, NEW e \in S, NEW g,
         g = [k \in 1..2 * Len(s) |-> IF k <= Len(s) THEN s[k] ELSE e]
  PROVE  g \in Seq(S) /\ Len(g) = 2 * Len(s) /\ \A k \in 1..Len(s) : g[k] = s[k]
  <1>. DEFINE n == 2 * Len(s)
  <1>1. Len(s) \in Nat /\ n \in Nat
    BY LenProperties
  <1>2. \A k \in 1..n : (IF k <= Len(s) THEN s[k] ELSE e) \in S
    <2>1. \A k \in 1..n : k <= Len(s) => k \in 1..Len(s)
      BY <1>1
    <2>. QED  BY <2>1, ElementOfSeq
  <1>3. g \in [1..n -> S]
    BY <1>2
  <1>4. g \in Seq(S)
    BY <1>1, <1>3, SeqDef
  <1>5. DOMAIN g = 1..n /\ DOMAIN g = 1..Len(g) /\ Len(g) \in Nat
    BY <1>3, <1>4, LenProperties
  <1>6. Len(g) = n
    BY <1>1, <1>5
  <1>7. \A k \in 1..Len(s) : g[k] = s[k]
    BY <1>1
  <1>. QED  BY <1>4, <1>6, <1>7

\* The entries up to len stay.
Longer == len' \in Nat /\ len <= len' /\ \A k \in 1..len : table'[k] = table[k]

LEMMA ListedStays ==
  ASSUME Entries, Longer, NEW r, Listed(r)
  PROVE  Listed(r)'
  BY DEF Entries, Longer, Listed

\* Steps that have nothing to do with the table.
Outside == Registering \cup LookPCs
TableQuiet(t) == UNCHANGED mapvars /\ pc[t] \notin Outside \cup {"r_test"} /\ pc'[t] \notin Outside

\* A fault.
ToHandler(t) ==
  /\ UNCHANGED <<mapvars, sys>> /\ pc[t] \notin Outside /\ pc'[t] = "h_lock"
  /\ \/ region'[t] = Elsewhere
     \/ /\ region'[t] \in Regions
        /\ sys[region'[t]].heap = CodeHeap /\ sys[region'[t]].use \in ListedUses

Appended(t) ==
  /\ ~raced /\ pc[t] = "r_len" /\ len' = len + 1
  /\ pc' = [pc EXCEPT ![t] = IF loc[t].want = 0 THEN "l_lock" ELSE "g_init"]
  /\ UNCHANGED <<table, moving, tcd, i, stale, misread, verdict, region, heapvars>>

TableMove(t) ==
  \/ TableQuiet(t) \/ ToHandler(t)
  \/ RegisterTest(t) /\ UNCHANGED heapvars
  \/ RegisterGrow(t) /\ UNCHANGED heapvars
  \/ RegisterMoved(t) /\ UNCHANGED heapvars
  \/ RegisterEntry(t) /\ UNCHANGED heapvars
  \/ Appended(t)
  \/ HandlerLock(t) /\ UNCHANGED heapvars
  \/ LookupLen(t) /\ UNCHANGED heapvars
  \/ LookupRead(t) /\ UNCHANGED heapvars
  \/ HandlerExit(t) /\ UNCHANGED heapvars

LEMMA TableMoves ==
  ASSUME HeapInv, ~raced, ~raced', NEW t \in Threads,
         MAlloc(t) \/ Free(t) \/ Fault(t) \/ Step(t), ~Break
  PROVE  TableMove(t)
  <1>1. /\ Typed /\ MediumOwned /\ Apart /\ InMedium /\ LargeApart /\ SmallOwned
        /\ pc \in [Threads -> PCs] /\ region \in [Threads -> Places] /\ used \subseteq Blocks
    BY DEF HeapInv, Typed
  <1>. USE DEF Outside, Registering, LookPCs
  <1>2. CASE MAlloc(t) \/ SmallPick(t) \/ SmallCached(t) \/ SmallNone(t) \/ SmallRelock(t)
              \/ SmallTake(t) \/ MediumFind(t) \/ MediumGrow(t)
    <2>1. TableQuiet(t)
      BY <1>1, <1>2 DEF MAlloc, SmallPick, SmallCached, SmallNone, SmallRelock, SmallTake,
         MediumFind,
           MediumGrow, Acquire, Return, Goto, TableQuiet, mapvars
    <2>. QED  BY <2>1 DEF TableMove
  <1>3. CASE MediumMap(t) \/ LargeMap(t) \/ InitChunk(t) \/ GrowLock(t) \/ MediumSplit(t) \/ AllocLoad(t)
              \/ AllocStore(t) \/ LargeLink(t)
    <2>1. TableQuiet(t)
      BY <1>1, <1>3 DEF MediumMap, LargeMap, SystemAlloc, InitChunk, GrowLock, MediumSplit,
         AllocLoad,
           AllocStore, LargeLink, Acquire, Return, Goto, TableQuiet, mapvars
    <2>. QED  BY <2>1 DEF TableMove
  <1>4. CASE SmallFree(t) \/ MediumFreeChunk(t) \/ MediumFreeLink(t) \/ LargeFree(t)
    <2>1. TableQuiet(t)
      BY <1>1, <1>4 DEF SmallFree, MediumFreeChunk, MediumFreeLink, LargeFree, Return, Goto,
           TableQuiet, mapvars
    <2>. QED  BY <2>1 DEF TableMove
  <1>5. CASE Free(t)
    <2>1. pc[t] = "user" /\ pc'[t] \in {"fs_lock", "fm_lock", "fl_lock"} /\ UNCHANGED mapvars
      BY <1>1, <1>5 DEF Free, mapvars
    <2>. QED  BY <2>1 DEF TableMove, TableQuiet
  <1>6. CASE MediumFreeMerge(t)
    <2>1. pc[t] = "fm_lock" /\ pc'[t] = "fm_link" /\ UNCHANGED mapvars
      BY <1>1, <1>6 DEF MediumFreeMerge, mapvars
    <2>. QED  BY <2>1 DEF TableMove, TableQuiet
  <1>7. CASE InitChunkFaults(t) \/ LargeLinkFaults(t)
    <2>1. ToHandler(t)
      BY <1>1, <1>7 DEF InitChunkFaults, LargeLinkFaults, Acquire, Goto, ToHandler, mapvars
    <2>. QED  BY <2>1 DEF TableMove
  <1>8. CASE Fault(t)
    <2>1. PICK a \in {Elsewhere} \cup {x.r : x \in {y \in live : y.kind = "large"}}
                    \cup {x.blk.r : x \in {y \in live : y.kind # "large"}} :
            (a # Elsewhere => sys[a].heap = CodeHeap) /\ region' = [region EXCEPT ![t] = a]
      BY <1>8 DEF Fault
    <2>2. /\ pc[t] = "user" /\ pc'[t] = "h_lock" /\ UNCHANGED <<mapvars, sys>> /\ region'[t] = a
      BY <1>1, <1>8, <2>1 DEF Fault, Goto, mapvars, heapvars
    <2>3. \A y \in live : y.kind = "large" => y.r \in Regions /\ sys[y.r].use = "large"
      BY <1>1, LiveForms DEF Typed, LargeApart
    <2>4. \A y \in live : y.kind # "large" => y.blk \in used
      BY <1>1, LiveForms DEF Typed, MediumOwned, SmallOwned
    <2>5. \A y \in live : y.kind # "large" => y.blk.r \in Regions /\ sys[y.blk.r].use = "medium"
      BY <1>1, <2>4, BlockFields DEF InMedium
    <2>6. ToHandler(t)
      BY <2>1, <2>2, <2>3, <2>5 DEF ToHandler, ListedUses
    <2>. QED  BY <2>6 DEF TableMove
  <1>9. CASE Registered(t)
    <2>1. Appended(t)
      BY <1>9 DEF Registered, RegisterLen, RegisterUnknown, Goto, Appended
    <2>. QED  BY <2>1 DEF TableMove
  <1>10. CASE MapStep(t)
    <2>1. ~RegisterRace(t)
      BY DEF RegisterRace
    <2>. QED  BY <1>10, <2>1 DEF MapStep, TableMove
  <1>. QED  BY <1>2, <1>3, <1>4, <1>5, <1>6, <1>7, <1>8, <1>9, <1>10 DEF Step, Alloc, FreeStep

LEMMA EntriesStep ==
  ASSUME HeapInv, TableInv, NEW t \in Threads, TableMove(t)
  PROVE  Entries' /\ Longer
  <1>1. /\ Entries /\ OneRegisters /\ RegionsApart
    BY DEF HeapInv, TableInv
  <1>. DEFINE S == Regions \cup {Failed, Clear, Unknown}
  <1>2. /\ table \in Seq(S) /\ Len(table) \in Nat /\ Len(table) > 0 /\ len \in Nat /\ len <= Len(table)
        /\ \A k \in 1..len : table[k] \in Regions \cup {Failed}
    BY <1>1, LenProperties DEF Entries
  <1>3. CASE RegisterGrow(t)
    <2>1. table' = [k \in 1..2 * Len(table) |-> IF k <= Len(table) THEN table[k] ELSE Unknown]
          /\ len' = len
      BY <1>3 DEF RegisterGrow
    <2>2. Unknown \in S
      OBVIOUS
    <2>. HIDE DEF S
    <2>3. table' \in Seq(S) /\ Len(table') = 2 * Len(table) /\ \A k \in 1..Len(table) : table'[k] = table[k]
      BY <1>2, <2>1, <2>2, GrownIs
    <2>4. \A k \in 1..len : table'[k] = table[k]
      BY <1>2, <2>3
    <2>5. Len(table') > 0 /\ len' <= Len(table')
      BY <1>2, <2>1, <2>3
    <2>. QED  BY <1>2, <2>1, <2>3, <2>4, <2>5 DEF Entries, Longer, S
  <1>4. CASE RegisterEntry(t)
    <2>1. /\ pc[t] = "r_entry" /\ len' = len /\ table' = [table EXCEPT ![len + 1] = region[t]]
          /\ region[t] \in Regions \cup {Failed} /\ len < Len(table)
      BY <1>1, <1>4 DEF RegisterEntry, Goto, RegionsApart, RegPCs, OneRegisters
    <2>2. len + 1 \in 1..Len(table) /\ region[t] \in S
      BY <1>2, <2>1
    <2>. HIDE DEF S
    <2>3. table' \in Seq(S) /\ Len(table') = Len(table)
          /\ \A k \in 1..Len(table) : k # len + 1 => table'[k] = table[k]
      BY <1>2, <2>1, <2>2, ExceptSeq
    <2>4. \A k \in 1..len : table'[k] = table[k]
      BY <1>2, <2>3
    <2>. QED  BY <1>2, <2>1, <2>3, <2>4 DEF Entries, Longer, S
  <1>5. CASE Appended(t)
    <2>1. /\ len' = len + 1 /\ table' = table /\ len < Len(table) /\ table[len + 1] = region[t]
          /\ region[t] \in Regions \cup {Failed}
      BY <1>1, <1>5 DEF Appended, OneRegisters, RegionsApart, RegPCs
    <2>2. \A k \in 1..len' : k \in 1..len \/ k = len + 1
      BY <1>2, <2>1
    <2>3. len' \in Nat /\ len <= len' /\ len' <= Len(table)
      BY <1>2, <2>1
    <2>. QED  BY <1>2, <2>1, <2>2, <2>3 DEF Entries, Longer
  <1>6. CASE table' = table /\ len' = len
    BY <1>2, <1>6 DEF Entries, Longer
  <1>7. CASE TableQuiet(t) \/ ToHandler(t) \/ RegisterTest(t) \/ RegisterMoved(t) \/ HandlerLock(t)
              \/ LookupLen(t) \/ LookupRead(t) \/ HandlerExit(t)
    BY <1>6, <1>7 DEF TableQuiet, ToHandler, RegisterTest, RegisterMoved, HandlerLock, LookupLen,
         LookupRead, HandlerExit, mapvars
  <1>. QED  BY <1>3, <1>4, <1>5, <1>7 DEF TableMove

LEMMA OneRegistersStep ==
  ASSUME HeapInv, TableInv, NEW t \in Threads, Move(t), TableMove(t)
  PROVE  OneRegisters'
  <1>1. /\ Entries /\ OneRegisters /\ pc \in [Threads -> PCs] /\ pc' \in [Threads -> PCs]
        /\ \A u \in Threads \ {t} : pc'[u] = pc[u] /\ region'[u] = region[u]
        /\ Len(table) \in Nat /\ Len(table) > 0 /\ len \in Nat /\ len <= Len(table)
    BY OthersStay, LenProperties DEF HeapInv, Typed, TableInv, Entries, Others
  <1>. USE DEF Registering
  \* Who registers is alone.
  <1>2. ASSUME UNCHANGED <<table, len>>, pc'[t] \notin Registering
        PROVE  OneRegisters'
    BY <1>1, <1>2 DEF OneRegisters
  <1>3. ASSUME pc[t] \in Registering \/ \A u \in Threads : pc[u] \notin Registering
        PROVE  /\ \A u \in Threads \ {t} : pc'[u] \notin Registering
               /\ \A u, v \in Threads : pc'[u] \in Registering /\ pc'[v] \in Registering => u = v
    BY <1>1, <1>3 DEF OneRegisters
  <1>4. CASE RegisterTest(t)
    <2>1. /\ \A u \in Threads : pc[u] \notin Registering
          /\ UNCHANGED <<table, len>>
          /\ pc'[t] = "r_grow" \/ (pc'[t] = "r_entry" /\ len # Len(table))
      BY <1>1, <1>4 DEF RegisterTest, Goto, mapvars
    <2>. QED  BY <1>1, <1>3, <2>1 DEF OneRegisters
  <1>5. CASE RegisterGrow(t)
    <2>1. /\ pc[t] = "r_grow" /\ pc'[t] = "r_moved" /\ len' = len
          /\ table' = [k \in 1..2 * Len(table) |-> IF k <= Len(table) THEN table[k] ELSE Unknown]
      BY <1>1, <1>5 DEF RegisterGrow, Goto
    <2>2. Unknown \in Regions \cup {Failed, Clear, Unknown}
      OBVIOUS
    <2>3. Len(table') = 2 * Len(table)
      BY <1>1, <2>1, <2>2, GrownIs DEF Entries
    <2>4. len' < Len(table')
      BY <1>1, <2>1, <2>3
    <2>. QED  BY <1>1, <1>3, <2>1, <2>4 DEF OneRegisters
  <1>6. CASE RegisterMoved(t)
    <2>1. pc[t] = "r_moved" /\ pc'[t] = "r_entry" /\ UNCHANGED <<table, len>>
      BY <1>1, <1>6 DEF RegisterMoved, Goto
    <2>. QED  BY <1>1, <1>3, <2>1 DEF OneRegisters
  <1>7. CASE RegisterEntry(t)
    <2>1. /\ pc[t] = "r_entry" /\ pc'[t] = "r_len" /\ len' = len /\ region' = region
          /\ table' = [table EXCEPT ![len + 1] = region[t]] /\ len < Len(table)
          /\ region[t] \in Regions \cup {Failed, Clear, Unknown}
      BY <1>1, <1>7 DEF RegisterEntry, Goto, OneRegisters, HeapInv, RegionsApart, RegPCs
    <2>2. len + 1 \in 1..Len(table)
      BY <1>1, <2>1
    <2>3. Len(table') = Len(table) /\ table'[len + 1] = region[t]
      BY <1>1, <2>1, <2>2, ExceptSeq DEF Entries
    <2>. QED  BY <1>1, <1>3, <2>1, <2>3 DEF OneRegisters
  <1>8. CASE Appended(t)
    <2>1. pc[t] = "r_len" /\ pc'[t] \notin Registering
      BY <1>1, <1>8 DEF Appended
    <2>. QED  BY <1>3, <2>1 DEF OneRegisters
  <1>9. CASE TableQuiet(t) \/ ToHandler(t) \/ HandlerLock(t) \/ LookupLen(t) \/ LookupRead(t)
              \/ HandlerExit(t)
    <2>1. UNCHANGED <<table, len>> /\ pc'[t] \notin Registering
      BY <1>1, <1>9 DEF TableQuiet, ToHandler, HandlerLock, LookupLen, LookupRead, HandlerExit,
         Goto,
           mapvars, Outside
    <2>. QED  BY <1>2, <2>1
  <1>. QED  BY <1>4, <1>5, <1>6, <1>7, <1>8, <1>9 DEF TableMove

LEMMA AllListedStep ==
  ASSUME HeapInv, TableInv, NEW t \in Threads, Move(t), TableMove(t)
  PROVE  AllListed'
  <1>1. /\ Entries /\ OneRegisters /\ AllListed /\ RegionsApart /\ Longer
        /\ pc \in [Threads -> PCs] /\ pc' \in [Threads -> PCs] /\ loc \in [Threads -> Local]
        /\ \A u \in Threads \ {t} : pc'[u] = pc[u] /\ region'[u] = region[u] /\ loc'[u] = loc[u]
    BY OthersStay, EntriesStep DEF HeapInv, Typed, TableInv, Others
  <1>2. \A r : Listed(r) => Listed(r)'
    BY <1>1, ListedStays
  <1>. USE DEF ListedPCs
  <1>3. ASSUME NEW r \in Regions, sys'[r].heap = CodeHeap, sys'[r].use \in ListedUses
        PROVE  Listed(r)
    <2>1. SysKept(t, r)
      BY SysStays
    <2>2. sys \in [Regions -> [heap : Heaps \cup {None}, use : Uses]]
      BY DEF HeapInv, Typed
    <2>3. sys[r].use \in Uses
      BY <2>2
    <2>4. CASE sys[r].use = "unmapped"
      <3>1. sys'[r].use \in {"unmapped", "mapped"}
        BY <2>1, <2>4 DEF SysKept
      <3>. QED  BY <1>3, <3>1 DEF ListedUses
    <2>5. CASE sys[r].use = "mapped"
      <3>1. (GrowLock(t) \/ LargeLink(t)) /\ region[t] = r
        BY <1>3, <2>1, <2>5 DEF SysKept, ListedUses
      <3>2. pc[t] \in {"g_lock", "l_lock"}
        BY <3>1 DEF GrowLock, LargeLink, Acquire, Return, Goto
      <3>3. sys[r] = [heap |-> loc[t].heap, use |-> "mapped"]
        BY <1>1, <3>1, <3>2 DEF RegionsApart, MapPCs, RegPCs
      <3>4. loc[t].heap = CodeHeap
        BY <1>3, <2>1, <2>5, <3>3 DEF SysKept
      <3>. QED  BY <1>1, <3>1, <3>2, <3>4 DEF AllListed
    <2>6. CASE sys[r].use \in ListedUses
      <3>1. sys[r].heap = CodeHeap
        BY <1>3, <2>1, <2>6 DEF SysKept, ListedUses
      <3>. QED  BY <1>1, <2>6, <3>1 DEF AllListed
    <2>. QED  BY <2>3, <2>4, <2>5, <2>6 DEF Uses, ListedUses
  <1>4. ASSUME pc'[t] \in ListedPCs, loc'[t].heap = CodeHeap, NEW r \in Regions, region'[t] = r
        PROVE  Listed(r)'
    <2>1. CASE MediumMap(t) \/ LargeMap(t)
      <3>1. loc' = loc /\ pc'[t] = "r_test"
        BY <1>1, <1>4, <2>1 DEF MediumMap, LargeMap, SystemAlloc, Goto
      <3>. QED  BY <1>4, <3>1
    <2>2. CASE InitChunk(t)
      <3>1. pc[t] = "g_init" /\ region' = region /\ loc'[t].heap = loc[t].heap
        BY <1>1, <2>2 DEF InitChunk, Goto, Local
      <3>2. Listed(r)
        BY <1>1, <1>4, <3>1 DEF AllListed
      <3>. QED  BY <1>2, <3>2
    <2>3. CASE RegMove(t)
      <3>1. pc[t] \in RegPCs /\ region' = region /\ loc' = loc
        BY <2>3 DEF RegMove, heapvars
      <3>2. CASE Appended(t)
        <4>1. table[len + 1] = region[t] /\ len' = len + 1 /\ table' = table /\ len \in Nat
          BY <1>1, <3>2 DEF Appended, OneRegisters, Entries
        <4>2. len + 1 \in 1..len' /\ table'[len + 1] = r
          BY <1>4, <3>1, <4>1
        <4>. QED  BY <4>2 DEF Listed
      <3>3. CASE TableQuiet(t)
        <4>1. pc[t] \in ListedPCs
          BY <3>1, <3>3 DEF TableQuiet, Outside, Registering, RegPCs
        <4>2. Listed(r)
          BY <1>1, <1>4, <3>1, <4>1 DEF AllListed
        <4>. QED  BY <1>2, <4>2
      <3>4. CASE RegisterTest(t) \/ RegisterGrow(t) \/ RegisterMoved(t) \/ RegisterEntry(t)
        BY <1>1, <1>4, <3>4 DEF RegisterTest, RegisterGrow, RegisterMoved, RegisterEntry, Goto
      <3>5. CASE ToHandler(t) \/ HandlerLock(t) \/ LookupLen(t) \/ LookupRead(t) \/ HandlerExit(t)
        BY <1>1, <1>4, <3>5 DEF ToHandler, HandlerLock, LookupLen, LookupRead, HandlerExit, Goto
      <3>. QED  BY <3>2, <3>3, <3>4, <3>5 DEF TableMove
    <2>. QED  BY <1>4, <2>1, <2>2, <2>3, MapsOnly DEF MapPCs, RegPCs
  <1>5. \A r \in Regions : sys'[r].heap = CodeHeap /\ sys'[r].use \in ListedUses => Listed(r)'
    BY <1>2, <1>3
  <1>6. ASSUME NEW u \in Threads, pc'[u] \in ListedPCs, loc'[u].heap = CodeHeap,
               NEW r \in Regions, region'[u] = r
        PROVE  Listed(r)'
    <2>1. CASE u = t
      BY <1>4, <1>6, <2>1
    <2>2. CASE u # t
      <3>1. Listed(r)
        BY <1>1, <1>6, <2>2 DEF AllListed
      <3>. QED  BY <1>2, <3>1
    <2>. QED  BY <2>1, <2>2
  <1>. QED  BY <1>5, <1>6 DEF AllListed, Listed

\* A look-up is not disturbed by what the others do.
LEMMA LookupStays ==
  ASSUME Entries, Longer, NEW u, LookupAt(u), misread'[u] = misread[u],
         pc'[u] = pc[u], region'[u] = region[u], i'[u] = i[u], verdict'[u] = verdict[u]
  PROVE  LookupAt(u)'
  <1>1. Listed(region[u]) => \E k \in 1..len' : table'[k] = region[u]
    BY ListedStays DEF Listed
  <1>2. len \in Nat /\ len' \in Nat /\ len <= len' /\ i[u] \in Nat
    BY DEF Entries, Longer, LookupAt
  <1>3. \A k \in 1..i[u] : k <= len => table'[k] = table[k]
    BY <1>2 DEF Longer
  <1>4. Decided(u) => Decided(u)'
    <2>1. ASSUME NEW k \in misread[u], k <= len, table[k] = region[u]
          PROVE  k \in misread'[u] /\ k <= len' /\ table'[k] = region'[u]
      BY <1>2, <1>3, <2>1 DEF LookupAt
    <2>. QED  BY <2>1 DEF Decided
  <1>. QED  BY <1>1, <1>2, <1>3, <1>4 DEF LookupAt, Listed

LEMMA LookupsStep ==
  ASSUME HeapInv, TableInv, NEW t \in Threads, Move(t), TableMove(t), ~raced
  PROVE  Lookups'
  <1>1. /\ Entries /\ Entries' /\ AllListed /\ Longer /\ i \in [Threads -> Nat]
        /\ verdict \in [Threads -> BOOLEAN] /\ misread \in [Threads -> SUBSET Nat]
        /\ len \in Nat /\ i[t] \in Nat
        /\ \A u \in Threads : LookupAt(u)
        /\ pc \in [Threads -> PCs] /\ pc' \in [Threads -> PCs] /\ region \in [Threads -> Places]
        /\ \A u \in Threads \ {t} : pc'[u] = pc[u] /\ region'[u] = region[u]
    BY OthersStay, EntriesStep DEF HeapInv, Typed, TableInv, Lookups, Others, Entries
  <1>2. LookupAt(t)
    BY <1>1
  <1>3. Elsewhere \notin Regions \cup {Failed} /\ Unknown \notin Regions \cup {Failed}
    BY MemMapAssumption
  <1>4. \A r : Listed(r) => Listed(r)'
    BY <1>1, ListedStays
  <1>. DEFINE Kept == /\ i' \in [Threads -> Nat] /\ verdict' \in [Threads -> BOOLEAN]
                      /\ misread' \in [Threads -> SUBSET Nat]
                      /\ \A u \in Threads \ {t} :
                           i'[u] = i[u] /\ verdict'[u] = verdict[u] /\ misread'[u] = misread[u]
                      /\ LookupAt(t)'
  <1>. USE DEF LookPCs, Outside, Registering
  <1>5. ASSUME UNCHANGED mapvars, pc[t] \notin LookPCs, pc'[t] \notin LookPCs
        PROVE  Kept
    BY <1>1, <1>2, <1>5 DEF LookupAt, mapvars
  <1>6. ASSUME TableQuiet(t)
        PROVE  Kept
    BY <1>5, <1>6 DEF TableQuiet
  <1>7. ASSUME ToHandler(t)
        PROVE  Kept
    <2>1. /\ UNCHANGED <<mapvars, sys>> /\ pc[t] \notin LookPCs /\ pc'[t] = "h_lock"
          /\ region'[t] \in Regions \cup {Elsewhere}
      BY <1>7 DEF ToHandler
    <2>2. ASSUME NEW r \in Regions, region'[t] = r
          PROVE  Listed(r)'
      <3>1. sys[r].heap = CodeHeap /\ sys[r].use \in ListedUses
        BY <1>3, <1>7, <2>2 DEF ToHandler
      <3>. QED  BY <1>1, <1>4, <3>1 DEF AllListed
    <2>. QED  BY <1>1, <1>2, <2>1, <2>2 DEF LookupAt, mapvars, Listed
  <1>8. ASSUME RegisterTest(t) \/ RegisterMoved(t) \/ RegisterEntry(t) \/ Appended(t) \/ RegisterGrow(t)
        PROVE  Kept
    <2>1. UNCHANGED <<i, verdict, misread>> /\ pc[t] \notin LookPCs /\ pc'[t] \notin LookPCs
      BY <1>1, <1>8 DEF RegisterTest, RegisterMoved, RegisterEntry, Appended, RegisterGrow, Goto,
         mapvars
    <2>. QED  BY <1>1, <1>2, <2>1 DEF LookupAt
  <1>9. ASSUME HandlerLock(t)
        PROVE  Kept
    <2>1. /\ UNCHANGED <<table, len, i, verdict, misread,
               region>> /\ pc[t] = "h_lock" /\ pc'[t] = "h_len"
      BY <1>1, <1>9 DEF HandlerLock, Goto
    <2>2. i[t] = 0 /\ ~verdict[t]
      BY <1>2, <2>1 DEF LookupAt
    <2>. QED  BY <1>1, <1>2, <2>1, <2>2 DEF LookupAt, Listed
  <1>10. ASSUME LookupLen(t)
         PROVE  Kept
    <2>1. /\ UNCHANGED <<table, len, i, verdict, misread, region>> /\ pc[t] = "h_len"
          /\ \/ pc'[t] = "h_read" /\ i[t] < len
             \/ pc'[t] = "h_done" /\ ~(i[t] < len)
      BY <1>1, <1>10 DEF LookupLen, Goto
    <2>2. ASSUME ~(i[t] < len)
          PROVE  Decided(t)'
      <3>1. /\ i[t] = len /\ ~verdict[t] /\ region[t] \in Regions \cup {Elsewhere}
            /\ \A k \in 1..len : table[k] = region[t] => k \in misread[t]
        BY <1>1, <1>2, <2>1, <2>2 DEF LookupAt
      <3>2. region[t] # Elsewhere => \E k \in 1..len : table[k] = region[t]
        BY <1>2, <2>1, <3>1 DEF LookupAt, Listed
      <3>3. region[t] # Elsewhere => \E k \in misread[t] : k <= len /\ table[k] = region[t]
        BY <1>1, <3>1, <3>2
      <3>. QED  BY <2>1, <3>1, <3>3 DEF Decided
    <2>. QED  BY <1>1, <1>2, <2>1, <2>2 DEF LookupAt, Listed
  <1>11. ASSUME LookupRead(t)
         PROVE  Kept
    <2>1. PICK hit \in Hits(t) :
            /\ verdict' = [verdict EXCEPT ![t] = hit]
            /\ pc' = [pc EXCEPT ![t] = IF hit \/ raced THEN "h_done" ELSE "h_len"]
      BY <1>11 DEF LookupRead
    <2>2. /\ UNCHANGED <<table, len, region>> /\ pc[t] = "h_read" /\ i' = [i EXCEPT ![t] = @ + 1]
          /\ misread' = [misread EXCEPT ![t] = IF t \in stale THEN @ \cup {i[t] + 1} ELSE @]
      BY <1>11 DEF LookupRead
    <2>3. hit \in BOOLEAN /\ pc'[t] = (IF hit THEN "h_done" ELSE "h_len") /\ verdict'[t] = hit
          /\ i'[t] = i[t] + 1
          /\ misread'[t] = IF t \in stale THEN misread[t] \cup {i[t] + 1} ELSE misread[t]
      <3>1. hit \in BOOLEAN
        BY <2>1 DEF Hits
      <3>. QED  BY <1>1, <2>1, <2>2, <3>1
    <2>4. /\ i[t] < len /\ \A k \in 1..i[t] : table[k] = region[t] => k \in misread[t]
          /\ misread[t] \subseteq 1..i[t]
      BY <1>2, <2>2 DEF LookupAt
    <2>5. t \in stale => i[t] + 1 \in misread'[t]
      BY <2>3
    <2>6. ASSUME t \notin stale
          PROVE  /\ hit = (table[i[t] + 1] = region[t])
                 /\ table[i[t] + 1] # Elsewhere
      <3>1. i[t] + 1 \in 1..len
        BY <1>1, <2>4
      <3>2. table[i[t] + 1] \in Regions \cup {Failed}
        BY <1>1, <3>1 DEF Entries
      <3>. QED  BY <1>1, <1>3, <2>1, <2>6, <3>2 DEF Hits
    <2>7. /\ region[t] \in Regions \cup {Elsewhere} /\ (region[t] \in Regions => Listed(region[t]))
      BY <1>2, <2>2 DEF LookupAt
    <2>8. i'[t] \in Nat /\ \A k \in 1..i'[t] : k \in 1..i[t] \/ k = i[t] + 1
      BY <1>1, <2>3
    <2>9. misread[t] \subseteq misread'[t] /\ misread'[t] \subseteq 1..i'[t]
      <3>1. i[t] + 1 \in 1..i'[t] /\ 1..i[t] \subseteq 1..i'[t]
        BY <1>1, <2>3
      <3>. QED  BY <2>3, <2>4, <3>1
    <2>10. hit => Decided(t)'
      BY <2>2, <2>3, <2>5, <2>6 DEF Decided
    <2>11. ~hit => \A k \in 1..i'[t] : table[k] = region[t] => k \in misread'[t]
      BY <2>4, <2>5, <2>6, <2>8, <2>9
    <2>12. LookupAt(t)'
      <3>1. CASE hit
        BY <1>1, <2>2, <2>3, <2>7, <2>8, <2>9, <2>10, <3>1 DEF LookupAt, Listed
      <3>2. CASE ~hit
        BY <1>1, <2>2, <2>3, <2>4, <2>7, <2>8, <2>9, <2>11, <3>2 DEF LookupAt, Listed
      <3>. QED  BY <3>1, <3>2
    <2>13. misread' \in [Threads -> SUBSET Nat]
      BY <1>1, <2>2
    <2>. QED  BY <1>1, <2>1, <2>2, <2>3, <2>8, <2>12, <2>13
  <1>12. ASSUME HandlerExit(t)
         PROVE  Kept
    <2>1. /\ pc'[t] = "dead" /\ i' = [i EXCEPT ![t] = 0] /\ verdict' = [verdict EXCEPT ![t] = FALSE]
          /\ misread' = [misread EXCEPT ![t] = {}]
      BY <1>1, <1>12 DEF HandlerExit, Goto
    <2>. QED  BY <1>1, <2>1 DEF LookupAt
  <1>13. Kept
    BY <1>6, <1>7, <1>8, <1>9, <1>10, <1>11, <1>12 DEF TableMove
  <1>14. \A u \in Threads \ {t} : LookupAt(u)'
    BY <1>1, <1>13, LookupStays
  <1>. QED  BY <1>13, <1>14 DEF Lookups

LEMMA RacedStays ==
  ASSUME raced, NEW t \in Threads, MAlloc(t) \/ Free(t) \/ Fault(t) \/ Step(t)
  PROVE  raced'
  <1>1. CASE MAlloc(t) \/ SmallPick(t) \/ SmallCached(t) \/ SmallNone(t) \/ SmallRelock(t)
              \/ SmallTake(t) \/ MediumFind(t) \/ MediumGrow(t)
    BY <1>1 DEF MAlloc, SmallPick, SmallCached, SmallNone, SmallRelock, SmallTake, MediumFind,
       MediumGrow
  <1>2. CASE MediumMap(t) \/ LargeMap(t) \/ InitChunk(t) \/ InitChunkFaults(t) \/ GrowLock(t)
              \/ MediumSplit(t) \/ AllocLoad(t) \/ AllocStore(t) \/ LargeLink(t) \/ LargeLinkFaults(t)
    BY <1>2 DEF MediumMap, LargeMap, SystemAlloc, InitChunk, InitChunkFaults, GrowLock, MediumSplit,
         AllocLoad, AllocStore, LargeLink, LargeLinkFaults
  <1>3. CASE Free(t) \/ FreeStep(t) \/ Fault(t)
    BY <1>3 DEF Free, FreeStep, SmallFree, MediumFreeMerge, MediumFreeChunk, MediumFreeLink,
       LargeFree,
         Fault
  <1>4. CASE MapStep(t) \/ Registered(t)
    BY <1>4 DEF MapStep, Registered, RegisterTest, RegisterRace, RegisterGrow, RegisterMoved,
         RegisterEntry, RegisterLen, RegisterUnknown, HandlerLock, LookupLen, LookupRead,
              HandlerExit
  <1>. QED  BY <1>1, <1>2, <1>3, <1>4 DEF Step, Alloc

LEMMA TraceStep ==
  ASSUME IInv, TraceInv, Next
  PROVE  TraceInv'
  <1>1. PICK t \in Threads : MAlloc(t) \/ Free(t) \/ Fault(t) \/ Step(t)
    BY DEF Next
  <1>2. CASE raced
    BY <1>1, <1>2, RacedStays DEF TraceInv
  <1>3. CASE raced' \/ Break
    BY <1>3 DEF TraceInv, Break, Broken
  <1>4. CASE ~raced /\ ~raced' /\ ~Break
    <2>1. HeapInv
      BY NothingFollows DEF IInv
    <2>2. TableInv
      BY <1>4, <2>1, NobodyBroken DEF TraceInv, HeapInv
    <2>3. Move(t) /\ TableMove(t)
      BY <1>1, <1>4, <2>1, Moves, TableMoves
    <2>4. Entries' /\ OneRegisters' /\ AllListed' /\ Lookups'
      BY <1>4, <2>1, <2>2, <2>3, EntriesStep, OneRegistersStep, AllListedStep, LookupsStep
    <2>. QED  BY <2>4 DEF TraceInv, TableInv
  <1>. QED  BY <1>2, <1>3, <1>4

LEMMA TraceInit == Init => TraceInv
  <1>. SUFFICES ASSUME Init PROVE TableInv
    BY DEF TraceInv
  <1>1. /\ table = [k \in 1..InitialSize |-> IF k = 1 THEN Failed ELSE Clear] /\ len = 1
        /\ i = [t \in Threads |-> 0] /\ verdict = [t \in Threads |-> FALSE]
        /\ misread = [t \in Threads |-> {}] /\ pc = [t \in Threads |-> "user"]
        /\ sys = [r \in Regions |-> [heap |-> None, use |-> "unmapped"]]
    BY DEF Init, MapInit
  <1>2. InitialSize \in Nat /\ InitialSize >= 1
    BY MemMapAssumption
  <1>3. table \in Seq(Regions \cup {Failed, Clear, Unknown}) /\ Len(table) = InitialSize
    <2>1. table \in [1..InitialSize -> Regions \cup {Failed, Clear, Unknown}]
      BY <1>1
    <2>2. table \in Seq(Regions \cup {Failed, Clear, Unknown})
      BY <1>2, <2>1, SeqDef
    <2>3. DOMAIN table = 1..InitialSize /\ DOMAIN table = 1..Len(table) /\ Len(table) \in Nat
      BY <2>1, <2>2, LenProperties
    <2>. QED  BY <1>2, <2>2, <2>3
  <1>4. Entries
    <2>1. \A k \in 1..len : table[k] = Failed
      BY <1>1, <1>2
    <2>. QED  BY <1>1, <1>2, <1>3, <2>1 DEF Entries
  <1>5. OneRegisters
    BY <1>1 DEF OneRegisters, Registering
  <1>6. AllListed
    BY <1>1 DEF AllListed, ListedUses, ListedPCs
  <1>7. Lookups
    BY <1>1 DEF Lookups, LookupAt, LookPCs
  <1>. QED  BY <1>4, <1>5, <1>6, <1>7 DEF TableInv

LEMMA TraceStays ==
  ASSUME UNCHANGED vars
  PROVE  TraceInv' <=> TraceInv
  <1>1. UNCHANGED <<table, len, i, misread, verdict, pc, region, raced, sys, loc>>
    BY DEF vars, heapvars, mapvars
  <1>2. /\ Entries' <=> Entries
        /\ OneRegisters' <=> OneRegisters
        /\ AllListed' <=> AllListed
    BY <1>1 DEF Entries, OneRegisters, AllListed, Listed
  <1>3. Lookups' <=> Lookups
    BY <1>1 DEF Lookups, LookupAt, Listed, Decided
  <1>. QED  BY <1>1, <1>2, <1>3 DEF TraceInv, TableInv, Broken

LEMMA InvGivesTrace == TraceInv => WrongOnlyIfMoved
  <1>. SUFFICES ASSUME TraceInv, ~raced, ~Broken, NEW t \in Threads, pc[t] = "h_done"
                PROVE  Decided(t)
    BY DEF WrongOnlyIfMoved, Decided
  <1>. QED  BY DEF TraceInv, TableInv, Lookups, LookupAt

\* signal_handler takes code of the code heap for C code, or the other way round, only if
\* code_heap_system_alloc moves the table between the load of v and the read of the entry
\* that decides: however often it is moved otherwise, and unless two threads register at once.
THEOREM OnlyMovesMislead == Spec => []WrongOnlyIfMoved
  <1>1. IInv /\ TraceInv /\ [Next]_vars => TraceInv'
    BY TraceStep, TraceStays
  <1>. QED  BY <1>1, TraceInit, HeapInvariant, InvGivesTrace, PTL DEF Spec
=============================================================================
