------------------------------- MODULE MemMap -------------------------------
(***************************************************************************)
(* The table of the memory TempleOS code runs in (templeos_mem_map of      *)
(* task.c): code_heap_system_alloc registers every region it maps, and     *)
(* signal_handler asks, with thread_create_destruct_mutex held, whether    *)
(* the address that faulted is in one, before it reads a frame there.      *)
(* Nothing else protects the table: it grows and moves while it is read.   *)
(*                                                                         *)
(* gcc is called without -O: every access loads v and len again.  Entries  *)
(* are never removed in this build (the heaps are stb_malloc's).           *)
(*                                                                         *)
(* Two threads that register at once may both write to one entry, lose an  *)
(* increment of len, write behind the table or reallocate it twice.  What  *)
(* the table holds is not followed from there on: a lookup may say         *)
(* anything, and a registration may break the process.                     *)
(***************************************************************************)
EXTENDS Naturals, Sequences

CONSTANTS
  Threads,
  Regions,      \* what mmap can return (bounds the model)
  Failed,       \* MAP_FAILED
  Elsewhere,    \* an address in no region (the C code of lilith)
  None,
  InitialSize   \* TEMPLEOS_MEM_MAP_INITIAL_SIZE (20)

\* What an entry holds: calloc's zeros, what realloc left, or a region.
Clear == "clear"
Unknown == "unknown"

ASSUME MemMapAssumption ==
  /\ None \notin Threads \cup Regions
  /\ Failed \notin Regions \cup {None} /\ Elsewhere \notin Regions \cup {Failed, None}
  /\ InitialSize \in Nat \ {0}
  /\ Clear \notin Regions \cup {Failed} /\ Unknown \notin Regions \cup {Failed}

VARIABLES
  table,     \* the entries that fit in what v points to
  moving,    \* v points to memory realloc has freed
  len,
  tcd,       \* the owner of thread_create_destruct_mutex
  pc,
  region,    \* what a thread registers or looks up
  i,         \* the loop variable of a lookup
  stale,     \* the threads that have loaded a v that was freed since, and not yet read
  misread,   \* history: the entries that a lookup has read in freed memory
  verdict,   \* what the lookup of a thread says
  raced      \* history: whether two threads have registered at once

mapvars == <<table, moving, len, tcd, i, stale, misread, verdict>>

\* heaps_init has registered the storage of the code heap, where no code is.
MapInit ==
  /\ table = [k \in 1..InitialSize |-> IF k = 1 THEN Failed ELSE Clear]
  /\ moving = FALSE /\ len = 1
  /\ tcd = None
  /\ i = [t \in Threads |-> 0] /\ stale = {} /\ misread = [t \in Threads |-> {}]
  /\ verdict = [t \in Threads |-> FALSE]

Goto(t, from, to) == pc[t] = from /\ pc' = [pc EXCEPT ![t] = to]

\* Memory was written that belongs to something else, or an assertion failed: what happens
\* after that is not modelled.
Break == pc' = [u \in Threads |-> "broken"]
Broken == \E u \in Threads : pc[u] = "broken"

-----------------------------------------------------------------------------
(* register_templeos_memory.                                               *)

Registering == {"r_grow", "r_moved", "r_entry", "r_len"}

RegisterTest(t) ==
  /\ \A u \in Threads : pc[u] \notin Registering
  /\ Goto(t, "r_test", IF len = Len(table) THEN "r_grow" ELSE "r_entry")
  /\ UNCHANGED <<mapvars, region, raced>>

\* Another thread is registering.
RegisterRace(t) ==
  /\ \E u \in Threads : pc[u] \in Registering
  /\ Goto(t, "r_test", "r_len")
  /\ raced' = TRUE
  /\ table' = <<>> /\ moving' = FALSE /\ len' = 0
  /\ UNCHANGED <<tcd, i, stale, misread, verdict, region>>

\* The double of cap, and realloc, which frees the table before v is stored.
RegisterGrow(t) ==
  /\ ~raced
  /\ Goto(t, "r_grow", "r_moved")
  /\ table' = [k \in 1..2 * Len(table) |-> IF k <= Len(table) THEN table[k] ELSE Unknown]
  /\ moving' = TRUE
  /\ stale' = stale \cup {u \in Threads : pc[u] = "h_read"}
  /\ UNCHANGED <<len, tcd, i, misread, verdict, region, raced>>

RegisterMoved(t) ==
  /\ ~raced
  /\ Goto(t, "r_moved", "r_entry")
  /\ moving' = FALSE
  /\ UNCHANGED <<table, len, tcd, i, stale, misread, verdict, region, raced>>

\* Mutant: v[++len] is written, not v[len++].
RegisterEntryPast(t) ==
  /\ ~raced
  /\ Goto(t, "r_entry", "r_len")
  /\ table' = [table EXCEPT ![len + 2] = region[t]]
  /\ UNCHANGED <<moving, len, tcd, i, stale, misread, verdict, region, raced>>

RegisterEntry(t) ==
  /\ ~raced
  /\ Goto(t, "r_entry", "r_len")
  /\ table' = [table EXCEPT ![len + 1] = region[t]]
  /\ UNCHANGED <<moving, len, tcd, i, stale, misread, verdict, region, raced>>

\* The function returns to the caller in to.
RegisterLen(t, to) ==
  /\ ~raced
  /\ Goto(t, "r_len", to)
  /\ len' = len + 1
  /\ UNCHANGED <<table, moving, tcd, i, stale, misread, verdict, region, raced>>

RegisterUnknown(t, to) ==
  /\ raced
  /\ pc[t] \in Registering
  /\ pc' = [pc EXCEPT ![t] = to] \/ Break
  /\ UNCHANGED <<mapvars, region, raced>>

-----------------------------------------------------------------------------
(* signal_handler: print_stack_trace, is_templeos_memory and               *)
(* get_templeos_memory.  The thread ends with the mutex unlocked.          *)

HandlerLock(t) ==
  /\ Goto(t, "h_lock", "h_len")
  /\ tcd = None /\ tcd' = t
  /\ UNCHANGED <<table, moving, len, i, stale, misread, verdict, region, raced>>

\* The test of the loop, and the load of v.
LookupLen(t) ==
  /\ Goto(t, "h_len", IF raced \/ i[t] < len THEN "h_read" ELSE "h_done")
  /\ stale' = IF moving /\ i[t] < len THEN stale \cup {t} ELSE stale
  /\ UNCHANGED <<table, moving, len, tcd, i, misread, verdict, region, raced>>

\* Whether the next entry is found to hold the address: in freed memory, anything.
Hits(t) ==
  IF raced \/ t \in stale \/ table[i[t] + 1] = Unknown THEN BOOLEAN
  ELSE {table[i[t] + 1] = region[t]}

LookupRead(t) ==
  /\ pc[t] = "h_read"
  /\ \E hit \in Hits(t) :
       /\ verdict' = [verdict EXCEPT ![t] = hit]
       /\ pc' = [pc EXCEPT ![t] = IF hit \/ raced THEN "h_done" ELSE "h_len"]
  /\ i' = [i EXCEPT ![t] = @ + 1]
  /\ misread' = [misread EXCEPT ![t] = IF t \in stale THEN @ \cup {i[t] + 1} ELSE @]
  /\ stale' = stale \ {t}
  /\ UNCHANGED <<table, moving, len, tcd, region, raced>>

HandlerExit(t) ==
  /\ Goto(t, "h_done", "dead")
  /\ tcd' = None
  /\ i' = [i EXCEPT ![t] = 0]
  /\ misread' = [misread EXCEPT ![t] = {}]
  /\ verdict' = [verdict EXCEPT ![t] = FALSE]
  /\ region' = [region EXCEPT ![t] = None]
  /\ UNCHANGED <<table, moving, len, stale, raced>>
=============================================================================
