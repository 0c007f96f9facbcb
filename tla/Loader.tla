------------------------------- MODULE Loader --------------------------------
(***************************************************************************)
(* How a TempleOS kernel becomes part of Lilith: load_kernel walks the     *)
(* patch table of the kernel's image (load_pass1, load_one_import), writes *)
(* its own code over kernel functions (kernel_patch_instruction,           *)
(* setup_syscall_trampolines), and then TempleOS walks the same table once *)
(* more (LoadKernel).  While TempleOS runs, LilithReplaceSyscall puts      *)
(* functions of Lilith2.HC in the place of others, whose callers may be    *)
(* bound already.  The compiler that writes the table, LoadKernel and the  *)
(* code that runs later are TempleOS's (CMain.HC.Z, KLoad.HC.Z): external. *)
(*                                                                         *)
(* A table is a sequence of cells: a type, a 32-bit number, a name of at   *)
(* most one character, its terminating 0, and what comes with the type.    *)
(* Memory outside of functions, heaps and alignment are left out.          *)
(***************************************************************************)
EXTENDS Naturals, FiniteSets, SequencesExt, FiniteSetsExt

CONSTANTS
  NumFuns,      \* how many functions the kernel has
  Base,         \* module_base
  FunLen,       \* how long each is
  JumpLen,      \* how long a jump is: 14 bytes
  HeapName,     \* the name of a global variable on the heap
  Outside,      \* a name that the kernel imports
  AbsSites,     \* where the kernel holds absolute addresses
  ImportSites,  \* where it holds the address of something imported
  CliAt,        \* where in a function a CLI may be
  Clis,         \* the functions whose CLI is patched
  Early,        \* the functions that setup_syscall_trampolines replaces
  MaxImports,   \* how many imports there are (bounds the model)
  MaxLate,      \* how many calls, declarations and replacements (bounds the model)
  None

Funs == 1..NumFuns                      \* the functions of the kernel: their names
Entry(f) == (f - 1) * FunLen            \* the offset of a function
Module == Base..Base + Entry(NumFuns + 1) - 1
Heads == {Entry(f) + k : f \in Funs, k \in 0..JumpLen - 1}
NewEntry(n) == Base + Entry(NumFuns + n)     \* a function of Lilith2.HC
NewHeads == {NewEntry(n) + k : n \in 1..MaxLate, k \in 0..JumpLen - 1}
HeapAddr == NewEntry(MaxLate + 1)       \* memory for a variable
LilithEntry(n) == HeapAddr + 2 + n      \* a function of the executable, above 4 GiB

ASSUME LoaderAssumption ==
  /\ NumFuns \in Nat /\ Base \in Nat /\ FunLen \in Nat /\ JumpLen \in 1..FunLen
  /\ HeapName \in Nat \ (Funs \cup {0}) /\ Outside \in Nat \ (Funs \cup {0, HeapName})
  /\ AbsSites \cup ImportSites \subseteq 0..Entry(NumFuns + 1) - 1
  /\ AbsSites \cap ImportSites = {} /\ ImportSites \cap Heads = {}
  /\ CliAt \in JumpLen..FunLen - 1
  /\ \A f \in Funs : Entry(f) + CliAt \notin AbsSites \cup ImportSites
  /\ Clis \cup Early \subseteq Funs
  /\ MaxImports \in Nat /\ MaxLate \in Nat

VARIABLES
  recs,     \* what the compiler has put into the table
  table,    \* the table, cell by cell
  cur,      \* where load_pass1 or load_one_import is in it
  first,    \* the local variable of load_one_import
  mem,      \* the code
  symbols,  \* Lilith's symbols: one bucket
  thash,    \* TempleOS's hash table: what is found first comes first
  calls,    \* the calls there are: names and the addresses they are bound to
  todo,     \* the functions load_kernel has still to patch
  late,     \* how many calls, declarations and replacements there have been
  walked,   \* history: where load_pass1 has found records
  meant,    \* history: for every name, where calls should end
  pc

vars == <<recs, table, cur, first, mem, symbols, thash, calls, todo, late, walked, meant, pc>>

PCs == {"pass1", "import", "instr", "jump", "kernel", "run", "exit", "segv"}

-----------------------------------------------------------------------------
(* The table.                                                              *)

IET_END == 0
Imports == 2..11
IET_REL_I32 == 8
Exports == 16..19
IET_REL32_EXPORT == 16
ImmExports == {17, 19}
IET_ABS_ADDR == 20
CodeHeaps == {21, 22}
Heaps == 21..24
IET_DATA_HEAP == 23
IET_MAIN == 25

Rec(etype, i, name, rest) == [etype |-> etype, i |-> i, name |-> name, rest |-> rest]

Cells(r) == <<r.etype, r.i>> \o (IF r.name = 0 THEN <<0>> ELSE <<r.name, 0>>) \o r.rest

\* CmpJoin: absolute addresses, heap variables, exports, the main function, imports; one
\* name for all the imports of it; zeros after the end.
AbsRecs ==
  {<<>>} \cup
  UNION {{<<Rec(IET_ABS_ADDR, n, 0, s)>> :
            s \in {s \in [1..n -> AbsSites] : \A j, k \in 1..n : s[j] = s[k] => j = k}} :
         n \in 1..Cardinality(AbsSites)}
HeapRecs == {<<>>} \cup {<<Rec(IET_DATA_HEAP, 1, n, <<8, 0, 0>>)>> : n \in {0, HeapName}}
ExportRecs ==
  {[k \in 1..n |-> Rec(IET_REL32_EXPORT, Entry(k), k, <<>>)] : n \in 0..NumFuns}
MainRecs == {<<>>, <<Rec(IET_MAIN, 0, 0, <<>>)>>}
ImportRecs ==
  UNION {{s \in [1..n -> {Rec(IET_REL_I32, a, x, <<>>) : a \in ImportSites,
                                                        x \in Funs \cup {0, Outside}}] :
            /\ n > 0 => s[1].name # 0
            /\ \A j, k \in 1..n : s[j].i = s[k].i => j = k} : n \in 0..MaxImports}

\* The cells of the first k records.
Encoded(rs) == LET e[k \in 0..Len(rs)] == IF k = 0 THEN <<>> ELSE e[k - 1] \o Cells(rs[k]) IN e

Encode(rs) == Encoded(rs)[Len(rs)] \o <<IET_END, 0, 0>>

\* Where the record k begins.
Start(k) == 1 + Len(Encoded(recs)[k - 1])

Init ==
  /\ \E a \in AbsRecs, h \in HeapRecs, e \in ExportRecs, m \in MainRecs, i \in ImportRecs :
       recs = a \o h \o e \o m \o i
  /\ table = Encode(recs)
  /\ cur = 1 /\ first = FALSE
  /\ mem = [a \in Module \cup NewHeads |->
              <<IF \E f \in Funs : a = Base + Entry(f) + CliAt THEN "cli" ELSE "code", 0>>]
  /\ symbols = <<>> /\ thash = <<>> /\ calls = {}
  /\ todo = Clis
  /\ late = 0 /\ walked = <<>>
  /\ meant = [f \in Funs |-> Base + Entry(f)]
  /\ pc = "pass1"

-----------------------------------------------------------------------------
(* Lilith's symbols.                                                       *)

HashGet(n) ==
  LET k == SelectInSeq(symbols, LAMBDA e : e.name = n) IN IF k = 0 THEN None ELSE symbols[k].val

\* Behind the first entry of the bucket.
HashPut(n, v) ==
  symbols' = IF symbols = <<>> THEN <<[name |-> n, val |-> v]>>
             ELSE <<Head(symbols), [name |-> n, val |-> v]>> \o Tail(symbols)

-----------------------------------------------------------------------------
(* load_pass1.                                                             *)

etype == table[cur]
num == table[cur + 1]
st_ptr == cur + 2

\* ((uint8_t *)st_ptr) - 5: back over the number, four bytes, and the type, one.
RecordOf(p) == p - 2

StrLen(p) == Min({n \in 0..Len(table) - p : table[p + n] = 0})
PastName == st_ptr + StrLen(st_ptr) + 1

\* The first n addresses after the name.
Listed(n) == {Base + table[PastName + j] : j \in 0..n - 1}

Handles(types) ==
  /\ pc = "pass1" /\ etype \in types
  /\ walked' = Append(walked, cur)

PassUnchanged == UNCHANGED <<recs, table, thash, calls, todo, late, meant>>

PassEnd ==
  /\ pc = "pass1" /\ etype = IET_END
  /\ pc' = "instr"
  /\ UNCHANGED <<cur, first, mem, symbols, walked>> /\ PassUnchanged

PassExport ==
  /\ Handles(Exports)
  /\ HashPut(table[st_ptr], IF etype \in ImmExports THEN num ELSE Base + num)
  /\ cur' = PastName
  /\ UNCHANGED <<first, mem, pc>> /\ PassUnchanged

\* Mutant: one address too many.
PassAbsOff ==
  /\ Handles({IET_ABS_ADDR})
  /\ mem' = [a \in DOMAIN mem |-> IF a \in Listed(num + 1) THEN <<"code", mem[a][2] + 1>> ELSE mem[a]]
  /\ cur' = PastName + num
  /\ UNCHANGED <<first, symbols, pc>> /\ PassUnchanged

PassAbs ==
  /\ Handles({IET_ABS_ADDR})
  /\ mem' = [a \in DOMAIN mem |-> IF a \in Listed(num) THEN <<"code", mem[a][2] + 1>> ELSE mem[a]]
  /\ cur' = PastName + num
  /\ UNCHANGED <<first, symbols, pc>> /\ PassUnchanged

\* The size has 4 or 8 bytes; the variable gets memory, but what refers to it is left alone.
PassHeap ==
  /\ Handles(Heaps)
  /\ IF table[st_ptr] # 0 THEN HashPut(table[st_ptr], HeapAddr) ELSE UNCHANGED symbols
  /\ cur' = PastName + (IF etype \in CodeHeaps THEN 1 ELSE 2) + num
  /\ UNCHANGED <<first, mem, pc>> /\ PassUnchanged

PassMain ==
  /\ Handles({IET_MAIN})
  /\ cur' = PastName
  /\ UNCHANGED <<first, mem, symbols, pc>> /\ PassUnchanged

\* load_one_import is called at the start of the record, which it reads again.
PassImport ==
  /\ pc = "pass1" /\ etype \in Imports
  /\ pc' = "import" /\ first' = TRUE
  /\ cur' = RecordOf(st_ptr)
  /\ UNCHANGED <<mem, symbols, walked>> /\ PassUnchanged

\* Mutant: the record that ends the import is taken to have been read.
ImportNextRead ==
  /\ pc = "import" /\ etype # IET_END /\ table[st_ptr] # 0 /\ ~first
  /\ pc' = "pass1" /\ cur' = st_ptr
  /\ UNCHANGED <<first, mem, symbols, walked>> /\ PassUnchanged

\* The next name ends the import; load_pass1 goes on with its record.
ImportNext ==
  /\ pc = "import" /\ etype # IET_END /\ table[st_ptr] # 0 /\ ~first
  /\ pc' = "pass1" /\ cur' = RecordOf(st_ptr)
  /\ UNCHANGED <<first, mem, symbols, walked>> /\ PassUnchanged

\* Whatever its type, a record with no name belongs to the import.
ImportRecord ==
  /\ pc = "import" /\ etype # IET_END /\ (table[st_ptr] # 0 => first)
  /\ first' = (first /\ table[st_ptr] = 0)
  /\ cur' = PastName
  /\ walked' = Append(walked, cur)
  /\ UNCHANGED <<mem, symbols, pc>> /\ PassUnchanged

\* load_pass1 goes on before the end, with the 0 of the last name.
ImportEnd ==
  /\ pc = "import" /\ etype = IET_END
  /\ pc' = "pass1" /\ cur' = cur - 1
  /\ UNCHANGED <<first, mem, symbols, walked>> /\ PassUnchanged

LoadPass1 ==
  \/ PassEnd \/ PassExport \/ PassAbs \/ PassHeap \/ PassMain \/ PassImport
  \/ ImportNext \/ ImportRecord \/ ImportEnd

-----------------------------------------------------------------------------
(* The patches of load_kernel.                                             *)

PatchUnchanged == UNCHANGED <<recs, table, cur, first, symbols, thash, calls, late, walked>>

\* hash_get's NULL is followed; no signal_handler is there yet.
KernelPatchInstruction ==
  /\ pc = "instr" /\ todo # {}
  /\ LET v == HashGet(Min(todo)) IN
     IF v = None THEN pc' = "segv" /\ UNCHANGED <<mem, todo>>
     ELSE /\ mem' = [mem EXCEPT ![v + CliAt] = IF @[1] = "cli" THEN <<"nop", 0>> ELSE @]
          /\ todo' = todo \ {Min(todo)} /\ UNCHANGED pc
  /\ UNCHANGED meant /\ PatchUnchanged

SetupTrampolines ==
  /\ pc = "instr" /\ todo = {}
  /\ pc' = "jump" /\ todo' = Early
  /\ UNCHANGED <<mem, meant>> /\ PatchUnchanged

\* write_trampoline_jmp
WriteJump(at, dest) ==
  mem' = [a \in DOMAIN mem |-> IF a \in at..at + JumpLen - 1 THEN <<"jmp", dest>> ELSE mem[a]]

TrampolineEarly ==
  /\ pc = "jump" /\ todo # {}
  /\ LET f == Min(todo) IN
     IF HashGet(f) = None THEN pc' = "exit" /\ UNCHANGED <<mem, todo, meant>>
     ELSE /\ WriteJump(HashGet(f), LilithEntry(f))
          /\ meant' = [meant EXCEPT ![f] = LilithEntry(f)]
          /\ todo' = todo \ {Min(todo)} /\ UNCHANGED pc
  /\ PatchUnchanged

LoadKernelReturns ==
  /\ pc = "jump" /\ todo = {}
  /\ pc' = "kernel"
  /\ UNCHANGED <<mem, todo, meant>> /\ PatchUnchanged

-----------------------------------------------------------------------------
(* TempleOS.                                                               *)

Exported == {r \in ToSet(recs) : r.etype \in Exports}

\* The name that the import k of the table is of.
NameOf(k) == recs[Max({j \in 1..k : recs[j].name # 0})].name

\* What the first k records have added to the hash table, the last in front; a variable on
\* the heap gets memory once more.
Added ==
  LET entry(r) == [name |-> r.name,
                   val |-> IF r.etype \in Exports THEN Base + r.i ELSE HeapAddr + 1]
      t[k \in 0..Len(recs)] ==
        IF k = 0 THEN <<>>
        ELSE IF recs[k].etype \in Exports \cup Heaps /\ recs[k].name # 0
             THEN <<entry(recs[k])>> \o t[k - 1] ELSE t[k - 1]
  IN  t

\* LoadKernel: imports are bound to the exports of that name; absolute addresses are passed over.
LoadKernel ==
  LET bound == {k \in DOMAIN recs : /\ recs[k].etype \in Imports
                                    /\ NameOf(k) \in {r.name : r \in Exported}}
      callOf(k) == <<NameOf(k), Base + Entry(NameOf(k))>>
  IN
  /\ pc = "kernel" /\ pc' = "run"
  /\ thash' = Added[Len(recs)]
  /\ mem' = [a \in DOMAIN mem |->
               IF \E k \in bound : a = Base + recs[k].i
               THEN <<"call", callOf(CHOOSE k \in bound : a = Base + recs[k].i)[2]>> ELSE mem[a]]
  /\ calls' = {callOf(k) : k \in bound} \cup {<<r.name, Base + r.i>> : r \in Exported}
  /\ UNCHANGED <<recs, table, cur, first, symbols, todo, late, walked, meant>>

\* The place of what HashFind and thiter find first.
Found(n) == SelectInSeq(thash, LAMBDA e : e.name = n)

\* find_entry_point: Lilith's symbols come first.
FindEntryPoint(n) ==
  IF HashGet(n) # None THEN HashGet(n) ELSE IF Found(n) # 0 THEN thash[Found(n)].val ELSE None

RunUnchanged == UNCHANGED <<recs, table, cur, first, symbols, todo, walked>>

\* A function is declared once more, at the address that it has.
Declare(n) ==
  /\ pc = "run" /\ late < MaxLate /\ late' = late + 1
  /\ Found(n) # 0
  /\ thash' = <<thash[Found(n)]>> \o thash
  /\ UNCHANGED <<mem, calls, meant, pc>> /\ RunUnchanged

\* A call of it is compiled.
Bind(n) ==
  /\ pc = "run" /\ late < MaxLate /\ late' = late + 1
  /\ Found(n) # 0
  /\ calls' = calls \cup {<<n, thash[Found(n)].val>>}
  /\ UNCHANGED <<mem, thash, meant, pc>> /\ RunUnchanged

\* Mutant: only calls to come are changed.
TrampolineTable(n, dest) ==
  /\ UNCHANGED mem
  /\ thash' = [thash EXCEPT ![Found(n)].val = dest]

\* trampoline_kernel_patch with a task; an address below 4 GiB fits all calls to come.
Trampoline(n, dest) ==
  /\ WriteJump(thash[Found(n)].val, dest)
  /\ thash' = IF dest < LilithEntry(0) THEN [thash EXCEPT ![Found(n)].val = dest] ELSE thash

\* LilithReplaceSyscall, and main; the new function, if it is in TempleOS's memory, is code
\* that may be replaced in turn.
ReplaceSyscall(n) ==
  /\ pc = "run" /\ late < MaxLate /\ late' = late + 1
  /\ IF Found(n) = 0 THEN pc' = "exit" /\ UNCHANGED <<mem, thash, meant>>
     ELSE \E dest \in {NewEntry(late'), LilithEntry(NumFuns + late')} :
            /\ Trampoline(n, dest)
            /\ meant' = [meant EXCEPT ![n] = dest]
            /\ UNCHANGED pc
  /\ UNCHANGED calls /\ RunUnchanged

Next ==
  \/ LoadPass1
  \/ KernelPatchInstruction \/ SetupTrampolines \/ TrampolineEarly \/ LoadKernelReturns
  \/ LoadKernel
  \/ \E n \in Funs : Declare(n) \/ Bind(n)
  \/ \E n \in Funs \cup {Outside} : ReplaceSyscall(n)

Spec == Init /\ [][Next]_vars

-----------------------------------------------------------------------------
(* Properties.                                                             *)

\* load_pass1 and load_one_import, which hand each other their place in the table by going
\* back over bytes, find the start of every record, in order, and stop after the last.
WalkedOnce ==
  /\ \A k \in DOMAIN walked : k \in DOMAIN recs /\ walked[k] = Start(k)
  /\ pc \notin {"pass1", "import"} => Len(walked) = Len(recs)

AbsAddresses ==
  UNION {{Base + a : a \in ToSet(r.rest)} : r \in {r \in ToSet(recs) : r.etype = IET_ABS_ADDR}}

\* Lilith and TempleOS both walk the table: an absolute address is relocated by one of
\* them, before any jump is written over it, and nothing else is relocated.
RelocatedOnce ==
  pc \notin {"pass1", "import"} =>
    \A a \in DOMAIN mem :
      mem[a][1] = "code" => mem[a][2] = IF a \in AbsAddresses THEN 1 ELSE 0

\* Where a call of an address ends: jumps are followed, if they are whole.
IsJump(a) ==
  /\ a \in DOMAIN mem /\ mem[a][1] = "jmp"
  /\ \A k \in 1..JumpLen - 1 : mem[a + k] = mem[a]

Reached(a) ==
  LET at[n \in 0..MaxLate + 1] ==
        IF n = 0 THEN a ELSE IF IsJump(at[n - 1]) THEN mem[at[n - 1]][2] ELSE at[n - 1]
  IN  at[MaxLate + 1]

\* A function that has been replaced is never reached again, whenever the caller was bound:
\* by the kernel itself, by an import of the kernel, by a declaration before or after, or by
\* name from Lilith (find_entry_point); and every call ends in what replaced it last.
CallsReach ==
  pc = "run" =>
    /\ \A call \in calls : Reached(call[2]) = meant[call[1]]
    /\ \A e \in ToSet(thash) : e.name \in Funs => Reached(e.val) = meant[e.name]
    /\ \A f \in Funs : FindEntryPoint(f) # None => Reached(FindEntryPoint(f)) = meant[f]
=============================================================================
