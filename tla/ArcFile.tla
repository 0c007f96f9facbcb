------------------------------- MODULE ArcFile -------------------------------
(***************************************************************************)
(* The .Z files of TempleOS: ExpandFile of src/tosz, with ArcCtrlNew,      *)
(* ArcEntryGet and ArcExpandBuf, on what CompressBuf of TempleOS writes    *)
(* (src/Compress.HC.Z, a compressed source: external here).  Both sides    *)
(* keep a tree of strings in a table of 2^MaxBits entries: an entry is its *)
(* parent (basecode) with one more byte (ch), new entries are taken one    *)
(* after the other while codes grow by a bit each time the table is full,  *)
(* and then from the leaves.  Nothing in the file says what the table is.  *)
(*                                                                         *)
(* A file is compressed and then expanded, one code or one entry at a      *)
(* time.  entry_used is left out: with one buffer, ArcEntryGet never finds *)
(* it clear; so is what is only for going on with a second buffer.         *)
(***************************************************************************)
EXTENDS Naturals, FiniteSets, FiniteSetsExt, SequencesExt

CONSTANTS
  MinBits,      \* min_bits: 7 or 8
  MaxBits,      \* ARC_MAX_BITS: 12
  ByteBits,     \* 8
  HeaderBytes,  \* sizeof(CArcCompress): 17
  MaxSize,      \* how long a file is (bounds the model)
  None

ASSUME ArcFileAssumption ==
  /\ MinBits \in Nat \ {0} /\ MaxBits \in Nat /\ MinBits < MaxBits
  /\ ByteBits \in Nat /\ ByteBits >= MinBits /\ HeaderBytes \in Nat /\ MaxSize \in Nat \ {0}
  /\ None \notin Nat

MinTableEntry == 2^MinBits
Chars == 0..MinTableEntry - 1
Entries == MinTableEntry..2^MaxBits - 1
Codes == Chars \cup Entries

VARIABLES
  size,   \* the size of the source
  input,  \* what has been read of it
  ones,   \* the positions of the bits of the body that are set
  body,   \* how many bytes the body has
  c,      \* the CArcCtrl
  code,   \* the local variables: basecode or lastcode,
  walk,   \*   the code that is spelt (code), and the one that was read (basecode)
  read,
  pos,    \* dst_pos of the compressor, src_pos of the expander
  stk,    \* stk_base up to stk_ptr
  out,    \* dst_buf up to dst_ptr
  pc

vars == <<size, input, ones, body, c, code, walk, read, pos, stk, out, pc>>

PCs == {"c_first", "c_get", "c_walk", "c_finish", "x_new", "x_first", "x_code", "x_spell",
        "stored", "done"}

-----------------------------------------------------------------------------
(* The table.                                                              *)

Leaves(k) == {i \in Entries : k.hash[i] = <<>>}

\* How far i is from free_index, going up and round.
Ahead(k, i) == IF i > k.free THEN i - k.free ELSE i - MinTableEntry + k.limit - k.free

NextLeaf(k) == CHOOSE i \in Leaves(k) : \A j \in Leaves(k) : Ahead(k, i) <= Ahead(k, j)

Unlink(q, i) == SelectSeq(q, LAMBDA j : j # i)

\* While codes can grow, entries are taken in order.
Grow(k) ==
  LET full == k.free + 1 = k.limit IN
  [k EXCEPT !.next = k.free, !.free = @ + 1,
            !.nextBits = IF full THEN @ + 1 ELSE @,
            !.limit = IF full THEN 2^(k.nextBits + 1) ELSE @]

\* Mutant: an entry that is taken again stays among the children of its parent.
ReuseLinked(k, i) == [k EXCEPT !.next = i, !.free = i]

Reuse(k, i) ==
  [k EXCEPT !.next = i, !.free = i,
            !.hash[k.basecode[i]] = SelectSeq(@, LAMBDA j : j # i)]

\* ArcEntryGet: the entry that was next is the one to define now, and another is next.
ArcEntryGet(k) ==
  LET got == [k EXCEPT !.cur = k.next, !.curBits = k.nextBits] IN
  IF k.nextBits < MaxBits THEN Grow(got) ELSE Reuse(got, NextLeaf(got))

ArcCtrlNew ==
  ArcEntryGet([basecode |-> [i \in Entries |-> 0], ch |-> [i \in Entries |-> 0],
               hash |-> [b \in Codes |-> <<>>], cur |-> None, next |-> None,
               curBits |-> 0, nextBits |-> MinBits + 1,
               free |-> MinTableEntry, limit |-> 2^(MinBits + 1)])

\* cur_entry becomes the string of the code b with ch after it.
Define(k, b, ch) ==
  [k EXCEPT !.basecode[k.cur] = b, !.ch[k.cur] = ch, !.hash[b] = <<k.cur>> \o @]

-----------------------------------------------------------------------------
(* The bits of the body, from the lowest of each code.                     *)

BFieldOrU32(at, v) == ones \cup {at + i : i \in {i \in 0..MaxBits - 1 : (v \div 2^i) % 2 = 1}}

BFieldExtU32(at, n) == SumSet({2^i : i \in {i \in 0..n - 1 : at + i \in ones}})

Init ==
  /\ size \in 1..MaxSize
  /\ input = <<>> /\ ones = {} /\ body = 0
  /\ c = ArcCtrlNew
  /\ code = 0 /\ walk = 0 /\ read = 0 /\ pos = 0
  /\ stk = <<>> /\ out = <<>>
  /\ pc = "c_first"

-----------------------------------------------------------------------------
(* CompressBuf.                                                            *)

Room == pos + c.curBits <= size * ByteBits

CompressFirst ==
  /\ pc = "c_first" /\ pc' = "c_get"
  /\ \E x \in Chars : input' = <<x>> /\ code' = x
  /\ UNCHANGED <<size, ones, body, c, walk, read, pos, stk, out>>

CompressGet ==
  /\ pc = "c_get"
  /\ IF Len(input) < size /\ Room
     THEN pc' = "c_walk" /\ c' = ArcEntryGet(c)
     ELSE pc' = "c_finish" /\ UNCHANGED c
  /\ UNCHANGED <<size, input, ones, body, code, walk, read, pos, stk, out>>

\* The first child of the entry with that byte.
Child(x) == SelectInSeq(c.hash[code], LAMBDA i : c.ch[i] = x)

CompressChar ==
  /\ pc = "c_walk" /\ Len(input) < size
  /\ \E x \in Chars :
       /\ input' = Append(input, x)
       /\ IF Child(x) # 0
          THEN code' = c.hash[code][Child(x)] /\ UNCHANGED <<ones, pos, c, pc>>
          ELSE /\ ones' = BFieldOrU32(pos, code) /\ pos' = pos + c.curBits
               /\ c' = Define(c, code, x)
               /\ code' = x
               /\ pc' = "c_get"
  /\ UNCHANGED <<size, body, walk, read, stk, out>>

CompressEnd ==
  /\ pc = "c_walk" /\ Len(input) = size
  /\ pc' = "c_finish"
  /\ UNCHANGED <<size, input, ones, body, c, code, walk, read, pos, stk, out>>

\* ArcFinishCompression; what does not get shorter is stored as it is (CT_NONE), and
\* ExpandBuf returns it as it is.
CompressFinish ==
  /\ pc = "c_finish"
  /\ IF Len(input) = size /\ Room
     THEN /\ ones' = BFieldOrU32(pos, code)
          /\ body' = (pos + c.nextBits + ByteBits - 1) \div ByteBits
          /\ pc' = "x_new" /\ UNCHANGED out
     ELSE /\ body' = size
          /\ pc' = "stored" /\ out' = input
          /\ UNCHANGED ones
  /\ UNCHANGED <<size, input, c, code, walk, read, pos, stk>>

-----------------------------------------------------------------------------
(* ExpandFile.                                                             *)

\* src_buf is the body, but compressed_size, of which src_size is made, counts the header too.
SrcSize == (HeaderBytes + body) * ByteBits

ExpandNew ==
  /\ pc = "x_new" /\ pc' = "x_first"
  /\ c' = ArcCtrlNew /\ pos' = 0
  /\ code' = 0
  /\ UNCHANGED <<size, input, ones, body, walk, read, stk, out>>

ExpandFirst ==
  LET v == BFieldExtU32(pos, c.nextBits) IN
  /\ pc = "x_first" /\ pc' = "x_code"
  /\ pos' = pos + c.nextBits
  /\ out' = <<v>> /\ code' = v /\ walk' = v
  /\ c' = ArcEntryGet(c)
  /\ UNCHANGED <<size, input, ones, body, read, stk>>

\* Mutant: a code that is still to be defined is looked up.
ExpandCodeAsIs(v) == stk' = stk /\ walk' = v

\* A code that is still to be defined is the last string with its own first byte after it.
StartSpelling(v) ==
  IF v = c.cur THEN stk' = Append(stk, walk) /\ walk' = code
               ELSE stk' = stk /\ walk' = v

\* Mutant: one code too many.
MoreWantedOff == Len(out) <= size /\ pos + c.nextBits <= SrcSize

MoreWanted == Len(out) < size /\ pos + c.nextBits <= SrcSize

ExpandCode ==
  /\ pc = "x_code" /\ MoreWanted
  /\ pc' = "x_spell"
  /\ pos' = pos + c.nextBits
  /\ read' = BFieldExtU32(pos, c.nextBits)
  /\ StartSpelling(read')
  /\ UNCHANGED <<size, input, ones, body, c, code, out>>

ExpandSpell ==
  /\ pc = "x_spell" /\ walk >= MinTableEntry
  /\ stk' = Append(stk, c.ch[walk])
  /\ walk' = c.basecode[walk]
  /\ UNCHANGED <<size, input, ones, body, c, code, read, pos, out, pc>>

\* walk is last_ch from here to the next code.
ExpandDefine ==
  /\ pc = "x_spell" /\ walk < MinTableEntry
  /\ pc' = "x_code"
  /\ c' = ArcEntryGet(Define(c, code, walk))
  /\ LET s == <<walk>> \o Reverse(stk)
         n == IF Len(s) <= size - Len(out) THEN Len(s) ELSE size - Len(out)
     IN  out' = out \o SubSeq(s, 1, n) /\ stk' = Reverse(SubSeq(s, n + 1, Len(s)))
  /\ code' = read
  /\ UNCHANGED <<size, input, ones, body, walk, read, pos>>

ExpandDone ==
  /\ pc = "x_code" /\ ~MoreWanted
  /\ pc' = "done"
  /\ UNCHANGED <<size, input, ones, body, c, code, walk, read, pos, stk, out>>

-----------------------------------------------------------------------------
Compress == CompressFirst \/ CompressGet \/ CompressChar \/ CompressEnd \/ CompressFinish

Expand == ExpandNew \/ ExpandFirst \/ ExpandCode \/ ExpandSpell \/ ExpandDefine \/ ExpandDone

Next == Compress \/ Expand

Spec == Init /\ [][Next]_vars

-----------------------------------------------------------------------------
(* Properties.                                                             *)

TypeOK ==
  /\ size \in 1..MaxSize /\ input \in Seq(Chars) /\ out \in Seq(Chars) /\ pc \in PCs
  /\ c.next \in Entries /\ c.cur \in Entries \cup {None}
  /\ c.nextBits \in MinBits + 1..MaxBits /\ c.curBits \in MinBits + 1..c.nextBits
  /\ code \in Codes /\ walk \in Codes /\ read \in Codes

\* What is expanded is what was compressed.
RoundTrip == pc \in {"stored", "done"} => out = input

\* The expander reads no bit after the body, though its limit is further away, and a string
\* fits on the stack of 2^MaxBits bytes, though entries are redefined while others are their
\* children.
InBounds ==
  /\ pc = "x_spell" => pos <= body * ByteBits
  /\ Len(stk) <= 2^MaxBits

Parent(i) == IF i \in Entries THEN c.basecode[i] ELSE i

\* The table stays a tree although entries are redefined in any order: the string of every
\* entry begins with a byte, the entry that is taken next is no one's child and has none, so
\* that no string changes when it is defined, and ArcEntryGet, which goes round the table
\* until it meets a leaf, will meet another.
TreeKept ==
  /\ \A i \in Entries :
       LET up[n \in 0..Cardinality(Entries)] == IF n = 0 THEN i ELSE Parent(up[n - 1])
       IN  up[Cardinality(Entries)] \in Chars
  /\ c.nextBits = MaxBits =>
       /\ Leaves(c) \ {c.next} # {}
       /\ c.hash[c.next] = <<>>
       /\ \A b \in Codes : ~Contains(c.hash[b], c.next)
=============================================================================
