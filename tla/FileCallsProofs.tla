--------------------------- MODULE FileCallsProofs ---------------------------
(***************************************************************************)
(* For any number of tasks, any files and any calls: a path has one        *)
(* cluster, by intern_path under its mutex against all that runs beside    *)
(* it; and what was written is what is read.                               *)
(***************************************************************************)
EXTENDS FileCalls, TLAPS, SequenceTheorems, WellFoundedInduction

Fields == {"dir", "name", "layer", "slashes", "size", "pos", "buf", "paths", "clus", "open"}

\* What the steps rely on of the shape of the variables; what a path is does not matter.
Shape ==
  /\ DOMAIN pc = Tasks
  /\ DOMAIN call = Tasks /\ \A t \in Tasks : DOMAIN call[t] = Fields
  /\ \E T : table \in Seq(T)

Inside == {"i_get", "i_put", "i_unlock"}
MutexInv == \A t \in Tasks : pc[t] \in Inside => mutex = t

\* An entry is a path and the cluster it was given, and clusters count the entries.
Whole == \A k \in DOMAIN table : table[k] = [path |-> table[k].path, clus |-> table[k].clus]
Counted == \A k \in DOMAIN table : table[k].clus \in 1..Len(table)
Distinct ==
  \A j, k \in DOMAIN table :
    table[j].path = table[k].path \/ table[j].clus = table[k].clus => j = k

\* Between hash_get and hash_put the string is in no entry: the mutex keeps others out.
Missing ==
  \A t \in Tasks : pc[t] = "i_put" =>
    \A k \in DOMAIN table : table[k].path # Head(call[t].paths)
Found ==
  \A t \in Tasks : pc[t] = "i_unlock" =>
    \E k \in DOMAIN table : table[k].path = Head(call[t].paths) /\ table[k].clus = call[t].clus

IInv == Shape /\ MutexInv /\ Whole /\ Counted /\ Distinct /\ Missing /\ Found

\* A step of t changes its own program counter and call record, and keeps their shape.
OwnPc(t) == DOMAIN pc' = Tasks /\ \A u \in Tasks \ {t} : pc'[u] = pc[u]
OwnCall(t) ==
  /\ DOMAIN call' = Tasks /\ \A u \in Tasks \ {t} : call'[u] = call[u]
  /\ DOMAIN call'[t] = Fields

\* What a step of t does that is outside of the mutex.
Outside(t) == OwnPc(t) /\ pc'[t] \notin Inside /\ OwnCall(t) /\ table' = table

LEMMA NoCallFields == DOMAIN NoCall = Fields
BY DEF NoCall, Fields

\* A set of naturals that is not empty has a least member.
LEMMA LeastIs ==
  ASSUME NEW S \in SUBSET Nat, S # {}
  PROVE  Min(S) \in S
<1>1. \E x \in S : \A y \in S : ~(<<y, x>> \in OpToRel(<, Nat))
  BY NatLessThanWellFounded, WFMin
<1>2. PICK x \in S : \A y \in S : ~(y < x)
  BY <1>1 DEF OpToRel
<1>3. \A y \in S : x <= y
  BY <1>2
<1> QED
  BY <1>3 DEF Min

\* hash_get finds an entry of the path, or there is none.
LEMMA InternedIs ==
  ASSUME NEW p, NEW T, table \in Seq(T)
  PROVE  \/ Interned(p) = 0 /\ \A k \in DOMAIN table : table[k].path # p
         \/ Interned(p) # 0 /\ Interned(p) \in DOMAIN table /\ table[Interned(p)].path = p
<1> DEFINE I == {k \in 1..Len(table) : table[k].path = p}
<1>1. DOMAIN table = 1..Len(table) /\ Len(table) \in Nat
  OBVIOUS
<1>2. Interned(p) = IF I # {} THEN Min(I) ELSE 0
  BY DEF Interned, SelectInSeq
<1>3. CASE I = {}
  BY <1>1, <1>2, <1>3
<1>4. CASE I # {}
  <2>1. I \in SUBSET Nat
    BY <1>1
  <2>2. Min(I) \in I
    BY <1>4, <2>1, LeastIs
  <2> QED
    BY <1>1, <1>2, <1>4, <2>2
<1> QED
  BY <1>3, <1>4


LEMMA GotoOwn ==
  ASSUME Shape, NEW t \in Tasks, NEW from, NEW to, Goto(t, from, to)
  PROVE  OwnPc(t) /\ pc'[t] = to
BY DEF Shape, OwnPc, Goto

LEMMA SamePc ==
  ASSUME Shape, NEW t \in Tasks, UNCHANGED pc
  PROVE  OwnPc(t) /\ pc'[t] = pc[t]
BY DEF Shape, OwnPc

Writes(t, c) == call' = [call EXCEPT ![t] = c] /\ DOMAIN c = Fields

LEMMA WriteOwn ==
  ASSUME Shape, NEW t \in Tasks, NEW c, Writes(t, c)
  PROVE  OwnCall(t) /\ call'[t] = c
BY DEF Shape, OwnCall, Writes

LEMMA SameCall == ASSUME Shape, NEW t \in Tasks, UNCHANGED call PROVE OwnCall(t)
BY DEF Shape, OwnCall

LEMMA ReturnOut ==
  ASSUME Shape, NEW t \in Tasks, NEW from, Return(t, from), UNCHANGED table
  PROVE  Outside(t)
<1>1. Writes(t, NoCall)
  BY NoCallFields DEF Return, Writes
<1>2. OwnPc(t) /\ pc'[t] = "idle"
  BY GotoOwn DEF Return
<1> QED
  BY <1>1, <1>2, WriteOwn DEF Outside, Inside

LEMMA CallOut ==
  ASSUME Shape, NEW t \in Tasks, NEW op, NEW to, to \notin Inside, NEW args,
         DOMAIN args = Fields, Call(t, op, to, args), UNCHANGED table
  PROVE  Outside(t)
<1>1. Writes(t, args)
  BY DEF Call, Writes
<1>2. OwnPc(t) /\ pc'[t] = to
  BY GotoOwn DEF Call
<1> QED
  BY <1>1, <1>2, WriteOwn DEF Outside

LEMMA NextLayerOut ==
  ASSUME Shape, NEW t \in Tasks, NEW from, NextLayer(t, from), UNCHANGED table
  PROVE  Outside(t)
<1>1. CASE call[t].layer = "root"
  <2>1. OwnPc(t) /\ pc'[t] = "r_stat"
    BY <1>1, GotoOwn DEF NextLayer
  <2>2. OwnCall(t)
    BY <1>1 DEF NextLayer, Shape, OwnCall
  <2> QED
    BY <2>1, <2>2 DEF Outside, Inside
<1>2. CASE call[t].layer # "root"
  BY <1>2, ReturnOut DEF NextLayer
<1> QED
  BY <1>1, <1>2

\* All that is not intern_path leaves the table alone and stays out of the mutex.
LEMMA OutsideStep ==
  ASSUME Shape, NEW t \in Tasks, Calling(t) \/ Reading(t) \/ Writing(t) \/ Finding(t)
  PROVE  Outside(t)
<1>1. CASE ReadMissing(t)
  BY <1>1, NextLayerOut DEF ReadMissing, interned
<1>2. CASE ReadStat(t)
  <2>1. OwnPc(t) /\ pc'[t] = "r_open"
    BY <1>2, GotoOwn DEF ReadStat
  <2>2. OwnCall(t)
    BY <1>2 DEF ReadStat, Shape, OwnCall
  <2> QED
    BY <1>2, <2>1, <2>2 DEF ReadStat, interned, disk, Outside, Inside
<1>3. CASE ReadOpen(t)
  <2>1. OwnPc(t) /\ pc'[t] = "r_read"
    BY <1>3, GotoOwn DEF ReadOpen
  <2>2. OwnCall(t)
    BY <1>3, SameCall DEF ReadOpen, interned
  <2> QED
    BY <1>3, <2>1, <2>2 DEF ReadOpen, interned, disk, Outside, Inside
<1>4. CASE ReadOpenFails(t)
  BY <1>4, NextLayerOut DEF ReadOpenFails, interned
<1>5. CASE ReadDirectory(t)
  BY <1>5, NextLayerOut DEF ReadDirectory, interned
<1>6. CASE ReadBlock(t)
  <2>1. OwnPc(t) /\ pc'[t] = "r_read"
    BY <1>6, SamePc DEF ReadBlock
  <2>2. OwnCall(t)
    BY <1>6 DEF ReadBlock, Shape, OwnCall
  <2> QED
    BY <1>6, <2>1, <2>2 DEF ReadBlock, interned, disk, Outside, Inside
<1>7. CASE ReadEnd(t)
  <2>1. OwnPc(t) /\ pc'[t] = "r_done"
    BY <1>7, GotoOwn DEF ReadEnd
  <2>2. OwnCall(t)
    BY <1>7, SameCall DEF ReadEnd, interned
  <2> QED
    BY <1>7, <2>1, <2>2 DEF ReadEnd, interned, disk, Outside, Inside
<1>8. CASE ReadReturn(t)
  BY <1>8, ReturnOut DEF ReadReturn, interned
<1>9. CASE WriteStat(t)
  <2>1. OwnPc(t) /\ pc'[t] = "w_open"
    BY <1>9, GotoOwn DEF WriteStat
  <2>2. OwnCall(t)
    BY <1>9 DEF WriteStat, Shape, OwnCall
  <2> QED
    BY <1>9, <2>1, <2>2 DEF WriteStat, interned, disk, Outside, Inside
<1>10. CASE WriteOpen(t)
  <2>1. OwnPc(t) /\ pc'[t] = "w_write"
    BY <1>10, GotoOwn DEF WriteOpen
  <2>2. OwnCall(t)
    BY <1>10, SameCall DEF WriteOpen, interned
  <2> QED
    BY <1>10, <2>1, <2>2 DEF WriteOpen, interned, disk, Outside, Inside
<1>11. CASE WriteOpenFails(t)
  BY <1>11, ReturnOut DEF WriteOpenFails, interned
<1>12. CASE WriteBlock(t)
  <2>1. OwnPc(t) /\ pc'[t] = "w_write"
    BY <1>12, SamePc DEF WriteBlock
  <2>2. OwnCall(t)
    BY <1>12 DEF WriteBlock, Shape, OwnCall
  <2> QED
    BY <1>12, <2>1, <2>2 DEF WriteBlock, interned, disk, Outside, Inside
<1>13. CASE WriteFails(t)
  BY <1>13, ReturnOut DEF WriteFails, interned
<1>14. CASE WriteDone(t)
  <2>1. OwnPc(t) /\ pc'[t] = "i_lock"
    BY <1>14, GotoOwn DEF WriteDone
  <2>2. OwnCall(t)
    BY <1>14 DEF WriteDone, Shape, OwnCall
  <2> QED
    BY <1>14, <2>1, <2>2 DEF WriteDone, interned, disk, Outside, Inside
<1>15. CASE FindBuiltin(t) /\ UNCHANGED interned
  <2>1. OwnPc(t) /\ pc'[t] = "i_lock"
    BY <1>15, GotoOwn DEF FindBuiltin
  <2>2. OwnCall(t)
    BY <1>15 DEF FindBuiltin, Shape, OwnCall
  <2> QED
    BY <1>15, <2>1, <2>2 DEF FindBuiltin, interned, disk, Outside, Inside
<1>16. CASE FindEntry(t) /\ UNCHANGED interned
  <2>1. OwnPc(t) /\ pc'[t] = "i_lock"
    BY <1>16, GotoOwn DEF FindEntry
  <2>2. OwnCall(t)
    BY <1>16 DEF FindEntry, Shape, OwnCall
  <2> QED
    BY <1>16, <2>1, <2>2 DEF FindEntry, interned, disk, Outside, Inside
<1>17. CASE FindMissing(t) /\ UNCHANGED interned
  <2>1. CASE Return(t, "f_find")
    BY <1>17, <2>1, ReturnOut DEF interned
  <2>2. CASE ~Return(t, "f_find")
    <3>1. OwnPc(t) /\ pc'[t] = "f_find"
      BY <1>17, <2>2, SamePc DEF FindMissing
    <3>2. OwnCall(t)
      BY <1>17, <2>2 DEF FindMissing, Shape, OwnCall
    <3> QED
      BY <1>17, <3>1, <3>2 DEF interned, Outside, Inside
  <2> QED
    BY <2>1, <2>2
<1>18. CASE FileRead(t)
  <2>1. PICK d \in Cwds, n \in Names \cup Dirs :
          Call(t, "read", "r_stat", [NoCall EXCEPT !.dir = d, !.name = n, !.layer = FirstLayer])
    BY <1>18 DEF FileRead
  <2>2. DOMAIN [NoCall EXCEPT !.dir = d, !.name = n, !.layer = FirstLayer] = Fields
    BY NoCallFields
  <2> QED
    BY <1>18, <2>1, <2>2, CallOut DEF FileRead, interned, Inside
<1>19. CASE FileWrite(t)
  <2>1. PICK d \in Cwds, n \in Written, size \in 1..2 :
          Call(t, "write", "w_stat",
               [NoCall EXCEPT !.dir = d, !.name = n, !.layer = "host", !.size = size,
                              !.buf = [k \in 1..size |-> calls + 3]])
    BY <1>19 DEF FileWrite
  <2>2. DOMAIN [NoCall EXCEPT !.dir = d, !.name = n, !.layer = "host", !.size = size,
                              !.buf = [k \in 1..size |-> calls + 3]] = Fields
    BY NoCallFields
  <2> QED
    BY <1>19, <2>1, <2>2, CallOut DEF FileWrite, interned, Inside
<1>20. CASE MkDir(t)
  <2>1. OwnPc(t) /\ pc'[t] = "idle"
    BY <1>20, SamePc DEF MkDir
  <2> QED
    BY <1>20, <2>1, SameCall DEF MkDir, interned, Outside, Inside
<1>21. CASE FileFind(t) /\ UNCHANGED interned
  <2>1. PICK args : DOMAIN args = Fields /\ Call(t, "find", "f_find", args)
    BY <1>21, NoCallFields DEF FileFind
  <2> QED
    BY <1>21, <2>1, CallOut DEF interned, Inside
<1>22. CASE FilesFind(t) /\ UNCHANGED interned
  <2>1. PICK args : DOMAIN args = Fields /\ Call(t, "list", "i_lock", args)
    BY <1>22, NoCallFields DEF FilesFind
  <2> QED
    BY <1>22, <2>1, CallOut DEF interned, Inside
<1> QED
  BY <1>1, <1>2, <1>3, <1>4, <1>5, <1>6, <1>7, <1>8, <1>9, <1>10, <1>11, <1>12, <1>13, <1>14,
     <1>15, <1>16, <1>17, <1>18, <1>19, <1>20, <1>21, <1>22
     DEF Calling, Reading, Writing, Finding

\* What the others rely on is left alone by a step outside of the mutex.
LEMMA OutsideKeeps ==
  ASSUME IInv, NEW t \in Tasks, Outside(t), mutex' = mutex
  PROVE  IInv'
<1> USE DEF IInv, Outside, OwnPc, OwnCall
<1>1. Shape'
  BY DEF Shape
<1>2. MutexInv'
  BY DEF MutexInv, Shape
<1>3. Whole' /\ Counted' /\ Distinct'
  BY DEF Whole, Counted, Distinct
<1>4. Missing' /\ Found'
  BY DEF Missing, Found, Inside
<1> QED
  BY <1>1, <1>2, <1>3, <1>4

LEMMA LockKeeps == ASSUME IInv, NEW t \in Tasks, InternLock(t) PROVE IInv'
<1>1. OwnPc(t) /\ pc'[t] = "i_get" /\ OwnCall(t) /\ UNCHANGED <<table, call>>
  BY GotoOwn, SameCall DEF InternLock, IInv
<1> USE <1>1 DEF IInv, OwnPc, OwnCall
<1>2. Shape'
  BY DEF Shape
<1>3. MutexInv'
  BY FileCallsAssumption DEF MutexInv, Inside, InternLock
<1>4. Whole' /\ Counted' /\ Distinct'
  BY DEF Whole, Counted, Distinct
<1>5. Missing' /\ Found'
  BY DEF Missing, Found
<1> QED
  BY <1>2, <1>3, <1>4, <1>5

LEMMA GetKeeps == ASSUME IInv, NEW t \in Tasks, InternGet(t) PROVE IInv'
<1> DEFINE k == Interned(Head(call[t].paths))
<1>1. OwnPc(t) /\ pc'[t] = IF k = 0 THEN "i_put" ELSE "i_unlock"
  BY GotoOwn DEF InternGet, IInv
<1>2. OwnCall(t) /\ call'[t].paths = call[t].paths
      /\ call'[t].clus = (IF k = 0 THEN 0 ELSE table[k].clus)
  BY DEF InternGet, IInv, Shape, OwnCall, Fields
<1>3. UNCHANGED <<table, mutex>> /\ pc[t] = "i_get"
  BY DEF InternGet, interned, Goto
<1>4. \/ k = 0 /\ \A n \in DOMAIN table : table[n].path # Head(call[t].paths)
      \/ k # 0 /\ k \in DOMAIN table /\ table[k].path = Head(call[t].paths)
  BY InternedIs DEF IInv, Shape
<1> HIDE DEF k
<1>5. Shape'
  BY <1>1, <1>2, <1>3 DEF IInv, Shape, OwnPc, OwnCall
<1>6. MutexInv'
  BY <1>1, <1>3 DEF IInv, MutexInv, OwnPc, Inside
<1>7. Whole' /\ Counted' /\ Distinct'
  BY <1>3 DEF IInv, Whole, Counted, Distinct
<1>8. Missing'
  BY <1>1, <1>2, <1>3, <1>4 DEF IInv, Missing, OwnPc, OwnCall
<1>9. Found'
  BY <1>1, <1>2, <1>3, <1>4 DEF IInv, Found, OwnPc, OwnCall
<1> QED
  BY <1>5, <1>6, <1>7, <1>8, <1>9 DEF IInv

\* The new entry is the second one, or the first if there was none.
LEMMA TableAfter ==
  ASSUME NEW T, table \in Seq(T), NEW e,
         table' = IF table = <<>> THEN <<e>> ELSE <<Head(table), e>> \o Tail(table)
  PROVE  /\ table' \in Seq(T \cup {e}) /\ Len(table') = Len(table) + 1
         /\ \E n \in DOMAIN table' :
              /\ table'[n] = e
              /\ \A m \in DOMAIN table' \ {n} :
                   \E k \in DOMAIN table : table'[m] = table[k] /\ m = IF k < n THEN k ELSE k + 1
              /\ \A k \in DOMAIN table : table'[IF k < n THEN k ELSE k + 1] = table[k]
<1>1. CASE table = <<>>
  BY <1>1
<1>2. CASE table # <<>>
  <2>1. Len(table) \in Nat /\ Len(table) >= 1 /\ DOMAIN table = 1..Len(table)
    BY <1>2
  <2>2. table' \in Seq(T \cup {e}) /\ Len(table') = Len(table) + 1
    BY <1>2, <2>1
  <2>3. table'[1] = table[1] /\ table'[2] = e
    BY <1>2, <2>1
  <2>4. \A m \in 3..Len(table) + 1 : table'[m] = table[m - 1]
    BY <1>2, <2>1
  <2>5. DOMAIN table' = 1..Len(table) + 1 /\ 2 \in DOMAIN table'
    BY <2>1, <2>2
  <2>6. \A m \in DOMAIN table' \ {2} :
          \E k \in DOMAIN table : table'[m] = table[k] /\ m = IF k < 2 THEN k ELSE k + 1
    <3> TAKE m \in DOMAIN table' \ {2}
    <3>1. CASE m = 1
      BY <2>1, <2>3, <3>1
    <3>2. CASE m # 1
      <4>1. m \in 3..Len(table) + 1 /\ m - 1 \in DOMAIN table /\ ~(m - 1 < 2) /\ (m - 1) + 1 = m
        BY <2>1, <2>5, <3>2
      <4> QED
        BY <2>4, <4>1
    <3> QED
      BY <3>1, <3>2
  <2>7. \A k \in DOMAIN table : table'[IF k < 2 THEN k ELSE k + 1] = table[k]
    <3> TAKE k \in DOMAIN table
    <3>1. CASE k = 1
      BY <2>3, <3>1
    <3>2. CASE k # 1
      <4>1. k + 1 \in 3..Len(table) + 1 /\ (k + 1) - 1 = k /\ ~(k < 2)
        BY <2>1, <3>2
      <4> QED
        BY <2>4, <4>1
    <3> QED
      BY <3>1, <3>2
  <2> QED
    BY <2>2, <2>3, <2>5, <2>6, <2>7
<1> QED
  BY <1>1, <1>2

LEMMA PutKeeps == ASSUME IInv, NEW t \in Tasks, InternPut(t) PROVE IInv'
<1> DEFINE e == [path |-> Head(call[t].paths), clus |-> Len(table) + 1]
<1>1. PICK T : table \in Seq(T)
  BY DEF IInv, Shape
<1>2. PICK n \in DOMAIN table' :
        /\ table'[n] = e
        /\ \A m \in DOMAIN table' \ {n} :
             \E k \in DOMAIN table : table'[m] = table[k] /\ m = IF k < n THEN k ELSE k + 1
        /\ \A k \in DOMAIN table : table'[IF k < n THEN k ELSE k + 1] = table[k]
  <2>1. table' = IF table = <<>> THEN <<e>> ELSE <<Head(table), e>> \o Tail(table)
    BY DEF InternPut
  <2> HIDE DEF e
  <2> QED
    BY <1>1, <2>1, TableAfter
<1>3. (\E S : table' \in Seq(S)) /\ Len(table') = Len(table) + 1
  BY <1>1, TableAfter DEF InternPut
<1>4. DOMAIN table = 1..Len(table) /\ DOMAIN table' = 1..Len(table) + 1 /\ Len(table) \in Nat
  BY <1>1, <1>3
<1>5. OwnPc(t) /\ pc'[t] = "i_unlock" /\ pc[t] = "i_put" /\ mutex' = mutex
  BY GotoOwn DEF InternPut, IInv, Goto
<1>6. OwnCall(t) /\ call'[t].paths = call[t].paths /\ call'[t].clus = Len(table) + 1
  BY DEF InternPut, IInv, Shape, OwnCall, Fields
<1>7. e.path = Head(call[t].paths) /\ e.clus = Len(table) + 1 /\ e = [path |-> e.path,
       clus |-> e.clus]
  OBVIOUS
<1> HIDE DEF e
<1>8. \A k \in DOMAIN table : table[k].path # e.path /\ table[k].clus # e.clus
  BY <1>4, <1>5, <1>7 DEF IInv, Missing, Counted
<1>9. Shape'
  BY <1>3, <1>5, <1>6 DEF IInv, Shape, OwnPc, OwnCall
<1>10. MutexInv'
  BY <1>5 DEF IInv, MutexInv, OwnPc, Inside
<1>11. Whole'
  BY <1>2, <1>7 DEF IInv, Whole
<1>12. Counted'
  <2> SUFFICES ASSUME NEW m \in DOMAIN table'
               PROVE  table'[m].clus \in 1..Len(table) + 1
    BY <1>3 DEF Counted
  <2>1. CASE m = n
    BY <1>2, <1>4, <1>7, <2>1
  <2>2. CASE m # n
    <3>1. PICK k \in DOMAIN table : table'[m] = table[k]
      BY <1>2, <2>2
    <3>2. table[k].clus \in 1..Len(table)
      BY DEF IInv, Counted
    <3> QED
      BY <1>4, <3>1, <3>2
  <2> QED
    BY <2>1, <2>2
<1>13. Distinct'
  <2> SUFFICES ASSUME NEW i \in DOMAIN table', NEW j \in DOMAIN table', i # j
               PROVE  table'[i].path # table'[j].path /\ table'[i].clus # table'[j].clus
    BY DEF Distinct
  <2>1. \A m \in DOMAIN table' \ {n} : table'[m].path # e.path /\ table'[m].clus # e.clus
    BY <1>2, <1>8
  <2>2. CASE i = n \/ j = n
    BY <1>2, <2>1, <2>2
  <2>3. CASE i # n /\ j # n
    <3>1. PICK k \in DOMAIN table : table'[i] = table[k] /\ i = IF k < n THEN k ELSE k + 1
      BY <1>2, <2>3
    <3>2. PICK l \in DOMAIN table : table'[j] = table[l] /\ j = IF l < n THEN l ELSE l + 1
      BY <1>2, <2>3
    <3>3. k # l
      BY <3>1, <3>2
    <3> QED
      BY <3>1, <3>2, <3>3 DEF IInv, Distinct
  <2> QED
    BY <2>2, <2>3
<1>14. Missing'
  BY <1>5 DEF IInv, Missing, MutexInv, OwnPc, Inside
<1>15. Found'
  <2> SUFFICES ASSUME NEW u \in Tasks, pc'[u] = "i_unlock"
               PROVE  \E k \in DOMAIN table' : /\ table'[k].path = Head(call'[u].paths)
                                               /\ table'[k].clus = call'[u].clus
    BY DEF Found
  <2>1. u = t
    BY <1>5 DEF IInv, MutexInv, OwnPc, Inside
  <2> QED
    BY <1>2, <1>6, <1>7, <2>1
<1> QED
  BY <1>9, <1>10, <1>11, <1>12, <1>13, <1>14, <1>15 DEF IInv

LEMMA UnlockKeeps == ASSUME IInv, NEW t \in Tasks, InternUnlock(t) PROVE IInv'
<1>1. pc[t] = "i_unlock" /\ UNCHANGED table
  BY DEF InternUnlock, Return, Goto
<1>2. Outside(t)
  <2>1. CASE Return(t, "i_unlock")
    BY <1>1, <2>1, ReturnOut DEF IInv
  <2>2. CASE ~Return(t, "i_unlock")
    <3>1. OwnPc(t) /\ pc'[t] = "i_lock"
      BY <2>2, GotoOwn DEF InternUnlock, IInv
    <3>2. OwnCall(t)
      BY <2>2 DEF InternUnlock, IInv, Shape, OwnCall
    <3> QED
      BY <1>1, <3>1, <3>2 DEF Outside, Inside
  <2> QED
    BY <2>1, <2>2
<1> USE <1>1, <1>2 DEF IInv, Outside, OwnPc, OwnCall
<1>3. Shape'
  BY DEF Shape
<1>4. MutexInv'
  BY DEF MutexInv, Shape, Inside
<1>5. Whole' /\ Counted' /\ Distinct'
  BY DEF Whole, Counted, Distinct
<1>6. Missing' /\ Found'
  BY DEF Missing, Found, Inside
<1> QED
  BY <1>3, <1>4, <1>5, <1>6

LEMMA InitIInv == Init => IInv
<1> SUFFICES ASSUME Init PROVE IInv
  OBVIOUS
<1>1. Shape
  <2>1. table \in Seq({})
    BY DEF Init
  <2> QED
    BY <2>1, NoCallFields DEF Init, Shape
<1>2. DOMAIN table = {}
  BY DEF Init
<1> QED
  BY <1>1, <1>2 DEF Init, IInv, MutexInv, Whole, Counted, Distinct, Missing, Found, Inside

LEMMA NextIInv == IInv /\ [Next]_vars => IInv'
<1> SUFFICES ASSUME IInv, [Next]_vars PROVE IInv'
  OBVIOUS
<1>1. CASE UNCHANGED <<interned, pc, call>>
  BY <1>1 DEF interned, IInv, Shape, MutexInv, Whole, Counted, Distinct, Missing, Found
<1>2. ASSUME NEW t \in Tasks, Calling(t) \/ Running(t) PROVE IInv'
  <2>1. CASE Interning(t)
    BY <2>1, LockKeeps, GetKeeps, PutKeeps, UnlockKeeps DEF Interning
  <2>2. CASE Calling(t) \/ Reading(t) \/ Writing(t) \/ Finding(t)
    <3>1. Outside(t)
      BY <2>2, OutsideStep DEF IInv
    <3>2. mutex' = mutex
      BY <2>2
         DEF Calling, Reading, Writing, Finding, interned, ReadMissing, ReadStat, ReadOpen,
              ReadOpenFails, ReadDirectory, ReadBlock, ReadEnd,
             ReadReturn, WriteStat, WriteOpen, WriteOpenFails, WriteBlock, WriteFails, WriteDone,
             FileRead, FileWrite, MkDir
    <3> QED
      BY <3>1, <3>2, OutsideKeeps
  <2> QED
    BY <1>2, <2>1, <2>2 DEF Running
<1> QED
  BY <1>1, <1>2 DEF Next, GoesOn, FindFaults, vars

\* A path has one cluster, whatever the tasks and the calls: no string is entered twice, and what
\* intern_path returns is what a later call for the string returns (OneCluster).
THEOREM PathsHaveOneCluster == Spec => []OneCluster
<1>1. IInv => OneCluster
  <2> SUFFICES ASSUME IInv, NEW t \in Tasks, pc[t] = "i_unlock"
               PROVE  [path |-> Head(call[t].paths), clus |-> call[t].clus] \in ToSet(table)
    BY DEF OneCluster, IInv, Distinct
  <2>1. PICK k \in DOMAIN table :
          table[k].path = Head(call[t].paths) /\ table[k].clus = call[t].clus
    BY DEF IInv, Found
  <2> QED
    BY <2>1 DEF IInv, Whole, ToSet
<1> QED
  BY <1>1, InitIInv, NextIInv, PTL DEF Spec

-----------------------------------------------------------------------------
(* ReadBack: what a FileWrite that succeeded left in the trees is read.    *)

InWrite(t) == pc[t] \in {"w_stat", "w_open", "w_write"}
InRead(t) == pc[t] \in {"r_stat", "r_open", "r_read", "r_done"}

\* Whether a file of the tree below templeos_root hides the host's, and which of them is read.
Hidden(dn) == HasRoot /\ <<"root", dn[1], dn[2]>> \in DOMAIN files
Seen(dn) == <<IF Hidden(dn) THEN "root" ELSE "host", dn[1], dn[2]>>

DataTypes ==
  /\ calls \in Nat
  /\ last \in [Cwds \X Names -> Seq(Nat)] /\ expect \in [Tasks -> Seq(Nat)]
  /\ DOMAIN writers = Cwds \X Names /\ mixed \subseteq Cwds \X Names
  /\ dirs \subseteq Layers \X {Top} \X Dirs
  /\ \A e \in DOMAIN files : e \in Layers \X Cwds \X Names /\ DirExists(e[1], e[2])

\* A name that is not in mixed has one writer at most, and a mixed one is not clear.
Alone ==
  \A t, u \in Tasks :
    InWrite(t) /\ InWrite(u) /\ t # u /\ DirName(t) = DirName(u) => DirName(t) \in mixed
MixedUnclear == \A dn \in mixed : last[dn] = <<>>

\* The layer of a writer that is alone is the one that a read will take the file from, and
\* that file holds the blocks that it has written so far.
WriterLayer(t) ==
  \/ call[t].layer = "root" /\ HasRoot
  \/ call[t].layer = "host" /\ ~Hidden(DirName(t))
WriterFile(t) ==
  /\ Entry(t) \in DOMAIN files /\ call[t].pos \in 0..call[t].size
  /\ files[Entry(t)] = [k \in 1..call[t].pos |-> call[t].buf[k]]

WriterOk(t) ==
  InWrite(t) =>
    /\ DirName(t) \in Cwds \X Names /\ t \in writers[DirName(t)] /\ call[t].layer \in Layers
    /\ call[t].buf \in Seq(Nat) /\ call[t].size \in Nat /\ Len(call[t].buf) = call[t].size
    /\ pc[t] # "w_write" => call[t].pos = 0
    /\ pc[t] # "w_stat" /\ DirName(t) \notin mixed => WriterLayer(t)
    /\ pc[t] = "w_write" => last[DirName(t)] = <<>>
    /\ pc[t] = "w_write" /\ DirName(t) \notin mixed => WriterFile(t)

\* What a name was last given is in the file that is read.
Kept ==
  \A dn \in Cwds \X Names :
    last[dn] # <<>> => Seen(dn) \in DOMAIN files /\ files[Seen(dn)] = last[dn]

\* A read that must return something is on its way to it.
ReaderOk(t) ==
  InRead(t) /\ expect[t] # <<>> /\ ~starved =>
    /\ DirName(t) \in Cwds \X Names /\ expect[t] = last[DirName(t)]
    /\ pc[t] \in {"r_stat", "r_open"} => call[t].buf = <<>>
    /\ pc[t] = "r_stat" => WriterLayer(t)
    /\ pc[t] \in {"r_open", "r_read"} => Entry(t) = Seen(DirName(t))
    /\ pc[t] # "r_stat" => call[t].size = Len(expect[t])
    /\ pc[t] = "r_read" => call[t].buf \in Seq(Nat) /\ Len(call[t].buf) <= Len(expect[t])
                           /\ \A k \in 1..Len(call[t].buf) : call[t].buf[k] = expect[t][k]
    /\ pc[t] = "r_done" => call[t].buf = expect[t]

DInv ==
  /\ DataTypes /\ Alone /\ MixedUnclear /\ Kept
  /\ \A t \in Tasks : WriterOk(t) /\ ReaderOk(t)

LEMMA Triple ==
  ASSUME NEW l, NEW d, NEW n
  PROVE  <<l>> \o <<d, n>> = <<l, d, n>>
<1> DEFINE r == <<l>> \o <<d, n>>
<1>1. <<l>> \in Seq({l, d, n}) /\ <<d, n>> \in Seq({l, d, n})
  OBVIOUS
<1>2. r \in Seq({l, d, n}) /\ Len(r) = 3 /\ r[1] = l /\ r[2] = d /\ r[3] = n
  BY <1>1, ConcatProperties
<1>3. <<l, d, n>> \in Seq({l, d, n}) /\ Len(<<l, d, n>>) = 3
  OBVIOUS
<1>4. \A k \in 1..3 : r[k] = <<l, d, n>>[k]
  BY <1>2
<1> HIDE DEF r
<1>5. r = <<l, d, n>>
  BY <1>2, <1>3, <1>4, SeqEqual
<1> QED
  BY <1>5 DEF r

LEMMA EntryIs ==
  ASSUME NEW t \in Tasks
  PROVE  Entry(t) = <<call[t].layer, DirName(t)[1], DirName(t)[2]>>
BY Triple DEF Entry, DirName

\* A step of t that changes no file, if what it reads is right.
LEMMA ReadSide ==
  ASSUME Shape, DInv, NEW t \in Tasks, OwnPc(t), OwnCall(t),
         files' = files, dirs \subseteq dirs', dirs' \subseteq Layers \X {Top} \X Dirs,
         calls' \in Nat, UNCHANGED <<last, writers, mixed>>, expect' \in [Tasks -> Seq(Nat)],
         \A u \in Tasks \ {t} : expect'[u] = expect[u],
         starved => starved', ReaderOk(t)',
         InWrite(t)' => InWrite(t) /\ DirName(t)' = DirName(t) /\ WriterOk(t)'
  PROVE  DInv'
<1> USE DEF OwnPc, OwnCall
<1>1. DataTypes'
  BY DEF DInv, DataTypes, DirExists
<1>2. Alone'
  <2> SUFFICES ASSUME NEW u \in Tasks, NEW v \in Tasks, InWrite(u)', InWrite(v)', u # v,
                      DirName(u)' = DirName(v)'
               PROVE  DirName(u)' \in mixed
    BY DEF Alone
  <2>1. \A w \in {u, v} : InWrite(w) /\ DirName(w)' = DirName(w)
    BY DEF InWrite, DirName
  <2> QED
    BY <2>1 DEF DInv, Alone
<1>3. MixedUnclear' /\ Kept'
  BY DEF DInv, MixedUnclear, Kept, Seen, Hidden
<1>4. ASSUME NEW u \in Tasks \ {t} PROVE WriterOk(u)' /\ ReaderOk(u)'
  <2>1. Entry(u)' = Entry(u) /\ DirName(u)' = DirName(u) /\ WriterLayer(u)' = WriterLayer(u)
        /\ Seen(DirName(u))' = Seen(DirName(u)) /\ InWrite(u)' = InWrite(u) /\ InRead(u)' = InRead(u)
        /\ expect'[u] = expect[u]
    BY DEF Entry, DirName, WriterLayer, Seen, Hidden, InWrite, InRead
  <2>2. WriterFile(u)' = WriterFile(u)
    BY <2>1 DEF WriterFile
  <2>3. WriterOk(u) /\ ReaderOk(u)
    BY DEF DInv
  <2> QED
    BY <2>1, <2>2, <2>3 DEF WriterOk, ReaderOk
<1>5. WriterOk(t)'
  BY DEF WriterOk
<1> QED
  BY <1>1, <1>2, <1>3, <1>4, <1>5 DEF DInv

\* A step of t that neither reads nor writes.
LEMMA Aside ==
  ASSUME Shape, DInv, NEW t \in Tasks, OwnPc(t), OwnCall(t),
         UNCHANGED <<dirs, files, starved, hist>>, calls' \in Nat, ~InWrite(t)', ~InRead(t)'
  PROVE  DInv'
<1>1. ReaderOk(t)'
  BY DEF ReaderOk
<1> QED
  BY <1>1, ReadSide DEF DInv, DataTypes, hist

\* A step of t that writes its file, whose name is not clear meanwhile.
LEMMA FileStep ==
  ASSUME Shape, DInv, NEW t \in Tasks, OwnPc(t), OwnCall(t), InWrite(t), InWrite(t)', ~InRead(t)',
         DirName(t)' = DirName(t), Entry(t)' = Entry(t), call'[t].buf = call[t].buf,
         DOMAIN files \subseteq DOMAIN files', DOMAIN files' \subseteq DOMAIN files \cup {Entry(t)},
         \A e \in DOMAIN files \ {Entry(t)} : files'[e] = files[e],
         \A e \in DOMAIN files' : e \in Layers \X Cwds \X Names /\ DirExists(e[1], e[2]),
         UNCHANGED <<dirs, writers, mixed, calls, starved>>,
         last' \in [Cwds \X Names -> Seq(Nat)], last'[DirName(t)] = <<>>,
         \A dn \in Cwds \X Names \ {DirName(t)} : last'[dn] = last[dn],
         expect' \in [Tasks -> Seq(Nat)],
         \A u \in Tasks : expect'[u] = expect[u] \/ expect'[u] = <<>>,
         \A u \in Tasks : InRead(u) /\ DirName(u) = DirName(t) => expect'[u] = <<>> \/ starved,
         WriterOk(t)'
  PROVE  DInv'
<1> USE DEF OwnPc, OwnCall
<1>1. DataTypes'
  BY DEF DInv, DataTypes, DirExists
<1>2. Alone'
  <2> SUFFICES ASSUME NEW u \in Tasks, NEW v \in Tasks, InWrite(u)', InWrite(v)', u # v,
                      DirName(u)' = DirName(v)'
               PROVE  DirName(u)' \in mixed
    BY DEF Alone
  <2>1. \A w \in {u, v} : InWrite(w) /\ DirName(w)' = DirName(w)
    BY DEF InWrite, DirName
  <2> QED
    BY <2>1 DEF DInv, Alone
<1>3. MixedUnclear'
  <2> SUFFICES ASSUME NEW dn \in mixed PROVE last'[dn] = <<>>
    BY DEF MixedUnclear
  <2>1. last[dn] = <<>> /\ dn \in Cwds \X Names
    BY DEF DInv, MixedUnclear, DataTypes
  <2> QED
    BY <2>1
<1>4. ASSUME NEW dn \in Cwds \X Names, dn # DirName(t)
      PROVE  /\ Hidden(dn)' = Hidden(dn) /\ Seen(dn)' = Seen(dn)
             /\ \A l : <<l, dn[1], dn[2]>> \in DOMAIN files' <=> <<l, dn[1], dn[2]>> \in DOMAIN files
             /\ \A l : <<l, dn[1], dn[2]>> \in DOMAIN files
                       => files'[<<l, dn[1], dn[2]>>] = files[<<l, dn[1], dn[2]>>]
  <2>1. DirName(t) \in Cwds \X Names
    BY DEF DInv, WriterOk
  <2>2. dn[1] # DirName(t)[1] \/ dn[2] # DirName(t)[2]
    <3>1. PICK d \in Cwds, n \in Names : dn = <<d, n>>
      OBVIOUS
    <3> QED
      BY <1>4, <3>1 DEF DirName
  <2>3. Entry(t) = <<call[t].layer, DirName(t)[1], DirName(t)[2]>>
    BY EntryIs
  <2>4. \A l : <<l, dn[1], dn[2]>> # Entry(t)
    BY <2>2, <2>3
  <2> QED
    BY <2>4 DEF Hidden, Seen
<1>5. Kept'
  <2> SUFFICES ASSUME NEW dn \in Cwds \X Names, last'[dn] # <<>>
               PROVE  Seen(dn)' \in DOMAIN files' /\ files'[Seen(dn)'] = last'[dn]
    BY DEF Kept
  <2>1. dn # DirName(t) /\ last'[dn] = last[dn]
    OBVIOUS
  <2>2. Seen(dn) \in DOMAIN files /\ files[Seen(dn)] = last[dn]
    BY <2>1 DEF DInv, Kept
  <2> QED
    BY <1>4, <2>1, <2>2 DEF Seen
<1>6. ASSUME NEW u \in Tasks \ {t} PROVE WriterOk(u)' /\ ReaderOk(u)'
  <2>1. /\ Entry(u)' = Entry(u) /\ DirName(u)' = DirName(u) /\ InWrite(u)' = InWrite(u)
        /\ InRead(u)' = InRead(u)
    BY DEF Entry, DirName, InWrite, InRead
  <2>2. WriterOk(u) /\ ReaderOk(u)
    BY DEF DInv
  <2>3. CASE DirName(u) = DirName(t)
    <3>1. InWrite(u) => DirName(u) \in mixed
      BY <2>3 DEF DInv, Alone
    <3> QED
      BY <2>1, <2>2, <2>3, <3>1 DEF WriterOk, ReaderOk
  <2>4. CASE DirName(u) # DirName(t) /\ DirName(u) \in Cwds \X Names
    <3>1. /\ last'[DirName(u)] = last[DirName(u)] /\ WriterLayer(u)' = WriterLayer(u)
          /\ Seen(DirName(u))' = Seen(DirName(u))
      BY <1>4, <2>1, <2>4 DEF WriterLayer
    <3>2. Entry(u) \in DOMAIN files => Entry(u) \in DOMAIN files' /\ files'[Entry(u)] = files[Entry(u)]
      BY <1>4, <2>4, EntryIs
    <3>3. WriterFile(u) => WriterFile(u)'
      BY <2>1, <3>2 DEF WriterFile
    <3> QED
      BY <2>1, <2>2, <3>1, <3>3 DEF WriterOk, ReaderOk
  <2>5. CASE DirName(u) \notin Cwds \X Names
    BY <2>1, <2>2, <2>5 DEF WriterOk, ReaderOk
  <2> QED
    BY <2>3, <2>4, <2>5
<1>7. ReaderOk(t)'
  BY DEF ReaderOk
<1> QED
  BY <1>1, <1>2, <1>3, <1>5, <1>6, <1>7 DEF DInv

\* A FileWrite of t ends: it has failed, or its name was last given what it has written.
LEMMA WriteEnd ==
  ASSUME Shape, DInv, NEW t \in Tasks, OwnPc(t), OwnCall(t), InWrite(t), ~InWrite(t)', ~InRead(t)',
         UNCHANGED <<files, dirs, mixed, expect, calls>>,
         starved => starved', WriteEnds(t),
         \/ last' = last
         \/ /\ pc[t] = "w_write" /\ DirName(t) \notin mixed /\ call[t].pos = call[t].size
            /\ last' = [last EXCEPT ![DirName(t)] = call[t].buf]
  PROVE  DInv'
<1> USE DEF OwnPc, OwnCall
<1> DEFINE n == DirName(t)
<1>1. n \in Cwds \X Names /\ WriterOk(t) /\ DOMAIN writers = Cwds \X Names
      /\ last \in [Cwds \X Names -> Seq(Nat)] /\ call[t].buf \in Seq(Nat)
  BY DEF DInv, WriterOk, DataTypes
<1>2. DataTypes'
  BY <1>1 DEF DInv, DataTypes, DirExists, WriteEnds
<1>3. Alone'
  <2> SUFFICES ASSUME NEW u \in Tasks, NEW v \in Tasks, InWrite(u)', InWrite(v)', u # v,
                      DirName(u)' = DirName(v)'
               PROVE  DirName(u)' \in mixed
    BY DEF Alone
  <2>1. \A w \in {u, v} : InWrite(w) /\ DirName(w)' = DirName(w)
    BY DEF InWrite, DirName
  <2> QED
    BY <2>1 DEF DInv, Alone
<1>4. \/ last' = last
      \/ last[n] = <<>> /\ n \notin mixed /\ \A dn \in Cwds \X Names \ {n} : last'[dn] = last[dn]
  BY <1>1 DEF WriterOk
<1>5. MixedUnclear'
  <2> SUFFICES ASSUME NEW dn \in mixed, last' # last PROVE last'[dn] = <<>>
    BY DEF MixedUnclear, DInv
  <2>1. last[dn] = <<>> /\ dn # n /\ dn \in Cwds \X Names
    BY <1>4 DEF DInv, MixedUnclear, DataTypes
  <2> QED
    BY <1>1, <2>1
<1>6. Kept'
  <2> SUFFICES ASSUME NEW dn \in Cwds \X Names, last'[dn] # <<>>
               PROVE  Seen(dn) \in DOMAIN files /\ files[Seen(dn)] = last'[dn]
    BY DEF Kept, Seen, Hidden
  <2>1. CASE last'[dn] = last[dn]
    BY <2>1 DEF DInv, Kept
  <2>2. CASE last'[dn] # last[dn]
    <3>1. dn = n /\ last'[n] = call[t].buf /\ pc[t] = "w_write" /\ call[t].pos = call[t].size
          /\ n \notin mixed
      BY <1>1, <2>2
    <3>2. WriterLayer(t) /\ WriterFile(t) /\ Len(call[t].buf) = call[t].size
      BY <1>1, <3>1 DEF WriterOk
    <3>3. Entry(t) = Seen(n)
      BY <3>2, EntryIs DEF WriterLayer, WriterFile, Seen, Hidden
    <3>4. [k \in 1..Len(call[t].buf) |-> call[t].buf[k]] = call[t].buf
      BY <1>1
    <3> QED
      BY <3>1, <3>2, <3>3, <3>4 DEF WriterFile
  <2> QED
    BY <2>1, <2>2
<1>7. ASSUME NEW u \in Tasks \ {t} PROVE WriterOk(u)' /\ ReaderOk(u)'
  <2>1. /\ Entry(u)' = Entry(u) /\ DirName(u)' = DirName(u) /\ WriterLayer(u)' = WriterLayer(u)
        /\ InWrite(u)' = InWrite(u) /\ InRead(u)' = InRead(u)
        /\ Seen(DirName(u))' = Seen(DirName(u))
    BY DEF Entry, DirName, WriterLayer, Seen, Hidden, InWrite, InRead
  <2>2. WriterFile(u)' = WriterFile(u)
    BY <2>1 DEF WriterFile
  <2>3. WriterOk(u) /\ ReaderOk(u)
    BY DEF DInv
  <2>4. InWrite(u) => u \in writers'[DirName(u)]
    BY <1>1, <2>3 DEF WriteEnds, WriterOk
  <2>5. InWrite(u) => last'[DirName(u)] = last[DirName(u)]
    BY <1>1, <1>4, <2>3 DEF DInv, Alone, WriterOk
  <2>6. InRead(u) /\ expect[u] # <<>> /\ ~starved => last'[DirName(u)] = last[DirName(u)]
    BY <1>1, <1>4, <2>3 DEF ReaderOk
  <2> QED
    BY <2>1, <2>2, <2>3, <2>4, <2>5, <2>6 DEF WriterOk, ReaderOk
<1>8. WriterOk(t)' /\ ReaderOk(t)'
  BY DEF WriterOk, ReaderOk
<1> QED
  BY <1>2, <1>3, <1>5, <1>6, <1>7, <1>8 DEF DInv

LEMMA InitDInv == Init => DInv
<1> SUFFICES ASSUME Init PROVE DInv
  OBVIOUS
<1>1. \A l : Original(l) \in Seq(Nat)
  BY DEF Original
<1>2. \A dn \in Cwds \X Names :
        /\ <<"root">> \o dn = <<"root", dn[1], dn[2]>>
        /\ <<"host">> \o dn = <<"host", dn[1], dn[2]>>
  <2> TAKE dn \in Cwds \X Names
  <2>1. PICK d \in Cwds, n \in Names : dn = <<d, n>>
    OBVIOUS
  <2> QED
    BY <2>1, Triple
<1>3. files = [e \in InitFiles |-> Original(e[1])] /\ dirs = InitDirs
  BY DEF Init
<1>4. last = [dn \in Cwds \X Names |->
                IF HasRoot /\ <<"root", dn[1], dn[2]>> \in InitFiles THEN Original("root")
                ELSE IF <<"host", dn[1], dn[2]>> \in InitFiles THEN Original("host") ELSE <<>>]
  BY <1>2 DEF Init
<1>5. DataTypes
  <2>1. last \in [Cwds \X Names -> Seq(Nat)]
    BY <1>1, <1>4
  <2>2. \A e \in DOMAIN files : e \in Layers \X Cwds \X Names /\ DirExists(e[1], e[2])
    BY <1>3, FileCallsAssumption DEF DirExists
  <2> QED
    BY <1>3, <2>1, <2>2, FileCallsAssumption DEF Init, DataTypes
<1>6. Kept
  BY <1>3, <1>4 DEF Kept, Seen, Hidden
<1> QED
  BY <1>5, <1>6 DEF Init, DInv, Alone, MixedUnclear, WriterOk, ReaderOk, InWrite, InRead

\* A look-up or a listing begins.
Looking(t) ==
  /\ (FileFind(t) /\ UNCHANGED fds) \/ FilesFind(t)
  /\ UNCHANGED <<dirs, files, starved, interned, hist>>

\* The steps of intern_path, of the calls that find and of those that begin them.
LEMMA AsideSteps ==
  ASSUME Shape, DInv, NEW t \in Tasks,
         \/ Interning(t) \/ Finding(t)
         \/ Looking(t)
  PROVE  DInv'
<1>1. CASE Interning(t)
  <2>1. UNCHANGED <<dirs, files, starved, hist, calls>>
    BY <1>1 DEF Interning, InternLock, InternGet, InternPut, InternUnlock, disk
  <2>2. OwnPc(t) /\ ~InWrite(t)' /\ ~InRead(t)'
    BY <1>1, GotoOwn
       DEF Interning, InternLock, InternGet, InternPut, InternUnlock, Return, InWrite, InRead
  <2>3. OwnCall(t)
    BY <1>1, NoCallFields
       DEF Interning, InternLock, InternGet, InternPut, InternUnlock, Return, Shape, OwnCall
  <2> QED
    BY <2>1, <2>2, <2>3, Aside DEF DInv, DataTypes
<1>2. CASE Finding(t)
  <2>1. UNCHANGED <<dirs, files, starved, hist, calls>>
    BY <1>2 DEF Finding
  <2>2. OwnPc(t) /\ ~InWrite(t)' /\ ~InRead(t)'
    BY <1>2, GotoOwn, SamePc
       DEF Finding, FindBuiltin, FindEntry, FindMissing, Return, InWrite, InRead
  <2>3. OwnCall(t)
    BY <1>2, OutsideStep DEF Outside
  <2> QED
    BY <2>1, <2>2, <2>3, Aside DEF DInv, DataTypes
<1>3. CASE Looking(t)
  <2>1. \/ \E args : Call(t, "find", "f_find", args)
        \/ \E args : Call(t, "list", "i_lock", args)
    BY <1>3 DEF Looking, FileFind, FilesFind
  <2>2. OwnPc(t) /\ ~InWrite(t)' /\ ~InRead(t)' /\ calls' = calls + 1
    BY <2>1, GotoOwn DEF Call, InWrite, InRead
  <2>3. OwnCall(t)
    BY <1>3, OutsideStep DEF Looking, Calling, Outside
  <2>4. calls' \in Nat
    BY <2>2 DEF DInv, DataTypes
  <2> QED
    BY <1>3, <2>2, <2>3, <2>4, Aside DEF Looking
<1> QED
  BY <1>1, <1>2, <1>3

LEMMA MkDirStep == ASSUME Shape, DInv, NEW t \in Tasks, MkDir(t) PROVE DInv'
<1>1. pc[t] = "idle" /\ UNCHANGED <<files, starved, pc, call, hist>> /\ calls' = calls + 1
      /\ \E d \in Dirs : dirs' = dirs \cup {<<FirstLayer, Top, d>>}
  BY DEF MkDir
<1>2. OwnPc(t) /\ OwnCall(t) /\ ~InWrite(t)' /\ ~InRead(t)'
  BY <1>1, SamePc, SameCall DEF InWrite, InRead
<1>3. DataTypes /\ FirstLayer \in Layers
  BY DEF DInv, FirstLayer, Layers
<1>4. dirs \subseteq dirs' /\ dirs' \subseteq Layers \X {Top} \X Dirs /\ calls' \in Nat
  BY <1>1, <1>3 DEF DataTypes
<1>5. UNCHANGED <<last, writers, mixed, expect>> /\ ReaderOk(t)'
  BY <1>1, <1>2 DEF hist, ReaderOk
<1> QED
  BY <1>1, <1>2, <1>3, <1>4, <1>5, ReadSide DEF DataTypes

\* A step of a read, if what is read is right after it.
LEMMA ReadKeeps ==
  ASSUME Shape, DInv, NEW t \in Tasks, OwnPc(t), OwnCall(t), ~InWrite(t)',
         UNCHANGED <<dirs, files, calls, last, writers, mixed>>, starved => starved',
         expect' = expect \/ expect' = [expect EXCEPT ![t] = <<>>],
         ReaderOk(t)'
  PROVE  DInv'
<1>1. expect \in [Tasks -> Seq(Nat)] /\ <<>> \in Seq(Nat)
  BY DEF DInv, DataTypes
<1>2. expect' \in [Tasks -> Seq(Nat)] /\ \A u \in Tasks \ {t} : expect'[u] = expect[u]
  BY <1>1
<1> QED
  BY <1>2, ReadSide DEF DInv, DataTypes

LEMMA NextLayerIs ==
  ASSUME Shape, NEW t \in Tasks, NEW from, NextLayer(t, from)
  PROVE  /\ OwnPc(t) /\ OwnCall(t) /\ ~InWrite(t)'
         /\ \/ /\ call[t].layer = "root" /\ pc'[t] = "r_stat" /\ expect' = expect
               /\ call'[t].layer = "host" /\ call'[t].buf = call[t].buf
               /\ DirName(t)' = DirName(t)
            \/ /\ call[t].layer # "root" /\ pc'[t] = "idle"
               /\ expect' = [expect EXCEPT ![t] = <<>>]
<1>1. CASE call[t].layer = "root"
  <2>1. OwnPc(t) /\ pc'[t] = "r_stat" /\ expect' = expect
    BY <1>1, GotoOwn DEF NextLayer
  <2>2. /\ OwnCall(t) /\ call'[t].layer = "host" /\ call'[t].buf = call[t].buf
        /\ DirName(t)' = DirName(t)
    BY <1>1 DEF NextLayer, Shape, OwnCall, Fields, DirName
  <2> QED
    BY <1>1, <2>1, <2>2 DEF InWrite
<1>2. CASE call[t].layer # "root"
  <2>1. OwnPc(t) /\ pc'[t] = "idle" /\ expect' = [expect EXCEPT ![t] = <<>>]
    BY <1>2, GotoOwn DEF NextLayer, Return
  <2>2. OwnCall(t)
    BY <1>2, NoCallFields DEF NextLayer, Return, Shape, OwnCall
  <2> QED
    BY <1>2, <2>1, <2>2 DEF InWrite
<1> QED
  BY <1>1, <1>2

\* A read that must return something finds the file, and it is no directory.
LEMMA ReaderFinds ==
  ASSUME DInv, NEW t \in Tasks, InRead(t), expect[t] # <<>>, ~starved
  PROVE  /\ DirName(t) \in Cwds \X Names /\ Seen(DirName(t)) \in DOMAIN files
         /\ files[Seen(DirName(t))] = expect[t] /\ expect[t] \in Seq(Nat)
         /\ Entry(t) \notin dirs
         /\ pc[t] = "r_stat" => ~(call[t].layer = "host" /\ StatFails(Entry(t)))
         /\ pc[t] = "r_stat" /\ Entry(t) \in DOMAIN files => Entry(t) = Seen(DirName(t))
<1>1. ReaderOk(t) /\ Kept /\ DataTypes
  BY DEF DInv
<1>2. DirName(t) \in Cwds \X Names /\ expect[t] = last[DirName(t)]
  BY <1>1 DEF ReaderOk
<1>3. Seen(DirName(t)) \in DOMAIN files /\ files[Seen(DirName(t))] = expect[t] /\ expect[t] \in Seq(Nat)
  BY <1>1, <1>2 DEF Kept, DataTypes
<1>4. Entry(t) \notin dirs
  BY <1>1, <1>2, EntryIs, FileCallsAssumption DEF DataTypes
<1>5. ASSUME pc[t] = "r_stat"
      PROVE  /\ call[t].layer = "host" => Entry(t) = Seen(DirName(t))
             /\ Entry(t) \in DOMAIN files => Entry(t) = Seen(DirName(t))
  <2>1. WriterLayer(t)
    BY <1>1, <1>5 DEF ReaderOk
  <2> QED
    BY <2>1, EntryIs DEF WriterLayer, Seen, Hidden
<1> QED
  BY <1>2, <1>3, <1>4, <1>5 DEF StatFails

LEMMA ReadMissingStep == ASSUME Shape, DInv, NEW t \in Tasks, ReadMissing(t) PROVE DInv'
<1>1. NextLayer(t, "r_stat") /\ pc[t] = "r_stat" /\ StatFails(Entry(t))
      /\ UNCHANGED <<dirs, files, starved, calls, last, writers, mixed>>
  BY DEF ReadMissing, disk
<1>2. ReaderOk(t)'
  <2> SUFFICES ASSUME pc'[t] = "r_stat", expect'[t] # <<>>, ~starved PROVE ReaderOk(t)'
    BY <1>1, NextLayerIs DEF ReaderOk, InRead
  <2>1. /\ call[t].layer = "root" /\ expect' = expect /\ call'[t].layer = "host"
        /\ call'[t].buf = call[t].buf /\ DirName(t)' = DirName(t)
    BY <1>1, NextLayerIs
  <2>2. ReaderOk(t) /\ InRead(t)
    BY <1>1 DEF DInv, InRead
  <2>3. ~Hidden(DirName(t))
    BY <1>1, <2>1, EntryIs DEF StatFails, Hidden
  <2>4. WriterLayer(t)'
    BY <1>1, <2>1, <2>3 DEF WriterLayer, Hidden
  <2> QED
    BY <1>1, <2>1, <2>2, <2>4 DEF ReaderOk
<1> QED
  BY <1>1, <1>2, NextLayerIs, ReadKeeps

LEMMA ReadStatStep == ASSUME Shape, DInv, NEW t \in Tasks, ReadStat(t) PROVE DInv'
<1>1. /\ pc[t] = "r_stat" /\ ~StatFails(Entry(t)) /\ Goto(t, "r_stat", "r_open")
      /\ call' = [call EXCEPT ![t].size = IF IsDir(Entry(t)) THEN 1 ELSE Len(files[Entry(t)])]
      /\ UNCHANGED <<dirs, files, starved, calls, last, writers, mixed, expect>>
  BY DEF ReadStat, disk, hist
<1>2. OwnPc(t) /\ pc'[t] = "r_open" /\ ~InWrite(t)'
  BY <1>1, GotoOwn DEF InWrite
<1>3. /\ OwnCall(t) /\ DirName(t)' = DirName(t) /\ Entry(t)' = Entry(t)
      /\ call'[t].buf = call[t].buf
      /\ call'[t].size = IF IsDir(Entry(t)) THEN 1 ELSE Len(files[Entry(t)])
  BY <1>1 DEF Shape, OwnCall, Fields, DirName, Entry
<1>4. ReaderOk(t)'
  <2> SUFFICES ASSUME expect[t] # <<>>, ~starved PROVE ReaderOk(t)'
    BY <1>1 DEF ReaderOk
  <2>1. InRead(t) /\ ReaderOk(t)
    BY <1>1 DEF InRead, DInv
  <2>2. Entry(t) \in DOMAIN files /\ ~IsDir(Entry(t))
    BY <1>1, <2>1, ReaderFinds DEF StatFails, IsDir
  <2>3. Entry(t) = Seen(DirName(t)) /\ files[Entry(t)] = expect[t]
    BY <1>1, <2>1, <2>2, ReaderFinds
  <2>4. Seen(DirName(t))' = Seen(DirName(t))
    BY <1>1, <1>3 DEF Seen, Hidden
  <2> QED
    BY <1>1, <1>2, <1>3, <2>1, <2>2, <2>3, <2>4 DEF ReaderOk
<1> QED
  BY <1>1, <1>2, <1>3, <1>4, ReadKeeps

LEMMA ReadOpenStep == ASSUME Shape, DInv, NEW t \in Tasks, ReadOpen(t) PROVE DInv'
<1>1. /\ pc[t] = "r_open" /\ Goto(t, "r_open", "r_read") /\ UNCHANGED call
      /\ UNCHANGED <<dirs, files, starved, calls, last, writers, mixed, expect>>
  BY DEF ReadOpen, Opens, hist, Goto
<1>2. OwnPc(t) /\ pc'[t] = "r_read" /\ ~InWrite(t)' /\ OwnCall(t)
  BY <1>1, GotoOwn, SameCall DEF InWrite
<1>3. DirName(t)' = DirName(t) /\ Entry(t)' = Entry(t) /\ Seen(DirName(t))' = Seen(DirName(t))
  BY <1>1 DEF DirName, Entry, Seen, Hidden
<1>4. ReaderOk(t)'
  <2> SUFFICES ASSUME expect[t] # <<>>, ~starved PROVE ReaderOk(t)'
    BY <1>1 DEF ReaderOk
  <2>1. InRead(t) /\ ReaderOk(t)
    BY <1>1 DEF InRead, DInv
  <2>2. call[t].buf = <<>> /\ expect[t] \in Seq(Nat)
    BY <1>1, <2>1, ReaderFinds DEF ReaderOk
  <2>3. call[t].buf \in Seq(Nat) /\ Len(call[t].buf) = 0 /\ Len(expect[t]) \in Nat
    BY <2>2
  <2> QED
    BY <1>1, <1>2, <1>3, <2>1, <2>3 DEF ReaderOk
<1> QED
  BY <1>1, <1>2, <1>4, ReadKeeps

LEMMA ReadFailStep ==
  ASSUME Shape, DInv, NEW t \in Tasks, ReadOpenFails(t) \/ ReadDirectory(t) PROVE DInv'
<1>1. CASE ReadOpenFails(t)
  <2>1. NextLayer(t, "r_open") /\ starved' = TRUE
        /\ UNCHANGED <<dirs, files, calls, last, writers, mixed>>
    BY <1>1 DEF ReadOpenFails, OpenFails
  <2>2. ReaderOk(t)'
    BY <2>1 DEF ReaderOk
  <2> QED
    BY <2>1, <2>2, NextLayerIs, ReadKeeps
<1>2. CASE ReadDirectory(t)
  <2>1. NextLayer(t, "r_read") /\ pc[t] = "r_read" /\ Entry(t) \in dirs
        /\ UNCHANGED <<dirs, files, starved, calls, last, writers, mixed>>
    BY <1>2 DEF ReadDirectory, IsDir, disk
  <2>2. expect[t] = <<>> \/ starved
    BY <2>1, ReaderFinds DEF InRead
  <2>3. ReaderOk(t)'
    BY <2>1, <2>2, NextLayerIs DEF ReaderOk, DInv, DataTypes
  <2> QED
    BY <2>1, <2>3, NextLayerIs, ReadKeeps
<1> QED
  BY <1>1, <1>2

LEMMA ReadBlockStep == ASSUME Shape, DInv, NEW t \in Tasks, ReadBlock(t) PROVE DInv'
<1> DEFINE b == call[t].buf
<1>1. /\ pc[t] = "r_read" /\ Len(b) < call[t].size /\ Len(b) < Len(files[Entry(t)])
      /\ call' = [call EXCEPT ![t].buf = Append(@, files[Entry(t)][Len(@) + 1])]
      /\ UNCHANGED <<dirs, files, starved, pc, calls, last, writers, mixed, expect>>
  BY DEF ReadBlock, disk, hist
<1>2. OwnPc(t) /\ ~InWrite(t)'
  BY <1>1, SamePc DEF InWrite
<1>3. /\ OwnCall(t) /\ DirName(t)' = DirName(t) /\ Entry(t)' = Entry(t)
      /\ call'[t].size = call[t].size /\ call'[t].buf = Append(b, files[Entry(t)][Len(b) + 1])
  BY <1>1 DEF Shape, OwnCall, Fields, DirName, Entry
<1>4. ReaderOk(t)'
  <2> SUFFICES ASSUME expect[t] # <<>>, ~starved PROVE ReaderOk(t)'
    BY <1>1 DEF ReaderOk
  <2>1. InRead(t) /\ ReaderOk(t)
    BY <1>1 DEF InRead, DInv
  <2>2. /\ b \in Seq(Nat) /\ \A k \in 1..Len(b) : b[k] = expect[t][k]
        /\ files[Entry(t)] = expect[t] /\ expect[t] \in Seq(Nat)
    BY <1>1, <2>1, ReaderFinds DEF ReaderOk
  <2>3. call'[t].buf = Append(b, expect[t][Len(b) + 1]) /\ Len(b) + 1 \in 1..Len(expect[t])
    BY <1>1, <1>3, <2>2
  <2> HIDE DEF b
  <2>4. /\ call'[t].buf \in Seq(Nat) /\ Len(call'[t].buf) = Len(b) + 1
        /\ \A k \in 1..Len(b) : call'[t].buf[k] = b[k]
        /\ call'[t].buf[Len(b) + 1] = expect[t][Len(b) + 1]
    BY <2>2, <2>3
  <2>5. /\ Len(call'[t].buf) <= Len(expect[t])
        /\ \A k \in 1..Len(call'[t].buf) : call'[t].buf[k] = expect[t][k]
    BY <2>2, <2>3, <2>4
  <2>6. Seen(DirName(t))' = Seen(DirName(t))
    BY <1>1, <1>3 DEF Seen, Hidden
  <2> QED
    BY <1>1, <1>3, <2>1, <2>4, <2>5, <2>6 DEF ReaderOk
<1> QED
  BY <1>1, <1>2, <1>3, <1>4, ReadKeeps

LEMMA ReadEndStep == ASSUME Shape, DInv, NEW t \in Tasks, ReadEnd(t) PROVE DInv'
<1> DEFINE b == call[t].buf
<1>1. /\ pc[t] = "r_read" /\ Goto(t, "r_read", "r_done") /\ UNCHANGED call
      /\ Len(b) >= call[t].size \/ Len(b) >= Len(files[Entry(t)])
      /\ UNCHANGED <<dirs, files, starved, calls, last, writers, mixed, expect>>
  BY DEF ReadEnd, hist
<1>2. OwnPc(t) /\ pc'[t] = "r_done" /\ ~InWrite(t)' /\ OwnCall(t)
  BY <1>1, GotoOwn, SameCall DEF InWrite
<1>3. ReaderOk(t)'
  <2> SUFFICES ASSUME expect[t] # <<>>, ~starved PROVE ReaderOk(t)'
    BY <1>1 DEF ReaderOk
  <2>1. InRead(t) /\ ReaderOk(t)
    BY <1>1 DEF InRead, DInv
  <2>2. /\ b \in Seq(Nat) /\ Len(b) <= Len(expect[t]) /\ \A k \in 1..Len(b) : b[k] = expect[t][k]
        /\ files[Entry(t)] = expect[t] /\ expect[t] \in Seq(Nat) /\ call[t].size = Len(expect[t])
    BY <1>1, <2>1, ReaderFinds DEF ReaderOk
  <2> HIDE DEF b
  <2>3. Len(b) = Len(expect[t])
    BY <1>1, <2>2
  <2>4. b = expect[t]
    BY <2>2, <2>3, SeqEqual
  <2>5. DirName(t)' = DirName(t)
    BY <1>1 DEF DirName
  <2> QED
    BY <1>1, <1>2, <2>1, <2>2, <2>4, <2>5 DEF ReaderOk, b
<1> QED
  BY <1>1, <1>2, <1>3, ReadKeeps

LEMMA ReadReturnStep == ASSUME Shape, DInv, NEW t \in Tasks, ReadReturn(t) PROVE DInv'
<1>1. /\ Return(t, "r_done") /\ expect' = [expect EXCEPT ![t] = <<>>] /\ table' = table
      /\ UNCHANGED <<dirs, files, starved, calls, last, writers, mixed>>
  BY DEF ReadReturn, disk, interned
<1>2. OwnPc(t) /\ OwnCall(t)
  BY <1>1, ReturnOut DEF Outside
<1>3. ~InWrite(t)' /\ ReaderOk(t)'
  BY <1>1, GotoOwn DEF Return, InWrite, InRead, ReaderOk
<1> QED
  BY <1>1, <1>2, <1>3, ReadKeeps

LEMMA FileReadStep == ASSUME Shape, DInv, NEW t \in Tasks, FileRead(t) PROVE DInv'
<1>1. PICK d \in Cwds, n \in Names \cup Dirs :
        /\ Call(t, "read", "r_stat", [NoCall EXCEPT !.dir = d, !.name = n, !.layer = FirstLayer])
        /\ expect' = [expect EXCEPT ![t] = IF n \in Names THEN last[<<d, n>>] ELSE <<>>]
        /\ UNCHANGED <<disk, interned, last, writers, mixed>>
  BY DEF FileRead
<1>2. UNCHANGED <<dirs, files, starved, last, writers, mixed>> /\ calls' = calls + 1
  BY <1>1 DEF disk, Call
<1>3. OwnPc(t) /\ pc'[t] = "r_stat" /\ ~InWrite(t)'
  BY <1>1, GotoOwn DEF Call, InWrite
<1>4. /\ OwnCall(t) /\ DirName(t)' = <<d, n>> /\ call'[t].layer = FirstLayer
      /\ call'[t].buf = <<>>
  BY <1>1, NoCallFields DEF Call, Shape, OwnCall, DirName, NoCall
<1>5. DataTypes
  BY DEF DInv
<1>6. expect' \in [Tasks -> Seq(Nat)] /\ \A u \in Tasks \ {t} : expect'[u] = expect[u]
  <2>1. (IF n \in Names THEN last[<<d, n>>] ELSE <<>>) \in Seq(Nat)
    BY <1>5 DEF DataTypes
  <2> QED
    BY <1>1, <1>5, <2>1 DEF DataTypes
<1>7. ReaderOk(t)'
  <2> SUFFICES ASSUME expect'[t] # <<>> PROVE ReaderOk(t)'
    BY DEF ReaderOk
  <2>1. n \in Names /\ expect'[t] = last[<<d, n>>]
    BY <1>1, <1>5 DEF DataTypes
  <2>2. WriterLayer(t)'
    BY <1>2, <1>4 DEF WriterLayer, FirstLayer, Hidden
  <2> QED
    BY <1>2, <1>3, <1>4, <2>1, <2>2 DEF ReaderOk
<1>8. calls' \in Nat /\ dirs' \subseteq Layers \X {Top} \X Dirs
  BY <1>2, <1>5 DEF DataTypes
<1> QED
  BY <1>2, <1>3, <1>4, <1>6, <1>7, <1>8, ReadSide

LEMMA UnclearIs ==
  ASSUME DInv, NEW dn \in Cwds \X Names, Unclear(dn)
  PROVE  /\ last' \in [Cwds \X Names -> Seq(Nat)] /\ last'[dn] = <<>>
         /\ \A o \in Cwds \X Names \ {dn} : last'[o] = last[o]
         /\ expect' \in [Tasks -> Seq(Nat)]
         /\ \A u \in Tasks : expect'[u] = expect[u] \/ expect'[u] = <<>>
         /\ \A u \in Tasks : InRead(u) /\ DirName(u) = dn => expect'[u] = <<>>
<1>1. /\ last \in [Cwds \X Names -> Seq(Nat)] /\ expect \in [Tasks -> Seq(Nat)]
      /\ <<>> \in Seq(Nat)
  BY DEF DInv, DataTypes
<1>2. /\ last' = [last EXCEPT ![dn] = <<>>]
      /\ expect' = [t \in Tasks |-> IF pc[t] # "idle" /\ DirName(t) = dn THEN <<>> ELSE expect[t]]
  BY DEF Unclear
<1> QED
  BY <1>1, <1>2 DEF InRead

\* FileWrite: t is the only writer of the name, which may so be clear again, or it is mixed.
LEMMA FileWriteStep == ASSUME Shape, DInv, NEW t \in Tasks, FileWrite(t) PROVE DInv'
<1>1. PICK d \in Cwds, n \in Written, size \in 1..2 :
        /\ Call(t, "write", "w_stat",
                [NoCall EXCEPT !.dir = d, !.name = n, !.layer = "host", !.size = size,
                               !.buf = [k \in 1..size |-> calls + 3]])
        /\ writers' = [writers EXCEPT ![<<d, n>>] = @ \cup {t}]
        /\ IF writers[<<d, n>>] = {}
           THEN mixed' = mixed \ {<<d, n>>} /\ UNCHANGED <<last, expect>>
           ELSE mixed' = mixed \cup {<<d, n>>} /\ Unclear(<<d, n>>)
        /\ UNCHANGED <<disk, interned>>
  BY DEF FileWrite
<1> DEFINE dn == <<d, n>>
<1>2. /\ UNCHANGED <<dirs, files, starved>> /\ calls' = calls + 1
      /\ dn \in Cwds \X Names
  BY <1>1, FileCallsAssumption DEF disk, Call
<1>3. OwnPc(t) /\ pc'[t] = "w_stat" /\ InWrite(t)' /\ ~InRead(t)' /\ pc[t] = "idle"
  <2>1. Goto(t, "idle", "w_stat")
    BY <1>1 DEF Call
  <2>2. pc[t] = "idle"
    BY <2>1 DEF Goto
  <2>3. OwnPc(t) /\ pc'[t] = "w_stat"
    BY <2>1, GotoOwn
  <2> QED
    BY <2>2, <2>3 DEF InWrite, InRead
<1>4. /\ OwnCall(t) /\ DirName(t)' = dn /\ call'[t].layer = "host" /\ call'[t].pos = 0
      /\ call'[t].size = size /\ call'[t].buf = [k \in 1..size |-> calls + 3]
  BY <1>1, NoCallFields DEF Call, Shape, OwnCall, DirName, NoCall
<1>5. DataTypes /\ Alone /\ MixedUnclear /\ Kept /\ \A u \in Tasks : WriterOk(u) /\ ReaderOk(u)
  BY DEF DInv
<1>6. \/ /\ mixed' = mixed \ {dn} /\ UNCHANGED <<last, expect>>
         /\ \A u \in Tasks : InWrite(u) => DirName(u) # dn
      \/ /\ mixed' = mixed \cup {dn} /\ Unclear(dn)
  BY <1>1, <1>5 DEF WriterOk
<1>7. /\ last' \in [Cwds \X Names -> Seq(Nat)] /\ expect' \in [Tasks -> Seq(Nat)]
      /\ \A o \in Cwds \X Names : last'[o] = last[o] \/ (last'[o] = <<>> /\ o = dn)
      /\ \A u \in Tasks : expect'[u] = expect[u] \/ expect'[u] = <<>>
      /\ mixed' # mixed \ {dn} => last'[dn] = <<>>
      /\ \A u \in Tasks :
           InRead(u) => expect'[u] = <<>> \/ DirName(u) # dn \/ UNCHANGED <<last, expect>>
  BY <1>2, <1>5, <1>6, UnclearIs DEF DataTypes
<1>8. writers' = [writers EXCEPT ![dn] = @ \cup {t}]
  BY <1>1
<1> HIDE DEF dn
<1> USE DEF OwnPc, OwnCall
<1>9. DataTypes'
  BY <1>2, <1>5, <1>6, <1>7, <1>8 DEF DataTypes, DirExists
<1>10. Alone'
  <2> SUFFICES ASSUME NEW u \in Tasks, NEW v \in Tasks, InWrite(u)', InWrite(v)', u # v,
                      DirName(u)' = DirName(v)'
               PROVE  DirName(u)' \in mixed'
    BY DEF Alone
  <2>1. \A w \in {u, v} : IF w = t THEN DirName(w)' = dn
                          ELSE InWrite(w) /\ DirName(w)' = DirName(w)
    BY <1>3, <1>4 DEF InWrite, DirName
  <2> QED
    BY <1>5, <1>6, <2>1 DEF Alone
<1>11. MixedUnclear'
  <2> SUFFICES ASSUME NEW o \in mixed' PROVE last'[o] = <<>>
    BY DEF MixedUnclear
  <2>1. CASE o = dn
    BY <1>6, <1>7, <2>1
  <2>2. CASE o # dn
    BY <1>5, <1>6, <1>7, <2>2 DEF MixedUnclear, DataTypes
  <2> QED
    BY <2>1, <2>2
<1>12. Kept'
  BY <1>2, <1>5, <1>7 DEF Kept, Seen, Hidden
<1>13. ASSUME NEW u \in Tasks \ {t} PROVE WriterOk(u)' /\ ReaderOk(u)'
  <2>1. /\ Entry(u)' = Entry(u) /\ DirName(u)' = DirName(u) /\ WriterLayer(u)' = WriterLayer(u)
        /\ InWrite(u)' = InWrite(u) /\ InRead(u)' = InRead(u)
        /\ Seen(DirName(u))' = Seen(DirName(u))
    BY <1>2, <1>3, <1>4 DEF Entry, DirName, WriterLayer, Seen, Hidden, InWrite, InRead
  <2>2. WriterFile(u)' = WriterFile(u)
    BY <1>2, <1>4, <2>1 DEF WriterFile
  <2>3. WriterOk(u) /\ ReaderOk(u)
    BY <1>5
  <2>4. InWrite(u) => /\ u \in writers'[DirName(u)]
                      /\ last[DirName(u)] = <<>> => last'[DirName(u)] = <<>>
                      /\ DirName(u) \in mixed => DirName(u) \in mixed'
    BY <1>5, <1>6, <1>7, <1>8, <2>3 DEF WriterOk, DataTypes
  <2>5. InRead(u) /\ expect'[u] # <<>> /\ ~starved
          => expect'[u] = expect[u] /\ last'[DirName(u)] = last[DirName(u)]
    BY <1>7, <2>3 DEF ReaderOk
  <2>6. WriterOk(u)'
    BY <1>3, <1>4, <2>1, <2>2, <2>3, <2>4 DEF WriterOk
  <2>7. ReaderOk(u)'
    BY <1>2, <1>3, <1>4, <2>1, <2>3, <2>5 DEF ReaderOk
  <2> QED
    BY <2>6, <2>7
<1>14. WriterOk(t)'
  <2>1. t \in writers'[dn]
    BY <1>2, <1>5, <1>8 DEF DataTypes
  <2>2. call'[t].buf \in Seq(Nat) /\ Len(call'[t].buf) = size
    BY <1>4, <1>5 DEF DataTypes
  <2> QED
    BY <1>2, <1>3, <1>4, <2>1, <2>2 DEF WriterOk, Layers
<1>15. ReaderOk(t)'
  BY <1>3 DEF ReaderOk
<1> QED
  BY <1>9, <1>10, <1>11, <1>12, <1>13, <1>14, <1>15 DEF DInv

\* The layer is the one in which a read will find the file: without its directory there is none.
LEMMA WriteStatStep == ASSUME Shape, DInv, NEW t \in Tasks, WriteStat(t) PROVE DInv'
<1>1. /\ pc[t] = "w_stat" /\ Goto(t, "w_stat", "w_open")
      /\ call' = [call EXCEPT ![t].layer =
                    IF HasRoot /\ DirExists("root", call[t].dir) THEN "root" ELSE "host"]
      /\ UNCHANGED <<dirs, files, starved, calls, last, writers, mixed, expect>>
  BY DEF WriteStat, disk, hist, Goto
<1>2. OwnPc(t) /\ pc'[t] = "w_open" /\ InWrite(t) /\ ~InRead(t)'
  BY <1>1, GotoOwn DEF InWrite, InRead
<1>3. /\ OwnCall(t) /\ DirName(t)' = DirName(t)
      /\ call'[t].size = call[t].size /\ call'[t].pos = call[t].pos /\ call'[t].buf = call[t].buf
      /\ call'[t].layer = IF HasRoot /\ DirExists("root", call[t].dir) THEN "root" ELSE "host"
  BY <1>1 DEF Shape, OwnCall, Fields, DirName
<1>4. WriterOk(t) /\ DataTypes
  BY DEF DInv
<1>5. HasRoot /\ ~DirExists("root", call[t].dir) => ~Hidden(DirName(t))
  <2>1. <<"root", call[t].dir, call[t].name>> \in DOMAIN files => DirExists("root", call[t].dir)
    BY <1>4 DEF DataTypes
  <2> QED
    BY <2>1 DEF Hidden, DirName
<1>6. WriterLayer(t)'
  BY <1>1, <1>3, <1>5 DEF WriterLayer, Hidden
<1>7. WriterOk(t)' /\ ReaderOk(t)'
  BY <1>1, <1>2, <1>3, <1>4, <1>6 DEF WriterOk, ReaderOk, InWrite, Layers
<1> QED
  BY <1>1, <1>2, <1>3, <1>4, <1>7, ReadSide DEF DataTypes

LEMMA EntryType ==
  ASSUME DInv, NEW t \in Tasks, InWrite(t)
  PROVE  Entry(t) \in Layers \X Cwds \X Names
         /\ Entry(t)[1] = call[t].layer /\ Entry(t)[2] = call[t].dir
<1>1. call[t].layer \in Layers /\ call[t].dir \in Cwds /\ call[t].name \in Names
  BY DEF DInv, WriterOk, DirName
<1>2. Entry(t) = <<call[t].layer, call[t].dir, call[t].name>>
  BY EntryIs DEF DirName
<1> QED
  BY <1>1, <1>2

LEMMA WriteOpenStep == ASSUME Shape, DInv, NEW t \in Tasks, WriteOpen(t) PROVE DInv'
<1>1. /\ pc[t] = "w_open" /\ Goto(t, "w_open", "w_write") /\ DirExists(call[t].layer, call[t].dir)
      /\ files' = [e \in DOMAIN files \cup {Entry(t)} |-> IF e = Entry(t) THEN <<>> ELSE files[e]]
      /\ Unclear(DirName(t))
      /\ UNCHANGED <<dirs, call, calls, writers, mixed, starved>>
  BY DEF WriteOpen, Goto, Opens
<1>2. OwnPc(t) /\ OwnCall(t) /\ pc'[t] = "w_write" /\ InWrite(t) /\ InWrite(t)' /\ ~InRead(t)'
  BY <1>1, GotoOwn, SameCall DEF InWrite, InRead
<1>3. DirName(t)' = DirName(t) /\ Entry(t)' = Entry(t) /\ call'[t] = call[t]
  BY <1>1 DEF DirName, Entry
<1>4. WriterOk(t) /\ DataTypes
  BY DEF DInv
<1>5. /\ DOMAIN files' = DOMAIN files \cup {Entry(t)} /\ files'[Entry(t)] = <<>>
      /\ \A e \in DOMAIN files \ {Entry(t)} : files'[e] = files[e]
  BY <1>1
<1>6. \A e \in DOMAIN files' : e \in Layers \X Cwds \X Names /\ DirExists(e[1], e[2])
  BY <1>1, <1>2, <1>4, <1>5, EntryType DEF DataTypes
<1>7. DirName(t) \in Cwds \X Names
  BY <1>2, <1>4 DEF WriterOk
<1>8. last'[DirName(t)] = <<>>
  BY <1>1, <1>7, UnclearIs
<1>9. WriterLayer(t) => WriterLayer(t)'
  <2>1. <<"root", DirName(t)[1], DirName(t)[2]>> # Entry(t) \/ call[t].layer = "root"
    BY EntryIs
  <2> QED
    BY <1>3, <1>5, <2>1 DEF WriterLayer, Hidden
<1>10. WriterFile(t)'
  <2>1. call[t].pos = 0 /\ call[t].size \in Nat
    BY <1>1, <1>2, <1>4 DEF WriterOk
  <2>2. [k \in 1..0 |-> call[t].buf[k]] = <<>>
    OBVIOUS
  <2> QED
    BY <1>3, <1>5, <2>1, <2>2 DEF WriterFile
<1>11. WriterOk(t)'
  BY <1>1, <1>2, <1>3, <1>4, <1>8, <1>9, <1>10 DEF WriterOk
<1> QED
  BY <1>1, <1>2, <1>3, <1>5, <1>6, <1>7, <1>11, UnclearIs, FileStep

LEMMA WriteBlockStep == ASSUME Shape, DInv, NEW t \in Tasks, WriteBlock(t) PROVE DInv'
<1>1. /\ pc[t] = "w_write" /\ call[t].pos < call[t].size
      /\ files' = [files EXCEPT ![Entry(t)] =
                     Put(@, call[t].pos, call[t].buf[call[t].pos + 1])]
      /\ call' = [call EXCEPT ![t].pos = @ + 1]
      /\ UNCHANGED <<dirs, starved, pc, calls, last, writers, mixed, expect>>
  BY DEF WriteBlock, hist
<1>2. OwnPc(t) /\ InWrite(t) /\ InWrite(t)' /\ ~InRead(t)'
  BY <1>1, SamePc DEF InWrite, InRead
<1>3. /\ OwnCall(t) /\ DirName(t)' = DirName(t) /\ Entry(t)' = Entry(t)
      /\ call'[t].layer = call[t].layer /\ call'[t].size = call[t].size
      /\ call'[t].buf = call[t].buf /\ call'[t].pos = call[t].pos + 1
  BY <1>1 DEF Shape, OwnCall, Fields, DirName, Entry
<1>4. WriterOk(t) /\ DataTypes
  BY DEF DInv
<1>5. DOMAIN files' = DOMAIN files /\ \A e \in DOMAIN files \ {Entry(t)} : files'[e] = files[e]
  BY <1>1
<1>6. DirName(t) \in Cwds \X Names /\ last[DirName(t)] = <<>>
  BY <1>1, <1>2, <1>4 DEF WriterOk
<1>7. WriterLayer(t)' = WriterLayer(t)
  BY <1>3, <1>5 DEF WriterLayer, Hidden
<1>8. WriterFile(t) => WriterFile(t)'
  <2> SUFFICES ASSUME WriterFile(t) PROVE WriterFile(t)'
    OBVIOUS
  <2> DEFINE p == call[t].pos
             f == [k \in 1..p |-> call[t].buf[k]]
  <2>1. p \in Nat /\ p + 1 \in 0..call[t].size /\ Entry(t) \in DOMAIN files
        /\ files[Entry(t)] = f
    BY <1>1, <1>2, <1>4 DEF WriterFile, WriterOk
  <2>2. Len(f) = p
    BY <2>1
  <2>3. Put(f, p, call[t].buf[p + 1]) = [k \in 1..(p + 1) |-> call[t].buf[k]]
    <3> HIDE DEF p
    <3>1. Put(f, p, call[t].buf[p + 1])
            = [k \in 1..(p + 1) |-> IF k = p + 1 THEN call[t].buf[p + 1]
                                    ELSE IF k <= p THEN f[k] ELSE 0]
      BY <2>1, <2>2 DEF Put
    <3>2. \A k \in 1..(p + 1) : k # p + 1 => k <= p /\ f[k] = call[t].buf[k]
      BY <2>1
    <3> QED
      BY <3>1, <3>2
  <2>4. files'[Entry(t)] = [k \in 1..(p + 1) |-> call[t].buf[k]]
    BY <1>1, <2>1, <2>3
  <2> QED
    BY <1>3, <1>5, <2>1, <2>4 DEF WriterFile
<1>9. WriterOk(t)'
  BY <1>1, <1>2, <1>3, <1>4, <1>6, <1>7, <1>8 DEF WriterOk
<1>10. \A e \in DOMAIN files' : e \in Layers \X Cwds \X Names /\ DirExists(e[1], e[2])
  BY <1>4, <1>5 DEF DataTypes
<1>11. \A u \in Tasks : InRead(u) /\ DirName(u) = DirName(t) => expect'[u] = <<>> \/ starved
  BY <1>1, <1>6 DEF DInv, ReaderOk
<1> QED
  BY <1>1, <1>2, <1>3, <1>4, <1>5, <1>6, <1>9, <1>10, <1>11, FileStep DEF DataTypes

LEMMA WriteEndSteps ==
  ASSUME Shape, DInv, NEW t \in Tasks, WriteOpenFails(t) \/ WriteFails(t) \/ WriteDone(t)
  PROVE  DInv'
<1>1. OwnPc(t) /\ OwnCall(t)
  BY OutsideStep DEF Writing, Outside
<1>2. InWrite(t) /\ ~InWrite(t)' /\ ~InRead(t)'
  BY GotoOwn DEF WriteOpenFails, WriteFails, WriteDone, Return, InWrite, InRead, Goto
<1>3. UNCHANGED <<files, dirs, mixed, expect, calls>> /\ WriteEnds(t) /\ (starved => starved')
  BY DEF WriteOpenFails, WriteFails, WriteDone, OpenFails, disk
<1>4. \/ last' = last
      \/ /\ pc[t] = "w_write" /\ DirName(t) \notin mixed /\ call[t].pos = call[t].size
         /\ last' = [last EXCEPT ![DirName(t)] = call[t].buf]
  BY DEF WriteOpenFails, WriteFails, WriteDone, Goto
<1> QED
  BY <1>1, <1>2, <1>3, <1>4, WriteEnd

LEMMA StutterDInv ==
  ASSUME DInv,
         UNCHANGED <<dirs, files, starved, pc, call, calls, last, writers, mixed, expect>>
  PROVE  DInv'
<1>1. UNCHANGED <<dirs, files, starved, pc, call, calls, last, writers, mixed, expect>>
  OBVIOUS
<1>2. DataTypes' /\ Alone' /\ MixedUnclear' /\ Kept'
  BY <1>1
     DEF DInv, DataTypes, DirExists, Alone, InWrite, DirName, MixedUnclear, Kept, Seen, Hidden
<1>3. ASSUME NEW t \in Tasks PROVE WriterOk(t)' /\ ReaderOk(t)'
  <2>1. /\ Entry(t)' = Entry(t) /\ DirName(t)' = DirName(t) /\ WriterLayer(t)' = WriterLayer(t)
        /\ InWrite(t)' = InWrite(t) /\ InRead(t)' = InRead(t)
        /\ Seen(DirName(t))' = Seen(DirName(t))
    BY <1>1 DEF Entry, DirName, WriterLayer, Seen, Hidden, InWrite, InRead
  <2>2. WriterFile(t)' = WriterFile(t)
    BY <1>1, <2>1 DEF WriterFile
  <2>3. WriterOk(t) /\ ReaderOk(t)
    BY DEF DInv
  <2> QED
    BY <1>1, <2>1, <2>2, <2>3 DEF WriterOk, ReaderOk
<1> QED
  BY <1>2, <1>3 DEF DInv

LEMMA NextDInv == IInv /\ DInv /\ [Next]_vars => DInv'
<1> SUFFICES ASSUME IInv, DInv, [Next]_vars PROVE DInv'
  OBVIOUS
<1>1. Shape
  BY DEF IInv
<1>2. ASSUME NEW t \in Tasks, Calling(t) \/ Running(t) PROVE DInv'
  <2>1. CASE Interning(t) \/ Finding(t)
    BY <1>1, <2>1, AsideSteps
  <2>2. CASE Looking(t)
    BY <1>1, <2>2, AsideSteps
  <2>3. CASE FileRead(t) \/ FileWrite(t) \/ MkDir(t)
    BY <1>1, <2>3, FileReadStep, FileWriteStep, MkDirStep
  <2>4. CASE Reading(t)
    BY <1>1, <2>4, ReadMissingStep, ReadStatStep, ReadOpenStep, ReadFailStep, ReadBlockStep,
       ReadEndStep, ReadReturnStep DEF Reading
  <2>5. CASE Writing(t)
    BY <1>1, <2>5, WriteStatStep, WriteOpenStep, WriteBlockStep, WriteEndSteps DEF Writing
  <2> QED
    BY <1>2, <2>1, <2>2, <2>3, <2>4, <2>5 DEF Calling, Looking, Running
<1>3. ASSUME NEW t \in Tasks, FindFaults(t) PROVE DInv'
  BY <1>3, StutterDInv DEF FindFaults, disk, hist
<1> QED
  BY <1>2, <1>3, StutterDInv DEF Next, GoesOn, vars, disk, hist

\* The only way back from a read that must return something is past r_done.
LEMMA ReadBackStep ==
  ASSUME IInv, DInv, [Next]_vars, NEW t \in Tasks, InRead(t), pc'[t] = "idle",
         expect[t] # <<>>, ~starved'
  PROVE  pc[t] = "r_done" /\ call[t].buf = expect[t] /\ call[t].size = Len(expect[t])
<1>1. pc'[t] # pc[t]
  BY DEF InRead
<1>2. PICK u \in Tasks : Calling(u) \/ Running(u)
  BY <1>1 DEF Next, GoesOn, FindFaults, vars
<1>3. OwnPc(u)
  <2>1. CASE Interning(u)
    BY <2>1, GotoOwn
       DEF Interning, InternLock, InternGet, InternPut, InternUnlock, Return, IInv
  <2>2. CASE ~Interning(u)
    BY <1>2, <2>2, OutsideStep DEF Running, Outside, IInv
  <2> QED
    BY <2>1, <2>2
<1>4. u = t
  BY <1>1, <1>3 DEF OwnPc
<1>5. Reading(t)
  BY <1>1, <1>2, <1>4
     DEF InRead, Calling, Running, Interning, InternLock, InternGet, InternPut, InternUnlock, Writing,
         WriteStat, WriteOpen, WriteOpenFails, WriteBlock, WriteFails, WriteDone, Finding,
         FindBuiltin, FindEntry, FindMissing, FileRead, FileWrite, MkDir, FileFind, FilesFind,
         Call, Return, Goto
<1>6. DOMAIN pc = Tasks
  BY DEF IInv, Shape
<1>7. CASE ReadReturn(t)
  <2>1. pc[t] = "r_done" /\ ~starved
    BY <1>7 DEF ReadReturn, Return, Goto, disk
  <2> QED
    BY <2>1 DEF DInv, ReaderOk
<1>8. CASE ReadMissing(t)
  <2>1. pc[t] = "r_stat" /\ StatFails(Entry(t)) /\ ~starved /\ NextLayer(t, "r_stat")
    BY <1>8 DEF ReadMissing, disk
  <2>2. call[t].layer # "root"
    BY <2>1, NextLayerIs DEF IInv
  <2>3. call[t].layer = "host"
    BY <2>1, <2>2 DEF DInv, ReaderOk, WriterLayer
  <2> QED
    BY <2>1, <2>3, ReaderFinds
<1>9. CASE ReadOpenFails(t)
  BY <1>9 DEF ReadOpenFails, OpenFails
<1>10. CASE ReadDirectory(t)
  BY <1>10, ReaderFinds DEF ReadDirectory, IsDir, disk
<1>11. CASE ReadStat(t) \/ ReadOpen(t) \/ ReadBlock(t) \/ ReadEnd(t)
  BY <1>1, <1>6, <1>11 DEF ReadStat, ReadOpen, ReadBlock, ReadEnd, Goto
<1> QED
  BY <1>5, <1>7, <1>8, <1>9, <1>10, <1>11 DEF Reading

\* What a FileWrite that succeeded gave a file is what every FileRead of that name and directory
\* returns, in all its length, until there is another FileWrite of it: for any tasks, trees and
\* calls, whether templeos_root is set or not, and whatever else runs beside them (ReadBack).
THEOREM WritesAreReadBack == Spec => ReadBack
<1>1. IInv /\ DInv /\ [Next]_vars
        => [\A t \in Tasks :
              (pc[t] \in {"r_stat", "r_open", "r_read", "r_done"} /\ pc'[t] = "idle"
                 /\ expect[t] # <<>> /\ ~starved')
                => pc[t] = "r_done" /\ call[t].buf = expect[t] /\ call[t].size = Len(expect[t])]_vars
  BY ReadBackStep DEF InRead
<1> QED
  BY <1>1, InitIInv, NextIInv, InitDInv, NextDInv, PTL DEF Spec, ReadBack
==============================================================================
