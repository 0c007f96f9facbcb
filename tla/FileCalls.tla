------------------------------ MODULE FileCalls ------------------------------
(***************************************************************************)
(* The file calls of TempleOS tasks: FileRead, FileWrite, MkDir, FileFind  *)
(* and FilesFind over three layers, the files built into the program, the  *)
(* tree below templeos_root and the host's own, with the system calls of   *)
(* several tasks interleaved; and intern_path, which makes the cluster     *)
(* numbers that the kernel is given out of path strings.                   *)
(*                                                                         *)
(* A tree is "/" with files and directories, and these with files.  A file *)
(* is a sequence of blocks, each known by the write it comes from.  Masks, *)
(* dates, attributes and memory are left out; no other program changes the *)
(* trees, and no call deletes anything.  A call lists its directories in   *)
(* one step, and keeps one descriptor until it has interned what it found. *)
(***************************************************************************)
EXTENDS Naturals, FiniteSets, SequencesExt

CONSTANTS
  Tasks,
  Top, Dirs,   \* "/" and the names of the directories that may be in it
  Names,       \* the names of files
  Builtins,    \* those of builtin_files, which are all in "/"
  HasRoot,     \* whether templeos_root is set
  InitDirs, InitFiles,  \* what the trees hold at the start
  Ops,         \* which calls there are (bounds the model)
  Written,     \* the names given to FileWrite (bounds the model)
  MaxFds,      \* how many descriptors the process may have
  MaxCalls,    \* how many calls there are (bounds the model)
  None

Cwds == {Top} \cup Dirs
Layers == {"root", "host"}
Entries == Layers \X Cwds \X (Names \cup Dirs)

ASSUME FileCallsAssumption ==
  /\ Top \notin Dirs /\ Names \cap Dirs = {} /\ Builtins \subseteq Names /\ Written \subseteq Names
  /\ HasRoot \in BOOLEAN /\ None \notin Tasks
  /\ InitDirs \subseteq Layers \X {Top} \X Dirs /\ InitFiles \subseteq Layers \X Cwds \X Names
  /\ \A e \in InitFiles : e[2] = Top \/ <<e[1], Top, e[2]>> \in InitDirs
  /\ MaxFds \in Nat /\ MaxCalls \in Nat

VARIABLES
  dirs, files,  \* the directories, and the contents of the files
  fds,          \* how many descriptors are open
  table,        \* the one bucket of paths_table: strings and their clusters
  mutex,        \* the owner of paths_table_mutex
  pc, call,     \* for every task, its step, arguments and local variables
  calls,        \* how many calls there have been: what the next one writes
  last,         \* history: for every name, what it was last given, <<>> if that is not clear
  writers,      \* history: the tasks inside a FileWrite of that name
  mixed,        \* history: the names that several tasks have been writing at the same time
  expect,       \* history: for every task, what its FileRead must return, <<>> if not clear
  starved,      \* history: whether an open has failed for want of a descriptor
  exited        \* whether the process has ended

disk == <<dirs, files, fds, starved>>
interned == <<table, mutex>>
hist == <<last, writers, mixed, expect>>
vars == <<disk, interned, pc, call, calls, hist, exited>>

NoCall == [dir |-> Top, name |-> Top, layer |-> "host", slashes |-> 1, size |-> 0, pos |-> 0,
           buf |-> <<>>, paths |-> <<>>, clus |-> 0, open |-> 0]

PCs == {"idle", "r_stat", "r_open", "r_read", "r_done", "w_stat", "w_open", "w_write", "f_find",
        "i_lock", "i_get", "i_put", "i_unlock"}

\* What the files hold at the start is known by the layer they are in.
Original(l) == IF l = "root" THEN <<1, 1>> ELSE <<2, 2>>

Init ==
  /\ dirs = InitDirs
  /\ files = [e \in InitFiles |-> Original(e[1])]
  /\ fds = 0 /\ starved = FALSE /\ exited = FALSE
  /\ table = <<>> /\ mutex = None
  /\ pc = [t \in Tasks |-> "idle"] /\ call = [t \in Tasks |-> NoCall]
  /\ calls = 0
  /\ last = [dn \in Cwds \X Names |->
               IF HasRoot /\ <<"root">> \o dn \in InitFiles THEN Original("root")
               ELSE IF <<"host">> \o dn \in InitFiles THEN Original("host") ELSE <<>>]
  /\ writers = [dn \in Cwds \X Names |-> {}] /\ mixed = {}
  /\ expect = [t \in Tasks |-> <<>>]

Goto(t, from, to) == pc[t] = from /\ pc' = [pc EXCEPT ![t] = to]

\* A call begins.
Call(t, op, to, args) ==
  /\ op \in Ops /\ calls < MaxCalls
  /\ Goto(t, "idle", to)
  /\ calls' = calls + 1
  /\ call' = [call EXCEPT ![t] = args]

Return(t, from) ==
  /\ Goto(t, from, "idle")
  /\ call' = [call EXCEPT ![t] = NoCall]

\* The layer in which a call looks first.
FirstLayer == IF HasRoot THEN "root" ELSE "host"

\* The names that a task's call is about.
DirName(t) == <<call[t].dir, call[t].name>>
Entry(t) == <<call[t].layer>> \o DirName(t)

\* Whether stat of the directory d in a layer succeeds.
DirExists(l, d) == d = Top \/ <<l, Top, d>> \in dirs

Opens(t) == fds < MaxFds /\ fds' = fds + 1 /\ UNCHANGED starved
OpenFails(t) == fds = MaxFds /\ starved' = TRUE /\ UNCHANGED fds

\* From now on it is not clear what a read of the name dn must return.
Unclear(dn) ==
  /\ last' = [last EXCEPT ![dn] = <<>>]
  /\ expect' = [t \in Tasks |-> IF pc[t] # "idle" /\ DirName(t) = dn THEN <<>> ELSE expect[t]]

-----------------------------------------------------------------------------
(* intern_path, at the end of the calls that return or list clusters.      *)

\* Mutant: without paths_table_mutex.
InternNoLock(t) ==
  /\ Goto(t, "i_lock", "i_get")
  /\ UNCHANGED <<disk, interned, call, calls, hist>>

InternLock(t) ==
  /\ Goto(t, "i_lock", "i_get")
  /\ mutex = None /\ mutex' = t
  /\ UNCHANGED <<disk, table, call, calls, hist>>

\* hash_get: the entry that is found first.
Interned(p) == SelectInSeq(table, LAMBDA e : e.path = p)

\* Mutant: the first way out leaves the mutex locked.
InternGetReturns(t) ==
  LET k == Interned(Head(call[t].paths)) IN
  /\ pc[t] = "i_get"
  /\ IF k # 0 /\ Len(call[t].paths) = 1
     THEN Return(t, "i_get")
     ELSE /\ Goto(t, "i_get", IF k = 0 THEN "i_put" ELSE "i_unlock")
          /\ call' = [call EXCEPT ![t].clus = IF k = 0 THEN 0 ELSE table[k].clus]
  /\ UNCHANGED <<disk, interned, calls, hist>>

InternGet(t) ==
  LET k == Interned(Head(call[t].paths)) IN
  /\ Goto(t, "i_get", IF k = 0 THEN "i_put" ELSE "i_unlock")
  /\ call' = [call EXCEPT ![t].clus = IF k = 0 THEN 0 ELSE table[k].clus]
  /\ UNCHANGED <<disk, interned, calls, hist>>

\* hash_put, after the first entry; the cluster is the address of a new string.
InternPut(t) ==
  LET e == [path |-> Head(call[t].paths), clus |-> Len(table) + 1] IN
  /\ Goto(t, "i_put", "i_unlock")
  /\ table' = IF table = <<>> THEN <<e>> ELSE <<Head(table), e>> \o Tail(table)
  /\ call' = [call EXCEPT ![t].clus = e.clus]
  /\ UNCHANGED <<disk, mutex, calls, hist>>

\* The call goes on with the next path it lists, or closes the directory and returns.
InternUnlock(t) ==
  /\ mutex' = None
  /\ IF Len(call[t].paths) = 1
     THEN Return(t, "i_unlock") /\ fds' = fds - call[t].open
     ELSE /\ Goto(t, "i_unlock", "i_lock")
          /\ call' = [call EXCEPT ![t].paths = Tail(@), ![t].clus = 0]
          /\ UNCHANGED fds
  /\ UNCHANGED <<dirs, files, starved, table, calls, hist>>

-----------------------------------------------------------------------------
(* FileRead.                                                               *)

\* A built-in file is copied at once.
FileRead(t) ==
  \E d \in Cwds, n \in Names \cup Dirs :
    /\ ~(d = Top /\ n \in Builtins) /\ (n \in Dirs => d = Top)
    /\ Call(t, "read", "r_stat", [NoCall EXCEPT !.dir = d, !.name = n, !.layer = FirstLayer])
    /\ expect' = [expect EXCEPT ![t] = IF n \in Names THEN last[<<d, n>>] ELSE <<>>]
    /\ UNCHANGED <<disk, interned, last, writers, mixed>>

\* fileread returns NULL: the host's tree is next, and then FileRead returns NULL.
NextLayer(t, from) ==
  IF call[t].layer = "root"
  THEN /\ Goto(t, from, "r_stat")
       /\ call' = [call EXCEPT ![t].layer = "host", ![t].size = 0]
       /\ UNCHANGED expect
  ELSE Return(t, from) /\ expect' = [expect EXCEPT ![t] = <<>>]

IsDir(e) == e[2] = Top /\ e \in dirs
StatFails(e) == e \notin dirs \cup DOMAIN files

ReadMissing(t) ==
  /\ pc[t] = "r_stat" /\ StatFails(Entry(t))
  /\ NextLayer(t, "r_stat")
  /\ UNCHANGED <<disk, interned, calls, last, writers, mixed>>

\* The size is what stat says, whatever is read later.
ReadStat(t) ==
  /\ pc[t] = "r_stat" /\ ~StatFails(Entry(t))
  /\ Goto(t, "r_stat", "r_open")
  /\ call' = [call EXCEPT ![t].size = IF IsDir(Entry(t)) THEN 1 ELSE Len(files[Entry(t)])]
  /\ UNCHANGED <<disk, interned, calls, hist>>

ReadOpen(t) ==
  /\ Goto(t, "r_open", "r_read")
  /\ Opens(t)
  /\ UNCHANGED <<dirs, files, interned, call, calls, hist>>

ReadOpenFails(t) ==
  /\ pc[t] = "r_open" /\ OpenFails(t)
  /\ NextLayer(t, "r_open")
  /\ UNCHANGED <<dirs, files, interned, calls, last, writers, mixed>>

\* read fails for a directory; the descriptor stays open.
ReadDirectory(t) ==
  /\ pc[t] = "r_read" /\ IsDir(Entry(t))
  /\ NextLayer(t, "r_read")
  /\ UNCHANGED <<disk, interned, calls, last, writers, mixed>>

ReadBlock(t) ==
  /\ pc[t] = "r_read" /\ ~IsDir(Entry(t))
  /\ Len(call[t].buf) < call[t].size /\ Len(call[t].buf) < Len(files[Entry(t)])
  /\ call' = [call EXCEPT ![t].buf = Append(@, files[Entry(t)][Len(@) + 1])]
  /\ UNCHANGED <<disk, interned, pc, calls, hist>>

ReadEnd(t) ==
  /\ pc[t] = "r_read" /\ ~IsDir(Entry(t))
  /\ Len(call[t].buf) >= call[t].size \/ Len(call[t].buf) >= Len(files[Entry(t)])
  /\ Goto(t, "r_read", "r_done")
  /\ fds' = fds - 1
  /\ UNCHANGED <<dirs, files, starved, interned, call, calls, hist>>

ReadReturn(t) ==
  /\ Return(t, "r_done")
  /\ expect' = [expect EXCEPT ![t] = <<>>]
  /\ UNCHANGED <<disk, interned, calls, last, writers, mixed>>

-----------------------------------------------------------------------------
(* FileWrite.                                                              *)

FileWrite(t) ==
  \E d \in Cwds, n \in Written, size \in 1..2 :
    /\ Call(t, "write", "w_stat",
            [NoCall EXCEPT !.dir = d, !.name = n, !.layer = "host", !.size = size,
                           !.buf = [k \in 1..size |-> calls + 3]])
    /\ writers' = [writers EXCEPT ![<<d, n>>] = @ \cup {t}]
    /\ IF writers[<<d, n>>] = {}
       THEN mixed' = mixed \ {<<d, n>>} /\ UNCHANGED <<last, expect>>
       ELSE mixed' = mixed \cup {<<d, n>>} /\ Unclear(<<d, n>>)
    /\ UNCHANGED <<disk, interned>>

WriteStat(t) ==
  /\ Goto(t, "w_stat", "w_open")
  /\ call' = [call EXCEPT ![t].layer =
                IF HasRoot /\ DirExists("root", call[t].dir) THEN "root" ELSE "host"]
  /\ UNCHANGED <<disk, interned, calls, hist>>

WriteEnds(t) == writers' = [writers EXCEPT ![DirName(t)] = @ \ {t}]

\* Mutant: without O_TRUNC.
WriteOpenKeeps(t) ==
  /\ Goto(t, "w_open", "w_write")
  /\ DirExists(call[t].layer, call[t].dir)
  /\ Opens(t)
  /\ files' = [e \in DOMAIN files \cup {Entry(t)} |-> IF e \in DOMAIN files THEN files[e] ELSE <<>>]
  /\ Unclear(DirName(t))
  /\ UNCHANGED <<dirs, interned, call, calls, writers, mixed>>

WriteOpen(t) ==
  /\ Goto(t, "w_open", "w_write")
  /\ DirExists(call[t].layer, call[t].dir)
  /\ Opens(t)
  /\ files' = [e \in DOMAIN files \cup {Entry(t)} |-> IF e = Entry(t) THEN <<>> ELSE files[e]]
  /\ Unclear(DirName(t))
  /\ UNCHANGED <<dirs, interned, call, calls, writers, mixed>>

WriteOpenFails(t) ==
  /\ Return(t, "w_open")
  /\ IF DirExists(call[t].layer, call[t].dir) THEN OpenFails(t) ELSE UNCHANGED <<fds, starved>>
  /\ WriteEnds(t)
  /\ UNCHANGED <<dirs, files, interned, calls, last, mixed, expect>>

\* The file f with the block b written at offset pos; 0 fills what was truncated meanwhile.
Put(f, pos, b) ==
  [k \in 1..(IF pos < Len(f) THEN Len(f) ELSE pos + 1) |->
     IF k = pos + 1 THEN b ELSE IF k <= Len(f) THEN f[k] ELSE 0]

WriteBlock(t) ==
  /\ pc[t] = "w_write" /\ call[t].pos < call[t].size
  /\ files' = [files EXCEPT ![Entry(t)] = Put(@, call[t].pos, call[t].buf[call[t].pos + 1])]
  /\ call' = [call EXCEPT ![t].pos = @ + 1]
  /\ UNCHANGED <<dirs, fds, starved, interned, pc, calls, hist>>

\* write fails, the disk being full; the descriptor stays open and -1 is returned.
WriteFails(t) ==
  /\ call[t].pos < call[t].size
  /\ Return(t, "w_write")
  /\ WriteEnds(t)
  /\ UNCHANGED <<disk, interned, calls, last, mixed, expect>>

\* The path strings: FileWrite and FilesFind join templeos_root and a path that begins with
\* a slash, FileFind joins it and one without, so that there are two for one file.
Path(l, slashes, d, n) == <<l, IF l = "root" THEN slashes ELSE 1, d, n>>

\* All is written; the descriptor stays open.
WriteDone(t) ==
  /\ call[t].pos = call[t].size
  /\ Goto(t, "w_write", "i_lock")
  /\ call' = [call EXCEPT ![t].paths = <<Path(call[t].layer, 2, call[t].dir, call[t].name)>>]
  /\ WriteEnds(t)
  /\ last' = IF DirName(t) \in mixed THEN last ELSE [last EXCEPT ![DirName(t)] = call[t].buf]
  /\ UNCHANGED <<disk, interned, calls, mixed, expect>>

-----------------------------------------------------------------------------
(* MkDir, in "/", whose stat always succeeds.                              *)

MkDir(t) ==
  \E d \in Dirs :
    /\ "mkdir" \in Ops /\ pc[t] = "idle" /\ calls < MaxCalls
    /\ calls' = calls + 1
    /\ dirs' = dirs \cup {<<FirstLayer, Top, d>>}
    /\ UNCHANGED <<files, fds, starved, interned, pc, call, hist>>

-----------------------------------------------------------------------------
(* FileFind and FilesFind.                                                 *)

\* filefind of "/" in one layer after the other, or of the directory that a cluster is the
\* path of: FileFind does not look for that one in the other layer.
FileFind(t) ==
  \/ \E n \in Names \cup Dirs :
       Call(t, "find", "f_find", [NoCall EXCEPT !.name = n, !.layer = FirstLayer])
  \/ \E n \in Names, k \in DOMAIN table :
       LET dpath == table[k].path IN
       /\ dpath[4] \in Dirs
       /\ Call(t, "find", "f_find", [NoCall EXCEPT !.layer = dpath[1], !.slashes = dpath[2],
                                                  !.dir = dpath[4], !.name = n])

\* A built-in file gets the path of the host's file of its name.
FindBuiltin(t) ==
  /\ call[t].dir = Top /\ call[t].name \in Builtins
  /\ Goto(t, "f_find", "i_lock")
  /\ call' = [call EXCEPT ![t].paths = <<Path("host", 1, Top, call[t].name)>>]

FindEntry(t) ==
  /\ ~(call[t].dir = Top /\ call[t].name \in Builtins)
  /\ Opens(t)
  /\ ~StatFails(Entry(t))
  /\ Goto(t, "f_find", "i_lock")
  /\ call' = [call EXCEPT ![t].open = 1, ![t].paths =
                <<Path(call[t].layer, call[t].slashes, call[t].dir, call[t].name)>>]

FindMissing(t) ==
  /\ pc[t] = "f_find"
  /\ ~(call[t].dir = Top /\ call[t].name \in Builtins)
  /\ fds < MaxFds
  /\ StatFails(Entry(t))
  /\ IF call[t].dir = Top /\ call[t].layer = "root"
     THEN call' = [call EXCEPT ![t].layer = "host"] /\ UNCHANGED pc
     ELSE Return(t, "f_find")

\* opendir fails and readdir gets its NULL, in C code: signal_handler starts with exit_templeos,
\* which faults on GS, and the process is killed.
FindFaults(t) ==
  /\ pc[t] = "f_find"
  /\ ~(call[t].dir = Top /\ call[t].name \in Builtins)
  /\ fds = MaxFds
  /\ exited' = TRUE
  /\ UNCHANGED <<disk, interned, pc, call, calls, hist>>

\* The paths filesfind lists in the directory d of a layer: none if there is no descriptor for
\* it, and none of the directories in it if there is only one.
Listing(l, slashes, d, recurse) ==
  {Path(l, slashes, e[2], e[3]) :
     e \in {x \in dirs \cup DOMAIN files :
             /\ x[1] = l
             /\ \/ x[2] = d /\ fds < MaxFds
                \/ d = Top /\ recurse /\ fds + 1 < MaxFds}}

\* "/" lists all layers, another directory only the first that has it.
FilesFind(t) ==
  \E d \in Cwds, recurse \in BOOLEAN :
    LET found == IF d = Top
                 THEN Listing("host", 1, Top, recurse)
                        \cup (IF HasRoot THEN Listing("root", 1, Top, recurse) ELSE {})
                 ELSE IF HasRoot /\ DirExists("root", d) THEN Listing("root", 2, d, recurse)
                 ELSE Listing("host", 1, d, recurse)
        listed == found \cup (IF d = Top THEN {Path("host", 1, Top, n) : n \in Builtins} ELSE {})
        open == IF found = {} THEN 0 ELSE 1
    IN  /\ listed # {}
        /\ Call(t, "list", "i_lock", [NoCall EXCEPT !.paths = SetToSeq(listed), !.open = open])
        /\ fds' = fds + open

Finding(t) ==
  /\ \/ (FindBuiltin(t) \/ FindMissing(t)) /\ UNCHANGED fds
     \/ FindEntry(t)
  /\ UNCHANGED <<dirs, files, starved, interned, calls, hist>>

-----------------------------------------------------------------------------
Interning(t) == InternLock(t) \/ InternGet(t) \/ InternPut(t) \/ InternUnlock(t)

Reading(t) ==
  \/ ReadMissing(t) \/ ReadStat(t) \/ ReadOpen(t) \/ ReadOpenFails(t) \/ ReadDirectory(t)
  \/ ReadBlock(t) \/ ReadEnd(t) \/ ReadReturn(t)

Writing(t) ==
  \/ WriteStat(t) \/ WriteOpen(t) \/ WriteOpenFails(t) \/ WriteBlock(t) \/ WriteFails(t)
  \/ WriteDone(t)

Running(t) == Interning(t) \/ Reading(t) \/ Writing(t) \/ Finding(t)

Calling(t) ==
  \/ FileRead(t) \/ FileWrite(t) \/ MkDir(t)
  \/ /\ (FileFind(t) /\ UNCHANGED fds) \/ FilesFind(t)
     /\ UNCHANGED <<dirs, files, starved, interned, hist>>

GoesOn(t) == ~exited /\ ((Running(t) /\ UNCHANGED exited) \/ FindFaults(t))

Next == \E t \in Tasks : GoesOn(t) \/ (~exited /\ Calling(t) /\ UNCHANGED exited)

Spec == Init /\ [][Next]_vars

\* A thread inside a call goes on; nothing makes a task call.
FairSpec == Spec /\ \A t \in Tasks : WF_vars(GoesOn(t))

-----------------------------------------------------------------------------
(* Properties.                                                             *)

TypeOK ==
  /\ dirs \subseteq Layers \X {Top} \X Dirs /\ DOMAIN files \subseteq Layers \X Cwds \X Names
  /\ \A e \in DOMAIN files : DirExists(e[1], e[2])
  /\ fds \in 0..MaxFds /\ starved \in BOOLEAN /\ exited \in BOOLEAN
  /\ mutex \in Tasks \cup {None} /\ pc \in [Tasks -> PCs] /\ calls \in 0..MaxCalls
  /\ \A t \in Tasks : pc[t] \in {"i_lock", "i_get", "i_put"} => call[t].paths # <<>>

\* What a FileWrite that succeeded gave a file is what every FileRead of that name and
\* directory returns, in all its length, until there is another FileWrite of it, although
\* the one chooses the layer by the directory and the other by the file, and directories
\* are made meanwhile (RedSeaFileWrite, RedSeaFileRead).  Built-in names, writes that overlap
\* or fail, and a process out of descriptors are set aside.
ReadBack ==
  [][\A t \in Tasks :
       (pc[t] \in {"r_stat", "r_open", "r_read", "r_done"} /\ pc'[t] = "idle"
          /\ expect[t] # <<>> /\ ~starved')
         => pc[t] = "r_done" /\ call[t].buf = expect[t] /\ call[t].size = Len(expect[t])]_vars

\* A path has one cluster: intern_path, called by many tasks at once, enters no string twice
\* and returns what a later call for the same string will return.
OneCluster ==
  /\ \A j, k \in DOMAIN table :
       table[j].path = table[k].path \/ table[j].clus = table[k].clus => j = k
  /\ \A t \in Tasks :
       pc[t] = "i_unlock" => [path |-> Head(call[t].paths), clus |-> call[t].clus] \in ToSet(table)

\* Every call returns, whatever the others do to the trees and the descriptors meanwhile, as
\* long as no look-up has ended the process for want of a descriptor: intern_path has two ways
\* out, and both give the mutex up (intern_path, filefind).
CallsReturn == \A t \in Tasks : pc[t] # "idle" ~> pc[t] = "idle" \/ exited
=============================================================================
