------------------------------- MODULE Threads -------------------------------
(***************************************************************************)
(* The life of the threads behind the TempleOS tasks: Spawn creates one    *)
(* and waits on its lilith_idle_cond, templeos_task_start initialises the  *)
(* task, links it in the list that starts at first_templeos_task and       *)
(* broadcasts; signal_handler ends the thread whose code faults, and the   *)
(* process if it is Adam's.  Nothing takes a thread off the list.          *)
(*                                                                         *)
(* The mutex of a task is only held around the wait and the broadcast,     *)
(* which are one step each; a wait may end without the broadcast.          *)
(* A thread in the state "ready" runs TempleOS code; Adam's later runs     *)
(* x11_start (module Display).                                             *)
(*                                                                         *)
(* C code needs FS to be the thread's own glibc block, if it calls glibc,  *)
(* and TempleOS code needs it to be the CTask: enter_templeos and          *)
(* exit_templeos swap it, with GS, and keep glibc's in the CCPU of the     *)
(* thread.  The functions of the heap that TempleOS calls do not swap it.  *)
(***************************************************************************)
EXTENDS Naturals, FiniteSets

CONSTANTS
  Adam,      \* the task of the main thread
  Tasks,     \* the tasks Spawn can create (bounds the model)
  None,
  MayFault,  \* the tasks whose code may fault (bounds the model)
  MayFail,   \* the tasks for which pthread_create or arch_prctl may fail (bounds the model)
  Early,     \* the threads whose wait may end without the broadcast (bounds the model)
  Callers    \* the threads that call the heap (bounds the model)

Threads == Tasks \cup {Adam}

ASSUME ThreadsAssumption ==
  /\ IsFiniteSet(Tasks) /\ Adam \notin Tasks /\ None \notin Threads
  /\ MayFault \subseteq Threads /\ MayFail \subseteq Tasks
  /\ Early \subseteq Threads /\ Callers \subseteq Threads

VARIABLES
  first, next,  \* first_templeos_task and the next field of every thread
  tcd,          \* the owner of thread_create_destruct_mutex
  inited,       \* the tasks TaskInit has initialised
  idleWait,     \* for every task, the threads blocked on its lilith_idle_cond
  pc,
  child,        \* the task a thread creates
  told,         \* history: the tasks a Spawn has returned that was woken by the broadcast
  fs,           \* for every thread, what its FS register points to
  cpu,          \* whose CCPU its templeos_thread has as Gs
  saved,        \* for every CCPU, whose glibc block is its glibc_fs
  exited        \* whether the process has ended

regs == <<fs, cpu, saved>>
thvars == <<first, next, tcd, inited, idleWait, pc, child, told, exited, regs>>

ThPCs == {"none", "init", "ins_lock", "ins_next", "ins_first", "ins_unlock", "bcast", "ready", "heap", "end_lock",
          "sp_wait", "sp_blocked", "sig_lock", "sig_exit", "gone", "x11"}

Tls(u) == [block |-> "tls", of |-> u]
Task(t) == [block |-> "task", of |-> t]

\* init_templeos has saved Adam's glibc block; a CCPU that Spawn allocates is all zero.
ThInit ==
  /\ first = Adam /\ next = [t \in Threads |-> None]
  /\ tcd = None
  /\ inited = {Adam}
  /\ idleWait = [t \in Threads |-> {}]
  /\ pc = [t \in Threads |-> IF t = Adam THEN "ready" ELSE "none"]
  /\ child = [t \in Threads |-> None]
  /\ told = {} /\ exited = FALSE
  /\ fs = [t \in Threads |-> IF t = Adam THEN Task(t) ELSE Tls(t)]
  /\ cpu = [t \in Threads |-> t]
  /\ saved = [t \in Threads |-> IF t = Adam THEN Adam ELSE None]

Goto(t, from, to) == pc[t] = from /\ pc' = [pc EXCEPT ![t] = to]

TcdLock(t) == tcd = None /\ tcd' = t

Enter(t) == fs' = [fs EXCEPT ![t] = Task(t)]
Exit(t) == fs' = [fs EXCEPT ![t] = Tls(saved[cpu[t]])]

-----------------------------------------------------------------------------
(* Spawn.                                                                  *)

\* Mutant: the thread gets the CCPU of the task that creates it, as its field gs does.
SpawnSharesGs(t) ==
  /\ pc[t] = "ready"
  /\ \E c \in Tasks :
       /\ pc[c] = "none"
       /\ pc' = [pc EXCEPT ![t] = "sp_wait", ![c] = "init"]
       /\ child' = [child EXCEPT ![t] = c]
       /\ cpu' = [cpu EXCEPT ![c] = cpu[t]]
  /\ Exit(t)
  /\ UNCHANGED <<first, next, tcd, inited, idleWait, told, exited, saved>>

\* The thread gets a CCPU of its own, and not the one its field gs names.
Spawn(t) ==
  /\ pc[t] = "ready"
  /\ \E c \in Tasks :
       /\ pc[c] = "none"
       /\ pc' = [pc EXCEPT ![t] = "sp_wait", ![c] = "init"]
       /\ child' = [child EXCEPT ![t] = c]
       /\ cpu' = [cpu EXCEPT ![c] = c]
  /\ Exit(t)
  /\ UNCHANGED <<first, next, tcd, inited, idleWait, told, exited, saved>>

\* pthread_create fails: the task is freed and NULL is returned.
SpawnFails(t) ==
  /\ pc[t] = "ready"
  /\ \E c \in MayFail : pc[c] = "none" /\ pc' = [pc EXCEPT ![c] = "gone"]
  /\ UNCHANGED <<first, next, tcd, inited, idleWait, child, told, exited, regs>>

\* pthread_cond_wait, with no predicate: the broadcast may be over.
SpawnBlock(t) ==
  /\ Goto(t, "sp_wait", "sp_blocked")
  /\ idleWait' = [idleWait EXCEPT ![child[t]] = @ \cup {t}]
  /\ UNCHANGED <<first, next, tcd, inited, child, told, exited, regs>>

SpawnWake(t) ==
  /\ pc[t] = "sp_blocked" /\ t \notin idleWait[child[t]]
  /\ pc' = [pc EXCEPT ![t] = "ready"]
  /\ told' = told \cup {child[t]}
  /\ child' = [child EXCEPT ![t] = None]
  /\ Enter(t)
  /\ UNCHANGED <<first, next, tcd, inited, idleWait, exited, cpu, saved>>

\* pthread_cond_wait returns without the broadcast; Spawn does not look.
SpawnSpurious(t) ==
  /\ t \in Early
  /\ pc[t] = "sp_blocked" /\ t \in idleWait[child[t]]
  /\ pc' = [pc EXCEPT ![t] = "ready"]
  /\ idleWait' = [idleWait EXCEPT ![child[t]] = @ \ {t}]
  /\ child' = [child EXCEPT ![t] = None]
  /\ Enter(t)
  /\ UNCHANGED <<first, next, tcd, inited, told, exited, cpu, saved>>

-----------------------------------------------------------------------------
(* templeos_task_start.                                                    *)

\* arch_prctl fails: glibc's free gets the task, which is stb_malloc's, and aborts; the
\* process does not survive the handler (GS is not set).
StartFails(t) ==
  /\ t \in MayFail
  /\ Goto(t, "init", "gone")
  /\ exited' = TRUE
  /\ UNCHANGED <<first, next, tcd, inited, idleWait, child, told, regs>>

\* FS is saved; TaskInit of TempleOS runs between enter_templeos and exit_templeos.
TaskInit(t) ==
  /\ Goto(t, "init", "ins_lock")
  /\ saved' = [saved EXCEPT ![cpu[t]] = t]
  /\ inited' = inited \cup {t}
  /\ UNCHANGED <<first, next, tcd, idleWait, child, told, exited, fs, cpu>>

\* Mutant: the list is changed without its mutex.
InsertNoLock(t) ==
  /\ Goto(t, "ins_lock", "ins_next")
  /\ UNCHANGED <<first, next, tcd, inited, idleWait, child, told, exited, regs>>

\* Mutant: whoever waits for the task is told before it is on the list.
InsertLockSignals(t) ==
  /\ Goto(t, "ins_lock", "ins_next")
  /\ TcdLock(t)
  /\ idleWait' = [idleWait EXCEPT ![t] = {}]
  /\ UNCHANGED <<first, next, inited, child, told, exited, regs>>

InsertLock(t) ==
  /\ Goto(t, "ins_lock", "ins_next")
  /\ TcdLock(t)
  /\ UNCHANGED <<first, next, inited, idleWait, child, told, exited, regs>>

InsertNext(t) ==
  /\ Goto(t, "ins_next", "ins_first")
  /\ next' = [next EXCEPT ![t] = first]
  /\ UNCHANGED <<first, tcd, inited, idleWait, child, told, exited, regs>>

InsertFirst(t) ==
  /\ Goto(t, "ins_first", "ins_unlock")
  /\ first' = t
  /\ UNCHANGED <<next, tcd, inited, idleWait, child, told, exited, regs>>

InsertUnlock(t) ==
  /\ Goto(t, "ins_unlock", "bcast")
  /\ tcd' = None
  /\ UNCHANGED <<first, next, inited, idleWait, child, told, exited, regs>>

Broadcast(t) ==
  /\ Goto(t, "bcast", "ready")
  /\ idleWait' = [idleWait EXCEPT ![t] = {}]
  /\ Enter(t)
  /\ UNCHANGED <<first, next, tcd, inited, child, told, exited, cpu, saved>>

\* MAlloc, Free, MHeapCtrl, MSize and TaskStkNew run as C code with the registers of the
\* TempleOS code that calls them (module Heap has what they do).
HeapCall(t) ==
  /\ t \in Callers
  /\ Goto(t, "ready", "heap")
  /\ UNCHANGED <<first, next, tcd, inited, idleWait, child, told, exited, regs>>

HeapReturn(t) ==
  /\ Goto(t, "heap", "ready")
  /\ UNCHANGED <<first, next, tcd, inited, idleWait, child, told, exited, regs>>

\* The task's function returns; the thread says so under the mutex of the list, ends and
\* stays on it.
End(t) ==
  /\ t # Adam
  /\ Goto(t, "ready", "end_lock")
  /\ Exit(t)
  /\ UNCHANGED <<first, next, tcd, inited, idleWait, child, told, exited, cpu, saved>>

EndLock(t) ==
  /\ tcd = None
  /\ Goto(t, "end_lock", "gone")
  /\ UNCHANGED <<first, next, tcd, inited, idleWait, child, told, exited, regs>>

-----------------------------------------------------------------------------
(* signal_handler.                                                         *)

\* TempleOS code faults, the task's own or TaskInit, or the heap does.
Fault(t) ==
  /\ t \in MayFault
  /\ pc' = [pc EXCEPT ![t] = "sig_lock"]
  /\ \/ pc[t] = "init" /\ saved' = [saved EXCEPT ![cpu[t]] = t] /\ UNCHANGED fs
     \/ pc[t] \in {"ready", "heap"} /\ Exit(t) /\ UNCHANGED saved
  /\ UNCHANGED <<first, next, tcd, inited, idleWait, child, told, exited, cpu>>

SignalLock(t) ==
  /\ Goto(t, "sig_lock", "sig_exit")
  /\ TcdLock(t)
  /\ UNCHANGED <<first, next, inited, idleWait, child, told, exited, regs>>

SignalExit(t) ==
  /\ Goto(t, "sig_exit", "gone")
  /\ tcd' = None
  /\ exited' = (t = Adam)
  /\ UNCHANGED <<first, next, inited, idleWait, child, told, regs>>

-----------------------------------------------------------------------------
Spawning(t) == SpawnBlock(t) \/ SpawnWake(t)

Starting(t) ==
  \/ TaskInit(t) \/ InsertLock(t) \/ InsertNext(t) \/ InsertFirst(t) \/ InsertUnlock(t)
  \/ Broadcast(t)

Dying(t) == SignalLock(t) \/ SignalExit(t) \/ EndLock(t)

\* What nothing obliges a thread to do.
Calling(t) ==
  \/ Spawn(t) \/ SpawnFails(t) \/ SpawnSpurious(t) \/ StartFails(t) \/ End(t) \/ Fault(t)
  \/ HeapCall(t) \/ HeapReturn(t)

ThNext == ~exited /\ \E t \in Threads : Calling(t) \/ Spawning(t) \/ Starting(t) \/ Dying(t)

ThSpec == ThInit /\ [][ThNext]_thvars

-----------------------------------------------------------------------------
(* Properties.                                                             *)

ThTypeOK ==
  /\ first \in Threads /\ next \in [Threads -> Threads \cup {None}]
  /\ tcd \in Threads \cup {None}
  /\ inited \subseteq Threads /\ idleWait \in [Threads -> SUBSET Threads]
  /\ pc \in [Threads -> ThPCs] /\ child \in [Threads -> Tasks \cup {None}]
  /\ told \subseteq Tasks /\ exited \in BOOLEAN
  /\ fs \in [Threads -> [block : {"tls", "task"}, of : Threads \cup {None}]]
  /\ cpu \in [Threads -> Threads] /\ saved \in [Threads -> Threads \cup {None}]

\* The threads a walk from first_templeos_task meets, and in which order.
Walk ==
  LET n[k \in 1..Cardinality(Threads) + 1] ==
        IF k = 1 THEN first ELSE IF n[k - 1] = None THEN None ELSE next[n[k - 1]]
  IN  n

Listed == {Walk[k] : k \in DOMAIN Walk} \ {None}

\* The list that x11_start walks, window by window and with the mutex given up in
\* between, always ends, and a thread that has been linked is never lost from it,
\* however many threads start or fault at once (templeos_task_start).
ListKept ==
  [][Walk'[Cardinality(Threads) + 1] = None /\ Listed \subseteq Listed']_<<first, next>>

\* A Spawn that is woken by the broadcast returns a task that TaskInit has initialised and
\* that is on the list, whatever its thread has done since: the broadcast comes after both.
\* (One that returns by itself may return a task that is neither; one that waits after the
\* broadcast may never return: README, What is not modelled or not promised.)
ToldIsReady == told \subseteq inited \cap Listed
=============================================================================
