------------------------------ MODULE JobQueue ------------------------------
(***************************************************************************)
(* The waiting list of one CJobCtrl as it is in memory: a ring of next and *)
(* last pointers through the CJobCtrl (Ctrl) and the jobs, which QueIns    *)
(* and QueRem change one store at a time.  Posters insert with             *)
(* JOBCf_LOCKED set; the task's own thread removes with the bit set in     *)
(* JobsHndlr, and without it in ScanMsg, which holds the task's mutex      *)
(* instead.  No poster holds that mutex while it inserts (TaskMsg gives it *)
(* up before), so of the mutex only that matters which ScanMsg does not    *)
(* give back (held).  The refinement at the end is what allows JobCtl,     *)
(* where every list is changed under the bit, to take an insertion or a    *)
(* removal as one step.  MsgLoop and InputFilter, where some removals are  *)
(* not, keep the two ends of each apart and say when they overlap.         *)
(***************************************************************************)
EXTENDS Naturals, Sequences, FiniteSets

CONSTANTS
  Posters,     \* the threads that post a job
  Server,      \* the thread of the task
  Jobs,        \* the pool CJob structures are allocated from (bounds the model)
  Ctrl,        \* the CJobCtrl
  Null,
  PostCodes,   \* the codes of the jobs that are posted
  Scans        \* whether the server calls ScanMsg (else JobsHndlr only)

Threads == Posters \cup {Server}
Node == Jobs \cup {Ctrl}

ASSUME JobQueueAssumption ==
  /\ Server \notin Posters /\ Ctrl \notin Jobs /\ Null \notin Node
  /\ IsFiniteSet(Jobs)
  /\ PostCodes \subseteq {"EXE_STR", "MSG"}
  /\ Scans \in BOOLEAN

VARIABLES
  next, last,  \* the pointers of the nodes
  code,        \* job_code of the jobs
  alive,       \* the jobs that are allocated
  locked,      \* JOBCf_LOCKED
  held,        \* ScanMsg has gone round its loop with the task's mutex still locked
  pc,
  entry,       \* the job a thread inserts or removes
  pred, succ   \* the registers that hold its neighbours

mem == <<next, last, code, alive>>
regs == <<entry, pred, succ>>
vars == <<mem, locked, held, pc, regs>>

PCs == {"ready", "lock", "pred", "succ", "ins1", "ins2", "ins3", "ins4", "unlock",
        "head", "scan", "rem", "rem0", "rem1", "rem2", "rem_unlock", "run", "stuck", "faulted"}

Init ==
  /\ next = [n \in Node |-> IF n = Ctrl THEN Ctrl ELSE Null]
  /\ last = next
  /\ code = [j \in Jobs |-> "MSG"]
  /\ alive = {}
  /\ locked = FALSE
  /\ held = FALSE
  /\ pc = [t \in Threads |-> "ready"]
  /\ entry = [t \in Threads |-> Null]
  /\ pred = [t \in Threads |-> Null]
  /\ succ = [t \in Threads |-> Null]

Goto(t, from, to) == pc[t] = from /\ pc' = [pc EXCEPT ![t] = to]

\* Mutant: LBts once instead of in a loop.
LBtsOnce(t, from, to) == Goto(t, from, to) /\ locked' = TRUE

LBts(t, from, to) == Goto(t, from, to) /\ ~locked /\ locked' = TRUE

\* *where = value, a fault (SIGSEGV ends the thread) if where is NULL.
Store(t, f, where, value, from, to) ==
  IF where \in Node
  THEN Goto(t, from, to) /\ f' = [f EXCEPT ![where] = value]
  ELSE Goto(t, from, "faulted") /\ UNCHANGED f

-----------------------------------------------------------------------------
(* Posting: ACAlloc clears the job; QueIns(entry, head.last).              *)

Post(t) ==
  /\ t \in Posters
  /\ Goto(t, "ready", "lock")
  /\ \E j \in Jobs \ alive, c \in PostCodes :
       /\ alive' = alive \cup {j}
       /\ next' = [next EXCEPT ![j] = Null]
       /\ last' = [last EXCEPT ![j] = Null]
       /\ code' = [code EXCEPT ![j] = c]
       /\ entry' = [entry EXCEPT ![t] = j]
  /\ UNCHANGED <<locked, held, pred, succ>>

\* A sender of a message passes the task's mutex before it takes the bit (115-123).
PostLock(t) ==
  /\ LBts(t, "lock", "pred")
  /\ code[entry[t]] = "MSG" => ~held
  /\ UNCHANGED <<mem, held, regs>>

\* Mutant: QueIns(entry, head) instead of QueIns(entry, head.last).
QueInsFirst(t) ==
  /\ Goto(t, "pred", "succ")
  /\ pred' = [pred EXCEPT ![t] = Ctrl]
  /\ UNCHANGED <<mem, locked, held, entry, succ>>

\* A sender of a message has locked the mutex again, to signal (132).
QueInsPred(t) ==
  /\ Goto(t, "pred", "succ")
  /\ code[entry[t]] = "MSG" => ~held
  /\ pred' = [pred EXCEPT ![t] = last[Ctrl]]
  /\ UNCHANGED <<mem, locked, held, entry, succ>>

QueInsSucc(t) ==
  /\ Goto(t, "succ", "ins1")
  /\ succ' = [succ EXCEPT ![t] = next[pred[t]]]
  /\ UNCHANGED <<mem, locked, held, entry, pred>>

QueIns1(t) ==
  /\ Store(t, next, pred[t], entry[t], "ins1", "ins2")
  /\ UNCHANGED <<last, code, alive, locked, held, regs>>

QueIns2(t) ==
  /\ Store(t, next, entry[t], succ[t], "ins2", "ins3")
  /\ UNCHANGED <<last, code, alive, locked, held, regs>>

QueIns3(t) ==
  /\ Store(t, last, entry[t], pred[t], "ins3", "ins4")
  /\ UNCHANGED <<next, code, alive, locked, held, regs>>

\* Mutant: the CJobCtrl keeps its old last pointer.
QueIns4Skipped(t) ==
  /\ Goto(t, "ins4", "unlock")
  /\ UNCHANGED <<mem, locked, held, regs>>

QueIns4(t) ==
  /\ Store(t, last, succ[t], entry[t], "ins4", "unlock")
  /\ UNCHANGED <<next, code, alive, locked, held, regs>>

\* Mutant: return without LBtr, as in lilith_TaskExe.
PostStaysLocked(t) ==
  /\ Goto(t, "unlock", "ready")
  /\ entry' = [entry EXCEPT ![t] = Null]
  /\ UNCHANGED <<mem, locked, held, pred, succ>>

PostUnlock(t) ==
  /\ Goto(t, "unlock", "ready")
  /\ locked' = FALSE
  /\ entry' = [entry EXCEPT ![t] = Null]
  /\ UNCHANGED <<mem, held, pred, succ>>

-----------------------------------------------------------------------------
(* The thread of the task: JobsHndlr, then ScanMsg's own part if it was    *)
(* ScanMsg that called JobsHndlr.                                          *)

JobsHndlr(t) ==
  /\ t = Server
  /\ LBts(t, "ready", "head")
  /\ UNCHANGED <<mem, held, regs>>

\* A job JobRunOne runs is removed; else JobsHndlr clears the bit and locks the task's
\* mutex to signal (302), for ever if it is ScanMsg that has it.
JobsHndlrHead(t) ==
  /\ pc[t] = "head"
  /\ LET h == next[Ctrl]
         runs == h \in Jobs /\ code[h] = "EXE_STR"
     IN  /\ pc' = [pc EXCEPT ![t] = IF h = Null THEN "faulted" ELSE IF runs THEN "rem"
                                   ELSE IF held THEN "stuck" ELSE IF Scans THEN "scan" ELSE "ready"]
         /\ entry' = [entry EXCEPT ![t] = IF runs THEN h ELSE @]
         /\ locked' = (runs \/ h = Null)
  /\ UNCHANGED <<mem, held, pred, succ>>

\* ScanMsg reads the list, and removes its first job if it is a message, without
\* JOBCf_LOCKED.  With another job at the head it starts again with its mutex locked.
ScanMsg(t) ==
  /\ pc[t] = "scan"
  /\ LET h == next[Ctrl]
         msg == h \in Jobs /\ code[h] = "MSG"
     IN  /\ pc' = [pc EXCEPT ![t] = IF h = Null THEN "faulted" ELSE IF msg THEN "rem"
                                   ELSE "ready"]
         /\ entry' = [entry EXCEPT ![t] = IF msg THEN h ELSE @]
         /\ held' = (h \in Jobs /\ ~msg)
  /\ UNCHANGED <<mem, locked, pred, succ>>

QueRemSucc(t) ==
  /\ Goto(t, "rem", "rem0")
  /\ succ' = [succ EXCEPT ![t] = next[entry[t]]]
  /\ UNCHANGED <<mem, locked, held, entry, pred>>

QueRemPred(t) ==
  /\ Goto(t, "rem0", "rem1")
  /\ pred' = [pred EXCEPT ![t] = last[entry[t]]]
  /\ UNCHANGED <<mem, locked, held, entry, succ>>

QueRem1(t) ==
  /\ Store(t, next, pred[t], succ[t], "rem1", "rem2")
  /\ UNCHANGED <<last, code, alive, locked, held, regs>>

\* JobRunOne has the bit to clear, ScanMsg has not.
AfterRem(t) == IF code[entry[t]] = "EXE_STR" THEN "rem_unlock" ELSE "run"

QueRem2(t) ==
  /\ Store(t, last, succ[t], pred[t], "rem2", AfterRem(t))
  /\ UNCHANGED <<next, code, alive, locked, held, regs>>

RunUnlock(t) ==
  /\ Goto(t, "rem_unlock", "run")
  /\ locked' = FALSE
  /\ UNCHANGED <<mem, held, regs>>

\* The job is run, or the message is delivered or thrown out; JobDel.
Finish(t) ==
  /\ Goto(t, "run", "ready")
  /\ alive' = alive \ {entry[t]}
  /\ entry' = [entry EXCEPT ![t] = Null]
  /\ UNCHANGED <<next, last, code, locked, held, pred, succ>>

-----------------------------------------------------------------------------
Insert(t) ==
  \/ PostLock(t) \/ QueInsPred(t) \/ QueInsSucc(t) \/ QueIns1(t) \/ QueIns2(t)
  \/ QueIns3(t) \/ QueIns4(t) \/ PostUnlock(t)

Serve(t) ==
  \/ JobsHndlr(t) \/ JobsHndlrHead(t) \/ ScanMsg(t) \/ QueRemSucc(t) \/ QueRemPred(t)
  \/ QueRem1(t) \/ QueRem2(t) \/ RunUnlock(t) \/ Finish(t)

Next == \E t \in Threads : Post(t) \/ Insert(t) \/ Serve(t)

Spec == Init /\ [][Next]_vars

\* A thread inside one of these functions goes on, and the task serves for ever.
FairSpec == Spec /\ \A t \in Threads : WF_vars(Insert(t)) /\ WF_vars(Serve(t))

-----------------------------------------------------------------------------
(* Properties.                                                             *)

\* What a walk along next from the CJobCtrl meets: it stays at the CJobCtrl, or at the
\* NULL of a job whose next is not set yet.
Steps ==
  LET n[k \in 1..Cardinality(Jobs) + 1] ==
        IF k = 1 THEN next[Ctrl] ELSE IF n[k - 1] \in Jobs THEN next[n[k - 1]] ELSE n[k - 1]
  IN  n

\* The jobs among it.
Walk == SubSeq(Steps, 1, Cardinality({k \in DOMAIN Steps : Steps[k] \in Jobs}))

InWalk(j) == \E i \in 1..Len(Walk) : Walk[i] = j

\* The bit says that a thread changes the pointers.  While it is clear the ring is
\* whole: walking it forwards and backwards meets the same nodes, and those are
\* the jobs that are allocated and that no thread has in hand, once each.
RingWhole ==
  ~locked =>
    /\ \A n \in Node \ (Jobs \ alive) :
         n = Ctrl \/ InWalk(n) => next[last[n]] = n /\ last[next[n]] = n
    /\ {j \in Jobs : InWalk(j)} = alive \ {entry[t] : t \in Threads}
    /\ \A i, k \in 1..Len(Walk) : Walk[i] = Walk[k] => i = k

\* No store of QueIns or QueRem goes to a job that has been freed, or to NULL.
NoStaleStore ==
  \A t \in Threads :
    /\ pc[t] \in {"ins1", "ins3", "rem1", "rem2"} => pred[t] \in alive \cup {Ctrl}
    /\ pc[t] \in {"ins4", "rem2"} => succ[t] \in alive \cup {Ctrl}
    /\ pc[t] # "faulted"

\* From some moment on nobody posts.
Quiet == <>[] \A t \in Posters : pc[t] \in {"ready", "lock"}

\* "Post message to servant task." (lilith_TaskMsg): what is posted is taken by the
\* task, which goes on serving its list - as long as ScanMsg does not meet a job at
\* the head that is not a message, and lock itself out.
PostedIsTaken ==
  Quiet => \A t \in Posters, j \in Jobs :
             pc[t] = "unlock" /\ entry[t] = j ~> j \notin alive \/ held

\* The pointers implement the pending list of the job service: an insertion and a
\* removal are each one step of it.
Service == INSTANCE JobService WITH
  Tasks <- {Server},
  None <- Null,
  pending <- [t \in {Server} |-> Walk],
  running <- [t \in {Server} |->
                IF pc[t] \in {"rem2", "rem_unlock", "run"} THEN entry[t] ELSE Null],
  finished <- [t \in {Server} |-> <<>>]

ImplementsList == Service!SSpec
=============================================================================
