----------------------------- MODULE JobService -----------------------------
(***************************************************************************)
(* What the job control of Lilith2.HC promises to the tasks that use it,   *)
(* with no locks, no lists and no flags: a job submitted to a task is      *)
(* started once, in the order of submission; a started job is finished     *)
(* into the box of one task or discarded; a finished job is collected      *)
(* once.  A task that ends takes with it what it had not started or        *)
(* collected; a task that faults keeps its running job forever.            *)
(***************************************************************************)
EXTENDS Naturals, Sequences, SequencesExt

CONSTANTS Tasks, Jobs, None

VARIABLES
  pending,   \* the jobs submitted to a task, oldest first
  running,   \* the job a task runs
  finished   \* the jobs finished for a task, oldest first

svars == <<pending, running, finished>>

\* Job j is somewhere in the service.
Known(j) == \E t \in Tasks : Contains(pending[t], j) \/ running[t] = j \/ Contains(finished[t], j)

SInit ==
  /\ pending = [t \in Tasks |-> <<>>]
  /\ running = [t \in Tasks |-> None]
  /\ finished = [t \in Tasks |-> <<>>]

Submit(t, j) ==
  /\ ~Known(j)
  /\ pending' = [pending EXCEPT ![t] = Append(@, j)]
  /\ UNCHANGED <<running, finished>>

Start(t) ==
  /\ running[t] = None /\ pending[t] # <<>>
  /\ running' = [running EXCEPT ![t] = Head(pending[t])]
  /\ pending' = [pending EXCEPT ![t] = Tail(@)]
  /\ UNCHANGED finished

Finish(t, u) ==
  /\ running[t] # None
  /\ finished' = [finished EXCEPT ![u] = Append(@, running[t])]
  /\ running' = [running EXCEPT ![t] = None]
  /\ UNCHANGED pending

Discard(t) ==
  /\ running[t] # None
  /\ running' = [running EXCEPT ![t] = None]
  /\ UNCHANGED <<pending, finished>>

Collect(u, i) ==
  /\ finished' = [finished EXCEPT ![u] = RemoveAt(@, i)]
  /\ UNCHANGED <<pending, running>>

Retire(t) ==
  /\ running[t] = None
  /\ pending' = [pending EXCEPT ![t] = <<>>]
  /\ finished' = [finished EXCEPT ![t] = <<>>]
  /\ UNCHANGED running

SNext ==
  \E t \in Tasks :
    \/ Start(t) \/ Discard(t) \/ Retire(t)
    \/ \E u \in Tasks : Finish(t, u)
    \/ \E j \in Jobs : Submit(t, j)
    \/ \E i \in 1..Len(finished[t]) : Collect(t, i)

SSpec == SInit /\ [][SNext]_svars
=============================================================================
