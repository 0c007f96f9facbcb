--------------------------- MODULE JobQueueProofs ---------------------------
(***************************************************************************)
(* Theorems about the ring of JobQueue, for any posters and any pool of    *)
(* jobs, where every job is removed with JOBCf_LOCKED set: there a QueIns  *)
(* or QueRem of several stores is one step of a list.  (Where ScanMsg      *)
(* removes a message, it is not: the run `scan`.)                          *)
(***************************************************************************)
EXTENDS JobQueue, FiniteSetTheorems, SequenceTheorems, WellFoundedInduction, TLAPS

\* ScanMsg is not used, or meets no message.
Locking == ~Scans \/ "MSG" \notin PostCodes

Inserting == {"pred", "succ", "ins1", "ins2", "ins3", "ins4", "unlock"}
Removing == {"rem", "rem0", "rem1", "rem2", "rem_unlock"}
Critical == Inserting \cup Removing \cup {"head"}

\* A poster only inserts, the task's thread never does.
Roles ==
  /\ \A t \in Posters : pc[t] \in {"ready", "lock"} \cup Inserting
  /\ pc[Server] \in {"ready", "head", "run"} \cup Removing \cup (IF Scans THEN {"scan", "stuck"} ELSE {})

Typed ==
  /\ next \in [Node -> Node \cup {Null}] /\ last \in [Node -> Node \cup {Null}]
  /\ code \in [Jobs -> {"EXE_STR", "MSG"}] /\ alive \subseteq Jobs
  /\ \A j \in alive : code[j] \in PostCodes
  /\ locked \in BOOLEAN /\ held \in BOOLEAN
  /\ held => Scans
  /\ pc \in [Threads -> PCs] /\ Roles
  /\ entry \in [Threads -> Jobs \cup {Null}]
  /\ pred \in [Threads -> Node \cup {Null}] /\ succ \in [Threads -> Node \cup {Null}]

Exclusive ==
  \A t \in Threads : pc[t] \in Critical => locked /\ \A u \in Threads : pc[u] \in Critical => u = t

\* The jobs that are in no list: one is being posted, one is run.
InHand(t) == pc[t] \in {"lock", "pred", "succ", "ins1", "rem2", "rem_unlock", "run"}

\* The nodes of the ring in the order of next, from the CJobCtrl.
On(R) == {R[i] : i \in 1..Len(R)}
Up(R, i) == R[IF i = Len(R) THEN 1 ELSE i + 1]
Down(R, i) == R[IF i = 1 THEN Len(R) ELSE i - 1]
Order(R) ==
  /\ R \in Seq(Node) /\ Len(R) > 0 /\ R[1] = Ctrl
  /\ \A i, k \in 1..Len(R) : R[i] = R[k] => i = k

At(S) == \E t \in Threads : pc[t] \in S

\* Between the stores of QueIns the new job, already the last one, is not yet linked to the
\* CJobCtrl and the CJobCtrl not to it; between those of QueRem the first job still points
\* back to the one that is removed.
Fwd(R) ==
  \A i \in 1..Len(R) :
    \/ next[R[i]] = Up(R, i)
    \/ i = Len(R) /\ At({"ins2"})
Back(R) ==
  \A i \in 1..Len(R) :
    \/ last[R[i]] = Down(R, i)
    \/ i = Len(R) /\ At({"ins2", "ins3"})
    \/ i = 1 /\ At({"ins2", "ins3", "ins4"})
    \/ R[i] = Up(R, 1) /\ At({"rem2"})

\* What the registers hold.
Regs(R, t) ==
  /\ pc[t] \in {"ready", "head", "scan", "stuck"} => entry[t] = Null
  /\ InHand(t) => entry[t] \in alive \ On(R)
  /\ pc[t] \in {"succ", "ins1"} => pred[t] = R[Len(R)]
  /\ pc[t] \in {"ins1", "ins2", "ins3", "ins4"} => succ[t] = Ctrl
  /\ pc[t] \in {"ins2", "ins3", "ins4", "unlock"} => Len(R) > 1 /\ entry[t] = R[Len(R)]
  /\ pc[t] \in {"ins2", "ins3", "ins4"} => pred[t] = R[Len(R) - 1]
  /\ pc[t] \in {"lock", "pred", "succ", "ins1", "ins2"} => next[entry[t]] = Null
  /\ pc[t] \in Removing => entry[t] \in Jobs /\ code[entry[t]] = "EXE_STR"
  /\ pc[t] \in {"rem", "rem0", "rem1"} => Len(R) > 1 /\ entry[t] = R[2]
  /\ pc[t] \in {"rem0", "rem1"} => succ[t] = Up(R, 2)
  /\ pc[t] = "rem1" => pred[t] = Ctrl
  /\ pc[t] = "rem2" => succ[t] = Up(R, 1) /\ pred[t] = Ctrl

\* Where the jobs are.
Held(R) ==
  /\ On(R) \ {Ctrl} \subseteq alive
  /\ \A j \in alive : j \in On(R) \/ \E t \in Threads : InHand(t) /\ entry[t] = j
  /\ \A t, u \in Threads : InHand(t) /\ InHand(u) /\ entry[t] = entry[u] => t = u

Ring(R) ==
  /\ Order(R) /\ Fwd(R) /\ Back(R)
  /\ \A t \in Threads : Regs(R, t)
  /\ Held(R)

IInv == Typed /\ Exclusive /\ \E R \in Seq(Node) : Ring(R)

-----------------------------------------------------------------------------
(* The walk is the ring.                                                   *)

\* The nodes are as many as the jobs and one, so that a list of different ones is no longer.
LEMMA OrderFits ==
  ASSUME NEW R, Order(R)
  PROVE  /\ Cardinality(Jobs) \in Nat
         /\ Len(R) \in Nat /\ 1 <= Len(R) /\ Len(R) <= Cardinality(Jobs) + 1
<1>1. IsFiniteSet(Node) /\ Cardinality(Node) = Cardinality(Jobs) + 1 /\ Cardinality(Jobs) \in Nat
  BY FS_AddElement, FS_CardinalityType, JobQueueAssumption DEF JobQueueAssumption, Node
<1>2. R \in Injection(1..Len(R), Node) /\ Len(R) \in Nat \ {0}
  BY DEF Order, Injection, IsInjective
<1>3. IsFiniteSet(1..Len(R)) /\ Cardinality(1..Len(R)) = Len(R)
  BY <1>2, FS_Interval
<1> QED
  BY <1>1, <1>2, <1>3, FS_Injection, FS_CardinalityType

\* A set of naturals that is not empty has a least member.
LEMMA LeastNat ==
  ASSUME NEW S \in SUBSET Nat, S # {}
  PROVE  \E x \in S : \A y \in S : ~(y < x)
<1>1. \E x \in S : \A y \in S : ~(<<y, x>> \in OpToRel(<, Nat))
  BY NatLessThanWellFounded, WFMin
<1> QED
  BY <1>1 DEF OpToRel

WalkStep(f) ==
  [k \in 1..Cardinality(Jobs) + 1 |->
     IF k = 1 THEN next[Ctrl] ELSE IF f[k - 1] \in Jobs THEN next[f[k - 1]] ELSE f[k - 1]]

\* Where the links end: at the CJobCtrl or at NULL.
LastLink(R) == next[R[Len(R)]]

LEMMA StepsAre ==
  ASSUME NEW R, Order(R),
         \A i \in 1..Len(R) - 1 : next[R[i]] = R[i + 1], LastLink(R) \notin Jobs
  PROVE  Steps = [k \in 1..Cardinality(Jobs) + 1 |-> IF k < Len(R) THEN R[k + 1] ELSE LastLink(R)]
<1> DEFINE N == Cardinality(Jobs)
           w == [k \in 1..N + 1 |-> IF k < Len(R) THEN R[k + 1] ELSE LastLink(R)]
<1>1. N \in Nat /\ Len(R) \in Nat /\ 1 <= Len(R) /\ Len(R) <= N + 1
  BY OrderFits
<1>2. Steps = CHOOSE n : n = WalkStep(n)
  BY DEF Steps, WalkStep
<1>3. w = WalkStep(w)
  <2> SUFFICES ASSUME NEW k \in 1..N + 1
               PROVE  w[k] = IF k = 1 THEN next[Ctrl]
                             ELSE IF w[k - 1] \in Jobs THEN next[w[k - 1]] ELSE w[k - 1]
    BY DEF WalkStep
  <2>1. CASE k = 1
    <3>1. CASE ~(1 < Len(R))
      BY <1>1, <2>1, <3>1 DEF Order, LastLink
    <3>2. CASE 1 < Len(R)
      <4>1. 1 \in 1..Len(R) - 1 /\ 1 \in 1..N + 1 /\ 1 < Len(R)
        BY <1>1, <3>2
      <4>2. w[1] = R[1 + 1] /\ next[R[1]] = R[1 + 1]
        BY <4>1
      <4> QED
        BY <2>1, <4>2 DEF Order
    <3> QED
      BY <3>1, <3>2
  <2>2. CASE k # 1
    <3>1. k - 1 \in 1..N + 1 /\ (k - 1) + 1 = k
      BY <1>1, <2>2
    <3>2. CASE k - 1 < Len(R)
      <4>1. k \in 1..Len(R) /\ w[k - 1] = R[k]
        BY <1>1, <3>1, <3>2
      <4>2. R[k] \in Jobs
        BY <1>1, <2>2, <4>1 DEF Order, Node
      <4>3. w[k] = next[R[k]]
        <5>1. CASE k < Len(R)
          <6>1. k \in 1..Len(R) - 1
            BY <1>1, <4>1, <5>1
          <6> QED
            BY <5>1, <6>1
        <5>2. CASE k = Len(R)
          BY <5>2 DEF LastLink
        <5> QED
          BY <1>1, <4>1, <5>1, <5>2
      <4> QED
        BY <2>2, <4>1, <4>2, <4>3
    <3>3. CASE ~(k - 1 < Len(R))
      BY <1>1, <2>2, <3>1, <3>3
    <3> QED
      BY <3>2, <3>3
  <2> QED
    BY <2>1, <2>2
<1>4. \A f : f = WalkStep(f) => f = w
  <2> SUFFICES ASSUME NEW f, f = WalkStep(f) PROVE f = w
    OBVIOUS
  <2> DEFINE D == {k \in 1..N + 1 : f[k] # w[k]}
  <2>1. ASSUME D # {} PROVE FALSE
    <3>1. D \in SUBSET Nat
      BY <1>1
    <3>2. PICK k \in D : \A m \in D : ~(m < k)
      BY <2>1, <3>1, LeastNat
    <3> HIDE DEF w
    <3>3. k # 1
      <4>1. 1 \in 1..N + 1
        BY <1>1
      <4>2. f[1] = next[Ctrl] /\ w[1] = next[Ctrl]
        BY <1>3, <4>1 DEF WalkStep
      <4> QED
        BY <3>2, <4>2
    <3>4. k - 1 \in 1..N + 1 /\ k - 1 < k
      BY <1>1, <3>2, <3>3
    <3>5. f[k - 1] = w[k - 1]
      BY <3>2, <3>4
    <3>6. f[k] = IF f[k - 1] \in Jobs THEN next[f[k - 1]] ELSE f[k - 1]
      BY <3>2, <3>3 DEF WalkStep
    <3>7. w[k] = IF w[k - 1] \in Jobs THEN next[w[k - 1]] ELSE w[k - 1]
      BY <1>3, <3>2, <3>3 DEF WalkStep
    <3> QED
      BY <3>2, <3>5, <3>6, <3>7
  <2>2. \A k \in 1..N + 1 : f[k] = w[k]
    BY <2>1
  <2>3. f = [k \in 1..N + 1 |-> f[k]]
    BY DEF WalkStep
  <2> QED
    BY <2>2, <2>3
<1> HIDE DEF w
<1>5. Steps = w
  BY <1>2, <1>3, <1>4
<1> QED
  BY <1>5 DEF w

\* A sequence without its first member.
LEMMA RestOf ==
  ASSUME NEW S, NEW R, Len(R) \in Nat, 1 <= Len(R), \A k \in 2..Len(R) : R[k] \in S
  PROVE  /\ SubSeq(R, 2, Len(R)) \in Seq(S) /\ Len(SubSeq(R, 2, Len(R))) = Len(R) - 1
         /\ \A k \in 1..Len(R) - 1 : SubSeq(R, 2, Len(R))[k] = R[k + 1]
<1> DEFINE b == SubSeq(R, 2, Len(R))
<1>1. /\ b \in Seq(S)
      /\ Len(b) = IF 2 <= Len(R) THEN Len(R) - 2 + 1 ELSE 0
      /\ \A k \in 1..Len(R) - 2 + 1 : b[k] = R[2 + k - 1]
  BY SubSeqProperties
<1> HIDE DEF b
<1>2. Len(b) = Len(R) - 1
  <2>1. \A n \in Nat : 1 <= n => (IF 2 <= n THEN n - 2 + 1 ELSE 0) = n - 1
    OBVIOUS
  <2> QED
    BY <1>1, <2>1, Zenon
<1>3. \A k \in 1..Len(R) - 1 : k \in 1..Len(R) - 2 + 1 /\ 2 + k - 1 = k + 1
  OBVIOUS
<1>4. \A k \in 1..Len(R) - 1 : b[k] = R[k + 1]
  BY <1>1, <1>3, Zenon
<1> QED
  BY <1>1, <1>2, <1>4 DEF b

LEMMA WalkIs ==
  ASSUME NEW R, Order(R),
         \A i \in 1..Len(R) - 1 : next[R[i]] = R[i + 1], LastLink(R) \notin Jobs
  PROVE  Walk = SubSeq(R, 2, Len(R))
<1>1. /\ Cardinality(Jobs) \in Nat
      /\ Len(R) \in Nat /\ 1 <= Len(R) /\ Len(R) <= Cardinality(Jobs) + 1
  BY OrderFits
<1>2. Steps = [k \in 1..Cardinality(Jobs) + 1 |-> IF k < Len(R) THEN R[k + 1] ELSE LastLink(R)]
  BY StepsAre
<1>3. \A i \in 2..Len(R) : R[i] \in Jobs
  BY <1>1 DEF Order, Node
<1>4. \A k \in 1..Cardinality(Jobs) + 1 : Steps[k] \in Jobs <=> k < Len(R)
  <2> TAKE k \in 1..Cardinality(Jobs) + 1
  <2>1. CASE k < Len(R)
    <3>1. k + 1 \in 2..Len(R)
      BY <1>1, <2>1
    <3> QED
      BY <1>2, <1>3, <2>1, <3>1
  <2>2. CASE ~(k < Len(R))
    BY <1>2, <2>2
  <2> QED
    BY <2>1, <2>2
<1>5. {k \in DOMAIN Steps : Steps[k] \in Jobs} = 1..Len(R) - 1
  <2>1. DOMAIN Steps = 1..Cardinality(Jobs) + 1
    BY <1>2
  <2>2. \A k : k \in 1..Len(R) - 1 <=> k \in 1..Cardinality(Jobs) + 1 /\ k < Len(R)
    BY <1>1
  <2> QED
    BY <1>4, <2>1, <2>2
<1>6. Cardinality(1..Len(R) - 1) = Len(R) - 1
  BY <1>1, FS_Interval
<1>7. Walk = SubSeq(Steps, 1, Len(R) - 1)
  BY <1>5, <1>6 DEF Walk
<1>8. Steps \in Seq(Node \cup {Null, LastLink(R)}) /\ Len(Steps) = Cardinality(Jobs) + 1
  <2>1. \A k \in 1..Cardinality(Jobs) + 1 : Steps[k] \in Node \cup {Null, LastLink(R)}
    BY <1>1, <1>2 DEF Order
  <2> QED
    BY <1>1, <1>2, <2>1
<1>9. SubSeq(Steps, 1, Len(R) - 1) = SubSeq(R, 2, Len(R))
  <2>1. R \in Seq(Node)
    BY DEF Order
  <2> DEFINE V == Node \cup {Null, LastLink(R)}
             a == SubSeq(Steps, 1, Len(R) - 1)
             b == SubSeq(R, 2, Len(R))
  <2>2. \A k \in 1..Len(R) - 1 : Steps[k] = R[k + 1] /\ Steps[k] \in V
    BY <1>1, <1>2, <1>8
  <2>3. \A k \in 2..Len(R) : R[k] \in V
    BY <2>1
  <2>4. a \in Seq(V) /\ Len(a) = Len(R) - 1 /\ \A k \in 1..Len(R) - 1 : a[k] = Steps[k]
    <3>1. /\ a \in Seq(V)
          /\ Len(a) = IF 1 <= Len(R) - 1 THEN (Len(R) - 1) - 1 + 1 ELSE 0
          /\ \A k \in 1..(Len(R) - 1) - 1 + 1 : a[k] = Steps[1 + k - 1]
      BY <1>1, <2>2, SubSeqProperties
    <3> HIDE DEF a
    <3>2. Len(a) = Len(R) - 1
      <4>1. \A n \in Nat : 1 <= n => (IF 1 <= n - 1 THEN (n - 1) - 1 + 1 ELSE 0) = n - 1
        OBVIOUS
      <4> QED
        BY <1>1, <3>1, <4>1, Zenon
    <3>3. \A k \in 1..Len(R) - 1 : k \in 1..(Len(R) - 1) - 1 + 1 /\ 1 + k - 1 = k
      BY <1>1
    <3>4. \A k \in 1..Len(R) - 1 : a[k] = Steps[k]
      BY <3>1, <3>3, Zenon
    <3> QED
      BY <3>1, <3>2, <3>4
  <2>5. b \in Seq(V) /\ Len(b) = Len(R) - 1 /\ \A k \in 1..Len(R) - 1 : b[k] = R[k + 1]
    BY <1>1, <2>3, RestOf
  <2> HIDE DEF a, b, V
  <2>6. \A k \in 1..Len(a) : a[k] = b[k]
    BY <1>1, <2>2, <2>4, <2>5
  <2>7. a = b
    BY <2>4, <2>5, <2>6, SeqEqual
  <2> QED
    BY <2>7 DEF a, b
<1> QED
  BY <1>7, <1>9


-----------------------------------------------------------------------------
(* The steps.                                                              *)

LEMMA ShapeOf ==
  ASSUME NEW R \in Seq(Node), Order(R)
  PROVE  /\ Len(R) \in Nat /\ 1 <= Len(R) /\ R[1] = Ctrl
         /\ \A i \in 1..Len(R) : /\ R[i] \in Node /\ Up(R, i) \in On(R) /\ Down(R, i) \in On(R)
                                 /\ i # 1 => R[i] \in Jobs
         /\ On(R) \subseteq Node /\ Ctrl \in On(R) /\ R[Len(R)] \in On(R)
  BY DEF Order, On, Up, Down, Node

\* While nobody has the bit, the ring is whole; the CJobCtrl always points to its first job.
LEMMA FirstOf ==
  ASSUME Typed, NEW R \in Seq(Node), Ring(R)
  PROVE  next[Ctrl] = Up(R, 1)
<1>1. Len(R) \in Nat /\ 1 <= Len(R) /\ R[1] = Ctrl
  BY ShapeOf DEF Ring, Order
<1>2. At({"ins2"}) => 1 < Len(R)
  BY DEF Ring, Regs, At
<1> QED
  BY <1>1, <1>2 DEF Ring, Fwd

\* The registers of the thread that changes the ring are nodes, so that nothing faults.
LEMMA NodesOf ==
  ASSUME Typed, NEW R \in Seq(Node), Ring(R), NEW t \in Threads
  PROVE  /\ pc[t] \in {"succ", "ins1", "ins2", "ins3", "ins4"} =>
              pred[t] \in On(R) /\ pred[t] \in Node
         /\ pc[t] \in {"ins1", "ins2", "ins3", "ins4"} => succ[t] = Ctrl /\ succ[t] \in Node
         /\ pc[t] \in Inserting => entry[t] \in Jobs
         /\ pc[t] \in {"ins2", "ins3", "ins4", "unlock"} => entry[t] \in On(R)
         /\ pc[t] \in {"rem", "rem0", "rem1"} => entry[t] \in On(R)
         /\ pc[t] \in {"rem1", "rem2"} => pred[t] = Ctrl /\ pred[t] \in Node
         /\ pc[t] \in {"rem0", "rem1", "rem2"} => succ[t] \in On(R) /\ succ[t] \in Node
<1>1. Order(R) /\ Regs(R, t)
  BY DEF Ring
<1>2. /\ Len(R) \in Nat /\ 1 <= Len(R)
      /\ \A i \in 1..Len(R) : R[i] \in On(R) /\ Up(R, i) \in On(R) /\ (i # 1 => R[i] \in Jobs)
      /\ On(R) \subseteq Node /\ Ctrl \in On(R)
  BY <1>1, ShapeOf DEF On
<1>3. pc[t] \in {"pred", "succ", "ins1"} => entry[t] \in Jobs
  BY <1>1 DEF Regs, InHand, Typed
<1>4. pc[t] \in {"ins2", "ins3", "ins4", "unlock", "rem", "rem0", "rem1"} => 1 < Len(R)
  BY <1>1 DEF Regs
<1>5. 1 < Len(R) => 2 \in 1..Len(R) /\ Len(R) \in 1..Len(R) /\ Len(R) - 1 \in 1..Len(R)
  BY <1>2
<1>6. 1 \in 1..Len(R) /\ Len(R) \in 1..Len(R)
  BY <1>2
<1>7. 1 < Len(R) => R[Len(R)] \in Jobs
  BY <1>2, <1>6
<1> QED
  BY <1>1, <1>2, <1>3, <1>4, <1>5, <1>6, <1>7 DEF Regs, Inserting, Removing, Node

\* While no store of QueIns or QueRem is still to come, all links are there.
LEMMA Settled ==
  ASSUME Typed, Exclusive, NEW R \in Seq(Node), Ring(R),
         NEW t \in Threads, pc[t] \in Critical \ {"ins2", "ins3", "ins4", "rem2"}
  PROVE  \A i \in 1..Len(R) : next[R[i]] = Up(R, i) /\ last[R[i]] = Down(R, i)
<1>1. \A S \in SUBSET {"ins2", "ins3", "ins4", "rem2"} : ~At(S)
  BY DEF Exclusive, At, Critical, Inserting, Removing
<1> QED
  BY <1>1 DEF Ring, Fwd, Back

\* What another thread than the one that changes the ring has.
LEMMA OtherRegs ==
  ASSUME NEW R, NEW M, NEW u \in Threads, Regs(R, u), pc[u] \notin Critical,
         pc'[u] = pc[u], entry'[u] = entry[u],
         pc[u] = "lock" => next'[entry[u]] = next[entry[u]],
              InHand(u) => entry[u] \in alive' \ On(M)
  PROVE  Regs(M, u)'
  BY DEF Regs, InHand, Critical, Inserting, Removing, On

LEMMA PostStep ==
  ASSUME Typed, Exclusive, Locking, NEW R \in Seq(Node), Ring(R), NEW t \in Threads, Post(t)
  PROVE  Typed' /\ Exclusive' /\ Ring(R)'
<1> USE JobQueueAssumption DEF JobQueueAssumption, Threads, Node, PCs, mem, regs
<1> USE DEF Critical, Inserting, Removing, InHand
<1>1. Typed'
  BY FirstOf, ShapeOf, NodesOf DEF Typed, Roles, Ring, Regs, Locking, Goto, Post
<1>2. Exclusive'
  BY NodesOf DEF Typed, Exclusive, Goto, Post
<1>3. Order(R)'
  BY DEF Ring, Order
<1>4. Fwd(R)' /\ Back(R)' /\ (\A u \in Threads : Regs(R, u)')
  <2> PICK j \in Jobs \ alive, c \in PostCodes :
        /\ alive' = alive \cup {j}
        /\ next' = [next EXCEPT ![j] = Null] /\ last' = [last EXCEPT ![j] = Null]
        /\ code' = [code EXCEPT ![j] = c]
        /\ entry' = [entry EXCEPT ![t] = j]
    BY DEF Post
  <2>1. /\ j \notin On(R) /\ \A u \in Threads : InHand(u) => entry[u] # j
        /\ \A u \in Threads : pc[u] \in Removing => entry[u] # j
    BY NodesOf DEF Ring, Held, Regs, Typed
  <2>2. \A x \in On(R) : next'[x] = next[x] /\ last'[x] = last[x]
    BY <2>1 DEF Typed, On
  <2>3. \A S : "ready" \notin S /\ At(S) => At(S)'
    BY DEF Typed, At, Goto, Post
  <2>4. \A i \in 1..Len(R) : R[i] \in On(R)
    BY DEF On
  <2>5. Fwd(R)'
    BY <2>2, <2>3, <2>4 DEF Ring, Fwd, Up
  <2>6. Back(R)'
    BY <2>2, <2>3, <2>4 DEF Ring, Back, Up, Down
  <2>7. ASSUME NEW u \in Threads PROVE Regs(R, u)'
    <3>1. CASE u = t
      BY <2>1, <3>1 DEF Regs, Goto, Post, Typed
    <3>2. CASE u # t
      <4>1. pc'[u] = pc[u] /\ entry'[u] = entry[u] /\ UNCHANGED <<pred, succ>> /\ Regs(R, u)
        BY <3>2 DEF Goto, Post, Typed, Ring
      <4>2. pc[u] \in {"lock", "pred", "succ", "ins1", "ins2"} => next'[entry[u]] = next[entry[u]]
        <5>1. pc[u] \in {"lock", "pred", "succ", "ins1"} => entry[u] \in Jobs /\ entry[u] # j
          BY <2>1, <4>1 DEF Regs, Typed
        <5>2. pc[u] = "ins2" => entry[u] \in On(R)
          BY NodesOf
        <5>3. \A x \in Jobs \ {j} : next'[x] = next[x]
          BY DEF Typed
        <5> QED
          BY <2>2, <5>1, <5>2, <5>3
      <4>3. pc[u] \in Removing => code'[entry[u]] = code[entry[u]]
        BY <2>1, <4>1 DEF Typed, Regs
      <4> QED
        BY <2>1, <4>1, <4>2, <4>3 DEF Regs, Up
    <3> QED
      BY <3>1, <3>2
  <2> QED
    BY <2>5, <2>6, <2>7
<1>7. Held(R)'
  BY NodesOf DEF Ring, Held, Regs, Typed, Goto, Post
<1> QED
  BY <1>1, <1>2, <1>3, <1>4, <1>7 DEF Ring

LEMMA PostLockStep ==
  ASSUME Typed, Exclusive, Locking, NEW R \in Seq(Node), Ring(R), NEW t \in Threads, PostLock(t)
  PROVE  Typed' /\ Exclusive' /\ Ring(R)'
<1> USE JobQueueAssumption DEF JobQueueAssumption, Threads, Node, PCs, mem, regs
<1> USE DEF Critical, Inserting, Removing, InHand
<1>1. Typed'
  BY FirstOf, ShapeOf, NodesOf DEF Typed, Roles, Ring, Regs, Locking, Goto, PostLock, LBts
<1>2. Exclusive'
  BY NodesOf DEF Typed, Exclusive, Goto, PostLock, LBts
<1>3. Order(R)'
  BY DEF Ring, Order
<1>4. Fwd(R)'
  BY NodesOf DEF Ring, Fwd, Up, At, Typed, Exclusive, Regs, Goto, PostLock, LBts
<1>5. Back(R)'
  BY NodesOf DEF Ring, Back, Up, Down, At, Typed, Exclusive, Regs, Goto, PostLock, LBts
<1>6. ASSUME NEW u \in Threads PROVE Regs(R, u)'
  BY <1>6, FirstOf, ShapeOf DEF Ring, Regs, Up, Typed, Exclusive, Roles, Locking, Goto, PostLock,
     LBts
<1>7. Held(R)'
  BY NodesOf DEF Ring, Held, Regs, Typed, Goto, PostLock, LBts
<1> QED
  BY <1>1, <1>2, <1>3, <1>4, <1>5, <1>6, <1>7 DEF Ring

LEMMA QueInsPredStep ==
  ASSUME Typed, Exclusive, Locking, NEW R \in Seq(Node), Ring(R), NEW t \in Threads, QueInsPred(t)
  PROVE  Typed' /\ Exclusive' /\ Ring(R)'
<1> USE JobQueueAssumption DEF JobQueueAssumption, Threads, Node, PCs, mem, regs
<1> USE DEF Critical, Inserting, Removing, InHand
<1>a. /\ Order(R) /\ Len(R) \in Nat /\ 1 <= Len(R) /\ R[1] = Ctrl /\ Regs(R, t)
      /\ \A i, k \in 1..Len(R) : R[i] = R[k] => i = k
  BY ShapeOf DEF Ring, Order
<1>b. last[Ctrl] = R[Len(R)]
  <2>1. pc[t] = "pred" /\ 1 \in 1..Len(R)
    BY <1>a DEF Goto, QueInsPred
  <2>2. last[R[1]] = Down(R, 1)
    BY <2>1, Settled
  <2> QED
    BY <1>a, <2>2 DEF Down
<1>1. Typed'
  BY <1>a, <1>b, FirstOf, ShapeOf, NodesOf DEF Typed, Roles, Ring, Regs, Locking, Goto, QueInsPred
<1>2. Exclusive'
  BY <1>a, <1>b, NodesOf DEF Typed, Exclusive, Goto, QueInsPred
<1>3. Order(R)'
  BY DEF Ring, Order
<1>4. Fwd(R)'
  BY <1>a, <1>b, NodesOf DEF Ring, Fwd, Up, At, Typed, Exclusive, Regs, Goto, QueInsPred
<1>5. Back(R)'
  BY <1>a, <1>b, NodesOf DEF Ring, Back, Up, Down, At, Typed, Exclusive, Regs, Goto, QueInsPred
<1>6. ASSUME NEW u \in Threads PROVE Regs(R, u)'
  <2>1. CASE u = t
    BY <2>1, <1>a, <1>b, ShapeOf, NodesOf DEF Ring, Regs, Up, Typed, Goto, QueInsPred
  <2>2. CASE u # t
    BY <2>2, <1>a, <1>b, OtherRegs DEF Ring, Held, Regs, Typed, Exclusive, Goto, QueInsPred
  <2> QED
    BY <2>1, <2>2
<1>7. Held(R)'
  BY <1>a, <1>b, NodesOf DEF Ring, Held, Regs, Typed, Goto, QueInsPred
<1> QED
  BY <1>1, <1>2, <1>3, <1>4, <1>5, <1>6, <1>7 DEF Ring

LEMMA QueInsSuccStep ==
  ASSUME Typed, Exclusive, Locking, NEW R \in Seq(Node), Ring(R), NEW t \in Threads, QueInsSucc(t)
  PROVE  Typed' /\ Exclusive' /\ Ring(R)'
<1> USE JobQueueAssumption DEF JobQueueAssumption, Threads, Node, PCs, mem, regs
<1> USE DEF Critical, Inserting, Removing, InHand
<1>a. /\ Order(R) /\ Len(R) \in Nat /\ 1 <= Len(R) /\ R[1] = Ctrl /\ Regs(R, t)
      /\ \A i, k \in 1..Len(R) : R[i] = R[k] => i = k
  BY ShapeOf DEF Ring, Order
<1>b. next[pred[t]] = Ctrl
  <2>1. pc[t] = "succ" /\ Len(R) \in 1..Len(R) /\ pred[t] = R[Len(R)]
    BY <1>a DEF Goto, QueInsSucc, Regs
  <2>2. next[R[Len(R)]] = Up(R, Len(R))
    BY <2>1, Settled
  <2> QED
    BY <1>a, <2>1, <2>2 DEF Up
<1>1. Typed'
  BY <1>a, <1>b, FirstOf, ShapeOf, NodesOf DEF Typed, Roles, Ring, Regs, Locking, Goto, QueInsSucc
<1>2. Exclusive'
  BY <1>a, <1>b, NodesOf DEF Typed, Exclusive, Goto, QueInsSucc
<1>3. Order(R)'
  BY DEF Ring, Order
<1>4. Fwd(R)'
  BY <1>a, <1>b, NodesOf DEF Ring, Fwd, Up, At, Typed, Exclusive, Regs, Goto, QueInsSucc
<1>5. Back(R)'
  BY <1>a, <1>b, NodesOf DEF Ring, Back, Up, Down, At, Typed, Exclusive, Regs, Goto, QueInsSucc
<1>6. ASSUME NEW u \in Threads PROVE Regs(R, u)'
  <2>1. CASE u = t
    BY <2>1, <1>a, <1>b, ShapeOf, NodesOf DEF Ring, Regs, Up, Typed, Goto, QueInsSucc
  <2>2. CASE u # t
    BY <2>2, <1>a, <1>b, OtherRegs DEF Ring, Held, Regs, Typed, Exclusive, Goto, QueInsSucc
  <2> QED
    BY <2>1, <2>2
<1>7. Held(R)'
  BY <1>a, <1>b, NodesOf DEF Ring, Held, Regs, Typed, Goto, QueInsSucc
<1> QED
  BY <1>1, <1>2, <1>3, <1>4, <1>5, <1>6, <1>7 DEF Ring

LEMMA QueIns2Step ==
  ASSUME Typed, Exclusive, Locking, NEW R \in Seq(Node), Ring(R), NEW t \in Threads, QueIns2(t)
  PROVE  Typed' /\ Exclusive' /\ Ring(R)'
<1> USE JobQueueAssumption DEF JobQueueAssumption, Threads, Node, PCs, mem, regs
<1> USE DEF Critical, Inserting, Removing, InHand
<1>a. /\ Order(R) /\ Len(R) \in Nat /\ 1 <= Len(R) /\ R[1] = Ctrl /\ Regs(R, t)
      /\ \A i, k \in 1..Len(R) : R[i] = R[k] => i = k
  BY ShapeOf DEF Ring, Order
<1>b. /\ pc[t] = "ins2" /\ pc' = [pc EXCEPT ![t] = "ins3"]
      /\ next' = [next EXCEPT ![entry[t]] = succ[t]]
      /\ UNCHANGED <<last, code, alive, locked, held, entry, pred, succ>>
  BY NodesOf DEF QueIns2, Store, Goto
<1>1. Typed'
  BY <1>a, <1>b, FirstOf, ShapeOf, NodesOf DEF Typed, Roles, Ring, Regs, Locking, QueIns2
<1>2. Exclusive'
  BY <1>a, <1>b, NodesOf DEF Typed, Exclusive, QueIns2
<1>3. Order(R)'
  BY DEF Ring, Order
<1>4. Fwd(R)'
  BY <1>a, <1>b, NodesOf DEF Ring, Fwd, Up, At, Typed, Exclusive, Regs, QueIns2
<1>5. Back(R)'
  BY <1>a, <1>b, NodesOf DEF Ring, Back, Up, Down, At, Typed, Exclusive, Regs, QueIns2
<1>6. ASSUME NEW u \in Threads PROVE Regs(R, u)'
  BY <1>6, <1>a, <1>b, FirstOf, ShapeOf DEF Ring, Regs, Up, Typed, Exclusive, Roles, Locking,
     QueIns2
<1>7. Held(R)'
  BY <1>a, <1>b, NodesOf DEF Ring, Held, Regs, Typed
<1> QED
  BY <1>1, <1>2, <1>3, <1>4, <1>5, <1>6, <1>7 DEF Ring

LEMMA QueIns3Step ==
  ASSUME Typed, Exclusive, Locking, NEW R \in Seq(Node), Ring(R), NEW t \in Threads, QueIns3(t)
  PROVE  Typed' /\ Exclusive' /\ Ring(R)'
<1> USE JobQueueAssumption DEF JobQueueAssumption, Threads, Node, PCs, mem, regs
<1> USE DEF Critical, Inserting, Removing, InHand
<1>a. /\ Order(R) /\ Len(R) \in Nat /\ 1 <= Len(R) /\ R[1] = Ctrl /\ Regs(R, t)
      /\ \A i, k \in 1..Len(R) : R[i] = R[k] => i = k
  BY ShapeOf DEF Ring, Order
<1>b. /\ pc[t] = "ins3" /\ pc' = [pc EXCEPT ![t] = "ins4"]
      /\ last' = [last EXCEPT ![entry[t]] = pred[t]]
      /\ UNCHANGED <<next, code, alive, locked, held, entry, pred, succ>>
  BY NodesOf DEF QueIns3, Store, Goto
<1>1. Typed'
  BY <1>a, <1>b, FirstOf, ShapeOf, NodesOf DEF Typed, Roles, Ring, Regs, Locking, QueIns3
<1>2. Exclusive'
  BY <1>a, <1>b, NodesOf DEF Typed, Exclusive, QueIns3
<1>3. Order(R)'
  BY DEF Ring, Order
<1>4. Fwd(R)'
  BY <1>a, <1>b, NodesOf DEF Ring, Fwd, Up, At, Typed, Exclusive, Regs, QueIns3
<1>5. Back(R)'
  BY <1>a, <1>b, NodesOf DEF Ring, Back, Up, Down, At, Typed, Exclusive, Regs, QueIns3
<1>6. ASSUME NEW u \in Threads PROVE Regs(R, u)'
  BY <1>6, <1>a, <1>b, FirstOf, ShapeOf DEF Ring, Regs, Up, Typed, Exclusive, Roles, Locking,
     QueIns3
<1>7. Held(R)'
  BY <1>a, <1>b, NodesOf DEF Ring, Held, Regs, Typed
<1> QED
  BY <1>1, <1>2, <1>3, <1>4, <1>5, <1>6, <1>7 DEF Ring

LEMMA QueIns4Step ==
  ASSUME Typed, Exclusive, Locking, NEW R \in Seq(Node), Ring(R), NEW t \in Threads, QueIns4(t)
  PROVE  Typed' /\ Exclusive' /\ Ring(R)'
<1> USE JobQueueAssumption DEF JobQueueAssumption, Threads, Node, PCs, mem, regs
<1> USE DEF Critical, Inserting, Removing, InHand
<1>a. /\ Order(R) /\ Len(R) \in Nat /\ 1 <= Len(R) /\ R[1] = Ctrl /\ Regs(R, t)
      /\ \A i, k \in 1..Len(R) : R[i] = R[k] => i = k
  BY ShapeOf DEF Ring, Order
<1>b. /\ pc[t] = "ins4" /\ pc' = [pc EXCEPT ![t] = "unlock"]
      /\ last' = [last EXCEPT ![succ[t]] = entry[t]]
      /\ UNCHANGED <<next, code, alive, locked, held, entry, pred, succ>>
  BY NodesOf DEF QueIns4, Store, Goto
<1>1. Typed'
  BY <1>a, <1>b, FirstOf, ShapeOf, NodesOf DEF Typed, Roles, Ring, Regs, Locking, QueIns4
<1>2. Exclusive'
  BY <1>a, <1>b, NodesOf DEF Typed, Exclusive, QueIns4
<1>3. Order(R)'
  BY DEF Ring, Order
<1>4. Fwd(R)'
  BY <1>a, <1>b, NodesOf DEF Ring, Fwd, Up, At, Typed, Exclusive, Regs, QueIns4
<1>5. Back(R)'
  <2> SUFFICES ASSUME NEW i \in 1..Len(R) PROVE last'[R[i]] = Down(R, i)
    BY DEF Back, Down, Up
  <2>1. R[i] \in Node /\ last'[Ctrl] = R[Len(R)] /\ (R[i] # Ctrl => last'[R[i]] = last[R[i]])
    BY <1>a, <1>b DEF Regs, Order, Typed
  <2>2. CASE i = 1
    BY <1>a, <2>1, <2>2 DEF Down
  <2>3. CASE i # 1
    <3>1. R[i] # Ctrl
      BY <1>a, <2>3
    <3>2. ~At({"ins2", "ins3"}) /\ ~At({"rem2"})
      BY <1>b DEF Exclusive, At
    <3>3. last[R[i]] = Down(R, i)
      BY <2>3, <3>2 DEF Ring, Back
    <3> QED
      BY <2>1, <3>1, <3>3
  <2> QED
    BY <2>2, <2>3
<1>6. ASSUME NEW u \in Threads PROVE Regs(R, u)'
  BY <1>6, <1>a, <1>b, FirstOf, ShapeOf DEF Ring, Regs, Up, Typed, Exclusive, Roles, Locking,
     QueIns4
<1>7. Held(R)'
  BY <1>a, <1>b, NodesOf DEF Ring, Held, Regs, Typed
<1> QED
  BY <1>1, <1>2, <1>3, <1>4, <1>5, <1>6, <1>7 DEF Ring

LEMMA PostUnlockStep ==
  ASSUME Typed, Exclusive, Locking, NEW R \in Seq(Node), Ring(R), NEW t \in Threads, PostUnlock(t)
  PROVE  Typed' /\ Exclusive' /\ Ring(R)'
<1> USE JobQueueAssumption DEF JobQueueAssumption, Threads, Node, PCs, mem, regs
<1> USE DEF Critical, Inserting, Removing, InHand
<1>1. Typed'
  BY FirstOf, ShapeOf, NodesOf DEF Typed, Roles, Ring, Regs, Locking, Goto, PostUnlock
<1>2. Exclusive'
  BY NodesOf DEF Typed, Exclusive, Goto, PostUnlock
<1>3. Order(R)'
  BY DEF Ring, Order
<1>4. Fwd(R)'
  BY NodesOf DEF Ring, Fwd, Up, At, Typed, Exclusive, Regs, Goto, PostUnlock
<1>5. Back(R)'
  BY NodesOf DEF Ring, Back, Up, Down, At, Typed, Exclusive, Regs, Goto, PostUnlock
<1>6. ASSUME NEW u \in Threads PROVE Regs(R, u)'
  BY <1>6, FirstOf, ShapeOf DEF Ring, Regs, Up, Typed, Exclusive, Roles, Locking, Goto, PostUnlock
<1>7. Held(R)'
  BY NodesOf DEF Ring, Held, Regs, Typed, Goto, PostUnlock
<1> QED
  BY <1>1, <1>2, <1>3, <1>4, <1>5, <1>6, <1>7 DEF Ring

LEMMA JobsHndlrStep ==
  ASSUME Typed, Exclusive, Locking, NEW R \in Seq(Node), Ring(R), NEW t \in Threads, JobsHndlr(t)
  PROVE  Typed' /\ Exclusive' /\ Ring(R)'
<1> USE JobQueueAssumption DEF JobQueueAssumption, Threads, Node, PCs, mem, regs
<1> USE DEF Critical, Inserting, Removing, InHand
<1>1. Typed'
  BY FirstOf, ShapeOf, NodesOf DEF Typed, Roles, Ring, Regs, Locking, Goto, JobsHndlr, LBts
<1>2. Exclusive'
  BY NodesOf DEF Typed, Exclusive, Goto, JobsHndlr, LBts
<1>3. Order(R)'
  BY DEF Ring, Order
<1>4. Fwd(R)'
  BY NodesOf DEF Ring, Fwd, Up, At, Typed, Exclusive, Regs, Goto, JobsHndlr, LBts
<1>5. Back(R)'
  BY NodesOf DEF Ring, Back, Up, Down, At, Typed, Exclusive, Regs, Goto, JobsHndlr, LBts
<1>6. ASSUME NEW u \in Threads PROVE Regs(R, u)'
  BY <1>6, FirstOf, ShapeOf DEF Ring, Regs, Up, Typed, Exclusive, Roles, Locking, Goto, JobsHndlr,
     LBts
<1>7. Held(R)'
  BY NodesOf DEF Ring, Held, Regs, Typed, Goto, JobsHndlr, LBts
<1> QED
  BY <1>1, <1>2, <1>3, <1>4, <1>5, <1>6, <1>7 DEF Ring

LEMMA JobsHndlrHeadStep ==
  ASSUME Typed, Exclusive, Locking, NEW R \in Seq(Node), Ring(R), NEW t \in Threads,
       JobsHndlrHead(t)
  PROVE  Typed' /\ Exclusive' /\ Ring(R)'
<1> USE JobQueueAssumption DEF JobQueueAssumption, Threads, Node, PCs, mem, regs
<1> USE DEF Critical, Inserting, Removing, InHand
<1>a. /\ Order(R) /\ Len(R) \in Nat /\ 1 <= Len(R) /\ R[1] = Ctrl /\ Regs(R, t)
      /\ \A i, k \in 1..Len(R) : R[i] = R[k] => i = k
  BY ShapeOf DEF Ring, Order
<1>b. /\ next[Ctrl] = (IF Len(R) = 1 THEN Ctrl ELSE R[2]) /\ next[Ctrl] \in Node
      /\ next[Ctrl] \in Jobs => 1 < Len(R) /\ next[Ctrl] = R[2] /\ R[2] \in alive
  <2>1. next[Ctrl] = Up(R, 1)
    BY FirstOf
  <2>2. \A i \in 1..Len(R) : R[i] \in Node /\ (R[i] # Ctrl => R[i] \in alive)
    BY <1>a DEF Ring, Held, On, Order
  <2>3. 1 < Len(R) => 2 \in 1..Len(R) /\ R[2] \in Node /\ R[2] # Ctrl /\ R[2] \in alive
    BY <1>a, <2>2
  <2>4. Up(R, 1) = IF 1 < Len(R) THEN R[2] ELSE Ctrl
    <3>1. CASE 1 < Len(R)
      <4>1. 1 # Len(R) /\ 1 + 1 = 2
        BY <1>a, <3>1
      <4> QED
        BY <3>1, <4>1, Zenon DEF Up
    <3>2. CASE ~(1 < Len(R))
      <4>0. \A n \in Nat : 1 <= n /\ ~(1 < n) => 1 = n
        OBVIOUS
      <4>1. 1 = Len(R)
        BY <1>a, <3>2, <4>0, Zenon
      <4> QED
        BY <1>a, <3>2, <4>1, Zenon DEF Up
    <3> QED
      BY <3>1, <3>2
  <2> QED
    BY <1>a, <2>1, <2>3, <2>4
<1>c. t = Server
  BY DEF Typed, Roles, JobsHndlrHead
<1>1. Typed'
  BY <1>a, <1>b, <1>c, FirstOf, ShapeOf, NodesOf DEF Typed, Roles, Ring, Regs, Locking, Goto,
     JobsHndlrHead
<1>2. Exclusive'
  BY <1>a, <1>b, <1>c, NodesOf DEF Typed, Exclusive, Goto, JobsHndlrHead
<1>3. Order(R)'
  BY DEF Ring, Order
<1>4. Fwd(R)'
  BY <1>a, <1>b, <1>c, NodesOf DEF Ring, Fwd, Up, At, Typed, Exclusive, Regs, Goto, JobsHndlrHead
<1>5. Back(R)'
  BY <1>a, <1>b, <1>c, NodesOf DEF Ring, Back, Up, Down, At, Typed, Exclusive, Regs, Goto,
     JobsHndlrHead
<1>6. ASSUME NEW u \in Threads PROVE Regs(R, u)'
  <2>1. CASE u = t
    BY <2>1, <1>a, <1>b, <1>c, ShapeOf, NodesOf DEF Ring, Regs, Up, Typed, Goto, JobsHndlrHead
  <2>2. CASE u # t
    BY <2>2, <1>a, <1>b, <1>c, OtherRegs DEF Ring, Held, Regs, Typed, Exclusive, Goto, JobsHndlrHead
  <2> QED
    BY <2>1, <2>2
<1>7. Held(R)'
  BY <1>a, <1>b, <1>c, NodesOf DEF Ring, Held, Regs, Typed, Goto, JobsHndlrHead
<1> QED
  BY <1>1, <1>2, <1>3, <1>4, <1>5, <1>6, <1>7 DEF Ring

LEMMA ScanMsgStep ==
  ASSUME Typed, Exclusive, Locking, NEW R \in Seq(Node), Ring(R), NEW t \in Threads, ScanMsg(t)
  PROVE  Typed' /\ Exclusive' /\ Ring(R)'
<1> USE JobQueueAssumption DEF JobQueueAssumption, Threads, Node, PCs, mem, regs
<1> USE DEF Critical, Inserting, Removing, InHand
<1>a. /\ Order(R) /\ Len(R) \in Nat /\ 1 <= Len(R) /\ R[1] = Ctrl /\ Regs(R, t)
      /\ \A i, k \in 1..Len(R) : R[i] = R[k] => i = k
  BY ShapeOf DEF Ring, Order
<1>b. /\ next[Ctrl] = (IF Len(R) = 1 THEN Ctrl ELSE R[2]) /\ next[Ctrl] \in Node
      /\ next[Ctrl] \in Jobs => 1 < Len(R) /\ next[Ctrl] = R[2] /\ R[2] \in alive
  <2>1. next[Ctrl] = Up(R, 1)
    BY FirstOf
  <2>2. \A i \in 1..Len(R) : R[i] \in Node /\ (R[i] # Ctrl => R[i] \in alive)
    BY <1>a DEF Ring, Held, On, Order
  <2>3. 1 < Len(R) => 2 \in 1..Len(R) /\ R[2] \in Node /\ R[2] # Ctrl /\ R[2] \in alive
    BY <1>a, <2>2
  <2>4. Up(R, 1) = IF 1 < Len(R) THEN R[2] ELSE Ctrl
    <3>1. CASE 1 < Len(R)
      <4>1. 1 # Len(R) /\ 1 + 1 = 2
        BY <1>a, <3>1
      <4> QED
        BY <3>1, <4>1, Zenon DEF Up
    <3>2. CASE ~(1 < Len(R))
      <4>0. \A n \in Nat : 1 <= n /\ ~(1 < n) => 1 = n
        OBVIOUS
      <4>1. 1 = Len(R)
        BY <1>a, <3>2, <4>0, Zenon
      <4> QED
        BY <1>a, <3>2, <4>1, Zenon DEF Up
    <3> QED
      BY <3>1, <3>2
  <2> QED
    BY <1>a, <2>1, <2>3, <2>4
<1>c. t = Server
  BY DEF Typed, Roles, ScanMsg
<1>d. /\ pc[t] = "scan" /\ pc' = [pc EXCEPT ![t] = "ready"]
      /\ UNCHANGED <<next, last, code, alive, locked, entry, pred, succ>>
  <2>1. next[Ctrl] \in Jobs => code[next[Ctrl]] # "MSG"
    BY <1>b, <1>c DEF Typed, Roles, Locking, ScanMsg
  <2>2. next[Ctrl] # Null
    BY <1>b DEF Node
  <2>3. /\ pc[t] = "scan"
        /\ pc' = [pc EXCEPT ![t] = "ready"] /\ entry' = [entry EXCEPT ![t] = entry[t]]
        /\ UNCHANGED <<next, last, code, alive, locked, pred, succ>>
    BY <2>1, <2>2 DEF ScanMsg
  <2> QED
    BY <2>3 DEF Typed
<1>1. Typed'
  BY <1>a, <1>b, <1>c, <1>d, FirstOf, ShapeOf, NodesOf DEF Typed, Roles, Ring, Regs, Locking,
     ScanMsg
<1>2. Exclusive'
  BY <1>a, <1>b, <1>c, <1>d, NodesOf DEF Typed, Exclusive, ScanMsg
<1>3. Order(R)'
  BY DEF Ring, Order
<1>4. Fwd(R)'
  BY <1>a, <1>b, <1>c, <1>d, NodesOf DEF Ring, Fwd, Up, At, Typed, Exclusive, Regs, ScanMsg
<1>5. Back(R)'
  <2>1. \A S \in SUBSET {"ins2", "ins3", "ins4", "rem2"} : At(S) => At(S)'
    BY <1>d DEF At, Typed
  <2>2. \A i \in 1..Len(R) : last'[R[i]] = last[R[i]] /\ Up(R, 1)' = Up(R, 1)
    BY <1>d DEF Up
  <2> QED
    BY <2>1, <2>2 DEF Ring, Back, Down
<1>6. ASSUME NEW u \in Threads PROVE Regs(R, u)'
  <2>1. CASE u = t
    BY <2>1, <1>a, <1>b, <1>c, <1>d, ShapeOf, NodesOf DEF Ring, Regs, Up, Typed, ScanMsg
  <2>2. CASE u # t
    BY <2>2, <1>a, <1>b, <1>c, <1>d, OtherRegs DEF Ring, Held, Regs, Typed, Exclusive, ScanMsg
  <2> QED
    BY <2>1, <2>2
<1>7. Held(R)'
  BY <1>a, <1>b, <1>c, <1>d, NodesOf DEF Ring, Held, Regs, Typed, ScanMsg
<1> QED
  BY <1>1, <1>2, <1>3, <1>4, <1>5, <1>6, <1>7 DEF Ring

LEMMA QueRemSuccStep ==
  ASSUME Typed, Exclusive, Locking, NEW R \in Seq(Node), Ring(R), NEW t \in Threads, QueRemSucc(t)
  PROVE  Typed' /\ Exclusive' /\ Ring(R)'
<1> USE JobQueueAssumption DEF JobQueueAssumption, Threads, Node, PCs, mem, regs
<1> USE DEF Critical, Inserting, Removing, InHand
<1>a. /\ Order(R) /\ Len(R) \in Nat /\ 1 <= Len(R) /\ R[1] = Ctrl /\ Regs(R, t)
      /\ \A i, k \in 1..Len(R) : R[i] = R[k] => i = k
  BY ShapeOf DEF Ring, Order
<1>b. next[entry[t]] = Up(R, 2)
  <2>1. pc[t] = "rem" /\ 2 \in 1..Len(R) /\ entry[t] = R[2]
    BY <1>a DEF Goto, QueRemSucc, Regs
  <2> QED
    BY <2>1, Settled
<1>1. Typed'
  BY <1>a, <1>b, FirstOf, ShapeOf, NodesOf DEF Typed, Roles, Ring, Regs, Locking, Goto, QueRemSucc
<1>2. Exclusive'
  BY <1>a, <1>b, NodesOf DEF Typed, Exclusive, Goto, QueRemSucc
<1>3. Order(R)'
  BY DEF Ring, Order
<1>4. Fwd(R)'
  BY <1>a, <1>b, NodesOf DEF Ring, Fwd, Up, At, Typed, Exclusive, Regs, Goto, QueRemSucc
<1>5. Back(R)'
  BY <1>a, <1>b, NodesOf DEF Ring, Back, Up, Down, At, Typed, Exclusive, Regs, Goto, QueRemSucc
<1>6. ASSUME NEW u \in Threads PROVE Regs(R, u)'
  <2>1. CASE u = t
    BY <2>1, <1>a, <1>b, ShapeOf, NodesOf DEF Ring, Regs, Up, Typed, Goto, QueRemSucc
  <2>2. CASE u # t
    BY <2>2, <1>a, <1>b, OtherRegs DEF Ring, Held, Regs, Typed, Exclusive, Goto, QueRemSucc
  <2> QED
    BY <2>1, <2>2
<1>7. Held(R)'
  BY <1>a, <1>b, NodesOf DEF Ring, Held, Regs, Typed, Goto, QueRemSucc
<1> QED
  BY <1>1, <1>2, <1>3, <1>4, <1>5, <1>6, <1>7 DEF Ring

LEMMA QueRemPredStep ==
  ASSUME Typed, Exclusive, Locking, NEW R \in Seq(Node), Ring(R), NEW t \in Threads, QueRemPred(t)
  PROVE  Typed' /\ Exclusive' /\ Ring(R)'
<1> USE JobQueueAssumption DEF JobQueueAssumption, Threads, Node, PCs, mem, regs
<1> USE DEF Critical, Inserting, Removing, InHand
<1>a. /\ Order(R) /\ Len(R) \in Nat /\ 1 <= Len(R) /\ R[1] = Ctrl /\ Regs(R, t)
      /\ \A i, k \in 1..Len(R) : R[i] = R[k] => i = k
  BY ShapeOf DEF Ring, Order
<1>b. last[entry[t]] = Ctrl
  <2>1. pc[t] = "rem0" /\ 2 \in 1..Len(R) /\ entry[t] = R[2]
    BY <1>a DEF Goto, QueRemPred, Regs
  <2>2. last[R[2]] = Down(R, 2)
    BY <2>1, Settled
  <2> QED
    BY <1>a, <2>1, <2>2 DEF Down
<1>1. Typed'
  BY <1>a, <1>b, FirstOf, ShapeOf, NodesOf DEF Typed, Roles, Ring, Regs, Locking, Goto, QueRemPred
<1>2. Exclusive'
  BY <1>a, <1>b, NodesOf DEF Typed, Exclusive, Goto, QueRemPred
<1>3. Order(R)'
  BY DEF Ring, Order
<1>4. Fwd(R)'
  BY <1>a, <1>b, NodesOf DEF Ring, Fwd, Up, At, Typed, Exclusive, Regs, Goto, QueRemPred
<1>5. Back(R)'
  BY <1>a, <1>b, NodesOf DEF Ring, Back, Up, Down, At, Typed, Exclusive, Regs, Goto, QueRemPred
<1>6. ASSUME NEW u \in Threads PROVE Regs(R, u)'
  <2>1. CASE u = t
    BY <2>1, <1>a, <1>b, ShapeOf, NodesOf DEF Ring, Regs, Up, Typed, Goto, QueRemPred
  <2>2. CASE u # t
    BY <2>2, <1>a, <1>b, OtherRegs DEF Ring, Held, Regs, Typed, Exclusive, Goto, QueRemPred
  <2> QED
    BY <2>1, <2>2
<1>7. Held(R)'
  BY <1>a, <1>b, NodesOf DEF Ring, Held, Regs, Typed, Goto, QueRemPred
<1> QED
  BY <1>1, <1>2, <1>3, <1>4, <1>5, <1>6, <1>7 DEF Ring

LEMMA QueRem2Step ==
  ASSUME Typed, Exclusive, Locking, NEW R \in Seq(Node), Ring(R), NEW t \in Threads, QueRem2(t)
  PROVE  Typed' /\ Exclusive' /\ Ring(R)'
<1> USE JobQueueAssumption DEF JobQueueAssumption, Threads, Node, PCs, mem, regs
<1> USE DEF Critical, Inserting, Removing, InHand
<1>a. /\ Order(R) /\ Len(R) \in Nat /\ 1 <= Len(R) /\ R[1] = Ctrl /\ Regs(R, t)
      /\ \A i, k \in 1..Len(R) : R[i] = R[k] => i = k
  BY ShapeOf DEF Ring, Order
<1>b. /\ pc[t] = "rem2" /\ pc' = [pc EXCEPT ![t] = "rem_unlock"]
      /\ last' = [last EXCEPT ![succ[t]] = pred[t]]
      /\ UNCHANGED <<next, code, alive, locked, held, entry, pred, succ>>
  BY <1>a, NodesOf DEF QueRem2, Store, AfterRem, Goto, Regs
<1>1. Typed'
  BY <1>a, <1>b, FirstOf, ShapeOf, NodesOf DEF Typed, Roles, Ring, Regs, Locking, QueRem2
<1>2. Exclusive'
  BY <1>a, <1>b, NodesOf DEF Typed, Exclusive, QueRem2
<1>3. Order(R)'
  BY DEF Ring, Order
<1>4. Fwd(R)'
  BY <1>a, <1>b, NodesOf DEF Ring, Fwd, Up, At, Typed, Exclusive, Regs, QueRem2
<1>5. Back(R)'
  <2> SUFFICES ASSUME NEW i \in 1..Len(R) PROVE last'[R[i]] = Down(R, i)
    BY DEF Back, Down, Up
  <2>1. /\ R[i] \in Node /\ succ[t] = Up(R, 1) /\ pred[t] = Ctrl
        /\ \A S \in {{"ins2"}, {"ins2", "ins3"}, {"ins2", "ins3", "ins4"}} : ~At(S)
    BY <1>a, <1>b DEF Regs, Order, Exclusive, At
  <2>2. CASE R[i] = Up(R, 1)
    <3>1. last'[R[i]] = Ctrl
      BY <1>b, <2>1, <2>2 DEF Typed
    <3>2. Down(R, i) = R[1]
      <4>0. \A n \in Nat : 1 <= n => IF n = 1 THEN \A k \in 1..n : k = n
                                          ELSE 2 \in 1..n /\ 1 # n /\ 1 + 1 = 2
        OBVIOUS
      <4>1. CASE Len(R) = 1
        <5>1. i = Len(R)
          BY <1>a, <4>0, <4>1, Zenon
        <5> QED
          BY <4>1, <5>1, Zenon DEF Down
      <4>2. CASE Len(R) # 1
        <5>a. 2 \in 1..Len(R) /\ 1 # Len(R) /\ 1 + 1 = 2
          BY <1>a, <4>0, <4>2, Zenon
        <5>1. 2 \in 1..Len(R) /\ R[i] = R[2]
          BY <2>2, <5>a, Zenon DEF Up
        <5>2. i = 2
          BY <1>a, <5>1
        <5> QED
          BY <5>2 DEF Down
      <4> QED
        BY <4>1, <4>2
    <3> QED
      BY <1>a, <3>1, <3>2
  <2>3. CASE R[i] # Up(R, 1)
    <3>1. last'[R[i]] = last[R[i]]
      BY <1>b, <2>1, <2>3 DEF Typed
    <3>2. last[R[i]] = Down(R, i)
      BY <2>1, <2>3 DEF Ring, Back
    <3> QED
      BY <3>1, <3>2
  <2> QED
    BY <2>2, <2>3
<1>6. ASSUME NEW u \in Threads PROVE Regs(R, u)'
  BY <1>6, <1>a, <1>b, FirstOf, ShapeOf DEF Ring, Regs, Up, Typed, Exclusive, Roles, Locking,
     QueRem2
<1>7. Held(R)'
  BY <1>a, <1>b, NodesOf DEF Ring, Held, Regs, Typed
<1> QED
  BY <1>1, <1>2, <1>3, <1>4, <1>5, <1>6, <1>7 DEF Ring

LEMMA RunUnlockStep ==
  ASSUME Typed, Exclusive, Locking, NEW R \in Seq(Node), Ring(R), NEW t \in Threads, RunUnlock(t)
  PROVE  Typed' /\ Exclusive' /\ Ring(R)'
<1> USE JobQueueAssumption DEF JobQueueAssumption, Threads, Node, PCs, mem, regs
<1> USE DEF Critical, Inserting, Removing, InHand
<1>1. Typed'
  BY FirstOf, ShapeOf, NodesOf DEF Typed, Roles, Ring, Regs, Locking, Goto, RunUnlock
<1>2. Exclusive'
  BY NodesOf DEF Typed, Exclusive, Goto, RunUnlock
<1>3. Order(R)'
  BY DEF Ring, Order
<1>4. Fwd(R)'
  BY NodesOf DEF Ring, Fwd, Up, At, Typed, Exclusive, Regs, Goto, RunUnlock
<1>5. Back(R)'
  BY NodesOf DEF Ring, Back, Up, Down, At, Typed, Exclusive, Regs, Goto, RunUnlock
<1>6. ASSUME NEW u \in Threads PROVE Regs(R, u)'
  BY <1>6, FirstOf, ShapeOf DEF Ring, Regs, Up, Typed, Exclusive, Roles, Locking, Goto, RunUnlock
<1>7. Held(R)'
  BY NodesOf DEF Ring, Held, Regs, Typed, Goto, RunUnlock
<1> QED
  BY <1>1, <1>2, <1>3, <1>4, <1>5, <1>6, <1>7 DEF Ring

LEMMA FinishStep ==
  ASSUME Typed, Exclusive, Locking, NEW R \in Seq(Node), Ring(R), NEW t \in Threads, Finish(t)
  PROVE  Typed' /\ Exclusive' /\ Ring(R)'
<1> USE JobQueueAssumption DEF JobQueueAssumption, Threads, Node, PCs, mem, regs
<1> USE DEF Critical, Inserting, Removing, InHand
<1>1. Typed'
  BY FirstOf, ShapeOf, NodesOf DEF Typed, Roles, Ring, Regs, Locking, Goto, Finish
<1>2. Exclusive'
  BY NodesOf DEF Typed, Exclusive, Goto, Finish
<1>3. Order(R)'
  BY DEF Ring, Order
<1>4. Fwd(R)'
  BY NodesOf DEF Ring, Fwd, Up, At, Typed, Exclusive, Regs, Goto, Finish
<1>5. Back(R)'
  BY NodesOf DEF Ring, Back, Up, Down, At, Typed, Exclusive, Regs, Goto, Finish
<1>6. ASSUME NEW u \in Threads PROVE Regs(R, u)'
  <2>1. CASE u = t
    BY <2>1, ShapeOf, NodesOf DEF Ring, Regs, Up, Typed, Goto, Finish
  <2>2. CASE u # t
    BY <2>2, OtherRegs DEF Ring, Held, Regs, Typed, Exclusive, Goto, Finish
  <2> QED
    BY <2>1, <2>2
<1>7. Held(R)'
  BY NodesOf DEF Ring, Held, Regs, Typed, Goto, Finish
<1> QED
  BY <1>1, <1>2, <1>3, <1>4, <1>5, <1>6, <1>7 DEF Ring

\* The first store of QueIns: the job becomes the last of the ring.
LEMMA QueIns1Step ==
  ASSUME Typed, Exclusive, Locking, NEW R \in Seq(Node), Ring(R), NEW t \in Threads, QueIns1(t)
  PROVE  Typed' /\ Exclusive' /\ \E M \in Seq(Node) : M = Append(R, entry[t]) /\ Ring(M)'
<1> USE JobQueueAssumption DEF JobQueueAssumption, Threads, Node, PCs, mem, regs
<1> USE DEF Critical, Inserting, Removing, InHand
<1>a. /\ Order(R) /\ Len(R) \in Nat /\ 1 <= Len(R) /\ R[1] = Ctrl /\ Regs(R, t)
      /\ \A i, k \in 1..Len(R) : R[i] = R[k] => i = k
  BY ShapeOf DEF Ring, Order
<1>b. /\ pc[t] = "ins1" /\ pc' = [pc EXCEPT ![t] = "ins2"]
      /\ next' = [next EXCEPT ![pred[t]] = entry[t]]
      /\ UNCHANGED <<last, code, alive, locked, held, entry, pred, succ>>
      /\ pred[t] = R[Len(R)] /\ succ[t] = Ctrl /\ next[entry[t]] = Null
      /\ entry[t] \in alive \ On(R) /\ entry[t] \in Jobs
  BY <1>a, NodesOf DEF QueIns1, Store, Goto, Regs, Typed
<1>c. PICK M \in Seq(Node) : M = Append(R, entry[t])
  <2>1. entry[t] \in Node /\ R \in Seq(Node)
    BY <1>b
  <2>2. Append(R, entry[t]) \in Seq(Node)
    BY <2>1, AppendProperties
  <2> QED
    BY <2>2
<1>d. /\ Len(M) = Len(R) + 1 /\ M[Len(M)] = entry[t]
      /\ \A i \in 1..Len(R) : M[i] = R[i] /\ R[i] \in On(R) /\ R[i] # entry[t]
  BY <1>a, <1>b, <1>c DEF On
<1>e. On(M) = On(R) \cup {entry[t]}
  <2>1. \A i \in 1..Len(M) : i \in 1..Len(R) \/ i = Len(M)
    BY <1>a, <1>d
  <2>2. Len(M) \in 1..Len(M) /\ \A i \in 1..Len(R) : i \in 1..Len(M)
    BY <1>a, <1>d
  <2> QED
    BY <1>d, <2>1, <2>2 DEF On
<1> HIDE DEF Critical, Inserting, Removing, InHand
<1>1. Typed'
  <2>1. entry[t] \in Node \cup {Null} /\ next' \in [Node -> Node \cup {Null}]
    BY <1>b DEF Typed
  <2>2. pc' \in [Threads -> PCs] /\ Roles'
    BY <1>b DEF Typed, Roles, Inserting, Removing
  <2> QED
    BY <1>b, <2>1, <2>2 DEF Typed
<1>2. Exclusive'
  BY <1>b DEF Typed, Exclusive, Critical, Inserting, Removing
<1>f. At({"ins2"})' /\ At({"ins2", "ins3"})' /\ At({"ins2", "ins3", "ins4"})'
  BY <1>b DEF Typed, At
<1>g. \A i \in 1..Len(R) : next[R[i]] = Up(R, i) /\ last[R[i]] = Down(R, i)
  BY <1>b, Settled DEF Critical, Inserting
<1>3. Order(M)'
  <2>1. ASSUME NEW i \in 1..Len(M), NEW k \in 1..Len(M), M[i] = M[k] PROVE i = k
    <3>1. (i \in 1..Len(R) \/ i = Len(M)) /\ (k \in 1..Len(R) \/ k = Len(M))
      BY <1>a, <1>d
    <3> QED
      BY <1>a, <1>d, <2>1, <3>1
  <2>2. Len(M) > 0 /\ M[1] = Ctrl
    BY <1>a, <1>d
  <2> QED
    BY <2>1, <2>2 DEF Order
<1>4. Fwd(M)'
  <2> SUFFICES ASSUME NEW i \in 1..Len(M), i # Len(M) PROVE next'[M[i]] = M[i + 1]
    BY <1>f DEF Fwd, Up
  <2>1. i \in 1..Len(R) /\ M[i] = R[i] /\ R[i] \in Node
    BY <1>a, <1>d DEF Order
  <2>2. CASE i = Len(R)
    BY <1>a, <1>b, <1>d, <2>1, <2>2 DEF Typed
  <2>3. CASE i # Len(R)
    <3>1. i + 1 \in 1..Len(R) /\ R[i] # R[Len(R)]
      BY <1>a, <2>1, <2>3
    <3>2. next'[R[i]] = next[R[i]] /\ next[R[i]] = R[i + 1]
      BY <1>b, <1>g, <2>1, <2>3, <3>1 DEF Typed, Up
    <3> QED
      BY <1>d, <2>1, <3>1, <3>2
  <2> QED
    BY <2>2, <2>3
<1>5. Back(M)'
  <2> SUFFICES ASSUME NEW i \in 1..Len(M), i # Len(M), i # 1 PROVE last'[M[i]] = M[i - 1]
    BY <1>f DEF Back, Down
  <2>1. i \in 1..Len(R) /\ i - 1 \in 1..Len(R)
    BY <1>a, <1>d
  <2> QED
    BY <1>b, <1>d, <1>g, <2>1 DEF Down
<1>6. ASSUME NEW u \in Threads PROVE Regs(M, u)'
  <2>1. CASE u = t
    <3>1. Len(M) - 1 = Len(R) /\ Len(R) \in 1..Len(R) /\ Len(M) > 1
      BY <1>a, <1>d
    <3>2. next'[entry[t]] = Null /\ pc'[t] = "ins2"
      BY <1>b, <1>d, <3>1 DEF Typed
    <3> QED
      BY <1>b, <1>d, <2>1, <3>1, <3>2 DEF Regs, InHand, Removing
  <2>2. CASE u # t
    <3>1. pc'[u] = pc[u] /\ entry'[u] = entry[u] /\ pc[u] \notin Critical /\ Regs(R, u)
      BY <1>b, <2>2 DEF Typed, Exclusive, Ring, Critical, Inserting
    <3>2. InHand(u) => entry[u] \in alive \ On(R) /\ entry[u] # entry[t]
      BY <1>b, <2>2, <3>1 DEF Ring, Held, Regs, InHand
    <3>3. InHand(u) => entry[u] \in alive' \ On(M)
      BY <1>b, <1>e, <3>2
    <3>4. Len(R) \in 1..Len(R) /\ R[Len(R)] \in On(R)
      BY <1>a DEF On
    <3>5. pc[u] = "lock" => next'[entry[u]] = next[entry[u]]
      BY <1>b, <3>2, <3>4 DEF Typed, InHand
    <3> QED
      BY <3>1, <3>3, <3>5, OtherRegs
  <2> QED
    BY <2>1, <2>2
<1>7. Held(M)'
  <2>1. On(M)' = On(M)
    BY DEF On
  <2>2. On(M) \ {Ctrl} \subseteq alive'
    BY <1>b, <1>e DEF Ring, Held
  <2>3. \A u \in Threads : InHand(u)' <=> InHand(u) /\ u # t
    BY <1>b DEF InHand, Typed
  <2>4. \A j \in alive' : j \in On(M) \/ \E u \in Threads : InHand(u)' /\ entry'[u] = j
    BY <1>b, <1>e, <2>3 DEF Ring, Held
  <2>5. \A v, u \in Threads : InHand(v)' /\ InHand(u)' /\ entry'[v] = entry'[u] => v = u
    BY <1>b, <2>3 DEF Ring, Held
  <2> QED
    BY <2>1, <2>2, <2>4, <2>5 DEF Held
<1>8. Ring(M)'
  BY <1>3, <1>4, <1>5, <1>6, <1>7 DEF Ring
<1> QED
  BY <1>c, <1>1, <1>2, <1>8

\* The first store of QueRem: the first job leaves the ring.
LEMMA QueRem1Step ==
  ASSUME Typed, Exclusive, Locking, NEW R \in Seq(Node), Ring(R), NEW t \in Threads, QueRem1(t)
  PROVE  /\ Typed' /\ Exclusive'
         /\ \E M \in Seq(Node) :
              /\ M = [i \in 1..Len(R) - 1 |-> IF i = 1 THEN Ctrl ELSE R[i + 1]]
              /\ Ring(M)'
<1> USE JobQueueAssumption DEF JobQueueAssumption, Threads, Node, PCs, mem, regs
<1> USE DEF Critical, Inserting, Removing, InHand
<1>a. /\ Order(R) /\ Len(R) \in Nat /\ 1 <= Len(R) /\ R[1] = Ctrl /\ Regs(R, t)
      /\ \A i, k \in 1..Len(R) : R[i] = R[k] => i = k
      /\ \A i \in 1..Len(R) : R[i] \in Node /\ R[i] \in On(R)
  BY ShapeOf DEF Ring, Order, On
<1>b. /\ pc[t] = "rem1" /\ pc' = [pc EXCEPT ![t] = "rem2"]
      /\ next' = [next EXCEPT ![Ctrl] = Up(R, 2)]
      /\ UNCHANGED <<last, code, alive, locked, held, entry, pred, succ>>
      /\ entry[t] = R[2] /\ 1 < Len(R) /\ succ[t] = Up(R, 2) /\ pred[t] = Ctrl
      /\ code[entry[t]] = "EXE_STR" /\ Up(R, 2) \in Node /\ entry[t] \in Jobs
  BY <1>a, NodesOf DEF QueRem1, Store, Goto, Regs
<1>c. PICK M \in Seq(Node) : M = [i \in 1..Len(R) - 1 |-> IF i = 1 THEN Ctrl ELSE R[i + 1]]
  <2>1. Len(R) - 1 \in Nat /\ \A i \in 1..Len(R) - 1 : i + 1 \in 1..Len(R)
    BY <1>a, <1>b
  <2>2. \A i \in 1..Len(R) - 1 : (IF i = 1 THEN Ctrl ELSE R[i + 1]) \in Node
    BY <1>a, <2>1
  <2>3. [i \in 1..Len(R) - 1 |-> IF i = 1 THEN Ctrl ELSE R[i + 1]] \in Seq(Node)
    BY <2>1, <2>2
  <2> QED
    BY <2>3
<1>d. /\ Len(M) = Len(R) - 1 /\ M[1] = Ctrl /\ Len(M) \in Nat /\ 1 <= Len(M)
      /\ \A i \in 2..Len(M) : M[i] = R[i + 1] /\ i + 1 \in 3..Len(R) /\ i + 1 \in 1..Len(R)
      /\ 2 \in 1..Len(R) /\ 1 \in 1..Len(R)
      /\ \A i \in 1..Len(M) : i = 1 \/ i \in 2..Len(M)
      /\ Len(M) \in 1..Len(M)
  BY <1>a, <1>b, <1>c
<1>e. On(M) = On(R) \ {R[2]}
  <2>1. \A i \in 1..Len(M) : M[i] \in On(R) \ {R[2]}
    BY <1>a, <1>d
  <2>2. ASSUME NEW i \in 1..Len(R), i # 2 PROVE R[i] \in On(M)
    <3>1. CASE i = 1
      BY <1>a, <1>d, <3>1 DEF On
    <3>2. CASE i # 1
      <4>1. i - 1 \in 2..Len(M) /\ i - 1 \in 1..Len(M) /\ (i - 1) + 1 = i
        BY <1>a, <1>d, <2>2, <3>2
      <4> QED
        BY <1>d, <4>1 DEF On
    <3> QED
      BY <3>1, <3>2
  <2> QED
    BY <2>1, <2>2 DEF On
<1>u. Up(M, 1) = Up(R, 2)
  <2>1. CASE Len(R) = 2
    BY <1>a, <1>d, <2>1 DEF Up
  <2>2. CASE Len(R) # 2
    <3>1. 1 # Len(M) /\ 2 \in 2..Len(M) /\ 1 + 1 = 2 /\ 2 + 1 = 3
      BY <1>a, <1>d, <2>2
    <3> QED
      BY <1>d, <2>2, <3>1 DEF Up
  <2> QED
    BY <2>1, <2>2
<1> HIDE DEF Critical, Inserting, Removing, InHand
<1>1. Typed'
  BY <1>b DEF Typed, Roles, Removing, Inserting
<1>2. Exclusive'
  BY <1>b DEF Typed, Exclusive, Critical, Inserting, Removing
<1>f. At({"rem2"})'
  BY <1>b DEF Typed, At
<1>g. \A i \in 1..Len(R) : next[R[i]] = Up(R, i) /\ last[R[i]] = Down(R, i)
  BY <1>b, Settled DEF Critical, Removing
<1>3. Order(M)'
  <2>1. ASSUME NEW i \in 1..Len(M), NEW k \in 1..Len(M), M[i] = M[k] PROVE i = k
    BY <1>a, <1>d, <2>1
  <2>2. Len(M) > 0
    BY <1>d
  <2> QED
    BY <1>d, <2>1, <2>2 DEF Order
<1>4. Fwd(M)'
  <2> SUFFICES ASSUME NEW i \in 1..Len(M) PROVE next'[M[i]] = Up(M, i)
    BY DEF Fwd, Up
  <2>1. CASE i = 1
    BY <1>b, <1>d, <1>u, <2>1 DEF Typed
  <2>2. CASE i # 1
    <3>1. i \in 2..Len(M) /\ M[i] = R[i + 1] /\ i + 1 \in 1..Len(R) /\ R[i + 1] # Ctrl
      BY <1>a, <1>d, <2>2
    <3>2. next'[R[i + 1]] = Up(R, i + 1)
      BY <1>a, <1>b, <1>g, <3>1 DEF Typed
    <3>3. CASE i = Len(M)
      BY <1>a, <1>d, <3>1, <3>2, <3>3 DEF Up
    <3>4. CASE i # Len(M)
      <4>1. i + 1 \in 2..Len(M) /\ i + 1 # Len(R) /\ (i + 1) + 1 = i + 2
        BY <1>a, <1>d, <3>1, <3>4
      <4> QED
        BY <1>d, <3>1, <3>2, <3>4, <4>1 DEF Up
    <3> QED
      BY <3>3, <3>4
  <2> QED
    BY <2>1, <2>2
<1>5. Back(M)'
  <2> SUFFICES ASSUME NEW i \in 1..Len(M), M[i] # Up(M, 1) PROVE last'[M[i]] = Down(M, i)
    BY <1>f DEF Back, Down, Up
  <2>1. CASE i = 1
    <3>1. Len(M) \in 2..Len(M) /\ Len(M) + 1 = Len(R)
      <4>1. Len(M) # 1
        BY <1>d, <2>1 DEF Up
      <4> QED
        BY <1>a, <1>d, <4>1
    <3>2. last[R[1]] = R[Len(R)]
      BY <1>d, <1>g DEF Down
    <3> QED
      BY <1>a, <1>b, <1>d, <2>1, <3>1, <3>2 DEF Down
  <2>2. CASE i # 1
    <3>0. i \in 2..Len(M) /\ (i + 1) - 1 = i /\ i + 1 # 1
      BY <1>d, <2>2
    <3>1. i \in 2..Len(M) /\ M[i] = R[i + 1] /\ i + 1 \in 1..Len(R) /\ (i + 1) - 1 = i
      BY <1>d, <3>0
    <3>2. i # 2
      <4>1. CASE i = 2
        <5>1. 1 # Len(M) /\ 1 + 1 = 2
          BY <1>d, <3>1, <4>1
        <5> QED
          BY <4>1, <5>1 DEF Up
      <4> QED
        BY <4>1
    <3>3. i - 1 \in 2..Len(M) /\ (i - 1) + 1 = i
      BY <1>d, <3>1, <3>2
    <3>4. last[R[i + 1]] = R[i]
      BY <1>g, <3>0, <3>1 DEF Down
    <3> QED
      BY <1>b, <1>d, <2>2, <3>1, <3>3, <3>4 DEF Down
  <2> QED
    BY <2>1, <2>2
<1>h. R[2] \in alive /\ R[2] \in On(R) /\ R[2] # Ctrl
  BY <1>a, <1>d DEF Ring, Held
<1>6. ASSUME NEW u \in Threads PROVE Regs(M, u)'
  <2>1. CASE u = t
    <3>1. pc'[t] = "rem2"
      BY <1>b DEF Typed
    <3> QED
      BY <1>b, <1>e, <1>h, <1>u, <2>1, <3>1 DEF Regs, InHand, Removing, On, Up
  <2>2. CASE u # t
    <3>1. pc'[u] = pc[u] /\ entry'[u] = entry[u] /\ pc[u] \notin Critical /\ Regs(R, u)
      BY <1>b, <2>2 DEF Typed, Exclusive, Ring, Critical, Removing
    <3>2. InHand(u) => entry[u] \in alive \ On(R)
      BY <3>1 DEF Regs
    <3>3. InHand(u) => entry[u] \in alive' \ On(M)
      BY <1>b, <1>e, <3>2
    <3>4. pc[u] = "lock" => next'[entry[u]] = next[entry[u]]
      BY <1>a, <1>b, <1>d, <3>2 DEF Typed, InHand
    <3> QED
      BY <3>1, <3>3, <3>4, OtherRegs
  <2> QED
    BY <2>1, <2>2
<1>7. Held(M)'
  <2>1. On(M)' = On(M)
    BY DEF On
  <2>2. On(M) \ {Ctrl} \subseteq alive'
    BY <1>b, <1>e DEF Ring, Held
  <2>3. \A u \in Threads : InHand(u)' <=> InHand(u) \/ u = t
    BY <1>b DEF InHand, Typed
  <2>4. \A j \in alive' : j \in On(M) \/ \E u \in Threads : InHand(u)' /\ entry'[u] = j
    BY <1>b, <1>e, <2>3 DEF Ring, Held
  <2>5. \A u \in Threads : InHand(u) => entry[u] # R[2]
    BY <1>h DEF Ring, Regs
  <2>6. \A v, u \in Threads : InHand(v)' /\ InHand(u)' /\ entry'[v] = entry'[u] => v = u
    BY <1>b, <2>3, <2>5 DEF Ring, Held
  <2> QED
    BY <2>1, <2>2, <2>4, <2>6 DEF Held
<1>8. Ring(M)'
  BY <1>3, <1>4, <1>5, <1>6, <1>7 DEF Ring
<1> QED
  BY <1>c, <1>1, <1>2, <1>8

-----------------------------------------------------------------------------
(* The invariant.                                                          *)

LEMMA RingInit == Init => IInv
<1> SUFFICES ASSUME Init PROVE IInv
  OBVIOUS
<1> USE JobQueueAssumption DEF JobQueueAssumption, Threads, Node, PCs
<1>1. Typed
  BY DEF Init, Typed, Roles
<1>2. Exclusive
  BY DEF Init, Exclusive, Critical, Inserting, Removing
<1>3. PICK R \in Seq(Node) : R = <<Ctrl>>
  <2>1. <<Ctrl>> \in Seq(Node)
    OBVIOUS
  <2> QED
    BY <2>1
<1>4. R[1] = Ctrl /\ Len(R) = 1 /\ \A i \in 1..Len(R) : i = 1
  BY <1>3
<1>5. Order(R) /\ On(R) = {Ctrl}
  BY <1>4 DEF Order, On
<1>6. Fwd(R) /\ Back(R)
  BY <1>4 DEF Init, Fwd, Back, Up, Down
<1>7. \A t \in Threads : Regs(R, t)
  BY DEF Init, Regs, InHand, Removing
<1>8. Held(R)
  BY <1>5 DEF Init, Held, InHand
<1> QED
  BY <1>1, <1>2, <1>5, <1>6, <1>7, <1>8 DEF IInv, Ring

LEMMA RingNext ==
  ASSUME Locking, IInv, [Next]_vars
  PROVE  IInv'
<1>1. PICK R \in Seq(Node) : Ring(R)
  BY DEF IInv
<1>2. Typed /\ Exclusive
  BY DEF IInv
<1>3. CASE UNCHANGED vars
  <2>1. Typed'
    BY <1>2, <1>3 DEF vars, mem, regs, Typed, Roles
  <2>2. Exclusive'
    BY <1>2, <1>3 DEF vars, Exclusive
  <2>3. Order(R)' /\ Held(R)' /\ \A t \in Threads : Regs(R, t)'
    BY <1>1, <1>3 DEF vars, mem, regs, Ring, Order, Held, On, InHand, Regs, Up
  <2>4. \A S : At(S)' <=> At(S)
    BY <1>3 DEF vars, At
  <2>5. Fwd(R)' /\ Back(R)'
    BY <1>1, <1>3, <2>4 DEF vars, mem, Ring, Fwd, Back, Up, Down
  <2> QED
    BY <2>1, <2>2, <2>3, <2>5 DEF IInv, Ring
<1>4. CASE Next
  <2>1. PICK t \in Threads : Post(t) \/ Insert(t) \/ Serve(t)
    BY <1>4 DEF Next
  <2>2. Typed' /\ Exclusive' /\ \E M \in Seq(Node) : Ring(M)'
    <3>1. CASE Post(t)
      BY <1>1, <1>2, <3>1, PostStep
    <3>2. CASE Insert(t)
      BY <1>1, <1>2, <3>2, PostLockStep, QueInsPredStep, QueInsSuccStep, QueIns1Step,
         QueIns2Step, QueIns3Step, QueIns4Step, PostUnlockStep DEF Insert
    <3>3. CASE Serve(t)
      BY <1>1, <1>2, <3>3, JobsHndlrStep, JobsHndlrHeadStep, ScanMsgStep, QueRemSuccStep,
         QueRemPredStep, QueRem1Step, QueRem2Step, RunUnlockStep, FinishStep DEF Serve
    <3> QED
      BY <2>1, <3>1, <3>2, <3>3
  <2> QED
    BY <2>2 DEF IInv
<1> QED
  BY <1>3, <1>4

-----------------------------------------------------------------------------
(* What it means for the walks and the stores.                             *)

\* A member of a list of nodes is met by the walk along it.
LEMMA WalkMeets ==
  ASSUME NEW R, Order(R), Walk = SubSeq(R, 2, Len(R))
  PROVE  /\ \A j : InWalk(j) <=> j \in On(R) \ {Ctrl}
         /\ \A i, k \in 1..Len(Walk) : Walk[i] = Walk[k] => i = k
<1>1. Len(R) \in Nat /\ 1 <= Len(R) /\ R[1] = Ctrl /\ \A i, k \in 1..Len(R) : R[i] = R[k] => i = k
  BY DEF Order
<1>2. Len(Walk) = Len(R) - 1 /\ \A k \in 1..Len(R) - 1 : Walk[k] = R[k + 1]
  <2>1. \A k \in 2..Len(R) : R[k] \in Node
    BY DEF Order
  <2> QED
    BY <1>1, <2>1, RestOf
<1>3. \A k \in 1..Len(R) - 1 : k + 1 \in 1..Len(R) /\ k + 1 # 1
  BY <1>1
<1>4. \A i \in 1..Len(R) : i = 1 \/ (i - 1 \in 1..Len(R) - 1 /\ (i - 1) + 1 = i)
  BY <1>1
<1>5. 1 \in 1..Len(R)
  BY <1>1
<1>6. ASSUME NEW j PROVE InWalk(j) <=> j \in On(R) \ {Ctrl}
  <2>1. ASSUME InWalk(j) PROVE j \in On(R) \ {Ctrl}
    <3>1. PICK k \in 1..Len(R) - 1 : R[k + 1] = j
      BY <1>2, <2>1 DEF InWalk
    <3>2. k + 1 \in 1..Len(R) /\ R[k + 1] # Ctrl
      BY <1>1, <1>3, <1>5
    <3> QED
      BY <3>1, <3>2 DEF On
  <2>2. ASSUME j \in On(R) \ {Ctrl} PROVE InWalk(j)
    <3>1. PICK i \in 1..Len(R) : R[i] = j /\ i # 1
      BY <1>1, <2>2 DEF On
    <3>2. i - 1 \in 1..Len(Walk) /\ Walk[i - 1] = j
      BY <1>2, <1>4, <3>1
    <3> QED
      BY <3>2 DEF InWalk
  <2> QED
    BY <2>1, <2>2
<1>7. ASSUME NEW i \in 1..Len(Walk), NEW k \in 1..Len(Walk), Walk[i] = Walk[k] PROVE i = k
  <2>1. i \in 1..Len(R) - 1 /\ k \in 1..Len(R) - 1
    BY <1>2
  <2>2. R[i + 1] = R[k + 1] /\ i + 1 \in 1..Len(R) /\ k + 1 \in 1..Len(R)
    BY <1>2, <1>3, <1>7, <2>1
  <2>3. i + 1 = k + 1
    BY <1>1, <2>2
  <2> QED
    BY <1>1, <2>1, <2>3
<1> QED
  BY <1>6, <1>7

\* The walk is the ring, without the CJobCtrl.
LEMMA WalkOfRing ==
  ASSUME Typed, NEW R \in Seq(Node), Ring(R)
  PROVE  Walk = SubSeq(R, 2, Len(R)) /\ Order(R)
<1>1. Order(R) /\ Len(R) \in Nat /\ 1 <= Len(R) /\ R[1] = Ctrl
  BY ShapeOf DEF Ring
<1>2. \A i \in 1..Len(R) - 1 : next[R[i]] = R[i + 1]
  <2> TAKE i \in 1..Len(R) - 1
  <2>1. i \in 1..Len(R) /\ i # Len(R)
    BY <1>1
  <2> QED
    BY <2>1 DEF Ring, Fwd, Up
<1>3. LastLink(R) \notin Jobs
  <2>1. Len(R) \in 1..Len(R) /\ Up(R, Len(R)) = Ctrl
    BY <1>1 DEF Up
  <2>2. At({"ins2"}) => LastLink(R) = Null
    BY DEF At, Ring, Regs, LastLink
  <2> QED
    BY <2>1, <2>2, JobQueueAssumption DEF JobQueueAssumption, Node, Ring, Fwd, LastLink
<1> QED
  BY <1>1, <1>2, <1>3, WalkIs

\* With the bit clear, all links are there, forwards and backwards.
LEMMA WholeWhenClear == IInv => RingWhole
<1> SUFFICES ASSUME IInv, ~locked PROVE RingWhole
  BY DEF RingWhole
<1>1. PICK R \in Seq(Node) : Ring(R)
  BY DEF IInv
<1>2. Typed /\ Exclusive
  BY DEF IInv
<1>3. /\ Order(R) /\ Len(R) \in Nat /\ 1 <= Len(R) /\ R[1] = Ctrl
      /\ \A i \in 1..Len(R) : R[i] \in Node /\ R[i] \in On(R)
  BY <1>1, ShapeOf DEF Ring, On
<1>4. \A t \in Threads : pc[t] \notin Critical
  BY <1>2 DEF Exclusive
<1>5. \A i \in 1..Len(R) : next[R[i]] = Up(R, i) /\ last[R[i]] = Down(R, i)
  <2>1. ~At({"ins2"}) /\ ~At({"ins2", "ins3"}) /\ ~At({"ins2", "ins3", "ins4"}) /\ ~At({"rem2"})
    BY <1>4 DEF At, Critical, Inserting, Removing
  <2> QED
    BY <1>1, <2>1 DEF Ring, Fwd, Back
<1>6. Walk = SubSeq(R, 2, Len(R))
  BY <1>1, <1>2, WalkOfRing
<1>7. /\ \A j : InWalk(j) <=> j \in On(R) \ {Ctrl}
      /\ \A i, k \in 1..Len(Walk) : Walk[i] = Walk[k] => i = k
  BY <1>3, <1>6, WalkMeets
<1>8. ASSUME NEW n \in Node \ (Jobs \ alive), n = Ctrl \/ InWalk(n)
      PROVE  next[last[n]] = n /\ last[next[n]] = n
  <2>1. PICK i \in 1..Len(R) : R[i] = n
    <3>1. 1 \in 1..Len(R)
      BY <1>3
    <3>2. n \in On(R)
      BY <1>3, <1>7, <1>8, <3>1
    <3> QED
      BY <3>2 DEF On
  <2>2. PICK k \in 1..Len(R) : last[n] = R[k] /\ Up(R, k) = n
    <3>1. CASE i = 1
      <4>1. Len(R) \in 1..Len(R)
        BY <1>3
      <4> QED
        BY <1>5, <2>1, <3>1, <4>1 DEF Up, Down
    <3>2. CASE i # 1
      <4>1. i - 1 \in 1..Len(R) /\ i - 1 # Len(R) /\ (i - 1) + 1 = i
        BY <1>3, <3>2
      <4> QED
        BY <1>5, <2>1, <3>2, <4>1 DEF Up, Down
    <3> QED
      BY <3>1, <3>2
  <2>3. PICK m \in 1..Len(R) : next[n] = R[m] /\ Down(R, m) = n
    <3>1. CASE i = Len(R)
      <4>1. 1 \in 1..Len(R)
        BY <1>3
      <4> QED
        BY <1>5, <2>1, <3>1, <4>1 DEF Up, Down
    <3>2. CASE i # Len(R)
      <4>1. i + 1 \in 1..Len(R) /\ i + 1 # 1 /\ (i + 1) - 1 = i
        BY <1>3, <3>2
      <4> QED
        BY <1>5, <2>1, <3>2, <4>1 DEF Up, Down
    <3> QED
      BY <3>1, <3>2
  <2> QED
    BY <1>5, <2>2, <2>3
<1>9. {j \in Jobs : InWalk(j)} = alive \ {entry[t] : t \in Threads}
  <2>1. On(R) \ {Ctrl} = alive \ {entry[t] : t \in Threads}
    <3>1. ASSUME NEW t \in Threads, entry[t] \in alive PROVE entry[t] \notin On(R)
      <4>1. Null \notin alive
        BY <1>2, JobQueueAssumption DEF JobQueueAssumption, Typed, Node
      <4>2. pc[t] \notin {"ready", "head", "scan", "stuck"}
        BY <1>1, <3>1, <4>1 DEF Ring, Regs
      <4>3. pc[t] \in {"ready", "lock", "scan", "stuck", "run"}
        BY <1>2, <1>4 DEF Typed, Roles, Threads, Critical
      <4> QED
        BY <1>1, <4>2, <4>3 DEF Ring, Regs, InHand
    <3>2. On(R) \ {Ctrl} \subseteq alive /\ Ctrl \notin alive
      BY <1>1, <1>2, JobQueueAssumption DEF JobQueueAssumption, Ring, Held, Typed
    <3>3. ASSUME NEW j \in alive, j \notin On(R) PROVE j \in {entry[t] : t \in Threads}
      BY <1>1, <3>3 DEF Ring, Held
    <3> QED
      BY <3>1, <3>2, <3>3
  <2>2. alive \subseteq Jobs
    BY <1>2 DEF Typed
  <2> QED
    BY <1>7, <2>1, <2>2
<1> QED
  BY <1>7, <1>8, <1>9 DEF RingWhole

LEMMA StoresFresh == IInv => NoStaleStore
<1> SUFFICES ASSUME IInv, NEW t \in Threads
             PROVE  /\ pc[t] \in {"ins1", "ins3", "rem1", "rem2"} => pred[t] \in alive \cup {Ctrl}
                    /\ pc[t] \in {"ins4", "rem2"} => succ[t] \in alive \cup {Ctrl}
                    /\ pc[t] # "faulted"
  BY DEF NoStaleStore
<1>1. PICK R \in Seq(Node) : Ring(R)
  BY DEF IInv
<1>2. On(R) \subseteq alive \cup {Ctrl}
  BY <1>1 DEF Ring, Held
<1>3. Typed
  BY DEF IInv
<1>4. pc[t] # "faulted"
  BY <1>3 DEF Typed, Roles, Threads, Inserting, Removing
<1> QED
  BY <1>1, <1>2, <1>3, <1>4, NodesOf

-----------------------------------------------------------------------------
(* The theorems.                                                           *)

LEMMA Invariant ==
  ASSUME Locking
  PROVE  Spec => []IInv
<1>1. Init => IInv
  BY RingInit
<1>2. IInv /\ [Next]_vars => IInv'
  BY RingNext
<1> QED
  BY <1>1, <1>2, PTL DEF Spec

\* Whenever JOBCf_LOCKED is clear, the ring of the waiting list is whole: walking it along
\* next from the CJobCtrl meets each waiting job once and comes back, and last is the
\* inverse of next.
THEOREM RingIsWhole ==
  ASSUME Locking
  PROVE  Spec => []RingWhole
<1>1. Spec => []IInv
  BY Invariant
<1>2. IInv => RingWhole
  BY WholeWhenClear
<1> QED
  BY <1>1, <1>2, PTL

\* A store of QueIns or QueRem never goes to a job that has been freed, or to NULL.
THEOREM StoresAreFresh ==
  ASSUME Locking
  PROVE  Spec => []NoStaleStore
<1>1. Spec => []IInv
  BY Invariant
<1>2. IInv => NoStaleStore
  BY StoresFresh
<1> QED
  BY <1>1, <1>2, PTL

-----------------------------------------------------------------------------
(* The ring implements the list of the job service: the first store of     *)
(* QueIns is Submit, the first of QueRem is Start, JobDel is Discard, and  *)
(* no other store or read is to be seen there.                             *)

\* The job the server has taken out, as the service sees it.
Running == IF pc[Server] \in {"rem2", "rem_unlock", "run"} THEN entry[Server] ELSE Null

LEMMA WalkOfRings ==
  \A R \in Seq(Node) : Typed /\ Ring(R) => Walk = SubSeq(R, 2, Len(R)) /\ Order(R)
  BY WalkOfRing

LEMMA WalkOfRingNext ==
  (\A R \in Seq(Node) : Typed /\ Ring(R) => Walk = SubSeq(R, 2, Len(R)) /\ Order(R))'
  BY WalkOfRings, PTL

\* The steps that are not seen.
LEMMA Unseen ==
  ASSUME Locking, Typed, Exclusive, NEW R \in Seq(Node), Ring(R), NEW t \in Threads,
         \/ Post(t) \/ PostLock(t) \/ QueInsPred(t) \/ QueInsSucc(t) \/ QueIns2(t)
         \/ QueIns3(t) \/ QueIns4(t) \/ PostUnlock(t)
         \/ JobsHndlr(t) \/ JobsHndlrHead(t) \/ ScanMsg(t) \/ QueRemSucc(t) \/ QueRemPred(t)
         \/ QueRem2(t) \/ RunUnlock(t)
  PROVE  Walk' = Walk /\ Running' = Running
<1>1. Typed' /\ Ring(R)'
  BY PostStep, PostLockStep, QueInsPredStep, QueInsSuccStep, QueIns2Step, QueIns3Step,
     QueIns4Step, PostUnlockStep, JobsHndlrStep, JobsHndlrHeadStep, ScanMsgStep,
     QueRemSuccStep, QueRemPredStep, QueRem2Step, RunUnlockStep
<1>2. Walk' = SubSeq(R, 2, Len(R)) /\ Walk = SubSeq(R, 2, Len(R))
  BY <1>1, WalkOfRings, WalkOfRingNext
<1>3. Running' = Running
  <2> USE JobQueueAssumption DEF JobQueueAssumption, Threads, Running, regs, mem
  <2>1. CASE t # Server
    <3>1. pc'[Server] = pc[Server] /\ entry'[Server] = entry[Server]
      <4>1. \/ Post(t) \/ PostLock(t) \/ QueInsPred(t) \/ QueInsSucc(t) \/ QueIns2(t)
            \/ QueIns3(t) \/ QueIns4(t) \/ PostUnlock(t)
        BY <2>1 DEF Typed, Roles, Inserting, JobsHndlr, JobsHndlrHead, ScanMsg, QueRemSucc,
           QueRemPred, QueRem2, RunUnlock, Store, Goto
      <4> QED
        BY <2>1, <4>1 DEF Typed, Post, PostLock, LBts, QueInsPred, QueInsSucc, QueIns2, QueIns3,
           QueIns4, PostUnlock, Store, Goto
    <3> QED
      BY <3>1
  <2>2. CASE t = Server
    <3>1. \/ JobsHndlr(t) \/ JobsHndlrHead(t) \/ ScanMsg(t) \/ QueRemSucc(t) \/ QueRemPred(t)
          \/ QueRem2(t) \/ RunUnlock(t)
      BY <2>2 DEF Typed, Roles, Removing, Post, PostLock, LBts, QueInsPred, QueInsSucc, QueIns2,
         QueIns3, QueIns4, PostUnlock, Store, Goto
    <3>2. CASE JobsHndlr(t) \/ JobsHndlrHead(t) \/ ScanMsg(t) \/ QueRemSucc(t) \/ QueRemPred(t)
      BY <2>2, <3>2 DEF Typed, JobsHndlr, LBts, JobsHndlrHead, ScanMsg, QueRemSucc, QueRemPred, Goto
    <3>3. CASE QueRem2(t)
      <4>1. code[entry[t]] = "EXE_STR" /\ succ[t] \in Node
        BY <3>3, NodesOf DEF QueRem2, Store, Goto, Ring, Regs, Removing
      <4> QED
        BY <2>2, <3>3, <4>1 DEF Typed, QueRem2, AfterRem, Store, Goto
    <3>4. CASE RunUnlock(t)
      BY <2>2, <3>4 DEF Typed, RunUnlock, Goto
    <3> QED
      BY <3>1, <3>2, <3>3, <3>4
  <2> QED
    BY <2>1, <2>2
<1> QED
  BY <1>2, <1>3

\* Of a list that is put on, or taken off, a ring.
LEMMA WalkOfAppend ==
  ASSUME NEW R \in Seq(Node), 1 <= Len(R), NEW e \in Node
  PROVE  SubSeq(Append(R, e), 2, Len(Append(R, e))) = Append(SubSeq(R, 2, Len(R)), e)
<1> DEFINE M == Append(R, e)
<1>1. Len(R) \in Nat /\ M \in Seq(Node) /\ Len(M) = Len(R) + 1 /\ M[Len(R) + 1] = e
      /\ \A i \in 1..Len(R) : M[i] = R[i]
  BY AppendProperties
<1> HIDE DEF M
<1> DEFINE a == SubSeq(R, 2, Len(R))
           b == SubSeq(M, 2, Len(M))
<1>2. /\ a \in Seq(Node) /\ Len(a) = Len(R) - 1
      /\ \A k \in 1..Len(R) - 1 : a[k] = R[k + 1]
  <2>1. \A k \in 2..Len(R) : R[k] \in Node
    BY <1>1
  <2> QED
    BY <1>1, <2>1, RestOf
<1>3. b \in Seq(Node) /\ Len(b) = Len(M) - 1 /\ \A k \in 1..Len(M) - 1 : b[k] = M[k + 1]
  <2>1. Len(M) \in Nat /\ 1 <= Len(M) /\ \A k \in 2..Len(M) : M[k] \in Node
    BY <1>1
  <2> QED
    BY <2>1, RestOf
<1> HIDE DEF a, b
<1>4. /\ Append(a, e) \in Seq(Node) /\ Len(Append(a, e)) = Len(R) /\ Append(a, e)[Len(R)] = e
      /\ \A k \in 1..Len(R) - 1 : Append(a, e)[k] = R[k + 1]
  <2>1. /\ Append(a, e) \in Seq(Node) /\ Len(Append(a, e)) = Len(a) + 1
        /\ Append(a, e)[Len(a) + 1] = e /\ \A k \in 1..Len(a) : Append(a, e)[k] = a[k]
    BY <1>2, AppendProperties
  <2>2. Len(a) + 1 = Len(R)
    BY <1>1, <1>2
  <2> QED
    BY <1>2, <2>1, <2>2
<1>5. ASSUME NEW k \in 1..Len(R) PROVE b[k] = Append(a, e)[k]
  <2>1. b[k] = M[k + 1]
    BY <1>1, <1>3
  <2>2. CASE k = Len(R)
    BY <1>1, <1>4, <2>1, <2>2
  <2>3. CASE k # Len(R)
    <3>1. k \in 1..Len(R) - 1 /\ k + 1 \in 1..Len(R)
      BY <1>1, <2>3
    <3> QED
      BY <1>1, <1>4, <2>1, <3>1
  <2> QED
    BY <2>2, <2>3
<1>6. Len(b) = Len(R)
  BY <1>1, <1>3
<1>7. b = Append(a, e)
  BY <1>3, <1>4, <1>5, <1>6, SeqEqual
<1> QED
  BY <1>7 DEF a, b, M

LEMMA WalkOfShift ==
  ASSUME NEW R \in Seq(Node), NEW M \in Seq(Node), 1 < Len(R),
         M = [i \in 1..Len(R) - 1 |-> IF i = 1 THEN Ctrl ELSE R[i + 1]]
  PROVE  /\ SubSeq(R, 2, Len(R)) # <<>>
         /\ R[2] = Head(SubSeq(R, 2, Len(R)))
         /\ SubSeq(M, 2, Len(M)) = Tail(SubSeq(R, 2, Len(R)))
<1>1. Len(R) \in Nat /\ Len(M) = Len(R) - 1 /\ Len(M) \in Nat /\ 1 <= Len(M)
  OBVIOUS
<1> DEFINE a == SubSeq(R, 2, Len(R))
           b == SubSeq(M, 2, Len(M))
<1>2. /\ a \in Seq(Node) /\ Len(a) = Len(R) - 1
      /\ \A k \in 1..Len(R) - 1 : a[k] = R[k + 1]
  <2>1. 1 <= Len(R) /\ \A k \in 2..Len(R) : R[k] \in Node
    BY <1>1
  <2> QED
    BY <1>1, <2>1, RestOf
<1>3. b \in Seq(Node) /\ Len(b) = Len(M) - 1 /\ \A k \in 1..Len(M) - 1 : b[k] = M[k + 1]
  <2>1. \A k \in 2..Len(M) : M[k] \in Node
    BY <1>1
  <2> QED
    BY <1>1, <2>1, RestOf
<1> HIDE DEF a, b
<1>4. Len(a) \in Nat /\ 1 <= Len(a) /\ 1 \in 1..Len(R) - 1 /\ 1 + 1 = 2
  BY <1>1, <1>2
<1>5. a # <<>> /\ Head(a) = R[2]
  BY <1>2, <1>4
<1>6. Tail(a) \in Seq(Node) /\ Len(Tail(a)) = Len(a) - 1
      /\ \A k \in 1..Len(Tail(a)) : Tail(a)[k] = a[k + 1]
  BY <1>2, <1>5, HeadTailProperties
<1>7. Len(b) = Len(Tail(a)) /\ Len(b) = Len(R) - 2
  BY <1>1, <1>2, <1>3, <1>6
<1>8. ASSUME NEW k \in 1..Len(b) PROVE b[k] = Tail(a)[k]
  <2>1. b[k] = M[k + 1] /\ k \in 1..Len(R) - 2
    BY <1>1, <1>3, <1>7
  <2>2. k + 1 \in 1..Len(R) - 1 /\ k + 1 # 1
    BY <1>1, <2>1
  <2>3. M[k + 1] = R[(k + 1) + 1]
    BY <2>2
  <2>4. Tail(a)[k] = R[(k + 1) + 1]
    BY <1>2, <1>6, <1>7, <2>2
  <2> QED
    BY <2>1, <2>3, <2>4
<1>9. b = Tail(a)
  BY <1>3, <1>6, <1>7, <1>8, SeqEqual
<1> QED
  BY <1>5, <1>9 DEF a, b

LEMMA ServiceInit == Init => Service!SInit
<1> SUFFICES ASSUME Init PROVE Service!SInit
  OBVIOUS
<1>1. PICK R \in Seq(Node) : R = <<Ctrl>>
  <2>1. <<Ctrl>> \in Seq(Node)
    BY DEF Node
  <2> QED
    BY <2>1
<1>2. Order(R) /\ Len(R) = 1
  BY <1>1 DEF Order
<1>3. LastLink(R) = Ctrl
  BY <1>1 DEF Init, LastLink, Node
<1>4. Walk = SubSeq(R, 2, Len(R))
  BY <1>2, <1>3, WalkIs, JobQueueAssumption DEF JobQueueAssumption
<1>5. Walk = <<>>
  BY <1>1, <1>2, <1>4
<1> QED
  BY <1>5 DEF Init, Service!SInit, Threads

LEMMA ServiceNext ==
  ASSUME Locking, IInv, [Next]_vars
  PROVE  [Service!SNext]_(Service!svars)
<1> USE DEF Service!svars
<1>1. PICK R \in Seq(Node) : Ring(R)
  BY DEF IInv
<1>2. Typed /\ Exclusive
  BY DEF IInv
<1>3. Walk = SubSeq(R, 2, Len(R)) /\ Order(R)
  BY <1>1, <1>2, WalkOfRings
<1>4. \A j : InWalk(j) <=> j \in On(R) \ {Ctrl}
  BY <1>3, WalkMeets
<1>5. ASSUME UNCHANGED vars PROVE Walk' = Walk /\ Running' = Running
  BY <1>5 DEF vars, mem, regs, Walk, Steps, Running
<1>6. ASSUME Walk' = Walk, Running' = Running PROVE UNCHANGED Service!svars
  BY <1>6 DEF Running
<1>7. ASSUME NEW t \in Threads, QueIns1(t) PROVE Service!SNext
  <2>1. PICK M \in Seq(Node) : M = Append(R, entry[t]) /\ Ring(M)'
    BY <1>1, <1>2, <1>7, QueIns1Step
  <2>2. /\ pc[t] = "ins1" /\ entry[t] \in alive \ On(R) /\ entry[t] \in Jobs
        /\ t # Server
    BY <1>1, <1>2, <1>7, JobQueueAssumption
    DEF QueIns1, Store, Goto, Ring, Regs, InHand, Typed, Roles, Threads, Removing,
        JobQueueAssumption
  <2>3. Typed'
    BY <1>1, <1>2, <1>7, QueIns1Step
  <2>4. Walk' = SubSeq(M, 2, Len(M))
    BY <2>1, <2>3, WalkOfRingNext
  <2>5. Walk' = Append(Walk, entry[t])
    <3>1. 1 <= Len(R) /\ entry[t] \in Node
      BY <1>3, <2>2 DEF Order, Node
    <3> QED
      BY <1>3, <2>1, <2>4, <3>1, WalkOfAppend
  <2>6. Running' = Running /\ Running # entry[t]
    <3>1. pc'[Server] = pc[Server] /\ entry'[Server] = entry[Server]
      BY <1>2, <1>7, <2>2 DEF QueIns1, Store, Goto, Typed, Threads, regs
    <3>2. InHand(t) /\ (Running # Null => InHand(Server) /\ Running = entry[Server])
      BY <2>2 DEF InHand, Running
    <3>3. Null # entry[t]
      BY <2>2, JobQueueAssumption DEF JobQueueAssumption, Node
    <3> QED
      BY <1>1, <2>2, <3>1, <3>2, <3>3 DEF Ring, Held, Running, Threads
  <2>7. ~Service!Known(entry[t])
    <3>1. ~Service!Contains(Walk, entry[t])
      BY <1>4, <2>2 DEF InWalk, Service!Contains
    <3> QED
      BY <2>6, <3>1 DEF Service!Known, Service!Contains, Running
  <2>8. Service!Submit(Server, entry[t])
    BY <2>5, <2>6, <2>7 DEF Service!Submit, Running
  <2> QED
    BY <2>2, <2>8 DEF Service!SNext
<1>8. ASSUME NEW t \in Threads, QueRem1(t) PROVE Service!SNext
  <2>1. PICK M \in Seq(Node) :
          /\ M = [i \in 1..Len(R) - 1 |-> IF i = 1 THEN Ctrl ELSE R[i + 1]]
          /\ Ring(M)'
    BY <1>1, <1>2, <1>8, QueRem1Step
  <2>2. /\ pc[t] = "rem1" /\ entry[t] = R[2] /\ 1 < Len(R) /\ entry[t] \in Jobs /\ t = Server
        /\ pred[t] = Ctrl
    BY <1>1, <1>2, <1>8
    DEF QueRem1, Store, Goto, Ring, Regs, Typed, Roles, Threads, Removing, Inserting
  <2>3. Typed'
    BY <1>1, <1>2, <1>8, QueRem1Step
  <2>4. Walk' = SubSeq(M, 2, Len(M))
    BY <2>1, <2>3, WalkOfRingNext
  <2>5. Walk # <<>> /\ entry[t] = Head(Walk) /\ Walk' = Tail(Walk)
    BY <1>3, <2>1, <2>2, <2>4, WalkOfShift
  <2>6. Running = Null /\ Running' = entry[t]
    BY <1>2, <1>8, <2>2 DEF QueRem1, Store, Goto, Typed, Threads, regs, Running, Node
  <2>7. Service!Start(Server)
    BY <2>5, <2>6 DEF Service!Start, Running
  <2> QED
    BY <2>7 DEF Service!SNext
<1>9. ASSUME NEW t \in Threads, Finish(t) PROVE Service!SNext
  <2>1. t = Server /\ pc[t] = "run" /\ entry[t] \in alive
    BY <1>1, <1>2, <1>9 DEF Finish, Goto, Typed, Roles, Threads, Inserting, Ring, Regs, InHand
  <2>2. Running # Null /\ Running' = Null
    BY <1>2, <1>9, <2>1, JobQueueAssumption
    DEF JobQueueAssumption, Typed, Running, Threads, Node, Finish, Goto
  <2>3. Walk' = Walk
    BY <1>1, <1>2, <1>9, FinishStep, <1>3, WalkOfRingNext
  <2>4. Service!Discard(Server)
    BY <2>2, <2>3 DEF Service!Discard, Running
  <2> QED
    BY <2>4 DEF Service!SNext
<1>10. ASSUME NEW t \in Threads, Post(t) \/ Insert(t) \/ Serve(t)
       PROVE  Service!SNext \/ (Walk' = Walk /\ Running' = Running)
  <2>1. CASE QueIns1(t) \/ QueRem1(t) \/ Finish(t)
    BY <1>7, <1>8, <1>9, <2>1
  <2>2. CASE ~(QueIns1(t) \/ QueRem1(t) \/ Finish(t))
    BY <1>1, <1>2, <1>10, <2>2, Unseen DEF Insert, Serve
  <2> QED
    BY <2>1, <2>2
<1> QED
  BY <1>5, <1>6, <1>10 DEF Next

\* A QueIns or a QueRem of several stores, with other threads in between, is one step of the
\* list that JobService has: a job is put last, once, and taken from the front, once.
THEOREM ListImplemented ==
  ASSUME Locking
  PROVE  Spec => ImplementsList
<1>1. Init => Service!SInit
  BY ServiceInit
<1>2. IInv /\ [Next]_vars => [Service!SNext]_(Service!svars)
  BY ServiceNext
<1>3. Spec => []IInv
  BY Invariant
<1> QED
  BY <1>1, <1>2, <1>3, PTL DEF Spec, ImplementsList, Service!SSpec
=============================================================================
