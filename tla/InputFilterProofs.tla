-------------------------- MODULE InputFilterProofs --------------------------
(***************************************************************************)
(* Theorems about InputFilter for any set of callers, senders, filters and *)
(* jobs.                                                                   *)
(***************************************************************************)
EXTENDS InputFilter, SequenceTheorems, WellFoundedInduction, TLAPS

-----------------------------------------------------------------------------
(* What Picked does with a list at whose ends jobs are put and taken, for  *)
(* lists of any length.                                                    *)

\* A set of naturals that is not empty has a least member.
LEMMA LeastNat ==
  ASSUME NEW N \in SUBSET Nat, N # {}
  PROVE  \E x \in N : \A y \in N : ~(y < x)
<1>1. \E x \in N : \A y \in N : ~(<<y, x>> \in OpToRel(<, Nat))
  BY NatLessThanWellFounded, WFMin
<1> QED
  BY <1>1 DEF OpToRel

\* What Picked has found after i jobs, from what it has found before.
PickStep(c, C, s, f, i) ==
  IF i = 0 THEN <<>> ELSE IF c[s[i]] \in C THEN Append(f[i - 1], s[i]) ELSE f[i - 1]

\* Picked is well defined: there is a function that its recursion describes,
LEMMA PickedExists ==
  ASSUME NEW c, NEW C, NEW S, NEW s \in Seq(S)
  PROVE  \E f \in [0..Len(s) -> Seq(S)] : \A i \in 0..Len(s) : f[i] = PickStep(c, C, s, f, i)
<1>1. Len(s) \in Nat /\ \A i \in 1..Len(s) : s[i] \in S
  OBVIOUS
<1> DEFINE Good(n) == \E f \in [0..n -> Seq(S)] : \A i \in 0..n : f[i] = PickStep(c, C, s, f, i)
           D == {n \in Nat : n <= Len(s) /\ ~Good(n)}
<1>2. Good(0)
  <2>1. PICK f \in [0..0 -> Seq(S)] : f = [i \in 0..0 |-> <<>>]
    <3>1. [i \in 0..0 |-> <<>>] \in [0..0 -> Seq(S)]
      BY EmptySeq
    <3> QED
      BY <3>1
  <2> QED
    BY <2>1 DEF PickStep
<1>3. ASSUME NEW n \in Nat, n + 1 <= Len(s), Good(n) PROVE Good(n + 1)
  <2>1. PICK f \in [0..n -> Seq(S)] : \A i \in 0..n : f[i] = PickStep(c, C, s, f, i)
    BY <1>3
  <2>2. n \in 0..n /\ s[n + 1] \in S /\ f[n] \in Seq(S)
    BY <1>1, <1>3
  <2> DEFINE x == IF c[s[n + 1]] \in C THEN Append(f[n], s[n + 1]) ELSE f[n]
             g == [i \in 0..n + 1 |-> IF i = n + 1 THEN x ELSE f[i]]
  <2>3. x \in Seq(S)
    BY <2>2, AppendProperties
  <2> HIDE DEF x
  <2>4. g \in [0..n + 1 -> Seq(S)]
    BY <2>3
  <2>5. ASSUME NEW i \in 0..n + 1 PROVE g[i] = PickStep(c, C, s, g, i)
    <3>1. CASE i = n + 1
      <4>1. i # 0 /\ i - 1 = n /\ g[n] = f[n] /\ g[i] = x
        BY <3>1
      <4> QED
        BY <3>1, <4>1 DEF PickStep, x
    <3>2. CASE i # n + 1
      <4>1. i \in 0..n /\ (i # 0 => i - 1 \in 0..n) /\ g[i] = f[i]
        BY <3>2
      <4>2. i # 0 => g[i - 1] = f[i - 1]
        BY <4>1
      <4>3. f[i] = PickStep(c, C, s, f, i)
        BY <2>1, <4>1
      <4> QED
        BY <4>1, <4>2, <4>3 DEF PickStep
    <3> QED
      BY <3>1, <3>2
  <2> HIDE DEF g
  <2> QED
    BY <2>4, <2>5
<1>4. D = {}
  <2> SUFFICES ASSUME D # {} PROVE FALSE
    OBVIOUS
  <2> HIDE DEF Good
  <2>1. PICK n \in D : \A m \in D : ~(m < n)
    BY LeastNat
  <2>2. n # 0
    BY <1>2
  <2>3. n - 1 \in Nat /\ n - 1 < n /\ n - 1 <= Len(s) /\ (n - 1) + 1 = n
    BY <1>1, <2>2
  <2>4. Good(n - 1)
    BY <2>1, <2>3
  <2>5. Good((n - 1) + 1)
    BY <1>3, <2>3, <2>4
  <2> QED
    BY <2>3, <2>5
<1>5. Good(Len(s))
  <2> HIDE DEF Good
  <2> QED
    BY <1>1, <1>4
<1> QED
  BY <1>5

\* and any such function ends in it.
LEMMA PickedIs ==
  ASSUME NEW c, NEW C, NEW S, NEW s \in Seq(S), NEW f,
         \A i \in 0..Len(s) : f[i] = PickStep(c, C, s, f, i)
  PROVE  Picked(c, C, s) = f[Len(s)]
<1> DEFINE Fix(k) == k = [i \in 0..Len(s) |-> PickStep(c, C, s, k, i)]
           g == [i \in 0..Len(s) |-> f[i]]
<1>0. Len(s) \in Nat
  OBVIOUS
<1>1. Picked(c, C, s) = (CHOOSE k : Fix(k))[Len(s)]
  BY DEF Picked, PickStep
<1>2. Fix(g)
  <2> SUFFICES ASSUME NEW i \in 0..Len(s) PROVE f[i] = PickStep(c, C, s, g, i)
    OBVIOUS
  <2>1. i # 0 => i - 1 \in 0..Len(s)
    BY <1>0
  <2>2. i # 0 => g[i - 1] = f[i - 1]
    BY <2>1
  <2>3. f[i] = PickStep(c, C, s, f, i)
    OBVIOUS
  <2> HIDE DEF g
  <2> QED
    BY <2>2, <2>3 DEF PickStep
<1>3. ASSUME NEW k, Fix(k) PROVE k[Len(s)] = f[Len(s)]
  <2> DEFINE D == {n \in 0..Len(s) : k[n] # f[n]}
  <2>1. ASSUME D # {} PROVE FALSE
    <3>1. D \in SUBSET Nat
      BY <1>0
    <3>2. PICK n \in D : \A m \in D : ~(m < n)
      BY <2>1, <3>1, LeastNat
    <3>3. k[n] = PickStep(c, C, s, k, n) /\ f[n] = PickStep(c, C, s, f, n)
      BY <1>3, <3>2
    <3>4. n # 0
      BY <3>2, <3>3 DEF PickStep
    <3>5. n - 1 \in 0..Len(s) /\ n - 1 < n
      BY <1>0, <3>2, <3>4
    <3>6. k[n - 1] = f[n - 1]
      BY <3>2, <3>5
    <3> QED
      BY <3>2, <3>3, <3>6 DEF PickStep
  <2>2. Len(s) \in 0..Len(s)
    BY <1>0
  <2> QED
    BY <2>1, <2>2
<1> HIDE DEF Fix
<1>4. Fix(CHOOSE k : Fix(k))
  BY <1>2
<1> QED
  BY <1>1, <1>3, <1>4

LEMMA PickedSeq ==
  ASSUME NEW c, NEW C, NEW S, NEW s \in Seq(S)
  PROVE  Picked(c, C, s) \in Seq(S)
<1>1. PICK f \in [0..Len(s) -> Seq(S)] : \A i \in 0..Len(s) : f[i] = PickStep(c, C, s, f, i)
  BY PickedExists
<1>2. Picked(c, C, s) = f[Len(s)] /\ Len(s) \in 0..Len(s)
  BY <1>1, PickedIs
<1> QED
  BY <1>1, <1>2

\* To put a job after two lists is to put it after the second.
AppendsToLast(S) == \A a, b \in Seq(S), j \in S : Append(a \o b, j) = a \o Append(b, j)

LEMMA AppendOfConcat == \A S : AppendsToLast(S)
<1> TAKE S
<1> USE DEF AppendsToLast
<1> TAKE a, b \in Seq(S)
<1> TAKE j \in S
<1>1. Append(b, j) = b \o <<j>> /\ <<j>> \in Seq(S) /\ a \o b \in Seq(S)
  BY AppendProperties, ConcatProperties
<1>2. Append(a \o b, j) = (a \o b) \o <<j>>
  BY <1>1, AppendProperties
<1> QED
  BY <1>1, <1>2, ConcatAssociative

\* Put after the others, the one picked is the last.
LEMMA PickedAppend ==
  ASSUME NEW c, NEW C, NEW S, NEW s \in Seq(S), NEW j \in S
  PROVE  /\ Picked(c, C, s) \in Seq(S)
         /\ Picked(c, C, Append(s, j)) =
              IF c[j] \in C THEN Append(Picked(c, C, s), j) ELSE Picked(c, C, s)
<1>1. PICK f \in [0..Len(s) -> Seq(S)] : \A i \in 0..Len(s) : f[i] = PickStep(c, C, s, f, i)
  BY PickedExists
<1> DEFINE n == Len(s)
           a == Append(s, j)
           x == IF c[j] \in C THEN Append(f[n], j) ELSE f[n]
           g == [i \in 0..n + 1 |-> IF i = n + 1 THEN x ELSE f[i]]
<1>2. /\ n \in Nat /\ a \in Seq(S) /\ Len(a) = n + 1 /\ a[n + 1] = j
      /\ \A i \in 1..n : a[i] = s[i]
  BY AppendProperties
<1>3. Picked(c, C, s) = f[n] /\ f[n] \in Seq(S)
  BY <1>1, <1>2, PickedIs
<1> HIDE DEF x, a, n
<1>4. ASSUME NEW i \in 0..n + 1 PROVE g[i] = PickStep(c, C, a, g, i)
  <2>1. CASE i = n + 1
    <3>1. i # 0 /\ i - 1 = n /\ g[n] = f[n] /\ g[i] = x
      BY <1>2, <2>1
    <3> QED
      BY <1>2, <2>1, <3>1 DEF PickStep, x
  <2>2. CASE i # n + 1
    <3>1. i \in 0..n /\ (i # 0 => i - 1 \in 0..n /\ a[i] = s[i]) /\ g[i] = f[i]
      BY <1>2, <2>2
    <3>2. i # 0 => g[i - 1] = f[i - 1]
      BY <1>2, <3>1
    <3>3. f[i] = PickStep(c, C, s, f, i)
      BY <1>1, <3>1 DEF n
    <3> QED
      BY <3>1, <3>2, <3>3 DEF PickStep
  <2> QED
    BY <2>1, <2>2
<1>5. g[n + 1] = x
  BY <1>2
<1> HIDE DEF g
<1>6. Picked(c, C, a) = g[Len(a)]
  BY <1>2, <1>4, PickedIs
<1> QED
  BY <1>2, <1>3, <1>5, <1>6 DEF x, a

\* What is picked of one job.
PickedOne(c, C, j) == IF c[j] \in C THEN <<j>> ELSE <<>>

\* Taken from the front, the one picked is the first.
LEMMA PickedTail ==
  ASSUME NEW c, NEW C, NEW S, NEW q \in Seq(S), q # <<>>
  PROVE  Picked(c, C, q) = PickedOne(c, C, Head(q)) \o Picked(c, C, Tail(q))
<1> DEFINE t == Tail(q)
           n == Len(t)
           h == PickedOne(c, C, Head(q))
<1>1. /\ t \in Seq(S) /\ n \in Nat /\ Len(q) = n + 1 /\ Head(q) \in S /\ Head(q) = q[1]
      /\ \A i \in 1..n : t[i] = q[i + 1] /\ t[i] \in S
  BY HeadTailProperties
<1>2. h \in Seq(S)
  BY <1>1 DEF PickedOne
<1> HIDE DEF t, n, h
<1>3. PICK f \in [0..n -> Seq(S)] : \A i \in 0..n : f[i] = PickStep(c, C, t, f, i)
  <2>1. \A u \in Seq(S) : \E f \in [0..Len(u) -> Seq(S)] :
          \A i \in 0..Len(u) : f[i] = PickStep(c, C, u, f, i)
    BY PickedExists
  <2> QED
    BY <1>1, <2>1, Zenon DEF n
<1> DEFINE g == [i \in 0..n + 1 |-> IF i = 0 THEN <<>> ELSE h \o f[i - 1]]
<1>4. ASSUME NEW i \in 0..n + 1 PROVE g[i] = PickStep(c, C, q, g, i)
  <2>1. CASE i = 0
    BY <1>1, <2>1 DEF PickStep
  <2>2. CASE i = 1
    <3>1. 0 \in 0..n /\ 0 \in 0..n + 1 /\ 1 \in 0..n + 1 /\ 1 - 1 = 0
      BY <1>1
    <3>2. f[0] = <<>>
      BY <1>3, <3>1 DEF PickStep
    <3>3. g[0] = <<>> /\ g[1] = h \o f[0]
      BY <3>1
    <3>4. g[1] = h
      BY <1>2, <3>2, <3>3, ConcatEmptySeq
    <3>5. h = IF c[q[1]] \in C THEN Append(<<>>, q[1]) ELSE <<>>
      BY <1>1 DEF h, PickedOne
    <3> QED
      BY <2>2, <3>1, <3>3, <3>4, <3>5 DEF PickStep
  <2>3. CASE i # 0 /\ i # 1
    <3>1. /\ i - 1 \in 0..n /\ i - 1 \in 1..n /\ i - 1 \in 0..n + 1 /\ i - 1 # 0
          /\ (i - 1) - 1 \in 0..n /\ (i - 1) + 1 = i
      BY <1>1, <2>3
    <3>2. g[i] = h \o f[i - 1] /\ g[i - 1] = h \o f[(i - 1) - 1] /\ t[i - 1] = q[i]
      BY <1>1, <2>3, <3>1
    <3>3. f[i - 1] = IF c[q[i]] \in C THEN Append(f[(i - 1) - 1], q[i]) ELSE f[(i - 1) - 1]
      BY <1>3, <3>1, <3>2 DEF PickStep
    <3>4. q[i] \in S /\ f[(i - 1) - 1] \in Seq(S)
      BY <1>1, <3>1, <3>2
    <3>5. h \o Append(f[(i - 1) - 1], q[i]) = Append(h \o f[(i - 1) - 1], q[i])
      <4>1. AppendsToLast(S)
        BY AppendOfConcat
      <4> QED
        BY <1>2, <3>4, <4>1, Zenon DEF AppendsToLast
    <3> QED
      BY <2>3, <3>2, <3>3, <3>5 DEF PickStep
  <2> QED
    BY <2>1, <2>2, <2>3
<1>5. g[n + 1] = h \o f[n]
  <2>1. n + 1 \in 0..n + 1 /\ n + 1 # 0 /\ (n + 1) - 1 = n
    BY <1>1
  <2> QED
    BY <2>1
<1> HIDE DEF g
<1>6. Picked(c, C, q) = g[n + 1]
  BY <1>1, <1>4, PickedIs
<1>7. Picked(c, C, t) = f[n]
  BY <1>1, <1>3, PickedIs DEF n
<1> QED
  BY <1>5, <1>6, <1>7 DEF h, t

\* Only the codes of the jobs in the list matter.
LEMMA PickedSame ==
  ASSUME NEW c, NEW d, NEW C, NEW S, NEW s \in Seq(S), \A i \in 1..Len(s) : c[s[i]] = d[s[i]]
  PROVE  Picked(c, C, s) = Picked(d, C, s)
<1>0. \E f \in [0..Len(s) -> Seq(S)] : \A i \in 0..Len(s) : f[i] = PickStep(c, C, s, f, i)
  BY ONLY PickedExists, s \in Seq(S)
<1>1. PICK f \in [0..Len(s) -> Seq(S)] : \A i \in 0..Len(s) : f[i] = PickStep(c, C, s, f, i)
  BY <1>0
<1>2. \A i \in 0..Len(s) : f[i] = PickStep(d, C, s, f, i)
  BY <1>1 DEF PickStep
<1> QED
  BY <1>1, <1>2, PickedIs

LEMMA PickedNone ==
  ASSUME NEW c, NEW C, NEW S
  PROVE  /\ Picked(c, C, <<>>) = <<>>
         /\ \A j \in S : Picked(c, C, <<j>>) = PickedOne(c, C, j)
<1>1. <<>> \in Seq(S) /\ Len(<<>>) = 0
  BY EmptySeq
<1>2. Picked(c, C, <<>>) = <<>>
  <2>1. PICK f \in [0..Len(<<>>) -> Seq(S)] :
               \A i \in 0..Len(<<>>) : f[i] = PickStep(c, C, <<>>, f, i)
    <3>1. \A u \in Seq(S) : \E f \in [0..Len(u) -> Seq(S)] :
            \A i \in 0..Len(u) : f[i] = PickStep(c, C, u, f, i)
      BY PickedExists
    <3> QED
      BY <1>1, <3>1, Zenon
  <2>2. f[0] = <<>>
    BY <1>1, <2>1 DEF PickStep
  <2> QED
    BY <1>1, <2>1, <2>2, PickedIs
<1>3. ASSUME NEW j \in S PROVE Picked(c, C, <<j>>) = PickedOne(c, C, j)
  <2>1. <<j>> = Append(<<>>, j)
    OBVIOUS
  <2>2. Picked(c, C, Append(<<>>, j)) =
          IF c[j] \in C THEN Append(Picked(c, C, <<>>), j) ELSE Picked(c, C, <<>>)
    <3>1. \A u \in Seq(S), k \in S : Picked(c, C, Append(u, k)) =
            IF c[k] \in C THEN Append(Picked(c, C, u), k) ELSE Picked(c, C, u)
      BY PickedAppend
    <3> QED
      BY <1>1, <3>1, Zenon
  <2> QED
    BY <1>2, <2>1, <2>2 DEF PickedOne
<1> QED
  BY <1>2, <1>3

-----------------------------------------------------------------------------
(* The filters.                                                            *)

\* Who can be where: TaskText and TaskMsg are called by threads that are no filters, with a
\* job in hand until it is in a list; the places of InputFilterTask belong to filters.
SendPCs ==
  {"tt_lock", "tt_last", "tw_list", "tw_idle", "tw_wait", "tw_blocked", "tt_spawn",
   "tt_swait", "tt_sblocked", "link1", "link2", "link3", "link4", "tt_unlock",
   "tm_test", "tm_next", "p_lock", "p_sig", "p_ins", "p_link"}
FilterPCs == PCs \ (SendPCs \cup {"ready", "faulted"})

Roles ==
  \A t \in Threads :
    /\ pc[t] \in SendPCs => t \notin Filters /\ tmpc[t] \in Jobs
    /\ pc[t] \in FilterPCs => t \in Filters

Typed == TypeOK /\ Roles

LEMMA InitTyped == Init => Typed
<1> SUFFICES ASSUME Init PROVE Typed
  OBVIOUS
<1> USE InputFilterAssumption DEF Init, Tasks, Threads
<1>1. /\ next \in [Tasks -> Tasks] /\ last \in [Tasks -> Tasks]
      /\ filt \subseteq Tasks /\ idle \subseteq Tasks /\ locked \subseteq Tasks
      /\ mutex \in [Tasks -> Threads \cup {None}]
      /\ enqWait \subseteq Filters /\ idleWait \in [Tasks -> SUBSET Threads]
      /\ task \in [Threads -> Tasks] /\ tmpc \in [Threads -> Jobs \cup {None}]
      /\ old \subseteq Filters /\ torn \subseteq Tasks /\ valid \subseteq Tasks
  OBVIOUS
<1>2. code \in [Jobs -> Texts \cup {"NEW", "MSG"}]
  BY DEF Texts
<1>3. pc \in [Threads -> PCs] /\ \A f \in Filters : pc[f] # "f_exec"
  BY DEF PCs
<1>4. /\ queue \in [Tasks -> Seq(Jobs)] /\ posted \in [Tasks -> Seq(Jobs)]
      /\ ran \in [Filters -> Seq(Jobs)]
  BY EmptySeq
<1>5. Roles
  BY DEF Roles, PCs, SendPCs, FilterPCs
<1> QED
  BY <1>1, <1>2, <1>3, <1>4, <1>5 DEF Typed, TypeOK

\* The jobs being linked are jobs, and so is what the head of a list may be.
LEMMA HeadsAreJobs ==
  ASSUME Typed, NEW s \in Tasks
  PROVE  Linking(s) \subseteq Jobs /\ Heads(s) \subseteq Jobs
<1>1. Linking(s) \subseteq Jobs
  BY DEF Linking, Typed, Roles, SendPCs
<1>2. queue[s] \in Seq(Jobs)
  BY DEF Typed, TypeOK
<1>3. CASE queue[s] # <<>>
  BY <1>1, <1>2, <1>3 DEF Heads
<1>4. CASE queue[s] = <<>>
  BY <1>1, <1>4 DEF Heads
<1> QED
  BY <1>3, <1>4

\* The steps of TaskText and TaskMsg that change no list.
QuietSend(t) ==
  \/ Text(t) \/ Msg(t) \/ PostLock(t) \/ PostInvalid(t) \/ PostSignal(t)
  \/ PostQueIns(t) \/ PostFault(t) \/ SpawnSpurious(t)

LEMMA SendTyped ==
  ASSUME Typed, NEW t \in Threads, QuietSend(t)
  PROVE  Typed'
<1> USE InputFilterAssumption
    DEF Typed, TypeOK, Roles, PCs, SendPCs, FilterPCs, Tasks, Threads, Goto, ring, sync, hist
<1>1. CASE TaskTextLock(t)
  BY <1>1 DEF TaskTextLock
<1>2. CASE TaskTextLast(t)
  BY <1>2 DEF TaskTextLast
<1>3. CASE TaskWaitList(t)
  <2>1. PICK to \in {"tw_idle", "tw_wait"} : Goto(t, "tw_list", to)
    BY <1>3 DEF TaskWaitList
  <2>2. /\ task' = [task EXCEPT ![t] = last[Srv]]
        /\ UNCHANGED <<ring, idle, queue, torn, valid, sync, code, tmpc, old, hist>>
    BY <1>3 DEF TaskWaitList
  <2> QED
    BY <2>1, <2>2
<1>4. CASE TaskWaitIdle(t)
  BY <1>4 DEF TaskWaitIdle
<1>5. CASE TaskWaitBlock(t)
  BY <1>5 DEF TaskWaitBlock
<1>6. CASE TaskWaitWake(t)
  BY <1>6 DEF TaskWaitWake
<1>7. CASE Spawn(t)
  <2>1. PICK f \in Filters : /\ pc[f] = "none" /\ pc[t] = "tt_spawn"
                             /\ pc' = [pc EXCEPT ![t] = "tt_swait", ![f] = "start"]
                             /\ task' = [task EXCEPT ![t] = f]
    BY <1>7 DEF Spawn
  <2>2. t # f
    BY <2>1
  <2>3. /\ pc' \in [Threads -> PCs] /\ task' \in [Threads -> Tasks]
        /\ \A g \in Filters : pc'[g] = "f_exec" => pc[g] = "f_exec"
    BY <2>1
  <2>4. UNCHANGED <<next, last, filt, idle, queue, torn, valid, locked, mutex, enqWait, idleWait,
                    code, tmpc, old, posted, ran>>
    BY <1>7 DEF Spawn
  <2>5. t \notin Filters /\ tmpc[t] \in Jobs
    BY <2>1
  <2>6. Roles'
    <3> SUFFICES ASSUME NEW u \in Threads
                 PROVE  /\ pc'[u] \in SendPCs => u \notin Filters /\ tmpc[u] \in Jobs
                        /\ pc'[u] \in FilterPCs => u \in Filters
      BY <2>4
    <3>1. CASE u = t
      BY <2>1, <2>2, <2>5, <3>1
    <3>2. CASE u = f
      BY <2>1, <2>2, <3>2
    <3>3. CASE u # t /\ u # f
      BY <2>1, <3>3
    <3> QED
      BY <3>1, <3>2, <3>3
  <2>7. TypeOK'
    BY <2>3, <2>4
  <2> QED
    BY <2>6, <2>7
<1>8. CASE SpawnBlock(t)
  BY <1>8 DEF SpawnBlock
<1>9. CASE SpawnWake(t)
  BY <1>9 DEF SpawnWake
<1>10. CASE LinkNext(t)
  BY <1>10 DEF LinkNext
<1>11. CASE LinkLast(t)
  BY <1>11 DEF LinkLast
<1>12. CASE LinkSrv(t)
  BY <1>12 DEF LinkSrv
<1>13. CASE LinkBack(t)
  BY <1>13 DEF LinkBack
<1>14. CASE TaskTextUnlock(t)
  BY <1>14 DEF TaskTextUnlock
<1>15. CASE TaskMsgTest(t)
  <2>1. PICK to \in {"tm_next", "p_lock"} : pc' = [pc EXCEPT ![t] = to]
    BY <1>15 DEF TaskMsgTest
  <2>2. mutex' \in [Tasks -> Threads \cup {None}]
    BY <1>15 DEF TaskMsgTest
  <2>3. /\ pc[t] = "tm_test"
        /\ UNCHANGED <<next, last, filt, idle, queue, torn, valid, locked, enqWait, idleWait,
                       code, task, tmpc, old, posted, ran>>
    BY <1>15 DEF TaskMsgTest
  <2> QED
    BY <2>1, <2>2, <2>3
<1>16. CASE TaskMsgNext(t)
  BY <1>16 DEF TaskMsgNext
<1>17. CASE PostLock(t)
  BY <1>17 DEF PostLock
<1>18. CASE PostSignal(t)
  BY <1>18 DEF PostSignal
<1>19. CASE PostInvalid(t)
  BY <1>19 DEF PostInvalid
<1>20. CASE PostQueIns(t)
  BY <1>20 DEF PostQueIns
<1>21. CASE PostFault(t)
  BY <1>21 DEF PostFault
<1>22. CASE SpawnSpurious(t)
  BY <1>22 DEF SpawnSpurious
<1> QED
  BY <1>1, <1>2, <1>3, <1>4, <1>5, <1>6, <1>7, <1>8, <1>9, <1>10, <1>11, <1>12, <1>13, <1>14,
     <1>15, <1>16, <1>17, <1>18, <1>19, <1>20, <1>21, <1>22 DEF QuietSend, Text, Msg

\* The steps of a filter that change no list.
QuietFilter(t) ==
  \/ TaskStart(t) \/ FilterOld(t) \/ FilterEqu(t) \/ FilterWait(t) \/ FilterWake(t)
  \/ JobsHndlr(t) \/ JobsHndlrSignal(t) \/ FilterDone(t) \/ GetKeyIdle(t)
  \/ UnlinkLock(t) \/ UnlinkNext(t) \/ UnlinkLast(t) \/ UnlinkFlag(t)
  \/ GetKeyJobs(t) \/ GetKeyOther(t) \/ GetKeyNone(t) \/ GetKeyWake(t) \/ FilterSpurious(t)

LEMMA FilterTyped ==
  ASSUME Typed, NEW t \in Filters, QuietFilter(t)
  PROVE  Typed'
<1> USE InputFilterAssumption
    DEF Typed, TypeOK, Roles, PCs, SendPCs, FilterPCs, Tasks, Threads, Goto, ring, sync, hist
<1>1. CASE TaskStart(t)
  BY <1>1 DEF TaskStart
<1>2. CASE FilterOld(t)
  BY <1>2 DEF FilterOld
<1>3. CASE FilterEqu(t)
  BY <1>3 DEF FilterEqu
<1>4. CASE FilterWait(t)
  BY <1>4 DEF FilterWait
<1>5. CASE FilterWake(t)
  BY <1>5 DEF FilterWake
<1>6. CASE JobsHndlr(t)
  BY <1>6 DEF JobsHndlr
<1>7. CASE JobsHndlrSignal(t)
  BY <1>7 DEF JobsHndlrSignal
<1>8. CASE FilterDone(t)
  BY <1>8 DEF FilterDone
<1>9. CASE GetKeyIdle(t)
  BY <1>9 DEF GetKeyIdle
<1>10. CASE UnlinkLock(t)
  BY <1>10 DEF UnlinkLock
<1>11. CASE UnlinkNext(t)
  BY <1>11 DEF UnlinkNext
<1>12. CASE UnlinkLast(t)
  BY <1>12 DEF UnlinkLast
<1>13. CASE UnlinkFlag(t)
  BY <1>13 DEF UnlinkFlag
<1>14. CASE GetKeyJobs(t)
  BY <1>14 DEF GetKeyJobs
<1>15. CASE GetKeyOther(t)
  BY <1>15 DEF GetKeyOther
<1>16. CASE GetKeyNone(t)
  BY <1>16 DEF GetKeyNone
<1>17. CASE GetKeyWake(t)
  BY <1>17 DEF GetKeyWake
<1>18. CASE FilterSpurious(t)
  BY <1>18 DEF FilterSpurious
<1> QED
  BY <1>1, <1>2, <1>3, <1>4, <1>5, <1>6, <1>7, <1>8, <1>9, <1>10, <1>11, <1>12, <1>13, <1>14,
     <1>15, <1>16, <1>17, <1>18 DEF QuietFilter

\* QueIns and QueRem keep a list of jobs.
LEMMA JobLists ==
  /\ \A q \in Seq(Jobs), j \in Jobs : Append(q, j) \in Seq(Jobs)
  /\ \A q \in Seq(Jobs) : q # <<>> => Head(q) \in Jobs /\ Tail(q) \in Seq(Jobs)
  OBVIOUS

\* The steps that change a list.
Moves(t) ==
  \/ TaskText(t) \/ TaskMsg(t) \/ PostInserted(t)
  \/ t \in Filters /\ (FilterTake(t) \/ FilterExec(t) \/ FilterExit(t) \/ GetKeyTake(t))

LEMMA QueRemTyped ==
  ASSUME Typed, NEW t \in Filters, QueRem(t)
  PROVE  queue' \in [Tasks -> Seq(Jobs)] /\ torn' \subseteq Tasks
<1> USE DEF QueRem, Typed, TypeOK, Tasks
<1>1. t \in Tasks /\ queue[t] \in Seq(Jobs) /\ queue' \in [Tasks -> {queue'[q] : q \in Tasks}]
  OBVIOUS
<1>2. queue'[t] \in Seq(Jobs)
  BY <1>1, JobLists
<1>3. \A q \in Tasks \ {t} : queue'[q] = queue[q]
  OBVIOUS
<1> QED
  BY <1>1, <1>2, <1>3

LEMMA ListTyped ==
  ASSUME Typed, NEW t \in Threads, Moves(t)
  PROVE  Typed'
<1> USE InputFilterAssumption
    DEF Typed, TypeOK, Roles, PCs, SendPCs, FilterPCs, Tasks, Threads, Goto, ring, sync, hist
<1>1. CASE TaskText(t)
  BY <1>1 DEF TaskText, Alloc, Texts
<1>2. CASE TaskMsg(t)
  BY <1>2 DEF TaskMsg, Alloc, Texts
<1>3. CASE PostInserted(t)
  BY <1>3, JobLists DEF PostInserted
<1>4. CASE t \in Filters /\ FilterTake(t)
  <2>1. queue' \in [Tasks -> Seq(Jobs)] /\ torn' \subseteq Tasks
    BY <1>4, QueRemTyped DEF FilterTake
  <2>2. PICK j \in Jobs : tmpc' = [tmpc EXCEPT ![t] = j]
    BY <1>4, HeadsAreJobs DEF FilterTake
  <2>3. /\ pc[t] = "f_head" /\ pc' = [pc EXCEPT ![t] = "f_exec"]
        /\ UNCHANGED <<next, last, filt, idle, valid, locked, mutex, enqWait, idleWait, code,
                       task, old, posted, ran>>
    BY <1>4 DEF FilterTake
  <2> QED
    BY <1>4, <2>1, <2>2, <2>3
<1>5. CASE t \in Filters /\ (FilterExec(t) \/ FilterExit(t))
  <2>1. tmpc[t] \in Jobs /\ ran' = [ran EXCEPT ![t] = Append(@, tmpc[t])]
    BY <1>5 DEF FilterExec, FilterExit
  <2>2. ran' \in [Filters -> Seq(Jobs)]
    BY <2>1, JobLists
  <2>3. PICK to \in {"k_jobs", "f_jobs", "ended"} : pc' = [pc EXCEPT ![t] = to]
    BY <1>5 DEF FilterExec, FilterExit
  <2>4. queue' \in [Tasks -> Seq(Jobs)] /\ valid' \subseteq Tasks
    <3>1. CASE FilterExec(t)
      BY <3>1 DEF FilterExec
    <3>2. CASE FilterExit(t)
      <4>1. \A q \in [Tasks -> Seq(Jobs)] : [q EXCEPT ![t] = <<>>] \in [Tasks -> Seq(Jobs)]
        BY EmptySeq
      <4>2. queue' = [queue EXCEPT ![t] = <<>>] /\ valid' = valid \ {t}
        BY <3>2 DEF FilterExit
      <4>3. queue \in [Tasks -> Seq(Jobs)] /\ valid \subseteq Tasks
        OBVIOUS
      <4> QED
        BY <4>1, <4>2, <4>3
    <3> QED
      BY <1>5, <3>1, <3>2
  <2>5. /\ pc[t] = "f_exec"
        /\ UNCHANGED <<next, last, filt, idle, torn, locked, mutex, enqWait, idleWait, code, task,
                       tmpc, old, posted>>
    BY <1>5 DEF FilterExec, FilterExit
  <2> QED
    BY <1>5, <2>2, <2>3, <2>4, <2>5
<1>6. CASE t \in Filters /\ GetKeyTake(t)
  <2>1. queue' \in [Tasks -> Seq(Jobs)] /\ torn' \subseteq Tasks
    BY <1>6, QueRemTyped DEF GetKeyTake
  <2>2. /\ pc[t] = "k_scan" /\ pc' = [pc EXCEPT ![t] = "f_jobs"]
        /\ UNCHANGED <<next, last, filt, idle, valid, locked, mutex, enqWait, idleWait, code,
                       task, tmpc, old, posted, ran>>
    BY <1>6 DEF GetKeyTake
  <2> QED
    BY <1>6, <2>1, <2>2
<1> QED
  BY <1>1, <1>2, <1>3, <1>4, <1>5, <1>6 DEF Moves

\* Every step is one of these.
LEMMA NextIs ==
  ASSUME Next
  PROVE  \E t \in Threads : QuietSend(t) \/ (t \in Filters /\ QuietFilter(t)) \/ Moves(t)
<1>1. PICK t \in Threads : Call(t) \/ Step(t)
  BY DEF Next
<1>2. Call(t) => QuietSend(t) \/ (t \in Filters /\ QuietFilter(t)) \/ Moves(t)
  BY DEF Call, QuietSend, QuietFilter, Moves
<1>3. Filter(t) => (t \in Filters /\ QuietFilter(t)) \/ Moves(t)
  BY DEF Filter, List, QuietFilter, Moves
<1>4. Post(t) => QuietSend(t) \/ Moves(t)
  BY DEF Post, QuietSend, Moves
<1>5. Text(t) \/ Msg(t) => QuietSend(t)
  BY DEF QuietSend
<1> QED
  BY <1>1, <1>2, <1>3, <1>4, <1>5 DEF Step

LEMMA TypedStep == Typed /\ [Next]_vars => Typed'
<1> SUFFICES ASSUME Typed, [Next]_vars PROVE Typed'
  OBVIOUS
<1>1. CASE UNCHANGED vars
  BY <1>1 DEF vars, ring, sync, hist, Typed, TypeOK, Roles
<1> QED
  BY <1>1, NextIs, SendTyped, FilterTyped, ListTyped

\* Type correctness of InputFilter; and a filter has a text in hand when it is to print one.
THEOREM FilterTypes == Spec => []TypeOK
<1>1. Typed => TypeOK
  BY DEF Typed
<1> QED
  BY InitTyped, TypedStep, <1>1, PTL DEF Spec

-----------------------------------------------------------------------------
(* A filter executes its texts in order.                                   *)

\* What is in a list has been posted, and the code of it does not change again; a filter
\* has only a text in hand.
Coded(s) == \A i \in 1..Len(s) : code[s[i]] # "NEW"

CodeInv ==
  /\ \A q \in Tasks : Coded(queue[q])
  /\ \A t \in Threads : pc[t] \in SendPCs => code[tmpc[t]] # "NEW"
  /\ \A f \in Filters : pc[f] = "f_exec" => code[tmpc[f]] \in Texts

\* The steps that move no job.
Quiet ==
  /\ UNCHANGED <<queue, valid, code, tmpc, posted, ran>> /\ torn \subseteq torn'
  /\ \A u \in Threads : pc'[u] \in SendPCs => pc[u] \in SendPCs
  /\ \A f \in Filters : pc'[f] = "f_exec" <=> pc[f] = "f_exec"

LEMMA QuietOrMoves == Typed /\ [Next]_vars => Quiet \/ \E t \in Threads : Moves(t)
<1> SUFFICES ASSUME Typed, [Next]_vars, \A t \in Threads : ~Moves(t) PROVE Quiet
  OBVIOUS
<1>1. CASE UNCHANGED vars
  BY <1>1 DEF vars, Quiet, hist
<1>2. ASSUME NEW t \in Threads, QuietSend(t) PROVE Quiet
  <2> USE DEF Goto, hist, sync, SendPCs, Quiet, Typed, TypeOK, Threads
  <2>1. CASE Text(t) /\ ~Spawn(t)
    BY <2>1 DEF Text, TaskTextLock, TaskTextLast, TaskWaitList, TaskWaitIdle, TaskWaitBlock,
         TaskWaitWake, SpawnBlock, SpawnWake, LinkNext, LinkLast, LinkSrv, LinkBack,
         TaskTextUnlock
  <2>2. CASE Spawn(t)
    BY <2>2 DEF Spawn
  <2>3. CASE Msg(t)
    BY <2>3 DEF Msg, TaskMsgTest, TaskMsgNext
  <2>4. CASE PostLock(t) \/ PostInvalid(t) \/ PostSignal(t)
    BY <2>4 DEF PostLock, PostInvalid, PostSignal
  <2>5. CASE PostQueIns(t) \/ PostFault(t) \/ SpawnSpurious(t)
    BY <2>5 DEF PostQueIns, PostFault, SpawnSpurious
  <2> QED
    BY <1>2, <2>1, <2>2, <2>3, <2>4, <2>5 DEF QuietSend
<1>3. ASSUME NEW t \in Filters, QuietFilter(t) PROVE Quiet
  <2> USE DEF Goto, hist, sync, SendPCs, Quiet, Typed, TypeOK, Threads
  <2> QED
    BY <1>3 DEF QuietFilter, TaskStart, FilterOld, FilterEqu, FilterWait, FilterWake, JobsHndlr,
         JobsHndlrSignal, FilterDone, GetKeyIdle, UnlinkLock, UnlinkNext, UnlinkLast,
         UnlinkFlag, GetKeyJobs, GetKeyOther, GetKeyNone, GetKeyWake, FilterSpurious
<1> QED
  BY <1>1, <1>2, <1>3, NextIs

\* What the steps do that move a job.
LEMMA AllocMoves ==
  ASSUME Typed, NEW t \in Threads, TaskText(t) \/ TaskMsg(t)
  PROVE  \E j \in Jobs :
           /\ code[j] = "NEW" /\ code'[j] # "NEW"
           /\ \A k \in Jobs : code[k] # "NEW" => code'[k] = code[k]
           /\ t \notin Filters /\ tmpc' = [tmpc EXCEPT ![t] = j]
           /\ \A u \in Threads \ {t} : pc'[u] = pc[u]
           /\ UNCHANGED <<queue, torn, valid, posted, ran>>
<1> USE InputFilterAssumption DEF Typed, TypeOK, Threads, Goto, sync, hist, Alloc, Texts
<1>1. CASE TaskText(t)
  BY <1>1 DEF TaskText
<1>2. CASE TaskMsg(t)
  BY <1>2 DEF TaskMsg
<1> QED
  BY <1>1, <1>2

LEMMA InsertMoves ==
  ASSUME Typed, NEW t \in Threads, PostInserted(t)
  PROVE  /\ pc[t] = "p_link" /\ t \notin Filters /\ task[t] \in Tasks /\ tmpc[t] \in Jobs
         /\ pc' = [pc EXCEPT ![t] = "ready"]
         /\ queue' = [queue EXCEPT ![task[t]] = Append(@, tmpc[t])]
         /\ posted' = IF code[tmpc[t]] \in Texts
                      THEN [posted EXCEPT ![task[t]] = Append(@, tmpc[t])] ELSE posted
         /\ UNCHANGED <<torn, valid, code, tmpc, ran>>
  BY DEF PostInserted, Goto, Typed, TypeOK, Roles, SendPCs

\* QueRem of a list that it does not tear: what it takes is the first of the list.
LEMMA TakeMoves ==
  ASSUME Typed, NEW t \in Filters, FilterTake(t) \/ GetKeyTake(t)
  PROVE  /\ queue' = [queue EXCEPT ![t] = IF @ = <<>> THEN @ ELSE Tail(@)]
         /\ torn \subseteq torn' /\ (t \notin torn' => queue[t] # <<>>)
         /\ pc[t] # "f_exec" /\ \A u \in Threads \ {t} : pc'[u] = pc[u] /\ tmpc'[u] = tmpc[u]
         /\ pc'[t] \notin SendPCs
         /\ pc'[t] = "f_exec" => code[tmpc'[t]] \in Texts
         /\ queue[t] # <<>> =>
              IF pc'[t] = "f_exec" THEN tmpc'[t] = Head(queue[t])
                                   ELSE code[Head(queue[t])] \notin Texts
         /\ UNCHANGED <<valid, code, posted, ran>>
<1> USE DEF Goto, Typed, TypeOK, Threads, SendPCs, hist
<1>1. queue[t] # <<>> => Heads(t) = {Head(queue[t])}
  BY DEF Heads
<1>2. queue[t] = <<>> => Heads(t) = Linking(t) /\ Len(queue[t]) = 0
  BY DEF Heads
<1>3. Heads(t) # {}
  BY DEF FilterTake, GetKeyTake
<1>4. torn \subseteq torn' /\ (t \notin torn' => queue[t] # <<>>)
  BY <1>2, <1>3 DEF QueRem, FilterTake, GetKeyTake
<1>5. CASE FilterTake(t)
  <2>1. PICK j \in Heads(t) : code[j] \in Texts /\ tmpc' = [tmpc EXCEPT ![t] = j]
    BY <1>5 DEF FilterTake
  <2>2. tmpc'[t] = j /\ \A u \in Threads \ {t} : tmpc'[u] = tmpc[u]
    BY <2>1
  <2> QED
    BY <1>1, <1>4, <1>5, <2>1, <2>2 DEF FilterTake, QueRem
<1>6. CASE GetKeyTake(t)
  BY <1>1, <1>4, <1>6 DEF GetKeyTake, QueRem, Texts
<1> QED
  BY <1>5, <1>6

LEMMA ExecMoves ==
  ASSUME Typed, NEW t \in Filters, FilterExec(t) \/ FilterExit(t)
  PROVE  /\ pc[t] = "f_exec" /\ pc'[t] \in {"k_jobs", "f_jobs", "ended"}
         /\ \A u \in Threads \ {t} : pc'[u] = pc[u]
         /\ ran' = [ran EXCEPT ![t] = Append(@, tmpc[t])] /\ tmpc[t] \in Jobs
         /\ valid' \subseteq valid /\ \A q \in Tasks \ {t} : queue'[q] = queue[q]
         /\ \/ queue'[t] = <<>> /\ t \notin valid'
            \/ queue'[t] = queue[t]
         /\ UNCHANGED <<torn, code, tmpc, posted>>
<1> USE DEF Typed, TypeOK, Threads, Tasks, Goto
<1>1. CASE FilterExec(t)
  BY <1>1 DEF FilterExec
<1>2. CASE FilterExit(t)
  BY <1>2 DEF FilterExit
<1> QED
  BY <1>1, <1>2

LEMMA CodeStep == Typed /\ CodeInv /\ [Next]_vars => CodeInv'
<1> SUFFICES ASSUME Typed, CodeInv, [Next]_vars PROVE CodeInv'
  OBVIOUS
<1>0. /\ \A q \in Tasks : queue[q] \in Seq(Jobs) /\ \A i \in 1..Len(queue[q]) : queue[q][i] \in Jobs
      /\ \A u \in Threads : pc[u] \in SendPCs => u \notin Filters /\ tmpc[u] \in Jobs
      /\ \A f \in Filters : f \in Tasks /\ f \in Threads /\ (pc[f] = "f_exec" => tmpc[f] \in Jobs)
  BY DEF Typed, TypeOK, Roles, Tasks, Threads
<1>1. CASE Quiet
  BY <1>0, <1>1 DEF Quiet, CodeInv, Coded
<1>2. ASSUME NEW t \in Threads, TaskText(t) \/ TaskMsg(t) PROVE CodeInv'
  <2>1. PICK j \in Jobs :
           /\ code[j] = "NEW" /\ code'[j] # "NEW"
           /\ \A k \in Jobs : code[k] # "NEW" => code'[k] = code[k]
           /\ t \notin Filters /\ tmpc' = [tmpc EXCEPT ![t] = j]
           /\ \A u \in Threads \ {t} : pc'[u] = pc[u]
           /\ UNCHANGED <<queue, torn, valid, posted, ran>>
    BY <1>2, AllocMoves
  <2>2. \A q \in Tasks : Coded(queue[q])'
    BY <1>0, <2>1 DEF CodeInv, Coded
  <2>3. tmpc'[t] = j /\ \A u \in Threads \ {t} : tmpc'[u] = tmpc[u]
    BY <2>1 DEF Typed, TypeOK
  <2>4. \A u \in Threads : pc'[u] \in SendPCs => code'[tmpc'[u]] # "NEW"
    BY <1>0, <2>1, <2>3 DEF CodeInv
  <2>5. \A f \in Filters : pc'[f] = "f_exec" => code'[tmpc'[f]] \in Texts
    BY <1>0, <2>1, <2>3 DEF CodeInv, Texts
  <2> QED
    BY <2>2, <2>4, <2>5 DEF CodeInv
<1>3. ASSUME NEW t \in Threads, PostInserted(t) PROVE CodeInv'
  <2>1. /\ pc[t] = "p_link" /\ t \notin Filters /\ task[t] \in Tasks /\ tmpc[t] \in Jobs
        /\ pc' = [pc EXCEPT ![t] = "ready"]
        /\ queue' = [queue EXCEPT ![task[t]] = Append(@, tmpc[t])]
        /\ UNCHANGED <<code, tmpc>>
    BY <1>3, InsertMoves
  <2>2. code[tmpc[t]] # "NEW"
    BY <2>1 DEF CodeInv, SendPCs
  <2>3. ASSUME NEW q \in Tasks PROVE Coded(queue[q])'
    <3>1. CASE q = task[t]
      <4>1. queue'[q] = Append(queue[q], tmpc[t]) /\ queue[q] \in Seq(Jobs)
        BY <1>0, <2>1, <3>1 DEF Typed, TypeOK
      <4>2. /\ Len(queue[q]) \in Nat /\ Len(queue'[q]) = Len(queue[q]) + 1
            /\ queue'[q][Len(queue[q]) + 1] = tmpc[t]
            /\ \A i \in 1..Len(queue[q]) : queue'[q][i] = queue[q][i]
        BY <2>1, <4>1, AppendProperties
      <4> QED
        BY <2>1, <2>2, <4>2 DEF CodeInv, Coded
    <3>2. CASE q # task[t]
      <4>1. queue'[q] = queue[q]
        BY <2>1, <3>2 DEF Typed, TypeOK
      <4> QED
        BY <2>1, <4>1 DEF CodeInv, Coded
    <3> QED
      BY <3>1, <3>2
  <2>4. \A u \in Threads : pc'[u] # "ready" => pc'[u] = pc[u]
    BY <2>1 DEF Typed, TypeOK
  <2> QED
    BY <1>0, <2>1, <2>3, <2>4 DEF CodeInv, SendPCs
<1>4. ASSUME NEW t \in Filters, FilterTake(t) \/ GetKeyTake(t) PROVE CodeInv'
  <2>1. /\ queue' = [queue EXCEPT ![t] = IF @ = <<>> THEN @ ELSE Tail(@)]
        /\ pc[t] # "f_exec" /\ \A u \in Threads \ {t} : pc'[u] = pc[u] /\ tmpc'[u] = tmpc[u]
        /\ pc'[t] \notin SendPCs
        /\ pc'[t] = "f_exec" => code[tmpc'[t]] \in Texts
        /\ UNCHANGED code
    BY <1>4, TakeMoves
  <2>2. ASSUME NEW q \in Tasks PROVE Coded(queue[q])'
    <3>1. CASE q = t /\ queue[q] # <<>>
      <4>1. queue'[q] = Tail(queue[q]) /\ queue[q] \in Seq(Jobs) /\ queue[q] # <<>>
        BY <1>0, <2>1, <3>1 DEF Typed, TypeOK
      <4>2. /\ Len(queue[q]) \in Nat \ {0} /\ Len(queue'[q]) = Len(queue[q]) - 1
            /\ \A i \in 1..Len(queue'[q]) : queue'[q][i] = queue[q][i + 1]
        BY <4>1, HeadTailProperties, EmptySeq
      <4>3. \A i \in 1..Len(queue'[q]) : i + 1 \in 1..Len(queue[q])
        BY <4>2
      <4> QED
        BY <2>1, <4>2, <4>3 DEF CodeInv, Coded
    <3>2. CASE q # t \/ queue[q] = <<>>
      <4>1. queue'[q] = queue[q]
        BY <2>1, <3>2 DEF Typed, TypeOK
      <4> QED
        BY <2>1, <4>1 DEF CodeInv, Coded
    <3> QED
      BY <3>1, <3>2
  <2> QED
    BY <1>0, <2>1, <2>2 DEF CodeInv
<1>5. ASSUME NEW t \in Filters, FilterExec(t) \/ FilterExit(t) PROVE CodeInv'
  <2>1. /\ pc[t] = "f_exec" /\ pc'[t] \in {"k_jobs", "f_jobs", "ended"}
        /\ \A u \in Threads \ {t} : pc'[u] = pc[u]
        /\ \A q \in Tasks : queue'[q] = queue[q] \/ queue'[q] = <<>>
        /\ UNCHANGED <<code, tmpc>>
    BY <1>5, ExecMoves
  <2>2. ASSUME NEW q \in Tasks PROVE Coded(queue[q])'
    <3>1. CASE queue'[q] = queue[q]
      BY <2>1, <3>1 DEF CodeInv, Coded
    <3>2. CASE queue'[q] = <<>>
      <4>1. Len(queue'[q]) = 0
        BY <3>2, EmptySeq
      <4> QED
        BY <4>1 DEF Coded
    <3> QED
      BY <2>1, <3>1, <3>2
  <2> QED
    BY <1>0, <2>1, <2>2 DEF CodeInv, SendPCs
<1> QED
  BY <1>1, <1>2, <1>3, <1>4, <1>5, QuietOrMoves DEF Moves

LEMMA CodeInit == Init => CodeInv
  BY InputFilterAssumption DEF Init, CodeInv, Coded, SendPCs, Threads

\* InHand says what a filter has in hand; with CodeInv that is a text.
HandText(f) == IF pc[f] = "f_exec" THEN <<tmpc[f]>> ELSE <<>>

InHandIsText == \A f \in Filters : InHand(f) = HandText(f)

LEMMA HandIs == Typed /\ CodeInv => InHandIsText
<1> SUFFICES ASSUME Typed, CodeInv, NEW f \in Filters PROVE InHand(f) = HandText(f)
  BY DEF InHandIsText
<1>1. CASE pc[f] = "f_exec"
  <2>1. tmpc[f] \in Jobs /\ code[tmpc[f]] \in Texts
    BY <1>1 DEF Typed, TypeOK, CodeInv
  <2>2. Picked(code, Texts, <<tmpc[f]>>) = PickedOne(code, Texts, tmpc[f])
    BY <2>1, PickedNone
  <2> QED
    BY <1>1, <2>1, <2>2 DEF InHand, HandText, TextsOf, PickedOne
<1>2. CASE pc[f] # "f_exec"
  BY <1>2 DEF InHand, HandText
<1> QED
  BY <1>1, <1>2

LEMMA HandIsNext == (Typed /\ CodeInv => InHandIsText)'
  BY HandIs, PTL

\* Of the lists of a filter: what was posted, what has run, what is in hand, what waits.
LEMMA OrderAlloc ==
  ASSUME Typed, CodeInv, Typed', CodeInv', RunsInOrder, NEW t \in Threads, TaskText(t) \/ TaskMsg(t)
  PROVE  RunsInOrder'
<1>1. PICK j \in Jobs :
         /\ code[j] = "NEW" /\ code'[j] # "NEW"
         /\ \A k \in Jobs : code[k] # "NEW" => code'[k] = code[k]
         /\ t \notin Filters /\ tmpc' = [tmpc EXCEPT ![t] = j]
         /\ \A u \in Threads \ {t} : pc'[u] = pc[u]
         /\ UNCHANGED <<queue, torn, valid, posted, ran>>
  BY AllocMoves
<1> SUFFICES ASSUME NEW f \in (Filters \ torn') \cap valid'
             PROVE  posted'[f] = ran'[f] \o InHand(f)' \o TextsOf(queue[f])'
  BY DEF RunsInOrder
<1>2. f \in Tasks /\ f \in Threads /\ f # t
  BY <1>1 DEF Tasks, Threads
<1>3. HandText(f)' = HandText(f)
  BY <1>1, <1>2 DEF HandText, Typed, TypeOK
<1>4. Picked(code, Texts, queue[f]) = Picked(code', Texts, queue[f])
  <2>1. queue[f] \in Seq(Jobs) /\ \A i \in 1..Len(queue[f]) : queue[f][i] \in Jobs
    <3>1. queue[f] \in Seq(Jobs)
      BY <1>2 DEF Typed, TypeOK
    <3>2. \A q \in Seq(Jobs) : \A i \in 1..Len(q) : q[i] \in Jobs
      OBVIOUS
    <3> QED
      BY <3>1, <3>2, Zenon
  <2>2. \A i \in 1..Len(queue[f]) : code[queue[f][i]] = code'[queue[f][i]]
    BY <1>1, <1>2, <2>1 DEF CodeInv, Coded
  <2> QED
    BY <2>1, <2>2, PickedSame
<1>5. InHand(f) = HandText(f) /\ InHand(f)' = HandText(f)'
  BY HandIs, HandIsNext DEF InHandIsText
<1> QED
  BY <1>1, <1>3, <1>4, <1>5 DEF RunsInOrder, TextsOf

\* QueIns: the last one posted is the last one in the list.
LEMMA OrderInsert ==
  ASSUME Typed, CodeInv, Typed', CodeInv', RunsInOrder, NEW t \in Threads, PostInserted(t)
  PROVE  RunsInOrder'
<1>1. /\ t \notin Filters /\ task[t] \in Tasks /\ tmpc[t] \in Jobs
      /\ pc' = [pc EXCEPT ![t] = "ready"]
      /\ queue' = [queue EXCEPT ![task[t]] = Append(@, tmpc[t])]
      /\ posted' = IF code[tmpc[t]] \in Texts
                   THEN [posted EXCEPT ![task[t]] = Append(@, tmpc[t])] ELSE posted
      /\ UNCHANGED <<torn, valid, code, tmpc, ran>>
  BY InsertMoves
<1> SUFFICES ASSUME NEW f \in (Filters \ torn') \cap valid'
             PROVE  posted'[f] = ran'[f] \o InHand(f)' \o TextsOf(queue[f])'
  BY DEF RunsInOrder
<1>2. f \in Tasks /\ f \in Threads /\ f # t
  BY <1>1 DEF Tasks, Threads
<1>3. HandText(f)' = HandText(f)
  BY <1>1, <1>2 DEF HandText, Typed, TypeOK
<1>4. InHand(f) = HandText(f) /\ InHand(f)' = HandText(f)'
  BY HandIs, HandIsNext DEF InHandIsText
<1>5. posted[f] = (ran[f] \o HandText(f)) \o Picked(code, Texts, queue[f])
  BY <1>1, <1>4 DEF RunsInOrder, TextsOf
<1>6. CASE task[t] = f
  <2>1. queue'[f] = Append(queue[f], tmpc[t]) /\ queue[f] \in Seq(Jobs)
    BY <1>1, <1>2, <1>6 DEF Typed, TypeOK
  <2>2. /\ Picked(code, Texts, queue[f]) \in Seq(Jobs)
        /\ Picked(code, Texts, queue'[f]) =
             IF code[tmpc[t]] \in Texts THEN Append(Picked(code, Texts, queue[f]), tmpc[t])
                                        ELSE Picked(code, Texts, queue[f])
    <3>1. ASSUME NEW c, NEW s \in Seq(Jobs), NEW j \in Jobs
          PROVE  /\ Picked(c, Texts, s) \in Seq(Jobs)
                 /\ Picked(c, Texts, Append(s, j)) =
                      IF c[j] \in Texts THEN Append(Picked(c, Texts, s), j)
                                        ELSE Picked(c, Texts, s)
      BY ONLY PickedAppend, s \in Seq(Jobs), j \in Jobs
    <3>2. /\ Picked(code, Texts, queue[f]) \in Seq(Jobs)
          /\ Picked(code, Texts, Append(queue[f], tmpc[t])) =
               IF code[tmpc[t]] \in Texts THEN Append(Picked(code, Texts, queue[f]), tmpc[t])
                                          ELSE Picked(code, Texts, queue[f])
      BY <1>1, <2>1, <3>1
    <3> QED
      BY <2>1, <3>2
  <2>3. ran[f] \o HandText(f) \in Seq(Jobs)
    <3>1. ran[f] \in Seq(Jobs) /\ HandText(f) \in Seq(Jobs)
      BY DEF Typed, TypeOK, HandText
    <3> QED
      BY <3>1, ConcatProperties
  <2>4. CASE code[tmpc[t]] \in Texts
    <3>1. posted'[f] = Append(posted[f], tmpc[t])
      BY <1>1, <1>2, <1>6, <2>4 DEF Typed, TypeOK
    <3>2. AppendsToLast(Jobs)
      BY AppendOfConcat
    <3>3. Append((ran[f] \o HandText(f)) \o Picked(code, Texts, queue[f]), tmpc[t]) =
            (ran[f] \o HandText(f)) \o Append(Picked(code, Texts, queue[f]), tmpc[t])
      BY <1>1, <2>2, <2>3, <3>2, Zenon DEF AppendsToLast
    <3> QED
      BY <1>1, <1>3, <1>4, <1>5, <2>2, <2>4, <3>1, <3>3 DEF TextsOf
  <2>5. CASE code[tmpc[t]] \notin Texts
    BY <1>1, <1>3, <1>4, <1>5, <2>2, <2>5 DEF TextsOf
  <2> QED
    BY <2>4, <2>5
<1>7. CASE task[t] # f
  <2>1. queue'[f] = queue[f] /\ posted'[f] = posted[f]
    BY <1>1, <1>2, <1>7 DEF Typed, TypeOK
  <2> QED
    BY <1>1, <1>3, <1>4, <1>5, <2>1 DEF TextsOf
<1> QED
  BY <1>6, <1>7

\* QueRem: a text goes from the head of the list to the hand, a message out of the list.
LEMMA OrderTake ==
  ASSUME Typed, CodeInv, Typed', CodeInv', RunsInOrder, NEW t \in Filters,
         FilterTake(t) \/ GetKeyTake(t)
  PROVE  RunsInOrder'
<1>1. /\ queue' = [queue EXCEPT ![t] = IF @ = <<>> THEN @ ELSE Tail(@)]
      /\ torn \subseteq torn' /\ (t \notin torn' => queue[t] # <<>>)
      /\ pc[t] # "f_exec" /\ \A u \in Threads \ {t} : pc'[u] = pc[u] /\ tmpc'[u] = tmpc[u]
      /\ pc'[t] = "f_exec" => code[tmpc'[t]] \in Texts
      /\ queue[t] # <<>> =>
           IF pc'[t] = "f_exec" THEN tmpc'[t] = Head(queue[t])
                                ELSE code[Head(queue[t])] \notin Texts
      /\ UNCHANGED <<valid, code, posted, ran>>
  BY TakeMoves
<1> SUFFICES ASSUME NEW f \in (Filters \ torn') \cap valid'
             PROVE  posted'[f] = ran'[f] \o InHand(f)' \o TextsOf(queue[f])'
  BY DEF RunsInOrder
<1>2. f \in Tasks /\ f \in Threads
  BY DEF Tasks, Threads
<1>3. InHand(f) = HandText(f) /\ InHand(f)' = HandText(f)'
  BY HandIs, HandIsNext DEF InHandIsText
<1>4. posted[f] = (ran[f] \o HandText(f)) \o Picked(code, Texts, queue[f])
  BY <1>1, <1>3 DEF RunsInOrder, TextsOf
<1>5. CASE f = t
  <2>1. /\ queue'[f] = Tail(queue[f]) /\ queue[f] \in Seq(Jobs) /\ queue[f] # <<>>
        /\ ran[f] \in Seq(Jobs)
    BY <1>1, <1>2, <1>5 DEF Typed, TypeOK
  <2>2. /\ Head(queue[f]) \in Jobs /\ Tail(queue[f]) \in Seq(Jobs)
    BY <2>1, HeadTailProperties
  <2>3. Picked(code, Texts, queue[f]) =
          PickedOne(code, Texts, Head(queue[f])) \o Picked(code, Texts, Tail(queue[f]))
    BY <2>1, PickedTail, Zenon
  <2>4. Picked(code, Texts, Tail(queue[f])) \in Seq(Jobs)
    BY <2>2, PickedSeq
  <2>5. HandText(f) = <<>> /\ HandText(f)' = PickedOne(code, Texts, Head(queue[f]))
    BY <1>1, <1>5 DEF HandText, PickedOne
  <2>6. PickedOne(code, Texts, Head(queue[f])) \in Seq(Jobs)
    <3>1. \A j \in Jobs : PickedOne(code, Texts, j) \in Seq(Jobs)
      BY DEF PickedOne
    <3> QED
      BY <2>2, <3>1, Zenon
  <2>7. ran[f] \o <<>> = ran[f]
    BY <2>1, ConcatEmptySeq
  <2>8. \A a, b, c \in Seq(Jobs) : (a \o b) \o c = a \o (b \o c)
    BY ConcatAssociative
  <2>9. (ran[f] \o PickedOne(code, Texts, Head(queue[f]))) \o Picked(code, Texts, Tail(queue[f]))
          = ran[f] \o
              (PickedOne(code, Texts, Head(queue[f])) \o Picked(code, Texts, Tail(queue[f])))
    BY <2>1, <2>4, <2>6, <2>8, Zenon
  <2> QED
    BY <1>1, <1>3, <1>4, <2>1, <2>3, <2>5, <2>7, <2>9 DEF TextsOf
<1>6. CASE f # t
  <2>1. queue'[f] = queue[f] /\ HandText(f)' = HandText(f)
    BY <1>1, <1>2, <1>6 DEF Typed, TypeOK, HandText
  <2> QED
    BY <1>1, <1>3, <1>4, <2>1 DEF TextsOf
<1> QED
  BY <1>5, <1>6

\* ExePrint.
LEMMA OrderExec ==
  ASSUME Typed, CodeInv, Typed', CodeInv', RunsInOrder, NEW t \in Filters,
         FilterExec(t) \/ FilterExit(t)
  PROVE  RunsInOrder'
<1>1. /\ pc[t] = "f_exec" /\ pc'[t] \in {"k_jobs", "f_jobs", "ended"}
      /\ \A u \in Threads \ {t} : pc'[u] = pc[u]
      /\ ran' = [ran EXCEPT ![t] = Append(@, tmpc[t])] /\ tmpc[t] \in Jobs
      /\ valid' \subseteq valid /\ \A q \in Tasks \ {t} : queue'[q] = queue[q]
      /\ \/ queue'[t] = <<>> /\ t \notin valid'
         \/ queue'[t] = queue[t]
      /\ UNCHANGED <<torn, code, tmpc, posted>>
  BY ExecMoves
<1> SUFFICES ASSUME NEW f \in (Filters \ torn') \cap valid'
             PROVE  posted'[f] = ran'[f] \o InHand(f)' \o TextsOf(queue[f])'
  BY DEF RunsInOrder
<1>2. f \in Threads /\ f \in Tasks /\ queue'[f] = queue[f]
  BY <1>1 DEF Threads, Tasks
<1>3. InHand(f) = HandText(f) /\ InHand(f)' = HandText(f)'
  BY HandIs, HandIsNext DEF InHandIsText
<1>4. posted[f] = (ran[f] \o HandText(f)) \o Picked(code, Texts, queue[f])
  BY <1>1, <1>3 DEF RunsInOrder, TextsOf
<1>5. ran'[f] \o HandText(f)' = ran[f] \o HandText(f)
  <2>1. ran[f] \in Seq(Jobs) /\ ran'[f] \in Seq(Jobs)
    BY DEF Typed, TypeOK
  <2>2. CASE f = t
    <3>1. /\ ran'[f] = Append(ran[f], tmpc[f]) /\ HandText(f) = <<tmpc[f]>>
          /\ HandText(f)' = <<>> /\ tmpc[f] \in Jobs
      BY <1>1, <2>2 DEF HandText, Typed, TypeOK
    <3>2. ran'[f] \o <<>> = ran'[f]
      BY <2>1, ConcatEmptySeq
    <3>3. Append(ran[f], tmpc[f]) = ran[f] \o <<tmpc[f]>>
      BY <2>1, <3>1, AppendIsConcat
    <3> QED
      BY <3>1, <3>2, <3>3
  <2>3. CASE f # t
    BY <1>1, <1>2, <2>3 DEF HandText, Typed, TypeOK
  <2> QED
    BY <2>2, <2>3
<1> QED
  BY <1>1, <1>2, <1>3, <1>4, <1>5 DEF TextsOf

LEMMA OrderStep == Typed /\ CodeInv /\ RunsInOrder /\ [Next]_vars => RunsInOrder'
<1> SUFFICES ASSUME Typed, CodeInv, RunsInOrder, [Next]_vars PROVE RunsInOrder'
  OBVIOUS
<1>0. Typed' /\ CodeInv'
  BY TypedStep, CodeStep
<1>1. CASE Quiet
  <2>1. /\ UNCHANGED <<queue, valid, code, posted, ran>> /\ torn \subseteq torn'
        /\ \A f \in Filters : HandText(f)' = HandText(f)
    BY <1>1 DEF Quiet, HandText
  <2>2. \A f \in Filters : InHand(f) = HandText(f) /\ InHand(f)' = HandText(f)'
    BY <1>0, HandIs, HandIsNext DEF InHandIsText
  <2> QED
    BY <2>1, <2>2 DEF RunsInOrder, TextsOf
<1> QED
  BY <1>0, <1>1, QuietOrMoves, OrderAlloc, OrderInsert, OrderTake, OrderExec DEF Moves

LEMMA OrderInit == Init => RunsInOrder
<1> SUFFICES ASSUME Init, NEW f \in (Filters \ torn) \cap valid
             PROVE  posted[f] = ran[f] \o InHand(f) \o TextsOf(queue[f])
  BY DEF RunsInOrder
<1>1. posted[f] = <<>> /\ ran[f] = <<>> /\ queue[f] = <<>> /\ pc[f] = "none"
  BY DEF Init, Tasks, Threads
<1>2. TextsOf(queue[f]) = <<>> /\ InHand(f) = <<>>
  BY <1>1, PickedNone DEF TextsOf, InHand
<1> QED
  BY <1>1, <1>2

\* RunsInOrder for any number of callers, senders and filters: of a list in which no QueRem
\* has met a QueIns, whatever Spawn does before its thread runs.  CodeInv is what makes it
\* inductive (the texts of a list are those of it whose code says so, so the code of a
\* listed job must be settled).
THEOREM TextsInOrder == Spec => []RunsInOrder
<1> QED
  BY InitTyped, TypedStep, CodeInit, CodeStep, OrderInit, OrderStep, PTL DEF Spec
=============================================================================
