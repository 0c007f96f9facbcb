---------------------------- MODULE MsgLoopProofs ----------------------------
(***************************************************************************)
(* Theorems about MsgLoop for any set of threads and messages.             *)
(***************************************************************************)
EXTENDS MsgLoop, SequenceTheorems, WellFoundedInduction, TLAPS

-----------------------------------------------------------------------------
(* What Picked does with a list at whose ends jobs are put and taken, for  *)
(* lists of any length.                                                    *)

\* A set of naturals that is not empty has a least member.
LEMMA LeastNat ==
  ASSUME NEW N \in SUBSET Nat, N # {}
  PROVE  \E x \in N : \A y \in N : ~(y < x)
<1>1. \E x \in N : \A y \in N : ~(<<y, x>> \in OpToRel(<, Nat))
  BY NatLessThanWellFounded, WFMin
<1> QED
  BY <1>1 DEF OpToRel

\* What Picked has found after i jobs, from what it has found before.
PickStep(c, C, s, f, i) ==
  IF i = 0 THEN <<>> ELSE IF c[s[i]] \in C THEN Append(f[i - 1], s[i]) ELSE f[i - 1]

\* Picked is well defined: there is a function that its recursion describes,
LEMMA PickedExists ==
  ASSUME NEW c, NEW C, NEW S, NEW s \in Seq(S)
  PROVE  \E f \in [0..Len(s) -> Seq(S)] : \A i \in 0..Len(s) : f[i] = PickStep(c, C, s, f, i)
<1>1. Len(s) \in Nat /\ \A i \in 1..Len(s) : s[i] \in S
  OBVIOUS
<1> DEFINE Good(n) == \E f \in [0..n -> Seq(S)] : \A i \in 0..n : f[i] = PickStep(c, C, s, f, i)
           D == {n \in Nat : n <= Len(s) /\ ~Good(n)}
<1>2. Good(0)
  <2>1. PICK f \in [0..0 -> Seq(S)] : f = [i \in 0..0 |-> <<>>]
    <3>1. [i \in 0..0 |-> <<>>] \in [0..0 -> Seq(S)]
      BY EmptySeq
    <3> QED
      BY <3>1
  <2> QED
    BY <2>1 DEF PickStep
<1>3. ASSUME NEW n \in Nat, n + 1 <= Len(s), Good(n) PROVE Good(n + 1)
  <2>1. PICK f \in [0..n -> Seq(S)] : \A i \in 0..n : f[i] = PickStep(c, C, s, f, i)
    BY <1>3
  <2>2. n \in 0..n /\ s[n + 1] \in S /\ f[n] \in Seq(S)
    BY <1>1, <1>3
  <2> DEFINE x == IF c[s[n + 1]] \in C THEN Append(f[n], s[n + 1]) ELSE f[n]
             g == [i \in 0..n + 1 |-> IF i = n + 1 THEN x ELSE f[i]]
  <2>3. x \in Seq(S)
    BY <2>2, AppendProperties
  <2> HIDE DEF x
  <2>4. g \in [0..n + 1 -> Seq(S)]
    BY <2>3
  <2>5. ASSUME NEW i \in 0..n + 1 PROVE g[i] = PickStep(c, C, s, g, i)
    <3>1. CASE i = n + 1
      <4>1. i # 0 /\ i - 1 = n /\ g[n] = f[n] /\ g[i] = x
        BY <3>1
      <4> QED
        BY <3>1, <4>1 DEF PickStep, x
    <3>2. CASE i # n + 1
      <4>1. i \in 0..n /\ (i # 0 => i - 1 \in 0..n) /\ g[i] = f[i]
        BY <3>2
      <4>2. i # 0 => g[i - 1] = f[i - 1]
        BY <4>1
      <4>3. f[i] = PickStep(c, C, s, f, i)
        BY <2>1, <4>1
      <4> QED
        BY <4>1, <4>2, <4>3 DEF PickStep
    <3> QED
      BY <3>1, <3>2
  <2> HIDE DEF g
  <2> QED
    BY <2>4, <2>5
<1>4. D = {}
  <2> SUFFICES ASSUME D # {} PROVE FALSE
    OBVIOUS
  <2> HIDE DEF Good
  <2>1. PICK n \in D : \A m \in D : ~(m < n)
    BY LeastNat
  <2>2. n # 0
    BY <1>2
  <2>3. n - 1 \in Nat /\ n - 1 < n /\ n - 1 <= Len(s) /\ (n - 1) + 1 = n
    BY <1>1, <2>2
  <2>4. Good(n - 1)
    BY <2>1, <2>3
  <2>5. Good((n - 1) + 1)
    BY <1>3, <2>3, <2>4
  <2> QED
    BY <2>3, <2>5
<1>5. Good(Len(s))
  <2> HIDE DEF Good
  <2> QED
    BY <1>1, <1>4
<1> QED
  BY <1>5

\* and any such function ends in it.
LEMMA PickedIs ==
  ASSUME NEW c, NEW C, NEW S, NEW s \in Seq(S), NEW f,
         \A i \in 0..Len(s) : f[i] = PickStep(c, C, s, f, i)
  PROVE  Picked(c, C, s) = f[Len(s)]
<1> DEFINE Fix(k) == k = [i \in 0..Len(s) |-> PickStep(c, C, s, k, i)]
           g == [i \in 0..Len(s) |-> f[i]]
<1>0. Len(s) \in Nat
  OBVIOUS
<1>1. Picked(c, C, s) = (CHOOSE k : Fix(k))[Len(s)]
  BY DEF Picked, PickStep
<1>2. Fix(g)
  <2> SUFFICES ASSUME NEW i \in 0..Len(s) PROVE f[i] = PickStep(c, C, s, g, i)
    OBVIOUS
  <2>1. i # 0 => i - 1 \in 0..Len(s)
    BY <1>0
  <2>2. i # 0 => g[i - 1] = f[i - 1]
    BY <2>1
  <2>3. f[i] = PickStep(c, C, s, f, i)
    OBVIOUS
  <2> HIDE DEF g
  <2> QED
    BY <2>2, <2>3 DEF PickStep
<1>3. ASSUME NEW k, Fix(k) PROVE k[Len(s)] = f[Len(s)]
  <2> DEFINE D == {n \in 0..Len(s) : k[n] # f[n]}
  <2>1. ASSUME D # {} PROVE FALSE
    <3>1. D \in SUBSET Nat
      BY <1>0
    <3>2. PICK n \in D : \A m \in D : ~(m < n)
      BY <2>1, <3>1, LeastNat
    <3>3. k[n] = PickStep(c, C, s, k, n) /\ f[n] = PickStep(c, C, s, f, n)
      BY <1>3, <3>2
    <3>4. n # 0
      BY <3>2, <3>3 DEF PickStep
    <3>5. n - 1 \in 0..Len(s) /\ n - 1 < n
      BY <1>0, <3>2, <3>4
    <3>6. k[n - 1] = f[n - 1]
      BY <3>2, <3>5
    <3> QED
      BY <3>2, <3>3, <3>6 DEF PickStep
  <2>2. Len(s) \in 0..Len(s)
    BY <1>0
  <2> QED
    BY <2>1, <2>2
<1> HIDE DEF Fix
<1>4. Fix(CHOOSE k : Fix(k))
  BY <1>2
<1> QED
  BY <1>1, <1>3, <1>4

LEMMA PickedSeq ==
  ASSUME NEW c, NEW C, NEW S, NEW s \in Seq(S)
  PROVE  Picked(c, C, s) \in Seq(S)
<1>1. PICK f \in [0..Len(s) -> Seq(S)] : \A i \in 0..Len(s) : f[i] = PickStep(c, C, s, f, i)
  BY PickedExists
<1>2. Picked(c, C, s) = f[Len(s)] /\ Len(s) \in 0..Len(s)
  BY <1>1, PickedIs
<1> QED
  BY <1>1, <1>2

\* To put a job after two lists is to put it after the second.
AppendsToLast(S) == \A a, b \in Seq(S), j \in S : Append(a \o b, j) = a \o Append(b, j)

LEMMA AppendOfConcat == \A S : AppendsToLast(S)
<1> TAKE S
<1> USE DEF AppendsToLast
<1> TAKE a, b \in Seq(S)
<1> TAKE j \in S
<1>1. Append(b, j) = b \o <<j>> /\ <<j>> \in Seq(S) /\ a \o b \in Seq(S)
  BY AppendProperties, ConcatProperties
<1>2. Append(a \o b, j) = (a \o b) \o <<j>>
  BY <1>1, AppendProperties
<1> QED
  BY <1>1, <1>2, ConcatAssociative

\* Put after the others, the one picked is the last.
LEMMA PickedAppend ==
  ASSUME NEW c, NEW C, NEW S, NEW s \in Seq(S), NEW j \in S
  PROVE  /\ Picked(c, C, s) \in Seq(S)
         /\ Picked(c, C, Append(s, j)) =
              IF c[j] \in C THEN Append(Picked(c, C, s), j) ELSE Picked(c, C, s)
<1>1. PICK f \in [0..Len(s) -> Seq(S)] : \A i \in 0..Len(s) : f[i] = PickStep(c, C, s, f, i)
  BY PickedExists
<1> DEFINE n == Len(s)
           a == Append(s, j)
           x == IF c[j] \in C THEN Append(f[n], j) ELSE f[n]
           g == [i \in 0..n + 1 |-> IF i = n + 1 THEN x ELSE f[i]]
<1>2. /\ n \in Nat /\ a \in Seq(S) /\ Len(a) = n + 1 /\ a[n + 1] = j
      /\ \A i \in 1..n : a[i] = s[i]
  BY AppendProperties
<1>3. Picked(c, C, s) = f[n] /\ f[n] \in Seq(S)
  BY <1>1, <1>2, PickedIs
<1> HIDE DEF x, a, n
<1>4. ASSUME NEW i \in 0..n + 1 PROVE g[i] = PickStep(c, C, a, g, i)
  <2>1. CASE i = n + 1
    <3>1. i # 0 /\ i - 1 = n /\ g[n] = f[n] /\ g[i] = x
      BY <1>2, <2>1
    <3> QED
      BY <1>2, <2>1, <3>1 DEF PickStep, x
  <2>2. CASE i # n + 1
    <3>1. i \in 0..n /\ (i # 0 => i - 1 \in 0..n /\ a[i] = s[i]) /\ g[i] = f[i]
      BY <1>2, <2>2
    <3>2. i # 0 => g[i - 1] = f[i - 1]
      BY <1>2, <3>1
    <3>3. f[i] = PickStep(c, C, s, f, i)
      BY <1>1, <3>1 DEF n
    <3> QED
      BY <3>1, <3>2, <3>3 DEF PickStep
  <2> QED
    BY <2>1, <2>2
<1>5. g[n + 1] = x
  BY <1>2
<1> HIDE DEF g
<1>6. Picked(c, C, a) = g[Len(a)]
  BY <1>2, <1>4, PickedIs
<1> QED
  BY <1>2, <1>3, <1>5, <1>6 DEF x, a

\* What is picked of one job.
PickedOne(c, C, j) == IF c[j] \in C THEN <<j>> ELSE <<>>

\* Taken from the front, the one picked is the first.
LEMMA PickedTail ==
  ASSUME NEW c, NEW C, NEW S, NEW q \in Seq(S), q # <<>>
  PROVE  Picked(c, C, q) = PickedOne(c, C, Head(q)) \o Picked(c, C, Tail(q))
<1> DEFINE t == Tail(q)
           n == Len(t)
           h == PickedOne(c, C, Head(q))
<1>1. /\ t \in Seq(S) /\ n \in Nat /\ Len(q) = n + 1 /\ Head(q) \in S /\ Head(q) = q[1]
      /\ \A i \in 1..n : t[i] = q[i + 1] /\ t[i] \in S
  BY HeadTailProperties
<1>2. h \in Seq(S)
  BY <1>1 DEF PickedOne
<1> HIDE DEF t, n, h
<1>3. PICK f \in [0..n -> Seq(S)] : \A i \in 0..n : f[i] = PickStep(c, C, t, f, i)
  <2>1. \A u \in Seq(S) : \E f \in [0..Len(u) -> Seq(S)] :
          \A i \in 0..Len(u) : f[i] = PickStep(c, C, u, f, i)
    BY PickedExists
  <2> QED
    BY <1>1, <2>1, Zenon DEF n
<1> DEFINE g == [i \in 0..n + 1 |-> IF i = 0 THEN <<>> ELSE h \o f[i - 1]]
<1>4. ASSUME NEW i \in 0..n + 1 PROVE g[i] = PickStep(c, C, q, g, i)
  <2>1. CASE i = 0
    BY <1>1, <2>1 DEF PickStep
  <2>2. CASE i = 1
    <3>1. 0 \in 0..n /\ 0 \in 0..n + 1 /\ 1 \in 0..n + 1 /\ 1 - 1 = 0
      BY <1>1
    <3>2. f[0] = <<>>
      BY <1>3, <3>1 DEF PickStep
    <3>3. g[0] = <<>> /\ g[1] = h \o f[0]
      BY <3>1
    <3>4. g[1] = h
      BY <1>2, <3>2, <3>3, ConcatEmptySeq
    <3>5. h = IF c[q[1]] \in C THEN Append(<<>>, q[1]) ELSE <<>>
      BY <1>1 DEF h, PickedOne
    <3> QED
      BY <2>2, <3>1, <3>3, <3>4, <3>5 DEF PickStep
  <2>3. CASE i # 0 /\ i # 1
    <3>1. /\ i - 1 \in 0..n /\ i - 1 \in 1..n /\ i - 1 \in 0..n + 1 /\ i - 1 # 0
          /\ (i - 1) - 1 \in 0..n /\ (i - 1) + 1 = i
      BY <1>1, <2>3
    <3>2. g[i] = h \o f[i - 1] /\ g[i - 1] = h \o f[(i - 1) - 1] /\ t[i - 1] = q[i]
      BY <1>1, <2>3, <3>1
    <3>3. f[i - 1] = IF c[q[i]] \in C THEN Append(f[(i - 1) - 1], q[i]) ELSE f[(i - 1) - 1]
      BY <1>3, <3>1, <3>2 DEF PickStep
    <3>4. q[i] \in S /\ f[(i - 1) - 1] \in Seq(S)
      BY <1>1, <3>1, <3>2
    <3>5. h \o Append(f[(i - 1) - 1], q[i]) = Append(h \o f[(i - 1) - 1], q[i])
      <4>1. AppendsToLast(S)
        BY AppendOfConcat
      <4> QED
        BY <1>2, <3>4, <4>1, Zenon DEF AppendsToLast
    <3> QED
      BY <2>3, <3>2, <3>3, <3>5 DEF PickStep
  <2> QED
    BY <2>1, <2>2, <2>3
<1>5. g[n + 1] = h \o f[n]
  <2>1. n + 1 \in 0..n + 1 /\ n + 1 # 0 /\ (n + 1) - 1 = n
    BY <1>1
  <2> QED
    BY <2>1
<1> HIDE DEF g
<1>6. Picked(c, C, q) = g[n + 1]
  BY <1>1, <1>4, PickedIs
<1>7. Picked(c, C, t) = f[n]
  BY <1>1, <1>3, PickedIs DEF n
<1> QED
  BY <1>5, <1>6, <1>7 DEF h, t

\* Only the codes of the jobs in the list matter.
LEMMA PickedSame ==
  ASSUME NEW c, NEW d, NEW C, NEW S, NEW s \in Seq(S), \A i \in 1..Len(s) : c[s[i]] = d[s[i]]
  PROVE  Picked(c, C, s) = Picked(d, C, s)
<1>0. \E f \in [0..Len(s) -> Seq(S)] : \A i \in 0..Len(s) : f[i] = PickStep(c, C, s, f, i)
  BY ONLY PickedExists, s \in Seq(S)
<1>1. PICK f \in [0..Len(s) -> Seq(S)] : \A i \in 0..Len(s) : f[i] = PickStep(c, C, s, f, i)
  BY <1>0
<1>2. \A i \in 0..Len(s) : f[i] = PickStep(d, C, s, f, i)
  BY <1>1 DEF PickStep
<1> QED
  BY <1>1, <1>2, PickedIs

LEMMA PickedNone ==
  ASSUME NEW c, NEW C, NEW S
  PROVE  /\ Picked(c, C, <<>>) = <<>>
         /\ \A j \in S : Picked(c, C, <<j>>) = PickedOne(c, C, j)
<1>1. <<>> \in Seq(S) /\ Len(<<>>) = 0
  BY EmptySeq
<1>2. Picked(c, C, <<>>) = <<>>
  <2>1. PICK f \in [0..Len(<<>>) -> Seq(S)] :
               \A i \in 0..Len(<<>>) : f[i] = PickStep(c, C, <<>>, f, i)
    <3>1. \A u \in Seq(S) : \E f \in [0..Len(u) -> Seq(S)] :
            \A i \in 0..Len(u) : f[i] = PickStep(c, C, u, f, i)
      BY PickedExists
    <3> QED
      BY <1>1, <3>1, Zenon
  <2>2. f[0] = <<>>
    BY <1>1, <2>1 DEF PickStep
  <2> QED
    BY <1>1, <2>1, <2>2, PickedIs
<1>3. ASSUME NEW j \in S PROVE Picked(c, C, <<j>>) = PickedOne(c, C, j)
  <2>1. <<j>> = Append(<<>>, j)
    OBVIOUS
  <2>2. Picked(c, C, Append(<<>>, j)) =
          IF c[j] \in C THEN Append(Picked(c, C, <<>>), j) ELSE Picked(c, C, <<>>)
    <3>1. \A u \in Seq(S), k \in S : Picked(c, C, Append(u, k)) =
            IF c[k] \in C THEN Append(Picked(c, C, u), k) ELSE Picked(c, C, u)
      BY PickedAppend
    <3> QED
      BY <1>1, <3>1, Zenon
  <2> QED
    BY <1>2, <2>1, <2>2 DEF PickedOne
<1> QED
  BY <1>2, <1>3

-----------------------------------------------------------------------------
(* The message loop.                                                       *)

\* Who can be where: the places of TaskMsg and of GetKey belong to
\* different threads, and a sender has a job in hand from Alloc to the end.
SendPCs == {"p_sync", "p_lock", "p_flags", "p_sig", "p_ins", "p_link", "p_unlock",
            "q_lock", "q_ins", "q_link"}
ReadPCs == PCs \ (SendPCs \cup {"ready"})

Roles ==
  \A t \in Threads :
    /\ pc[t] \in SendPCs => t \in Posters /\ tmpc[t] \in Jobs
    /\ pc[t] \in ReadPCs => t = Server

Typed == TypeOK /\ Roles

LEMMA InitTyped == Init => Typed
<1> SUFFICES ASSUME Init PROVE Typed
  OBVIOUS
<1>1. TypeOK
  <2>1. pc \in [Threads -> PCs] /\ pc[Server] = "user"
    BY MsgLoopAssumption DEF Init, PCs, Threads
  <2>2. queue \in Seq(Jobs) /\ sent \in Seq(Jobs) /\ got \in Seq(Jobs)
    BY DEF Init
  <2>3. /\ torn \in BOOLEAN /\ locked \in BOOLEAN /\ idle \in BOOLEAN /\ mutex \in {None, Server}
        /\ enqWait \subseteq {Server}
    BY DEF Init
  <2>4. code \in [Jobs -> Codes] /\ tmpc \in [Threads -> Jobs \cup {None}]
    BY DEF Init, Codes
  <2> QED
    BY <2>1, <2>2, <2>3, <2>4 DEF TypeOK
<1>2. Roles
  BY MsgLoopAssumption DEF Init, Roles, PCs, SendPCs, ReadPCs, Threads
<1> QED
  BY <1>1, <1>2 DEF Typed

\* QueIns and QueRem keep a list of jobs.
LEMMA AppendJob ==
  ASSUME NEW q \in Seq(Jobs), NEW j \in Jobs
  PROVE  Append(q, j) \in Seq(Jobs)
  OBVIOUS

LEMMA HeadTailJob ==
  ASSUME NEW q \in Seq(Jobs), q # <<>>
  PROVE  Head(q) \in Jobs /\ Tail(q) \in Seq(Jobs)
  OBVIOUS

LEMMA TypedStep == Typed /\ [Next]_vars => Typed'
<1> SUFFICES ASSUME Typed, [Next]_vars PROVE Typed'
  OBVIOUS
<1> USE MsgLoopAssumption DEF Typed, TypeOK, Roles, PCs, SendPCs, ReadPCs, Codes, Threads
<1>1. ASSUME NEW t \in Threads, TaskMsg(t) PROVE Typed'
  <2>1. PICK j \in Jobs, c \in {"KEY", "MOVE"} : Alloc(t, j, c)
    BY <1>1 DEF TaskMsg
  <2>2. /\ t \in Posters /\ pc[t] = "ready" /\ pc' = [pc EXCEPT ![t] = "p_sync"]
        /\ UNCHANGED <<queue, torn, locked, mutex, idle, enqWait, sent, got>>
    BY <1>1 DEF TaskMsg, Goto, sync
  <2> QED
    BY <2>1, <2>2 DEF Alloc
<1>2. ASSUME NEW t \in Threads, TaskText(t) PROVE Typed'
  BY <1>2 DEF TaskText, Alloc, Goto, sync
<1>3. ASSUME NEW t \in Threads, TaskMsgSync(t) PROVE Typed'
  BY <1>3 DEF TaskMsgSync, Sync, Goto, sync
<1>4. ASSUME NEW t \in Threads, TaskMsgLock(t) PROVE Typed'
  BY <1>4 DEF TaskMsgLock, LBts, Goto, sync
<1>5. ASSUME NEW t \in Threads, TaskMsgFlags(t) PROVE Typed'
  BY <1>5 DEF TaskMsgFlags, Goto, sync
<1>6. ASSUME NEW t \in Threads, TaskMsgSignal(t) PROVE Typed'
  BY <1>6 DEF TaskMsgSignal, Sync, Goto, sync
<1>7. ASSUME NEW t \in Threads, TaskMsgInserted(t) PROVE Typed'
  BY <1>7 DEF TaskMsgInserted, Goto, sync
<1>8. ASSUME NEW t \in Threads, TaskMsgUnlock(t) PROVE Typed'
  <2>1. CASE Goto(t, "p_unlock", "ready") /\ UNCHANGED <<code, tmpc>>
    BY <1>8, <2>1 DEF TaskMsgUnlock, Goto
  <2>2. ASSUME Goto(t, "p_unlock", "p_sync"), NEW j \in Jobs, Alloc(t, j, "UP")
        PROVE  Typed'
    <3>1. t \in Posters /\ t # Server
      BY <2>2 DEF Goto
    <3>2. code' \in [Jobs -> Codes]
      BY <2>2 DEF Alloc
    <3>3. UNCHANGED <<queue, torn, mutex, idle, enqWait, sent, got>> /\ locked' = FALSE
      BY <1>8 DEF TaskMsgUnlock
    <3> QED
      BY <2>2, <3>1, <3>2, <3>3 DEF Goto, Alloc
  <2> QED
    BY <1>8, <2>1, <2>2 DEF TaskMsgUnlock
<1>9. ASSUME NEW t \in Threads, JobQue(t) PROVE Typed'
  BY <1>9 DEF JobQue, Alloc, Goto, sync
<1>10. ASSUME NEW t \in Threads, JobQueLock(t) PROVE Typed'
  BY <1>10 DEF JobQueLock, LBts, Goto, sync
<1>11. ASSUME NEW t \in Threads, JobQueInserted(t) PROVE Typed'
  <2>1. tmpc[t] \in Jobs
    BY <1>11 DEF JobQueInserted, Goto
  <2>2. queue' \in Seq(Jobs) /\ sent' \in Seq(Jobs)
    BY <1>11, <2>1, AppendJob DEF JobQueInserted
  <2> QED
    BY <1>11, <2>2 DEF JobQueInserted, Goto
<1>12. ASSUME NEW t \in Threads, GetKey(t) PROVE Typed'
  BY <1>12 DEF GetKey, Goto, sync
<1>13. ASSUME NEW t \in Threads, ScanMsg(t) PROVE Typed'
  BY <1>13 DEF ScanMsg, Sync, Goto, sync
<1>14. ASSUME NEW t \in Threads, JobsHndlr(t) PROVE Typed'
  BY <1>14 DEF JobsHndlr, LBts, Goto, sync
<1>15. ASSUME NEW t \in Threads, JobsHndlrHead(t) PROVE Typed'
  <2>1. queue' \in Seq(Jobs)
    <3>1. CASE queue # <<>> /\ code[Head(queue)] = "EXE"
      <4>1. queue' = Tail(queue)
        BY <1>15, <3>1, Zenon DEF JobsHndlrHead
      <4> QED
        BY <3>1, <4>1, HeadTailJob
    <3>2. CASE ~(queue # <<>> /\ code[Head(queue)] = "EXE")
      <4>1. queue' = queue
        BY <1>15, <3>2, Zenon DEF JobsHndlrHead
      <4> QED
        BY <4>1
    <3> QED
      BY <3>1, <3>2
  <2>2. pc[t] = "j_head" /\ (pc' = [pc EXCEPT ![t] = "j_run"] \/ pc' = [pc EXCEPT ![t] = "j_sig"])
    BY <1>15 DEF JobsHndlrHead
  <2>3. UNCHANGED <<torn, mutex, idle, enqWait, code, tmpc, sent, got>> /\ locked' = FALSE
    BY <1>15 DEF JobsHndlrHead
  <2>4. CASE pc' = [pc EXCEPT ![t] = "j_run"]
    BY <2>1, <2>2, <2>3, <2>4
  <2>5. CASE pc' = [pc EXCEPT ![t] = "j_sig"]
    BY <2>1, <2>2, <2>3, <2>5
  <2> QED
    BY <2>2, <2>4, <2>5
<1>16. ASSUME NEW t \in Threads, JobRun(t) PROVE Typed'
  BY <1>16 DEF JobRun, Goto, sync
<1>17. ASSUME NEW t \in Threads, JobsHndlrSignal(t) PROVE Typed'
  BY <1>17 DEF JobsHndlrSignal, Sync, Goto, sync
<1>18. ASSUME NEW t \in Threads, ScanMsgLock(t) PROVE Typed'
  BY <1>18 DEF ScanMsgLock, Sync, Goto, sync
<1>19. ASSUME NEW t \in Threads, ScanMsgNone(t) PROVE Typed'
  BY <1>19 DEF ScanMsgNone, Goto, sync
<1>20. ASSUME NEW t \in Threads, ScanMsgTake(t) PROVE Typed'
  <2>1. queue' \in Seq(Jobs)
    <3>1. CASE queue # <<>>
      BY <1>20, <3>1, HeadTailJob DEF ScanMsgTake
    <3>2. CASE queue = <<>>
      BY <1>20, <3>2 DEF ScanMsgTake
    <3> QED
      BY <3>1, <3>2
  <2> QED
    BY <1>20, <2>1 DEF ScanMsgTake, Goto
<1>21. ASSUME NEW t \in Threads, ScanMsgOther(t) PROVE Typed'
  BY <1>21 DEF ScanMsgOther, Goto, sync
<1>22. ASSUME NEW t \in Threads, ScanMsgResult(t) PROVE Typed'
  BY <1>22 DEF ScanMsgResult, Goto, sync
<1>23. ASSUME NEW t \in Threads, GetKeyIdle(t) PROVE Typed'
  BY <1>23 DEF GetKeyIdle, Goto, sync
<1>24. ASSUME NEW t \in Threads, GetKeyWait(t) PROVE Typed'
  BY <1>24 DEF GetKeyWait, Sync, Goto, sync
<1>25. ASSUME NEW t \in Threads, GetKeyWoken(t) PROVE Typed'
  BY <1>25 DEF GetKeyWoken, Sync, Goto, sync
<1>26. ASSUME NEW t \in Threads, GetKeyBusy(t) PROVE Typed'
  BY <1>26 DEF GetKeyBusy, Goto, sync
<1>27. CASE UNCHANGED vars
  BY <1>27 DEF vars, sync
<1>28. ASSUME NEW t \in Threads, TaskMsgInvalid(t) \/ TaskMsgQueIns(t) \/ JobQueQueIns(t)
       PROVE  Typed'
  <2>1. /\ pc[t] \in {"p_flags", "p_ins", "q_ins"}
        /\ \E to \in {"ready", "p_link", "q_link"} : pc' = [pc EXCEPT ![t] = to]
        /\ UNCHANGED <<queue, torn, locked, mutex, idle, enqWait, code, tmpc, sent, got>>
    BY <1>28 DEF TaskMsgInvalid, TaskMsgQueIns, JobQueQueIns, Goto, sync
  <2> QED
    BY <2>1
<1>29. ASSUME NEW t \in Threads, ScanMsgHead(t) PROVE Typed'
  <2>1. PICK j \in Heads : tmpc' = [tmpc EXCEPT ![t] = j]
    BY <1>29 DEF ScanMsgHead
  <2>2. j \in Jobs
    BY <2>1, HeadTailJob DEF Heads, Linking
  <2>3. pc[t] = "s_read" /\ pc' = [pc EXCEPT ![t] = "s_rem"]
        /\ UNCHANGED <<queue, torn, locked, mutex, idle, enqWait, code, sent, got>>
    BY <1>29 DEF ScanMsgHead, Goto, sync
  <2> QED
    BY <2>1, <2>2, <2>3
<1>30. ASSUME NEW t \in Threads, TaskEnd(t) PROVE Typed'
  BY <1>30, EmptySeq DEF TaskEnd, Goto, sync
<1>31. ASSUME NEW t \in Threads, SpuriousWake(t) PROVE Typed'
  BY <1>31 DEF SpuriousWake
<1> QED
  BY <1>28, <1>29, <1>30, <1>31, <1>1, <1>2, <1>3, <1>4, <1>5, <1>6, <1>7, <1>8, <1>9, <1>10, <1>11, <1>12, <1>13, <1>14,
     <1>15, <1>16, <1>17, <1>18, <1>19, <1>20, <1>21, <1>22, <1>23, <1>24, <1>25, <1>26,
     <1>27 DEF Next, Call, Send, Read

\* The type invariant, with the job that ScanMsg has in hand where it reads msg_code.
THEOREM TypeCorrect == Spec => []TypeOK
<1>1. Typed => TypeOK
  BY DEF Typed
<1> QED
  BY InitTyped, TypedStep, <1>1, PTL DEF Spec

\* TASKf_IDLE never shows a task that runs a job, scans its list or has a message in
\* hand (IdleMeansWaiting), whatever the senders do.
LEMMA IdleStep == Typed /\ IdleMeansWaiting /\ [Next]_vars => IdleMeansWaiting'
<1> SUFFICES ASSUME Typed, IdleMeansWaiting, [Next]_vars PROVE IdleMeansWaiting'
  OBVIOUS
<1> USE MsgLoopAssumption DEF Typed, TypeOK, Roles, PCs, SendPCs, ReadPCs, Threads, IdleMeansWaiting
<1>1. ASSUME NEW t \in Threads, TaskMsg(t) PROVE IdleMeansWaiting'
  BY <1>1 DEF TaskMsg, Alloc, Goto, sync
<1>2. ASSUME NEW t \in Threads, TaskText(t) PROVE IdleMeansWaiting'
  BY <1>2 DEF TaskText, Alloc, Goto, sync
<1>3. ASSUME NEW t \in Threads, TaskMsgSync(t) PROVE IdleMeansWaiting'
  BY <1>3 DEF TaskMsgSync, Sync, Goto, sync
<1>4. ASSUME NEW t \in Threads, TaskMsgLock(t) PROVE IdleMeansWaiting'
  BY <1>4 DEF TaskMsgLock, LBts, Goto, sync
<1>5. ASSUME NEW t \in Threads, TaskMsgFlags(t) PROVE IdleMeansWaiting'
  BY <1>5 DEF TaskMsgFlags, Goto, sync
<1>6. ASSUME NEW t \in Threads, TaskMsgSignal(t) PROVE IdleMeansWaiting'
  BY <1>6 DEF TaskMsgSignal, Sync, Goto, sync
<1>7. ASSUME NEW t \in Threads, TaskMsgInserted(t) PROVE IdleMeansWaiting'
  BY <1>7 DEF TaskMsgInserted, Goto, sync
<1>8. ASSUME NEW t \in Threads, TaskMsgUnlock(t) PROVE IdleMeansWaiting'
  BY <1>8 DEF TaskMsgUnlock, Alloc, Goto, sync
<1>9. ASSUME NEW t \in Threads, JobQue(t) PROVE IdleMeansWaiting'
  BY <1>9 DEF JobQue, Alloc, Goto, sync
<1>10. ASSUME NEW t \in Threads, JobQueLock(t) PROVE IdleMeansWaiting'
  BY <1>10 DEF JobQueLock, LBts, Goto, sync
<1>11. ASSUME NEW t \in Threads, JobQueInserted(t) PROVE IdleMeansWaiting'
  BY <1>11 DEF JobQueInserted, Goto, sync
<1>12. ASSUME NEW t \in Threads, GetKey(t) PROVE IdleMeansWaiting'
  BY <1>12 DEF GetKey, Goto, sync
<1>13. ASSUME NEW t \in Threads, ScanMsg(t) PROVE IdleMeansWaiting'
  BY <1>13 DEF ScanMsg, Sync, Goto, sync
<1>14. ASSUME NEW t \in Threads, JobsHndlr(t) PROVE IdleMeansWaiting'
  BY <1>14 DEF JobsHndlr, LBts, Goto, sync
<1>15. ASSUME NEW t \in Threads, JobsHndlrHead(t) PROVE IdleMeansWaiting'
  BY <1>15 DEF JobsHndlrHead, Goto, sync
<1>16. ASSUME NEW t \in Threads, JobRun(t) PROVE IdleMeansWaiting'
  BY <1>16 DEF JobRun, Goto, sync
<1>17. ASSUME NEW t \in Threads, JobsHndlrSignal(t) PROVE IdleMeansWaiting'
  BY <1>17 DEF JobsHndlrSignal, Sync, Goto, sync
<1>18. ASSUME NEW t \in Threads, ScanMsgLock(t) PROVE IdleMeansWaiting'
  BY <1>18 DEF ScanMsgLock, Sync, Goto, sync
<1>19. ASSUME NEW t \in Threads, ScanMsgNone(t) PROVE IdleMeansWaiting'
  BY <1>19 DEF ScanMsgNone, Goto, sync
<1>20. ASSUME NEW t \in Threads, ScanMsgTake(t) PROVE IdleMeansWaiting'
  BY <1>20 DEF ScanMsgTake, Goto, sync
<1>21. ASSUME NEW t \in Threads, ScanMsgOther(t) PROVE IdleMeansWaiting'
  BY <1>21 DEF ScanMsgOther, Goto, sync
<1>22. ASSUME NEW t \in Threads, ScanMsgResult(t) PROVE IdleMeansWaiting'
  BY <1>22 DEF ScanMsgResult, Goto, sync
<1>23. ASSUME NEW t \in Threads, GetKeyIdle(t) PROVE IdleMeansWaiting'
  BY <1>23 DEF GetKeyIdle, Goto, sync
<1>24. ASSUME NEW t \in Threads, GetKeyWait(t) PROVE IdleMeansWaiting'
  BY <1>24 DEF GetKeyWait, Sync, Goto, sync
<1>25. ASSUME NEW t \in Threads, GetKeyWoken(t) PROVE IdleMeansWaiting'
  BY <1>25 DEF GetKeyWoken, Sync, Goto, sync
<1>26. ASSUME NEW t \in Threads, GetKeyBusy(t) PROVE IdleMeansWaiting'
  BY <1>26 DEF GetKeyBusy, Goto, sync
<1>27. CASE UNCHANGED vars
  BY <1>27 DEF vars, sync
<1>28. ASSUME NEW t \in Threads, TaskMsgInvalid(t) \/ TaskMsgQueIns(t) \/ JobQueQueIns(t)
       PROVE  IdleMeansWaiting'
  BY <1>28 DEF TaskMsgInvalid, TaskMsgQueIns, JobQueQueIns, Goto, sync
<1>29. ASSUME NEW t \in Threads, ScanMsgHead(t) \/ TaskEnd(t) \/ SpuriousWake(t)
       PROVE  IdleMeansWaiting'
  BY <1>29 DEF ScanMsgHead, TaskEnd, SpuriousWake, Goto, sync
<1> QED
  BY <1>28, <1>29, <1>1, <1>2, <1>3, <1>4, <1>5, <1>6, <1>7, <1>8, <1>9, <1>10, <1>11, <1>12, <1>13, <1>14,
     <1>15, <1>16, <1>17, <1>18, <1>19, <1>20, <1>21, <1>22, <1>23, <1>24, <1>25, <1>26,
     <1>27 DEF Next, Call, Send, Read

\* Whatever is sent and however the threads interleave, TASKf_IDLE is set only while the
\* task is in the waiting part of lilith_GetKey.
THEOREM IdleIsWaiting == Spec => []IdleMeansWaiting
<1>1. Init => IdleMeansWaiting
  BY DEF Init, IdleMeansWaiting
<1> QED
  BY InitTyped, TypedStep, IdleStep, <1>1, PTL DEF Spec

-----------------------------------------------------------------------------
(* The keys of a list: those with the code "KEY".                          *)

KeysOf(c, s) == Picked(c, {"KEY"}, s)
KeysOfOne(c, j) == IF c[j] = "KEY" THEN <<j>> ELSE <<>>

LEMMA KeysOfSeq ==
  ASSUME NEW c, NEW s \in Seq(Jobs)
  PROVE  KeysOf(c, s) \in Seq(Jobs)
  BY PickedSeq DEF KeysOf

LEMMA KeysOfAppend ==
  ASSUME NEW c, NEW s \in Seq(Jobs), NEW j \in Jobs
  PROVE  /\ KeysOf(c, s) \in Seq(Jobs)
         /\ KeysOf(c, Append(s, j)) =
              IF c[j] = "KEY" THEN Append(KeysOf(c, s), j) ELSE KeysOf(c, s)
  BY PickedAppend DEF KeysOf

LEMMA KeysOfTail ==
  ASSUME NEW c, NEW q \in Seq(Jobs), q # <<>>
  PROVE  KeysOf(c, q) = KeysOfOne(c, Head(q)) \o KeysOf(c, Tail(q))
<1>1. Picked(c, {"KEY"}, q) = PickedOne(c, {"KEY"}, Head(q)) \o Picked(c, {"KEY"}, Tail(q))
  BY PickedTail, Zenon
<1> QED
  BY <1>1 DEF KeysOf, KeysOfOne, PickedOne

LEMMA KeysOfSame ==
  ASSUME NEW c, NEW d, NEW s \in Seq(Jobs), \A i \in 1..Len(s) : c[s[i]] = d[s[i]]
  PROVE  KeysOf(c, s) = KeysOf(d, s)
  BY PickedSame DEF KeysOf

LEMMA KeysOfNone ==
  ASSUME NEW c
  PROVE  /\ KeysOf(c, <<>>) = <<>>
         /\ \A j \in Jobs : KeysOf(c, <<j>>) = KeysOfOne(c, j)
  BY PickedNone DEF KeysOf, KeysOfOne, PickedOne

-----------------------------------------------------------------------------
(* No key is lost or reordered.                                            *)

\* What is in a list has been sent: TaskMsg and JobQue never change the code of it again.
Coded(s) == \A i \in 1..Len(s) : code[s[i]] # "NEW"

KeysEq == Valid => Keys(sent) = got \o InHand \o Keys(queue)

KeysInv ==
  /\ KeysEq
  /\ Coded(sent) /\ Coded(queue)
  /\ pc[Server] \in {"s_rem", "s_msg"} => code[tmpc[Server]] # "NEW"
  /\ \A t \in Threads : pc[t] \in SendPCs => code[tmpc[t]] # "NEW"

\* What the server has in hand is in no other place.
HandKeys == IF pc[Server] = "s_msg" THEN KeysOfOne(code, tmpc[Server]) ELSE <<>>

LEMMA HandIs ==
  ASSUME Typed
  PROVE  InHand = HandKeys
  BY KeysOfNone DEF Typed, TypeOK, InHand, HandKeys, Keys, KeysOf

LEMMA HandIsAlways == Typed => InHand = HandKeys
  BY HandIs

LEMMA HandIsNext == (Typed => InHand = HandKeys)'
  BY HandIsAlways, PTL

\* Allocating a job gives a code to one that is nowhere yet.
LEMMA AllocKeeps ==
  ASSUME Typed, KeysInv, NEW t \in Threads, t # Server, pc[t] \notin ReadPCs,
         NEW j \in Jobs, NEW c \in {"KEY", "UP", "MOVE", "TEXT", "EXE"}, Alloc(t, j, c),
         NEW to \in SendPCs, pc' = [pc EXCEPT ![t] = to],
         UNCHANGED <<queue, sent, got>>, Typed'
  PROVE  KeysInv'
<1>1. code[j] = "NEW" /\ code' = [code EXCEPT ![j] = c] /\ tmpc' = [tmpc EXCEPT ![t] = j]
  BY DEF Alloc
<1>2. \A k \in Jobs : code[k] # "NEW" => code'[k] = code[k]
  BY <1>1 DEF Typed, TypeOK
<1>3. sent \in Seq(Jobs) /\ queue \in Seq(Jobs)
  BY DEF Typed, TypeOK
<1>4. Coded(sent)' /\ Coded(queue)'
  <2>1. /\ \A i \in 1..Len(sent) : sent[i] \in Jobs
        /\ \A i \in 1..Len(queue) : queue[i] \in Jobs
    BY <1>3
  <2> QED
    BY <1>2, <2>1 DEF KeysInv, Coded
<1>5. /\ KeysOf(code, sent) = KeysOf(code', sent)
      /\ KeysOf(code, queue) = KeysOf(code', queue)
  <2>1. /\ \A i \in 1..Len(sent) : code[sent[i]] = code'[sent[i]]
        /\ \A i \in 1..Len(queue) : code[queue[i]] = code'[queue[i]]
    BY <1>2, <1>3 DEF KeysInv, Coded
  <2> QED
    BY <1>3, <2>1, KeysOfSame
<1>6. /\ pc'[Server] = pc[Server] /\ tmpc'[Server] = tmpc[Server]
      /\ pc[Server] = "s_msg" =>
           tmpc[Server] \in Jobs /\ code'[tmpc[Server]] = code[tmpc[Server]]
  BY <1>1, <1>2 DEF Typed, TypeOK, Threads, KeysInv
<1>7. HandKeys' = HandKeys
  BY <1>6 DEF HandKeys, KeysOfOne
<1>8. KeysEq'
  BY <1>5, <1>7, HandIs, HandIsNext DEF KeysInv, KeysEq, Valid, Keys, KeysOf
<1>10. pc[Server] \in {"s_rem", "s_msg"} => code'[tmpc[Server]] # "NEW"
  BY <1>1, <1>2 DEF Typed, TypeOK, KeysInv
<1>9. ASSUME NEW u \in Threads, pc'[u] \in SendPCs PROVE code'[tmpc'[u]] # "NEW"
  <2>1. CASE u = t
    BY <1>1, <2>1 DEF Typed, TypeOK
  <2>2. CASE u # t
    <3>1. pc[u] \in SendPCs /\ tmpc'[u] = tmpc[u] /\ tmpc[u] \in Jobs
      BY <1>1, <1>9, <2>2 DEF Typed, TypeOK, Roles
    <3> QED
      BY <1>2, <3>1 DEF KeysInv
  <2> QED
    BY <2>1, <2>2
<1> QED
  BY <1>4, <1>6, <1>8, <1>9, <1>10 DEF KeysInv

\* QueIns: the last one sent is the last one in the list.
LEMMA InsertKeeps ==
  ASSUME Typed, KeysInv, Typed', NEW t \in Threads, pc[t] \in {"p_link", "q_link"},
         NEW to \in {"p_unlock", "ready"}, pc' = [pc EXCEPT ![t] = to],
         queue' = Append(queue, tmpc[t]), sent' = Append(sent, tmpc[t]),
         UNCHANGED <<code, tmpc, got>>
  PROVE  KeysInv'
<1> DEFINE j == tmpc[t]
<1>1. /\ j \in Jobs /\ code[j] # "NEW" /\ t # Server
      /\ queue \in Seq(Jobs) /\ sent \in Seq(Jobs) /\ got \in Seq(Jobs)
  BY MsgLoopAssumption DEF Typed, TypeOK, Roles, KeysInv, SendPCs
<1>2. pc'[Server] = pc[Server] /\ HandKeys' = HandKeys /\ HandKeys \in Seq(Jobs)
  BY <1>1 DEF HandKeys, KeysOfOne, Typed, TypeOK, Threads
<1> HIDE DEF j
<1>3. Coded(sent)' /\ Coded(queue)'
  BY <1>1 DEF KeysInv, Coded, j
<1>4. /\ KeysOf(code, queue) \in Seq(Jobs)
      /\ KeysOf(code, sent') = IF code[j] = "KEY" THEN Append(KeysOf(code, sent), j)
                                                  ELSE KeysOf(code, sent)
      /\ KeysOf(code, queue') = IF code[j] = "KEY" THEN Append(KeysOf(code, queue), j)
                                                   ELSE KeysOf(code, queue)
  BY <1>1, KeysOfAppend DEF j
<1>5. Valid => KeysOf(code, sent) = (got \o HandKeys) \o KeysOf(code, queue)
  BY HandIs DEF KeysInv, KeysEq, Keys, KeysOf
<1>6. Valid => Append(KeysOf(code, sent), j) = (got \o HandKeys) \o Append(KeysOf(code, queue), j)
  <2>1. got \o HandKeys \in Seq(Jobs)
    BY <1>1, <1>2, ConcatProperties
  <2>2. Append((got \o HandKeys) \o KeysOf(code, queue), j) =
          (got \o HandKeys) \o Append(KeysOf(code, queue), j)
    <3>1. AppendsToLast(Jobs)
      BY AppendOfConcat
    <3> QED
      BY <1>1, <1>4, <2>1, <3>1, Zenon DEF AppendsToLast
  <2> QED
    BY <1>5, <2>2
<1>7. KeysEq'
  BY <1>2, <1>4, <1>5, <1>6, HandIsNext DEF KeysEq, Valid, Keys, KeysOf
<1>8. \A u \in Threads : pc'[u] \in SendPCs => pc[u] \in SendPCs
  BY DEF Typed, TypeOK, SendPCs
<1> QED
  BY <1>2, <1>3, <1>7, <1>8 DEF KeysInv

\* QueRem: the first one goes from the list to the hand, if it is a message.
LEMMA TakeKeeps ==
  ASSUME Typed, KeysInv, Typed', ScanMsgTake(Server), queue # <<>>, tmpc[Server] = Head(queue)
  PROVE  KeysInv'
<1>1. /\ queue # <<>> /\ queue' = Tail(queue) /\ tmpc'[Server] = Head(queue)
      /\ pc[Server] = "s_rem" /\ pc' = [pc EXCEPT ![Server] = "s_msg"]
      /\ UNCHANGED <<code, sent, got, tmpc>>
  BY DEF ScanMsgTake, Goto
<1>2. /\ queue \in Seq(Jobs) /\ got \in Seq(Jobs) /\ Head(queue) \in Jobs
      /\ Tail(queue) \in Seq(Jobs) /\ Len(queue) \in Nat \ {0} /\ Len(Tail(queue)) = Len(queue) - 1
      /\ Head(queue) = queue[1] /\ \A i \in 1..Len(Tail(queue)) : Tail(queue)[i] = queue[i + 1]
  BY <1>1, HeadTailProperties, EmptySeq DEF Typed, TypeOK
<1>3. code[Head(queue)] # "NEW" /\ Coded(queue)'
  <2>1. 1 \in 1..Len(queue) /\ \A i \in 1..Len(Tail(queue)) : i + 1 \in 1..Len(queue)
    BY <1>2
  <2> QED
    BY <1>1, <1>2, <2>1 DEF KeysInv, Coded
<1>4. HandKeys = <<>> /\ HandKeys' = KeysOfOne(code, Head(queue))
  BY <1>1 DEF HandKeys, Typed, TypeOK, Threads
<1>5. KeysOf(code, queue) = KeysOfOne(code, Head(queue)) \o KeysOf(code, Tail(queue))
  BY <1>1, <1>2, KeysOfTail
<1>6. /\ KeysOfOne(code, Head(queue)) \in Seq(Jobs) /\ KeysOf(code, Tail(queue)) \in Seq(Jobs)
  <2>1. KeysOf(code, Tail(queue)) \in Seq(Jobs)
    BY <1>2, KeysOfSeq
  <2>2. \A j \in Jobs : KeysOfOne(code, j) \in Seq(Jobs)
    BY DEF KeysOfOne
  <2> QED
    BY <1>2, <2>1, <2>2, Zenon
<1>7. KeysOf(code, sent) =
        (got \o KeysOfOne(code, Head(queue))) \o KeysOf(code, Tail(queue))
  <2>1. KeysOf(code, sent) = (got \o <<>>) \o KeysOf(code, queue)
    BY <1>1, <1>4, HandIs DEF KeysInv, KeysEq, Valid, Keys, KeysOf
  <2>2. got \o <<>> = got
    BY <1>2, ConcatEmptySeq
  <2>3. (got \o KeysOfOne(code, Head(queue))) \o KeysOf(code, Tail(queue)) =
          got \o (KeysOfOne(code, Head(queue)) \o KeysOf(code, Tail(queue)))
    <3>1. \A a, b, c \in Seq(Jobs) : (a \o b) \o c = a \o (b \o c)
      BY ConcatAssociative
    <3> QED
      BY <1>2, <1>6, <3>1, Zenon
  <2> QED
    BY <1>5, <2>1, <2>2, <2>3
<1>8. KeysEq'
  BY <1>1, <1>4, <1>7, HandIsNext DEF KeysEq, Valid, Keys, KeysOf
<1>9. \A u \in Threads : pc'[u] \in SendPCs => pc[u] \in SendPCs /\ tmpc'[u] = tmpc[u]
  BY <1>1 DEF Typed, TypeOK, SendPCs, Threads
<1>10. tmpc'[Server] = Head(queue)
  BY <1>1
<1>11. Coded(sent)'
  BY <1>1 DEF KeysInv, Coded
<1> QED
  BY <1>1, <1>3, <1>8, <1>9, <1>10, <1>11 DEF KeysInv

\* JobRunOne takes no key.
LEMMA HeadKeeps ==
  ASSUME Typed, KeysInv, Typed', JobsHndlrHead(Server)
  PROVE  KeysInv'
<1>1. /\ pc[Server] = "j_head" /\ pc'[Server] \in {"j_run", "j_sig"}
      /\ \A u \in Threads \ {Server} : pc'[u] = pc[u]
      /\ UNCHANGED <<code, sent, got, tmpc>>
  BY DEF JobsHndlrHead, Typed, TypeOK, Threads
<1>2. HandKeys = <<>> /\ HandKeys' = <<>>
  BY <1>1 DEF HandKeys
<1>3. \A u \in Threads : pc'[u] \in SendPCs => pc[u] \in SendPCs
  BY <1>1 DEF SendPCs
<1>4. KeysOf(code, queue') = KeysOf(code, queue) /\ Coded(queue)'
  <2>1. CASE queue' = queue
    BY <1>1, <2>1 DEF KeysInv, Coded
  <2>2. CASE queue # <<>> /\ code[Head(queue)] = "EXE" /\ queue' = Tail(queue)
    <3>1. /\ queue \in Seq(Jobs) /\ Tail(queue) \in Seq(Jobs) /\ Len(queue) \in Nat \ {0}
          /\ Len(Tail(queue)) = Len(queue) - 1
          /\ \A i \in 1..Len(Tail(queue)) : Tail(queue)[i] = queue[i + 1]
      BY <2>2, HeadTailProperties, EmptySeq DEF Typed, TypeOK
    <3>2. KeysOf(code, queue) = <<>> \o KeysOf(code, Tail(queue))
      BY <2>2, <3>1, KeysOfTail DEF KeysOfOne
    <3>3. KeysOf(code, Tail(queue)) \in Seq(Jobs)
      BY <3>1, KeysOfSeq
    <3>4. \A i \in 1..Len(Tail(queue)) : i + 1 \in 1..Len(queue)
      BY <3>1
    <3> QED
      BY <1>1, <2>2, <3>1, <3>2, <3>3, <3>4, ConcatEmptySeq DEF KeysInv, Coded
  <2> QED
    BY <2>1, <2>2 DEF JobsHndlrHead
<1>5. KeysEq'
  BY <1>1, <1>2, <1>4, HandIs, HandIsNext DEF KeysInv, KeysEq, Valid, Keys, KeysOf
<1>6. Coded(sent)'
  BY <1>1 DEF KeysInv, Coded
<1> QED
  BY <1>1, <1>3, <1>4, <1>5, <1>6 DEF KeysInv

\* ScanMsg returns a key, and throws out another message.
LEMMA ResultKeeps ==
  ASSUME Typed, KeysInv, Typed', ScanMsgResult(Server)
  PROVE  KeysInv'
<1>1. /\ pc[Server] = "s_msg" /\ pc'[Server] \in {"user", "j_lock"}
      /\ \A u \in Threads \ {Server} : pc'[u] = pc[u]
      /\ got' = IF code[tmpc[Server]] = "KEY" THEN Append(got, tmpc[Server]) ELSE got
      /\ UNCHANGED <<code, sent, queue, tmpc>>
  BY DEF ScanMsgResult, Typed, TypeOK, Threads
<1>2. got \in Seq(Jobs) /\ tmpc[Server] \in Jobs /\ queue \in Seq(Jobs)
  BY <1>1 DEF Typed, TypeOK
<1>3. got \o HandKeys = got' \o <<>> /\ HandKeys' = <<>>
  <2>1. got' \in Seq(Jobs) /\ got' \o <<>> = got'
    BY ConcatEmptySeq DEF Typed, TypeOK
  <2>2. CASE code[tmpc[Server]] = "KEY"
    BY <1>1, <1>2, <2>1, <2>2, AppendIsConcat DEF HandKeys, KeysOfOne
  <2>3. CASE code[tmpc[Server]] # "KEY"
    BY <1>1, <1>2, <2>1, <2>3 DEF HandKeys, KeysOfOne
  <2> QED
    BY <2>2, <2>3
<1>4. KeysEq'
  BY <1>1, <1>3, HandIs, HandIsNext DEF KeysInv, KeysEq, Valid, Keys, KeysOf
<1>5. \A u \in Threads : pc'[u] \in SendPCs => pc[u] \in SendPCs
  BY <1>1 DEF SendPCs
<1>6. Coded(sent)' /\ Coded(queue)'
  BY <1>1 DEF KeysInv, Coded
<1> QED
  BY <1>1, <1>4, <1>5, <1>6 DEF KeysInv

\* The steps that move no job.
LEMMA OtherKeep ==
  ASSUME Typed, KeysInv, Typed', UNCHANGED <<queue, code, tmpc, sent, got>>,
         \A u \in Threads : pc'[u] \in SendPCs => pc[u] \in SendPCs,
         pc[Server] # "s_msg", pc'[Server] \notin {"s_rem", "s_msg"}, pc[Server] # "ended"
  PROVE  KeysInv'
<1>1. HandKeys = <<>> /\ HandKeys' = <<>>
  BY DEF HandKeys
<1>2. KeysEq'
  BY <1>1, HandIs, HandIsNext DEF KeysInv, KeysEq, Valid, Keys, KeysOf
<1> QED
  BY <1>2 DEF KeysInv, Coded

LEMMA KeysInit == Init => KeysInv
<1> SUFFICES ASSUME Init PROVE KeysInv
  OBVIOUS
<1>1. sent = <<>> /\ queue = <<>> /\ got = <<>> /\ InHand = <<>>
  BY DEF Init, InHand, Threads
<1>2. KeysEq
  BY <1>1, KeysOfNone DEF KeysEq, Valid, Keys, KeysOf
<1>3. Coded(sent) /\ Coded(queue)
  BY <1>1 DEF Coded
<1> QED
  BY <1>2, <1>3, MsgLoopAssumption DEF Init, KeysInv, SendPCs, Threads

\* JOBCf_LOCKED excludes: there is one QueIns at a time, and none in JobsHndlr.
Locked == {"p_flags", "p_sig", "p_ins", "p_link", "p_unlock", "q_ins", "q_link", "j_head"}

Exclusive ==
  \A t \in Threads : pc[t] \in Locked => locked /\ \A u \in Threads : pc[u] \in Locked => u = t

LEMMA ExclusiveStep == Typed /\ Exclusive /\ [Next]_vars => Exclusive'
<1> SUFFICES ASSUME Typed, Exclusive, [Next]_vars PROVE Exclusive'
  OBVIOUS
<1> USE DEF Typed, TypeOK, Exclusive, Locked, Goto, sync
<1>1. ASSUME NEW t \in Threads, Call(t) PROVE Exclusive'
  BY <1>1 DEF Call, TaskMsg, TaskText, JobQue, GetKey, TaskEnd, SpuriousWake
<1>2. ASSUME NEW t \in Threads,
             TaskMsgSync(t) \/ TaskMsgLock(t) \/ TaskMsgInvalid(t) \/ TaskMsgFlags(t)
               \/ TaskMsgSignal(t) \/ TaskMsgQueIns(t) \/ TaskMsgInserted(t) \/ TaskMsgUnlock(t)
      PROVE  Exclusive'
  BY <1>2 DEF TaskMsgSync, TaskMsgLock, TaskMsgInvalid, TaskMsgFlags, TaskMsgSignal,
     TaskMsgQueIns, TaskMsgInserted, TaskMsgUnlock, LBts, Sync
<1>3. ASSUME NEW t \in Threads, JobQueLock(t) \/ JobQueQueIns(t) \/ JobQueInserted(t)
      PROVE  Exclusive'
  BY <1>3 DEF JobQueLock, JobQueQueIns, JobQueInserted, LBts
<1>4. ASSUME NEW t \in Threads,
             ScanMsg(t) \/ JobsHndlr(t) \/ JobsHndlrHead(t) \/ JobRun(t) \/ JobsHndlrSignal(t)
      PROVE  Exclusive'
  BY <1>4 DEF ScanMsg, JobsHndlr, JobsHndlrHead, JobRun, JobsHndlrSignal, LBts, Sync
<1>5. ASSUME NEW t \in Threads,
             ScanMsgLock(t) \/ ScanMsgNone(t) \/ ScanMsgHead(t) \/ ScanMsgOther(t)
               \/ ScanMsgTake(t) \/ ScanMsgResult(t)
      PROVE  Exclusive'
  BY <1>5 DEF ScanMsgLock, ScanMsgNone, ScanMsgHead, ScanMsgOther, ScanMsgTake, ScanMsgResult, Sync
<1>6. ASSUME NEW t \in Threads,
             GetKeyIdle(t) \/ GetKeyWait(t) \/ GetKeyWoken(t) \/ GetKeyBusy(t)
      PROVE  Exclusive'
  BY <1>6 DEF GetKeyIdle, GetKeyWait, GetKeyWoken, GetKeyBusy, Sync
<1>7. CASE UNCHANGED vars
  BY <1>7 DEF vars
<1> QED
  BY <1>1, <1>2, <1>3, <1>4, <1>5, <1>6, <1>7 DEF Next, Send, Read

\* What ScanMsg has read at the head of the list stays there until it removes it, and if
\* the list is empty it is the job that is being linked.
HeadInv ==
  pc[Server] = "s_rem" =>
    IF queue # <<>> THEN tmpc[Server] = Head(queue)
    ELSE \E u \in Threads : pc[u] \in {"p_link", "q_link"} /\ tmpc[u] = tmpc[Server]

LEMMA HeadOfAppend ==
  ASSUME NEW q \in Seq(Jobs), NEW j \in Jobs
  PROVE  Append(q, j) # <<>> /\ Head(Append(q, j)) = IF q # <<>> THEN Head(q) ELSE j
<1>1. /\ Len(Append(q, j)) = Len(q) + 1 /\ Len(q) \in Nat
      /\ Append(q, j)[1] = IF Len(q) = 0 THEN j ELSE q[1]
  OBVIOUS
<1>2. q = <<>> <=> Len(q) = 0
  BY EmptySeq
<1>3. Append(q, j) # <<>>
  <2>1. Append(q, j) \in Seq(Jobs) /\ Len(Append(q, j)) # 0
    BY <1>1, AppendJob
  <2> QED
    BY <2>1, EmptySeq
<1>4. Head(Append(q, j)) = Append(q, j)[1] /\ Head(q) = q[1]
  BY DEF Head
<1> QED
  BY <1>1, <1>2, <1>3, <1>4

LEMMA HeadStep == Typed /\ Exclusive /\ HeadInv /\ [Next]_vars => HeadInv'
<1> SUFFICES ASSUME Typed, Exclusive, HeadInv, [Next]_vars, pc'[Server] = "s_rem"
             PROVE  HeadInv'
  BY DEF HeadInv
<1> USE MsgLoopAssumption DEF Threads
<1>1. ASSUME NEW t \in Threads, ScanMsgHead(t) PROVE HeadInv'
  <2>1. PICK j \in Heads : tmpc' = [tmpc EXCEPT ![t] = j]
    BY <1>1 DEF ScanMsgHead
  <2>2. t = Server /\ pc[t] = "s_read" /\ pc' = [pc EXCEPT ![t] = "s_rem"] /\ queue' = queue
    BY <1>1 DEF ScanMsgHead, Goto, Typed, Roles, ReadPCs, PCs, SendPCs
  <2>3. tmpc'[Server] = j /\ \A u \in Threads : u # Server => pc'[u] = pc[u] /\ tmpc'[u] = tmpc[u]
    BY <2>1, <2>2 DEF Typed, TypeOK
  <2> QED
    BY <2>1, <2>2, <2>3 DEF Heads, Linking, HeadInv
<1>2. ASSUME NEW t \in Threads, TaskMsgInserted(t) \/ JobQueInserted(t) PROVE HeadInv'
  <2>1. /\ pc[t] \in {"p_link", "q_link"} /\ t # Server /\ tmpc[t] \in Jobs
        /\ queue' = Append(queue, tmpc[t]) /\ tmpc' = tmpc /\ queue \in Seq(Jobs)
        /\ pc'[Server] = pc[Server]
    BY <1>2 DEF TaskMsgInserted, JobQueInserted, Goto, Typed, TypeOK, Roles, SendPCs
  <2>2. queue' # <<>> /\ Head(queue') = IF queue # <<>> THEN Head(queue) ELSE tmpc[t]
    BY <2>1, HeadOfAppend
  <2>3. \A u \in Threads : pc[u] \in {"p_link", "q_link"} => u = t
    BY <2>1 DEF Exclusive, Locked
  <2> QED
    BY <2>1, <2>2, <2>3 DEF HeadInv
<1>3. ASSUME NEW t \in Threads,
             \/ TaskMsgSync(t) \/ TaskMsgLock(t) \/ TaskMsgInvalid(t) \/ TaskMsgFlags(t)
             \/ TaskMsgSignal(t) \/ TaskMsgQueIns(t) \/ TaskMsgUnlock(t)
             \/ JobQueLock(t) \/ JobQueQueIns(t) \/ TaskMsg(t) \/ TaskText(t) \/ JobQue(t)
      PROVE  HeadInv'
  <2>1. /\ pc[t] \in (SendPCs \cup {"ready"}) \ {"p_link", "q_link"}
        /\ \E to \in PCs : pc' = [pc EXCEPT ![t] = to]
        /\ tmpc' = tmpc \/ \E j \in Jobs : tmpc' = [tmpc EXCEPT ![t] = j]
        /\ queue' = queue
    BY <1>3 DEF TaskMsgSync, TaskMsgLock, TaskMsgInvalid, TaskMsgFlags, TaskMsgSignal, TaskMsgQueIns,
       TaskMsgUnlock, JobQueLock, JobQueQueIns, TaskMsg, TaskText, JobQue, Alloc, LBts, Sync, Goto,
       SendPCs, PCs
  <2>2. t # Server
    <3>1. pc[Server] # "ready"
      <4>1. ASSUME t = Server, pc[Server] = "ready" PROVE FALSE
        BY <1>3, <4>1 DEF TaskMsgSync, TaskMsgLock, TaskMsgInvalid, TaskMsgFlags, TaskMsgSignal,
           TaskMsgQueIns, TaskMsgUnlock, JobQueLock, JobQueQueIns, TaskMsg, TaskText, JobQue, LBts,
           Sync, Goto
      <4>2. ASSUME t # Server, pc[Server] = "ready" PROVE FALSE
        BY <2>1, <4>2 DEF Typed, TypeOK
      <4> QED
        BY <4>1, <4>2
    <3> QED
      BY <2>1, <3>1 DEF Typed, Roles
  <2>3. /\ pc'[Server] = pc[Server] /\ tmpc'[Server] = tmpc[Server]
        /\ \A u \in Threads : pc[u] \in {"p_link", "q_link"} => pc'[u] = pc[u] /\ tmpc'[u] = tmpc[u]
    BY <2>1, <2>2 DEF Typed, TypeOK
  <2> QED
    BY <2>1, <2>3 DEF HeadInv
<1>4. ASSUME NEW t \in Threads,
             \/ ScanMsg(t) \/ JobsHndlr(t) \/ JobsHndlrHead(t) \/ JobRun(t) \/ JobsHndlrSignal(t)
             \/ ScanMsgLock(t) \/ ScanMsgNone(t) \/ ScanMsgOther(t) \/ ScanMsgTake(t)
             \/ ScanMsgResult(t) \/ GetKeyIdle(t) \/ GetKeyWait(t) \/ GetKeyWoken(t)
             \/ GetKeyBusy(t) \/ GetKey(t) \/ TaskEnd(t)
      PROVE  FALSE
  <2>1. pc[t] \in ReadPCs /\ \E to \in ReadPCs \ {"s_rem"} : pc' = [pc EXCEPT ![t] = to]
    BY <1>4 DEF ScanMsg, JobsHndlr, JobsHndlrHead, JobRun, JobsHndlrSignal, ScanMsgLock, ScanMsgNone,
       ScanMsgOther, ScanMsgTake, ScanMsgResult, GetKeyIdle, GetKeyWait, GetKeyWoken, GetKeyBusy,
       GetKey, TaskEnd, LBts, Sync, Goto, ReadPCs, SendPCs, PCs
  <2>2. t = Server
    BY <2>1 DEF Typed, Roles
  <2> QED
    BY <2>1, <2>2 DEF Typed, TypeOK
<1>5. ASSUME NEW t \in Threads, SpuriousWake(t) PROVE HeadInv'
  BY <1>5 DEF SpuriousWake, HeadInv
<1>6. CASE UNCHANGED vars
  BY <1>6 DEF vars, HeadInv
<1> QED
  BY <1>1, <1>2, <1>3, <1>4, <1>5, <1>6 DEF Next, Call, Send, Read

LEMMA KeysStep ==
  ASSUME Typed, HeadInv, torn \/ KeysInv, [Next]_vars
  PROVE  torn' \/ KeysInv'
<1>a. CASE torn
  <2>1. UNCHANGED vars
    BY <1>a DEF Next, Call, Send, Read
  <2> QED
    BY <1>a, <2>1 DEF vars
<1>b. ASSUME NEW t \in Threads, ScanMsgTake(t), queue = <<>> PROVE torn'
  <2>1. t = Server /\ pc[Server] = "s_rem" /\ torn' = (Linking # {} /\ Len(queue) <= 1)
    BY <1>b DEF ScanMsgTake, Goto, Typed, Roles, ReadPCs, PCs, SendPCs
  <2>2. Linking # {} /\ Len(queue) = 0
    BY <1>b, <2>1 DEF HeadInv, Linking
  <2>3. Len(queue) <= 1
    BY <2>2
  <2> QED
    BY <2>1, <2>2, <2>3, Zenon
<1> SUFFICES ASSUME KeysInv, ~\E t \in Threads : ScanMsgTake(t) /\ queue = <<>> PROVE KeysInv'
  BY <1>a, <1>b
<1>0. Typed'
  BY TypedStep
<1> USE MsgLoopAssumption DEF Threads, sync
<1>1. ASSUME NEW t \in Threads, TaskMsg(t) \/ TaskText(t) \/ JobQue(t) PROVE KeysInv'
  <2>1. /\ t # Server /\ pc[t] = "ready"
        /\ \E j \in Jobs, c \in {"KEY", "MOVE", "TEXT", "EXE"} : Alloc(t, j, c)
        /\ \E to \in {"p_sync", "p_lock", "q_lock"} : pc' = [pc EXCEPT ![t] = to]
        /\ UNCHANGED <<queue, sent, got>>
    BY <1>1 DEF TaskMsg, TaskText, JobQue, Goto
  <2>2. PICK j \in Jobs, c \in {"KEY", "MOVE", "TEXT", "EXE"} : Alloc(t, j, c)
    BY <2>1
  <2>3. PICK to \in {"p_sync", "p_lock", "q_lock"} : pc' = [pc EXCEPT ![t] = to]
    BY <2>1
  <2>4. to \in SendPCs /\ c \in {"KEY", "UP", "MOVE", "TEXT", "EXE"} /\ pc[t] \notin ReadPCs
    BY <2>1 DEF SendPCs, ReadPCs
  <2>5. t # Server /\ UNCHANGED <<queue, sent, got>>
    BY <2>1
  <2> HIDE DEF Threads
  <2> QED
    BY ONLY Typed, KeysInv, t \in Threads, <1>0, <2>2, <2>3, <2>4, <2>5, AllocKeeps
<1>2. ASSUME NEW t \in Threads, TaskMsgUnlock(t) PROVE KeysInv'
  <2>1. pc[t] = "p_unlock" /\ t # Server
    BY <1>2 DEF TaskMsgUnlock, Goto, Typed, Roles, SendPCs
  <2>2. CASE UNCHANGED <<code, tmpc>>
    <3>1. pc' \in {[pc EXCEPT ![t] = "ready"], [pc EXCEPT ![t] = "p_sync"]}
      BY <1>2 DEF TaskMsgUnlock, Goto
    <3>2. \A u \in Threads : pc'[u] \in SendPCs => pc[u] \in SendPCs
      BY <2>1, <3>1 DEF Typed, TypeOK, SendPCs
    <3>3. pc'[Server] = pc[Server] /\ UNCHANGED <<queue, sent, got>>
      BY <1>2, <2>1, <3>1 DEF Typed, TypeOK, TaskMsgUnlock
    <3>4. HandKeys' = HandKeys
      BY <2>2, <3>3 DEF HandKeys
    <3>5. KeysEq'
      BY <1>0, <2>2, <3>3, <3>4, HandIs, HandIsNext DEF KeysInv, KeysEq, Valid, Keys, KeysOf
    <3> QED
      BY <2>2, <3>2, <3>3, <3>5 DEF KeysInv, Coded
  <2>3. CASE \E j \in Jobs : Alloc(t, j, "UP") /\ Goto(t, "p_unlock", "p_sync")
    <3>1. UNCHANGED <<queue, sent, got>> /\ pc' = [pc EXCEPT ![t] = "p_sync"]
      BY <1>2, <2>3 DEF TaskMsgUnlock, Goto
    <3> QED
      BY <1>0, <2>1, <2>3, <3>1, AllocKeeps DEF ReadPCs, SendPCs
  <2> QED
    BY <1>2, <2>2, <2>3 DEF TaskMsgUnlock
<1>3. ASSUME NEW t \in Threads, TaskMsgInserted(t) \/ JobQueInserted(t) PROVE KeysInv'
  BY <1>0, <1>3, InsertKeeps DEF TaskMsgInserted, JobQueInserted, Goto
<1>4. ASSUME NEW t \in Threads, ScanMsgTake(t) PROVE KeysInv'
  <2>1. t = Server /\ pc[Server] = "s_rem" /\ queue # <<>>
    BY <1>4 DEF ScanMsgTake, Goto, Typed, Roles, ReadPCs, PCs, SendPCs
  <2>2. tmpc[Server] = Head(queue)
    BY <2>1 DEF HeadInv
  <2> QED
    BY <1>0, <1>4, <2>1, <2>2, TakeKeeps
<1>5. ASSUME NEW t \in Threads, JobsHndlrHead(t) PROVE KeysInv'
  <2>1. t = Server
    BY <1>5 DEF JobsHndlrHead, Typed, Roles, ReadPCs, PCs, SendPCs
  <2> QED
    BY <1>0, <1>5, <2>1, HeadKeeps
<1>6. ASSUME NEW t \in Threads, ScanMsgResult(t) PROVE KeysInv'
  <2>1. t = Server
    BY <1>6 DEF ScanMsgResult, Typed, Roles, ReadPCs, PCs, SendPCs
  <2> QED
    BY <1>0, <1>6, <2>1, ResultKeeps
<1>7. ASSUME NEW t \in Threads,
             TaskMsgSync(t) \/ TaskMsgLock(t) \/ TaskMsgFlags(t) \/ TaskMsgSignal(t)
               \/ TaskMsgInvalid(t) \/ TaskMsgQueIns(t) \/ JobQueLock(t) \/ JobQueQueIns(t)
      PROVE  KeysInv'
  <2>1. /\ pc[t] \in SendPCs /\ UNCHANGED <<queue, code, tmpc, sent, got>>
        /\ \E to \in SendPCs \cup {"ready"} : pc' = [pc EXCEPT ![t] = to]
    BY <1>7 DEF TaskMsgSync, TaskMsgLock, TaskMsgFlags, TaskMsgSignal, TaskMsgInvalid,
       TaskMsgQueIns, JobQueLock, JobQueQueIns, LBts, Sync, Goto, SendPCs
  <2>2. t # Server
    BY <2>1 DEF Typed, Roles
  <2>3. pc'[Server] = pc[Server] /\ \A u \in Threads : pc'[u] \in SendPCs => pc[u] \in SendPCs
    BY <2>1, <2>2 DEF Typed, TypeOK
  <2>4. HandKeys' = HandKeys
    BY <2>1, <2>3 DEF HandKeys
  <2>5. KeysEq'
    BY <1>0, <2>1, <2>3, <2>4, HandIs, HandIsNext DEF KeysInv, KeysEq, Valid, Keys, KeysOf
  <2> QED
    BY <2>1, <2>3, <2>5 DEF KeysInv, Coded
<1>8. ASSUME NEW t \in Threads,
             GetKey(t) \/ ScanMsg(t) \/ JobsHndlr(t) \/ JobRun(t) \/ JobsHndlrSignal(t)
               \/ ScanMsgLock(t) \/ ScanMsgNone(t) \/ ScanMsgOther(t) \/ GetKeyIdle(t)
               \/ GetKeyWait(t) \/ GetKeyWoken(t) \/ GetKeyBusy(t)
      PROVE  KeysInv'
  <2>1. /\ pc[t] \notin SendPCs \cup {"s_msg", "ready"}
        /\ \E to \in ReadPCs \ {"s_rem", "s_msg"} : pc' = [pc EXCEPT ![t] = to]
        /\ pc[t] # "ended" /\ UNCHANGED <<queue, code, tmpc, sent, got>>
    BY <1>8 DEF GetKey, ScanMsg, JobsHndlr, JobRun, JobsHndlrSignal, ScanMsgLock, ScanMsgNone,
       ScanMsgOther, GetKeyIdle, GetKeyWait, GetKeyWoken, GetKeyBusy, LBts, Sync, Goto,
       ReadPCs, SendPCs, PCs
  <2>2. t = Server
    BY <2>1 DEF Typed, TypeOK, Roles, ReadPCs
  <2>3. /\ pc[Server] \notin {"s_msg", "ended"} /\ pc'[Server] \notin {"s_rem", "s_msg"}
        /\ \A u \in Threads : pc'[u] \in SendPCs => pc[u] \in SendPCs
    BY <2>1, <2>2 DEF Typed, TypeOK, ReadPCs
  <2> QED
    BY <1>0, <2>1, <2>3, OtherKeep
<1>9. ASSUME UNCHANGED vars PROVE KeysInv'
  <2>1. HandKeys' = HandKeys
    BY <1>9 DEF vars, HandKeys
  <2>2. KeysEq'
    BY <1>0, <1>9, <2>1, HandIs, HandIsNext DEF vars, KeysInv, KeysEq, Valid, Keys, KeysOf
  <2> QED
    BY <1>9, <2>2 DEF vars, KeysInv, Coded
<1>10. ASSUME NEW t \in Threads, ScanMsgHead(t) PROVE KeysInv'
  <2>1. PICK j \in Heads : tmpc' = [tmpc EXCEPT ![t] = j]
    BY <1>10 DEF ScanMsgHead
  <2>2. t = Server /\ pc[t] = "s_read" /\ pc' = [pc EXCEPT ![t] = "s_rem"]
        /\ UNCHANGED <<queue, code, sent, got>>
    BY <1>10 DEF ScanMsgHead, Goto, Typed, Roles, ReadPCs, PCs, SendPCs
  <2>3. HandKeys = <<>> /\ HandKeys' = <<>>
    BY <2>2 DEF HandKeys, Typed, TypeOK
  <2>4. KeysEq'
    BY <1>0, <2>2, <2>3, HandIs, HandIsNext DEF KeysInv, KeysEq, Valid, Keys, KeysOf
  <2>5. code[j] # "NEW"
    <3>1. CASE queue # <<>>
      <4>1. 1 \in 1..Len(queue) /\ Head(queue) = queue[1]
        BY <3>1, EmptySeq DEF Typed, TypeOK
      <4> QED
        BY <2>1, <3>1, <4>1 DEF Heads, KeysInv, Coded
    <3>2. CASE queue = <<>>
      BY <2>1, <3>2 DEF Heads, Linking, KeysInv, SendPCs
    <3> QED
      BY <3>1, <3>2
  <2>6. tmpc'[Server] = j /\ \A u \in Threads : pc'[u] \in SendPCs => pc[u] \in SendPCs /\ tmpc'[u] = tmpc[u]
    BY <2>1, <2>2 DEF Typed, TypeOK, SendPCs
  <2> QED
    BY <2>2, <2>4, <2>5, <2>6 DEF KeysInv, Coded
<1>11. ASSUME NEW t \in Threads, TaskEnd(t) PROVE KeysInv'
  <2>1. pc[Server] = "user" /\ pc'[Server] = "ended" /\ queue' = <<>>
        /\ UNCHANGED <<code, tmpc, sent, got>>
    BY <1>11 DEF TaskEnd, Goto, Typed, TypeOK
  <2>2. \A u \in Threads : pc'[u] \in SendPCs => pc[u] \in SendPCs
    BY <1>11 DEF TaskEnd, Goto, Typed, TypeOK, SendPCs
  <2> QED
    BY <2>1, <2>2 DEF KeysInv, KeysEq, Valid, Coded
<1>12. ASSUME NEW t \in Threads, SpuriousWake(t) PROVE KeysInv'
  <2>1. UNCHANGED <<queue, code, pc, tmpc, sent, got>>
    BY <1>12 DEF SpuriousWake
  <2>2. HandKeys' = HandKeys
    BY <2>1 DEF HandKeys
  <2>3. KeysEq'
    BY <1>0, <2>1, <2>2, HandIs, HandIsNext DEF KeysInv, KeysEq, Valid, Keys, KeysOf
  <2> QED
    BY <2>1, <2>3 DEF KeysInv, Coded
<1> QED
  BY <1>10, <1>11, <1>12, <1>1, <1>2, <1>3, <1>4, <1>5, <1>6, <1>7, <1>8, <1>9 DEF Next, Call, Send, Read

\* GetKey returns the keys in the order in which they were put in the list, each one once,
\* while its task lives, whatever else is sent, is run or is thrown out in between: a key is
\* lost, doubled or out of order only after a QueRem of ScanMsg has overlapped a QueIns with
\* no other job between them.
THEOREM NoKeyLost == Spec => []KeysOnce
<1> DEFINE Inv == Typed /\ Exclusive /\ HeadInv /\ (torn \/ KeysInv)
<1>1. Init => Inv
  <2>1. Init => Exclusive /\ HeadInv
    BY MsgLoopAssumption DEF Init, Exclusive, Locked, HeadInv, Threads
  <2> QED
    BY <2>1, InitTyped, KeysInit
<1>2. Inv /\ [Next]_vars => Inv'
  BY TypedStep, ExclusiveStep, HeadStep, KeysStep
<1>3. Inv => KeysOnce
  BY DEF KeysInv, KeysEq, KeysOnce
<1> QED
  BY <1>1, <1>2, <1>3, PTL DEF Spec
=============================================================================
