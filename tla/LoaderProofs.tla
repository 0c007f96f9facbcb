---------------------------- MODULE LoaderProofs -----------------------------
(***************************************************************************)
(* Theorems about Loader for a kernel of any number of functions of any    *)
(* length, for any table that the compiler may write, and for any number   *)
(* of functions that are replaced while TempleOS runs.                     *)
(***************************************************************************)
EXTENDS Loader, TLAPS, SequenceTheorems, FiniteSetTheorems, WellFoundedInduction

\* The kinds of records that the compiler writes.
Absolute(r) ==
  /\ r.etype = IET_ABS_ADDR /\ r.name = 0 /\ r.rest \in Seq(AbsSites) /\ r.i = Len(r.rest)
Variable(r) == r.etype = IET_DATA_HEAP /\ r.name \in {0, HeapName} /\ r.i = 1 /\ r.rest = <<8, 0, 0>>
Export(r) == r.etype = IET_REL32_EXPORT /\ r.name \in Funs /\ r.i = Entry(r.name) /\ r.rest = <<>>
MainFun(r) == r.etype = IET_MAIN /\ r.name = 0 /\ r.i = 0 /\ r.rest = <<>>
Import(r) == r.etype = IET_REL_I32 /\ r.name \in Nat /\ r.i \in ImportSites /\ r.rest = <<>>

\* A set of naturals that is not empty has a least member.
LEMMA LeastNat ==
  ASSUME NEW S \in SUBSET Nat, S # {}
  PROVE  \E x \in S : \A y \in S : x <= y
<1>1. \E x \in S : \A y \in S : ~(<<y, x>> \in OpToRel(<, Nat))
  BY NatLessThanWellFounded, WFMin
<1>2. PICK x \in S : \A y \in S : ~(y < x)
  BY <1>1 DEF OpToRel
<1> QED
  BY <1>2

\* f begins with base, and every value comes from the one before.
Follows(f, n, base, step) == f[0] = base /\ \A i \in 1..n : f[i] = step[<<i, f[i - 1]>>]

\* A recursion from a step describes a function.
LEMMA Recursion ==
  ASSUME NEW n \in Nat, NEW S, NEW base \in S, NEW step \in [(1..n) \X S -> S]
  PROVE  \E f \in [0..n -> S] : Follows(f, n, base, step)
<1> DEFINE Good(m) == \E f \in [0..m -> S] : f[0] = base /\ \A i \in 1..m : f[i] = step[<<i, f[i - 1]>>]
           D == {m \in 0..n : ~Good(m)}
<1>1. Good(0)
  <2>1. PICK f \in [0..0 -> S] : f = [i \in 0..0 |-> base]
    OBVIOUS
  <2>2. f[0] = base /\ \A i \in 1..0 : f[i] = step[<<i, f[i - 1]>>]
    BY <2>1
  <2> QED
    BY <2>2
<1>2. ASSUME NEW m \in Nat, m + 1 <= n, Good(m) PROVE Good(m + 1)
  <2>1. PICK f \in [0..m -> S] : f[0] = base /\ \A i \in 1..m : f[i] = step[<<i, f[i - 1]>>]
    BY <1>2
  <2> DEFINE x == step[<<m + 1, f[m]>>]
             g == [i \in 0..m + 1 |-> IF i = m + 1 THEN x ELSE f[i]]
  <2>2. x \in S
    <3>1. f[m] \in S /\ m + 1 \in 1..n
      BY <1>2, <2>1
    <3>2. <<m + 1, f[m]>> \in (1..n) \X S
      BY <3>1
    <3> QED
      BY <3>2
  <2>3. g \in [0..m + 1 -> S] /\ g[0] = base
    BY <2>1, <2>2
  <2>4. ASSUME NEW i \in 1..m + 1 PROVE g[i] = step[<<i, g[i - 1]>>]
    <3>1. CASE i = m + 1
      <4>1. g[i] = x /\ g[i - 1] = f[m]
        BY <3>1
      <4> QED
        BY <4>1, <3>1
    <3>2. CASE i # m + 1
      <4>1. i \in 1..m /\ g[i] = f[i] /\ g[i - 1] = f[i - 1]
        BY <3>2
      <4> QED
        BY <2>1, <4>1
    <3> QED
      BY <3>1, <3>2
  <2> HIDE DEF g
  <2> QED
    BY <2>3, <2>4
<1>3. D = {}
  <2> SUFFICES ASSUME D # {} PROVE FALSE
    OBVIOUS
  <2> HIDE DEF Good
  <2>1. D \in SUBSET Nat
    OBVIOUS
  <2>2. PICK m \in D : \A k \in D : m <= k
    BY <2>1, LeastNat
  <2>3. m # 0 /\ m - 1 \in 0..n /\ m - 1 < m /\ (m - 1) + 1 = m /\ m - 1 \in Nat /\ m <= n
    BY <1>1, <2>2
  <2>4. Good(m - 1)
    BY <2>2, <2>3
  <2>5. Good((m - 1) + 1)
    BY <1>2, <2>3, <2>4
  <2> QED
    BY <2>2, <2>3, <2>5
<1>4. Good(n)
  <2> HIDE DEF Good
  <2> QED
    BY <1>3
<1> QED
  BY <1>4 DEF Follows

-----------------------------------------------------------------------------
(* Where functions are.                                                    *)

\* The functions lie one after the other.
LEMMA Layout ==
  ASSUME NEW f \in Nat \ {0}, NEW g \in Nat \ {0}, f < g
  PROVE  /\ Entry(f) \in Nat /\ Entry(g) \in Nat
         /\ Entry(f) + FunLen <= Entry(g)
<1>1. FunLen \in Nat
  BY LoaderAssumption
<1>2. PICK d \in Nat : g = f + 1 + d
  <2>1. g - f - 1 \in Nat /\ g = f + 1 + (g - f - 1)
    OBVIOUS
  <2> QED
    BY <2>1
<1>3. \A a, b \in Nat : a * FunLen \in Nat /\ (a + b) * FunLen = a * FunLen + b * FunLen
  BY <1>1
<1>4. g - 1 = (f - 1) + (1 + d) /\ f - 1 \in Nat /\ 1 + d \in Nat
  BY <1>2
<1>5. Entry(g) = (f - 1) * FunLen + (1 * FunLen + d * FunLen)
  BY <1>2, <1>3, <1>4 DEF Entry
<1>6. 1 * FunLen = FunLen /\ d * FunLen \in Nat
  BY <1>1, <1>2, <1>3
<1> QED
  BY <1>1, <1>3, <1>4, <1>5, <1>6 DEF Entry

-----------------------------------------------------------------------------
(* The table.                                                              *)

\* c is a and then b.
IsConcat(S, c, a, b) ==
  /\ c \in Seq(S) /\ Len(c) = Len(a) + Len(b) /\ Len(a) \in Nat /\ Len(b) \in Nat
  /\ \A i \in 1..Len(a) : c[i] = a[i]
  /\ \A i \in 1..Len(b) : c[Len(a) + i] = b[i]

\* Where the elements of two sequences are when one is put behind the other.
LEMMA ConcatAny ==
  ASSUME NEW S
  PROVE  \A a, b \in Seq(S) : IsConcat(S, a \o b, a, b)
<1> TAKE a, b \in Seq(S)
<1>1. a \o b \in Seq(S) /\ Len(a \o b) = Len(a) + Len(b) /\ Len(a) \in Nat /\ Len(b) \in Nat
  OBVIOUS
<1>2. \A i \in 1..Len(a) + Len(b) : (a \o b)[i] = IF i <= Len(a) THEN a[i] ELSE b[i - Len(a)]
  BY ConcatProperties
<1>3. ASSUME NEW i \in 1..Len(a) PROVE (a \o b)[i] = a[i]
  <2>1. i \in 1..Len(a) + Len(b) /\ i <= Len(a)
    BY <1>1
  <2> QED
    BY <1>2, <2>1
<1>4. ASSUME NEW i \in 1..Len(b) PROVE (a \o b)[Len(a) + i] = b[i]
  <2>1. Len(a) + i \in 1..Len(a) + Len(b) /\ ~(Len(a) + i <= Len(a)) /\ (Len(a) + i) - Len(a) = i
    BY <1>1
  <2> QED
    BY <1>2, <2>1
<1> QED
  BY <1>1, <1>3, <1>4 DEF IsConcat

\* Of numbers, as the cells of the table are.
LEMMA Concat == \A a, b \in Seq(Nat) : IsConcat(Nat, a \o b, a, b)
BY ConcatAny

\* What the compiler puts into the fields.
Records == [etype : Nat, i : Nat, name : Nat, rest : Seq(Nat)]
HeadLen(r) == IF r.name = 0 THEN 3 ELSE 4

\* Where the fields of a record are in its cells.
LEMMA CellsOf ==
  ASSUME NEW r \in Records
  PROVE  /\ Cells(r) \in Seq(Nat) /\ Len(Cells(r)) = HeadLen(r) + Len(r.rest)
         /\ Cells(r)[1] = r.etype /\ Cells(r)[2] = r.i /\ Cells(r)[3] = r.name
         /\ r.name # 0 => Cells(r)[4] = 0
         /\ \A j \in 1..Len(r.rest) : Cells(r)[HeadLen(r) + j] = r.rest[j]
<1>0. r.etype \in Nat /\ r.i \in Nat /\ r.name \in Nat /\ r.rest \in Seq(Nat) /\ Len(r.rest) \in Nat
  BY DEF Records
<1>1. CASE r.name = 0
  <2> DEFINE h == <<r.etype, r.i>> \o <<0>>
  <2>1. h \in Seq(Nat) /\ Len(h) = 3 /\ h[1] = r.etype /\ h[2] = r.i /\ h[3] = 0
    BY <1>0
  <2>2. Cells(r) = h \o r.rest
    BY <1>1 DEF Cells
  <2> HIDE DEF h
  <2>3. IsConcat(Nat, Cells(r), h, r.rest)
    BY <1>0, <2>1, <2>2, Concat, Zenon
  <2>4. HeadLen(r) = 3 /\ \A j \in 1..3 : j \in 1..Len(h)
    BY <1>1, <2>1 DEF HeadLen
  <2>5. Cells(r)[1] = h[1] /\ Cells(r)[2] = h[2] /\ Cells(r)[3] = h[3]
    BY <2>1, <2>3 DEF IsConcat
  <2>6. /\ Cells(r) \in Seq(Nat) /\ Len(Cells(r)) = 3 + Len(r.rest)
        /\ \A j \in 1..Len(r.rest) : Cells(r)[3 + j] = r.rest[j]
    BY <2>1, <2>3 DEF IsConcat
  <2>7. r.name # 0 => Cells(r)[4] = 0
    BY <1>1, <2>1, <2>3 DEF IsConcat
  <2> QED
    BY <1>1, <2>1, <2>4, <2>5, <2>6, <2>7
<1>2. CASE r.name # 0
  <2> DEFINE h == <<r.etype, r.i>> \o <<r.name, 0>>
  <2>1. h \in Seq(Nat) /\ Len(h) = 4 /\ h[1] = r.etype /\ h[2] = r.i /\ h[3] = r.name /\ h[4] = 0
    BY <1>0
  <2>2. Cells(r) = h \o r.rest
    BY <1>2 DEF Cells
  <2> HIDE DEF h
  <2>3. IsConcat(Nat, Cells(r), h, r.rest)
    BY <1>0, <2>1, <2>2, Concat, Zenon
  <2>4. HeadLen(r) = 4 /\ \A j \in 1..4 : j \in 1..Len(h)
    BY <1>2, <2>1 DEF HeadLen
  <2>5. Cells(r)[1] = h[1] /\ Cells(r)[2] = h[2] /\ Cells(r)[3] = h[3]
    BY <2>1, <2>3 DEF IsConcat
  <2>6. /\ Cells(r) \in Seq(Nat) /\ Len(Cells(r)) = 4 + Len(r.rest)
        /\ \A j \in 1..Len(r.rest) : Cells(r)[4 + j] = r.rest[j]
    BY <2>1, <2>3 DEF IsConcat
  <2>7. r.name # 0 => Cells(r)[4] = 0
    BY <1>2, <2>1, <2>3 DEF IsConcat
  <2> QED
    BY <1>2, <2>1, <2>4, <2>5, <2>6, <2>7
<1> QED
  BY <1>1, <1>2

\* Encoded is well defined: it puts one record behind the other.
LEMMA EncodedIs ==
  ASSUME NEW rs \in Seq(Records)
  PROVE  /\ Encoded(rs) \in [0..Len(rs) -> Seq(Nat)]
         /\ Encoded(rs)[0] = <<>>
         /\ \A k \in 1..Len(rs) : Encoded(rs)[k] = Encoded(rs)[k - 1] \o Cells(rs[k])
<1> DEFINE n == Len(rs)
           Fix(e) == e = [k \in 0..n |-> IF k = 0 THEN <<>> ELSE e[k - 1] \o Cells(rs[k])]
           step == [p \in (1..n) \X Seq(Nat) |-> p[2] \o Cells(rs[p[1]])]
<1>1. n \in Nat /\ <<>> \in Seq(Nat)
  OBVIOUS
<1>2. \A k \in 1..n : Cells(rs[k]) \in Seq(Nat)
  <2>1. \A k \in 1..n : rs[k] \in Records
    OBVIOUS
  <2> QED
    BY <2>1, CellsOf
<1>3. step \in [(1..n) \X Seq(Nat) -> Seq(Nat)]
  BY <1>2
<1>4. \A k \in 1..n, c \in Seq(Nat) : step[<<k, c>>] = c \o Cells(rs[k])
  OBVIOUS
<1> HIDE DEF step, n
<1>5. PICK f \in [0..n -> Seq(Nat)] : Follows(f, n, <<>>, step)
  BY <1>1, <1>3, Recursion, Zenon
<1>6. \A i \in 0..n : f[i] = IF i = 0 THEN <<>> ELSE f[i - 1] \o Cells(rs[i])
  <2> TAKE i \in 0..n
  <2>1. i # 0 => i \in 1..n /\ i - 1 \in 0..n
    BY <1>1
  <2> QED
    BY <1>4, <1>5, <2>1 DEF Follows
<1>7. Fix(f)
  BY <1>5, <1>6
<1> DEFINE e == CHOOSE e : Fix(e)
<1>8. Encoded(rs) = e
  BY DEF Encoded, n
<1>9. ASSUME NEW g, Fix(g) PROVE g = f
  <2> DEFINE D == {i \in 0..n : g[i] # f[i]}
  <2>1. D = {}
    <3> SUFFICES ASSUME D # {} PROVE FALSE
      OBVIOUS
    <3>1. D \in SUBSET Nat
      BY <1>1
    <3>2. PICK m \in D : \A k \in D : m <= k
      BY <3>1, LeastNat
    <3>3. g[m] = IF m = 0 THEN <<>> ELSE g[m - 1] \o Cells(rs[m])
      BY <1>9, <3>2
    <3>4. f[m] = IF m = 0 THEN <<>> ELSE f[m - 1] \o Cells(rs[m])
      BY <1>6, <3>2
    <3>5. m # 0
      BY <3>2, <3>3, <3>4
    <3>7. m - 1 \in 0..n /\ ~(m <= m - 1)
      BY <1>1, <3>2, <3>5
    <3>6. g[m - 1] = f[m - 1]
      BY <3>2, <3>7
    <3> QED
      BY <3>2, <3>3, <3>4, <3>5, <3>6
  <2>2. DOMAIN g = 0..n /\ g = [i \in 0..n |-> g[i]]
    BY <1>9
  <2>3. \A i \in 0..n : g[i] = f[i]
    BY <2>1
  <2> HIDE DEF Fix, D
  <2> QED
    BY <1>5, <2>2, <2>3
<1> HIDE DEF Fix
<1>10. e = f
  <2>1. Fix(e)
    BY <1>7
  <2> HIDE DEF e
  <2> QED
    BY <2>1, <1>9
<1> HIDE DEF e
<1>11. ASSUME NEW k \in 1..n PROVE f[k] = f[k - 1] \o Cells(rs[k])
  <2>1. k \in 0..n /\ k # 0
    BY <1>1
  <2> QED
    BY <1>6, <2>1
<1> QED
  BY <1>5, <1>8, <1>10, <1>11 DEF n

\* What has been put into the table stays where it is.
LEMMA EncodedPrefix ==
  ASSUME NEW rs \in Seq(Records),
         NEW j \in 0..Len(rs), NEW k \in j..Len(rs)
  PROVE  /\ Len(Encoded(rs)[j]) <= Len(Encoded(rs)[k])
         /\ \A i \in 1..Len(Encoded(rs)[j]) : Encoded(rs)[k][i] = Encoded(rs)[j][i]
<1> DEFINE n == Len(rs)
           e == Encoded(rs)
           Good(m) == Len(e[j]) <= Len(e[m]) /\ \A i \in 1..Len(e[j]) : e[m][i] = e[j][i]
           D == {m \in j..n : ~Good(m)}
<1>1. /\ n \in Nat /\ e \in [0..n -> Seq(Nat)]
      /\ \A m \in 1..n : e[m] = e[m - 1] \o Cells(rs[m])
  <2>1. n \in Nat
    OBVIOUS
  <2> QED
    BY <2>1, EncodedIs, Zenon
<1>3. \A m \in 1..n : Cells(rs[m]) \in Seq(Nat)
  <2>1. \A m \in 1..n : rs[m] \in Records
    OBVIOUS
  <2> QED
    BY <2>1, CellsOf
<1>4. \A a, b, c, d \in Nat : a <= b /\ c = b + d => a <= c
  OBVIOUS
<1>2. D = {}
  <2> SUFFICES ASSUME D # {} PROVE FALSE
    OBVIOUS
  <2> HIDE DEF e
  <2>1. D \in SUBSET Nat
    BY <1>1
  <2>2. PICK m \in D : \A l \in D : m <= l
    BY <2>1, LeastNat
  <2>3. m # j
    BY <1>1, <2>2
  <2>4. m - 1 \in j..n /\ ~(m <= m - 1) /\ m \in 1..n /\ m - 1 \in 0..n /\ m \in 0..n /\ j \in 0..n
    BY <1>1, <2>2, <2>3
  <2>5. Good(m - 1)
    BY <2>2, <2>4
  <2>6. e[m] = e[m - 1] \o Cells(rs[m]) /\ Cells(rs[m]) \in Seq(Nat) /\ e[m - 1] \in Seq(Nat) /\ e[j] \in Seq(Nat)
    BY <1>1, <1>3, <2>4
  <2>7. IsConcat(Nat, e[m], e[m - 1], Cells(rs[m]))
    BY <2>6, Concat, Zenon
  <2>8. Len(Cells(rs[m])) \in Nat /\ Len(e[m - 1]) \in Nat /\ Len(e[j]) \in Nat
    BY <2>6, <2>7 DEF IsConcat
  <2>9. Good(m)
    <3> HIDE DEF D
    <3>1. Len(e[j]) <= Len(e[m])
      <4>1. Len(e[m]) = Len(e[m - 1]) + Len(Cells(rs[m]))
        BY <2>7 DEF IsConcat
      <4>3. Len(e[m]) \in Nat
        <5>1. e[m] \in Seq(Nat)
          BY <2>7 DEF IsConcat
        <5> QED
          BY <5>1
      <4>2. Len(e[j]) <= Len(e[m - 1])
        BY <2>5
      <4> QED
        BY <1>4, <2>8, <4>1, <4>2, <4>3
    <3>2. ASSUME NEW i \in 1..Len(e[j]) PROVE e[m][i] = e[j][i]
      <4>1. i \in 1..Len(e[m - 1])
        BY <2>5, <2>8
      <4> QED
        BY <2>5, <2>7, <4>1 DEF IsConcat
    <3> QED
      BY <3>1, <3>2
  <2> QED
    BY <2>2, <2>9
<1> QED
  BY <1>2 DEF n

\* Every record is one that the compiler makes: absolute addresses come first, imports last,
\* the first of them with a name.
Whole ==
  /\ recs \in Seq(Records)
  /\ \A k \in DOMAIN recs : LET r == recs[k] IN
       Absolute(r) \/ Variable(r) \/ Export(r) \/ MainFun(r) \/ Import(r)
Ordered ==
  \A k \in DOMAIN recs :
    /\ recs[k].etype = IET_ABS_ADDR => k = 1
    /\ Import(recs[k]) /\ k < Len(recs) => Import(recs[k + 1])
    /\ Import(recs[k]) /\ recs[k].name = 0 => k > 1 /\ Import(recs[k - 1])
TableInv == Whole /\ Ordered /\ table = Encode(recs)

N == Len(recs)

\* The records of a table, and where they begin.
LEMMA StartIs ==
  ASSUME TableInv
  PROVE  /\ N \in Nat /\ Start(1) = 1
         /\ \A k \in 1..N + 1 : Start(k) \in Nat \ {0} /\ Start(k) <= Start(N + 1)
         /\ \A k \in 1..N : /\ recs[k] \in Records
                            /\ Start(k + 1) = Start(k) + Len(Cells(recs[k]))
<1> DEFINE e == Encoded(recs)
<1>1. recs \in Seq(Records) /\ N \in Nat
  BY DEF TableInv, Whole, N
<1>2. \A k \in 1..N : recs[k] \in Records
  BY <1>1 DEF N
<1>3. /\ e \in [0..N -> Seq(Nat)] /\ e[0] = <<>>
      /\ \A k \in 1..N : e[k] = e[k - 1] \o Cells(recs[k])
  BY <1>1, EncodedIs, Zenon DEF N
<1>4. \A k \in 0..N : Len(e[k]) <= Len(e[N])
  <2> TAKE k \in 0..N
  <2>1. k \in 0..Len(recs) /\ Len(recs) \in k..Len(recs)
    BY <1>1 DEF N
  <2> QED
    BY <1>1, <2>1, EncodedPrefix DEF N
<1> HIDE DEF e
<1>5. \A k \in 0..N : Len(e[k]) \in Nat
  BY <1>3
<1>6. \A k : Start(k) = 1 + Len(e[k - 1])
  BY DEF Start, e
<1>7. ASSUME NEW k \in 1..N + 1 PROVE Start(k) \in Nat \ {0} /\ Start(k) <= Start(N + 1)
  <2>1. k - 1 \in 0..N /\ (N + 1) - 1 = N /\ N \in 0..N
    BY <1>1
  <2>2. Len(e[k - 1]) \in Nat /\ Len(e[N]) \in Nat /\ Len(e[k - 1]) <= Len(e[N])
    BY <1>4, <1>5, <2>1
  <2> QED
    BY <1>6, <2>1, <2>2
<1>8. ASSUME NEW k \in 1..N PROVE Start(k + 1) = Start(k) + Len(Cells(recs[k]))
  <2>1. k - 1 \in 0..N /\ (k + 1) - 1 = k /\ k \in 0..N
    BY <1>1
  <2>2. e[k - 1] \in Seq(Nat) /\ Cells(recs[k]) \in Seq(Nat) /\ e[k] = e[k - 1] \o Cells(recs[k])
    BY <1>2, <1>3, <2>1, CellsOf
  <2>3. IsConcat(Nat, e[k], e[k - 1], Cells(recs[k]))
    BY <2>2, Concat, Zenon
  <2>4. Len(e[k]) = Len(e[k - 1]) + Len(Cells(recs[k])) /\ Len(e[k - 1]) \in Nat /\ Len(Cells(recs[k])) \in Nat
    BY <2>3 DEF IsConcat
  <2>5. Start(k + 1) = 1 + Len(e[k]) /\ Start(k) = 1 + Len(e[k - 1])
    BY <1>6, <2>1
  <2>6. \A y, z \in Nat : 1 + (y + z) = (1 + y) + z
    OBVIOUS
  <2> QED
    BY <2>4, <2>5, <2>6, Zenon
<1>9. Start(1) = 1
  <2>1. 1 - 1 = 0 /\ Len(e[0]) = 0
    BY <1>3
  <2> QED
    BY <1>6, <2>1
<1> QED
  BY <1>1, <1>2, <1>7, <1>8, <1>9

\* Behind the last record there are three zeros.
LEMMA TableEnd ==
  ASSUME TableInv
  PROVE  /\ table \in Seq(Nat) /\ Len(table) = Start(N + 1) + 2
         /\ \A k \in 1..Start(N + 1) - 1 : table[k] = Encoded(recs)[N][k]
         /\ table[Start(N + 1)] = 0 /\ table[Start(N + 1) + 1] = 0 /\ table[Start(N + 1) + 2] = 0
<1> DEFINE b == Encoded(recs)[N]
           z == <<IET_END, 0, 0>>
<1>1. recs \in Seq(Records) /\ N \in Nat
  BY DEF TableInv, Whole, N
<1>2. Encoded(recs) \in [0..N -> Seq(Nat)]
  BY <1>1, EncodedIs, Zenon DEF N
<1>3. b \in Seq(Nat) /\ z \in Seq(Nat) /\ Len(z) = 3 /\ z[1] = 0 /\ z[2] = 0 /\ z[3] = 0
  BY <1>1, <1>2 DEF IET_END
<1>4. table = b \o z
  BY DEF TableInv, Encode, N
<1>5. Start(N + 1) = 1 + Len(b)
  <2>1. (N + 1) - 1 = N
    BY <1>1
  <2> QED
    BY <2>1 DEF Start
<1> HIDE DEF b, z
<1>6. IsConcat(Nat, table, b, z)
  BY <1>3, <1>4, Concat, Zenon
<1>7. /\ table \in Seq(Nat) /\ Len(table) = Len(b) + 3 /\ Len(b) \in Nat
      /\ \A i \in 1..Len(b) : table[i] = b[i]
      /\ table[Len(b) + 1] = 0 /\ table[Len(b) + 2] = 0 /\ table[Len(b) + 3] = 0
  BY <1>3, <1>6 DEF IsConcat
<1>8. \A i \in 1..Start(N + 1) - 1 : i \in 1..Len(b)
  BY <1>5, <1>7
<1>9. /\ Len(b) + 3 = Start(N + 1) + 2 /\ Len(b) + 1 = Start(N + 1)
      /\ Len(b) + 2 = Start(N + 1) + 1
  BY <1>5, <1>7
<1> QED
  BY <1>7, <1>8, <1>9 DEF b

\* The cells of a record are in the table.
LEMMA TableHas ==
  ASSUME TableInv, NEW k \in 1..N, NEW j \in 1..Len(Cells(recs[k]))
  PROVE  table[Start(k) + j - 1] = Cells(recs[k])[j] /\ Start(k) + j <= Start(N + 1)
<1> DEFINE e == Encoded(recs)
           c == Cells(recs[k])
           s == Start(k)
           t == Start(N + 1)
<1>1. recs \in Seq(Records) /\ N \in Nat /\ recs[k] \in Records /\ c \in Seq(Nat)
  BY StartIs, CellsOf DEF TableInv, Whole
<1>2. e \in [0..N -> Seq(Nat)] /\ e[k] = e[k - 1] \o c
  BY <1>1, EncodedIs, Zenon DEF N
<1>3. k - 1 \in 0..N /\ k \in 0..N /\ k + 1 \in 1..N + 1 /\ k \in 1..N + 1
  BY <1>1
<1>4. e[k - 1] \in Seq(Nat) /\ e[k] \in Seq(Nat)
  BY <1>2, <1>3
<1>5. IsConcat(Nat, e[k], e[k - 1], c)
  BY <1>1, <1>2, <1>4, Concat, Zenon
<1>6. \A i \in 1..Len(e[k]) : e[N][i] = e[k][i]
  <2>1. k \in 0..Len(recs) /\ Len(recs) \in k..Len(recs)
    BY <1>1 DEF N
  <2>2. \A i \in 1..Len(Encoded(recs)[k]) : Encoded(recs)[Len(recs)][i] = Encoded(recs)[k][i]
    BY <1>1, <2>1, EncodedPrefix
  <2> QED
    BY <2>2 DEF N
<1>7. s \in Nat \ {0} /\ t \in Nat \ {0} /\ Start(k + 1) <= t /\ Start(k + 1) = s + Len(c)
  BY <1>3, StartIs
<1>8. s = 1 + Len(e[k - 1])
  BY DEF Start
<1>9. \A i \in 1..t - 1 : table[i] = e[N][i]
  BY TableEnd
<1> HIDE DEF e, c, s, t
<1>10. Len(c) \in Nat /\ Len(e[k - 1]) \in Nat /\ Len(e[k]) = Len(e[k - 1]) + Len(c)
  BY <1>5 DEF IsConcat
<1>11. j \in 1..Len(c)
  BY DEF c
<1>12. /\ s + j - 1 = Len(e[k - 1]) + j /\ s + j - 1 \in 1..Len(e[k]) /\ s + j - 1 \in 1..t - 1
       /\ s + j <= t
  BY <1>7, <1>8, <1>10, <1>11
<1>13. e[k][Len(e[k - 1]) + j] = c[j]
  BY <1>5, <1>11 DEF IsConcat
<1>14. table[s + j - 1] = c[j]
  BY <1>6, <1>9, <1>12, <1>13
<1> QED
  BY <1>12, <1>14 DEF s, t, c

\* The cells of a record are in the table from its start.
LEMMA FieldsAt ==
  ASSUME TableInv, NEW k \in 1..N
  PROVE  /\ recs[k] \in Records /\ Start(k) \in Nat \ {0} /\ Start(k) + 3 <= Start(N + 1)
         /\ table[Start(k)] = recs[k].etype /\ table[Start(k) + 1] = recs[k].i
         /\ table[Start(k) + 2] = recs[k].name
         /\ recs[k].name # 0 => table[Start(k) + 3] = 0
         /\ Start(k + 1) = Start(k) + HeadLen(recs[k]) + Len(recs[k].rest)
         /\ \A j \in 1..Len(recs[k].rest) :
              table[Start(k) + HeadLen(recs[k]) + j - 1] = recs[k].rest[j]
<1> DEFINE r == recs[k]
           c == Cells(r)
           s == Start(k)
           h == HeadLen(r)
           l == Len(r.rest)
<1>1. /\ r \in Records /\ N \in Nat /\ s \in Nat \ {0}
      /\ Start(k + 1) = s + Len(c)
  BY StartIs
<1>2. /\ Len(c) = h + l /\ c[1] = r.etype /\ c[2] = r.i /\ c[3] = r.name
      /\ r.name # 0 => c[4] = 0
      /\ \A j \in 1..l : c[h + j] = r.rest[j]
  BY <1>1, CellsOf
<1>3. \A j \in 1..Len(c) : table[s + j - 1] = c[j] /\ s + j <= Start(N + 1)
  BY TableHas
<1>4. l \in Nat /\ h \in {3, 4} /\ (r.name # 0 => h = 4)
  BY <1>1 DEF Records, HeadLen
<1> HIDE DEF c, s, h, l
<1>5. /\ 1 \in 1..Len(c) /\ 2 \in 1..Len(c) /\ 3 \in 1..Len(c) /\ (h = 4 => 4 \in 1..Len(c))
      /\ \A j \in 1..l : h + j \in 1..Len(c)
  BY <1>2, <1>4
<1>6. /\ s + 1 - 1 = s /\ s + 2 - 1 = s + 1 /\ s + 3 - 1 = s + 2 /\ s + 4 - 1 = s + 3
      /\ \A j \in 1..l : s + (h + j) - 1 = s + h + j - 1
      /\ s + (h + l) = s + h + l
  BY <1>1, <1>4
<1>7. table[s] = r.etype /\ table[s + 1] = r.i /\ table[s + 2] = r.name
  BY <1>2, <1>3, <1>5, <1>6
<1>8. r.name # 0 => table[s + 3] = 0
  BY <1>2, <1>3, <1>4, <1>5, <1>6
<1>9. \A j \in 1..l : table[s + h + j - 1] = r.rest[j]
  <2> TAKE j \in 1..l
  <2>1. h + j \in 1..Len(c) /\ s + (h + j) - 1 = s + h + j - 1 /\ c[h + j] = r.rest[j]
    BY <1>2, <1>5, <1>6
  <2>2. table[s + (h + j) - 1] = c[h + j]
    BY <1>3, <2>1
  <2> QED
    BY <2>1, <2>2
<1>10. s + 3 <= Start(N + 1)
  BY <1>3, <1>5
<1>11. Start(k + 1) = s + h + l
  BY <1>1, <1>2, <1>6
<1> QED
  BY <1>1, <1>7, <1>8, <1>9, <1>10, <1>11 DEF s, h, l

\* A name has at most one character.
LEMMA StrLenIs ==
  ASSUME TableInv, NEW p \in Nat \ {0}, p <= Start(N + 1)
  PROVE  /\ table[p] = 0 => StrLen(p) = 0
         /\ table[p] # 0 /\ table[p + 1] = 0 => StrLen(p) = 1
<1> DEFINE S == {n \in 0..Len(table) - p : table[p + n] = 0}
<1>1. Len(table) = Start(N + 1) + 2 /\ Start(N + 1) \in Nat
  <2>1. N + 1 \in 1..N + 1
    BY StartIs
  <2> QED
    BY <2>1, TableEnd, StartIs
<1>2. 0 \in 0..Len(table) - p /\ 1 \in 0..Len(table) - p /\ p + 0 = p
  BY <1>1
<1>3. StrLen(p) = CHOOSE x \in S : \A y \in S : x <= y
  BY DEF StrLen, Min
<1>4. S \in SUBSET Nat
  OBVIOUS
<1>5. ASSUME table[p] = 0 PROVE StrLen(p) = 0
  <2>1. 0 \in S /\ \A y \in S : 0 <= y
    BY <1>2, <1>4, <1>5
  <2>2. ASSUME NEW x \in S, \A y \in S : x <= y PROVE x = 0
    <3> HIDE DEF S
    <3>1. x <= 0 /\ 0 <= x /\ x \in Nat
      BY <1>4, <2>1, <2>2
    <3> QED
      BY <3>1
  <2> HIDE DEF S
  <2> QED
    BY <1>3, <2>1, <2>2
<1>6. ASSUME table[p] # 0, table[p + 1] = 0 PROVE StrLen(p) = 1
  <2>1. 1 \in S /\ 0 \notin S
    BY <1>2, <1>6
  <2>2. \A y \in S : 1 <= y
    BY <1>4, <2>1
  <2>3. \A x \in S : (\A y \in S : x <= y) => x = 1
    BY <1>4, <2>1, <2>2
  <2> HIDE DEF S
  <2> QED
    BY <1>3, <2>1, <2>2, <2>3
<1> QED
  BY <1>5, <1>6

\* What the loader reads at the start of a record.
LEMMA ReadRecord ==
  ASSUME TableInv, NEW k \in 1..N, cur = Start(k)
  PROVE  /\ etype = recs[k].etype /\ num = recs[k].i /\ table[st_ptr] = recs[k].name
         /\ PastName = Start(k) + HeadLen(recs[k])
<1>1. /\ recs[k] \in Records /\ Start(k) \in Nat \ {0} /\ Start(k) + 3 <= Start(N + 1)
      /\ table[Start(k)] = recs[k].etype /\ table[Start(k) + 1] = recs[k].i
      /\ table[Start(k) + 2] = recs[k].name
      /\ recs[k].name # 0 => table[Start(k) + 3] = 0
  BY FieldsAt
<1>2. Start(N + 1) \in Nat
  <2>1. N + 1 \in 1..N + 1
    BY StartIs
  <2> QED
    BY <2>1, StartIs
<1>3. st_ptr \in Nat \ {0} /\ st_ptr <= Start(N + 1) /\ st_ptr = Start(k) + 2 /\ st_ptr + 1 = Start(k) + 3
  BY <1>1, <1>2 DEF st_ptr
<1>4. /\ table[st_ptr] = 0 => StrLen(st_ptr) = 0
      /\ table[st_ptr] # 0 /\ table[st_ptr + 1] = 0 => StrLen(st_ptr) = 1
  BY <1>3, StrLenIs
<1>5. PastName = Start(k) + HeadLen(recs[k])
  <2>1. CASE recs[k].name = 0
    <3>1. StrLen(st_ptr) = 0 /\ HeadLen(recs[k]) = 3
      BY <1>1, <1>3, <1>4, <2>1 DEF HeadLen
    <3> QED
      BY <1>1, <1>3, <3>1 DEF PastName
  <2>2. CASE recs[k].name # 0
    <3>1. StrLen(st_ptr) = 1 /\ HeadLen(recs[k]) = 4
      BY <1>1, <1>3, <1>4, <2>2 DEF HeadLen
    <3> QED
      BY <1>1, <1>3, <3>1 DEF PastName
  <2> QED
    BY <2>1, <2>2
<1> QED
  BY <1>1, <1>3, <1>5 DEF etype, num

\* Offsets are naturals,
LEMMA EntryNat == \A f \in Nat \ {0} : Entry(f) \in Nat
<1> TAKE f \in Nat \ {0}
<1>1. f + 1 \in Nat \ {0} /\ f < f + 1
  OBVIOUS
<1> QED
  BY <1>1, Layout

\* and so are the names and the addresses that the constants give.
LEMMA Sites ==
  /\ AbsSites \subseteq Nat /\ ImportSites \subseteq Nat /\ Funs \subseteq Nat \ {0}
  /\ IsFiniteSet(AbsSites) /\ Cardinality(AbsSites) \in Nat
  /\ Base \in Nat /\ NumFuns \in Nat /\ HeapName \in Nat /\ Outside \in Nat
<1>1. NumFuns \in Nat /\ Base \in Nat /\ HeapName \in Nat /\ Outside \in Nat
  BY LoaderAssumption
<1>2. AbsSites \cup ImportSites \subseteq 0..Entry(NumFuns + 1) - 1
  BY LoaderAssumption
<1>3. Entry(NumFuns + 1) \in Nat
  <2>1. NumFuns + 1 \in Nat \ {0}
    BY <1>1
  <2> QED
    BY <2>1, EntryNat
<1>4. AbsSites \subseteq Nat /\ ImportSites \subseteq Nat
  BY <1>2, <1>3
<1>5. IsFiniteSet(AbsSites)
  <2>1. IsFiniteSet(0..Entry(NumFuns + 1) - 1)
    BY <1>3, FS_Interval
  <2>2. AbsSites \subseteq 0..Entry(NumFuns + 1) - 1
    BY <1>2
  <2> QED
    BY <2>1, <2>2, FS_Subset
<1>6. Cardinality(AbsSites) \in Nat
  BY <1>5, FS_CardinalityType
<1> QED
  BY <1>1, <1>4, <1>5, <1>6 DEF Funs

-----------------------------------------------------------------------------
(* What the compiler may put into the table.                               *)

LeadingRec(k, r) == (k = 1 /\ Absolute(r)) \/ Variable(r) \/ Export(r) \/ MainFun(r)
Leading(s) == s \in Seq(Records) /\ \A k \in 1..Len(s) : LeadingRec(k, s[k])
Middle(s) ==
  s \in Seq(Records) /\ \A k \in 1..Len(s) : Variable(s[k]) \/ Export(s[k]) \/ MainFun(s[k])
Back(s) ==
  /\ s \in Seq(Records)
  /\ \A k \in 1..Len(s) : Import(s[k])
  /\ Len(s) > 0 => s[1].name # 0

\* What Rec makes is a record.
LEMMA RecIs ==
  ASSUME NEW t \in Nat, NEW i \in Nat, NEW n \in Nat, NEW rest \in Seq(Nat)
  PROVE  /\ Rec(t, i, n, rest) \in Records
         /\ Rec(t, i, n, rest).etype = t /\ Rec(t, i, n, rest).i = i
         /\ Rec(t, i, n, rest).name = n /\ Rec(t, i, n, rest).rest = rest
BY DEF Rec, Records

\* Absolute addresses are in the first record,
LEMMA AbsLeading == \A a \in AbsRecs : Leading(a)
<1> SUFFICES ASSUME NEW a \in AbsRecs PROVE Leading(a)
  OBVIOUS
<1>1. CASE a = <<>>
  <2>1. a \in Seq(Records) /\ Len(a) = 0
    BY <1>1
  <2> QED
    BY <2>1 DEF Leading
<1>2. CASE a # <<>>
  <2>1. PICK n \in 1..Cardinality(AbsSites) : \E s \in [1..n -> AbsSites] : a = <<Rec(IET_ABS_ADDR, n, 0, s)>>
    BY <1>2 DEF AbsRecs
  <2>2. PICK s \in [1..n -> AbsSites] : a = <<Rec(IET_ABS_ADDR, n, 0, s)>>
    BY <2>1
  <2>3. n \in Nat
    BY Sites
  <2>4. s \in Seq(AbsSites) /\ s \in Seq(Nat) /\ Len(s) = n
    <3>1. s \in [1..n -> Nat]
      BY Sites
    <3>2. s \in Seq(AbsSites) /\ Len(s) = n
      BY <2>3
    <3> QED
      BY <2>3, <3>1, <3>2
  <2> DEFINE r == Rec(IET_ABS_ADDR, n, 0, s)
  <2>5. r \in Records /\ r.etype = IET_ABS_ADDR /\ r.i = n /\ r.name = 0 /\ r.rest = s
    BY <2>3, <2>4, RecIs DEF IET_ABS_ADDR
  <2>6. Absolute(r)
    BY <2>4, <2>5 DEF Absolute
  <2>7. a = <<r>>
    BY <2>2
  <2> HIDE DEF r
  <2>8. a \in Seq(Records) /\ Len(a) = 1 /\ a[1] = r
    BY <2>5, <2>7
  <2> QED
    BY <2>6, <2>8 DEF Leading, LeadingRec
<1> QED
  BY <1>1, <1>2

\* variables, exports and the main function come next,
LEMMA MiddleRecs == \A s \in HeapRecs \cup ExportRecs \cup MainRecs : Middle(s)
<1> SUFFICES ASSUME NEW s \in HeapRecs \cup ExportRecs \cup MainRecs PROVE Middle(s)
  OBVIOUS
<1>1. CASE s = <<>>
  <2>1. s \in Seq(Records) /\ Len(s) = 0
    BY <1>1
  <2> QED
    BY <2>1 DEF Middle
<1>2. CASE s \in HeapRecs /\ s # <<>>
  <2>1. PICK n \in {0, HeapName} : s = <<Rec(IET_DATA_HEAP, 1, n, <<8, 0, 0>>)>>
    BY <1>2 DEF HeapRecs
  <2> DEFINE r == Rec(IET_DATA_HEAP, 1, n, <<8, 0, 0>>)
  <2>2. <<8, 0, 0>> \in Seq(Nat) /\ n \in Nat
    BY Sites
  <2>6. r \in Records /\ r.etype = 23 /\ r.i = 1 /\ r.name = n /\ r.rest = <<8, 0, 0>>
    BY <2>2 DEF Rec, Records, IET_DATA_HEAP
  <2>4. s = <<r>>
    BY <2>1
  <2> HIDE DEF r
  <2>3. r \in Records /\ Variable(r)
    BY <2>6 DEF Variable, IET_DATA_HEAP
  <2>5. s \in Seq(Records) /\ Len(s) = 1 /\ s[1] = r
    BY <2>3, <2>4
  <2> QED
    BY <2>3, <2>5 DEF Middle
<1>3. CASE s \in ExportRecs
  <2>1. PICK n \in 0..NumFuns : s = [k \in 1..n |-> Rec(IET_REL32_EXPORT, Entry(k), k, <<>>)]
    BY <1>3 DEF ExportRecs
  <2>2. n \in Nat /\ \A k \in 1..n : k \in Funs /\ k \in Nat \ {0}
    BY Sites DEF Funs
  <2>3. ASSUME NEW k \in 1..n
        PROVE  /\ Rec(IET_REL32_EXPORT, Entry(k), k, <<>>) \in Records
               /\ Export(Rec(IET_REL32_EXPORT, Entry(k), k, <<>>))
    <3>1. k \in Funs /\ k \in Nat /\ Entry(k) \in Nat /\ <<>> \in Seq(Nat)
      BY <2>2, EntryNat
    <3> DEFINE r == Rec(IET_REL32_EXPORT, Entry(k), k, <<>>)
    <3>2. r \in Records /\ r.etype = 16 /\ r.i = Entry(k) /\ r.name = k /\ r.rest = <<>>
      BY <3>1 DEF Rec, Records, IET_REL32_EXPORT
    <3> HIDE DEF r
    <3>3. r \in Records /\ Export(r)
      BY <3>1, <3>2 DEF Export, IET_REL32_EXPORT
    <3> QED
      BY <3>3 DEF r
  <2>4. s \in Seq(Records) /\ Len(s) = n
    BY <2>1, <2>2, <2>3
  <2> QED
    BY <2>1, <2>3, <2>4 DEF Middle
<1>4. CASE s \in MainRecs /\ s # <<>>
  <2> DEFINE r == Rec(IET_MAIN, 0, 0, <<>>)
  <2>1. s = <<r>>
    BY <1>4 DEF MainRecs
  <2>2. <<>> \in Seq(Nat)
    OBVIOUS
  <2>4. r \in Records /\ r.etype = 25 /\ r.i = 0 /\ r.name = 0 /\ r.rest = <<>>
    BY <2>2 DEF Rec, Records, IET_MAIN
  <2> HIDE DEF r
  <2>3. r \in Records /\ MainFun(r)
    BY <2>4 DEF MainFun, IET_MAIN
  <2>5. s \in Seq(Records) /\ Len(s) = 1 /\ s[1] = r
    BY <2>3, <2>1
  <2> QED
    BY <2>3, <2>5 DEF Middle
<1> QED
  BY <1>1, <1>2, <1>3, <1>4

\* and imports, the first of which has a name, are last.
LEMMA ImportBack == \A s \in ImportRecs : Back(s)
<1> SUFFICES ASSUME NEW s \in ImportRecs PROVE Back(s)
  OBVIOUS
<1> DEFINE T == {Rec(IET_REL_I32, a, x, <<>>) : a \in ImportSites, x \in Funs \cup {0, Outside}}
<1>1. PICK n \in 0..MaxImports : s \in [1..n -> T] /\ (n > 0 => s[1].name # 0)
  BY DEF ImportRecs
<1>2. n \in Nat
  BY LoaderAssumption
<1>3. ASSUME NEW r \in T PROVE r \in Records /\ Import(r)
  <2>1. PICK a \in ImportSites, x \in Funs \cup {0, Outside} : r = Rec(IET_REL_I32, a, x, <<>>)
    OBVIOUS
  <2>2. a \in Nat /\ x \in Nat /\ <<>> \in Seq(Nat)
    BY Sites
  <2>3. r \in Records /\ r.etype = 8 /\ r.i = a /\ r.name = x /\ r.rest = <<>>
    BY <2>1, <2>2 DEF Rec, Records, IET_REL_I32
  <2> QED
    BY <2>2, <2>3 DEF Import, IET_REL_I32
<1> HIDE DEF T
<1>4. s \in Seq(Records) /\ Len(s) = n
  BY <1>1, <1>2, <1>3
<1> QED
  BY <1>1, <1>3, <1>4 DEF Back

\* The front of a table with more behind it is a front,
LEMMA FrontMiddle == \A s, t : Leading(s) /\ Middle(t) => Leading(s \o t)
<1> SUFFICES ASSUME NEW s, NEW t, Leading(s), Middle(t) PROVE Leading(s \o t)
  OBVIOUS
<1> DEFINE c == s \o t
<1>1. s \in Seq(Records) /\ t \in Seq(Records)
  BY DEF Leading, Middle
<1>2. IsConcat(Records, c, s, t)
  BY <1>1, ConcatAny, Zenon
<1> HIDE DEF c
<1>3. ASSUME NEW k \in 1..Len(c) PROVE LeadingRec(k, c[k])
  <2>1. CASE k \in 1..Len(s)
    BY <1>2, <2>1 DEF IsConcat, Leading
  <2>2. CASE k \notin 1..Len(s)
    <3>1. k - Len(s) \in 1..Len(t) /\ Len(s) + (k - Len(s)) = k
      BY <1>2, <2>2 DEF IsConcat
    <3>2. c[k] = t[k - Len(s)]
      BY <1>2, <3>1 DEF IsConcat
    <3> QED
      BY <3>1, <3>2 DEF Middle, LeadingRec
  <2> QED
    BY <2>1, <2>2
<1> QED
  BY <1>2, <1>3 DEF IsConcat, Leading, c

\* and with the imports behind it, it is a table.
LEMMA FrontBack ==
  ASSUME NEW p, NEW s, Leading(p), Back(s), recs = p \o s
  PROVE  Whole /\ Ordered
<1>1. p \in Seq(Records) /\ s \in Seq(Records)
  BY DEF Leading, Back
<1>2. IsConcat(Records, recs, p, s)
  BY <1>1, ConcatAny, Zenon
<1> DEFINE n == Len(p)
<1>3. /\ recs \in Seq(Records) /\ n \in Nat /\ Len(s) \in Nat /\ Len(recs) = n + Len(s)
      /\ DOMAIN recs = 1..Len(recs)
  BY <1>2 DEF IsConcat
<1>4. \A k \in 1..n : recs[k] = p[k] /\ LeadingRec(k, recs[k])
  BY <1>2 DEF IsConcat, Leading
<1>5. \A j \in 1..Len(s) : recs[n + j] = s[j] /\ Import(recs[n + j])
  BY <1>2 DEF IsConcat, Back
<1>6. \A k \in DOMAIN recs : k \notin 1..n => k - n \in 1..Len(s) /\ n + (k - n) = k
  BY <1>3
<1>7. \A k \in DOMAIN recs : k \notin 1..n => recs[k] = s[k - n] /\ Import(recs[k])
  BY <1>5, <1>6
<1>8. Whole
  BY <1>3, <1>4, <1>7 DEF Whole, LeadingRec
<1>9. \A k \in 1..n : ~Import(recs[k])
  BY <1>4 DEF LeadingRec, Import, Absolute, Variable, Export, MainFun, IET_REL_I32, IET_ABS_ADDR,
                IET_DATA_HEAP, IET_REL32_EXPORT, IET_MAIN
<1>10. ASSUME NEW k \in DOMAIN recs PROVE recs[k].etype = IET_ABS_ADDR => k = 1
  BY <1>4, <1>7 DEF LeadingRec, Import, Absolute, Variable, Export, MainFun, IET_REL_I32, IET_ABS_ADDR,
                IET_DATA_HEAP, IET_REL32_EXPORT, IET_MAIN
<1>11. ASSUME NEW k \in DOMAIN recs, Import(recs[k]), k < Len(recs) PROVE Import(recs[k + 1])
  <2>1. k \notin 1..n
    BY <1>9, <1>11
  <2>2. k + 1 \in DOMAIN recs /\ k + 1 \notin 1..n
    BY <1>3, <1>11, <2>1
  <2> QED
    BY <1>7, <2>2
<1>12. ASSUME NEW k \in DOMAIN recs, Import(recs[k]), recs[k].name = 0
       PROVE  k > 1 /\ Import(recs[k - 1])
  <2>1. k \notin 1..n /\ k - n \in 1..Len(s) /\ recs[k] = s[k - n]
    BY <1>6, <1>7, <1>9, <1>12
  <2>2. s[1].name # 0
    BY <1>3, <2>1 DEF Back
  <2>3. k - n # 1
    BY <1>12, <2>1, <2>2
  <2>4. k > 1 /\ k - 1 \in DOMAIN recs /\ k - 1 \notin 1..n
    BY <1>3, <2>1, <2>3
  <2> QED
    BY <1>7, <2>4
<1>13. Ordered
  BY <1>10, <1>11, <1>12 DEF Ordered
<1> QED
  BY <1>8, <1>13

\* The table that load_kernel is given.
LEMMA InitTable ==
  ASSUME Init
  PROVE  TableInv
<1>1. PICK a \in AbsRecs, h \in HeapRecs, e \in ExportRecs, m \in MainRecs, i \in ImportRecs :
             recs = a \o h \o e \o m \o i
  BY DEF Init
<1>2. Leading(a) /\ Middle(h) /\ Middle(e) /\ Middle(m) /\ Back(i)
  BY AbsLeading, MiddleRecs, ImportBack
<1>3. Leading(a \o h)
  BY <1>2, FrontMiddle, Zenon
<1>4. Leading(a \o h \o e)
  BY <1>2, <1>3, FrontMiddle, Zenon
<1>5. Leading(a \o h \o e \o m)
  BY <1>2, <1>4, FrontMiddle, Zenon
<1>6. Whole /\ Ordered
  BY <1>1, <1>2, <1>5, FrontBack, Zenon
<1> QED
  BY <1>6 DEF TableInv, Init

-----------------------------------------------------------------------------
(* The walk.                                                               *)

\* The record in the table that is of a type is as the compiler makes it.
LEMMA Kinds ==
  ASSUME TableInv, NEW k \in 1..N
  PROVE  /\ recs[k] \in Records /\ recs[k].etype # IET_END
         /\ recs[k].etype \in Exports => Export(recs[k]) /\ recs[k].etype \notin ImmExports
         /\ recs[k].etype = IET_ABS_ADDR => Absolute(recs[k]) /\ k = 1
         /\ recs[k].etype \in Heaps => Variable(recs[k]) /\ recs[k].etype \notin CodeHeaps
         /\ recs[k].etype = IET_MAIN => MainFun(recs[k])
         /\ recs[k].etype \in Imports <=> Import(recs[k])
<1>1. recs[k] \in Records
  BY StartIs
<1>2. k \in DOMAIN recs
  BY DEF TableInv, Whole, N
<1>3. Absolute(recs[k]) \/ Variable(recs[k]) \/ Export(recs[k]) \/ MainFun(recs[k]) \/ Import(recs[k])
  BY <1>2 DEF TableInv, Whole
<1>4. recs[k].etype = IET_ABS_ADDR => k = 1
  BY <1>2 DEF TableInv, Ordered
<1> DEFINE t == recs[k].etype
<1>5. /\ Absolute(recs[k]) => t = 20
      /\ Variable(recs[k]) => t = 23
      /\ Export(recs[k]) => t = 16
      /\ MainFun(recs[k]) => t = 25
      /\ Import(recs[k]) => t = 8
  BY DEF Absolute, Variable, Export, MainFun, Import, IET_ABS_ADDR, IET_REL_I32, IET_DATA_HEAP,
         IET_REL32_EXPORT, IET_MAIN
<1> HIDE DEF t
<1>6. /\ t # IET_END /\ t \in {20, 23, 16, 25, 8}
      /\ t \in Exports <=> t = 16
      /\ t = IET_ABS_ADDR <=> t = 20
      /\ t \in Heaps <=> t = 23
      /\ t = IET_MAIN <=> t = 25
      /\ t \in Imports <=> t = 8
      /\ t = 16 => t \notin ImmExports
      /\ t = 23 => t \notin CodeHeaps
  BY <1>3, <1>5 DEF IET_END, Exports, ImmExports, IET_ABS_ADDR, Heaps, CodeHeaps, IET_MAIN, Imports
<1> QED
  BY <1>1, <1>3, <1>4, <1>5, <1>6 DEF t

StartOf(rs, k) == 1 + Len(Encoded(rs)[k - 1])

\* Where the loader is, with w - 1 records behind it: at the start of the record w, or, after
\* the last import, one cell before the end.
Place(rs, w, c, f, p) ==
  /\ p = "pass1" =>
       \/ c = StartOf(rs, w) /\ (w <= Len(rs) /\ Import(rs[w]) => rs[w].name # 0)
       \/ w = Len(rs) + 1 /\ c = StartOf(rs, w) - 1 /\ Len(rs) >= 1 /\ Import(rs[Len(rs)])
  /\ p = "import" =>
       /\ c = StartOf(rs, w)
       /\ w <= Len(rs) => Import(rs[w])
       /\ f => w <= Len(rs) /\ rs[w].name # 0
       /\ w = Len(rs) + 1 => Len(rs) >= 1 /\ Import(rs[Len(rs)])
  /\ p \notin {"pass1", "import"} => w = Len(rs) + 1

WalkInv ==
  /\ walked \in Seq(Nat) /\ Len(walked) <= Len(recs)
  /\ \A k \in 1..Len(walked) : walked[k] = StartOf(recs, k)
  /\ Place(recs, Len(walked) + 1, cur, first, pc)

\* Start, of any list of records.
LEMMA StartSame == \A k : Start(k) = StartOf(recs, k)
BY DEF Start, StartOf

\* The name of the last import ends with a zero.
LEMMA BeforeEnd ==
  ASSUME TableInv, N >= 1, Import(recs[N])
  PROVE  table[Start(N + 1) - 1] = 0
<1>1. N \in Nat /\ N \in 1..N
  BY StartIs
<1>2. /\ Start(N) \in Nat \ {0}
      /\ table[Start(N) + 2] = recs[N].name
      /\ recs[N].name # 0 => table[Start(N) + 3] = 0
      /\ Start(N + 1) = Start(N) + HeadLen(recs[N]) + Len(recs[N].rest)
  BY <1>1, FieldsAt
<1>3. Len(recs[N].rest) = 0
  BY DEF Import
<1> QED
  BY <1>2, <1>3 DEF HeadLen

\* Where the walk meets something that is not the end, it meets the next record.
LEMMA AtRecord ==
  ASSUME TableInv, WalkInv, pc \in {"pass1", "import"}, etype # IET_END
  PROVE  /\ Len(walked) + 1 \in 1..N /\ Len(walked) \in Nat /\ cur = Start(Len(walked) + 1)
         /\ pc = "pass1" /\ Import(recs[Len(walked) + 1]) => recs[Len(walked) + 1].name # 0
<1> DEFINE w == Len(walked) + 1
<1>1. N \in Nat /\ w \in 1..N + 1 /\ Len(walked) \in Nat
  BY StartIs DEF WalkInv, N
<1>2. Place(recs, w, cur, first, pc) /\ \A k : Start(k) = StartOf(recs, k)
  BY StartSame DEF WalkInv
<1>3. table[Start(N + 1)] = 0
  BY TableEnd
<1>4. N >= 1 /\ Import(recs[N]) => table[Start(N + 1) - 1] = 0
  BY BeforeEnd
<1> HIDE DEF w
<1>5. ASSUME w = N + 1 PROVE table[cur] = 0
  BY <1>2, <1>3, <1>4, <1>5 DEF Place, N
<1>6. w # N + 1
  BY <1>5 DEF etype, IET_END
<1>7. w \in 1..N
  BY <1>1, <1>6
<1>8. cur = Start(w)
  BY <1>1, <1>2, <1>6 DEF Place, N
<1>9. pc = "pass1" /\ Import(recs[w]) => recs[w].name # 0
  BY <1>1, <1>2, <1>6, <1>7 DEF Place, N
<1> QED
  BY <1>1, <1>7, <1>8, <1>9 DEF w

\* One record more has been walked.
LEMMA WalkedAppend ==
  ASSUME TableInv, WalkInv, cur = Start(Len(walked) + 1), Len(walked) + 1 \in 1..N,
         walked' = Append(walked, cur), recs' = recs
  PROVE  /\ walked' \in Seq(Nat) /\ Len(walked') = Len(walked) + 1 /\ Len(walked') <= Len(recs')
         /\ \A k \in 1..Len(walked') : walked'[k] = StartOf(recs', k)
<1>1. walked \in Seq(Nat) /\ Len(walked) \in Nat
  BY DEF WalkInv
<1>2. cur \in Nat
  BY StartIs
<1>3. /\ walked' \in Seq(Nat) /\ Len(walked') = Len(walked) + 1
      /\ \A k \in 1..Len(walked) : walked'[k] = walked[k]
      /\ walked'[Len(walked) + 1] = cur
  BY <1>1, <1>2, AppendProperties
<1>4. \A k \in 1..Len(walked) : walked[k] = StartOf(recs, k)
  BY DEF WalkInv
<1>5. cur = StartOf(recs, Len(walked) + 1)
  BY StartSame
<1>6. Len(walked) + 1 <= Len(recs')
  BY DEF N
<1>7. \A k \in 1..Len(walked') : k \in 1..Len(walked) \/ k = Len(walked) + 1
  BY <1>1, <1>3
<1> QED
  BY <1>3, <1>4, <1>5, <1>6, <1>7

\* At the record that follows: if it is the first import, it has a name.
LEMMA NextPlace ==
  ASSUME TableInv, NEW w \in 1..N, ~Import(recs[w]), NEW f
  PROVE  Place(recs, w + 1, StartOf(recs, w + 1), f, "pass1")
<1>1. N \in Nat /\ DOMAIN recs = 1..N
  BY StartIs DEF TableInv, Whole, N
<1>2. ASSUME w + 1 <= N, Import(recs[w + 1]) PROVE recs[w + 1].name # 0
  <2>1. w + 1 \in DOMAIN recs /\ (w + 1) - 1 = w
    BY <1>1, <1>2
  <2> QED
    BY <1>2, <2>1 DEF TableInv, Ordered
<1> QED
  BY <1>2 DEF Place, N

\* Five bytes before its name is where a record begins.
LEMMA StepsBack == cur \in Nat => RecordOf(st_ptr) = cur
  BY DEF RecordOf, st_ptr

\* Every step of the walk ends at the start of the next record, or behind the last.
LEMMA WalkStep ==
  ASSUME TableInv, WalkInv, [Next]_vars
  PROVE  TableInv' /\ WalkInv'
<1> DEFINE w == Len(walked) + 1
<1>1. N \in Nat /\ walked \in Seq(Nat) /\ w - 1 = Len(walked) /\ Len(walked) \in Nat /\ w \in 1..N + 1
  BY StartIs DEF WalkInv, N
<1>2. \A k : Start(k) = StartOf(recs, k)
  BY StartSame
<1>3. ASSUME recs' = recs, table' = table PROVE TableInv'
  BY <1>3 DEF TableInv, Whole, Ordered
\* A step that walks over the record w.
<1>4. ASSUME recs' = recs, walked' = Append(walked, cur), cur = Start(w), w \in 1..N,
             Place(recs, w + 1, cur', first', pc')
      PROVE  WalkInv'
  <2>1. /\ walked' \in Seq(Nat) /\ Len(walked') = w /\ Len(walked') <= Len(recs')
        /\ \A k \in 1..Len(walked') : walked'[k] = StartOf(recs', k)
    BY <1>4, WalkedAppend
  <2>2. Place(recs', Len(walked') + 1, cur', first', pc')
    BY <1>4, <2>1, Zenon
  <2> QED
    BY <2>1, <2>2 DEF WalkInv
\* A step that walks over none.
<1>5. ASSUME recs' = recs, walked' = walked, Place(recs, w, cur', first', pc')
      PROVE  WalkInv'
  BY <1>5 DEF WalkInv
<1>6. Place(recs, w, cur, first, pc)
  BY DEF WalkInv
<1>7. ASSUME pc \in {"pass1", "import"}, etype # IET_END
      PROVE  /\ w \in 1..N /\ cur = Start(w)
             /\ etype = recs[w].etype /\ num = recs[w].i /\ table[st_ptr] = recs[w].name
             /\ PastName = Start(w) + HeadLen(recs[w])
             /\ Start(w) \in Nat \ {0}
             /\ Start(w + 1) = Start(w) + HeadLen(recs[w]) + Len(recs[w].rest)
             /\ pc = "pass1" /\ Import(recs[w]) => recs[w].name # 0
  <2>1. /\ w \in 1..N /\ cur = Start(w)
        /\ pc = "pass1" /\ Import(recs[w]) => recs[w].name # 0
    BY <1>7, AtRecord
  <2> HIDE DEF w
  <2>2. Start(w) \in Nat \ {0} /\ Start(w + 1) = Start(w) + HeadLen(recs[w]) + Len(recs[w].rest)
    BY <2>1, FieldsAt
  <2>3. /\ etype = recs[w].etype /\ num = recs[w].i /\ table[st_ptr] = recs[w].name
        /\ PastName = Start(w) + HeadLen(recs[w])
    BY <2>1, ReadRecord
  <2> QED
    BY <2>1, <2>2, <2>3
<1> HIDE DEF w
<1>8. ASSUME w \in 1..N, ~Import(recs[w]), cur' = Start(w + 1), pc' = "pass1"
      PROVE  Place(recs, w + 1, cur', first', pc')
  <2>1. Place(recs, w + 1, StartOf(recs, w + 1), first', "pass1")
    BY <1>8, NextPlace
  <2> QED
    BY <1>2, <1>8, <2>1
<1>9. CASE LoadPass1
  <2>1. CASE PassEnd
    <3>1. UNCHANGED <<recs, table, walked>> /\ pc = "pass1" /\ pc' = "instr" /\ table[cur] = 0
      BY <2>1 DEF PassEnd, PassUnchanged, etype, IET_END
    <3>2. w = N + 1
      <4> SUFFICES ASSUME w # N + 1 PROVE FALSE
        OBVIOUS
      <4>1. w \in 1..N /\ cur = Start(w)
        BY <1>1, <1>2, <1>6, <3>1 DEF Place, N
      <4>2. table[cur] = recs[w].etype /\ recs[w].etype # IET_END
        BY <4>1, FieldsAt, Kinds
      <4> QED
        BY <3>1, <4>2 DEF IET_END
    <3>3. Place(recs, w, cur', first', pc')
      BY <3>1, <3>2 DEF Place, N
    <3> QED
      BY <1>3, <1>5, <3>1, <3>3
  <2>2. CASE PassExport
    <3>1. /\ recs' = recs /\ table' = table /\ pc = "pass1" /\ pc' = "pass1" /\ etype \in Exports
          /\ walked' = Append(walked, cur) /\ cur' = PastName
      BY <2>2 DEF PassExport, PassUnchanged, Handles
    <3>2. etype # IET_END
      BY <3>1 DEF Exports, IET_END
    <3>3. Export(recs[w]) /\ ~Import(recs[w])
      BY <1>7, <3>1, <3>2, Kinds DEF Export, Import, IET_REL32_EXPORT, IET_REL_I32
    <3>4. Len(recs[w].rest) = 0
      BY <3>3 DEF Export
    <3>5. HeadLen(recs[w]) \in Nat
      BY DEF HeadLen
    <3>6. cur' = Start(w + 1)
      BY <1>7, <3>1, <3>2, <3>4, <3>5
    <3> QED
      BY <1>3, <1>4, <1>7, <1>8, <3>1, <3>2, <3>3, <3>6
  <2>3. CASE PassAbs
    <3>1. /\ recs' = recs /\ table' = table /\ pc = "pass1" /\ pc' = "pass1" /\ etype = IET_ABS_ADDR
          /\ walked' = Append(walked, cur) /\ cur' = PastName + num
      BY <2>3 DEF PassAbs, PassUnchanged, Handles
    <3>2. etype # IET_END
      BY <3>1 DEF IET_ABS_ADDR, IET_END
    <3>3. Absolute(recs[w]) /\ ~Import(recs[w])
      BY <1>7, <3>1, <3>2, Kinds DEF Absolute, Import, IET_ABS_ADDR, IET_REL_I32
    <3>4. num = Len(recs[w].rest)
      BY <1>7, <3>1, <3>2, <3>3 DEF Absolute
    <3>6. cur' = Start(w + 1)
      BY <1>7, <3>1, <3>2, <3>4
    <3> QED
      BY <1>3, <1>4, <1>7, <1>8, <3>1, <3>2, <3>3, <3>6
  <2>4. CASE PassHeap
    <3>1. /\ recs' = recs /\ table' = table /\ pc = "pass1" /\ pc' = "pass1" /\ etype \in Heaps
          /\ walked' = Append(walked, cur)
          /\ cur' = PastName + (IF etype \in CodeHeaps THEN 1 ELSE 2) + num
      BY <2>4 DEF PassHeap, PassUnchanged, Handles
    <3>2. etype # IET_END
      BY <3>1 DEF Heaps, IET_END
    <3>3. Variable(recs[w]) /\ ~Import(recs[w]) /\ etype \notin CodeHeaps
      BY <1>7, <3>1, <3>2, Kinds DEF Variable, Import, IET_DATA_HEAP, IET_REL_I32
    <3>4. num = 1 /\ Len(recs[w].rest) = 3
      BY <1>7, <3>1, <3>2, <3>3 DEF Variable
    <3>5. HeadLen(recs[w]) \in Nat
      BY DEF HeadLen
    <3>6. cur' = Start(w + 1)
      BY <1>7, <3>1, <3>2, <3>3, <3>4, <3>5
    <3> QED
      BY <1>3, <1>4, <1>7, <1>8, <3>1, <3>2, <3>3, <3>6
  <2>5. CASE PassMain
    <3>1. /\ recs' = recs /\ table' = table /\ pc = "pass1" /\ pc' = "pass1" /\ etype = IET_MAIN
          /\ walked' = Append(walked, cur) /\ cur' = PastName
      BY <2>5 DEF PassMain, PassUnchanged, Handles
    <3>2. etype # IET_END
      BY <3>1 DEF IET_MAIN, IET_END
    <3>3. MainFun(recs[w]) /\ ~Import(recs[w])
      BY <1>7, <3>1, <3>2, Kinds DEF MainFun, Import, IET_MAIN, IET_REL_I32
    <3>4. Len(recs[w].rest) = 0
      BY <3>3 DEF MainFun
    <3>5. HeadLen(recs[w]) \in Nat
      BY DEF HeadLen
    <3>6. cur' = Start(w + 1)
      BY <1>7, <3>1, <3>2, <3>4, <3>5
    <3> QED
      BY <1>3, <1>4, <1>7, <1>8, <3>1, <3>2, <3>3, <3>6
  <2>6. CASE PassImport
    <3>1. /\ UNCHANGED <<recs, table, walked>> /\ pc = "pass1" /\ pc' = "import"
          /\ etype \in Imports /\ cur' = RecordOf(st_ptr)
      BY <2>6 DEF PassImport, PassUnchanged
    <3>2. etype # IET_END
      BY <3>1 DEF Imports, IET_END
    <3>5. cur' = cur
      BY <1>7, <3>1, <3>2, StepsBack
    <3>3. Import(recs[w]) /\ recs[w].name # 0 /\ w \in 1..N /\ cur = StartOf(recs, w)
      BY <1>2, <1>7, <3>1, <3>2, Kinds
    <3>4. Place(recs, w, cur', first', pc')
      BY <1>1, <3>1, <3>3, <3>5 DEF Place, N
    <3> QED
      BY <1>3, <1>5, <3>1, <3>4
  <2>7. CASE ImportNext
    <3>1. /\ UNCHANGED <<recs, table, walked>> /\ pc = "import" /\ pc' = "pass1"
          /\ etype # IET_END /\ table[st_ptr] # 0 /\ cur' = RecordOf(st_ptr)
      BY <2>7 DEF ImportNext, PassUnchanged
    <3>2. recs[w].name # 0 /\ cur = StartOf(recs, w)
      BY <1>2, <1>7, <3>1
    <3>4. cur' = cur
      BY <1>7, <3>1, StepsBack
    <3>3. Place(recs, w, cur', first', pc')
      BY <1>1, <3>1, <3>2, <3>4 DEF Place
    <3> QED
      BY <1>3, <1>5, <3>1, <3>3
  <2>8. CASE ImportRecord
    <3>1. /\ recs' = recs /\ table' = table /\ pc = "import" /\ pc' = "import" /\ etype # IET_END
          /\ table[st_ptr] # 0 => first
          /\ first' = (first /\ table[st_ptr] = 0)
          /\ walked' = Append(walked, cur) /\ cur' = PastName
      BY <2>8 DEF ImportRecord, PassUnchanged
    <3>2. w \in 1..N /\ Import(recs[w]) /\ (first => recs[w].name # 0)
      BY <1>6, <1>7, <3>1 DEF Place, N
    <3>3. Len(recs[w].rest) = 0
      BY <3>2 DEF Import
    <3>4. HeadLen(recs[w]) \in Nat
      BY DEF HeadLen
    <3>5. cur' = Start(w + 1) /\ ~first'
      <4>1. table[st_ptr] = recs[w].name
        BY <1>7, <3>1
      <4>2. ~first'
        BY <3>1, <3>2, <4>1, Zenon
      <4>3. cur' = Start(w + 1)
        BY <1>7, <3>1, <3>3, <3>4
      <4> QED
        BY <4>2, <4>3
    <3>6. w + 1 <= N => Import(recs[w + 1])
      <4>1. w \in DOMAIN recs
        BY <3>2 DEF TableInv, Whole, N
      <4> QED
        BY <1>1, <3>2, <4>1 DEF TableInv, Ordered, N
    <3>7. Place(recs, w + 1, cur', first', pc')
      BY <1>1, <1>2, <3>1, <3>2, <3>5, <3>6 DEF Place, N
    <3> QED
      BY <1>3, <1>4, <1>7, <3>1, <3>2, <3>7
  <2>9. CASE ImportEnd
    <3>1. /\ UNCHANGED <<recs, table, walked>> /\ pc = "import" /\ pc' = "pass1"
          /\ table[cur] = 0 /\ cur' = cur - 1
      BY <2>9 DEF ImportEnd, PassUnchanged, etype, IET_END
    <3>2. w = N + 1
      <4> SUFFICES ASSUME w # N + 1 PROVE FALSE
        OBVIOUS
      <4>1. w \in 1..N /\ cur = Start(w)
        BY <1>1, <1>2, <1>6, <3>1 DEF Place, N
      <4>2. table[cur] = recs[w].etype /\ recs[w].etype # IET_END
        BY <4>1, FieldsAt, Kinds
      <4> QED
        BY <3>1, <4>2 DEF IET_END
    <3>3. cur = StartOf(recs, w) /\ N >= 1 /\ Import(recs[N])
      BY <1>6, <3>1, <3>2 DEF Place, N
    <3>4. Place(recs, w, cur', first', pc')
      BY <3>1, <3>2, <3>3 DEF Place, N
    <3> QED
      BY <1>3, <1>5, <3>1, <3>4
  <2> QED
    BY <1>9, <2>1, <2>2, <2>3, <2>4, <2>5, <2>6, <2>7, <2>8, <2>9 DEF LoadPass1
<1>10. ASSUME UNCHANGED <<recs, table, cur, first, walked>>,
              pc' = pc \/ (pc \notin {"pass1", "import"} /\ pc' \notin {"pass1", "import"})
       PROVE  TableInv' /\ WalkInv'
  <2>1. Place(recs, w, cur', first', pc')
    BY <1>6, <1>10 DEF Place
  <2> QED
    BY <1>3, <1>5, <1>10, <2>1
<1>11. CASE ~LoadPass1
  <2> SUFFICES /\ UNCHANGED <<recs, table, cur, first, walked>>
               /\ pc' = pc \/ (pc \notin {"pass1", "import"} /\ pc' \notin {"pass1", "import"})
    BY <1>10
  <2>1. CASE KernelPatchInstruction \/ SetupTrampolines \/ TrampolineEarly \/ LoadKernelReturns \/ LoadKernel
    BY <2>1 DEF KernelPatchInstruction, SetupTrampolines, TrampolineEarly, LoadKernelReturns, LoadKernel,
                PatchUnchanged
  <2>2. CASE \E n \in Funs : Declare(n) \/ Bind(n)
    BY <2>2 DEF Declare, Bind, RunUnchanged
  <2>3. CASE \E n \in Funs \cup {Outside} : ReplaceSyscall(n)
    BY <2>3 DEF ReplaceSyscall, RunUnchanged
  <2>4. CASE UNCHANGED vars
    <3>1. UNCHANGED <<recs, table, cur, first, walked>> /\ pc' = pc
      BY <2>4 DEF vars
    <3> QED
      BY <3>1
  <2> QED
    BY <1>11, <2>1, <2>2, <2>3, <2>4 DEF Next
<1> QED
  BY <1>9, <1>11

\* The walk begins at the first record.
LEMMA InitWalk ==
  ASSUME Init
  PROVE  TableInv /\ WalkInv
<1>1. TableInv
  BY InitTable
<1>2. walked = <<>> /\ cur = 1 /\ pc = "pass1"
  BY DEF Init
<1>3. walked \in Seq(Nat) /\ Len(walked) = 0 /\ N \in Nat
  BY <1>1, <1>2, StartIs
<1>4. StartOf(recs, 1) = 1
  BY <1>1, StartIs, StartSame
<1>5. ASSUME 1 <= N, Import(recs[1]) PROVE recs[1].name # 0
  <2>1. 1 \in DOMAIN recs
    BY <1>1, <1>5 DEF TableInv, Whole, N
  <2> QED
    BY <1>1, <1>5, <2>1 DEF TableInv, Ordered
<1>6. Place(recs, 1, cur, first, pc)
  BY <1>2, <1>4, <1>5 DEF Place, N
<1> QED
  BY <1>1, <1>3, <1>6 DEF WalkInv, N

\* What has been found are the starts of the records.
LEMMA WalkedFollows ==
  ASSUME TableInv, WalkInv
  PROVE  WalkedOnce
<1>1. N \in Nat /\ DOMAIN recs = 1..N /\ N = Len(recs)
  BY StartIs DEF TableInv, Whole, N
<1>2. DOMAIN walked = 1..Len(walked) /\ Len(walked) \in Nat
  BY DEF WalkInv
<1>3. \A k \in 1..Len(walked) : k \in DOMAIN recs /\ walked[k] = Start(k)
  BY <1>1, <1>2, StartSame DEF WalkInv
<1>4. pc \notin {"pass1", "import"} => Len(walked) = Len(recs)
  <2>1. Place(recs, Len(walked) + 1, cur, first, pc)
    BY DEF WalkInv
  <2>2. pc \notin {"pass1", "import"} => Len(walked) + 1 = Len(recs) + 1
    BY <2>1 DEF Place
  <2>3. \A a, b \in Nat : a + 1 = b + 1 => a = b
    OBVIOUS
  <2>4. Len(walked) \in Nat /\ Len(recs) \in Nat
    BY <1>1, <1>2
  <2> QED
    BY <2>2, <2>3, <2>4, Zenon
<1> QED
  BY <1>2, <1>3, <1>4 DEF WalkedOnce

\* WalkedOnce: for any table that the compiler makes, load_pass1 and load_one_import find
\* the start of every record, in order, and stop after the last.
THEOREM WalkedOnceHolds == Spec => []WalkedOnce
<1>1. Init => TableInv /\ WalkInv
  BY InitWalk
<1>2. TableInv /\ WalkInv /\ [Next]_vars => (TableInv /\ WalkInv)'
  BY WalkStep
<1>3. TableInv /\ WalkInv => WalkedOnce
  BY WalkedFollows
<1> QED
  BY <1>1, <1>2, <1>3, PTL DEF Spec

-----------------------------------------------------------------------------
(* Relocation.                                                             *)

AbsOf(rs) == UNION {{Base + a : a \in ToSet(r.rest)} : r \in {r \in ToSet(rs) : r.etype = IET_ABS_ADDR}}
CliAddr(a) == \E f \in Funs : a = Base + Entry(f) + CliAt

\* Before the relocation, and after it, where there is still code.
Fresh(m, done) ==
  \A a \in DOMAIN m : m[a] = <<IF CliAddr(a) THEN "cli" ELSE "code", IF a \in done THEN 1 ELSE 0>>
Relocated(m, done) == \A a \in DOMAIN m : m[a][1] = "code" => m[a][2] = IF a \in done THEN 1 ELSE 0

MemInv ==
  /\ DOMAIN mem = Module \cup NewHeads
  /\ pc \in {"pass1", "import"} => Fresh(mem, IF Len(walked) >= 1 THEN AbsOf(recs) ELSE {})
  /\ pc \notin {"pass1", "import"} => Relocated(mem, AbsOf(recs))

\* Only the first record has absolute addresses; a CLI is not one.
LEMMA AbsAre ==
  ASSUME TableInv
  PROVE  /\ \A a \in AbsOf(recs) : N >= 1 /\ Absolute(recs[1]) /\ ~CliAddr(a)
         /\ N >= 1 /\ Absolute(recs[1]) => AbsOf(recs) = {Base + recs[1].rest[j] : j \in 1..Len(recs[1].rest)}
<1>1. recs \in Seq(Records) /\ N \in Nat /\ DOMAIN recs = 1..N
  BY StartIs DEF TableInv, Whole, N
<1>2. ASSUME NEW r \in ToSet(recs), r.etype = IET_ABS_ADDR PROVE N >= 1 /\ Absolute(recs[1]) /\ r = recs[1]
  <2>1. PICK k \in 1..N : r = recs[k]
    BY <1>1 DEF ToSet
  <2> QED
    BY <1>2, <2>1, Kinds
<1>3. N >= 1 /\ Absolute(recs[1]) =>
        /\ recs[1] \in ToSet(recs) /\ recs[1].etype = IET_ABS_ADDR
        /\ recs[1].rest \in Seq(AbsSites)
        /\ ToSet(recs[1].rest) = {recs[1].rest[j] : j \in 1..Len(recs[1].rest)}
  BY <1>1 DEF ToSet, Absolute
<1>4. N >= 1 /\ Absolute(recs[1]) => AbsOf(recs) = {Base + recs[1].rest[j] : j \in 1..Len(recs[1].rest)}
  <2> SUFFICES ASSUME N >= 1, Absolute(recs[1])
               PROVE  AbsOf(recs) = {Base + recs[1].rest[j] : j \in 1..Len(recs[1].rest)}
    OBVIOUS
  <2>1. {r \in ToSet(recs) : r.etype = IET_ABS_ADDR} = {recs[1]}
    BY <1>2, <1>3
  <2>2. AbsOf(recs) = {Base + a : a \in ToSet(recs[1].rest)}
    BY <2>1 DEF AbsOf
  <2> QED
    BY <1>3, <2>2
<1>5. ASSUME NEW a \in AbsOf(recs) PROVE N >= 1 /\ Absolute(recs[1]) /\ ~CliAddr(a)
  <2>1. N >= 1 /\ Absolute(recs[1])
    BY <1>2 DEF AbsOf
  <2>2. PICK j \in 1..Len(recs[1].rest) : a = Base + recs[1].rest[j]
    BY <1>4, <2>1
  <2>3. recs[1].rest[j] \in AbsSites
    BY <1>3, <2>1
  <2>4. ASSUME NEW f \in Funs, a = Base + Entry(f) + CliAt PROVE FALSE
    <3>1. Entry(f) + CliAt \notin AbsSites /\ CliAt \in JumpLen..FunLen - 1 /\ JumpLen \in 1..FunLen /\ FunLen \in Nat
      BY LoaderAssumption
    <3>2. f \in Nat \ {0} /\ recs[1].rest[j] \in Nat /\ Base \in Nat
      BY <2>3, Sites
    <3>3. Entry(f) \in Nat /\ CliAt \in Nat
      BY <3>1, <3>2, EntryNat
    <3>4. recs[1].rest[j] = Entry(f) + CliAt
      BY <2>2, <2>4, <3>2, <3>3
    <3> QED
      BY <2>3, <3>1, <3>4
  <2> QED
    BY <2>1, <2>4 DEF CliAddr
<1> QED
  BY <1>4, <1>5

\* load_pass1 reads exactly the absolute addresses from the record.
LEMMA AbsListed ==
  ASSUME TableInv, 1 \in 1..N, Absolute(recs[1]), cur = Start(1)
  PROVE  Listed(num) = AbsOf(recs)
<1> DEFINE rest == recs[1].rest
           l == Len(rest)
           p == Start(1) + HeadLen(recs[1])
<1>1. num = l /\ PastName = p
  BY ReadRecord DEF Absolute
<1>2. AbsOf(recs) = {Base + rest[j] : j \in 1..l}
  BY AbsAre, StartIs
<1>3. p \in Nat /\ l \in Nat
  <2>1. recs[1] \in Records /\ Start(1) \in Nat
    BY FieldsAt
  <2> QED
    BY <2>1 DEF HeadLen, Records
<1>4. \A j \in 1..l : table[p + j - 1] = rest[j]
  BY FieldsAt
<1> HIDE DEF p, l, rest
<1>5. \A j \in 0..l - 1 : j + 1 \in 1..l /\ p + (j + 1) - 1 = p + j
  BY <1>3
<1>6. \A j \in 1..l : j - 1 \in 0..l - 1 /\ p + (j - 1) = p + j - 1
  BY <1>3
<1>7. \A j \in 0..l - 1 : table[p + j] = rest[j + 1]
  BY <1>4, <1>5
<1>8. {Base + table[p + j] : j \in 0..l - 1} = {Base + rest[j] : j \in 1..l}
  BY <1>4, <1>5, <1>6, <1>7
<1> QED
  BY <1>1, <1>2, <1>8 DEF Listed

\* Later steps leave no relocated address relocated otherwise.
LEMMA RelocatedKept ==
  ASSUME MemInv, pc \notin {"pass1", "import"}, pc' \notin {"pass1", "import"}, recs' = recs,
         DOMAIN mem' = DOMAIN mem, \A a \in DOMAIN mem : mem'[a] = mem[a] \/ mem'[a][1] # "code"
  PROVE  MemInv'
BY DEF MemInv, Relocated

\* The relocation is made by the step that reads that record, and no other.
LEMMA MemStep ==
  ASSUME TableInv, WalkInv, MemInv, [Next]_vars
  PROVE  MemInv'
<1> DEFINE w == Len(walked) + 1
           A == AbsOf(recs)
<1>1. N \in Nat /\ walked \in Seq(Nat) /\ Len(walked) \in Nat
  BY StartIs DEF WalkInv, N
<1>2. \A a \in A : N >= 1 /\ Absolute(recs[1]) /\ ~CliAddr(a)
  BY AbsAre
<1> HIDE DEF A
\* A step of the walk that leaves the code alone.
<1>3. ASSUME recs' = recs, mem' = mem, pc \in {"pass1", "import"}, pc' \in {"pass1", "import"},
             walked' = walked \/ ((Len(walked) = 0 => A = {}) /\ Len(walked') = Len(walked) + 1)
      PROVE  MemInv'
  <2>1. (IF Len(walked') >= 1 THEN A ELSE {}) = (IF Len(walked) >= 1 THEN A ELSE {})
    <3>1. CASE walked' = walked
      BY <3>1
    <3>2. CASE walked' # walked
      <4>1. (Len(walked) = 0 => A = {}) /\ Len(walked') = Len(walked) + 1
        BY <1>3, <3>2
      <4>2. Len(walked') >= 1 /\ (Len(walked) >= 1 \/ Len(walked) = 0)
        BY <1>1, <4>1
      <4> QED
        BY <4>1, <4>2
    <3> QED
      BY <3>1, <3>2
  <2> QED
    BY <1>3, <2>1 DEF MemInv, A
<1>4. ASSUME pc \in {"pass1", "import"}, etype # IET_END
      PROVE  w \in 1..N /\ cur = Start(w) /\ etype = recs[w].etype
  <2>1. w \in 1..N /\ cur = Start(w)
    BY <1>4, AtRecord
  <2> HIDE DEF w
  <2> QED
    BY <2>1, ReadRecord
<1>5. ASSUME walked' = Append(walked, cur) PROVE Len(walked') = Len(walked) + 1
  BY <1>1, <1>5
<1>6. ASSUME pc \in {"pass1", "import"}, etype # IET_END, etype # IET_ABS_ADDR
      PROVE  Len(walked) = 0 => A = {}
  <2> SUFFICES ASSUME Len(walked) = 0, A # {} PROVE FALSE
    OBVIOUS
  <2>1. Absolute(recs[1]) /\ w = 1
    BY <1>2
  <2> HIDE DEF w
  <2>2. etype = recs[1].etype
    BY <1>4, <1>6, <2>1
  <2> QED
    BY <1>6, <2>1, <2>2 DEF Absolute
<1>7. CASE PassExport \/ PassHeap \/ PassMain
  <2>1. /\ recs' = recs /\ mem' = mem /\ pc = "pass1" /\ pc' = "pass1"
        /\ walked' = Append(walked, cur)
        /\ etype \in Exports \cup Heaps \cup {IET_MAIN}
    BY <1>7 DEF PassExport, PassHeap, PassMain, PassUnchanged, Handles
  <2>2. etype # IET_END /\ etype # IET_ABS_ADDR
    BY <2>1 DEF Exports, Heaps, IET_MAIN, IET_END, IET_ABS_ADDR
  <2> QED
    BY <1>3, <1>5, <1>6, <2>1, <2>2
<1>8. CASE ImportRecord
  <2>1. /\ recs' = recs /\ mem' = mem /\ pc = "import" /\ pc' = "import"
        /\ walked' = Append(walked, cur) /\ etype # IET_END
    BY <1>8 DEF ImportRecord, PassUnchanged
  <2>2. Import(recs[w]) /\ w \in 1..N
    BY <1>4, <2>1 DEF WalkInv, Place, N
  <2> HIDE DEF w
  <2>3. etype # IET_ABS_ADDR
    BY <1>4, <2>1, <2>2 DEF Import, IET_ABS_ADDR, IET_REL_I32
  <2> QED
    BY <1>3, <1>5, <1>6, <2>1, <2>3
<1>9. CASE PassImport \/ ImportNext \/ ImportEnd
  <2>1. /\ recs' = recs /\ mem' = mem /\ pc \in {"pass1", "import"} /\ pc' \in {"pass1", "import"}
        /\ walked' = walked
    BY <1>9 DEF PassImport, ImportNext, ImportEnd, PassUnchanged
  <2> QED
    BY <1>3, <2>1
<1>10. CASE PassEnd
  <2>1. /\ recs' = recs /\ mem' = mem /\ pc = "pass1" /\ pc' = "instr" /\ walked' = walked
    BY <1>10 DEF PassEnd, PassUnchanged
  <2>2. WalkInv'
    BY WalkStep
  <2>3. Len(walked) = N
    <3>1. Len(walked) + 1 = N + 1
      BY <2>1, <2>2 DEF WalkInv, Place, N
    <3> QED
      BY <1>1, <3>1
  <2>4. Fresh(mem, A)
    <3>1. Fresh(mem, IF Len(walked) >= 1 THEN A ELSE {})
      BY <2>1 DEF MemInv, A
    <3>2. Len(walked) >= 1 \/ A = {}
      BY <1>2, <2>3
    <3> QED
      BY <3>1, <3>2
  <2>5. Relocated(mem, A)
    BY <2>4 DEF Fresh, Relocated
  <2> QED
    BY <2>1, <2>5 DEF MemInv, A
<1>11. CASE PassAbs
  <2>1. /\ recs' = recs /\ pc = "pass1" /\ pc' = "pass1" /\ walked' = Append(walked, cur)
        /\ etype = IET_ABS_ADDR
        /\ mem' = [a \in DOMAIN mem |-> IF a \in Listed(num) THEN <<"code", mem[a][2] + 1>> ELSE mem[a]]
    BY <1>11 DEF PassAbs, PassUnchanged, Handles
  <2>2. w \in 1..N /\ cur = Start(w) /\ recs[w].etype = IET_ABS_ADDR
    BY <1>4, <2>1 DEF IET_ABS_ADDR, IET_END
  <2>3. Absolute(recs[w]) /\ w = 1
    <3> HIDE DEF w
    <3> QED
      BY <2>2, Kinds
  <2>4. Listed(num) = A
    BY <2>2, <2>3, AbsListed DEF A
  <2>5. Fresh(mem, {})
    BY <1>1, <2>1, <2>3 DEF MemInv
  <2>6. Len(walked') >= 1
    BY <1>1, <1>5, <2>1
  <2>7. Fresh(mem', A)
    <3>1. DOMAIN mem' = DOMAIN mem
      BY <2>1
    <3>2. ASSUME NEW a \in DOMAIN mem
          PROVE  mem'[a] = <<IF CliAddr(a) THEN "cli" ELSE "code", IF a \in A THEN 1 ELSE 0>>
      <4>1. mem[a] = <<IF CliAddr(a) THEN "cli" ELSE "code", 0>>
        BY <2>5 DEF Fresh
      <4>2. mem'[a] = IF a \in A THEN <<"code", mem[a][2] + 1>> ELSE mem[a]
        BY <2>1, <2>4
      <4>3. mem[a][2] + 1 = 1
        BY <4>1
      <4> QED
        BY <1>2, <4>1, <4>2, <4>3
    <3> QED
      BY <3>1, <3>2 DEF Fresh
  <2> QED
    BY <2>1, <2>6, <2>7 DEF MemInv, A
<1>12. CASE KernelPatchInstruction
  <2>1. /\ recs' = recs /\ pc = "instr" /\ pc' \in {"instr", "segv"}
        /\ \/ mem' = mem
           \/ mem' = [mem EXCEPT ![HashGet(Min(todo)) + CliAt] = IF @[1] = "cli" THEN <<"nop", 0>> ELSE @]
    BY <1>12 DEF KernelPatchInstruction, PatchUnchanged
  <2>2. DOMAIN mem' = DOMAIN mem /\ \A a \in DOMAIN mem : mem'[a] = mem[a] \/ mem'[a] = <<"nop", 0>>
    BY <2>1
  <2>3. \A a \in DOMAIN mem : mem'[a] = mem[a] \/ mem'[a][1] # "code"
    BY <2>2
  <2> QED
    BY <2>1, <2>2, <2>3, RelocatedKept
\* write_trampoline_jmp
<1>13. ASSUME NEW p, NEW d, WriteJump(p, d)
       PROVE  DOMAIN mem' = DOMAIN mem /\ \A a \in DOMAIN mem : mem'[a] = mem[a] \/ mem'[a][1] # "code"
  <2>1. DOMAIN mem' = DOMAIN mem /\ \A a \in DOMAIN mem : mem'[a] = mem[a] \/ mem'[a] = <<"jmp", d>>
    BY <1>13 DEF WriteJump
  <2> QED
    BY <2>1
<1>14. CASE TrampolineEarly
  <2>1. /\ recs' = recs /\ pc = "jump" /\ pc' \in {"jump", "exit"}
        /\ mem' = mem \/ WriteJump(HashGet(Min(todo)), LilithEntry(Min(todo)))
    BY <1>14 DEF TrampolineEarly, PatchUnchanged
  <2> QED
    BY <1>13, <2>1, RelocatedKept
<1>15. CASE SetupTrampolines \/ LoadKernelReturns
  <2>1. recs' = recs /\ pc \in {"instr", "jump"} /\ pc' \in {"jump", "kernel"} /\ mem' = mem
    BY <1>15 DEF SetupTrampolines, LoadKernelReturns, PatchUnchanged
  <2> QED
    BY <2>1, RelocatedKept
<1>16. CASE LoadKernel
  <2>1. recs' = recs /\ pc = "kernel" /\ pc' = "run"
    BY <1>16 DEF LoadKernel
  <2>2. DOMAIN mem' = DOMAIN mem
    BY <1>16 DEF LoadKernel
  <2>3. \A a \in DOMAIN mem : mem'[a] = mem[a] \/ \E x : mem'[a] = <<"call", x>>
    BY <1>16 DEF LoadKernel
  <2>4. \A a \in DOMAIN mem : mem'[a] = mem[a] \/ mem'[a][1] # "code"
    BY <2>3
  <2> QED
    BY <2>1, <2>2, <2>4, RelocatedKept
<1>17. CASE \E n \in Funs : Declare(n) \/ Bind(n)
  <2>1. recs' = recs /\ pc = "run" /\ pc' = "run" /\ mem' = mem
    BY <1>17 DEF Declare, Bind, RunUnchanged
  <2> QED
    BY <2>1, RelocatedKept
<1>18. CASE \E n \in Funs \cup {Outside} : ReplaceSyscall(n)
  <2>1. /\ recs' = recs /\ pc = "run" /\ pc' \in {"run", "exit"}
        /\ mem' = mem \/ \E p, d : WriteJump(p, d)
    BY <1>18 DEF ReplaceSyscall, RunUnchanged, Trampoline
  <2> QED
    BY <1>13, <2>1, RelocatedKept
<1>19. CASE UNCHANGED vars
  <2>1. recs' = recs /\ pc' = pc /\ mem' = mem /\ walked' = walked
    BY <1>19 DEF vars
  <2> QED
    BY <2>1 DEF MemInv, Relocated
<1> QED
  BY <1>7, <1>8, <1>9, <1>10, <1>11, <1>12, <1>14, <1>15, <1>16, <1>17, <1>18, <1>19 DEF Next, LoadPass1

\* Nothing is relocated yet.
LEMMA InitMem ==
  ASSUME Init
  PROVE  MemInv
<1>1. /\ walked = <<>> /\ pc = "pass1"
      /\ mem = [a \in Module \cup NewHeads |->
                  <<IF \E f \in Funs : a = Base + Entry(f) + CliAt THEN "cli" ELSE "code", 0>>]
  BY DEF Init
<1>2. Fresh(mem, {})
  BY <1>1 DEF Fresh, CliAddr
<1> QED
  BY <1>1, <1>2 DEF MemInv

\* RelocatedOnce: for any table that the compiler makes, an absolute address is relocated
\* once by the two walks over it, before any jump is written over it, and nothing else is.
THEOREM RelocatedOnceHolds == Spec => []RelocatedOnce
<1>1. Init => TableInv /\ WalkInv /\ MemInv
  BY InitWalk, InitMem
<1>2. TableInv /\ WalkInv /\ MemInv /\ [Next]_vars => (TableInv /\ WalkInv /\ MemInv)'
  BY WalkStep, MemStep
<1>3. MemInv => RelocatedOnce
  BY DEF MemInv, Relocated, RelocatedOnce, AbsAddresses, AbsOf
<1> QED
  BY <1>1, <1>2, <1>3, PTL DEF Spec

-----------------------------------------------------------------------------
(* Functions of the kernel and of Lilith2.HC, one after the other, have    *)
(* their code apart.                                                       *)

Slots == 1..NumFuns + MaxLate
Home(s) == Base + Entry(s)
Jump == 0..JumpLen - 1

\* What the constants are.
LEMMA Numbers ==
  /\ NumFuns \in Nat /\ MaxLate \in Nat /\ Base \in Nat /\ FunLen \in Nat /\ FunLen >= 1
  /\ JumpLen \in Nat /\ JumpLen >= 1 /\ JumpLen <= FunLen
  /\ CliAt \in Nat /\ JumpLen <= CliAt /\ CliAt < FunLen
  /\ Funs \subseteq Slots /\ \A s \in Slots : s \in Nat \ {0}
  /\ \A j \in Jump : j \in Nat /\ j < JumpLen /\ j < FunLen
BY LoaderAssumption DEF Funs, Slots, Jump

\* A function has an address,
LEMMA HomeNat == \A s \in Nat \ {0} : Home(s) \in Nat
BY EntryNat, Numbers DEF Home

\* a later one a higher address;
LEMMA HomeLess ==
  ASSUME NEW s \in Nat \ {0}, NEW t \in Nat \ {0}, s < t
  PROVE  Home(s) + FunLen <= Home(t) /\ Home(s) \in Nat /\ Home(t) \in Nat /\ Home(s) < Home(t)
<1>1. Entry(s) + FunLen <= Entry(t) /\ Entry(s) \in Nat /\ Entry(t) \in Nat
  BY Layout
<1>2. Home(s) + FunLen <= Home(t)
  BY <1>1, Numbers DEF Home
<1>3. Home(s) \in Nat /\ Home(t) \in Nat
  BY HomeNat
<1> QED
  BY <1>2, <1>3, Numbers

\* the starts of two functions, as far as a jump takes them, are apart,
LEMMA HomeApart ==
  ASSUME NEW s \in Slots, NEW t \in Slots, s # t, NEW j \in Jump, NEW k \in Jump
  PROVE  Home(s) + j # Home(t) + k
<1>1. s \in Nat \ {0} /\ t \in Nat \ {0} /\ j \in Nat /\ j < FunLen /\ k \in Nat /\ k < FunLen /\ FunLen \in Nat
  BY Numbers
<1>2. CASE s < t
  <2>1. Home(s) + FunLen <= Home(t) /\ Home(s) \in Nat /\ Home(t) \in Nat
    BY <1>1, <1>2, HomeLess
  <2> QED
    BY <1>1, <2>1
<1>3. CASE t < s
  <2>1. Home(t) + FunLen <= Home(s) /\ Home(s) \in Nat /\ Home(t) \in Nat
    BY <1>1, <1>3, HomeLess
  <2> QED
    BY <1>1, <2>1
<1> QED
  BY <1>1, <1>2, <1>3

\* in memory,
LEMMA HomeCells ==
  ASSUME NEW s \in Slots, NEW j \in Jump
  PROVE  Home(s) + j \in Module \cup NewHeads
<1>1. s \in Nat \ {0} /\ j \in Nat /\ j < FunLen /\ FunLen \in Nat /\ NumFuns \in Nat /\ Base \in Nat /\ MaxLate \in Nat
  BY Numbers
<1>2. CASE s <= NumFuns
  <2>1. s < NumFuns + 1 /\ NumFuns + 1 \in Nat \ {0}
    BY <1>1, <1>2
  <2>2. Home(s) + FunLen <= Home(NumFuns + 1) /\ Home(s) \in Nat /\ Home(NumFuns + 1) \in Nat
    BY <1>1, <2>1, HomeLess
  <2>3. Entry(s) \in Nat /\ Home(s) = Base + Entry(s)
    BY <1>1, EntryNat DEF Home
  <2>4. Home(s) + j \in Base..Home(NumFuns + 1) - 1
    BY <1>1, <2>2, <2>3
  <2>5. Base + Entry(NumFuns + 1) - 1 = Home(NumFuns + 1) - 1
    BY <1>1, <2>1, EntryNat DEF Home
  <2> QED
    BY <2>4, <2>5 DEF Module
<1>3. CASE ~(s <= NumFuns)
  <2>1. s - NumFuns \in 1..MaxLate /\ NumFuns + (s - NumFuns) = s
    BY <1>1, <1>3 DEF Slots
  <2>2. Home(s) = NewEntry(s - NumFuns)
    BY <2>1 DEF Home, NewEntry
  <2> QED
    BY <2>1, <2>2 DEF NewHeads, Jump
<1> QED
  BY <1>2, <1>3

\* apart from every CLI that is patched
LEMMA HomeCli ==
  ASSUME NEW s \in Slots, NEW j \in Jump, NEW f \in Funs
  PROVE  Home(s) + j # Home(f) + CliAt
<1>1. /\ s \in Nat \ {0} /\ f \in Nat \ {0} /\ j \in Nat /\ j < JumpLen /\ j < FunLen
      /\ FunLen \in Nat /\ JumpLen \in Nat /\ CliAt \in Nat /\ JumpLen <= CliAt /\ CliAt < FunLen
      /\ Home(s) \in Nat /\ Home(f) \in Nat
  BY Numbers, HomeNat
<1>2. CASE s < f
  <2>1. Home(s) + FunLen <= Home(f)
    BY <1>1, <1>2, HomeLess
  <2> QED
    BY <1>1, <2>1
<1>3. CASE f < s
  <2>1. Home(f) + FunLen <= Home(s)
    BY <1>1, <1>3, HomeLess
  <2> QED
    BY <1>1, <2>1
<1>4. CASE s = f
  BY <1>1, <1>4
<1> QED
  BY <1>1, <1>2, <1>3, <1>4

\* and from every address that LoadKernel binds.
LEMMA HomeImport ==
  ASSUME NEW s \in Slots, NEW j \in Jump, NEW x \in ImportSites
  PROVE  Home(s) + j # Base + x
<1>1. /\ s \in Nat \ {0} /\ j \in Nat /\ x \in Nat /\ Base \in Nat /\ NumFuns \in Nat
      /\ Entry(s) \in Nat /\ Home(s) = Base + Entry(s)
  BY Numbers, Sites, EntryNat DEF Home
<1>2. CASE s <= NumFuns
  <2>1. s \in Funs /\ x \notin Heads
    BY <1>1, <1>2, LoaderAssumption DEF Funs
  <2>2. Entry(s) + j # x
    BY <2>1 DEF Heads, Jump
  <2> QED
    BY <1>1, <2>2
<1>3. CASE ~(s <= NumFuns)
  <2>1. NumFuns + 1 \in Nat \ {0} /\ (s = NumFuns + 1 \/ NumFuns + 1 < s)
    BY <1>1, <1>3
  <2>2. Entry(NumFuns + 1) \in Nat /\ Entry(NumFuns + 1) <= Entry(s)
    <3>1. CASE s = NumFuns + 1
      BY <1>1, <3>1
    <3>2. CASE NumFuns + 1 < s
      <4>1. Entry(NumFuns + 1) + FunLen <= Entry(s) /\ Entry(NumFuns + 1) \in Nat
        BY <1>1, <2>1, <3>2, Layout
      <4> QED
        BY <1>1, <4>1, Numbers
    <3> QED
      BY <2>1, <3>1, <3>2
  <2>3. x \in 0..Entry(NumFuns + 1) - 1
    BY LoaderAssumption
  <2> QED
    BY <1>1, <2>2, <2>3
<1> QED
  BY <1>2, <1>3

\* The executable is above all that, and only it is above 4 GiB.
LEMMA LilithApart ==
  /\ \A n \in Nat : /\ LilithEntry(n) \notin Module \cup NewHeads /\ LilithEntry(n) \in Nat
                    /\ ~(LilithEntry(n) < LilithEntry(0))
  /\ \A n \in 1..MaxLate : NewEntry(n) = Home(NumFuns + n) /\ NewEntry(n) < LilithEntry(0)
  /\ HeapAddr \in Nat
<1> DEFINE top == NumFuns + (MaxLate + 1)
<1>1. /\ NumFuns \in Nat /\ MaxLate \in Nat /\ Base \in Nat /\ top \in Nat \ {0} /\ FunLen \in Nat
      /\ NumFuns + 1 \in Nat \ {0} /\ NumFuns + 1 <= top
  BY Numbers
<1>2. HeapAddr = Home(top) /\ Home(top) \in Nat
  BY <1>1, HomeNat DEF HeapAddr, NewEntry, Home
<1>3. \A n \in 1..MaxLate : NumFuns + n \in Nat \ {0} /\ NumFuns + n < top
  BY <1>1
<1> HIDE DEF top
<1>4. ASSUME NEW n \in 1..MaxLate
      PROVE  NewEntry(n) = Home(NumFuns + n) /\ NewEntry(n) + FunLen <= HeapAddr /\ NewEntry(n) \in Nat
  <2>1. NewEntry(n) = Home(NumFuns + n)
    BY DEF NewEntry, Home
  <2>2. Home(NumFuns + n) + FunLen <= Home(top) /\ Home(NumFuns + n) \in Nat
    BY <1>1, <1>3, HomeLess
  <2> QED
    BY <1>2, <2>1, <2>2
<1>5. \A a \in Module : a \in Nat /\ a < HeapAddr
  <2>1. Home(NumFuns + 1) <= Home(top) /\ Home(NumFuns + 1) \in Nat
    <3>1. CASE NumFuns + 1 = top
      BY <1>2, <3>1
    <3>2. CASE NumFuns + 1 < top
      BY <1>1, <1>2, <3>2, HomeLess
    <3> QED
      BY <1>1, <3>1, <3>2
  <2>2. Module = Base..Home(NumFuns + 1) - 1
    <3>1. Base + Entry(NumFuns + 1) - 1 = Home(NumFuns + 1) - 1
      BY <1>1, EntryNat DEF Home
    <3> QED
      BY <3>1 DEF Module
  <2> QED
    BY <1>1, <1>2, <2>1, <2>2
<1>6. \A a \in NewHeads : a \in Nat /\ a < HeapAddr
  <2> SUFFICES ASSUME NEW n \in 1..MaxLate, NEW k \in Jump
               PROVE  NewEntry(n) + k \in Nat /\ NewEntry(n) + k < HeapAddr
    BY DEF NewHeads, Jump
  <2>1. k \in Nat /\ k < FunLen
    BY Numbers
  <2> QED
    BY <1>1, <1>2, <1>4, <2>1
<1>7. \A n \in Nat : LilithEntry(n) = HeapAddr + 2 + n /\ LilithEntry(n) \in Nat /\ ~(LilithEntry(n) < HeapAddr)
  BY <1>2 DEF LilithEntry
<1>8. LilithEntry(0) = HeapAddr + 2
  BY <1>2 DEF LilithEntry
<1>9. \A n \in Nat : ~(LilithEntry(n) < LilithEntry(0))
  BY <1>2, <1>7, <1>8
<1>10. \A n \in 1..MaxLate : NewEntry(n) < LilithEntry(0)
  BY <1>1, <1>2, <1>4, <1>8
<1>11. \A n \in Nat : LilithEntry(n) \notin Module \cup NewHeads
  BY <1>5, <1>6, <1>7
<1> QED
  BY <1>2, <1>4, <1>7, <1>9, <1>10, <1>11

-----------------------------------------------------------------------------
(* Jumps.                                                                  *)

\* The code that a jump takes at the start of a function.
HeadSame(m, m2, s) == \A j \in Jump : m2[Home(s) + j] = m[Home(s) + j]
JumpAt(m, a) == a \in DOMAIN m /\ m[a][1] = "jmp" /\ \A k \in 1..JumpLen - 1 : m[a + k] = m[a]

\* All that was bound to a name f: the functions O, of which the last is h.  From the others
\* jumps go to later ones; the last is what is meant, or has a jump to it, out of here.
Jumps(O, h, m, mt) ==
  /\ O \subseteq Slots /\ h \in O
  /\ \A s \in O \ {h} : JumpAt(m, Home(s)) /\ \E t \in O : s < t /\ m[Home(s)][2] = Home(t)
  /\ \/ mt = Home(h) /\ ~JumpAt(m, Home(h))
     \/ JumpAt(m, Home(h)) /\ m[Home(h)][2] = mt /\ mt \notin DOMAIN m

\* Where the start of a function is left alone, so is its jump;
LEMMA JumpSame ==
  ASSUME NEW m, NEW m2, NEW s \in Slots, DOMAIN m2 = DOMAIN m, HeadSame(m, m2, s)
  PROVE  m2[Home(s)] = m[Home(s)] /\ (JumpAt(m2, Home(s)) <=> JumpAt(m, Home(s)))
<1>1. 0 \in Jump /\ \A k \in 1..JumpLen - 1 : k \in Jump
  BY Numbers DEF Jump
<1>2. m2[Home(s) + 0] = m[Home(s) + 0] /\ \A k \in 1..JumpLen - 1 : m2[Home(s) + k] = m[Home(s) + k]
  BY <1>1 DEF HeadSame
<1>3. Home(s) + 0 = Home(s)
  <2>1. Home(s) \in Nat
    BY Numbers, HomeNat
  <2> QED
    BY <2>1
<1> QED
  BY <1>2, <1>3 DEF JumpAt

\* and so is the chain of jumps, where all the starts are.
LEMMA JumpsKept ==
  ASSUME NEW O, NEW h, NEW m, NEW m2, NEW mt, Jumps(O, h, m, mt),
         DOMAIN m2 = DOMAIN m, \A s \in O : HeadSame(m, m2, s)
  PROVE  Jumps(O, h, m2, mt)
<1>1. \A s \in O : m2[Home(s)] = m[Home(s)] /\ (JumpAt(m2, Home(s)) <=> JumpAt(m, Home(s)))
  BY JumpSame DEF Jumps
<1> QED
  BY <1>1 DEF Jumps

\* write_trampoline_jmp at the start of a function changes no other.
LEMMA JumpWritten ==
  ASSUME NEW x \in Slots, NEW d, WriteJump(Home(x), d), DOMAIN mem = Module \cup NewHeads
  PROVE  /\ DOMAIN mem' = DOMAIN mem
         /\ JumpAt(mem', Home(x)) /\ mem'[Home(x)][2] = d
         /\ \A s \in Slots \ {x} : HeadSame(mem, mem', s)
<1>1. /\ DOMAIN mem' = DOMAIN mem
      /\ \A a \in DOMAIN mem :
           mem'[a] = IF a \in Home(x)..Home(x) + JumpLen - 1 THEN <<"jmp", d>> ELSE mem[a]
  BY DEF WriteJump
<1>2. Home(x) \in Nat /\ JumpLen \in Nat /\ JumpLen >= 1 /\ \A s \in Slots : Home(s) \in Nat
  BY Numbers, HomeNat
<1>3. \A a \in Home(x)..Home(x) + JumpLen - 1 : a - Home(x) \in Jump /\ Home(x) + (a - Home(x)) = a
  BY <1>2 DEF Jump
<1>4. \A j \in Jump : Home(x) + j \in DOMAIN mem /\ Home(x) + j \in Home(x)..Home(x) + JumpLen - 1
  BY <1>2, HomeCells DEF Jump
<1>5. \A j \in Jump : mem'[Home(x) + j] = <<"jmp", d>>
  BY <1>1, <1>4
<1>6. 0 \in Jump /\ Home(x) + 0 = Home(x) /\ \A k \in 1..JumpLen - 1 : k \in Jump
  BY <1>2 DEF Jump
<1>7. Home(x) \in DOMAIN mem /\ mem'[Home(x)] = <<"jmp", d>> /\ \A k \in 1..JumpLen - 1 : mem'[Home(x) + k] = <<"jmp", d>>
  BY <1>4, <1>5, <1>6
<1>8. JumpAt(mem', Home(x)) /\ mem'[Home(x)][2] = d
  BY <1>1, <1>7 DEF JumpAt
<1>9. ASSUME NEW s \in Slots \ {x}, NEW j \in Jump PROVE mem'[Home(s) + j] = mem[Home(s) + j]
  <2>1. Home(s) + j \in DOMAIN mem
    BY HomeCells
  <2>2. Home(s) + j \notin Home(x)..Home(x) + JumpLen - 1
    BY <1>3, HomeApart
  <2> QED
    BY <1>1, <2>1, <2>2
<1> QED
  BY <1>1, <1>8, <1>9 DEF HeadSame

\* Calls of whatever was bound to a name end in what is meant by it.
LEMMA JumpsReach ==
  ASSUME NEW l \in 0..MaxLate, NEW f \in Funs, NEW O, NEW h, NEW mt, Jumps(O, h, mem, mt),
         \A t \in O : t = f \/ t \in NumFuns + 1..NumFuns + l,
         NEW s \in O
  PROVE  Reached(Home(s)) = mt
<1> DEFINE n == MaxLate + 1
           V == {Home(t) : t \in O} \cup {mt}
           Fix(at) == at = [i \in 0..n |-> IF i = 0 THEN Home(s)
                            ELSE IF IsJump(at[i - 1]) THEN mem[at[i - 1]][2] ELSE at[i - 1]]
           step == [p \in (1..n) \X V |-> IF IsJump(p[2]) THEN mem[p[2]][2] ELSE p[2]]
<1>1. NumFuns \in Nat /\ MaxLate \in Nat /\ n \in Nat /\ l \in Nat /\ l <= MaxLate /\ f \in Nat /\ f <= NumFuns
  BY Numbers DEF Funs
<1>2. O \subseteq Nat
  BY Numbers DEF Jumps
<1>3. \A a : IsJump(a) <=> JumpAt(mem, a)
  BY DEF IsJump, JumpAt
\* A step goes on to a later function, or is at the end.
<1>4. ASSUME NEW t \in O
      PROVE  \/ IsJump(Home(t)) /\ mem[Home(t)][2] = mt
             \/ IsJump(Home(t)) /\ \E u \in O : t < u /\ mem[Home(t)][2] = Home(u)
             \/ ~IsJump(Home(t)) /\ mt = Home(t)
  BY <1>3 DEF Jumps
<1>5. ~IsJump(mt)
  BY <1>3 DEF Jumps, JumpAt
<1>6. \A v \in V : (IF IsJump(v) THEN mem[v][2] ELSE v) \in V
  BY <1>4, <1>5
<1>7. step \in [(1..n) \X V -> V]
  BY <1>6
<1>8. Home(s) \in V
  OBVIOUS
<1>9. \A i \in 1..n, v \in V : step[<<i, v>>] = IF IsJump(v) THEN mem[v][2] ELSE v
  OBVIOUS
<1> HIDE DEF V, step
<1>10. PICK g \in [0..n -> V] : Follows(g, n, Home(s), step)
  BY <1>1, <1>7, <1>8, Recursion, Zenon
<1>11. \A i \in 0..n : g[i] = IF i = 0 THEN Home(s)
                              ELSE IF IsJump(g[i - 1]) THEN mem[g[i - 1]][2] ELSE g[i - 1]
  <2> TAKE i \in 0..n
  <2>1. i # 0 => i \in 1..n /\ i - 1 \in 0..n
    BY <1>1
  <2> QED
    BY <1>9, <1>10, <2>1 DEF Follows
<1>12. Fix(g)
  BY <1>10, <1>11
<1> HIDE DEF n
<1>13. ASSUME NEW at, Fix(at) PROVE at[n] = mt
  <2> DEFINE Good(i) == at[i] = mt \/ \E t \in O : at[i] = Home(t) /\ (i >= 1 => t >= NumFuns + i)
             D == {i \in 0..n : ~Good(i)}
  <2>1. \A i \in 0..n : at[i] = IF i = 0 THEN Home(s)
                                ELSE IF IsJump(at[i - 1]) THEN mem[at[i - 1]][2] ELSE at[i - 1]
    BY <1>13
  <2>2. Good(0)
    BY <1>1, <2>1
  <2>3. ASSUME NEW i \in 1..n, Good(i - 1) PROVE Good(i)
    <3>0. i \in 0..n /\ i # 0 /\ i \in Nat /\ i >= 1
      BY <1>1
    <3>1. at[i] = IF IsJump(at[i - 1]) THEN mem[at[i - 1]][2] ELSE at[i - 1]
      BY <2>1, <3>0
    <3>2. CASE at[i - 1] = mt
      BY <1>5, <3>1, <3>2
    <3>3. CASE at[i - 1] # mt
      <4>1. PICK t \in O : at[i - 1] = Home(t) /\ (i - 1 >= 1 => t >= NumFuns + (i - 1))
        BY <2>3, <3>3
      <4>2. CASE at[i] = mt
        BY <4>2
      <4>3. CASE at[i] # mt
        <5>1. PICK u \in O : t < u /\ at[i] = Home(u)
          BY <1>4, <3>1, <3>3, <4>1, <4>3
        <5>2. t = f \/ t \in NumFuns + 1..NumFuns + l
          OBVIOUS
        <5>3. u = f \/ u \in NumFuns + 1..NumFuns + l
          OBVIOUS
        <5>4. t \in Nat /\ u \in Nat
          BY <1>2
        <5>5. u >= NumFuns + 1
          BY <1>1, <5>1, <5>2, <5>3, <5>4
        <5>6. u >= NumFuns + i
          BY <1>1, <3>0, <4>1, <5>1, <5>4, <5>5
        <5> QED
          BY <5>1, <5>6
      <4> QED
        BY <4>2, <4>3
    <3> QED
      BY <3>2, <3>3
  <2>4. D = {}
    <3> SUFFICES ASSUME D # {} PROVE FALSE
      OBVIOUS
    <3> HIDE DEF Good
    <3>1. D \in SUBSET Nat
      BY <1>1
    <3>2. PICK m \in D : \A i \in D : m <= i
      BY <3>1, LeastNat
    <3>3. m # 0 /\ m \in 0..n
      BY <2>2, <3>2
    <3>4. m \in 1..n /\ m - 1 \in 0..n /\ ~(m <= m - 1)
      BY <1>1, <3>3
    <3>5. Good(m - 1)
      BY <3>2, <3>4
    <3> QED
      BY <2>3, <3>2, <3>4, <3>5
  <2>5. Good(n)
    <3> HIDE DEF Good
    <3> QED
      BY <1>1, <2>4
  <2>6. ASSUME NEW t \in O PROVE ~(t >= NumFuns + n)
    <3>1. t = f \/ t \in NumFuns + 1..NumFuns + l
      OBVIOUS
    <3> QED
      BY <1>1, <3>1 DEF n
  <2>7. n >= 1
    BY <1>1 DEF n
  <2> QED
    BY <2>5, <2>6, <2>7
<1> DEFINE at == CHOOSE at : Fix(at)
<1>14. Reached(Home(s)) = at[n]
  BY DEF Reached, n
<1> HIDE DEF Fix
<1>15. Fix(at)
  BY <1>12
<1> HIDE DEF at
<1> QED
  BY <1>13, <1>14, <1>15

-----------------------------------------------------------------------------
(* Names and what is bound to them.                                        *)

Entries == [name : Nat, val : Nat]

\* Until something is replaced, a name is bound to the function of the kernel.
Bindings == {e \in Entries : e.name # Outside /\ (e.name \in Funs => e.val = Home(e.name))}

SymInv == symbols \in Seq(Bindings)

LateInv ==
  /\ late \in 0..MaxLate /\ todo \subseteq Funs /\ meant \in [Funs -> Nat]
  /\ thash \in Seq(Entries) /\ \A k \in DOMAIN thash : thash[k].name # Outside
  /\ \A c \in calls : c[1] \in Funs
  /\ pc \in {"pass1", "import"} => meant = [f \in Funs |-> Home(f)]
  /\ pc \notin {"run", "exit"} => late = 0 /\ thash = <<>> /\ calls = {}

\* The first entry of a name, or 0.
FirstOf(q, n) == SelectInSeq(q, LAMBDA e : e.name = n)
IsFirst(k, q, n) ==
  \/ k = 0 /\ \A j \in 1..Len(q) : q[j].name # n
  \/ k \in 1..Len(q) /\ q[k].name = n /\ \A j \in 1..k - 1 : q[j].name # n

\* SelectInSeq finds the first entry of a name.
LEMMA FirstIs ==
  ASSUME NEW S
  PROVE  \A q \in Seq(S) : \A n : IsFirst(FirstOf(q, n), q, n)
<1> SUFFICES ASSUME NEW q \in Seq(S), NEW n PROVE IsFirst(FirstOf(q, n), q, n)
  OBVIOUS
<1> DEFINE I == {j \in 1..Len(q) : q[j].name = n}
           k == FirstOf(q, n)
<1>1. Len(q) \in Nat
  OBVIOUS
<1>2. k = IF I # {} THEN Min(I) ELSE 0
  BY DEF SelectInSeq, FirstOf
<1>3. CASE I = {}
  BY <1>2, <1>3 DEF IsFirst
<1>4. CASE I # {}
  <2>1. I \in SUBSET Nat
    BY <1>1
  <2> DEFINE Least(x) == \A y \in I : x <= y
  <2>2. \E x \in I : Least(x)
    BY <1>4, <2>1, LeastNat
  <2>3. Min(I) = CHOOSE x \in I : Least(x)
    BY DEF Min
  <2>4. k \in I /\ Least(k)
    <3> HIDE DEF I, Least, k
    <3> QED
      BY <1>2, <1>4, <2>2, <2>3
  <2>5. k \in 1..Len(q) /\ q[k].name = n /\ \A y \in I : k <= y
    BY <2>4
  <2>6. ASSUME NEW j \in 1..k - 1 PROVE q[j].name # n
    <3> HIDE DEF k
    <3>1. j \in 1..Len(q) /\ ~(k <= j)
      BY <1>1, <2>5
    <3> QED
      BY <2>5, <3>1
  <2> QED
    BY <2>5, <2>6 DEF IsFirst
<1> QED
  BY <1>3, <1>4

\* Lilith finds a function of the kernel where the kernel has it.
LEMMA HashIs ==
  ASSUME SymInv, NEW f \in Funs
  PROVE  HashGet(f) = None \/ HashGet(f) = Home(f)
<1> DEFINE k == FirstOf(symbols, f)
<1>1. HashGet(f) = IF k = 0 THEN None ELSE symbols[k].val
  BY DEF HashGet, FirstOf
<1>2. symbols \in Seq(Bindings)
  BY DEF SymInv
<1>3. IsFirst(k, symbols, f)
  BY <1>2, FirstIs, Zenon
<1> HIDE DEF k
<1>4. k # 0 => symbols[k] \in Bindings /\ symbols[k].name = f
  BY <1>2, <1>3 DEF IsFirst
<1> QED
  BY <1>1, <1>4 DEF Bindings

\* hash_put of what belongs to a name.
LEMMA HashPutKeeps ==
  ASSUME SymInv, NEW n \in Nat, NEW v \in Nat, n # Outside, n \in Funs => v = Home(n), HashPut(n, v)
  PROVE  SymInv'
<1> DEFINE e == [name |-> n, val |-> v]
<1>1. e \in Bindings
  BY DEF Bindings, Entries
<1>2. symbols \in Seq(Bindings)
  BY DEF SymInv
<1>3. symbols' = IF symbols = <<>> THEN <<e>> ELSE <<Head(symbols), e>> \o Tail(symbols)
  BY DEF HashPut
<1> HIDE DEF e
<1>4. CASE symbols = <<>>
  BY <1>1, <1>3, <1>4 DEF SymInv
<1>5. CASE symbols # <<>>
  <2>1. Head(symbols) \in Bindings /\ Tail(symbols) \in Seq(Bindings)
    BY <1>2, <1>5
  <2>2. <<Head(symbols), e>> \in Seq(Bindings)
    BY <1>1, <2>1
  <2>3. <<Head(symbols), e>> \o Tail(symbols) \in Seq(Bindings)
    BY <2>1, <2>2
  <2> QED
    BY <1>3, <1>5, <2>3 DEF SymInv
<1> QED
  BY <1>4, <1>5

\* Only load_pass1 puts anything into Lilith's symbols.
LEMMA SymStep ==
  ASSUME TableInv, WalkInv, SymInv, [Next]_vars
  PROVE  SymInv'
<1> DEFINE w == Len(walked) + 1
<1>1. ASSUME pc \in {"pass1", "import"}, etype # IET_END
      PROVE  /\ w \in 1..N
             /\ etype = recs[w].etype /\ num = recs[w].i /\ table[st_ptr] = recs[w].name
  <2>1. w \in 1..N /\ cur = Start(w)
    BY <1>1, AtRecord
  <2> HIDE DEF w
  <2> QED
    BY <2>1, ReadRecord
<1> HIDE DEF w
<1>2. CASE PassExport
  <2>1. /\ pc = "pass1" /\ etype \in Exports
        /\ HashPut(table[st_ptr], IF etype \in ImmExports THEN num ELSE Base + num)
    BY <1>2 DEF PassExport, Handles
  <2>2. etype # IET_END
    BY <2>1 DEF Exports, IET_END
  <2>3. Export(recs[w]) /\ etype \notin ImmExports
    BY <1>1, <2>1, <2>2, Kinds
  <2>4. table[st_ptr] \in Funs /\ num = Entry(table[st_ptr])
    BY <1>1, <2>1, <2>2, <2>3 DEF Export
  <2> DEFINE n == table[st_ptr]
  <2>5. n \in Nat \ {0} /\ n # Outside /\ Base + num = Home(n) /\ Home(n) \in Nat
    BY <2>4, Sites, HomeNat, LoaderAssumption DEF Home
  <2>6. HashPut(n, Home(n))
    BY <2>1, <2>3, <2>5
  <2> HIDE DEF n
  <2> QED
    BY <2>5, <2>6, HashPutKeeps
<1>3. CASE PassHeap
  <2>1. /\ pc = "pass1" /\ etype \in Heaps
        /\ IF table[st_ptr] # 0 THEN HashPut(table[st_ptr], HeapAddr) ELSE UNCHANGED symbols
    BY <1>3 DEF PassHeap, Handles
  <2>2. etype # IET_END
    BY <2>1 DEF Heaps, IET_END
  <2>3. Variable(recs[w])
    BY <1>1, <2>1, <2>2, Kinds
  <2>4. table[st_ptr] \in {0, HeapName}
    BY <1>1, <2>1, <2>2, <2>3 DEF Variable
  <2>5. HeapName \in Nat /\ HeapName # Outside /\ HeapName \notin Funs /\ HeapAddr \in Nat
    BY LoaderAssumption, LilithApart
  <2>6. CASE symbols' = symbols
    BY <2>6 DEF SymInv
  <2>7. CASE HashPut(HeapName, HeapAddr)
    BY <2>5, <2>7, HashPutKeeps
  <2> QED
    BY <2>1, <2>4, <2>6, <2>7
<1>4. CASE ~PassExport /\ ~PassHeap
  <2> SUFFICES symbols' = symbols
    BY DEF SymInv
  <2>1. CASE PassEnd \/ PassAbs \/ PassMain \/ PassImport \/ ImportNext \/ ImportRecord \/ ImportEnd
    BY <2>1 DEF PassEnd, PassAbs, PassMain, PassImport, ImportNext, ImportRecord, ImportEnd
  <2>2. CASE KernelPatchInstruction \/ SetupTrampolines \/ TrampolineEarly \/ LoadKernelReturns \/ LoadKernel
    BY <2>2 DEF KernelPatchInstruction, SetupTrampolines, TrampolineEarly, LoadKernelReturns, LoadKernel,
                PatchUnchanged
  <2>3. CASE \E n \in Funs : Declare(n) \/ Bind(n)
    BY <2>3 DEF Declare, Bind, RunUnchanged
  <2>4. CASE \E n \in Funs \cup {Outside} : ReplaceSyscall(n)
    BY <2>4 DEF ReplaceSyscall, RunUnchanged
  <2>5. CASE UNCHANGED vars
    BY <2>5 DEF vars
  <2> QED
    BY <1>4, <2>1, <2>2, <2>3, <2>4, <2>5 DEF Next, LoadPass1
<1> QED
  BY <1>2, <1>3, <1>4

\* What LoadKernel adds to the hash table of TempleOS.
LEMMA AddedIs ==
  ASSUME TableInv
  PROVE  Added[N] \in Seq(Bindings)
<1> DEFINE new(k) == recs[k].etype \in Exports \cup Heaps /\ recs[k].name # 0
           entry(r) == [name |-> r.name,
                        val |-> IF r.etype \in Exports THEN Base + r.i ELSE HeapAddr + 1]
           Fix(t) == t = [k \in 0..N |->
                            IF k = 0 THEN <<>>
                            ELSE IF recs[k].etype \in Exports \cup Heaps /\ recs[k].name # 0
                                 THEN <<entry(recs[k])>> \o t[k - 1] ELSE t[k - 1]]
           step == [p \in (1..N) \X Seq(Bindings) |->
                      IF new(p[1]) THEN <<entry(recs[p[1]])>> \o p[2] ELSE p[2]]
<1>1. N \in Nat /\ <<>> \in Seq(Bindings)
  BY StartIs
<1>2. ASSUME NEW k \in 1..N, new(k) PROVE entry(recs[k]) \in Bindings
  <2>1. CASE recs[k].etype \in Exports
    <3>1. recs[k].name \in Funs /\ recs[k].i = Entry(recs[k].name)
      BY <2>1, Kinds DEF Export
    <3>2. recs[k].name \in Nat \ {0} /\ recs[k].name # Outside
      BY <3>1, Sites, LoaderAssumption
    <3>3. entry(recs[k]) = [name |-> recs[k].name, val |-> Home(recs[k].name)]
      BY <2>1, <3>1 DEF Home
    <3>4. Home(recs[k].name) \in Nat
      BY <3>2, HomeNat
    <3> QED
      BY <3>2, <3>3, <3>4 DEF Bindings, Entries
  <2>2. CASE recs[k].etype \notin Exports
    <3>1. Variable(recs[k])
      BY <1>2, <2>2, Kinds
    <3>2. recs[k].name = HeapName
      BY <1>2, <3>1 DEF Variable
    <3>3. entry(recs[k]) = [name |-> HeapName, val |-> HeapAddr + 1]
      BY <2>2, <3>2
    <3>4. HeapName \in Nat /\ HeapName # Outside /\ HeapName \notin Funs /\ HeapAddr + 1 \in Nat
      BY LoaderAssumption, LilithApart
    <3> QED
      BY <3>3, <3>4 DEF Bindings, Entries
  <2> QED
    BY <2>1, <2>2
<1> HIDE DEF entry
<1>3. ASSUME NEW k \in 1..N, NEW q \in Seq(Bindings)
      PROVE  (IF new(k) THEN <<entry(recs[k])>> \o q ELSE q) \in Seq(Bindings)
  <2>1. CASE new(k)
    <3>1. <<entry(recs[k])>> \in Seq(Bindings)
      BY <1>2, <2>1
    <3>2. <<entry(recs[k])>> \o q \in Seq(Bindings)
      BY <3>1
    <3> QED
      BY <2>1, <3>2
  <2> QED
    BY <2>1
<1>4. step \in [(1..N) \X Seq(Bindings) -> Seq(Bindings)]
  <2> HIDE DEF new
  <2>1. \A p \in (1..N) \X Seq(Bindings) : p[1] \in 1..N /\ p[2] \in Seq(Bindings)
    OBVIOUS
  <2>2. \A p \in (1..N) \X Seq(Bindings) :
          (IF new(p[1]) THEN <<entry(recs[p[1]])>> \o p[2] ELSE p[2]) \in Seq(Bindings)
    BY <1>3, <2>1
  <2> QED
    BY <2>2
<1>5. \A k \in 1..N, q \in Seq(Bindings) :
        step[<<k, q>>] = IF new(k) THEN <<entry(recs[k])>> \o q ELSE q
  <2> HIDE DEF new
  <2> QED
    OBVIOUS
<1> HIDE DEF step
<1>6. PICK f \in [0..N -> Seq(Bindings)] : Follows(f, N, <<>>, step)
  BY <1>1, <1>4, Recursion, Zenon
<1>7. \A i \in 0..N : f[i] = IF i = 0 THEN <<>> ELSE IF new(i) THEN <<entry(recs[i])>> \o f[i - 1] ELSE f[i - 1]
  <2> HIDE DEF new
  <2> TAKE i \in 0..N
  <2>1. i # 0 => i \in 1..N /\ i - 1 \in 0..N
    BY <1>1
  <2> QED
    BY <1>5, <1>6, <2>1 DEF Follows
<1>8. Fix(f)
  BY <1>6, <1>7
<1> DEFINE e == CHOOSE t : Fix(t)
<1>9. Added = e
  BY DEF Added, N, entry
<1> HIDE DEF Fix
<1>10. Fix(e)
  BY <1>8
<1> HIDE DEF e
<1>11. ASSUME NEW i \in 0..N
       PROVE  e[i] = IF i = 0 THEN <<>> ELSE IF new(i) THEN <<entry(recs[i])>> \o e[i - 1] ELSE e[i - 1]
  BY <1>10 DEF Fix
<1> DEFINE D == {i \in 0..N : e[i] \notin Seq(Bindings)}
<1>12. D = {}
  <2> SUFFICES ASSUME D # {} PROVE FALSE
    OBVIOUS
  <2>1. D \in SUBSET Nat
    BY <1>1
  <2>2. PICK m \in D : \A k \in D : m <= k
    BY <2>1, LeastNat
  <2>3. m # 0
    BY <1>1, <1>11, <2>2
  <2>4. m \in 1..N /\ m - 1 \in 0..N /\ ~(m <= m - 1)
    BY <1>1, <2>2, <2>3
  <2>5. e[m - 1] \in Seq(Bindings)
    BY <2>2, <2>4
  <2>6. e[m] = IF new(m) THEN <<entry(recs[m])>> \o e[m - 1] ELSE e[m - 1]
    BY <1>11, <2>2, <2>3
  <2> HIDE DEF new
  <2>7. (IF new(m) THEN <<entry(recs[m])>> \o e[m - 1] ELSE e[m - 1]) \in Seq(Bindings)
    BY <1>3, <2>4, <2>5
  <2> QED
    BY <2>2, <2>6, <2>7
<1> QED
  BY <1>1, <1>9, <1>12

\* TempleOS's HashFind.
LEMMA FoundIs ==
  ASSUME LateInv, NEW n
  PROVE  /\ IsFirst(Found(n), thash, n)
         /\ Found(n) # 0 => /\ n # Outside
                            /\ Found(n) \in 1..Len(thash)
                            /\ thash[Found(n)] \in Entries /\ thash[Found(n)].name = n
<1>1. Found(n) = FirstOf(thash, n)
  BY DEF Found, FirstOf
<1>2. thash \in Seq(Entries) /\ DOMAIN thash = 1..Len(thash)
  BY DEF LateInv
<1>3. IsFirst(Found(n), thash, n)
  BY <1>1, <1>2, FirstIs, Zenon
<1> QED
  BY <1>2, <1>3 DEF IsFirst, LateInv

\* LoadKernel: what is bound, is bound to functions of the kernel.
LEMMA KernelCalls ==
  ASSUME TableInv, LoadKernel
  PROVE  /\ thash' \in Seq(Bindings)
         /\ \A c \in calls' : c[1] \in Funs /\ c[2] = Home(c[1])
         /\ DOMAIN mem' = DOMAIN mem
         /\ \A a \in DOMAIN mem : (\A x \in ImportSites : a # Base + x) => mem'[a] = mem[a]
<1> DEFINE bound == {k \in DOMAIN recs : /\ recs[k].etype \in Imports
                                         /\ NameOf(k) \in {r.name : r \in Exported}}
           callOf(k) == <<NameOf(k), Base + Entry(NameOf(k))>>
<1>1. recs \in Seq(Records) /\ N \in Nat /\ DOMAIN recs = 1..N
  BY StartIs DEF TableInv, Whole, N
<1>2. \A r \in Exported : r.name \in Funs /\ Base + r.i = Home(r.name)
  <2> TAKE r \in Exported
  <2>1. PICK k \in 1..N : r = recs[k]
    BY <1>1 DEF Exported, ToSet
  <2>2. r.etype \in Exports
    BY DEF Exported
  <2> QED
    BY <2>1, <2>2, Kinds DEF Export, Home
<1>3. thash' \in Seq(Bindings)
  BY AddedIs DEF LoadKernel, N
<1>4. calls' = {callOf(k) : k \in bound} \cup {<<r.name, Base + r.i>> : r \in Exported}
  BY DEF LoadKernel
<1>5. \A k \in bound : callOf(k)[1] \in Funs /\ callOf(k)[2] = Home(callOf(k)[1])
  BY <1>2 DEF Home
<1>6. mem' = [a \in DOMAIN mem |->
               IF \E k \in bound : a = Base + recs[k].i
               THEN <<"call", callOf(CHOOSE k \in bound : a = Base + recs[k].i)[2]>> ELSE mem[a]]
  BY DEF LoadKernel
<1>7. \A k \in bound : recs[k].i \in ImportSites
  BY <1>1, Kinds DEF Import
<1> HIDE DEF bound, callOf
<1>8. \A c \in calls' : c[1] \in Funs /\ c[2] = Home(c[1])
  BY <1>2, <1>4, <1>5
<1> QED
  BY <1>3, <1>6, <1>7, <1>8

\* The function that is patched next is one of those to patch.
LEMMA LeastOf ==
  ASSUME NEW S \in SUBSET Funs, S # {}
  PROVE  Min(S) \in S
<1>1. S \in SUBSET Nat
  BY Sites
<1>2. PICK x \in S : \A y \in S : x <= y
  BY <1>1, LeastNat
<1> QED
  BY <1>2 DEF Min

\* One more entry, in front.
LEMMA InFront ==
  ASSUME NEW e \in Entries, NEW q \in Seq(Entries)
  PROVE  /\ <<e>> \o q \in Seq(Entries) /\ Len(<<e>> \o q) = 1 + Len(q)
         /\ (<<e>> \o q)[1] = e /\ \A k \in 1..Len(q) : (<<e>> \o q)[1 + k] = q[k]
<1>1. <<e>> \in Seq(Entries) /\ Len(<<e>>) = 1 /\ <<e>>[1] = e /\ 1 \in 1..1
  OBVIOUS
<1> DEFINE s == <<e>>
<1>2. IsConcat(Entries, s \o q, s, q)
  BY <1>1, ConcatAny, Zenon
<1>3. Len(s) = 1 /\ s[1] = e
  BY <1>1
<1> HIDE DEF s
<1>4. s \o q \in Seq(Entries) /\ Len(s \o q) = 1 + Len(q) /\ (s \o q)[1] = e /\ \A k \in 1..Len(q) : (s \o q)[1 + k] = q[k]
  BY <1>1, <1>2, <1>3 DEF IsConcat
<1> QED
  BY <1>4 DEF s

\* An entry that changes its value.
Rebind(q, k, v) == [q EXCEPT ![k].val = v]

LEMMA Rebound ==
  \A q \in Seq(Entries) : \A k \in 1..Len(q), v \in Nat :
    /\ Rebind(q, k, v) \in Seq(Entries) /\ Len(Rebind(q, k, v)) = Len(q)
    /\ DOMAIN Rebind(q, k, v) = DOMAIN q
    /\ \A j \in 1..Len(q) : Rebind(q, k, v)[j].name = q[j].name /\ (j # k => Rebind(q, k, v)[j] = q[j])
    /\ Rebind(q, k, v)[k].val = v
<1> TAKE q \in Seq(Entries)
<1> TAKE k \in 1..Len(q), v \in Nat
<1> DEFINE e == [q[k] EXCEPT !.val = v]
<1>1. q[k] \in Entries
  OBVIOUS
<1>2. e \in Entries /\ e.name = q[k].name /\ e.val = v
  BY <1>1 DEF Entries
<1>3. Rebind(q, k, v) = [q EXCEPT ![k] = e]
  BY DEF Rebind
<1> HIDE DEF e
<1> QED
  BY <1>2, <1>3

\* The kinds of the variables of TempleOS are kept.
LEMMA LateStep ==
  ASSUME TableInv, LateInv, [Next]_vars
  PROVE  LateInv'
<1>1. CASE \/ PassEnd \/ PassExport \/ PassAbs \/ PassHeap \/ PassMain \/ PassImport
           \/ ImportNext \/ ImportRecord \/ ImportEnd
  <2>1. /\ UNCHANGED <<thash, calls, todo, late, meant>>
        /\ pc \in {"pass1", "import"} /\ pc' \in {"pass1", "import", "instr"}
    BY <1>1 DEF PassEnd, PassExport, PassAbs, PassHeap, PassMain, PassImport,
                ImportNext, ImportRecord, ImportEnd, PassUnchanged, Handles
  <2> QED
    BY <2>1 DEF LateInv
<1>2. CASE KernelPatchInstruction \/ SetupTrampolines \/ LoadKernelReturns
  <2>1. /\ UNCHANGED <<thash, calls, late, meant>> /\ todo' \in {todo, todo \ {Min(todo)}, Early}
        /\ pc \in {"instr", "jump"} /\ pc' \in {"instr", "segv", "jump", "kernel"}
    BY <1>2 DEF KernelPatchInstruction, SetupTrampolines, LoadKernelReturns, PatchUnchanged
  <2> QED
    BY <2>1, LoaderAssumption DEF LateInv
<1>3. CASE TrampolineEarly
  <2>1. /\ UNCHANGED <<thash, calls, late>> /\ todo' \in {todo, todo \ {Min(todo)}}
        /\ pc = "jump" /\ pc' \in {"jump", "exit"} /\ todo # {}
        /\ meant' \in {meant, [meant EXCEPT ![Min(todo)] = LilithEntry(Min(todo))]}
    BY <1>3 DEF TrampolineEarly, PatchUnchanged
  <2>2. Min(todo) \in Funs
    BY <2>1, LeastOf DEF LateInv
  <2>3. LilithEntry(Min(todo)) \in Nat
    BY <2>2, Sites, LilithApart
  <2>4. meant' \in [Funs -> Nat]
    BY <2>1, <2>2, <2>3 DEF LateInv
  <2> QED
    BY <2>1, <2>4 DEF LateInv
<1>4. CASE LoadKernel
  <2>1. UNCHANGED <<late, todo, meant>> /\ pc = "kernel" /\ pc' = "run"
    BY <1>4 DEF LoadKernel
  <2>2. thash' \in Seq(Bindings) /\ \A c \in calls' : c[1] \in Funs
    BY <1>4, KernelCalls
  <2>3. thash' \in Seq(Entries) /\ \A k \in DOMAIN thash' : thash'[k].name # Outside
    <3>1. \A e \in Bindings : e \in Entries /\ e.name # Outside
      BY DEF Bindings
    <3> QED
      BY <2>2, <3>1
  <2> QED
    BY <2>1, <2>2, <2>3 DEF LateInv
<1>5. ASSUME NEW n \in Funs, Declare(n) PROVE LateInv'
  <2>1. /\ pc = "run" /\ pc' = "run" /\ late < MaxLate /\ late' = late + 1 /\ Found(n) # 0
        /\ thash' = <<thash[Found(n)]>> \o thash /\ UNCHANGED <<todo, calls, meant>>
    BY <1>5 DEF Declare, RunUnchanged
  <2>2. thash[Found(n)] \in Entries /\ thash[Found(n)].name = n /\ n # Outside
    BY <2>1, FoundIs
  <2>3. thash \in Seq(Entries) /\ \A k \in DOMAIN thash : thash[k].name # Outside
    BY DEF LateInv
  <2>4. /\ thash' \in Seq(Entries) /\ Len(thash') = 1 + Len(thash)
        /\ thash'[1] = thash[Found(n)] /\ \A k \in 1..Len(thash) : thash'[1 + k] = thash[k]
    BY <2>1, <2>2, <2>3, InFront
  <2>5. \A k \in DOMAIN thash' : thash'[k].name # Outside
    <3> TAKE k \in DOMAIN thash'
    <3>1. k = 1 \/ (k - 1 \in 1..Len(thash) /\ 1 + (k - 1) = k)
      BY <2>3, <2>4
    <3> QED
      BY <2>2, <2>3, <2>4, <3>1
  <2>6. late' \in 0..MaxLate
    BY <2>1, Numbers DEF LateInv
  <2> QED
    BY <2>1, <2>4, <2>5, <2>6 DEF LateInv
<1>6. ASSUME NEW n \in Funs, Bind(n) PROVE LateInv'
  <2>1. /\ pc = "run" /\ pc' = "run" /\ late < MaxLate /\ late' = late + 1
        /\ calls' = calls \cup {<<n, thash[Found(n)].val>>} /\ UNCHANGED <<todo, thash, meant>>
    BY <1>6 DEF Bind, RunUnchanged
  <2>2. late' \in 0..MaxLate
    BY <2>1, Numbers DEF LateInv
  <2>3. \A c \in calls' : c[1] \in Funs
    BY <2>1 DEF LateInv
  <2> QED
    BY <2>1, <2>2, <2>3 DEF LateInv
<1>7. ASSUME NEW n \in Funs \cup {Outside}, ReplaceSyscall(n) PROVE LateInv'
  <2>1. /\ pc = "run" /\ late < MaxLate /\ late' = late + 1 /\ UNCHANGED <<todo, calls>>
        /\ pc' \in {"run", "exit"}
    BY <1>7 DEF ReplaceSyscall, RunUnchanged
  <2>2. late' \in 1..MaxLate
    BY <2>1, Numbers DEF LateInv
  <2>3. CASE Found(n) = 0
    <3>1. thash' = thash /\ meant' = meant
      BY <1>7, <2>3 DEF ReplaceSyscall
    <3> QED
      BY <2>1, <2>2, <3>1 DEF LateInv
  <2>4. CASE Found(n) # 0
    <3>1. PICK dest \in {NewEntry(late'), LilithEntry(NumFuns + late')} :
            /\ thash' = thash \/ thash' = Rebind(thash, Found(n), dest)
            /\ meant' = [meant EXCEPT ![n] = dest]
      BY <1>7, <2>4 DEF ReplaceSyscall, Trampoline, Rebind
    <3>2. dest \in Nat
      <4>1. NumFuns + late' \in Nat \ {0}
        <5>1. NumFuns \in Nat /\ MaxLate \in Nat
          BY Numbers
        <5>2. \A l \in 1..MaxLate : NumFuns + l \in Nat \ {0}
          BY <5>1
        <5> QED
          BY <2>2, <5>2
      <4>2. NewEntry(late') \in Nat /\ LilithEntry(NumFuns + late') \in Nat
        BY <2>2, <4>1, LilithApart, HomeNat
      <4> QED
        BY <4>2
    <3>3. n \in Funs /\ Found(n) \in 1..Len(thash) /\ thash[Found(n)] \in Entries
      BY <2>4, FoundIs
    <3>4. meant' \in [Funs -> Nat]
      BY <3>1, <3>2, <3>3 DEF LateInv
    <3>5. thash' \in Seq(Entries) /\ \A k \in DOMAIN thash' : thash'[k].name # Outside
      <4>1. thash \in Seq(Entries) /\ DOMAIN thash = 1..Len(thash) /\ \A k \in DOMAIN thash : thash[k].name # Outside
        BY DEF LateInv
      <4>2. /\ Rebind(thash, Found(n), dest) \in Seq(Entries)
            /\ DOMAIN Rebind(thash, Found(n), dest) = DOMAIN thash
            /\ \A j \in 1..Len(thash) : Rebind(thash, Found(n), dest)[j].name = thash[j].name
        <5>1. thash \in Seq(Entries)
          BY <4>1
        <5>2. Found(n) \in 1..Len(thash)
          BY <3>3
        <5> DEFINE k == Found(n)
        <5> HIDE DEF k
        <5> QED
          BY <3>2, <5>1, <5>2, Rebound, Zenon DEF k
      <4> QED
        BY <3>1, <4>1, <4>2
    <3> QED
      BY <2>1, <2>2, <3>4, <3>5 DEF LateInv
  <2> QED
    BY <2>3, <2>4
<1>8. CASE UNCHANGED vars
  BY <1>8 DEF vars, LateInv
<1> QED
  BY <1>1, <1>2, <1>3, <1>4, <1>5, <1>6, <1>7, <1>8 DEF Next, LoadPass1

-----------------------------------------------------------------------------
(* Functions that replace each other.                                      *)

\* The functions that have been bound to f, when o[k] is the name that the function k of
\* Lilith2.HC was put in the place of, 0 for none.
Of(o, l, f) == {f} \cup {NumFuns + k : k \in {k \in 1..l : o[k] = f}}

\* Every entry and every call of f has one of the functions O; what is found first has h.
Bound(f, O, h, th, cs) ==
  /\ \A k \in DOMAIN th : th[k].name = f =>
       /\ \E t \in O : th[k].val = Home(t)
       /\ (\A j \in 1..k - 1 : th[j].name # f) => th[k].val = Home(h)
  /\ \A c \in cs : c[1] = f => \E t \in O : c[2] = Home(t)

Chain(o, h, l, m, mt, th, cs) ==
  \A f \in Funs : Jumps(Of(o, l, f), h[f], m, mt[f]) /\ Bound(f, Of(o, l, f), h[f], th, cs)

Owners == [1..MaxLate -> 0..NumFuns]

\* The functions of Lilith2.HC that are not there yet.
Unwritten(l, m) == \A s \in NumFuns + l + 1..NumFuns + MaxLate : ~JumpAt(m, Home(s))

ChainInv ==
  pc \notin {"pass1", "import"} =>
    /\ Unwritten(late, mem)
    /\ \E o \in Owners, h \in [Funs -> Slots] : Chain(o, h, late, mem, meant, thash, calls)

\* A function belongs to one name at most.
LEMMA OfSlots ==
  ASSUME NEW o \in Owners, NEW l \in 0..MaxLate, NEW f \in Funs
  PROVE  /\ Of(o, l, f) \subseteq Slots /\ f \in Of(o, l, f)
         /\ \A t \in Of(o, l, f) : t = f \/ t \in NumFuns + 1..NumFuns + l
         /\ \A g \in Funs \ {f} : Of(o, l, f) \cap Of(o, l, g) = {}
<1>1. NumFuns \in Nat /\ MaxLate \in Nat /\ l \in Nat /\ l <= MaxLate /\ Funs \subseteq Slots
  BY Numbers
<1>2. \A k \in 1..l : NumFuns + k \in NumFuns + 1..NumFuns + l /\ NumFuns + k \in Slots /\ NumFuns + k \notin Funs
  BY <1>1 DEF Slots, Funs
<1>3. \A j, k \in 1..l : NumFuns + j = NumFuns + k => j = k
  BY <1>1
<1>4. ASSUME NEW g \in Funs \ {f}, NEW t \in Of(o, l, f), t \in Of(o, l, g) PROVE FALSE
  BY <1>2, <1>3, <1>4 DEF Of
<1> QED
  BY <1>1, <1>2, <1>4 DEF Of

\* The function l + 1 of Lilith2.HC is put in the place of n, or of none: n has one more.
Given(o, l, n) == [o EXCEPT ![l + 1] = n]

LEMMA OfNext ==
  ASSUME NEW o \in Owners, NEW l \in 0..MaxLate, l < MaxLate, NEW n \in 0..NumFuns
  PROVE  /\ Given(o, l, n) \in Owners
         /\ \A f \in Funs : Of(Given(o, l, n), l + 1, f) =
                             IF f = n THEN Of(o, l, f) \cup {NumFuns + (l + 1)} ELSE Of(o, l, f)
<1> DEFINE o2 == Given(o, l, n)
<1>1. l \in Nat /\ l + 1 \in 1..MaxLate /\ 1..l + 1 = 1..l \cup {l + 1} /\ l + 1 \notin 1..l
  BY Numbers
<1>2. o2 \in Owners /\ o2[l + 1] = n /\ \A k \in 1..l : o2[k] = o[k]
  BY <1>1 DEF Owners, Given
<1> HIDE DEF o2
<1>3. ASSUME NEW f \in Funs
      PROVE  {k \in 1..l + 1 : o2[k] = f} =
               IF f = n THEN {k \in 1..l : o[k] = f} \cup {l + 1} ELSE {k \in 1..l : o[k] = f}
  BY <1>1, <1>2
<1>4. ASSUME NEW f \in Funs
      PROVE  Of(o2, l + 1, f) = IF f = n THEN Of(o, l, f) \cup {NumFuns + (l + 1)} ELSE Of(o, l, f)
  BY <1>3 DEF Of
<1> QED
  BY <1>2, <1>4 DEF o2

\* Writes elsewhere change nothing.
LEMMA ChainElsewhere ==
  ASSUME NEW m, NEW m2, DOMAIN m2 = DOMAIN m, \A s \in Slots : HeadSame(m, m2, s), NEW l \in 0..MaxLate
  PROVE  /\ Unwritten(l, m) => Unwritten(l, m2)
         /\ \A o \in Owners : \A h, mt, th, cs : Chain(o, h, l, m, mt, th, cs) => Chain(o, h, l, m2, mt, th, cs)
<1>1. \A s \in NumFuns + l + 1..NumFuns + MaxLate : s \in Slots
  BY Numbers DEF Slots
<1>2. Unwritten(l, m) => Unwritten(l, m2)
  BY <1>1, JumpSame DEF Unwritten
<1>3. ASSUME NEW o \in Owners, NEW h, NEW mt, NEW th, NEW cs, Chain(o, h, l, m, mt, th, cs)
      PROVE  Chain(o, h, l, m2, mt, th, cs)
  <2>1. ASSUME NEW f \in Funs PROVE Jumps(Of(o, l, f), h[f], m2, mt[f])
    <3>1. Jumps(Of(o, l, f), h[f], m, mt[f]) /\ Of(o, l, f) \subseteq Slots
      BY <1>3 DEF Chain, Jumps
    <3> QED
      BY <3>1, JumpsKept
  <2> QED
    BY <1>3, <2>1 DEF Chain
<1> QED
  BY <1>2, <1>3

\* One more entry of what is found, or one more call of it.
LEMMA BoundFront ==
  ASSUME NEW f, NEW O, NEW h, NEW th \in Seq(Entries), NEW cs, Bound(f, O, h, th, cs),
         NEW k \in 1..Len(th), \A j \in 1..k - 1 : th[j].name # th[k].name
  PROVE  Bound(f, O, h, <<th[k]>> \o th, cs)
<1> DEFINE th2 == <<th[k]>> \o th
<1>1. /\ th2 \in Seq(Entries) /\ Len(th2) = 1 + Len(th) /\ th2[1] = th[k]
      /\ \A j \in 1..Len(th) : th2[1 + j] = th[j]
  <2>1. th[k] \in Entries
    OBVIOUS
  <2> QED
    BY <2>1, InFront
<1>2. Len(th) \in Nat /\ DOMAIN th = 1..Len(th)
  OBVIOUS
<1> HIDE DEF th2
<1>3. DOMAIN th2 = 1..1 + Len(th)
  BY <1>1
<1>4. ASSUME NEW i \in DOMAIN th2, th2[i].name = f
      PROVE  /\ \E t \in O : th2[i].val = Home(t)
             /\ (\A j \in 1..i - 1 : th2[j].name # f) => th2[i].val = Home(h)
  <2>1. CASE i = 1
    BY <1>1, <1>2, <1>4, <2>1 DEF Bound
  <2>2. CASE i # 1
    <3>1. i - 1 \in 1..Len(th) /\ i = 1 + (i - 1)
      BY <1>2, <1>3, <2>2
    <3> DEFINE p == i - 1
    <3>2. th2[i] = th[p] /\ th[p].name = f /\ p \in DOMAIN th
      BY <1>1, <1>2, <1>4, <3>1
    <3>3. ASSUME \A j \in 1..i - 1 : th2[j].name # f PROVE \A j \in 1..p - 1 : th[j].name # f
      <4> TAKE j \in 1..p - 1
      <4>1. 1 + j \in 1..i - 1 /\ j \in 1..Len(th)
        BY <1>2, <3>1
      <4> QED
        BY <1>1, <3>3, <4>1
    <3> HIDE DEF p
    <3> QED
      BY <3>2, <3>3 DEF Bound
  <2> QED
    BY <2>1, <2>2
<1> QED
  BY <1>4 DEF Bound, th2

\* One more call of what is found.
LEMMA BoundCall ==
  ASSUME NEW f, NEW O, NEW h, NEW th \in Seq(Entries), NEW cs, Bound(f, O, h, th, cs),
         NEW k \in 1..Len(th)
  PROVE  Bound(f, O, h, th, cs \cup {<<th[k].name, th[k].val>>})
BY DEF Bound

\* What is found first of a name gets another value, or does not.
LEMMA BoundElse ==
  ASSUME NEW f, NEW O, NEW h, NEW th \in Seq(Entries), NEW cs, Bound(f, O, h, th, cs),
         NEW k \in 1..Len(th), NEW v \in Nat, th[k].name # f
  PROVE  Bound(f, O, h, Rebind(th, k, v), cs)
<1> DEFINE r == Rebind(th, k, v)
<1>1. DOMAIN r = 1..Len(th) /\ \A j \in 1..Len(th) : r[j].name = th[j].name /\ (j # k => r[j] = th[j])
  BY Rebound
<1>2. DOMAIN th = 1..Len(th) /\ Len(th) \in Nat
  OBVIOUS
<1>3. \A i \in 1..Len(th) : \A j \in 1..i - 1 : j \in 1..Len(th)
  BY <1>2
<1> HIDE DEF r
<1>4. Bound(f, O, h, r, cs)
  BY <1>1, <1>2, <1>3 DEF Bound
<1> QED
  BY <1>4 DEF r

\* The function s becomes the last of f: what is found first gets it.
LEMMA BoundNew ==
  ASSUME NEW f, NEW O, NEW h, NEW s, NEW th \in Seq(Entries), NEW cs, Bound(f, O, h, th, cs),
         NEW k \in 1..Len(th), th[k].name = f, \A j \in 1..k - 1 : th[j].name # f, Home(s) \in Nat
  PROVE  Bound(f, O \cup {s}, s, Rebind(th, k, Home(s)), cs)
<1> DEFINE r == Rebind(th, k, Home(s))
<1>1. /\ DOMAIN r = 1..Len(th) /\ r[k].val = Home(s)
      /\ \A j \in 1..Len(th) : r[j].name = th[j].name /\ (j # k => r[j] = th[j])
  BY Rebound
<1>2. DOMAIN th = 1..Len(th) /\ Len(th) \in Nat
  OBVIOUS
<1>3. \A i \in 1..Len(th) : i < k \/ i = k \/ k \in 1..i - 1
  BY <1>2
<1>4. \A i \in 1..Len(th) : i < k => i \in 1..k - 1
  BY <1>2
<1> HIDE DEF r
<1>5. ASSUME NEW i \in 1..Len(th), r[i].name = f
      PROVE  /\ \E t \in O \cup {s} : r[i].val = Home(t)
             /\ (\A j \in 1..i - 1 : r[j].name # f) => r[i].val = Home(s)
  <2>1. CASE i = k
    BY <1>1, <2>1
  <2>2. CASE i # k
    <3>1. k \in 1..i - 1 /\ r[k].name = f
      BY <1>1, <1>3, <1>4, <1>5, <2>2
    <3>2. th[i].name = f /\ r[i] = th[i]
      BY <1>1, <1>5, <2>2
    <3> QED
      BY <1>2, <3>1, <3>2 DEF Bound
  <2> QED
    BY <2>1, <2>2
<1>6. Bound(f, O \cup {s}, s, r, cs)
  BY <1>1, <1>5 DEF Bound
<1> QED
  BY <1>6 DEF r

\* The walk is over: nothing has been replaced.
LEMMA ChainBegin ==
  ASSUME LateInv, MemInv, PassEnd
  PROVE  ChainInv'
<1> DEFINE o == [k \in 1..MaxLate |-> 0]
           h == [f \in Funs |-> f]
<1>1. /\ pc = "pass1" /\ pc' = "instr"
      /\ mem' = mem /\ meant' = meant /\ thash' = thash /\ calls' = calls /\ late' = late
  BY DEF PassEnd, PassUnchanged
<1>2. late = 0 /\ thash = <<>> /\ calls = {} /\ meant = [f \in Funs |-> Home(f)]
  BY <1>1 DEF LateInv
<1>3. \A a \in DOMAIN mem : mem[a][1] # "jmp"
  <2>1. \E done : Fresh(mem, done)
    BY <1>1 DEF MemInv
  <2>2. \A a \in DOMAIN mem : \E x, y : mem[a] = <<x, y>> /\ x \in {"cli", "code"}
    BY <2>1 DEF Fresh
  <2> QED
    BY <2>2
<1>4. \A a : ~JumpAt(mem, a)
  BY <1>3 DEF JumpAt
<1>5. o \in Owners /\ h \in [Funs -> Slots] /\ \A f \in Funs : h[f] = f
  BY Numbers DEF Owners
<1>6. \A f \in Funs : Of(o, 0, f) = {f}
  BY DEF Of
<1> HIDE DEF o, h
<1>7. ASSUME NEW f \in Funs
      PROVE  Jumps(Of(o, 0, f), h[f], mem, meant[f]) /\ Bound(f, Of(o, 0, f), h[f], <<>>, {})
  <2>1. f \in Slots
    BY Numbers
  <2>2. Jumps({f}, f, mem, Home(f))
    BY <1>4, <2>1 DEF Jumps
  <2>3. Bound(f, {f}, f, <<>>, {})
    BY DEF Bound
  <2> QED
    BY <1>2, <1>5, <1>6, <2>2, <2>3
<1>8. Chain(o, h, 0, mem, meant, <<>>, {})
  BY <1>7 DEF Chain
<1>9. Unwritten(0, mem)
  BY <1>4 DEF Unwritten
<1> QED
  BY <1>1, <1>2, <1>5, <1>8, <1>9 DEF ChainInv

\* A jump from a function of the kernel to the executable.
LEMMA ChainEarly ==
  ASSUME LateInv, SymInv, MemInv, ChainInv, TrampolineEarly
  PROVE  ChainInv'
<1> DEFINE f == Min(todo)
<1>1. pc = "jump" /\ todo # {} /\ thash' = thash /\ calls' = calls /\ late' = late
  BY DEF TrampolineEarly, PatchUnchanged
<1>2. f \in Funs /\ late = 0
  BY <1>1, LeastOf DEF LateInv
<1>3. PICK o \in Owners, h \in [Funs -> Slots] : Chain(o, h, 0, mem, meant, thash, calls)
  BY <1>1, <1>2 DEF ChainInv
<1>4. Unwritten(0, mem) /\ DOMAIN mem = Module \cup NewHeads
  BY <1>1, <1>2 DEF ChainInv, MemInv
<1>5. CASE HashGet(f) = None
  <2>1. mem' = mem /\ meant' = meant
    BY <1>5 DEF TrampolineEarly
  <2> QED
    BY <1>1, <1>2, <1>3, <1>4, <2>1 DEF ChainInv
<1>6. CASE HashGet(f) # None
  <2> DEFINE d == LilithEntry(f)
  <2>1. WriteJump(Home(f), d) /\ meant' = [meant EXCEPT ![f] = d]
    <3>1. HashGet(f) = Home(f)
      BY <1>2, <1>6, HashIs
    <3> QED
      BY <1>6, <3>1 DEF TrampolineEarly
  <2>2. d \notin DOMAIN mem
    BY <1>2, <1>4, Sites, LilithApart
  <2>3. meant'[f] = d /\ \A g \in Funs \ {f} : meant'[g] = meant[g]
    BY <1>2, <2>1 DEF LateInv
  <2> HIDE DEF f, d
  <2>4. /\ f \in Slots /\ DOMAIN mem' = DOMAIN mem
        /\ JumpAt(mem', Home(f)) /\ mem'[Home(f)][2] = d
        /\ \A s \in Slots \ {f} : HeadSame(mem, mem', s)
    BY <1>2, <1>4, <2>1, Numbers, JumpWritten
  <2>5. \A g \in Funs : Of(o, 0, g) = {g}
    BY DEF Of
  <2>6. ASSUME NEW g \in Funs PROVE Jumps(Of(o, 0, g), h[g], mem', meant'[g])
    <3>1. Jumps({g}, h[g], mem, meant[g]) /\ g \in Slots
      BY <1>3, <2>5, Numbers DEF Chain
    <3>2. CASE g = f
      <4>1. h[g] = f
        BY <3>1, <3>2 DEF Jumps
      <4>2. Jumps({f}, f, mem', d)
        BY <2>2, <2>4 DEF Jumps
      <4> QED
        BY <2>3, <2>5, <3>2, <4>1, <4>2
    <3>3. CASE g # f
      <4>1. \A s \in {g} : HeadSame(mem, mem', s)
        BY <2>4, <3>1, <3>3
      <4>2. Jumps({g}, h[g], mem', meant[g])
        BY <2>4, <3>1, <4>1, JumpsKept
      <4> QED
        BY <2>3, <2>5, <3>3, <4>2
    <3> QED
      BY <3>2, <3>3
  <2>7. Chain(o, h, 0, mem', meant', thash', calls')
    BY <1>1, <1>3, <2>6 DEF Chain
  <2>8. Unwritten(0, mem')
    <3>1. \A s \in NumFuns + 0 + 1..NumFuns + MaxLate : s \in Slots \ {f}
      BY <1>2, Numbers DEF Slots, Funs
    <3> QED
      BY <1>4, <2>4, <3>1, JumpSame DEF Unwritten
  <2> QED
    BY <1>1, <1>2, <2>7, <2>8 DEF ChainInv
<1> QED
  BY <1>5, <1>6

\* LoadKernel binds names to the functions of the kernel.
LEMMA ChainKernel ==
  ASSUME TableInv, LateInv, MemInv, ChainInv, LoadKernel
  PROVE  ChainInv'
<1>1. pc = "kernel" /\ late' = late /\ meant' = meant /\ late = 0
  BY DEF LoadKernel, LateInv
<1>2. PICK o \in Owners, h \in [Funs -> Slots] : Chain(o, h, 0, mem, meant, thash, calls)
  BY <1>1 DEF ChainInv
<1>3. Unwritten(0, mem)
  BY <1>1 DEF ChainInv
<1>4. /\ thash' \in Seq(Bindings)
      /\ \A c \in calls' : c[1] \in Funs /\ c[2] = Home(c[1])
      /\ DOMAIN mem' = DOMAIN mem
      /\ \A a \in DOMAIN mem : (\A x \in ImportSites : a # Base + x) => mem'[a] = mem[a]
  BY KernelCalls
<1>5. \A s \in Slots : HeadSame(mem, mem', s)
  <2>1. ASSUME NEW s \in Slots, NEW j \in Jump PROVE mem'[Home(s) + j] = mem[Home(s) + j]
    <3>1. Home(s) + j \in DOMAIN mem
      BY HomeCells DEF MemInv
    <3>2. \A x \in ImportSites : Home(s) + j # Base + x
      BY HomeImport
    <3> QED
      BY <1>4, <3>1, <3>2
  <2> QED
    BY <2>1 DEF HeadSame
<1>6. Unwritten(0, mem') /\ Chain(o, h, 0, mem', meant, thash, calls)
  <2>1. 0 \in 0..MaxLate
    BY Numbers
  <2> QED
    BY <1>2, <1>3, <1>4, <1>5, <2>1, ChainElsewhere, Zenon
<1>7. ASSUME NEW f \in Funs PROVE Bound(f, Of(o, 0, f), h[f], thash', calls')
  <2>1. Of(o, 0, f) = {f}
    BY DEF Of
  <2>2. h[f] = f
    BY <1>2, <2>1 DEF Chain, Jumps
  <2>3. \A k \in DOMAIN thash' : thash'[k].name = f => thash'[k].val = Home(f)
    BY <1>4 DEF Bindings
  <2> QED
    BY <1>4, <2>1, <2>2, <2>3 DEF Bound
<1>8. Chain(o, h, 0, mem', meant, thash', calls')
  BY <1>6, <1>7 DEF Chain
<1> QED
  BY <1>1, <1>2, <1>6, <1>8 DEF ChainInv

\* A declaration, a call, or a replacement that is not made: no function is new.
LEMMA ChainLate ==
  ASSUME LateInv, ChainInv, pc \notin {"pass1", "import"}, late < MaxLate, late' = late + 1,
         mem' = mem, meant' = meant,
         \A f \in Funs : \A O, h : Bound(f, O, h, thash, calls) => Bound(f, O, h, thash', calls')
  PROVE  ChainInv'
<1>1. late \in 0..MaxLate
  BY DEF LateInv
<1>2. PICK o \in Owners, h \in [Funs -> Slots] : Chain(o, h, late, mem, meant, thash, calls)
  BY DEF ChainInv
<1> DEFINE o2 == Given(o, late, 0)
<1>3. 0 \in 0..NumFuns /\ 0 \notin Funs
  BY Numbers DEF Funs
<1>4. o2 \in Owners /\ \A f \in Funs : Of(o2, late + 1, f) = Of(o, late, f)
  <2>1. /\ o2 \in Owners
        /\ \A f \in Funs : Of(o2, late + 1, f) = IF f = 0 THEN Of(o, late, f) \cup {NumFuns + (late + 1)} ELSE Of(o, late, f)
    BY <1>1, <1>3, OfNext, Zenon
  <2> HIDE DEF o2
  <2> QED
    BY <1>3, <2>1
<1> HIDE DEF o2
<1>5. Chain(o2, h, late + 1, mem, meant, thash', calls')
  BY <1>2, <1>4 DEF Chain
<1>6. Unwritten(late + 1, mem)
  <2>1. \A s \in NumFuns + (late + 1) + 1..NumFuns + MaxLate : s \in NumFuns + late + 1..NumFuns + MaxLate
    BY <1>1, Numbers
  <2> QED
    BY <2>1 DEF ChainInv, Unwritten
<1> QED
  BY <1>4, <1>5, <1>6 DEF ChainInv

\* The other functions, when the function x of n is written over.
LEMMA ChainOthers ==
  ASSUME NEW o \in Owners, NEW l \in 0..MaxLate, NEW n \in Funs, NEW x \in Of(o, l, n),
         NEW h, NEW m, NEW m2, NEW mt, NEW th, NEW cs, Chain(o, h, l, m, mt, th, cs),
         DOMAIN m2 = DOMAIN m, \A s \in Slots \ {x} : HeadSame(m, m2, s)
  PROVE  /\ \A g \in Funs \ {n} : Jumps(Of(o, l, g), h[g], m2, mt[g])
         /\ Unwritten(l, m) => Unwritten(l, m2)
<1>1. ASSUME NEW g \in Funs \ {n} PROVE Jumps(Of(o, l, g), h[g], m2, mt[g])
  <2>1. Jumps(Of(o, l, g), h[g], m, mt[g])
    BY DEF Chain
  <2>2. \A s \in Of(o, l, g) : s \in Slots \ {x}
    BY OfSlots
  <2>3. \A s \in Of(o, l, g) : HeadSame(m, m2, s)
    BY <2>2
  <2> QED
    BY <2>1, <2>3, JumpsKept
<1>2. \A s \in NumFuns + l + 1..NumFuns + MaxLate : s \in Slots \ {x}
  <2>1. x = n \/ x \in NumFuns + 1..NumFuns + l
    BY OfSlots
  <2> QED
    BY <2>1, Numbers DEF Slots, Funs
<1>3. Unwritten(l, m) => Unwritten(l, m2)
  BY <1>2, JumpSame DEF Unwritten
<1> QED
  BY <1>1, <1>3

\* LilithReplaceSyscall: the last function of n gets a jump to the new one.
LEMMA ChainReplace ==
  ASSUME LateInv, MemInv, ChainInv, NEW n \in Funs \cup {Outside}, ReplaceSyscall(n)
  PROVE  ChainInv'
<1>1. pc = "run" /\ late < MaxLate /\ late' = late + 1 /\ calls' = calls /\ late \in 0..MaxLate
  BY DEF ReplaceSyscall, LateInv
<1>2. CASE Found(n) = 0
  <2>1. mem' = mem /\ meant' = meant /\ thash' = thash
    BY <1>2 DEF ReplaceSyscall
  <2> QED
    BY <1>1, <2>1, ChainLate
<1>3. CASE Found(n) # 0
  <2> DEFINE k == Found(n)
  <2>1. /\ n \in Funs /\ k \in 1..Len(thash) /\ thash[k].name = n
        /\ \A j \in 1..k - 1 : thash[j].name # n
    BY <1>3, FoundIs DEF IsFirst
  <2>2. thash \in Seq(Entries)
    BY DEF LateInv
  <2>3. PICK o \in Owners, h \in [Funs -> Slots] : Chain(o, h, late, mem, meant, thash, calls)
    BY <1>1 DEF ChainInv
  <2>4. Unwritten(late, mem) /\ DOMAIN mem = Module \cup NewHeads
    BY <1>1 DEF ChainInv, MemInv
  <2> DEFINE O == Of(o, late, n)
             x == h[n]
             s == NumFuns + (late + 1)
  <2>5. /\ Jumps(O, x, mem, meant[n]) /\ x \in O /\ O \subseteq Slots
        /\ \A f \in Funs : Bound(f, Of(o, late, f), h[f], thash, calls)
    BY <2>1, <2>3 DEF Chain, Jumps
  <2>6. thash[k].val = Home(x)
    <3>1. k \in DOMAIN thash
      BY <2>1, <2>2
    <3> QED
      BY <2>1, <2>5, <3>1 DEF Bound
  <2>7. /\ s \in Slots /\ s \in NumFuns + late + 1..NumFuns + MaxLate
        /\ NewEntry(late + 1) = Home(s) /\ Home(s) \in Nat /\ Home(s) < LilithEntry(0)
        /\ \A t \in O : t \in Nat /\ t < s
    <3>1. NumFuns \in Nat /\ MaxLate \in Nat /\ late + 1 \in 1..MaxLate
      BY <1>1, Numbers
    <3>2. s \in Slots /\ s \in NumFuns + late + 1..NumFuns + MaxLate
      BY <1>1, <3>1 DEF Slots
    <3>3. \A t \in O : t = n \/ t \in NumFuns + 1..NumFuns + late
      BY <1>1, <2>1, OfSlots
    <3>4. \A t \in O : t \in Nat /\ t < s
      BY <1>1, <2>1, <3>1, <3>3 DEF Funs
    <3>5. NewEntry(late + 1) = Home(s) /\ NewEntry(late + 1) < LilithEntry(0)
      BY <3>1, LilithApart
    <3>6. Home(s) \in Nat
      BY <3>2, Numbers, HomeNat
    <3> QED
      BY <3>2, <3>4, <3>5, <3>6
  <2> HIDE DEF k, O, x, s
  <2>8. PICK dest \in {NewEntry(late + 1), LilithEntry(NumFuns + (late + 1))} :
          /\ WriteJump(Home(x), dest)
          /\ thash' = IF dest < LilithEntry(0) THEN Rebind(thash, k, dest) ELSE thash
          /\ meant' = [meant EXCEPT ![n] = dest]
    BY <1>1, <1>3, <2>6 DEF ReplaceSyscall, Trampoline, Rebind, k
  <2>9. meant'[n] = dest /\ \A g \in Funs \ {n} : meant'[g] = meant[g]
    BY <2>1, <2>8 DEF LateInv
  <2>10. /\ x \in Slots /\ DOMAIN mem' = DOMAIN mem
         /\ JumpAt(mem', Home(x)) /\ mem'[Home(x)][2] = dest
         /\ \A t \in Slots \ {x} : HeadSame(mem, mem', t)
    BY <2>4, <2>5, <2>8, JumpWritten
  <2>11. /\ \A g \in Funs \ {n} : Jumps(Of(o, late, g), h[g], mem', meant'[g])
         /\ Unwritten(late, mem')
    <3>1. x \in Of(o, late, n)
      BY <2>5 DEF O
    <3>2. /\ \A g \in Funs \ {n} : Jumps(Of(o, late, g), h[g], mem', meant[g])
          /\ Unwritten(late, mem) => Unwritten(late, mem')
      BY <1>1, <2>1, <2>3, <2>10, <3>1, ChainOthers
    <3> QED
      BY <2>4, <2>9, <3>2
  <2>12. Unwritten(late + 1, mem')
    <3>1. \A t \in NumFuns + (late + 1) + 1..NumFuns + MaxLate : t \in NumFuns + late + 1..NumFuns + MaxLate
      BY <1>1, Numbers
    <3> QED
      BY <2>11, <3>1 DEF Unwritten
  \* The other functions of n.
  <2>13. \A t \in O \ {x} : /\ JumpAt(mem', Home(t)) /\ mem'[Home(t)] = mem[Home(t)]
                            /\ \E u \in O : t < u /\ mem'[Home(t)][2] = Home(u)
    <3> TAKE t \in O \ {x}
    <3>1. JumpAt(mem, Home(t)) /\ \E u \in O : t < u /\ mem[Home(t)][2] = Home(u)
      BY <2>5 DEF Jumps
    <3>2. mem'[Home(t)] = mem[Home(t)] /\ JumpAt(mem', Home(t))
      BY <2>5, <2>10, <3>1, JumpSame
    <3> QED
      BY <3>1, <3>2
  \* In TempleOS's memory: the new function comes last.
  <2>14. CASE dest = NewEntry(late + 1)
    <3>1. dest = Home(s) /\ thash' = Rebind(thash, k, Home(s))
      BY <2>7, <2>8, <2>14
    <3> DEFINE o2 == Given(o, late, n)
               h2 == [h EXCEPT ![n] = s]
    <3>2. n \in 0..NumFuns
      BY <2>1, Numbers DEF Funs
    <3>3. /\ o2 \in Owners
          /\ \A f \in Funs : Of(o2, late + 1, f) = IF f = n THEN Of(o, late, f) \cup {NumFuns + (late + 1)} ELSE Of(o, late, f)
      BY <1>1, <3>2, OfNext, Zenon
    <3>4. h2 \in [Funs -> Slots] /\ h2[n] = s /\ \A g \in Funs \ {n} : h2[g] = h[g]
      BY <2>1, <2>7
    <3> HIDE DEF o2, h2
    <3>5. Of(o2, late + 1, n) = O \cup {s} /\ \A g \in Funs \ {n} : Of(o2, late + 1, g) = Of(o, late, g)
      BY <2>1, <3>3 DEF O, s
    <3>6. Jumps(O \cup {s}, s, mem', dest)
      <4>1. s \notin O /\ s # x
        BY <2>5, <2>7
      <4>2. ~JumpAt(mem, Home(s))
        BY <2>4, <2>7 DEF Unwritten
      <4>3. ~JumpAt(mem', Home(s))
        BY <2>7, <2>10, <4>1, <4>2, JumpSame
      <4>4. \A t \in O : JumpAt(mem', Home(t)) /\ \E u \in O \cup {s} : t < u /\ mem'[Home(t)][2] = Home(u)
        <5> TAKE t \in O
        <5>1. CASE t = x
          BY <2>7, <2>10, <3>1, <5>1
        <5>2. CASE t # x
          BY <2>13, <5>2
        <5> QED
          BY <5>1, <5>2
      <4> QED
        BY <2>5, <2>7, <3>1, <4>3, <4>4 DEF Jumps
    <3>7. Bound(n, O \cup {s}, s, thash', calls)
      <4>1. Bound(n, O, x, thash, calls)
        BY <2>1, <2>5 DEF O, x
      <4> QED
        BY <2>1, <2>2, <2>7, <3>1, <4>1, BoundNew
    <3>8. ASSUME NEW g \in Funs \ {n} PROVE Bound(g, Of(o, late, g), h[g], thash', calls)
      <4>1. Bound(g, Of(o, late, g), h[g], thash, calls) /\ thash[k].name # g
        BY <2>1, <2>5
      <4> QED
        BY <2>1, <2>2, <2>7, <3>1, <4>1, BoundElse
    <3>9. Chain(o2, h2, late + 1, mem', meant', thash', calls)
      <4>1. ASSUME NEW f \in Funs
            PROVE  /\ Jumps(Of(o2, late + 1, f), h2[f], mem', meant'[f])
                   /\ Bound(f, Of(o2, late + 1, f), h2[f], thash', calls)
        <5>1. CASE f = n
          BY <2>9, <3>4, <3>5, <3>6, <3>7, <5>1
        <5>2. CASE f # n
          BY <2>11, <3>4, <3>5, <3>8, <5>2
        <5> QED
          BY <5>1, <5>2
      <4> QED
        BY <4>1 DEF Chain
    <3> QED
      BY <1>1, <2>12, <3>3, <3>4, <3>9 DEF ChainInv
  \* In the executable: what was last has a jump out of here.
  <2>15. CASE dest = LilithEntry(NumFuns + (late + 1))
    <3>1. dest \notin DOMAIN mem' /\ thash' = thash
      <4>1. NumFuns + (late + 1) \in Nat
        BY <1>1, Numbers
      <4> QED
        BY <2>4, <2>8, <2>10, <2>15, <4>1, LilithApart
    <3> DEFINE o2 == Given(o, late, 0)
    <3>2. 0 \in 0..NumFuns /\ 0 \notin Funs
      BY Numbers DEF Funs
    <3>3. o2 \in Owners /\ \A f \in Funs : Of(o2, late + 1, f) = Of(o, late, f)
      <4>1. /\ o2 \in Owners
            /\ \A f \in Funs : Of(o2, late + 1, f) = IF f = 0 THEN Of(o, late, f) \cup {NumFuns + (late + 1)} ELSE Of(o, late, f)
        BY <1>1, <3>2, OfNext, Zenon
      <4> HIDE DEF o2
      <4> QED
        BY <3>2, <4>1
    <3> HIDE DEF o2
    <3>4. Jumps(O, x, mem', dest)
      BY <2>5, <2>10, <2>13, <3>1 DEF Jumps
    <3>5. ASSUME NEW f \in Funs PROVE Jumps(Of(o, late, f), h[f], mem', meant'[f])
      <4>1. CASE f = n
        BY <2>9, <3>4, <4>1 DEF O, x
      <4>2. CASE f # n
        BY <2>11, <4>2
      <4> QED
        BY <4>1, <4>2
    <3>6. Chain(o2, h, late + 1, mem', meant', thash', calls)
      BY <2>5, <3>1, <3>3, <3>5 DEF Chain
    <3> QED
      BY <1>1, <2>12, <3>3, <3>6 DEF ChainInv
  <2> QED
    BY <2>8, <2>14, <2>15
<1> QED
  BY <1>2, <1>3

\* Every step keeps the chains.
LEMMA ChainStep ==
  ASSUME TableInv, LateInv, SymInv, MemInv, ChainInv, [Next]_vars
  PROVE  ChainInv'
<1>1. CASE \/ PassExport \/ PassAbs \/ PassHeap \/ PassMain \/ PassImport
           \/ ImportNext \/ ImportRecord \/ ImportEnd
  <2>1. pc' \in {"pass1", "import"}
    BY <1>1 DEF PassExport, PassAbs, PassHeap, PassMain, PassImport, ImportNext, ImportRecord, ImportEnd, Handles
  <2> QED
    BY <2>1 DEF ChainInv
<1>2. CASE PassEnd
  BY <1>2, ChainBegin
\* A patched instruction is not at the start of a function.
<1>3. CASE KernelPatchInstruction
  <2>1. /\ pc = "instr" /\ todo # {}
        /\ meant' = meant /\ thash' = thash /\ calls' = calls /\ late' = late
    BY <1>3 DEF KernelPatchInstruction, PatchUnchanged
  <2>2. PICK o \in Owners, h \in [Funs -> Slots] : Chain(o, h, late, mem, meant, thash, calls)
    BY <2>1 DEF ChainInv
  <2>3. Unwritten(late, mem) /\ late \in 0..MaxLate
    BY <2>1 DEF ChainInv, LateInv
  <2> DEFINE f == Min(todo)
  <2>4. f \in Funs
    BY <2>1, LeastOf DEF LateInv
  <2>5. DOMAIN mem' = DOMAIN mem /\ \A s \in Slots : HeadSame(mem, mem', s)
    <3>1. CASE HashGet(f) = None
      <4>1. mem' = mem
        BY <1>3, <3>1 DEF KernelPatchInstruction
      <4> QED
        BY <4>1 DEF HeadSame
    <3>2. CASE HashGet(f) # None
      <4>1. HashGet(f) = Home(f)
        BY <2>4, <3>2, HashIs
      <4>2. mem' = [mem EXCEPT ![Home(f) + CliAt] = IF @[1] = "cli" THEN <<"nop", 0>> ELSE @]
        BY <1>3, <3>2, <4>1 DEF KernelPatchInstruction
      <4> HIDE DEF f
      <4>3. DOMAIN mem' = DOMAIN mem /\ \A a \in DOMAIN mem : a # Home(f) + CliAt => mem'[a] = mem[a]
        BY <4>2
      <4>4. ASSUME NEW s \in Slots, NEW j \in Jump PROVE mem'[Home(s) + j] = mem[Home(s) + j]
        <5>1. Home(s) + j \in DOMAIN mem /\ Home(s) + j # Home(f) + CliAt
          BY <2>4, HomeCells, HomeCli DEF MemInv
        <5> QED
          BY <4>3, <5>1
      <4> QED
        BY <4>3, <4>4 DEF HeadSame
    <3> QED
      BY <3>1, <3>2
  <2>6. Unwritten(late, mem') /\ Chain(o, h, late, mem', meant, thash, calls)
    BY <2>2, <2>3, <2>5, ChainElsewhere, Zenon
  <2> QED
    BY <2>1, <2>2, <2>6 DEF ChainInv
<1>4. CASE SetupTrampolines \/ LoadKernelReturns
  <2>1. /\ pc \notin {"pass1", "import"}
        /\ UNCHANGED <<mem, meant, thash, calls, late>>
    BY <1>4 DEF SetupTrampolines, LoadKernelReturns, PatchUnchanged
  <2> QED
    BY <2>1 DEF ChainInv
<1>5. CASE TrampolineEarly
  BY <1>5, ChainEarly
<1>6. CASE LoadKernel
  BY <1>6, ChainKernel
<1>7. ASSUME NEW n \in Funs, Declare(n) PROVE ChainInv'
  <2>1. /\ pc = "run" /\ late < MaxLate /\ late' = late + 1 /\ Found(n) # 0
        /\ thash' = <<thash[Found(n)]>> \o thash /\ mem' = mem /\ calls' = calls /\ meant' = meant
    BY <1>7 DEF Declare, RunUnchanged
  <2>2. thash \in Seq(Entries)
    BY DEF LateInv
  <2>3. /\ Found(n) \in 1..Len(thash) /\ thash[Found(n)].name = n
        /\ \A j \in 1..Found(n) - 1 : thash[j].name # n
    BY <2>1, FoundIs DEF IsFirst
  <2> DEFINE k == Found(n)
  <2> HIDE DEF k
  <2>4. \A f \in Funs : \A O, h : Bound(f, O, h, thash, calls) => Bound(f, O, h, thash', calls')
    <3>1. k \in 1..Len(thash) /\ \A j \in 1..k - 1 : thash[j].name # thash[k].name
      BY <2>3 DEF k
    <3>2. thash' = <<thash[k]>> \o thash /\ calls' = calls
      BY <2>1 DEF k
    <3>3. ASSUME NEW f \in Funs, NEW O, NEW h, Bound(f, O, h, thash, calls)
          PROVE  Bound(f, O, h, <<thash[k]>> \o thash, calls)
      BY <2>2, <3>1, <3>3, BoundFront
    <3> QED
      BY <3>2, <3>3
  <2> QED
    BY <2>1, <2>4, ChainLate
<1>8. ASSUME NEW n \in Funs, Bind(n) PROVE ChainInv'
  <2>1. /\ pc = "run" /\ late < MaxLate /\ late' = late + 1 /\ Found(n) # 0
        /\ calls' = calls \cup {<<n, thash[Found(n)].val>>} /\ mem' = mem /\ thash' = thash /\ meant' = meant
    BY <1>8 DEF Bind, RunUnchanged
  <2>2. thash \in Seq(Entries)
    BY DEF LateInv
  <2>3. Found(n) \in 1..Len(thash) /\ thash[Found(n)].name = n
    BY <2>1, FoundIs
  <2> DEFINE k == Found(n)
  <2> HIDE DEF k
  <2>4. \A f \in Funs : \A O, h : Bound(f, O, h, thash, calls) => Bound(f, O, h, thash', calls')
    <3>1. k \in 1..Len(thash) /\ thash' = thash /\ calls' = calls \cup {<<thash[k].name, thash[k].val>>}
      BY <2>1, <2>3 DEF k
    <3>2. ASSUME NEW f \in Funs, NEW O, NEW h, Bound(f, O, h, thash, calls)
          PROVE  Bound(f, O, h, thash, calls \cup {<<thash[k].name, thash[k].val>>})
      BY <2>2, <3>1, <3>2, BoundCall
    <3> QED
      BY <3>1, <3>2
  <2> QED
    BY <2>1, <2>4, ChainLate
<1>9. ASSUME NEW n \in Funs \cup {Outside}, ReplaceSyscall(n) PROVE ChainInv'
  BY <1>9, ChainReplace
<1>10. CASE UNCHANGED vars
  BY <1>10 DEF vars, ChainInv
<1> QED
  BY <1>1, <1>2, <1>3, <1>4, <1>5, <1>6, <1>7, <1>8, <1>9, <1>10 DEF Next, LoadPass1

\* Nothing is bound yet.
LEMMA InitLate ==
  ASSUME Init
  PROVE  SymInv /\ LateInv /\ ChainInv
<1>1. /\ symbols = <<>> /\ thash = <<>> /\ calls = {} /\ todo = Clis /\ late = 0 /\ pc = "pass1"
      /\ meant = [f \in Funs |-> Base + Entry(f)]
  BY DEF Init
<1>2. meant = [f \in Funs |-> Home(f)] /\ meant \in [Funs -> Nat]
  BY <1>1, Sites, HomeNat DEF Home
<1> QED
  BY <1>1, <1>2, LoaderAssumption DEF SymInv, LateInv, ChainInv

\* Whatever is bound to a name ends, along its chain, in what is meant.
LEMMA ChainReaches ==
  ASSUME SymInv, LateInv, ChainInv
  PROVE  CallsReach
<1> SUFFICES ASSUME pc = "run"
             PROVE  /\ \A call \in calls : Reached(call[2]) = meant[call[1]]
                    /\ \A e \in ToSet(thash) : e.name \in Funs => Reached(e.val) = meant[e.name]
                    /\ \A f \in Funs : FindEntryPoint(f) # None => Reached(FindEntryPoint(f)) = meant[f]
  BY DEF CallsReach
<1>1. PICK o \in Owners, h \in [Funs -> Slots] : Chain(o, h, late, mem, meant, thash, calls)
  BY DEF ChainInv
<1>2. late \in 0..MaxLate /\ thash \in Seq(Entries)
  BY DEF LateInv
<1>3. ASSUME NEW f \in Funs, NEW t \in Of(o, late, f) PROVE Reached(Home(t)) = meant[f]
  <2>1. Jumps(Of(o, late, f), h[f], mem, meant[f])
    BY <1>1 DEF Chain
  <2>2. \A u \in Of(o, late, f) : u = f \/ u \in NumFuns + 1..NumFuns + late
    BY <1>2, OfSlots
  <2> QED
    BY <1>2, <2>1, <2>2, JumpsReach
<1>4. ASSUME NEW f \in Funs, NEW k \in DOMAIN thash, thash[k].name = f PROVE Reached(thash[k].val) = meant[f]
  <2>1. \E t \in Of(o, late, f) : thash[k].val = Home(t)
    BY <1>1, <1>4 DEF Chain, Bound
  <2> QED
    BY <1>3, <2>1
<1>5. ASSUME NEW c \in calls PROVE Reached(c[2]) = meant[c[1]]
  <2>1. c[1] \in Funs
    BY DEF LateInv
  <2>2. \E t \in Of(o, late, c[1]) : c[2] = Home(t)
    BY <1>1, <2>1 DEF Chain, Bound
  <2> QED
    BY <1>3, <2>1, <2>2
<1>6. ASSUME NEW e \in ToSet(thash), e.name \in Funs PROVE Reached(e.val) = meant[e.name]
  <2>1. PICK k \in DOMAIN thash : e = thash[k]
    BY DEF ToSet
  <2> QED
    BY <1>4, <1>6, <2>1
<1>7. ASSUME NEW f \in Funs, FindEntryPoint(f) # None PROVE Reached(FindEntryPoint(f)) = meant[f]
  <2>1. CASE HashGet(f) # None
    <3>1. HashGet(f) = Home(f) /\ f \in Of(o, late, f)
      BY <2>1, HashIs DEF Of
    <3>2. FindEntryPoint(f) = Home(f)
      BY <2>1, <3>1 DEF FindEntryPoint
    <3> QED
      BY <1>3, <3>1, <3>2
  <2>2. CASE HashGet(f) = None
    <3>1. Found(f) # 0 /\ FindEntryPoint(f) = thash[Found(f)].val
      BY <1>7, <2>2 DEF FindEntryPoint
    <3>2. Found(f) \in DOMAIN thash /\ thash[Found(f)].name = f
      <4>1. Found(f) \in 1..Len(thash) /\ thash[Found(f)].name = f
        BY <3>1, FoundIs
      <4> QED
        BY <1>2, <4>1
    <3> QED
      BY <1>4, <3>1, <3>2
  <2> QED
    BY <2>1, <2>2
<1> QED
  BY <1>5, <1>6, <1>7

\* CallsReach: for any kernel, and however often its functions are declared, called and
\* replaced, every call of a function, whenever it was bound, ends in what replaced the
\* function last.
THEOREM CallsReachHolds == Spec => []CallsReach
<1> DEFINE Inv == TableInv /\ WalkInv /\ MemInv /\ SymInv /\ LateInv /\ ChainInv
<1>1. Init => Inv
  BY InitWalk, InitMem, InitLate
<1>2. Inv /\ [Next]_vars => Inv'
  BY WalkStep, MemStep, SymStep, LateStep, ChainStep
<1>3. Inv => CallsReach
  BY ChainReaches
<1> QED
  BY <1>1, <1>2, <1>3, PTL DEF Spec
=============================================================================
