-------------------------- MODULE SessionsProofs ---------------------------
(***************************************************************************)
(* Sessions, their winlinks, groups and clients (module Sessions) stay     *)
(* right whatever commands come, for any number of sessions, windows,      *)
(* indexes and clients.                                                    *)
(*                                                                         *)
(* Every command is made of functions from a state of all sessions to the  *)
(* next. Loose says what holds between two of them, Full what holds after  *)
(* a command; a lemma for each function says how it takes the one to the   *)
(* other, and one for each command puts them together.                     *)
(*                                                                         *)
(* A loop over winlinks, sessions or clients is FoldLeft. What it does is  *)
(* proved by counting: the function that FoldLeft chooses exists, the part *)
(* up to k + 1 follows from the part up to k, and the smallest part that   *)
(* is not as it should be cannot be (Solvable, FoldKeeps).                 *)
(***************************************************************************)
EXTENDS Sessions, FiniteSetTheorems, WellFoundedInduction, TLAPS

-----------------------------------------------------------------------------
(***************************************************************************)
(* Greatest and least numbers, and what FoldLeft computes.                 *)
(***************************************************************************)
\* Of the sets in T one has no other one of T inside it.
Smallest(x, T) == x \in T /\ \A y \in T : ~(y \subseteq x /\ y # x)

LEMMA HasSmallest ==
  ASSUME NEW S, IsFiniteSet(S), NEW T, T \subseteq SUBSET S, T # {}
  PROVE  \E x : Smallest(x, T)
<1>1. IsWellFoundedOn(StrictSubsetOrdering(S), FiniteSubsetsOf(S))
  BY FS_StrictSubsetOrderingWellFounded
<1>2. T \subseteq FiniteSubsetsOf(S)
  BY FS_Subset DEF FiniteSubsetsOf
<1>3. \E x \in T : \A y \in T : ~(<<y, x>> \in StrictSubsetOrdering(S))
  BY <1>1, <1>2, WFMin
<1> QED BY <1>3 DEF StrictSubsetOrdering, Smallest

LEMMA MaxOf ==
  ASSUME NEW S, IsFiniteSet(S), S \subseteq Int, S # {}
  PROVE  Max(S) \in S /\ \A y \in S : Max(S) >= y
<1> DEFINE T == {t \in SUBSET S : t # {} /\ ~\E x \in t : \A y \in t : x >= y}
<1>1. SUFFICES ASSUME T # {} PROVE FALSE
  <2>1. \E x \in S : \A y \in S : x >= y
    BY <1>1
  <2> QED BY <2>1 DEF Max
<1>2. PICK t : Smallest(t, T)
  <2> HIDE DEF T
  <2>1. T \subseteq SUBSET S
    BY DEF T
  <2> QED BY <1>1, <2>1, HasSmallest, Zenon
<1>3. PICK z \in t : TRUE
  BY <1>2 DEF Smallest
<1>4. t \ {z} # {} /\ t \in T
  BY <1>2, <1>3 DEF Smallest
<1>5. t \ {z} \notin T /\ t \ {z} \in SUBSET S
  BY <1>2, <1>3, <1>4 DEF Smallest
<1>9. PICK x \in t \ {z} : \A y \in t \ {z} : x >= y
  BY <1>4, <1>5
<1>6. x \in Int /\ z \in Int /\ t \subseteq Int
  BY <1>4
<1>7. CASE x >= z
  BY <1>4, <1>9, <1>6, <1>7
<1>8. CASE ~(x >= z)
  <2>1. \A y \in t : z >= y
    BY <1>9, <1>6, <1>8
  <2> QED BY <1>4, <2>1
<1> QED BY <1>7, <1>8

LEMMA MinOf ==
  ASSUME NEW S, IsFiniteSet(S), S \subseteq Int, S # {}
  PROVE  Min(S) \in S /\ \A y \in S : Min(S) <= y
<1> DEFINE T == {t \in SUBSET S : t # {} /\ ~\E x \in t : \A y \in t : x <= y}
<1>1. SUFFICES ASSUME T # {} PROVE FALSE
  <2>1. \E x \in S : \A y \in S : x <= y
    BY <1>1
  <2> QED BY <2>1 DEF Min
<1>2. PICK t : Smallest(t, T)
  <2> HIDE DEF T
  <2>1. T \subseteq SUBSET S
    BY DEF T
  <2> QED BY <1>1, <2>1, HasSmallest, Zenon
<1>3. PICK z \in t : TRUE
  BY <1>2 DEF Smallest
<1>4. t \ {z} # {} /\ t \in T
  BY <1>2, <1>3 DEF Smallest
<1>5. t \ {z} \notin T /\ t \ {z} \in SUBSET S
  BY <1>2, <1>3, <1>4 DEF Smallest
<1>9. PICK x \in t \ {z} : \A y \in t \ {z} : x <= y
  BY <1>4, <1>5
<1>6. x \in Int /\ z \in Int /\ t \subseteq Int
  BY <1>4
<1>7. CASE x <= z
  BY <1>4, <1>9, <1>6, <1>7
<1>8. CASE ~(x <= z)
  <2>1. \A y \in t : z <= y
    BY <1>9, <1>6, <1>8
  <2> QED BY <1>4, <2>1
<1> QED BY <1>7, <1>8

LEMMA MaxIs ==
  ASSUME NEW S, S \subseteq Int, NEW m \in S, \A y \in S : m >= y
  PROVE  Max(S) = m
<1>1. Max(S) \in S /\ \A y \in S : Max(S) >= y
  BY DEF Max
<1>2. Max(S) >= m /\ m >= Max(S) /\ Max(S) \in Int /\ m \in Int
  BY <1>1
<1> QED BY <1>2

LEMMA OneMin ==
  ASSUME NEW i \in Int
  PROVE  Min({i}) = i
  BY DEF Min

LEMMA MaxIn ==
  ASSUME NEW n \in Nat, NEW s \in SUBSET (1..n), s # {}
  PROVE  Max(s) \in s /\ Max(s) \in 1..n /\ s \ {Max(s)} \in SUBSET (1..n)
<1>1. IsFiniteSet(1..n) /\ s \subseteq 1..n /\ s \subseteq Int
  BY FS_Interval
<1>2. IsFiniteSet(s)
  BY <1>1, FS_Subset, Zenon
<1>3. Max(s) \in s
  BY <1>1, <1>2, MaxOf
<1> QED BY <1>1, <1>3

\* What holds at first and is kept by each of n steps holds after them.
LEMMA Steps ==
  ASSUME NEW n \in Nat, NEW P, 0 \in P, \A k \in 1..n : k - 1 \in P => k \in P
  PROVE  n \in P
<1> DEFINE T == {t \in SUBSET (1..n) : \E k \in 1..n : t = 1..k /\ k \notin P}
<1>1. SUFFICES ASSUME n \notin P PROVE FALSE
  OBVIOUS
<1>2. 1..n \in T
  <2>1. n \in 1..n
    BY <1>1
  <2> QED BY <1>1, <2>1
<1>3. PICK t : Smallest(t, T)
  <2> HIDE DEF T
  <2>1. T \subseteq SUBSET (1..n) /\ T # {}
    BY <1>2 DEF T
  <2>2. IsFiniteSet(1..n)
    BY FS_Interval
  <2> QED BY <2>1, <2>2, HasSmallest, Zenon
<1>4. PICK k \in 1..n : t = 1..k /\ k \notin P
  BY <1>3 DEF Smallest
<1>5. k - 1 \notin P /\ k - 1 \in 1..n
  BY <1>4
<1>6. 1..(k - 1) \in T /\ k \in 1..k /\ k \notin 1..(k - 1)
  BY <1>5
<1>7. 1..(k - 1) \subseteq 1..k
  OBVIOUS
<1> QED BY <1>3, <1>4, <1>6, <1>7 DEF Smallest

\* g is what FoldLeft computes for each part of a sequence of length n, where
\* G maps a position and a value to the next value.
Solves(g, n, st, G) ==
  g = [s \in SUBSET (1..n) |-> IF s = {} THEN st ELSE G[<<Max(s), g[s \ {Max(s)}]>>]]

LEMMA Solvable ==
  ASSUME NEW n \in Nat, NEW st, NEW G
  PROVE  \E g : Solves(g, n, st, G)
<1> DEFINE Value(g, s) == IF s = {} THEN st ELSE G[<<Max(s), g[s \ {Max(s)}]>>]
           Ok(t) == \E g : g = [s \in SUBSET t |-> Value(g, s)]
           T == {t \in SUBSET (1..n) : ~Ok(t)}
<1>1. SUFFICES ASSUME T # {} PROVE FALSE
  <2>1. Ok(1..n)
    BY <1>1
  <2> QED BY <2>1, Zenon DEF Solves
<1>2. PICK t : Smallest(t, T)
  <2> HIDE DEF T
  <2>1. T \subseteq SUBSET (1..n)
    BY DEF T
  <2>2. IsFiniteSet(1..n)
    BY FS_Interval
  <2> QED BY <1>1, <2>1, <2>2, HasSmallest, Zenon
<1>3. t # {}
  <2>1. SUFFICES ASSUME t = {} PROVE Ok(t)
    BY <1>2 DEF Smallest
  <2> DEFINE g == [s \in SUBSET {} |-> st]
  <2>2. g = [s \in SUBSET t |-> Value(g, s)]
    BY <2>1
  <2> QED BY <2>2
<1> DEFINE x == Max(t)
           u == t \ {x}
<1>4. x \in t /\ t \subseteq Int /\ \A y \in t : x >= y
  <2>1. IsFiniteSet(1..n) /\ t \subseteq 1..n
    BY <1>2, FS_Interval DEF Smallest
  <2>2. IsFiniteSet(t)
    BY <2>1, FS_Subset, Zenon
  <2>3. t \subseteq Int
    BY <2>1
  <2> QED BY <1>3, <2>2, <2>3, MaxOf
<1>5. Ok(u)
  <2>1. u \subseteq t /\ u # t /\ u \in SUBSET (1..n)
    BY <1>2, <1>4 DEF Smallest
  <2>2. u \notin T
    BY <1>2, <2>1 DEF Smallest
  <2> QED BY <2>1, <2>2
<1>6. PICK g : g = [s \in SUBSET u |-> Value(g, s)]
  BY <1>5
<1> DEFINE h == [s \in SUBSET t |-> IF x \in s THEN G[<<x, g[s \ {x}]>>] ELSE g[s]]
<1>7. \A s \in SUBSET t : h[s] = Value(h, s)
  <2> SUFFICES ASSUME NEW s \in SUBSET t PROVE h[s] = Value(h, s)
    OBVIOUS
  <2>1. CASE x \in s
    <3>1. Max(s) = x
      BY <1>4, <2>1, MaxIs
    <3>2. h[s \ {x}] = g[s \ {x}]
      OBVIOUS
    <3> QED BY <2>1, <3>1, <3>2
  <2>2. CASE x \notin s
    <3>1. h[s] = g[s] /\ g[s] = Value(g, s)
      BY <1>6, <2>2
    <3>2. CASE s = {}
      BY <3>1, <3>2
    <3>3. CASE s # {}
      <4>1. x \notin s \ {Max(s)} /\ s \ {Max(s)} \in SUBSET t
        BY <2>2
      <4>2. h[s \ {Max(s)}] = g[s \ {Max(s)}]
        BY <4>1
      <4> QED BY <3>1, <3>3, <4>2
    <3> QED BY <3>2, <3>3
  <2> QED BY <2>1, <2>2
<1>8. h = [s \in SUBSET t |-> Value(h, s)]
  BY <1>7
<1>9. t \in T
  BY <1>2 DEF Smallest
<1> HIDE DEF h
<1> QED BY <1>8, <1>9

\* Values that stay in S, which a fold computes with a function on S.
LEMMA SolvedIn ==
  ASSUME NEW n \in Nat, NEW S, NEW st \in S, NEW G \in [(1..n) \X S -> S],
         NEW g, Solves(g, n, st, G)
  PROVE  \A s \in SUBSET (1..n) : g[s] \in S
<1> DEFINE T == {t \in SUBSET (1..n) : g[t] \notin S}
<1>1. SUFFICES ASSUME T # {} PROVE FALSE
  OBVIOUS
<1>2. PICK t : Smallest(t, T)
  <2> HIDE DEF T
  <2>1. T \subseteq SUBSET (1..n)
    BY DEF T
  <2>2. IsFiniteSet(1..n)
    BY FS_Interval
  <2> QED BY <1>1, <2>1, <2>2, HasSmallest, Zenon
<1>3. t # {} /\ t \in T
  BY <1>2 DEF Solves, Smallest
<1>4. Max(t) \in t
  <2>1. IsFiniteSet(1..n) /\ t \subseteq 1..n
    BY <1>2, FS_Interval DEF Smallest
  <2>2. IsFiniteSet(t)
    BY <2>1, FS_Subset, Zenon
  <2>3. t \subseteq Int
    BY <2>1
  <2> QED BY <1>3, <2>2, <2>3, MaxOf
<1>5. g[t \ {Max(t)}] \in S
  <2>1. t \ {Max(t)} \subseteq t /\ t \ {Max(t)} # t /\ t \ {Max(t)} \in SUBSET (1..n)
    BY <1>3, <1>4
  <2> QED BY <1>2, <2>1 DEF Smallest
<1>6. g[t] = G[<<Max(t), g[t \ {Max(t)}]>>]
  BY <1>3 DEF Solves
<1>7. Max(t) \in 1..n
  BY <1>3, <1>4
<1> QED BY <1>3, <1>5, <1>6, <1>7

LEMMA UpTo ==
  ASSUME NEW k \in Nat, k # 0
  PROVE  Max(1..k) = k /\ (1..k) \ {k} = 1..(k - 1) /\ 1..k # {}
<1>1. k \in 1..k /\ 1..k \subseteq Int /\ \A y \in 1..k : k >= y
  OBVIOUS
<1>2. Max(1..k) = k
  BY <1>1, MaxIs
<1>3. (1..k) \ {k} = 1..(k - 1)
  OBVIOUS
<1> QED BY <1>1, <1>2, <1>3

\* A fold that starts with st and follows G while it is in S; what each step
\* leaves done, and no later one undoes.
Follows(h, n, st, S, G) ==
  h[{}] = st /\ \A k \in 1..n : h[1..(k - 1)] \in S => h[1..k] = G[<<k, h[1..(k - 1)]>>]

Leaves(R, n, S, G) ==
  \A k \in 1..n : \A x \in S :
    /\ <<k, G[<<k, x>>]>> \in R
    /\ \A j \in 1..(k - 1) : <<j, x>> \in R => <<j, G[<<k, x>>]>> \in R

LEMMA FoldKeeps ==
  ASSUME NEW n \in Nat, NEW S, NEW st \in S, NEW G \in [(1..n) \X S -> S],
         NEW h, Follows(h, n, st, S, G), NEW R, Leaves(R, n, S, G)
  PROVE  h[1..n] \in S /\ \A k \in 1..n : <<k, h[1..n]>> \in R
<1> DEFINE P == {k \in 0..n : h[1..k] \in S /\ \A j \in 1..k : <<j, h[1..k]>> \in R}
<1>1. 0 \in P
  <2>1. 1..0 = {}
    OBVIOUS
  <2> QED BY <2>1 DEF Follows
<1>2. ASSUME NEW k \in 1..n, k - 1 \in P PROVE k \in P
  <2>1. h[1..(k - 1)] \in S /\ \A j \in 1..(k - 1) : <<j, h[1..(k - 1)]>> \in R
    BY <1>2
  <2>2. h[1..k] = G[<<k, h[1..(k - 1)]>>]
    BY <2>1 DEF Follows
  <2>3. h[1..k] \in S
    BY <2>1, <2>2
  <2>4. <<k, h[1..k]>> \in R /\ \A j \in 1..(k - 1) : <<j, h[1..k]>> \in R
    BY <2>1, <2>2 DEF Leaves
  <2>5. \A j \in 1..k : j = k \/ j \in 1..(k - 1)
    OBVIOUS
  <2> QED BY <2>3, <2>4, <2>5
<1>3. n \in P
  <2> HIDE DEF P
  <2> QED BY <1>1, <1>2, Steps
<1> QED BY <1>3

\* When each step leaves nothing to be said.
LEMMA FoldStays ==
  ASSUME NEW n \in Nat, NEW S, NEW st \in S, NEW G \in [(1..n) \X S -> S],
         NEW h, Follows(h, n, st, S, G)
  PROVE  h[1..n] \in S
<1> DEFINE R == (1..n) \X S
<1>1. Leaves(R, n, S, G)
  BY DEF Leaves
<1> HIDE DEF R
<1> QED BY <1>1, FoldKeeps, Zenon
-----------------------------------------------------------------------------
(***************************************************************************)
(* Sequences: the part of one, sessions and winlinks in order.             *)
(***************************************************************************)
Uniq(q) == \A j, k \in 1..Len(q) : q[j] = q[k] => j = k

LEMMA SeqFacts ==
  ASSUME NEW T, NEW q \in Seq(T)
  PROVE  /\ Len(q) \in Nat /\ DOMAIN q = 1..Len(q)
         /\ ToSet(q) = {q[k] : k \in 1..Len(q)} /\ ToSet(q) \subseteq T
         /\ \A k \in 1..Len(q) : q[k] \in T
  BY DEF ToSet

LEMMA AppendIs ==
  ASSUME NEW T, NEW q \in Seq(T), NEW x \in T
  PROVE  /\ Append(q, x) \in Seq(T)
         /\ ToSet(Append(q, x)) = ToSet(q) \cup {x}
         /\ Uniq(q) /\ x \notin ToSet(q) => Uniq(Append(q, x))
<1> DEFINE r == Append(q, x)
<1>1. /\ r \in Seq(T) /\ Len(r) = Len(q) + 1 /\ r[Len(q) + 1] = x
      /\ \A k \in 1..Len(q) : r[k] = q[k]
  OBVIOUS
<1> HIDE DEF r
<1>2. /\ Len(q) \in Nat /\ ToSet(q) = {q[k] : k \in 1..Len(q)}
      /\ ToSet(r) = {r[k] : k \in 1..(Len(q) + 1)}
  BY <1>1, SeqFacts
<1>3. ToSet(r) = ToSet(q) \cup {x}
  BY <1>1, <1>2
<1>4. ASSUME Uniq(q), x \notin ToSet(q) PROVE Uniq(r)
  BY <1>1, <1>2, <1>4 DEF Uniq
<1> QED BY <1>1, <1>3, <1>4 DEF r

LEMMA FrontIs ==
  ASSUME NEW T, NEW q \in Seq(T), NEW x \in T
  PROVE  /\ <<x>> \o q \in Seq(T)
         /\ ToSet(<<x>> \o q) = {x} \cup ToSet(q)
         /\ Uniq(q) /\ x \notin ToSet(q) => Uniq(<<x>> \o q)
<1> DEFINE r == <<x>> \o q
<1>1. /\ r \in Seq(T) /\ Len(r) = Len(q) + 1 /\ r[1] = x
      /\ \A k \in 2..(Len(q) + 1) : r[k] = q[k - 1]
  OBVIOUS
<1> HIDE DEF r
<1>2. /\ Len(q) \in Nat /\ ToSet(q) = {q[k] : k \in 1..Len(q)}
      /\ ToSet(r) = {r[k] : k \in 1..(Len(q) + 1)}
  BY <1>1, SeqFacts
<1>3. ToSet(r) = {x} \cup ToSet(q)
  <2>1. \A k \in 1..Len(q) : k + 1 \in 2..(Len(q) + 1) /\ r[k + 1] = q[k]
    BY <1>1, <1>2
  <2>2. \A k \in 1..(Len(q) + 1) : k = 1 \/ (k \in 2..(Len(q) + 1) /\ k - 1 \in 1..Len(q))
    BY <1>2
  <2>3. ToSet(r) \subseteq {x} \cup ToSet(q)
    BY <1>1, <1>2, <2>2
  <2>4. 1 \in 1..(Len(q) + 1) /\ \A k \in 1..Len(q) : k + 1 \in 1..(Len(q) + 1)
    BY <1>2
  <2>5. {x} \cup ToSet(q) \subseteq ToSet(r)
    BY <1>1, <1>2, <2>1, <2>4
  <2> QED BY <2>3, <2>5
<1>4. ASSUME Uniq(q), x \notin ToSet(q) PROVE Uniq(r)
  <2> SUFFICES ASSUME NEW j \in 1..(Len(q) + 1), NEW k \in 1..(Len(q) + 1), r[j] = r[k] PROVE j = k
    BY <1>1 DEF Uniq
  <2>1. ASSUME NEW i \in 2..(Len(q) + 1) PROVE r[i] = q[i - 1] /\ i - 1 \in 1..Len(q) /\ r[i] # x
    BY <1>1, <1>2, <1>4
  <2>2. CASE j = 1 \/ k = 1
    BY <1>1, <1>2, <2>1, <2>2
  <2>3. CASE j \in 2..(Len(q) + 1) /\ k \in 2..(Len(q) + 1)
    BY <1>2, <1>4, <2>1, <2>3 DEF Uniq
  <2> QED BY <1>2, <2>2, <2>3
<1> QED BY <1>1, <1>3, <1>4 DEF r

\* Sorted lists each number of a finite set once: how many are not greater
\* than one is its place.
LEMMA InOrder ==
  ASSUME NEW I, IsFiniteSet(I), I \subseteq Int
  PROVE  /\ Cardinality(I) \in Nat /\ DOMAIN Sorted(I) = 1..Cardinality(I)
         /\ Sorted(I) \in Seq(I) /\ Len(Sorted(I)) = Cardinality(I)
         /\ \A n \in 1..Cardinality(I) : Sorted(I)[n] \in I
         /\ \A m, n \in 1..Cardinality(I) : Sorted(I)[m] = Sorted(I)[n] => m = n
         /\ \A i \in I : \E n \in 1..Cardinality(I) : Sorted(I)[n] = i
<1> DEFINE N == Cardinality(I)
           UpToIt(i) == {j \in I : j <= i}
           rank == [i \in I |-> Cardinality(UpToIt(i))]
<1>1. N \in Nat
  BY FS_CardinalityType
<1>2. ASSUME NEW i \in I
      PROVE  IsFiniteSet(UpToIt(i)) /\ Cardinality(UpToIt(i)) \in 1..N /\ i \in UpToIt(i)
  <2>1. UpToIt(i) \in SUBSET I /\ i \in UpToIt(i)
    BY <1>2
  <2> HIDE DEF UpToIt
  <2>2. IsFiniteSet(UpToIt(i)) /\ Cardinality(UpToIt(i)) <= N
    BY <2>1, FS_Subset
  <2>3. Cardinality(UpToIt(i)) \in Nat /\ Cardinality(UpToIt(i)) # 0
    <3>1. Cardinality(UpToIt(i)) = 0 <=> UpToIt(i) = {}
      BY <2>2, FS_EmptySet
    <3> QED BY <2>1, <2>2, <3>1, FS_CardinalityType
  <2> QED BY <1>1, <2>1, <2>2, <2>3
<1>3. ASSUME NEW i \in I, NEW j \in I, i < j
      PROVE  Cardinality(UpToIt(i)) # Cardinality(UpToIt(j))
  <2>1. UpToIt(i) \in SUBSET UpToIt(j) /\ j \notin UpToIt(i)
    <3>1. i \in Int /\ j \in Int /\ i < j
      BY <1>3
    <3>2. \A k \in I : k \in Int /\ (k <= i => k <= j)
      BY <3>1
    <3>3. ~(j <= i)
      BY <3>1
    <3> QED BY <3>2, <3>3
  <2>2. j \in UpToIt(j) /\ IsFiniteSet(UpToIt(j))
    BY <1>2
  <2> HIDE DEF UpToIt
  <2> QED BY <2>1, <2>2, FS_Subset
<1> HIDE DEF UpToIt
<1>4. rank \in [I -> 1..N]
  BY <1>2
<1>5. \A i, j \in I : rank[i] = rank[j] => i = j
  BY <1>3
<1>6. \A n \in 1..N : \E i \in I : rank[i] = n
  <2>1. rank \in Injection(I, 1..N)
    BY <1>4, <1>5 DEF Injection, IsInjective
  <2>2. IsFiniteSet(1..N) /\ Cardinality(1..N) = N
    BY <1>1, FS_Interval
  <2>3. rank \in Surjection(I, 1..N)
    <3> HIDE DEF rank
    <3> QED BY <2>1, <2>2, FS_Injection
  <2> QED BY <2>3 DEF Surjection
<1>7. Sorted(I) = [n \in 1..N |-> CHOOSE i \in I : Cardinality(UpToIt(i)) = n]
  BY DEF Sorted, UpToIt
<1>8. ASSUME NEW n \in 1..N PROVE Sorted(I)[n] \in I /\ rank[Sorted(I)[n]] = n
  <2>1. Sorted(I)[n] = CHOOSE i \in I : Cardinality(UpToIt(i)) = n
    BY <1>7
  <2>2. \E i \in I : Cardinality(UpToIt(i)) = n
    BY <1>6
  <2>3. Sorted(I)[n] \in I /\ Cardinality(UpToIt(Sorted(I)[n])) = n
    BY <2>1, <2>2, Zenon
  <2> QED BY <2>3
<1> HIDE DEF rank
<1>9. \A i \in I : Sorted(I)[rank[i]] = i
  BY <1>4, <1>5, <1>8
<1> HIDE DEF N
<1>10. DOMAIN Sorted(I) = 1..N /\ Sorted(I) \in [1..N -> I]
  BY <1>7, <1>8
<1>11. Sorted(I) \in Seq(I) /\ Len(Sorted(I)) = N
  BY <1>1, <1>10
<1> QED BY <1>1, <1>4, <1>8, <1>9, <1>10, <1>11 DEF N

LEMMA KeptIs ==
  ASSUME NEW T, NEW q \in Seq(T), NEW D \in SUBSET (DOMAIN q)
  PROVE  /\ Kept(q, D) \in Seq(T)
         /\ ToSet(Kept(q, D)) = {q[k] : k \in D}
         /\ Uniq(q) => Uniq(Kept(q, D))
<1> DEFINE N == Cardinality(D)
           p == Sorted(D)
<1>1. Len(q) \in Nat /\ DOMAIN q = 1..Len(q) /\ \A k \in 1..Len(q) : q[k] \in T
  BY SeqFacts
<1>2. IsFiniteSet(D) /\ D \subseteq Int
  <2>1. IsFiniteSet(1..Len(q)) /\ D \in SUBSET (1..Len(q))
    BY <1>1, FS_Interval
  <2> QED BY <1>1, <2>1, FS_Subset
<1>3. /\ N \in Nat /\ \A n \in 1..N : p[n] \in D
      /\ \A m, n \in 1..N : p[m] = p[n] => m = n
      /\ \A k \in D : \E n \in 1..N : p[n] = k
  BY <1>2, InOrder
<1>4. Kept(q, D) = [n \in 1..N |-> q[p[n]]]
  BY DEF Kept
<1> HIDE DEF N, p
<1>5. \A n \in 1..N : q[p[n]] \in T
  BY <1>1, <1>3
<1>6. Kept(q, D) \in Seq(T) /\ Len(Kept(q, D)) = N
  BY <1>3, <1>4, <1>5
<1>7. ToSet(Kept(q, D)) = {Kept(q, D)[n] : n \in 1..N}
  BY <1>6, SeqFacts
<1>8. ToSet(Kept(q, D)) = {q[k] : k \in D}
  <2>1. \A n \in 1..N : Kept(q, D)[n] = q[p[n]] /\ p[n] \in D
    BY <1>3, <1>4
  <2>2. \A n \in 1..N : Kept(q, D)[n] \in {q[k] : k \in D}
    BY <2>1
  <2>3. ASSUME NEW k \in D PROVE \E n \in 1..N : Kept(q, D)[n] = q[k]
    BY <1>3, <2>1
  <2> QED BY <1>7, <2>2, <2>3
<1>9. Uniq(q) => Uniq(Kept(q, D))
  BY <1>1, <1>3, <1>4, <1>6 DEF Uniq
<1> QED BY <1>6, <1>8, <1>9

LEMMA OnlyIs ==
  ASSUME NEW T, NEW q \in Seq(T), NEW S
  PROVE  /\ Only(q, S) \in Seq(T)
         /\ ToSet(Only(q, S)) = ToSet(q) \cap S
         /\ Uniq(q) => Uniq(Only(q, S))
<1> DEFINE D == {k \in DOMAIN q : q[k] \in S}
<1>1. DOMAIN q = 1..Len(q) /\ ToSet(q) = {q[k] : k \in 1..Len(q)}
  BY SeqFacts
<1>2. D \in SUBSET (DOMAIN q) /\ {q[k] : k \in D} = ToSet(q) \cap S
  BY <1>1
<1>3. Only(q, S) = Kept(q, D)
  BY DEF Only
<1> HIDE DEF D
<1> QED BY <1>2, <1>3, KeptIs

LEMMA DropIs ==
  ASSUME NEW T, NEW q \in Seq(T), NEW x
  PROVE  /\ Drop(q, x) \in Seq(T)
         /\ ToSet(Drop(q, x)) = ToSet(q) \ {x}
         /\ Uniq(q) => Uniq(Drop(q, x))
<1> DEFINE D == {k \in DOMAIN q : q[k] # x}
<1>1. DOMAIN q = 1..Len(q) /\ ToSet(q) = {q[k] : k \in 1..Len(q)}
  BY SeqFacts
<1>2. D \in SUBSET (DOMAIN q) /\ {q[k] : k \in D} = ToSet(q) \ {x}
  BY <1>1
<1>3. Drop(q, x) = Kept(q, D)
  BY DEF Drop
<1> HIDE DEF D
<1> QED BY <1>2, <1>3, KeptIs

LEMMA EmptyIs ==
  ASSUME NEW T, NEW q \in Seq(T)
  PROVE  q = <<>> <=> ToSet(q) = {}
<1>1. Len(q) \in Nat /\ ToSet(q) = {q[k] : k \in 1..Len(q)}
  BY SeqFacts
<1>2. CASE Len(q) = 0
  <2>1. q = <<>>
    BY <1>2
  <2>2. 1..Len(q) = {}
    BY <1>2
  <2> QED BY <1>1, <2>1, <2>2
<1>3. CASE Len(q) # 0
  <2>1. q # <<>>
    BY <1>3
  <2>2. 1 \in 1..Len(q)
    BY <1>1, <1>3
  <2> QED BY <1>1, <2>1, <2>2
<1> QED BY <1>2, <1>3

LEMMA HeadIs ==
  ASSUME NEW T, NEW q \in Seq(T), q # <<>>
  PROVE  Head(q) \in ToSet(q) /\ Head(q) \in T /\ Head(q) = q[1] /\ 1 \in 1..Len(q)
  BY SeqFacts
-----------------------------------------------------------------------------
(***************************************************************************)
(* What is left out of the proofs: the features that the code has no       *)
(* answer to (see Features; among them a new group whose name is that of a *)
(* group there is, and clients that part when their session ends), windows *)
(* that are linked twice where sessions are renumbered, and a client that  *)
(* is sent to the session before or after its own, which may be its own.   *)
(* Renumbered links find room.                                             *)
(***************************************************************************)
Calm ==
  /\ instance \in Instances
  /\ Uses \cap {"-a in groups", "-r in groups", "-r twice", "fail -k", "name again",
                "some kept"} = {}
  /\ ~("again" \in Uses /\ "renumber-windows" \in Uses)
  /\ Uses \cap {"-r", "renumber-windows"} # {} => Base + Cardinality(Window) <= MaxIndex + 1
  /\ Policies \cap {"previous", "next"} = {}

LEMMA Bounds ==
  Calm => /\ MaxIndex \in Nat /\ Indexes \subseteq Nat /\ IsFiniteSet(Indexes)
          /\ None \notin Indexes /\ Freed \notin Indexes
          /\ IsFiniteSet(Window) /\ IsFiniteSet(Client)
<1> SUFFICES ASSUME Calm
             PROVE  /\ MaxIndex \in Nat /\ Indexes \subseteq Nat /\ IsFiniteSet(Indexes)
                    /\ None \notin Indexes /\ Freed \notin Indexes
                    /\ IsFiniteSet(Window) /\ IsFiniteSet(Client)
  OBVIOUS
<1>1. MaxIndex \in Nat /\ IsFiniteSet(Window) /\ IsFiniteSet(Client)
  BY OptionsAssumption DEF Calm, MaxIndex, Window, Client
<1>2. Indexes \subseteq Nat
  BY <1>1 DEF Indexes
<1>3. IsFiniteSet(Indexes)
  BY <1>1, FS_Interval DEF Indexes
<1> QED BY <1>1, <1>2, <1>3, PointersAssumption

-----------------------------------------------------------------------------
(***************************************************************************)
(* One session.                                                            *)
(***************************************************************************)
Wins == UNION {[I -> Window] : I \in SUBSET Indexes}

Recs == [alive : BOOLEAN, win : Wins, cur : Indexes \cup {None, Freed}, last : Seq(Indexes)]

LastSound(r) == Uniq(r.last) /\ ToSet(r.last) \subseteq Linked(r) \ {r.cur}
Sound(r) == r \in Recs /\ r.alive /\ r.cur \in Linked(r) /\ LastSound(r)
Headless(r) == r \in Recs /\ r.alive /\ r.cur \in Linked(r) \cup {None} /\ LastSound(r)

OnceEach(r) == \A i, j \in Linked(r) : r.win[i] = r.win[j] => i = j

LEMMA WinsIs ==
  ASSUME NEW f
  PROVE  f \in Wins <=> /\ DOMAIN f \subseteq Indexes /\ f = [i \in DOMAIN f |-> f[i]]
                        /\ \A i \in DOMAIN f : f[i] \in Window
<1>1. ASSUME f \in Wins
      PROVE  /\ DOMAIN f \subseteq Indexes /\ f = [i \in DOMAIN f |-> f[i]]
             /\ \A i \in DOMAIN f : f[i] \in Window
  <2>1. PICK I \in SUBSET Indexes : f \in [I -> Window]
    BY <1>1 DEF Wins
  <2> QED BY <2>1
<1>2. ASSUME DOMAIN f \subseteq Indexes, f = [i \in DOMAIN f |-> f[i]],
             \A i \in DOMAIN f : f[i] \in Window
      PROVE  f \in Wins
  <2>1. f \in [DOMAIN f -> Window]
    BY <1>2
  <2> QED BY <1>2, <2>1 DEF Wins
<1> QED BY <1>1, <1>2

LEMMA Facts ==
  ASSUME Calm, NEW r \in Recs
  PROVE  /\ r.win \in Wins /\ Linked(r) \subseteq Indexes /\ Linked(r) \subseteq Nat
         /\ Linked(r) \subseteq Int /\ IsFiniteSet(Linked(r))
         /\ None \notin Linked(r) /\ Freed \notin Linked(r)
         /\ r.win = [i \in Linked(r) |-> r.win[i]]
         /\ \A i \in Linked(r) : r.win[i] \in Window
         /\ r.last \in Seq(Indexes)
<1>1. r.win \in Wins /\ r.last \in Seq(Indexes)
  BY DEF Recs
<1>2. /\ Linked(r) \subseteq Indexes /\ r.win = [i \in Linked(r) |-> r.win[i]]
      /\ \A i \in Linked(r) : r.win[i] \in Window
  BY <1>1, WinsIs DEF Linked
<1>3. IsFiniteSet(Linked(r))
  BY <1>2, Bounds, FS_Subset
<1> QED BY <1>1, <1>2, <1>3, Bounds

LEMMA SoundIsHeadless ==
  ASSUME NEW r, Sound(r)
  PROVE  Headless(r)
  BY DEF Sound, Headless

LEMMA SetCurrentIs ==
  ASSUME Calm, NEW r, Headless(r), NEW i \in Linked(r)
  PROVE  /\ Sound(SetCurrent(r, i)) /\ SetCurrent(r, i).win = r.win
         /\ SetCurrent(r, i).cur = i
<1> DEFINE x == SetCurrent(r, i)
<1>1. r \in Recs /\ r.alive /\ r.cur \in Linked(r) \cup {None} /\ LastSound(r)
  BY DEF Headless
<1>2. Linked(r) \subseteq Indexes /\ None \notin Linked(r) /\ r.last \in Seq(Indexes) /\ i \in Indexes
  BY <1>1, Facts
<1>3. CASE i = r.cur
  BY <1>1, <1>3 DEF SetCurrent, Sound
<1>4. CASE i # r.cur
  <2> DEFINE d == Drop(r.last, i)
             p == Push(d, r.cur)
  <2>1. x = [r EXCEPT !.cur = i, !.last = p]
    BY <1>4 DEF SetCurrent
  <2>2. d \in Seq(Indexes) /\ ToSet(d) = ToSet(r.last) \ {i} /\ Uniq(d)
    BY <1>1, <1>2, DropIs DEF LastSound
  <2>3. p \in Seq(Indexes) /\ ToSet(p) \subseteq Linked(r) \ {i} /\ Uniq(p)
    <3> HIDE DEF d
    <3>1. CASE r.cur = None
      BY <1>1, <2>2, <3>1 DEF Push, LastSound
    <3>2. CASE r.cur # None
      <4> DEFINE e == Drop(d, r.cur)
      <4>1. e \in Seq(Indexes) /\ ToSet(e) = ToSet(d) \ {r.cur} /\ Uniq(e)
        BY <2>2, DropIs
      <4>2. p = <<r.cur>> \o e /\ r.cur \in Linked(r) /\ r.cur \in Indexes
        BY <1>1, <1>2, <3>2 DEF Push
      <4> HIDE DEF e
      <4>3. p \in Seq(Indexes) /\ ToSet(p) = {r.cur} \cup ToSet(e) /\ Uniq(p)
        BY <4>1, <4>2, FrontIs
      <4> QED BY <1>1, <1>4, <2>2, <4>1, <4>2, <4>3 DEF LastSound
    <3> QED BY <3>1, <3>2
  <2> HIDE DEF p
  <2>4. x \in Recs /\ x.alive /\ x.cur = i /\ x.win = r.win /\ x.last = p /\ Linked(x) = Linked(r)
    BY <1>1, <1>2, <2>1, <2>3 DEF Recs, Linked
  <2> HIDE DEF x
  <2>5. Sound(x)
    BY <2>3, <2>4 DEF Sound, LastSound
  <2> QED BY <2>4, <2>5 DEF x
<1> QED BY <1>3, <1>4

LEMMA BeforeIs ==
  ASSUME Calm, NEW r, Sound(r)
  PROVE  /\ Before(r, r.cur) \in Linked(r)
         /\ Linked(r) # {r.cur} => Before(r, r.cur) # r.cur
<1> DEFINE lower == {j \in Linked(r) : j < r.cur}
<1>1. Linked(r) \subseteq Int /\ IsFiniteSet(Linked(r)) /\ r.cur \in Linked(r)
  BY Facts DEF Sound
<1>2. CASE lower = {}
  <2>1. Before(r, r.cur) = Max(Linked(r))
    BY <1>2 DEF Before
  <2>2. Max(Linked(r)) \in Linked(r) /\ \A y \in Linked(r) : Max(Linked(r)) >= y
    BY <1>1, MaxOf
  <2>3. ASSUME Max(Linked(r)) = r.cur PROVE Linked(r) = {r.cur}
    BY <1>1, <1>2, <2>2, <2>3
  <2> QED BY <2>1, <2>2, <2>3
<1>3. CASE lower # {}
  <2>1. Before(r, r.cur) = Max(lower)
    BY <1>3 DEF Before
  <2>2. IsFiniteSet(lower) /\ lower \subseteq Int
    BY <1>1, FS_Subset
  <2>3. Max(lower) \in lower
    BY <1>3, <2>2, MaxOf
  <2> QED BY <1>1, <2>1, <2>3
<1> QED BY <1>2, <1>3

LEMMA MoveOffIs ==
  ASSUME Calm, NEW r, Sound(r)
  PROVE  /\ Sound(MoveOff(r)) /\ MoveOff(r).win = r.win /\ MoveOff(r).cur \in Linked(r)
         /\ Linked(r) # {r.cur} => MoveOff(r).cur # r.cur
<1> DEFINE i == IF r.last # <<>> /\ Head(r.last) # r.cur THEN Head(r.last) ELSE Before(r, r.cur)
<1>1. i \in Linked(r) /\ (Linked(r) # {r.cur} => i # r.cur)
  <2>1. CASE r.last # <<>> /\ Head(r.last) # r.cur
    <3>1. Head(r.last) \in ToSet(r.last)
      BY <2>1, Facts, HeadIs DEF Sound
    <3> QED BY <2>1, <3>1 DEF Sound, LastSound
  <2>2. CASE ~(r.last # <<>> /\ Head(r.last) # r.cur)
    BY <2>2, BeforeIs
  <2> QED BY <2>1, <2>2
<1>2. MoveOff(r) = SetCurrent(r, i)
  BY DEF MoveOff
<1> HIDE DEF i
<1> QED BY <1>1, <1>2, SetCurrentIs, SoundIsHeadless

LEMMA LinkIs ==
  ASSUME Calm, NEW r, Headless(r), NEW i \in Indexes, i \notin Linked(r), NEW w \in Window
  PROVE  LET x == Link(r, i, w) IN
         /\ Headless(x) /\ (Sound(r) => Sound(x)) /\ x.cur = r.cur
         /\ Linked(x) = Linked(r) \cup {i} /\ x.win[i] = w
         /\ \A j \in Linked(r) : x.win[j] = r.win[j]
<1> DEFINE x == Link(r, i, w)
           f == [j \in Linked(r) \cup {i} |-> IF j = i THEN w ELSE r.win[j]]
<1>1. /\ r \in Recs /\ r.alive /\ r.cur \in Linked(r) \cup {None} /\ LastSound(r)
      /\ Linked(r) \subseteq Indexes /\ \A j \in Linked(r) : r.win[j] \in Window
      /\ None \notin Indexes
  BY Facts, Bounds DEF Headless
<1>2. f \in Wins
  BY <1>1, WinsIs
<1>3. x = [r EXCEPT !.win = f]
  BY DEF Link
<1>4. x \in Recs /\ x.alive /\ x.win = f /\ x.cur = r.cur /\ x.last = r.last
  <2> HIDE DEF f
  <2> QED BY <1>1, <1>2, <1>3 DEF Recs
<1> HIDE DEF x
<1>5. Linked(x) = Linked(r) \cup {i} /\ x.win[i] = w /\ \A j \in Linked(r) : x.win[j] = r.win[j]
  BY <1>4 DEF Linked
<1>6. Headless(x) /\ (Sound(r) => Sound(x))
  BY <1>1, <1>4, <1>5 DEF Headless, Sound, LastSound
<1> QED BY <1>4, <1>5, <1>6 DEF x

LEMMA RestrictIs ==
  ASSUME Calm, NEW r \in Recs, NEW S \in SUBSET Linked(r)
  PROVE  Restrict(r.win, S) \in Wins /\ DOMAIN Restrict(r.win, S) = S
         /\ \A j \in S : Restrict(r.win, S)[j] = r.win[j]
<1>1. Linked(r) \subseteq Indexes /\ \A j \in Linked(r) : r.win[j] \in Window
  BY Facts
<1> QED BY <1>1, WinsIs DEF Restrict

\* The record after winlink_remove of a winlink that is not current.
LEMMA UnlinkIs ==
  ASSUME Calm, NEW r, Sound(r), NEW i \in Linked(r), i # r.cur
  PROVE  LET x == Unlink(r, i) IN
         /\ Sound(x) /\ x.cur = r.cur /\ Linked(x) = Linked(r) \ {i}
         /\ \A j \in Linked(x) : x.win[j] = r.win[j]
<1> DEFINE x == Unlink(r, i)
           f == Restrict(r.win, Linked(r) \ {i})
           d == Drop(r.last, i)
<1>1. r \in Recs /\ r.alive /\ r.cur \in Linked(r) /\ LastSound(r) /\ r.last \in Seq(Indexes)
  BY Facts DEF Sound
<1>2. f \in Wins /\ DOMAIN f = Linked(r) \ {i} /\ \A j \in Linked(r) \ {i} : f[j] = r.win[j]
  BY <1>1, RestrictIs
<1>3. d \in Seq(Indexes) /\ ToSet(d) = ToSet(r.last) \ {i} /\ Uniq(d)
  BY <1>1, DropIs DEF LastSound
<1>4. x = [r EXCEPT !.win = f, !.last = d]
  <2>1. r = [alive |-> r.alive, win |-> r.win, cur |-> r.cur, last |-> r.last]
    BY <1>1 DEF Recs
  <2> HIDE DEF f, d
  <2>2. x = [r EXCEPT !.win = f, !.last = d, !.cur = IF @ = i THEN Freed ELSE @]
    BY DEF f, d, Unlink
  <2> QED BY <2>1, <2>2
<1>5. x \in Recs /\ x.alive /\ x.win = f /\ x.cur = r.cur /\ x.last = d
  <2> HIDE DEF f, d
  <2> QED BY <1>1, <1>2, <1>3, <1>4 DEF Recs
<1> HIDE DEF x, f, d
<1>6. Linked(x) = Linked(r) \ {i} /\ \A j \in Linked(x) : x.win[j] = r.win[j]
  BY <1>2, <1>5 DEF Linked
<1>7. Sound(x)
  BY <1>1, <1>3, <1>5, <1>6 DEF Sound, LastSound
<1> QED BY <1>5, <1>6, <1>7 DEF x

\* A session whose last winlink is gone.
Emptied == [alive |-> TRUE, win |-> <<>>, cur |-> Freed, last |-> <<>>]

LEMMA NoFunction ==
  ASSUME NEW f, f = [j \in DOMAIN f |-> f[j]], DOMAIN f = {}
  PROVE  f = <<>>
  OBVIOUS

LEMMA UnlinkLast ==
  ASSUME Calm, NEW r, Sound(r), Linked(r) = {r.cur}
  PROVE  Unlink(r, r.cur) = Emptied
<1>1. r \in Recs /\ r.alive /\ LastSound(r) /\ r.last \in Seq(Indexes)
  BY Facts DEF Sound
<1>2. Restrict(r.win, Linked(r) \ {r.cur}) = <<>>
  BY NoFunction DEF Restrict
<1>3. Drop(r.last, r.cur) = <<>>
  <2>1. Drop(r.last, r.cur) \in Seq(Indexes) /\ ToSet(Drop(r.last, r.cur)) \subseteq ToSet(r.last)
    BY <1>1, DropIs
  <2>2. ToSet(r.last) = {}
    BY <1>1 DEF LastSound
  <2> QED BY <2>1, <2>2, EmptyIs
<1>4. PICK f, c, q : r = [alive |-> TRUE, win |-> f, cur |-> c, last |-> q]
  BY <1>1 DEF Recs
<1>5. Unlink(r, r.cur) = [r EXCEPT !.win = <<>>, !.last = <<>>, !.cur = Freed]
  BY <1>2, <1>3 DEF Unlink
<1> QED BY <1>4, <1>5 DEF Emptied

\* Cleared, where the current winlink may go as well.
LEMMA ClearedIs ==
  ASSUME Calm, NEW r, Sound(r), NEW i
  PROVE  LET x == Cleared(r, i) IN
         /\ Headless(x) /\ Linked(x) = Linked(r) \ {i}
         /\ x.cur = IF i = r.cur THEN None ELSE r.cur
         /\ \A j \in Linked(x) : x.win[j] = r.win[j]
<1> DEFINE x == Cleared(r, i)
           f == Restrict(r.win, Linked(r) \ {i})
           d == Drop(r.last, i)
<1>1. r \in Recs /\ r.alive /\ r.cur \in Linked(r) /\ LastSound(r) /\ r.last \in Seq(Indexes)
  BY Facts DEF Sound
<1>2. CASE i \notin Linked(r)
  <2>1. x = r
    BY <1>2 DEF Cleared
  <2> QED BY <1>1, <1>2, <2>1, SoundIsHeadless
<1>3. CASE i \in Linked(r) /\ i # r.cur
  <2>1. x = [Unlink(r, i) EXCEPT !.cur = IF @ = Freed THEN None ELSE @]
    BY <1>3 DEF Cleared
  <2> DEFINE y == Unlink(r, i)
  <2>2. /\ Sound(y) /\ y.cur = r.cur /\ Linked(y) = Linked(r) \ {i}
        /\ \A j \in Linked(y) : y.win[j] = r.win[j]
    BY <1>3, UnlinkIs
  <2>3. Freed # r.cur
    BY <1>1, Facts
  <2> HIDE DEF y
  <2>4. x = y
    <3>1. y = [alive |-> y.alive, win |-> y.win, cur |-> y.cur, last |-> y.last]
      BY <2>2 DEF Sound, Recs
    <3>2. x = [y EXCEPT !.cur = IF @ = Freed THEN None ELSE @]
      BY <2>1 DEF y
    <3> QED BY <2>2, <2>3, <3>1, <3>2
  <2> QED BY <1>3, <2>2, <2>4, SoundIsHeadless
<1>4. CASE i = r.cur
  <2>1. f \in Wins /\ DOMAIN f = Linked(r) \ {i} /\ \A j \in Linked(r) \ {i} : f[j] = r.win[j]
    BY <1>1, RestrictIs
  <2>2. d \in Seq(Indexes) /\ ToSet(d) = ToSet(r.last) \ {i} /\ Uniq(d)
    BY <1>1, DropIs DEF LastSound
  <2>3. Unlink(r, i) = [r EXCEPT !.win = f, !.last = d, !.cur = IF @ = i THEN Freed ELSE @]
    BY DEF Unlink
  <2>4. x = [Unlink(r, i) EXCEPT !.cur = IF @ = Freed THEN None ELSE @]
    BY <1>1, <1>4 DEF Cleared
  <2> HIDE DEF f, d
  <2>5. x \in Recs /\ x.alive /\ x.win = f /\ x.cur = None /\ x.last = d
    <3>1. r = [alive |-> r.alive, win |-> r.win, cur |-> r.cur, last |-> r.last]
      BY <1>1 DEF Recs
    <3>2. Unlink(r, i) = [alive |-> r.alive, win |-> f, cur |-> Freed, last |-> d]
      BY <1>4, <2>3, <3>1
    <3>3. x = [alive |-> r.alive, win |-> f, cur |-> None, last |-> d]
      BY <2>4, <3>2
    <3> HIDE DEF x
    <3> QED BY <1>1, <2>1, <2>2, <3>3 DEF Recs
  <2> HIDE DEF x
  <2>6. Linked(x) = Linked(r) \ {i} /\ \A j \in Linked(x) : x.win[j] = r.win[j]
    BY <2>1, <2>5 DEF Linked
  <2>7. Headless(x)
    BY <1>1, <1>4, <2>2, <2>5, <2>6, Facts DEF Headless, LastSound
  <2> QED BY <1>4, <2>5, <2>6, <2>7 DEF x
<1> QED BY <1>2, <1>3, <1>4

\* A session r takes over the winlinks of t, when all but one of its own are
\* among them and one of its own at least.
LEMMA Synchronize1Is ==
  ASSUME Calm, NEW t, Sound(t), NEW r, Sound(r),
         NEW i, Linked(r) \ {i} \subseteq Linked(t), Linked(r) \cap Linked(t) # {}
  PROVE  Sound(Synchronize1(t, r)) /\ Synchronize1(t, r).win = t.win
<1> DEFINE x == Synchronize1(t, r)
           m == IF r.cur # None /\ r.cur \notin Linked(t) THEN MoveOff(r) ELSE r
<1>1. /\ Sound(m) /\ m.win = r.win /\ m.cur \in Linked(t)
  <2>1. r.cur \in Linked(r) /\ r.cur # None
    BY Facts DEF Sound
  <2>2. CASE r.cur \in Linked(t)
    BY <2>2
  <2>3. CASE r.cur \notin Linked(t)
    <3>1. r.cur = i /\ Linked(r) # {r.cur}
      BY <2>1, <2>3
    <3>2. m = MoveOff(r)
      BY <2>1, <2>3
    <3>3. Sound(MoveOff(r)) /\ MoveOff(r).win = r.win /\ MoveOff(r).cur \in Linked(r) \ {i}
      BY <3>1, MoveOffIs
    <3> QED BY <3>2, <3>3
  <2> QED BY <2>2, <2>3
<1>2. /\ m \in Recs /\ m.alive /\ LastSound(m) /\ m.last \in Seq(Indexes)
      /\ t \in Recs /\ t.win \in Wins /\ m.cur # None /\ Linked(t) # {}
  BY <1>1, Facts DEF Sound
<1> DEFINE d == Only(m.last, Linked(t))
<1>3. d \in Seq(Indexes) /\ ToSet(d) = ToSet(m.last) \cap Linked(t) /\ Uniq(d)
  BY <1>2, OnlyIs DEF LastSound
<1> HIDE DEF m
<1>4. x = [m EXCEPT !.win = t.win, !.cur = m.cur, !.last = d]
  BY <1>1, <1>2 DEF Synchronize1, m
<1> HIDE DEF d
<1>5. x \in Recs /\ x.alive /\ x.win = t.win /\ x.cur = m.cur /\ x.last = d
  BY <1>2, <1>3, <1>4 DEF Recs
<1> HIDE DEF x
<1>6. Sound(x)
  BY <1>1, <1>2, <1>3, <1>5 DEF Sound, LastSound, Linked
<1> QED BY <1>5, <1>6 DEF x

LEMMA SortedIs ==
  ASSUME Calm, NEW I \in SUBSET (Indexes \cup Session)
  PROVE  /\ Sorted(I) \in Seq(Nat) /\ Uniq(Sorted(I)) /\ ToSet(Sorted(I)) = I
         /\ Len(Sorted(I)) \in Nat /\ DOMAIN Sorted(I) = 1..Len(Sorted(I))
         /\ \A k \in 1..Len(Sorted(I)) : Sorted(I)[k] \in I
         /\ \A i \in I : \E k \in 1..Len(Sorted(I)) : Sorted(I)[k] = i
<1>1. IsFiniteSet(I) /\ I \subseteq Int /\ I \subseteq Nat
  <2>1. IsFiniteSet(Indexes \cup Session)
    BY Bounds, SessionsAssumption, FS_Union
  <2>2. Indexes \cup Session \subseteq Nat
    BY Bounds, SessionsAssumption
  <2> QED BY <2>1, <2>2, FS_Subset
<1>2. /\ Sorted(I) \in Seq(I) /\ Len(Sorted(I)) = Cardinality(I) /\ Cardinality(I) \in Nat
      /\ \A k \in 1..Len(Sorted(I)) : Sorted(I)[k] \in I
      /\ \A j, k \in 1..Len(Sorted(I)) : Sorted(I)[j] = Sorted(I)[k] => j = k
      /\ \A i \in I : \E k \in 1..Len(Sorted(I)) : Sorted(I)[k] = i
  BY <1>1, InOrder
<1>3. /\ DOMAIN Sorted(I) = 1..Len(Sorted(I))
      /\ ToSet(Sorted(I)) = {Sorted(I)[k] : k \in 1..Len(Sorted(I))}
  BY <1>2, SeqFacts
<1>4. Sorted(I) \in Seq(Nat)
  <2>1. \A k \in 1..Len(Sorted(I)) : Sorted(I)[k] \in Nat
    BY <1>1, <1>2
  <2>2. Sorted(I) = [k \in 1..Len(Sorted(I)) |-> Sorted(I)[k]] /\ Len(Sorted(I)) \in Nat
    BY <1>2, SeqFacts
  <2> DEFINE t == Sorted(I)
  <2> HIDE DEF t
  <2>3. t \in [1..Len(t) -> Nat] /\ Len(t) \in Nat
    BY <2>1, <2>2 DEF t
  <2>4. t \in Seq(Nat)
    BY <2>3
  <2> QED BY <2>4 DEF t
<1> QED BY <1>2, <1>3, <1>4 DEF Uniq

LEMMA RenumberIs ==
  ASSUME Calm, Base + Cardinality(Window) <= MaxIndex + 1, NEW r, Sound(r), OnceEach(r)
  PROVE  Sound(Renumber(r)) /\ OnceEach(Renumber(r))
<1> DEFINE x == Renumber(r)
           old == Sorted(Linked(r))
           n == Len(old)
           new == [k \in 1..n |-> Base + k - 1]
           NewIndex(i) == new[CHOOSE k \in 1..n : old[k] = i]
           First(i) == NewIndex(Min(Links(r, r.win[i])))
           f == [i \in Range(new) |-> r.win[old[i - Base + 1]]]
           l == [k \in 1..Len(r.last) |-> First(r.last[k])]
<1>1. /\ r \in Recs /\ r.alive /\ r.cur \in Linked(r) /\ LastSound(r) /\ r.last \in Seq(Indexes)
      /\ Linked(r) \subseteq Indexes /\ \A i \in Linked(r) : r.win[i] \in Window
  BY Facts DEF Sound
<1>2. /\ n \in Nat /\ Uniq(old) /\ \A k \in 1..n : old[k] \in Linked(r)
      /\ \A i \in Linked(r) : \E k \in 1..n : old[k] = i
  BY <1>1, SortedIs
<1>3. Base \in Nat /\ MaxIndex \in Nat /\ IsFiniteSet(Window) /\ Indexes = 0..MaxIndex
  BY Bounds, OptionsAssumption DEF Indexes
<1> HIDE DEF old
<1>4. n <= Cardinality(Window) /\ Cardinality(Window) \in Nat
  <2> DEFINE g == [k \in 1..n |-> r.win[old[k]]]
  <2>1. g \in [1..n -> Window] /\ \A j, k \in 1..n : g[j] = g[k] => j = k
    BY <1>1, <1>2 DEF OnceEach, Uniq
  <2>2. g \in Injection(1..n, Window)
    BY <2>1 DEF Injection, IsInjective
  <2>3. Cardinality(1..n) <= Cardinality(Window)
    BY <1>3, <2>2, FS_Injection
  <2>4. Cardinality(1..n) = n
    BY <1>2, FS_Interval
  <2>5. Cardinality(Window) \in Nat
    BY <1>3, FS_CardinalityType
  <2> QED BY <2>3, <2>4, <2>5
<1>5. /\ Range(new) = {Base + k - 1 : k \in 1..n} /\ Range(new) \subseteq Indexes
      /\ \A k \in 1..n : new[k] = Base + k - 1
  BY <1>2, <1>3, <1>4 DEF Range
<1>6. ASSUME NEW i \in Linked(r)
      PROVE  \E k \in 1..n : old[k] = i /\ NewIndex(i) = Base + k - 1
  BY <1>2, <1>5
<1>7. \A i \in Linked(r) : NewIndex(i) \in Range(new) /\ NewIndex(i) \in Indexes
  BY <1>5, <1>6
<1>8. \A i, j \in Linked(r) : NewIndex(i) = NewIndex(j) => i = j
  <2> SUFFICES ASSUME NEW i \in Linked(r), NEW j \in Linked(r), NewIndex(i) = NewIndex(j) PROVE i = j
    OBVIOUS
  <2>1. PICK a \in 1..n : old[a] = i /\ NewIndex(i) = Base + a - 1
    BY <1>6
  <2>2. PICK b \in 1..n : old[b] = j /\ NewIndex(j) = Base + b - 1
    BY <1>6
  <2>3. a = b
    <3>1. Base + a - 1 = Base + b - 1
      BY <2>1, <2>2
    <3>2. a \in Int /\ b \in Int /\ Base \in Int
      BY <1>2, <1>3
    <3> QED BY <3>1, <3>2
  <2> QED BY <2>1, <2>2, <2>3
<1>9. \A i \in Linked(r) : First(i) = NewIndex(i)
  <2> SUFFICES ASSUME NEW i \in Linked(r) PROVE Min(Links(r, r.win[i])) = i
    OBVIOUS
  <2>1. Links(r, r.win[i]) = {i}
    BY DEF Links, OnceEach
  <2> QED BY <1>1, <1>3, <2>1, OneMin
<1> HIDE DEF new, NewIndex, First
<1>10. f \in Wins /\ DOMAIN f = Range(new)
  <2>1. ASSUME NEW i \in Range(new) PROVE r.win[old[i - Base + 1]] \in Window
    <3>1. PICK k \in 1..n : i = Base + k - 1
      BY <1>5, <2>1
    <3>2. i - Base + 1 = k
      BY <1>3, <3>1
    <3> QED BY <1>1, <1>2, <3>2
  <2> QED BY <1>5, <2>1, WinsIs
<1>11. /\ Len(r.last) \in Nat /\ \A k \in 1..Len(r.last) : r.last[k] \in Linked(r) \ {r.cur}
       /\ \A j, k \in 1..Len(r.last) : r.last[j] = r.last[k] => j = k
  BY <1>1, SeqFacts DEF LastSound, Uniq
<1>12. /\ l \in Seq(Indexes) /\ Len(l) = Len(r.last)
       /\ \A k \in 1..Len(r.last) : l[k] = NewIndex(r.last[k])
  <2>1. \A k \in 1..Len(r.last) :
          First(r.last[k]) = NewIndex(r.last[k]) /\ NewIndex(r.last[k]) \in Indexes
    BY <1>7, <1>9, <1>11
  <2> QED BY <1>11, <2>1
<1>13. x = [r EXCEPT !.win = f, !.cur = NewIndex(r.cur), !.last = l]
  <2>1. x = [r EXCEPT !.win = f, !.cur = IF @ \in Linked(r) THEN NewIndex(@)
                                          ELSE IF 0 \in Range(new) THEN 0 ELSE None,
                      !.last = [k \in 1..Len(@) |-> First(@[k])]]
    BY DEF Renumber, old, new, NewIndex, First
  <2> QED BY <1>1, <2>1 DEF Recs
<1> HIDE DEF f, l
<1>14. x \in Recs /\ x.alive /\ x.win = f /\ x.cur = NewIndex(r.cur) /\ x.last = l
  BY <1>1, <1>7, <1>10, <1>12, <1>13 DEF Recs
<1> HIDE DEF x
<1>15. Linked(x) = Range(new)
  BY <1>10, <1>14 DEF Linked
<1>16. LastSound(x)
  <2>1. Uniq(l)
    BY <1>8, <1>11, <1>12 DEF Uniq
  <2>2. ToSet(l) = {l[k] : k \in 1..Len(r.last)}
    BY <1>12, SeqFacts
  <2>3. \A k \in 1..Len(r.last) : l[k] \in Range(new) /\ l[k] # NewIndex(r.cur)
    BY <1>1, <1>7, <1>8, <1>11, <1>12
  <2> QED BY <1>14, <1>15, <2>1, <2>2, <2>3 DEF LastSound
<1>17. Sound(x)
  BY <1>1, <1>7, <1>14, <1>15, <1>16 DEF Sound
<1>18. OnceEach(x)
  <2> SUFFICES ASSUME NEW i \in Range(new), NEW j \in Range(new), f[i] = f[j] PROVE i = j
    BY <1>14, <1>15 DEF OnceEach
  <2>1. PICK a \in 1..n : i = Base + a - 1
    BY <1>5
  <2>2. PICK b \in 1..n : j = Base + b - 1
    BY <1>5
  <2>3. i - Base + 1 = a /\ j - Base + 1 = b
    BY <1>3, <2>1, <2>2
  <2>4. f[i] = r.win[old[a]] /\ f[j] = r.win[old[b]]
    BY <2>3 DEF f
  <2>5. a = b
    BY <1>2, <2>4 DEF OnceEach, Uniq
  <2> QED BY <2>1, <2>2, <2>5
<1> QED BY <1>17, <1>18 DEF x

LEMMA RenumberDead ==
  ASSUME Calm
  PROVE  Renumber(Dead) = Dead
<1> DEFINE old == Sorted({})
           n == Len(old)
           new == [k \in 1..n |-> Base + k - 1]
           NewIndex(i) == new[CHOOSE k \in 1..n : old[k] = i]
           First(i) == NewIndex(Min(Links(Dead, Dead.win[i])))
<1>1. Linked(Dead) = {} /\ Dead = [alive |-> FALSE, win |-> <<>>, cur |-> None, last |-> <<>>]
  BY DEF Dead, Linked
<1>2. n = 0
  BY SortedIs
<1>3. Range(new) = {}
  BY <1>2 DEF Range
<1>4. Renumber(Dead) = [Dead EXCEPT !.win = [i \in Range(new) |-> Dead.win[old[i - Base + 1]]],
                                    !.cur = IF @ \in {} THEN NewIndex(@)
                                            ELSE IF 0 \in Range(new) THEN 0 ELSE None,
                                    !.last = [k \in 1..Len(@) |-> First(@[k])]]
  BY <1>1 DEF Renumber
<1> HIDE DEF new, old, NewIndex, First
<1>5. [i \in Range(new) |-> Dead.win[old[i - Base + 1]]] = <<>>
  BY <1>3, NoFunction
<1>6. [k \in 1..Len(Dead.last) |-> First(Dead.last[k])] = <<>>
  <2>1. Dead.last = <<>> /\ 1..Len(<<>>) = {}
    BY <1>1
  <2> QED BY <2>1, NoFunction
<1> QED BY <1>1, <1>3, <1>4, <1>5, <1>6

(***************************************************************************)
(* Room is made at index i.                                                *)
(***************************************************************************)
LEMMA UpIs ==
  ASSUME Calm, NEW r \in Recs, NEW i \in Nat, Room(r, i)
  PROVE  /\ \A j \in Linked(r) : Up(r, i, j) \in Indexes /\ Up(r, i, j) # i
         /\ \A j, k \in Linked(r) : Up(r, i, j) = Up(r, i, k) => j = k
<1> DEFINE F == {k \in i..MaxIndex : k \notin Linked(r)}
           free == Min(F)
<1>1. MaxIndex \in Nat /\ Linked(r) \subseteq 0..MaxIndex
  BY Bounds, Facts DEF Indexes
<1>2. free \in F
  <2>1. F # {} /\ F \subseteq i..MaxIndex
    BY DEF Room
  <2>2. IsFiniteSet(i..MaxIndex)
    BY <1>1, FS_Interval
  <2> HIDE DEF F
  <2>3. IsFiniteSet(F)
    BY <2>1, <2>2, FS_Subset, Zenon
  <2>4. F \subseteq Int
    BY <1>1, <2>1
  <2> QED BY <2>1, <2>3, <2>4, MinOf
<1>3. \A j : Up(r, i, j) = IF j \in i..free THEN j + 1 ELSE j
  BY DEF Up
<1>4. free \in i..MaxIndex /\ free \notin Linked(r)
  BY <1>2
<1> HIDE DEF free
<1>5. ASSUME NEW j \in Linked(r) PROVE Up(r, i, j) \in Indexes /\ Up(r, i, j) # i
  BY <1>1, <1>3, <1>4 DEF Indexes
<1>6. ASSUME NEW j \in Linked(r), NEW k \in Linked(r), Up(r, i, j) = Up(r, i, k) PROVE j = k
  BY <1>1, <1>3, <1>4, <1>6
<1> QED BY <1>5, <1>6

LEMMA ShuffleUpIs ==
  ASSUME Calm, NEW r, Sound(r), NEW i \in Nat, Room(r, i)
  PROVE  LET x == ShuffleUp(r, i) IN
         /\ Sound(x) /\ i \notin Linked(x)
         /\ \A j \in Linked(r) : Up(r, i, j) \in Linked(x) /\ x.win[Up(r, i, j)] = r.win[j]
         /\ \A k \in Linked(x) : \E j \in Linked(r) : k = Up(r, i, j)
<1> DEFINE x == ShuffleUp(r, i)
           U(j) == Up(r, i, j)
           f == [k \in {U(j) : j \in Linked(r)} |-> r.win[CHOOSE j \in Linked(r) : U(j) = k]]
           l == [k \in 1..Len(r.last) |-> U(r.last[k])]
<1>1. /\ r \in Recs /\ r.alive /\ r.cur \in Linked(r) /\ LastSound(r) /\ r.last \in Seq(Indexes)
      /\ Linked(r) \subseteq Indexes /\ (\A j \in Linked(r) : r.win[j] \in Window)
      /\ None \notin Linked(r)
  BY Facts DEF Sound
<1>2. /\ \A j \in Linked(r) : U(j) \in Indexes /\ U(j) # i
      /\ \A j, k \in Linked(r) : U(j) = U(k) => j = k
  BY <1>1, UpIs
<1>3. x = [r EXCEPT !.win = f, !.cur = U(r.cur), !.last = l]
  <2>1. x = [r EXCEPT !.win = f, !.cur = IF @ = None THEN None ELSE U(@),
                      !.last = [k \in 1..Len(@) |-> U(@[k])]]
    BY DEF ShuffleUp
  <2> HIDE DEF U, f
  <2> QED BY <1>1, <2>1 DEF Recs
<1> HIDE DEF U
<1>4. f \in Wins /\ DOMAIN f = {U(j) : j \in Linked(r)} /\ \A j \in Linked(r) : f[U(j)] = r.win[j]
  <2>1. \A j \in Linked(r) : f[U(j)] = r.win[j]
    BY <1>2
  <2>2. DOMAIN f \subseteq Indexes /\ \A k \in DOMAIN f : f[k] \in Window
    BY <1>1, <1>2, <2>1
  <2>3. f = [k \in DOMAIN f |-> f[k]] /\ DOMAIN f = {U(j) : j \in Linked(r)}
    OBVIOUS
  <2> HIDE DEF f
  <2> QED BY <2>1, <2>2, <2>3, WinsIs
<1>5. /\ Len(r.last) \in Nat /\ \A k \in 1..Len(r.last) : r.last[k] \in Linked(r) \ {r.cur}
      /\ \A j, k \in 1..Len(r.last) : r.last[j] = r.last[k] => j = k
  BY <1>1, SeqFacts DEF LastSound, Uniq
<1>6. l \in Seq(Indexes) /\ Len(l) = Len(r.last)
  BY <1>2, <1>5
<1>7. Uniq(l) /\ ToSet(l) \subseteq DOMAIN f \ {U(r.cur)}
  <2>1. Uniq(l)
    BY <1>2, <1>5, <1>6 DEF Uniq
  <2>2. ToSet(l) = {l[k] : k \in 1..Len(r.last)}
    <3> HIDE DEF l
    <3> QED BY <1>6, SeqFacts
  <2>3. \A k \in 1..Len(r.last) : l[k] \in DOMAIN f /\ l[k] # U(r.cur)
    BY <1>1, <1>2, <1>4, <1>5
  <2> QED BY <2>1, <2>2, <2>3
<1> HIDE DEF f, l
<1>8. x \in Recs /\ x.alive /\ x.win = f /\ x.cur = U(r.cur) /\ x.last = l
  BY <1>1, <1>2, <1>3, <1>4, <1>6 DEF Recs
<1> HIDE DEF x
<1>9. Linked(x) = {U(j) : j \in Linked(r)}
  BY <1>4, <1>8 DEF Linked
<1>10. Sound(x)
  BY <1>1, <1>4, <1>7, <1>8, <1>9 DEF Sound, LastSound
<1> QED BY <1>2, <1>4, <1>8, <1>9, <1>10 DEF x, U

LEMMA ShuffleOnce ==
  ASSUME Calm, NEW r, Sound(r), NEW i \in Nat, Room(r, i), OnceEach(r)
  PROVE  OnceEach(ShuffleUp(r, i))
<1> DEFINE x == ShuffleUp(r, i)
<1> SUFFICES ASSUME NEW k \in Linked(x), NEW m \in Linked(x), x.win[k] = x.win[m] PROVE k = m
  BY DEF OnceEach
<1>1. /\ \A j \in Linked(r) : x.win[Up(r, i, j)] = r.win[j]
      /\ \A j \in Linked(x) : \E h \in Linked(r) : j = Up(r, i, h)
  BY ShuffleUpIs
<1>2. PICK a \in Linked(r) : k = Up(r, i, a)
  BY <1>1
<1>3. PICK b \in Linked(r) : m = Up(r, i, b)
  BY <1>1
<1> QED BY <1>1, <1>2, <1>3 DEF OnceEach
-----------------------------------------------------------------------------
(***************************************************************************)
(* All sessions. Loose is what holds while a group ends: sessions of D may *)
(* be empty and do not share their winlinks. With no session in D this is  *)
(* what holds after every command.                                         *)
(***************************************************************************)
States == [sess : [Session -> Recs], groups : [Session -> Seq(Session)],
           att : [Client -> Session \cup {None}], noted : SUBSET Window]

Share(st, g) == \A s, x \in ToSet(g) : st.sess[s].win = st.sess[x].win

Groups(st) == {st.groups[n] : n \in Session} \ {<<>>}

GroupsOf(st, D) ==
  /\ \A g \in Groups(st) : /\ g # <<>> /\ Uniq(g) /\ (\A s \in ToSet(g) : st.sess[s].alive)
                           /\ ToSet(g) \subseteq D \/ Share(st, g)
  /\ \A m, n \in Session : m # n => ToSet(st.groups[m]) \cap ToSet(st.groups[n]) = {}

Homes(st) == \A c \in Client : st.att[c] # None => st.sess[st.att[c]].alive

SessOk(st, D) ==
  \A s \in Session :
    /\ st.sess[s] = Dead \/ Sound(st.sess[s]) \/ (s \in D /\ st.sess[s] = Emptied)
    /\ "again" \notin Uses /\ s \notin D => OnceEach(st.sess[s])

Loose(st, D) == st \in States /\ SessOk(st, D) /\ GroupsOf(st, D) /\ Homes(st)

LEMMA NoWins == <<>> \in Wins
<1> DEFINE f == [i \in {} |-> 0]
<1>1. DOMAIN f = {} /\ f = [i \in DOMAIN f |-> f[i]]
  OBVIOUS
<1> HIDE DEF f
<1>2. f \in Wins
  BY <1>1, WinsIs
<1> QED BY <1>1, <1>2, NoFunction

LEMMA WindowsOf ==
  ASSUME Calm, NEW r \in Recs
  PROVE  Range(r.win) \in SUBSET Window
<1>1. \A i \in Linked(r) : r.win[i] \in Window
  BY Facts
<1> QED BY <1>1 DEF Range, Linked

LEMMA DeadIs ==
  /\ Dead \in Recs /\ ~Dead.alive /\ Dead.cur = None /\ Linked(Dead) = {} /\ OnceEach(Dead)
  /\ Dead.win = <<>>
<1>1. <<>> \in Wins
  BY NoWins
<1>2. <<>> \in Seq(Indexes) /\ DOMAIN <<>> = {}
  OBVIOUS
<1> QED BY <1>1, <1>2 DEF Dead, Recs, Linked, OnceEach

LEMMA EmptiedIs ==
  ASSUME Calm
  PROVE  /\ Emptied \in Recs /\ Emptied.alive /\ Emptied.cur # None /\ Linked(Emptied) = {}
         /\ OnceEach(Emptied) /\ Emptied # Dead
<1>1. <<>> \in Wins
  BY NoWins
<1>2. <<>> \in Seq(Indexes) /\ DOMAIN <<>> = {} /\ None # Freed
  BY PointersAssumption
<1>3. Emptied.alive /\ ~Dead.alive
  BY DEF Emptied, Dead
<1> QED BY <1>1, <1>2, <1>3 DEF Emptied, Recs, Linked, OnceEach

LEMMA SoundIsAlive ==
  ASSUME Calm, NEW r, Sound(r)
  PROVE  r.alive /\ r.cur # None /\ Linked(r) # {} /\ r # Dead /\ r # Emptied
<1>1. r.alive /\ r.cur \in Linked(r) /\ None \notin Linked(r)
  BY Facts DEF Sound
<1> QED BY <1>1, DeadIs, EmptiedIs

LEMMA NoteIs ==
  ASSUME Calm, NEW st \in States, NEW W \in SUBSET Window
  PROVE  /\ Note(st, W) \in States /\ Note(st, W).sess = st.sess
         /\ Note(st, W).groups = st.groups /\ Note(st, W).att = st.att
  BY DEF Note, States

LEMMA SameSessions ==
  ASSUME NEW st, NEW D, SessOk(st, D), GroupsOf(st, D),
         NEW x, x.sess = st.sess, x.groups = st.groups
  PROVE  SessOk(x, D) /\ GroupsOf(x, D)
<1>1. SessOk(x, D)
  BY DEF SessOk
<1>2. Groups(x) = Groups(st)
  BY DEF Groups
<1>3. \A g : Share(st, g) => Share(x, g)
  BY DEF Share
<1> QED BY <1>1, <1>2, <1>3 DEF GroupsOf

LEMMA NoteKeeps ==
  ASSUME Calm, NEW st, NEW D, Loose(st, D), NEW W \in SUBSET Window
  PROVE  Loose(Note(st, W), D)
<1> DEFINE x == Note(st, W)
<1>1. x \in States /\ x.sess = st.sess /\ x.groups = st.groups /\ x.att = st.att
  BY NoteIs DEF Loose
<1> HIDE DEF x
<1> QED BY <1>1, SameSessions DEF Loose, Homes, x

LEMMA GroupFacts ==
  ASSUME NEW st \in States, NEW g \in Groups(st)
  PROVE  /\ g \in Seq(Session) /\ ToSet(g) \subseteq Session
         /\ \A s : Contains(g, s) <=> s \in ToSet(g)
<1>1. g \in Seq(Session)
  BY DEF States, Groups
<1>2. ToSet(g) = {g[k] : k \in 1..Len(g)} /\ ToSet(g) \subseteq Session
  BY <1>1, SeqFacts
<1> QED BY <1>1, <1>2 DEF Contains

LEMMA Distinct ==
  ASSUME NEW st, NEW D, GroupsOf(st, D), NEW g \in Groups(st), NEW h \in Groups(st), g # h
  PROVE  ToSet(g) \cap ToSet(h) = {}
<1>1. PICK m \in Session : g = st.groups[m]
  BY DEF Groups
<1>2. PICK n \in Session : h = st.groups[n]
  BY DEF Groups
<1> QED BY <1>1, <1>2 DEF GroupsOf

LEMMA NameIs ==
  ASSUME NEW st \in States, NEW s
  PROVE  /\ NameOf(st, s) = None => \A n \in Session : s \notin ToSet(st.groups[n])
         /\ NameOf(st, s) # None => /\ NameOf(st, s) \in Session
                                   /\ s \in ToSet(st.groups[NameOf(st, s)])
<1>1. \A n \in Session : Contains(st.groups[n], s) <=> s \in ToSet(st.groups[n])
  <2>1. \A n \in Session : st.groups[n] \in Seq(Session)
    BY DEF States
  <2> QED BY <2>1, SeqFacts DEF Contains
<1>2. None \notin Session
  BY SessionsAssumption, PointersAssumption
<1> QED BY <1>1, <1>2 DEF NameOf

LEMMA SameNames ==
  ASSUME NEW x, NEW y, x.groups = y.groups
  PROVE  \A s : GroupOf(x, s) = GroupOf(y, s) /\ Mates(x, s) = Mates(y, s)
<1>1. \A s : NameOf(x, s) = NameOf(y, s)
  BY DEF NameOf
<1> QED BY <1>1 DEF GroupOf, Mates

LEMMA NotEmpty ==
  ASSUME NEW g, NEW s \in ToSet(g)
  PROVE  g # <<>>
BY DEF ToSet

LEMMA GroupOfIs ==
  ASSUME NEW st \in States, NEW D, GroupsOf(st, D), NEW s
  PROVE  /\ \A g \in Groups(st) : s \in ToSet(g) => GroupOf(st, s) = g
         /\ GroupOf(st, s) = <<>> \/ (GroupOf(st, s) \in Groups(st) /\ s \in ToSet(GroupOf(st, s)))
         /\ GroupOf(st, s) = <<>> => \A g \in Groups(st) : s \notin ToSet(g)
         /\ GroupOf(st, s) \in Seq(Session) /\ Mates(st, s) \subseteq Session
         /\ Mates(st, s) = ToSet(GroupOf(st, s)) \ {s}
<1>1. \A g \in Groups(st) : g \in Seq(Session) /\ ToSet(g) \subseteq Session /\ g # <<>>
  BY GroupFacts DEF GroupsOf
<1>2. CASE NameOf(st, s) # None
  <2>1. GroupOf(st, s) \in Groups(st) /\ s \in ToSet(GroupOf(st, s))
    BY <1>2, NameIs, NotEmpty DEF GroupOf, Groups
  <2>2. \A g \in Groups(st) : s \in ToSet(g) => GroupOf(st, s) = g
    BY <2>1, Distinct
  <2>3. GroupOf(st, s) # <<>>
    BY <2>1, NotEmpty
  <2> QED BY <1>1, <2>1, <2>2, <2>3 DEF Mates
<1>3. CASE NameOf(st, s) = None
  <2>1. GroupOf(st, s) = <<>>
    BY <1>3 DEF GroupOf
  <2>2. <<>> \in Seq(Session) /\ ToSet(<<>>) = {}
    BY DEF ToSet
  <2>3. \A g \in Groups(st) : s \notin ToSet(g)
    BY <1>3, NameIs DEF Groups
  <2> QED BY <2>1, <2>2, <2>3 DEF Mates
<1> QED BY <1>2, <1>3

-----------------------------------------------------------------------------
(***************************************************************************)
(* The end of a session.                                                   *)
(***************************************************************************)
\* Sessions have ended, and nothing else has happened to any.
Fewer(st, x) == \A y \in Session : x.sess[y] = st.sess[y] \/ x.sess[y] = Dead

LEMMA DestroyKeeps ==
  ASSUME Calm, NEW st, NEW D, Loose(st, D), NEW s \in Session, ~Attached(st.att, s)
  PROVE  LET x == Destroy(st, s) IN
         /\ Loose(x, D) /\ x.sess[s] = Dead /\ x.att = st.att
         /\ \A y \in Session : y # s => x.sess[y] = st.sess[y]
<1> DEFINE x == Destroy(st, s)
<1>1. /\ st \in States /\ SessOk(st, D) /\ GroupsOf(st, D) /\ Homes(st)
      /\ st.sess \in [Session -> Recs] /\ st.groups \in [Session -> Seq(Session)]
      /\ st.att \in [Client -> Session \cup {None}]
  BY DEF Loose, States
<1>2. CASE st.sess[s].cur = None
  <2>1. x = st
    BY <1>2 DEF Destroy
  <2>2. st.sess[s] = Dead
    BY <1>1, <1>2, SoundIsAlive, EmptiedIs DEF SessOk
  <2> QED BY <2>1, <2>2
<1>3. CASE st.sess[s].cur # None
  <2> DEFINE G == [n \in Session |-> Drop(st.groups[n], s)]
             y == [st EXCEPT !.sess[s] = Dead, !.groups = G]
             W == Range(st.sess[s].win)
  <2>1. x = Note(y, W)
    BY <1>3 DEF Destroy
  <2>2. W \in SUBSET Window
    BY <1>1, WindowsOf
  <2>3. \A n \in Session : /\ Uniq(st.groups[n]) /\ Drop(st.groups[n], s) \in Seq(Session)
                           /\ ToSet(Drop(st.groups[n], s)) = ToSet(st.groups[n]) \ {s}
                           /\ Uniq(Drop(st.groups[n], s))
    <3>1. ASSUME NEW n \in Session PROVE Uniq(st.groups[n])
      <4>1. CASE st.groups[n] = <<>>
        BY <4>1 DEF Uniq
      <4>2. CASE st.groups[n] # <<>>
        BY <1>1, <4>2 DEF GroupsOf, Groups
      <4> QED BY <4>1, <4>2
    <3> QED BY <1>1, <3>1, DropIs
  <2>4. G \in [Session -> Seq(Session)]
    BY <2>3
  <2> HIDE DEF G, W
  <2>5. /\ y \in States /\ y.sess = [st.sess EXCEPT ![s] = Dead] /\ y.groups = G /\ y.att = st.att
    BY <1>1, <2>4, DeadIs DEF States
  <2>6. y.sess[s] = Dead /\ \A z \in Session : z # s => y.sess[z] = st.sess[z]
    BY <1>1, <2>5
  <2> HIDE DEF y
  <2>7. SessOk(y, D)
    BY <1>1, <2>6, DeadIs DEF SessOk
  <2>8. GroupsOf(y, D)
    <3>1. ASSUME NEW g \in Groups(y)
          PROVE  \E h \in Groups(st) : ToSet(g) = ToSet(h) \ {s} /\ Uniq(g) /\ g # <<>>
      <4>1. PICK n \in Session : g = Drop(st.groups[n], s)
        BY <2>5 DEF Groups, G
      <4>2. g # <<>> /\ g \in Seq(Session)
        BY <2>3, <4>1 DEF Groups
      <4>3. st.groups[n] # <<>>
        <5>1. PICK z : z \in ToSet(g)
          BY <4>2, EmptyIs
        <5> QED BY <2>3, <4>1, <5>1, NotEmpty
      <4> QED BY <2>3, <4>1, <4>2, <4>3 DEF Groups
    <3>2. ASSUME NEW g \in Groups(y)
          PROVE  /\ g # <<>> /\ Uniq(g) /\ (\A z \in ToSet(g) : y.sess[z].alive)
                 /\ ToSet(g) \subseteq D \/ Share(y, g)
      <4>1. PICK h \in Groups(st) : ToSet(g) = ToSet(h) \ {s} /\ Uniq(g) /\ g # <<>>
        BY <3>1
      <4>2. ToSet(h) \subseteq Session
        BY <1>1, GroupFacts
      <4>3. (\A z \in ToSet(h) : st.sess[z].alive) /\ (ToSet(h) \subseteq D \/ Share(st, h))
        BY <1>1 DEF GroupsOf
      <4>4. \A z \in ToSet(g) : z \in ToSet(h) /\ y.sess[z] = st.sess[z]
        BY <2>6, <4>1, <4>2
      <4> QED BY <4>1, <4>3, <4>4 DEF Share
    <3>3. ASSUME NEW m \in Session, NEW n \in Session, m # n
          PROVE  ToSet(y.groups[m]) \cap ToSet(y.groups[n]) = {}
      <4>1. /\ ToSet(y.groups[m]) \subseteq ToSet(st.groups[m])
            /\ ToSet(y.groups[n]) \subseteq ToSet(st.groups[n])
        BY <2>3, <2>5 DEF G
      <4> QED BY <1>1, <3>3, <4>1 DEF GroupsOf
    <3> QED BY <3>2, <3>3 DEF GroupsOf
  <2>9. Homes(y)
    BY <1>1, <2>5, <2>6 DEF Homes, Attached
  <2>10. Loose(y, D)
    BY <2>5, <2>7, <2>8, <2>9 DEF Loose
  <2>11. Loose(x, D) /\ x.sess = y.sess /\ x.att = y.att
    BY <2>1, <2>2, <2>5, <2>10, NoteKeeps, NoteIs
  <2> QED BY <2>5, <2>6, <2>11
<1> QED BY <1>2, <1>3

LEMMA CheckUnattachedKeeps ==
  ASSUME Calm, NEW st, NEW D, Loose(st, D), NEW homes,
         \A s \in Session : Attached(st.att, s) => Attached(homes, s)
  PROVE  LET x == CheckUnattached(st, homes) IN
         /\ Loose(x, D) /\ x.att = st.att /\ Fewer(st, x)
         /\ \A s \in Session : Attached(homes, s) \/ Unattached = "off" => x.sess[s] = st.sess[s]
<1> DEFINE q == Sorted(Session)
           n == Len(q)
           Same(x) == \A s \in Session : Attached(homes, s) \/ Unattached = "off"
                                        => x.sess[s] = st.sess[s]
           S == {x \in States : Loose(x, D) /\ x.att = st.att /\ Fewer(st, x) /\ Same(x)}
           Do(x, s) == IF Expendable(x, homes, s) THEN Destroy(x, s) ELSE x
           G == [p \in (1..n) \X S |-> Do(p[2], q[p[1]])]
           Result(f, s) == IF s = {} THEN st ELSE Do(f[s \ {Max(s)}], q[Max(s)])
           h == CHOOSE f : f = [s \in SUBSET (DOMAIN q) |-> Result(f, s)]
<1>1. n \in Nat /\ DOMAIN q = 1..n /\ \A k \in 1..n : q[k] \in Session
  BY SortedIs
<1>2. st \in S
  BY DEF Loose, Fewer
<1>3. ASSUME NEW x \in S, NEW s \in Session PROVE Do(x, s) \in S
  <2>1. CASE ~Expendable(x, homes, s)
    BY <2>1
  <2>2. CASE Expendable(x, homes, s)
    <3>1. ~Attached(homes, s) /\ ~Attached(x.att, s) /\ Unattached # "off"
      BY <1>3, <2>2 DEF Expendable
    <3> DEFINE y == Destroy(x, s)
    <3>2. /\ Loose(y, D) /\ y.sess[s] = Dead /\ y.att = x.att
          /\ \A z \in Session : z # s => y.sess[z] = x.sess[z]
      BY <3>1, DestroyKeeps
    <3> HIDE DEF y
    <3>3. y \in S
      BY <3>1, <3>2 DEF Loose, Fewer
    <3> QED BY <2>2, <3>3 DEF y
  <2> QED BY <2>1, <2>2
<1> HIDE DEF q, S, Do
<1>4. G \in [(1..n) \X S -> S]
  BY <1>1, <1>3
<1>5. CheckUnattached(st, homes) = h[DOMAIN q]
  BY Zenon DEF CheckUnattached, FoldLeft, MapThenFoldSet, q, Do
<1>6. h[1..n] \in S
  <2>1. PICK g : Solves(g, n, st, G)
    BY <1>1, Solvable
  <2>2. \A u \in SUBSET (1..n) : g[u] \in S
    <3> HIDE DEF G, n
    <3> QED BY <1>1, <1>2, <1>4, <2>1, SolvedIn
  <2>3. \A u \in SUBSET (1..n) : u # {} => Max(u) \in 1..n /\ u \ {Max(u)} \in SUBSET (1..n)
    BY <1>1, MaxIn
  <2>4. g = [u \in SUBSET (DOMAIN q) |-> Result(g, u)]
    <3>1. \A u \in SUBSET (1..n) : u # {} => Result(g, u) = G[<<Max(u), g[u \ {Max(u)}]>>]
      BY <2>2, <2>3
    <3> QED BY <1>1, <2>1, <3>1 DEF Solves
  <2>5. h = [u \in SUBSET (DOMAIN q) |-> Result(h, u)]
    <3> HIDE DEF Result
    <3> QED BY <2>4
  <2> HIDE DEF h
  <2>6. h[{}] = st
    BY <2>5
  <2>7. ASSUME NEW k \in 1..n, h[1..(k - 1)] \in S PROVE h[1..k] = G[<<k, h[1..(k - 1)]>>]
    <3>1. Max(1..k) = k /\ (1..k) \ {k} = 1..(k - 1) /\ 1..k # {}
      BY UpTo
    <3>2. 1..k \in SUBSET (DOMAIN q)
      BY <1>1
    <3> QED BY <2>5, <2>7, <3>1, <3>2
  <2>8. Follows(h, n, st, S, G)
    BY <2>6, <2>7 DEF Follows
  <2>9. n \in Nat
    BY <1>1
  <2> HIDE DEF G, n
  <2> QED BY <1>2, <1>4, <2>8, <2>9, FoldStays, Zenon
<1> QED BY <1>1, <1>5, <1>6 DEF S

LEMMA SetSessionKeeps ==
  ASSUME Calm, NEW st, NEW D, Loose(st, D), NEW c \in Client, NEW home \in Session \cup {None},
         home # None => st.sess[home].alive
  PROVE  LET x == SetSession(st, c, home) IN
         /\ Loose(x, D) /\ x.att = [st.att EXCEPT ![c] = home] /\ Fewer(st, x)
         /\ home # None => x.sess[home] = st.sess[home]
         /\ \A s \in Session : (home = None /\ Attached(st.att, s)) \/ Unattached = "off"
                               => x.sess[s] = st.sess[s]
<1> DEFINE y == [st EXCEPT !.att[c] = home]
           homes == IF home = None THEN st.att ELSE y.att
           x == CheckUnattached(y, homes)
<1>1. /\ st \in States /\ SessOk(st, D) /\ GroupsOf(st, D) /\ Homes(st)
      /\ st.att \in [Client -> Session \cup {None}]
  BY DEF Loose, States
<1>2. /\ y \in States /\ y.sess = st.sess /\ y.groups = st.groups
      /\ y.att = [st.att EXCEPT ![c] = home]
  BY <1>1 DEF States
<1>3. x = SetSession(st, c, home)
  BY DEF SetSession
<1> HIDE DEF y
<1>4. Loose(y, D)
  <2>1. Homes(y)
    BY <1>1, <1>2 DEF Homes
  <2> QED BY <1>1, <1>2, <2>1, SameSessions DEF Loose
<1>5. \A s \in Session : Attached(y.att, s) => Attached(homes, s)
  <2>1. CASE home = None
    <3>1. ASSUME NEW s \in Session, NEW k \in Client, y.att[k] = s PROVE st.att[k] = s
      BY <1>1, <1>2, <2>1, <3>1, SessionsAssumption, PointersAssumption
    <3> QED BY <2>1, <3>1 DEF Attached
  <2>2. CASE home # None
    BY <2>2
  <2> QED BY <2>1, <2>2
<1>6. (home # None => Attached(homes, home)) /\ (home = None => homes = st.att)
  BY <1>1, <1>2 DEF Attached
<1> HIDE DEF homes
<1>7. /\ Loose(x, D) /\ x.att = y.att /\ Fewer(y, x)
      /\ \A s \in Session : Attached(homes, s) \/ Unattached = "off" => x.sess[s] = y.sess[s]
  BY <1>4, <1>5, CheckUnattachedKeeps
<1> HIDE DEF x
<1> QED BY <1>2, <1>3, <1>6, <1>7 DEF Fewer

LEMMA NewestIs ==
  ASSUME NEW S \in SUBSET Session, NEW d
  PROVE  (Newest(S, d) = None /\ S = {}) \/ Newest(S, d) \in S
<1>1. S # {} => Min(S) \in S
  <2>1. IsFiniteSet(S)
    BY SessionsAssumption, FS_Subset, Zenon
  <2>2. S \subseteq Int
    BY SessionsAssumption
  <2> QED BY <2>1, <2>2, MinOf
<1> QED BY <1>1 DEF Newest

\* The clients of a session are not divided into some that are detached, upon
\* which a session without clients may end, and some that are not.
Even == {d \in Moves : ~SomeKept(d)}

\* Where the clients of s go: to h, or some of them nowhere, and then h stays.
Housing(st, s, d, h) ==
  /\ h = None \/ (h \in Session \ {s} /\ st.sess[h].alive)
  /\ \A c \in Client : HomeFor(st, s, d, c) \in {None, h}
  /\ \/ \A c \in Client : HomeFor(st, s, d, c) = h
     \/ Unattached = "off"
     \/ Attached(st.att, h)

LEMMA HousingIs ==
  ASSUME Calm, NEW st \in States, NEW s \in Session, NEW d \in Even
  PROVE  \E h : Housing(st, s, d, h)
<1> DEFINE others == Alive(st) \ {s}
           detached == {x \in others : ~Attached(st.att, x)}
           a == NewHome(st, s, d)
           b == SpareHome(st, s, d)
<1>1. d.policy \in {"off", "on", "no-detached"} /\ d.keep \subseteq Client
  BY OptionsAssumption DEF Calm, Moves, Even
<1>2. others \in SUBSET Session /\ detached \in SUBSET Session /\ detached \subseteq others
  BY DEF Alive
<1>3. /\ d.policy = "off" => (a = None \/ a \in others) /\ b = None
      /\ d.policy = "on" => a = None
      /\ d.policy = "no-detached" => (a = None /\ detached = {}) \/ a \in others
      /\ b = None \/ b \in others
  <2> HIDE DEF others, detached
  <2>1. /\ Newest(others, d) = None \/ Newest(others, d) \in others
        /\ (Newest(detached, d) = None /\ detached = {}) \/ Newest(detached, d) \in others
    BY <1>2, NewestIs
  <2>2. a = CASE d.policy = "off" -> Newest(others, d)
              [] d.policy = "on" -> None
              [] d.policy = "no-detached" -> Newest(detached, d)
              [] d.policy = "previous" -> PreviousSession(Alive(st), s)
              [] d.policy = "next" -> NextSession(Alive(st), s)
    BY Zenon DEF NewHome, others, detached
  <2>3. b = IF d.policy \in {"on", "no-detached"} THEN Newest(others, d) ELSE None
    BY DEF SpareHome, others
  <2> HIDE DEF a, b
  <2>4. CASE d.policy = "off"
    BY <2>1, <2>2, <2>3, <2>4
  <2>5. CASE d.policy = "on"
    BY <2>1, <2>2, <2>3, <2>5
  <2>6. CASE d.policy = "no-detached"
    BY <2>1, <2>2, <2>3, <2>6
  <2> QED BY <1>1, <2>4, <2>5, <2>6
<1>4. \A c \in Client : HomeFor(st, s, d, c) = IF a = None /\ c \in d.keep THEN b ELSE a
  BY DEF HomeFor
<1>5. \A h \in others : h \in Session \ {s} /\ st.sess[h].alive
  BY DEF Alive
<1>6. \A h \in others : h \notin detached => Attached(st.att, h)
  OBVIOUS
<1>7. None \notin others
  BY <1>2, SessionsAssumption, PointersAssumption
<1> HIDE DEF a, b, others, detached
<1>8. CASE a # None
  <2>1. Housing(st, s, d, a)
    BY <1>1, <1>3, <1>4, <1>5, <1>8 DEF Housing
  <2> QED BY <2>1
<1>9. CASE a = None /\ b = None
  <2>1. Housing(st, s, d, None)
    BY <1>4, <1>9 DEF Housing
  <2> QED BY <2>1
<1>10. CASE a = None /\ b # None /\ d.policy = "no-detached"
  <2>1. Attached(st.att, b)
    BY <1>3, <1>6, <1>7, <1>10
  <2>2. Housing(st, s, d, b)
    BY <1>3, <1>4, <1>5, <1>10, <2>1 DEF Housing
  <2> QED BY <2>2
<1>11. CASE a = None /\ b # None /\ d.policy = "on"
  <2>1. Unattached = "off" \/ d.keep = {} \/ d.keep = Client
    BY <1>11 DEF Even, SomeKept
  <2>2. CASE d.keep = {}
    <3>1. Housing(st, s, d, None)
      BY <1>4, <1>11, <2>2 DEF Housing
    <3> QED BY <3>1
  <2>3. CASE Unattached = "off" \/ d.keep = Client
    <3>1. Housing(st, s, d, b)
      BY <1>3, <1>4, <1>5, <1>11, <2>3 DEF Housing
    <3> QED BY <3>1
  <2> QED BY <2>1, <2>2, <2>3
<1> QED BY <1>1, <1>3, <1>8, <1>9, <1>10, <1>11

LEMMA InSequence ==
  ASSUME NEW S, IsFiniteSet(S)
  PROVE  LET q == SetToSeq(S)
         IN  /\ Len(q) \in Nat /\ DOMAIN q = 1..Len(q) /\ \A k \in 1..Len(q) : q[k] \in S
             /\ \A c \in S : \E k \in 1..Len(q) : q[k] = c
<1> DEFINE n == Cardinality(S)
           q == SetToSeq(S)
<1>1. n \in Nat /\ ExistsBijection(1..n, S)
  BY FS_CardinalityType
<1>2. \E f \in [1..n -> S] : IsInjective(f)
  BY <1>1 DEF ExistsBijection, Bijection, Injection, IsInjective
<1>3. q \in [1..n -> S] /\ IsInjective(q)
  BY <1>2 DEF SetToSeq
<1> HIDE DEF q
<1>4. q \in Injection(1..n, S)
  BY <1>3 DEF Injection
<1>5. Cardinality(1..n) = n /\ IsFiniteSet(1..n)
  BY <1>1, FS_Interval
<1>6. q \in Surjection(1..n, S)
  BY <1>4, <1>5, FS_Injection
<1>7. \A c \in S : \E k \in 1..n : q[k] = c
  BY <1>6 DEF Surjection
<1>8. Len(q) = n
  BY <1>1, <1>3
<1> QED BY <1>1, <1>3, <1>7, <1>8 DEF q

LEMMA ClientsLeaveKeeps ==
  ASSUME Calm, NEW st, NEW D, Loose(st, D), NEW s \in Session, NEW d \in Even
  PROVE  LET x == ClientsLeave(st, s, d)
         IN  Loose(x, D) /\ Fewer(st, x) /\ ~Attached(x.att, s)
<1>0. PICK home : Housing(st, s, d, home)
  BY HousingIs DEF Loose
<1> DEFINE To(c) == HomeFor(st, s, d, c)
           All == \A c \in Client : To(c) = home
           q == SetToSeq(Client)
           n == Len(q)
           S == {x \in States :
                   /\ Loose(x, D) /\ Fewer(st, x)
                   /\ home # None => x.sess[home].alive
                   /\ All \/ Unattached = "off" \/ Attached(x.att, home)}
           Do(x, c) == IF x.att[c] = s THEN SetSession(x, c, To(c)) ELSE x
           G == [p \in (1..n) \X S |-> Do(p[2], q[p[1]])]
           R == {p \in (1..n) \X S : p[2].att[q[p[1]]] # s}
           Result(f, t) == IF t = {} THEN st ELSE Do(f[t \ {Max(t)}], q[Max(t)])
           h == CHOOSE f : f = [t \in SUBSET (DOMAIN q) |-> Result(f, t)]
<1>1. /\ n \in Nat /\ DOMAIN q = 1..n /\ \A k \in 1..n : q[k] \in Client
      /\ \A c \in Client : \E k \in 1..n : q[k] = c
  BY Bounds, InSequence
<1>0a. /\ home = None \/ (home \in Session \ {s} /\ st.sess[home].alive)
       /\ \A c \in Client : To(c) \in {None, home}
       /\ All \/ Unattached = "off" \/ Attached(st.att, home)
  BY <1>0 DEF Housing
<1>0b. home # s /\ None # s
  BY <1>0a, SessionsAssumption, PointersAssumption
<1> HIDE DEF To
<1>2. st \in S
  BY <1>0a DEF Loose, Fewer
<1>3. ASSUME NEW x \in S, NEW c \in Client
      PROVE  /\ Do(x, c) \in S /\ Do(x, c).att[c] # s
             /\ \A k \in Client : x.att[k] # s => Do(x, c).att[k] # s
  <2>1. CASE x.att[c] # s
    BY <2>1
  <2>2. CASE x.att[c] = s
    <3> DEFINE y == SetSession(x, c, To(c))
    <3>1. /\ To(c) \in Session \cup {None} /\ To(c) # s
          /\ To(c) # None => To(c) = home /\ x.sess[home].alive
      BY <1>0a, <1>0b
    <3>2. /\ Loose(y, D) /\ y.att = [x.att EXCEPT ![c] = To(c)] /\ Fewer(x, y)
          /\ To(c) # None => y.sess[To(c)] = x.sess[To(c)]
          /\ \A z \in Session : (To(c) = None /\ Attached(x.att, z)) \/ Unattached = "off"
                                => y.sess[z] = x.sess[z]
      BY <3>1, SetSessionKeeps
    <3> HIDE DEF y
    <3>3. x.att \in [Client -> Session \cup {None}]
      BY DEF States
    <3>4. Attached(x.att, home) => Attached(y.att, home)
      <4>1. ASSUME NEW k \in Client, x.att[k] = home PROVE y.att[k] = home
        BY <1>0b, <2>2, <3>2, <3>3, <4>1
      <4> QED BY <4>1 DEF Attached
    <3>5. home # None => y.sess[home].alive
      BY <1>0a, <3>1, <3>2
    <3>6. y \in S
      BY <3>2, <3>4, <3>5 DEF Loose, Fewer
    <3>7. y.att[c] # s /\ \A k \in Client : x.att[k] # s => y.att[k] # s
      BY <3>1, <3>2, <3>3
    <3> QED BY <2>2, <3>6, <3>7 DEF y
  <2> QED BY <2>1, <2>2
<1> HIDE DEF q, S, Do
<1>4. G \in [(1..n) \X S -> S]
  BY <1>1, <1>3
<1>7. Leaves(R, n, S, G)
  <2>1. ASSUME NEW k \in 1..n, NEW x \in S PROVE <<k, G[<<k, x>>]>> \in R
    BY <1>1, <1>3
  <2>2. ASSUME NEW k \in 1..n, NEW x \in S, NEW j \in 1..(k - 1), <<j, x>> \in R
        PROVE  <<j, G[<<k, x>>]>> \in R
    <3>1. j \in 1..n /\ x.att[q[j]] # s
      BY <1>1, <2>2
    <3> QED BY <1>1, <1>3, <3>1
  <2> HIDE DEF G, R
  <2> QED BY <2>1, <2>2 DEF Leaves
<1>9. ClientsLeave(st, s, d)
        = FoldLeft(LAMBDA x, c : IF x.att[c] = s THEN SetSession(x, c, To(c)) ELSE x,
                   st, SetToSeq(Client))
  BY DEF ClientsLeave, To
<1>5. FoldLeft(LAMBDA x, c : IF x.att[c] = s THEN SetSession(x, c, To(c)) ELSE x,
               st, SetToSeq(Client)) = h[DOMAIN q]
  BY Zenon DEF FoldLeft, MapThenFoldSet, q, Do
<1>8. h[1..n] \in S /\ \A k \in 1..n : <<k, h[1..n]>> \in R
  <2>1. PICK g : Solves(g, n, st, G)
    BY <1>1, Solvable
  <2>2. \A u \in SUBSET (1..n) : g[u] \in S
    <3> HIDE DEF G, n
    <3> QED BY <1>1, <1>2, <1>4, <2>1, SolvedIn
  <2>3. \A u \in SUBSET (1..n) : u # {} => Max(u) \in 1..n /\ u \ {Max(u)} \in SUBSET (1..n)
    BY <1>1, MaxIn
  <2>4. g = [u \in SUBSET (DOMAIN q) |-> Result(g, u)]
    <3>1. \A u \in SUBSET (1..n) : u # {} => Result(g, u) = G[<<Max(u), g[u \ {Max(u)}]>>]
      BY <2>2, <2>3
    <3> QED BY <1>1, <2>1, <3>1 DEF Solves
  <2>5. h = [u \in SUBSET (DOMAIN q) |-> Result(h, u)]
    <3> HIDE DEF Result
    <3> QED BY <2>4
  <2> HIDE DEF h
  <2>6. h[{}] = st
    BY <2>5
  <2>7. ASSUME NEW k \in 1..n, h[1..(k - 1)] \in S PROVE h[1..k] = G[<<k, h[1..(k - 1)]>>]
    <3>1. Max(1..k) = k /\ (1..k) \ {k} = 1..(k - 1) /\ 1..k # {}
      BY UpTo
    <3>2. 1..k \in SUBSET (DOMAIN q)
      BY <1>1
    <3> QED BY <2>5, <2>7, <3>1, <3>2
  <2>8. Follows(h, n, st, S, G)
    BY <2>6, <2>7 DEF Follows
  <2>9. n \in Nat
    BY <1>1
  <2> HIDE DEF G, n, R
  <2> QED BY <1>2, <1>4, <1>7, <2>8, <2>9, FoldKeeps, Zenon
<1> HIDE DEF h
<1>10. ~Attached(h[1..n].att, s)
  <2>1. \A k \in 1..n : h[1..n].att[q[k]] # s
    BY <1>8
  <2> QED BY <1>1, <2>1 DEF Attached
<1>11. ClientsLeave(st, s, d) = h[1..n]
  BY <1>1, <1>5, <1>9
<1> QED BY <1>8, <1>10, <1>11 DEF S

LEMMA DestroySessionKeeps ==
  ASSUME Calm, NEW st, NEW D, Loose(st, D), NEW s \in Session, NEW d \in Even
  PROVE  LET x == DestroySession(st, s, d)
         IN  Loose(x, D) /\ Fewer(st, x) /\ x.sess[s] = Dead
<1> DEFINE y == ClientsLeave(st, s, d)
           x == Destroy(y, s)
<1>1. Loose(y, D) /\ Fewer(st, y) /\ ~Attached(y.att, s)
  BY ClientsLeaveKeeps
<1>2. x = DestroySession(st, s, d)
  BY DEF DestroySession
<1> HIDE DEF y
<1>3. /\ Loose(x, D) /\ x.sess[s] = Dead
      /\ \A z \in Session : z # s => x.sess[z] = y.sess[z]
  BY <1>1, DestroyKeeps
<1> HIDE DEF x
<1> QED BY <1>1, <1>2, <1>3 DEF Fewer

\* What holds after every command.
Full(st) == Loose(st, {})

LEMMA Tighten ==
  ASSUME Calm, NEW st, NEW D, Loose(st, D), \A s \in D : s \in Session => st.sess[s] = Dead
  PROVE  Full(st)
<1>1. /\ st \in States /\ SessOk(st, D) /\ GroupsOf(st, D) /\ Homes(st)
  BY DEF Loose
<1>2. SessOk(st, {})
  BY <1>1, DeadIs DEF SessOk
<1>3. ASSUME NEW g \in Groups(st) PROVE Share(st, g)
  <2>1. g \in Seq(Session) /\ ToSet(g) \subseteq Session /\ g # <<>>
    BY <1>1, GroupFacts DEF GroupsOf
  <2>2. PICK s : s \in ToSet(g)
    BY <2>1, EmptyIs
  <2>3. s \notin D
    BY <1>1, <2>1, <2>2, DeadIs DEF GroupsOf
  <2> QED BY <1>1, <2>2, <2>3 DEF GroupsOf
<1>4. GroupsOf(st, {})
  BY <1>1, <1>3 DEF GroupsOf
<1> QED BY <1>1, <1>2, <1>4 DEF Loose, Full

LEMMA DestroyGroupKeeps ==
  ASSUME Calm, NEW st, NEW s \in Session, NEW d \in Even, Loose(st, {s} \cup Mates(st, s))
  PROVE  Full(DestroyGroup(st, s, d)) /\ Fewer(st, DestroyGroup(st, s, d))
<1> DEFINE D == {s} \cup Mates(st, s)
           q == GroupOf(st, s)
           n == Len(q)
<1>0. /\ q = <<>> \/ (q \in Groups(st) /\ s \in ToSet(q))
      /\ q \in Seq(Session) /\ Mates(st, s) = ToSet(q) \ {s} /\ Loose(st, D)
  BY GroupOfIs DEF Loose
<1>0a. CASE q = <<>>
  <2> DEFINE x == DestroySession(st, s, d)
  <2>1. D = {s}
    <3>1. ToSet(q) = {}
      BY <1>0a DEF ToSet
    <3> QED BY <1>0, <3>1
  <2>2. Loose(x, D) /\ Fewer(st, x) /\ x.sess[s] = Dead
    BY <1>0, DestroySessionKeeps
  <2>3. x = DestroyGroup(st, s, d)
    BY <1>0a DEF DestroyGroup
  <2> HIDE DEF x
  <2>4. Full(x)
    <3> HIDE DEF D
    <3> QED BY <2>1, <2>2, Tighten
  <2> QED BY <2>2, <2>3, <2>4
<1> SUFFICES ASSUME q # <<>>
             PROVE  Full(DestroyGroup(st, s, d)) /\ Fewer(st, DestroyGroup(st, s, d))
  BY <1>0a
<1> DEFINE S == {x \in States : Loose(x, D) /\ Fewer(st, x)}
           Do(x, y) == DestroySession(x, y, d)
           G == [p \in (1..n) \X S |-> Do(p[2], q[p[1]])]
           R == {p \in (1..n) \X S : p[2].sess[q[p[1]]] = Dead}
           Result(f, t) == IF t = {} THEN st ELSE Do(f[t \ {Max(t)}], q[Max(t)])
           h == CHOOSE f : f = [t \in SUBSET (DOMAIN q) |-> Result(f, t)]
<1>1. /\ n \in Nat /\ DOMAIN q = 1..n /\ (\A k \in 1..n : q[k] \in Session)
      /\ D = {q[k] : k \in 1..n}
  <2>1. /\ n \in Nat /\ DOMAIN q = 1..n /\ (\A k \in 1..n : q[k] \in Session)
        /\ ToSet(q) = {q[k] : k \in 1..n}
    BY <1>0, SeqFacts
  <2>2. D = ToSet(q)
    BY <1>0
  <2> QED BY <2>1, <2>2
<1>2. st \in S
  BY <1>0 DEF Loose, Fewer
<1>9. DestroyGroup(st, s, d) = FoldLeft(LAMBDA x, y : DestroySession(x, y, d), st, q)
  BY Zenon DEF DestroyGroup
<1> HIDE DEF D
<1>3. ASSUME NEW x \in S, NEW y \in Session
      PROVE  /\ Do(x, y) \in S /\ Do(x, y).sess[y] = Dead
             /\ \A z \in Session : x.sess[z] = Dead => Do(x, y).sess[z] = Dead
  <2>1. Loose(Do(x, y), D) /\ Fewer(x, Do(x, y)) /\ Do(x, y).sess[y] = Dead
    BY DestroySessionKeeps
  <2> HIDE DEF Do
  <2> QED BY <2>1 DEF Loose, Fewer
<1> HIDE DEF q, S, Do
<1>4. G \in [(1..n) \X S -> S]
  BY <1>1, <1>3
<1>7. Leaves(R, n, S, G)
  <2>1. ASSUME NEW k \in 1..n, NEW x \in S PROVE <<k, G[<<k, x>>]>> \in R
    BY <1>1, <1>3
  <2>2. ASSUME NEW k \in 1..n, NEW x \in S, NEW j \in 1..(k - 1), <<j, x>> \in R
        PROVE  <<j, G[<<k, x>>]>> \in R
    <3>1. j \in 1..n /\ x.sess[q[j]] = Dead
      BY <1>1, <2>2
    <3> QED BY <1>1, <1>3, <3>1
  <2> HIDE DEF G, R
  <2> QED BY <2>1, <2>2 DEF Leaves
<1>5. FoldLeft(LAMBDA x, y : DestroySession(x, y, d), st, q) = h[DOMAIN q]
  BY Zenon DEF FoldLeft, MapThenFoldSet, q, Do
<1>8. h[1..n] \in S /\ \A k \in 1..n : <<k, h[1..n]>> \in R
  <2>1. PICK g : Solves(g, n, st, G)
    BY <1>1, Solvable
  <2>2. \A u \in SUBSET (1..n) : g[u] \in S
    <3> HIDE DEF G, n
    <3> QED BY <1>1, <1>2, <1>4, <2>1, SolvedIn
  <2>3. \A u \in SUBSET (1..n) : u # {} => Max(u) \in 1..n /\ u \ {Max(u)} \in SUBSET (1..n)
    BY <1>1, MaxIn
  <2>4. g = [u \in SUBSET (DOMAIN q) |-> Result(g, u)]
    <3>1. \A u \in SUBSET (1..n) : u # {} => Result(g, u) = G[<<Max(u), g[u \ {Max(u)}]>>]
      BY <2>2, <2>3
    <3> QED BY <1>1, <2>1, <3>1 DEF Solves
  <2>5. h = [u \in SUBSET (DOMAIN q) |-> Result(h, u)]
    <3> HIDE DEF Result
    <3> QED BY <2>4
  <2> HIDE DEF h
  <2>6. h[{}] = st
    BY <2>5
  <2>7. ASSUME NEW k \in 1..n, h[1..(k - 1)] \in S PROVE h[1..k] = G[<<k, h[1..(k - 1)]>>]
    <3>1. Max(1..k) = k /\ (1..k) \ {k} = 1..(k - 1) /\ 1..k # {}
      BY UpTo
    <3>2. 1..k \in SUBSET (DOMAIN q)
      BY <1>1
    <3> QED BY <2>5, <2>7, <3>1, <3>2
  <2>8. Follows(h, n, st, S, G)
    BY <2>6, <2>7 DEF Follows
  <2>9. n \in Nat
    BY <1>1
  <2> HIDE DEF G, n, R
  <2> QED BY <1>2, <1>4, <1>7, <2>8, <2>9, FoldKeeps, Zenon
<1> HIDE DEF h
<1>10. \A y \in D : h[1..n].sess[y] = Dead
  <2>1. \A k \in 1..n : h[1..n].sess[q[k]] = Dead
    BY <1>8
  <2> QED BY <1>1, <2>1
<1>11. DestroyGroup(st, s, d) = h[1..n]
  BY <1>1, <1>5, <1>9, Zenon
<1>12. Loose(h[1..n], D) /\ Fewer(st, h[1..n])
  BY <1>8 DEF S
<1> QED BY <1>10, <1>11, <1>12, Tighten

-----------------------------------------------------------------------------
(***************************************************************************)
(* Groups are synchronized.                                                *)
(***************************************************************************)
Group(st, s) == {s} \cup Mates(st, s)

LEMMA GroupIs ==
  ASSUME NEW st \in States, NEW D, GroupsOf(st, D), NEW s \in Session
  PROVE  /\ Group(st, s) \subseteq Session /\ s \in Group(st, s)
         /\ \A g \in Groups(st) : ToSet(g) = Group(st, s) \/ ToSet(g) \cap Group(st, s) = {}
         /\ \A g \in Groups(st) : s \in ToSet(g) => ToSet(g) = Group(st, s)
         /\ Mates(st, s) # {} => \E g \in Groups(st) : ToSet(g) = Group(st, s)
<1>1. /\ \A g \in Groups(st) : s \in ToSet(g) => GroupOf(st, s) = g
      /\ GroupOf(st, s) = <<>> \/ (GroupOf(st, s) \in Groups(st) /\ s \in ToSet(GroupOf(st, s)))
      /\ GroupOf(st, s) = <<>> => \A g \in Groups(st) : s \notin ToSet(g)
      /\ Mates(st, s) \subseteq Session
      /\ Mates(st, s) = ToSet(GroupOf(st, s)) \ {s}
  BY GroupOfIs
<1>2. CASE GroupOf(st, s) = <<>>
  <2>1. Group(st, s) = {s} /\ Mates(st, s) = {}
    BY <1>1, <1>2 DEF ToSet, Group
  <2> QED BY <1>1, <1>2, <2>1
<1>3. CASE GroupOf(st, s) # <<>>
  <2>1. GroupOf(st, s) \in Groups(st) /\ ToSet(GroupOf(st, s)) = Group(st, s)
    BY <1>1, <1>3 DEF Group
  <2>2. \A g \in Groups(st) : ToSet(g) = Group(st, s) \/ ToSet(g) \cap Group(st, s) = {}
    BY <2>1, Distinct
  <2> QED BY <1>1, <2>1, <2>2 DEF Group
<1> QED BY <1>2, <1>3

\* The record of one session is replaced.
Placed(st, s, D, r, x) ==
  /\ Loose(x, D \cup Group(st, s)) /\ x.sess = [st.sess EXCEPT ![s] = r]
  /\ x.groups = st.groups /\ x.att = st.att /\ Group(x, s) = Group(st, s)

LEMMA PutKeeps ==
  ASSUME Calm, NEW st, NEW D, Loose(st, D), NEW s \in Session,
         NEW r, Sound(r) \/ r = Emptied, NEW W \in SUBSET Window
  PROVE  Placed(st, s, D, r, Note(Put(st, s, r), W))
<1> DEFINE y == Put(st, s, r)
           x == Note(y, W)
<1>1. /\ st \in States /\ SessOk(st, D) /\ GroupsOf(st, D) /\ Homes(st)
      /\ st.sess \in [Session -> Recs]
  BY DEF Loose, States
<1>2. r \in Recs /\ r.alive
  BY EmptiedIs DEF Sound
<1>3. /\ y \in States /\ y.sess = [st.sess EXCEPT ![s] = r] /\ y.groups = st.groups /\ y.att = st.att
  BY <1>1, <1>2 DEF States, Put
<1> HIDE DEF y
<1>4. /\ x \in States /\ x.sess = [st.sess EXCEPT ![s] = r] /\ x.groups = st.groups /\ x.att = st.att
  BY <1>3, NoteIs
<1> HIDE DEF x
<1>5. x.sess[s] = r /\ \A z \in Session : z # s => x.sess[z] = st.sess[z]
  BY <1>1, <1>4
<1>6. SessOk(x, D \cup Group(st, s))
  BY <1>1, <1>5 DEF SessOk, Group
<1>7. ASSUME NEW g \in Groups(st)
      PROVE  /\ g # <<>> /\ Uniq(g) /\ (\A z \in ToSet(g) : x.sess[z].alive)
             /\ ToSet(g) \subseteq D \cup Group(st, s) \/ Share(x, g)
  <2>1. ToSet(g) \subseteq Session /\ (s \in ToSet(g) => ToSet(g) = Group(st, s))
    BY <1>1, GroupFacts, GroupIs
  <2>2. g # <<>> /\ Uniq(g) /\ (\A z \in ToSet(g) : st.sess[z].alive)
        /\ (ToSet(g) \subseteq D \/ Share(st, g))
    BY <1>1 DEF GroupsOf
  <2>3. \A z \in ToSet(g) : x.sess[z].alive
    BY <1>2, <1>5, <2>1, <2>2
  <2>4. ToSet(g) \subseteq D \cup Group(st, s) \/ Share(x, g)
    BY <1>5, <2>1, <2>2 DEF Share
  <2> QED BY <2>2, <2>3, <2>4
<1>8. GroupsOf(x, D \cup Group(st, s))
  BY <1>1, <1>4, <1>7 DEF GroupsOf, Groups
<1>9. Homes(x)
  <2>1. st.att \in [Client -> Session \cup {None}]
    BY <1>1 DEF States
  <2> QED BY <1>1, <1>2, <1>4, <1>5, <2>1 DEF Homes
<1>10. Group(x, s) = Group(st, s)
  BY <1>4 DEF Group, Mates, GroupOf, NameOf
<1> QED BY <1>4, <1>6, <1>8, <1>9, <1>10 DEF Loose, Placed, x, y

\* No window is linked twice in a session, and none if it were not for i.
Once(r) == "again" \notin Uses => OnceEach(r)
OnceBut(r, i) == "again" \notin Uses =>
  \A j, k \in Linked(r) \ {i} : r.win[j] = r.win[k] => j = k

\* A session of a group can follow another one.
Follow(r, t) == Linked(r) \cap Linked(t) # {} /\ \E i : Linked(r) \ {i} \subseteq Linked(t)

LEMMA SynchronizeKeeps ==
  ASSUME Calm, NEW st, NEW s \in Session, NEW D, D \cap Group(st, s) = {},
         Loose(st, D \cup Group(st, s)), Sound(st.sess[s]),
         \A y \in Mates(st, s) : Sound(st.sess[y]) /\ Follow(st.sess[y], st.sess[s])
  PROVE  LET x == SynchronizeFrom(st, s) IN
         /\ Loose(x, D \cup Group(st, s))
         /\ Once(st.sess[s]) => Loose(x, D)
         /\ x.sess[s] = st.sess[s] /\ x.groups = st.groups /\ x.att = st.att
         /\ \A y \in Session : y \notin Group(st, s) => x.sess[y] = st.sess[y]
         /\ \A y \in Group(st, s) : Sound(x.sess[y]) /\ x.sess[y].win = st.sess[s].win
<1> DEFINE mates == Mates(st, s)
           E == D \cup Group(st, s)
           F == [y \in Session |-> IF y \in mates THEN Synchronize1(st.sess[s], st.sess[y])
                                   ELSE st.sess[y]]
           y == [st EXCEPT !.sess = F]
           W == UNION {Range(st.sess[z].win) : z \in {s} \cup mates}
           x == SynchronizeFrom(st, s)
<1>1. /\ st \in States /\ SessOk(st, E) /\ GroupsOf(st, E) /\ Homes(st)
      /\ st.sess \in [Session -> Recs]
  BY DEF Loose, States
<1>2. /\ mates \subseteq Session /\ s \notin mates /\ Group(st, s) = {s} \cup mates
  BY <1>1, GroupIs DEF Group, Mates
<1>3. \A z \in mates : Sound(F[z]) /\ F[z].win = st.sess[s].win
  <2> SUFFICES ASSUME NEW z \in mates PROVE Sound(F[z]) /\ F[z].win = st.sess[s].win
    OBVIOUS
  <2>1. F[z] = Synchronize1(st.sess[s], st.sess[z])
    BY <1>2
  <2>2. PICK i : Linked(st.sess[z]) \ {i} \subseteq Linked(st.sess[s])
    BY DEF Follow
  <2>3. Linked(st.sess[z]) \cap Linked(st.sess[s]) # {} /\ Sound(st.sess[z])
    BY DEF Follow
  <2> QED BY <2>1, <2>2, <2>3, Synchronize1Is
<1>4. F[s] = st.sess[s] /\ \A z \in Session : z \notin Group(st, s) => F[z] = st.sess[z]
  BY <1>2
<1>5. F \in [Session -> Recs]
  BY <1>1, <1>3 DEF Sound
<1> HIDE DEF F
<1>6. x \in States /\ x.sess = F /\ x.groups = st.groups /\ x.att = st.att
  <2>1. y \in States /\ y.sess = F /\ y.groups = st.groups /\ y.att = st.att
    BY <1>1, <1>5 DEF States
  <2>2. CASE mates = {}
    <3>1. x = st
      BY <2>2 DEF SynchronizeFrom
    <3>2. F = st.sess
      BY <1>1, <2>2 DEF F
    <3> QED BY <1>1, <3>1, <3>2
  <2>3. CASE mates # {}
    <3>1. Linked(st.sess[s]) # {}
      BY SoundIsAlive
    <3>2. x = Note(y, W)
      BY <2>3, <3>1 DEF SynchronizeFrom, F
    <3>3. W \in SUBSET Window
      <4>1. \A z \in Session : Range(st.sess[z].win) \subseteq Window
        BY <1>1, WindowsOf
      <4> QED BY <1>2, <4>1
    <3> HIDE DEF y, W, x
    <3> QED BY <2>1, <3>2, <3>3, NoteIs
  <2> QED BY <2>2, <2>3
<1> HIDE DEF x, y, W
<1>7. \A z \in Group(st, s) : Sound(F[z]) /\ F[z].win = st.sess[s].win
  BY <1>2, <1>3, <1>4
<1>8a. SessOk(x, E)
  BY <1>1, <1>4, <1>6, <1>7 DEF SessOk
<1>8. ASSUME Once(st.sess[s]) PROVE SessOk(x, D)
  <2>1. "again" \notin Uses => OnceEach(st.sess[s])
    BY <1>8 DEF Once
  <2>2. \A z \in Group(st, s) : "again" \notin Uses => OnceEach(F[z])
    BY <1>7, <2>1 DEF OnceEach, Linked
  <2> QED BY <1>1, <1>4, <1>6, <1>7, <2>2 DEF SessOk
<1>9. GroupsOf(x, D)
  <2>1. ASSUME NEW g \in Groups(st)
        PROVE  /\ g # <<>> /\ Uniq(g) /\ (\A z \in ToSet(g) : F[z].alive)
               /\ ToSet(g) \subseteq D \/ Share(x, g)
    <3>1. /\ ToSet(g) \subseteq Session
          /\ ToSet(g) = Group(st, s) \/ ToSet(g) \cap Group(st, s) = {}
      BY <1>1, GroupFacts, GroupIs
    <3>2. /\ g # <<>> /\ Uniq(g) /\ (\A z \in ToSet(g) : st.sess[z].alive)
          /\ (ToSet(g) \subseteq E \/ Share(st, g))
      BY <1>1 DEF GroupsOf
    <3>3. \A z \in ToSet(g) : F[z].alive
      BY <1>4, <1>7, <3>1, <3>2 DEF Sound
    <3>4. ToSet(g) \subseteq D \/ Share(x, g)
      <4>1. CASE ToSet(g) = Group(st, s)
        BY <1>6, <1>7, <4>1 DEF Share
      <4>2. CASE ToSet(g) \cap Group(st, s) = {}
        BY <1>4, <1>6, <3>1, <3>2, <4>2 DEF Share
      <4> QED BY <3>1, <4>1, <4>2
    <3> QED BY <3>2, <3>3, <3>4
  <2> QED BY <1>1, <1>6, <2>1 DEF GroupsOf, Groups
<1>9a. GroupsOf(x, E)
  BY <1>9 DEF GroupsOf
<1>10. Homes(x)
  <2>1. \A z \in Session : st.sess[z].alive => F[z].alive
    BY <1>4, <1>7 DEF Sound
  <2>2. st.att \in [Client -> Session \cup {None}]
    BY <1>1 DEF States
  <2> QED BY <1>1, <1>6, <2>1, <2>2 DEF Homes
<1>11. Loose(x, E)
  BY <1>6, <1>8a, <1>9a, <1>10 DEF Loose
<1>12. ASSUME Once(st.sess[s]) PROVE Loose(x, D)
  BY <1>6, <1>8, <1>9, <1>10, <1>12 DEF Loose
<1> QED BY <1>4, <1>6, <1>7, <1>11, <1>12 DEF x

\* Sessions of a group, after a command, are alive and share their winlinks.
LEMMA MatesShare ==
  ASSUME Calm, NEW st, NEW D, Loose(st, D), NEW s \in Session, st.sess[s].alive,
         D \cap Group(st, s) = {}
  PROVE  \A y \in Group(st, s) : /\ y \in Session /\ Sound(st.sess[y])
                                 /\ st.sess[y].win = st.sess[s].win
                                 /\ Linked(st.sess[y]) = Linked(st.sess[s])
<1>1. st \in States /\ SessOk(st, D) /\ GroupsOf(st, D)
  BY DEF Loose
<1> SUFFICES ASSUME NEW y \in Group(st, s)
             PROVE  /\ y \in Session /\ st.sess[y].alive /\ st.sess[y].win = st.sess[s].win
  BY <1>1, DeadIs DEF SessOk, Linked
<1>2. CASE y = s
  BY <1>2
<1>3. CASE y # s
  <2>1. Mates(st, s) # {}
    BY <1>3 DEF Group
  <2>2. PICK g \in Groups(st) : ToSet(g) = Group(st, s)
    BY <1>1, <2>1, GroupIs
  <2>3. s \in ToSet(g) /\ y \in ToSet(g) /\ ToSet(g) \subseteq Session
    BY <1>1, <2>2, GroupIs
  <2>4. Share(st, g) /\ \A z \in ToSet(g) : st.sess[z].alive
    BY <1>1, <2>2, <2>3 DEF GroupsOf
  <2> QED BY <2>3, <2>4 DEF Share
<1> QED BY <1>2, <1>3

LEMMA Looser ==
  ASSUME NEW st, NEW D, Loose(st, D), NEW E, D \subseteq E
  PROVE  Loose(st, E)
BY DEF Loose, SessOk, GroupsOf

\* The sessions of a group have their winlinks in common.
Whole(st, s) == \A y \in Group(st, s) : Sound(st.sess[y]) /\ st.sess[y].win = st.sess[s].win

\* x is st where session s has got the winlinks of r, with its group.
Replaced(st, s, D, r, x) ==
  /\ Loose(x, D \cup Group(st, s)) /\ (Once(r) => Loose(x, D))
  /\ x.sess[s] = r /\ x.groups = st.groups /\ x.att = st.att
  /\ \A y \in Session : y \notin Group(st, s) => x.sess[y] = st.sess[y]
  /\ Group(x, s) = Group(st, s) /\ Whole(x, s)

\* A session gets other winlinks, and its group with it: one of them may have
\* been linked twice before, or be now. (The groups of D are still to follow.)
LEMMA ReplaceKeeps ==
  ASSUME Calm, NEW st, NEW s \in Session, NEW D, D \cap Group(st, s) = {},
         Loose(st, D \cup Group(st, s)),
         Whole(st, s),
         NEW r, Sound(r), Follow(st.sess[s], r), NEW W \in SUBSET Window
  PROVE  Replaced(st, s, D, r, SynchronizeFrom(Note(Put(st, s, r), W), s))
<1> DEFINE z == Note(Put(st, s, r), W)
           x == SynchronizeFrom(z, s)
           E == D \cup Group(st, s)
<1>0. s \in Group(st, s) /\ st.sess[s].alive /\ E \cup Group(st, s) = E
  BY SoundIsAlive DEF Group, Whole
<1>1. /\ Loose(z, E) /\ z.sess = [st.sess EXCEPT ![s] = r]
      /\ z.groups = st.groups /\ z.att = st.att /\ Group(z, s) = Group(st, s)
  <2> HIDE DEF z
  <2> HIDE DEF E
  <2>1. Loose(st, E)
    BY DEF E
  <2>2. Placed(st, s, E, r, z)
    BY <2>1, PutKeeps DEF z
  <2> QED BY <1>0, <2>2 DEF Placed
<1> HIDE DEF z
<1>2. \A y \in Group(st, s) : y \in Session
  <2>1. st \in States /\ GroupsOf(st, E)
    BY DEF Loose
  <2> QED BY <2>1, GroupIs
<1>3. z.sess[s] = r /\ \A y \in Session : y # s => z.sess[y] = st.sess[y]
  <2>1. st.sess \in [Session -> Recs]
    BY DEF Loose, States
  <2> QED BY <1>1, <2>1
<1>4. \A y \in Mates(z, s) : Sound(z.sess[y]) /\ Follow(z.sess[y], z.sess[s])
  <2>1. \A y \in Mates(z, s) : y \in Group(st, s) /\ y # s
    BY <1>1 DEF Group, Mates
  <2> QED BY <1>2, <1>3, <2>1 DEF Follow, Linked, Whole
<1>5. /\ Loose(x, D \cup Group(z, s))
      /\ Once(z.sess[s]) => Loose(x, D)
      /\ x.sess[s] = z.sess[s] /\ x.groups = z.groups /\ x.att = z.att
      /\ \A y \in Session : y \notin Group(z, s) => x.sess[y] = z.sess[y]
      /\ \A y \in Group(z, s) : Sound(x.sess[y]) /\ x.sess[y].win = z.sess[s].win
  <2>1. D \cap Group(z, s) = {} /\ Loose(z, D \cup Group(z, s)) /\ Sound(z.sess[s])
    BY <1>1, <1>3
  <2> HIDE DEF x
  <2> QED BY <1>4, <2>1, SynchronizeKeeps DEF x
<1>6. Group(x, s) = Group(st, s)
  BY <1>1, <1>5 DEF Group, Mates, GroupOf, NameOf
<1> HIDE DEF x
<1> QED BY <1>0, <1>1, <1>3, <1>5, <1>6 DEF x, z, Whole, Replaced

\* A session alone in its group, if it has one.
LEMMA PutAlone ==
  ASSUME Calm, NEW st, NEW D, Loose(st, D), NEW s \in Session, Mates(st, s) = {},
         NEW r, Sound(r), Once(r), NEW W \in SUBSET Window
  PROVE  LET x == Note(Put(st, s, r), W) IN
         /\ Loose(x, D) /\ x.sess = [st.sess EXCEPT ![s] = r]
         /\ x.groups = st.groups /\ x.att = st.att /\ Mates(x, s) = {}
<1> DEFINE x == Note(Put(st, s, r), W)
<1>1. /\ Loose(x, D \cup Group(st, s)) /\ x.sess = [st.sess EXCEPT ![s] = r]
      /\ x.groups = st.groups /\ x.att = st.att /\ Group(x, s) = Group(st, s)
  <2>1. Placed(st, s, D, r, x)
    BY PutKeeps
  <2> QED BY <2>1 DEF Placed
<1> HIDE DEF x
<1>2. Group(st, s) = {s}
  BY DEF Group
<1>3. /\ x \in States /\ SessOk(x, D \cup {s}) /\ GroupsOf(x, D \cup {s}) /\ Homes(x)
      /\ x.sess[s] = r /\ r # Emptied
  <2>1. st.sess \in [Session -> Recs]
    BY DEF Loose, States
  <2> QED BY <1>1, <1>2, <2>1, SoundIsAlive DEF Loose
<1>4. SessOk(x, D)
  BY <1>3 DEF SessOk, Once
<1>5. GroupsOf(x, D)
  <2>1. ASSUME NEW g \in Groups(x) PROVE ToSet(g) \subseteq D \/ Share(x, g)
    <3>1. ToSet(g) = {s} \/ s \notin ToSet(g)
      BY <1>1, <1>2, <1>3, GroupIs
    <3> QED BY <1>3, <3>1 DEF GroupsOf, Share
  <2> QED BY <1>3, <2>1 DEF GroupsOf
<1>6. Mates(x, s) = {}
  BY <1>1, <1>2 DEF Group, Mates
<1> QED BY <1>1, <1>3, <1>4, <1>5, <1>6 DEF Loose, x

\* The winlinks stay what they are: another one becomes current.
LEMMA PutSame ==
  ASSUME Calm, NEW st, NEW D, Loose(st, D), NEW s \in Session, st.sess[s].alive,
         NEW r, Sound(r), r.win = st.sess[s].win
  PROVE  LET x == Put(st, s, r) IN
         /\ Loose(x, D) /\ x.sess = [st.sess EXCEPT ![s] = r]
         /\ x.groups = st.groups /\ x.att = st.att
<1> DEFINE x == Put(st, s, r)
<1>1. /\ st \in States /\ SessOk(st, D) /\ GroupsOf(st, D) /\ Homes(st)
      /\ st.sess \in [Session -> Recs] /\ st.att \in [Client -> Session \cup {None}]
  BY DEF Loose, States
<1>2. r \in Recs /\ r.alive
  BY DEF Sound
<1>3. /\ x \in States /\ x.sess = [st.sess EXCEPT ![s] = r] /\ x.groups = st.groups /\ x.att = st.att
  BY <1>1, <1>2 DEF States, Put
<1> HIDE DEF x
<1>4. /\ x.sess[s] = r /\ \A z \in Session : z # s => x.sess[z] = st.sess[z]
      /\ \A z \in Session : x.sess[z].win = st.sess[z].win
      /\ \A z \in Session : st.sess[z].alive => x.sess[z].alive
  BY <1>1, <1>2, <1>3
<1>5. SessOk(x, D)
  BY <1>1, <1>4 DEF SessOk, OnceEach, Linked
<1>6. GroupsOf(x, D)
  <2>1. \A g \in Groups(st) : ToSet(g) \subseteq Session
    BY <1>1, GroupFacts
  <2>2. Groups(x) = Groups(st)
    BY <1>3 DEF Groups
  <2>3. \A g \in Groups(st) : Share(st, g) => Share(x, g)
    BY <1>1, <1>3, <1>4, <2>1 DEF Share
  <2>4. \A z \in Session : st.sess[z].alive => x.sess[z].alive
    BY <1>1, <1>3, <1>4 DEF Sound
  <2> QED BY <1>1, <1>3, <2>1, <2>2, <2>3, <2>4 DEF GroupsOf
<1>7. Homes(x)
  BY <1>1, <1>3, <1>4 DEF Homes
<1> QED BY <1>3, <1>5, <1>6, <1>7 DEF Loose, x

-----------------------------------------------------------------------------
(***************************************************************************)
(* Windows are unlinked and killed.                                        *)
(***************************************************************************)
Detached(st, s, i, x) ==
  \/ Linked(x.sess[s]) = {} /\ Loose(x, Group(x, s)) /\ Linked(st.sess[s]) = {i}
  \/ /\ Linked(x.sess[s]) # {} /\ Full(x) /\ x.groups = st.groups
     /\ Linked(x.sess[s]) = Linked(st.sess[s]) \ {i}
     /\ \A j \in Linked(x.sess[s]) : x.sess[s].win[j] = st.sess[s].win[j]

\* Window i may be linked elsewhere in the session too.
LEMMA DetachKeeps ==
  ASSUME Calm, NEW st, NEW s \in Session, Loose(st, Group(st, s)),
         Whole(st, s),
         NEW i \in Linked(st.sess[s]),
         OnceBut(st.sess[s], i)
  PROVE  Detached(st, s, i, Detach(st, s, i))
<1> DEFINE r == st.sess[s]
           m == IF r.cur = i THEN MoveOff(r) ELSE r
           u == Unlink(m, i)
           W == {r.win[i]}
           z == Note(Put(st, s, u), W)
           x == Detach(st, s, i)
<1>0. s \in Group(st, s) /\ st.sess[s].alive
  BY SoundIsAlive DEF Group, Whole
<1>1. /\ st \in States /\ Loose(st, {} \cup Group(st, s)) /\ {} \cup Group(st, s) = Group(st, s)
      /\ st.sess \in [Session -> Recs] /\ Sound(r) /\ r \in Recs
  BY <1>0 DEF Loose, States, Whole
<1>2. x = SynchronizeFrom(z, s)
  BY DEF Detach
<1>3. W \in SUBSET Window
  <2>1. r.win[i] \in Window
    BY <1>1, Facts
  <2> QED BY <2>1
<1>4. Sound(m) /\ m.win = r.win /\ (Linked(r) # {i} => m.cur # i)
  BY <1>1, MoveOffIs DEF Sound
<1>5. Linked(m) = Linked(r)
  BY <1>4 DEF Linked
<1> HIDE DEF m, W
<1>6. CASE Linked(r) = {i}
  <2>1. m.cur = i
    BY <1>4, <1>5, <1>6 DEF Sound
  <2>2. u = Emptied
    BY <1>4, <1>5, <1>6, <2>1, UnlinkLast
  <2> HIDE DEF u
  <2>3. /\ Loose(z, Group(st, s)) /\ z.sess = [st.sess EXCEPT ![s] = u]
        /\ z.groups = st.groups /\ Group(z, s) = Group(st, s)
    <3>1. Placed(st, s, Group(st, s), u, z)
      BY <1>3, <2>2, PutKeeps
    <3>2. Group(st, s) \cup Group(st, s) = Group(st, s)
      OBVIOUS
    <3> HIDE DEF z
    <3> QED BY <3>1, <3>2 DEF Placed
  <2> HIDE DEF z
  <2>4. Linked(z.sess[s]) = {} /\ z \in States
    BY <1>1, <2>2, <2>3, EmptiedIs DEF Loose
  <2> DEFINE F == [y \in Session |-> IF y \in Mates(z, s) THEN Synchronize1(z.sess[s], z.sess[y])
                                     ELSE z.sess[y]]
  <2>5. F = z.sess
    <3>1. \A y \in Session : F[y] = z.sess[y]
      BY <2>4 DEF Synchronize1
    <3> QED BY <2>4, <3>1 DEF States
  <2>6. x = z
    <3>1. [z EXCEPT !.sess = F] = z
      <4> HIDE DEF F
      <4> QED BY <2>4, <2>5 DEF States
    <3> QED BY <1>2, <2>4, <3>1 DEF SynchronizeFrom
  <2> QED BY <1>6, <2>3, <2>4, <2>6 DEF Detached
<1>7. CASE Linked(r) # {i}
  <2>1. /\ Sound(u) /\ u.cur = m.cur /\ Linked(u) = Linked(r) \ {i}
        /\ \A j \in Linked(u) : u.win[j] = r.win[j]
    BY <1>4, <1>5, <1>7, UnlinkIs
  <2> HIDE DEF u
  <2>2. Follow(r, u)
    BY <1>7, <2>1, SoundIsAlive DEF Follow
  <2>3. Once(u)
    BY <1>1, <2>1 DEF Once, OnceBut, OnceEach
  <2> DEFINE X == SynchronizeFrom(Note(Put(st, s, u), W), s)
             none == {}
  <2>5. x = X
    BY <1>2
  <2>4. Loose(X, {}) /\ X.sess[s] = u /\ X.groups = st.groups
    <3> HIDE DEF W, x, z
    <3>1. none \cap Group(st, s) = {} /\ Loose(st, none \cup Group(st, s))
      BY <1>1
    <3> HIDE DEF none, X
    <3>2. Replaced(st, s, none, u, X)
      BY <1>3, <2>1, <2>2, <3>1, ReplaceKeeps DEF X
    <3> QED BY <2>3, <3>2 DEF none, Replaced
  <2>6. Linked(u) # {}
    BY <2>1, SoundIsAlive
  <2> HIDE DEF X, x, r
  <2> QED BY <2>1, <2>4, <2>5, <2>6 DEF Full, r, x, Detached
<1> QED BY <1>6, <1>7

\* Winlink i of session s has gone, or the session has.
Gone(st, s, i, x) ==
  \/ x.sess[s] = Dead
  \/ /\ Linked(x.sess[s]) = Linked(st.sess[s]) \ {i} /\ x.groups = st.groups
     /\ \A j \in Linked(x.sess[s]) : x.sess[s].win[j] = st.sess[s].win[j]

LEMMA UnlinkOrDestroyKeeps ==
  ASSUME Calm, NEW st, NEW s \in Session, Loose(st, Group(st, s)),
         Whole(st, s),
         NEW i \in Linked(st.sess[s]),
         OnceBut(st.sess[s], i),
         NEW d \in Even
  PROVE  Full(UnlinkOrDestroy(st, s, i, d)) /\ Gone(st, s, i, UnlinkOrDestroy(st, s, i, d))
<1> DEFINE x == Detach(st, s, i)
<1>1. Detached(st, s, i, x)
  BY DetachKeeps
<1>2. UnlinkOrDestroy(st, s, i, d) = IF Linked(x.sess[s]) = {} THEN DestroyGroup(x, s, d) ELSE x
  BY DEF UnlinkOrDestroy
<1> HIDE DEF x
<1>3. CASE Linked(x.sess[s]) = {}
  <2>1. Loose(x, {s} \cup Mates(x, s))
    BY <1>1, <1>3 DEF Group, Detached
  <2>2. Full(DestroyGroup(x, s, d)) /\ Fewer(x, DestroyGroup(x, s, d))
    BY <2>1, DestroyGroupKeeps
  <2>3. x.sess[s] \in Recs
    BY <2>1 DEF Loose, States
  <2> DEFINE y == DestroyGroup(x, s, d)
  <2>4. y.sess[s] = Dead \/ y.sess[s] = x.sess[s]
    BY <2>2 DEF Fewer
  <2>5. y.sess[s] = Dead
    <3>1. y.sess[s] = Dead \/ Sound(y.sess[s])
      BY <2>2 DEF Full, Loose, SessOk
    <3> HIDE DEF y
    <3> QED BY <1>3, <2>4, <3>1, SoundIsAlive
  <2> HIDE DEF y
  <2> QED BY <1>2, <1>3, <2>2, <2>5 DEF y, Gone
<1> QED BY <1>1, <1>2, <1>3 DEF Gone, Detached

\* After a command, that is true of each session that is alive.
LEMMA WholeGroup ==
  ASSUME Calm, NEW st, Full(st), NEW s \in Session, st.sess[s].alive
  PROVE  /\ Loose(st, Group(st, s)) /\ Loose(st, {} \cup Group(st, s)) /\ {} \cap Group(st, s) = {}
         /\ Whole(st, s) /\ Once(st.sess[s]) /\ (\A i : OnceBut(st.sess[s], i))
         /\ Sound(st.sess[s]) /\ st.sess[s] \in Recs
<1>1. Loose(st, {}) /\ SessOk(st, {}) /\ {} \cap Group(st, s) = {} /\ st.sess[s] \in Recs
  BY DEF Full, Loose, States
<1>2. Loose(st, Group(st, s)) /\ {} \cup Group(st, s) = Group(st, s)
  BY <1>1, Looser
<1>3. Whole(st, s)
  BY <1>1, MatesShare DEF Whole
<1>4. Once(st.sess[s])
  BY <1>1 DEF Once, SessOk
<1>5. \A i : OnceBut(st.sess[s], i)
  BY <1>4 DEF Once, OnceBut, OnceEach
<1> QED BY <1>1, <1>2, <1>3, <1>4, <1>5, DeadIs DEF SessOk

LEMMA UnlinkKeeps ==
  ASSUME Calm, NEW st, Full(st), NEW s \in Session, NEW i \in Linked(st.sess[s]), NEW d \in Even
  PROVE  Full(UnlinkOrDestroy(st, s, i, d)) /\ Gone(st, s, i, UnlinkOrDestroy(st, s, i, d))
<1>1. st.sess[s].alive
  <2>1. st.sess[s] = Dead \/ Sound(st.sess[s])
    BY DEF Full, Loose, SessOk
  <2> QED BY <2>1, DeadIs, SoundIsAlive
<1>2. Loose(st, Group(st, s)) /\ Whole(st, s) /\ OnceBut(st.sess[s], i)
  BY <1>1, WholeGroup
<1> QED BY <1>2, UnlinkOrDestroyKeeps

\* The winlinks a session gets when it is renumbered follow from those it has.
LEMMA RenumberedWins ==
  ASSUME NEW r \in Recs, NEW t \in Recs, r.win = t.win
  PROVE  Renumber(r).win = Renumber(t).win
<1> DEFINE f(x) == [i \in Range([k \in 1..Len(Sorted(Linked(x))) |-> Base + k - 1])
                      |-> x.win[Sorted(Linked(x))[i - Base + 1]]]
<1>1. ASSUME NEW x \in Recs PROVE Renumber(x).win = f(x)
  BY DEF Renumber, Recs
<1>2. Linked(r) = Linked(t)
  BY DEF Linked
<1>3. f(r) = f(t)
  BY <1>2
<1> HIDE DEF f
<1> QED BY <1>1, <1>3

LEMMA RenumberGroupKeeps ==
  ASSUME Calm, "renumber-windows" \in Uses, NEW st, Full(st), NEW s \in Session
  PROVE  Full(RenumberGroup(st, s))
<1> DEFINE F == [y \in Session |-> IF y \in Group(st, s) THEN Renumber(st.sess[y]) ELSE st.sess[y]]
           x == RenumberGroup(st, s)
<1>1. /\ st \in States /\ SessOk(st, {}) /\ GroupsOf(st, {}) /\ Homes(st)
      /\ st.sess \in [Session -> Recs] /\ st.att \in [Client -> Session \cup {None}]
  BY DEF Full, Loose, States
<1>2. \A y \in Session : (st.sess[y] = Dead \/ Sound(st.sess[y])) /\ OnceEach(st.sess[y])
  BY <1>1 DEF SessOk, Calm
<1>3. x = [st EXCEPT !.sess = F]
  BY DEF RenumberGroup, Group
<1>4. ASSUME NEW y \in Session
      PROVE  /\ (st.sess[y] = Dead /\ F[y] = Dead) \/ (st.sess[y] # Dead /\ Sound(F[y]))
             /\ OnceEach(F[y])
  <2>1. Base + Cardinality(Window) <= MaxIndex + 1
    BY DEF Calm
  <2>2. CASE st.sess[y] = Dead
    BY <2>2, RenumberDead, DeadIs
  <2>3. CASE Sound(st.sess[y])
    BY <1>2, <2>1, <2>3, RenumberIs, SoundIsAlive
  <2> QED BY <1>2, <2>2, <2>3
<1>5. \A y \in Group(st, s), z \in Group(st, s) :
        st.sess[y].win = st.sess[z].win => F[y].win = F[z].win
  <2>1. Group(st, s) \subseteq Session
    BY <1>1, GroupIs
  <2> QED BY <1>1, <2>1, RenumberedWins
<1>6. \A y \in Session : y \notin Group(st, s) => F[y] = st.sess[y]
  OBVIOUS
<1>7. F \in [Session -> Recs] /\ \A y \in Session : st.sess[y].alive => F[y].alive
  BY <1>2, <1>4, DeadIs DEF Sound
<1> HIDE DEF F
<1>8. x \in States /\ x.sess = F /\ x.groups = st.groups /\ x.att = st.att
  BY <1>1, <1>3, <1>7 DEF States
<1> HIDE DEF x
<1>9. SessOk(x, {})
  BY <1>4, <1>8 DEF SessOk
<1>10. GroupsOf(x, {})
  <2>1. ASSUME NEW g \in Groups(st)
        PROVE  /\ g # <<>> /\ Uniq(g) /\ (\A z \in ToSet(g) : F[z].alive)
               /\ Share(x, g)
    <3>1. /\ ToSet(g) \subseteq Session
          /\ ToSet(g) = Group(st, s) \/ ToSet(g) \cap Group(st, s) = {}
      BY <1>1, GroupFacts, GroupIs
    <3>2. /\ g # <<>> /\ Uniq(g) /\ (\A z \in ToSet(g) : st.sess[z].alive)
          /\ (ToSet(g) = {} \/ Share(st, g))
      BY <1>1 DEF GroupsOf
    <3>3. Share(x, g)
      BY <1>5, <1>6, <1>8, <3>1, <3>2 DEF Share
    <3> QED BY <1>7, <3>1, <3>2, <3>3
  <2> QED BY <1>1, <1>8, <2>1 DEF GroupsOf, Groups
<1>11. Homes(x)
  BY <1>1, <1>7, <1>8 DEF Homes
<1> QED BY <1>8, <1>9, <1>10, <1>11 DEF Full, Loose, x

LEMMA KillInKeeps ==
  ASSUME Calm, NEW st, Full(st), NEW s \in Session, NEW w, NEW renumber,
         renumber => "renumber-windows" \in Uses, NEW d \in Even
  PROVE  Full(KillIn(st, s, w, renumber, d))
<1> DEFINE q == Sorted(Links(st.sess[s], w))
           n == Len(q)
           S == {x \in States : Full(x)}
           Do(y, i) == IF i \in Links(y.sess[s], w) THEN UnlinkOrDestroy(y, s, i, d) ELSE y
           G == [p \in (1..n) \X S |-> Do(p[2], q[p[1]])]
           Result(f, t) == IF t = {} THEN st ELSE Do(f[t \ {Max(t)}], q[Max(t)])
           h == CHOOSE f : f = [t \in SUBSET (DOMAIN q) |-> Result(f, t)]
<1>1. n \in Nat /\ DOMAIN q = 1..n
  <2>1. st.sess[s] \in Recs
    BY DEF Full, Loose, States
  <2>2. Links(st.sess[s], w) \in SUBSET (Indexes \cup Session)
    BY <2>1, Facts DEF Links
  <2> QED BY <2>2, SortedIs
<1>2. st \in S
  BY DEF Full, Loose
<1>9. \/ KillIn(st, s, w, renumber, d)
           = FoldLeft(LAMBDA y, i : IF i \in Links(y.sess[s], w)
                                      THEN UnlinkOrDestroy(y, s, i, d) ELSE y, st, q)
      \/ /\ renumber
         /\ KillIn(st, s, w, renumber, d)
             = RenumberGroup(FoldLeft(LAMBDA y, i : IF i \in Links(y.sess[s], w)
                                                      THEN UnlinkOrDestroy(y, s, i, d) ELSE y,
                                      st, q), s)
  BY Zenon DEF KillIn
<1>3. ASSUME NEW x \in S, NEW i PROVE Do(x, i) \in S
  <2>1. CASE i \in Links(x.sess[s], w)
    <3>1. i \in Linked(x.sess[s]) /\ Full(x)
      BY <2>1 DEF Links
    <3>2. Full(UnlinkOrDestroy(x, s, i, d))
      BY <3>1, UnlinkKeeps
    <3> QED BY <2>1, <3>2 DEF Full, Loose
  <2> QED BY <2>1
<1> HIDE DEF q, S, Do
<1>4. G \in [(1..n) \X S -> S]
  BY <1>1, <1>3
<1>5. FoldLeft(LAMBDA y, i : IF i \in Links(y.sess[s], w) THEN UnlinkOrDestroy(y, s, i, d) ELSE y,
               st, q) = h[DOMAIN q]
  BY Zenon DEF FoldLeft, MapThenFoldSet, q, Do
<1>6. h[1..n] \in S
  <2>1. PICK g : Solves(g, n, st, G)
    BY <1>1, Solvable
  <2>2. \A u \in SUBSET (1..n) : g[u] \in S
    <3> HIDE DEF G, n
    <3> QED BY <1>1, <1>2, <1>4, <2>1, SolvedIn
  <2>3. \A u \in SUBSET (1..n) : u # {} => Max(u) \in 1..n /\ u \ {Max(u)} \in SUBSET (1..n)
    BY <1>1, MaxIn
  <2>4. g = [u \in SUBSET (DOMAIN q) |-> Result(g, u)]
    <3>1. \A u \in SUBSET (1..n) : u # {} => Result(g, u) = G[<<Max(u), g[u \ {Max(u)}]>>]
      BY <2>2, <2>3
    <3> QED BY <1>1, <2>1, <3>1 DEF Solves
  <2>5. h = [u \in SUBSET (DOMAIN q) |-> Result(h, u)]
    <3> HIDE DEF Result
    <3> QED BY <2>4
  <2> HIDE DEF h
  <2>6. h[{}] = st
    BY <2>5
  <2>7. ASSUME NEW k \in 1..n, h[1..(k - 1)] \in S PROVE h[1..k] = G[<<k, h[1..(k - 1)]>>]
    <3>1. Max(1..k) = k /\ (1..k) \ {k} = 1..(k - 1) /\ 1..k # {}
      BY UpTo
    <3>2. 1..k \in SUBSET (DOMAIN q)
      BY <1>1
    <3> QED BY <2>5, <2>7, <3>1, <3>2
  <2>8. Follows(h, n, st, S, G)
    BY <2>6, <2>7 DEF Follows
  <2>9. n \in Nat
    BY <1>1
  <2> HIDE DEF G, n
  <2> QED BY <1>2, <1>4, <2>8, <2>9, FoldStays, Zenon
<1> HIDE DEF h
<1>10. Full(h[1..n])
  BY <1>6 DEF S
<1>11. h[DOMAIN q] = h[1..n]
  BY <1>1
<1>12. \/ KillIn(st, s, w, renumber, d) = h[1..n]
       \/ renumber /\ KillIn(st, s, w, renumber, d) = RenumberGroup(h[1..n], s)
  BY <1>5, <1>9, <1>11, Zenon
<1> QED BY <1>10, <1>12, RenumberGroupKeeps

LEMMA KillKeeps ==
  ASSUME Calm, NEW st, Full(st), NEW w, NEW renumber,
         renumber => "renumber-windows" \in Uses, NEW d \in Even
  PROVE  Full(Kill(st, w, renumber, d))
<1> DEFINE q == Sorted(Session)
           n == Len(q)
           S == {x \in States : Full(x)}
           Do(x, s) == KillIn(x, s, w, renumber, d)
           G == [p \in (1..n) \X S |-> Do(p[2], q[p[1]])]
           Result(f, t) == IF t = {} THEN st ELSE Do(f[t \ {Max(t)}], q[Max(t)])
           h == CHOOSE f : f = [t \in SUBSET (DOMAIN q) |-> Result(f, t)]
<1>1. n \in Nat /\ DOMAIN q = 1..n /\ \A k \in 1..n : q[k] \in Session
  BY SortedIs
<1>2. st \in S
  BY DEF Full, Loose
<1>9. Kill(st, w, renumber, d) = FoldLeft(LAMBDA x, s : KillIn(x, s, w, renumber, d), st, q)
  BY Zenon DEF Kill
<1>3. ASSUME NEW x \in S, NEW s \in Session PROVE Do(x, s) \in S
  <2>1. Full(KillIn(x, s, w, renumber, d))
    BY KillInKeeps
  <2> QED BY <2>1 DEF Full, Loose
<1> HIDE DEF q, S, Do
<1>4. G \in [(1..n) \X S -> S]
  BY <1>1, <1>3
<1>5. FoldLeft(LAMBDA x, s : KillIn(x, s, w, renumber, d), st, q) = h[DOMAIN q]
  BY Zenon DEF FoldLeft, MapThenFoldSet, q, Do
<1>6. h[1..n] \in S
  <2>1. PICK g : Solves(g, n, st, G)
    BY <1>1, Solvable
  <2>2. \A u \in SUBSET (1..n) : g[u] \in S
    <3> HIDE DEF G, n
    <3> QED BY <1>1, <1>2, <1>4, <2>1, SolvedIn
  <2>3. \A u \in SUBSET (1..n) : u # {} => Max(u) \in 1..n /\ u \ {Max(u)} \in SUBSET (1..n)
    BY <1>1, MaxIn
  <2>4. g = [u \in SUBSET (DOMAIN q) |-> Result(g, u)]
    <3>1. \A u \in SUBSET (1..n) : u # {} => Result(g, u) = G[<<Max(u), g[u \ {Max(u)}]>>]
      BY <2>2, <2>3
    <3> QED BY <1>1, <2>1, <3>1 DEF Solves
  <2>5. h = [u \in SUBSET (DOMAIN q) |-> Result(h, u)]
    <3> HIDE DEF Result
    <3> QED BY <2>4
  <2> HIDE DEF h
  <2>6. h[{}] = st
    BY <2>5
  <2>7. ASSUME NEW k \in 1..n, h[1..(k - 1)] \in S PROVE h[1..k] = G[<<k, h[1..(k - 1)]>>]
    <3>1. Max(1..k) = k /\ (1..k) \ {k} = 1..(k - 1) /\ 1..k # {}
      BY UpTo
    <3>2. 1..k \in SUBSET (DOMAIN q)
      BY <1>1
    <3> QED BY <2>5, <2>7, <3>1, <3>2
  <2>8. Follows(h, n, st, S, G)
    BY <2>6, <2>7 DEF Follows
  <2>9. n \in Nat
    BY <1>1
  <2> HIDE DEF G, n
  <2> QED BY <1>2, <1>4, <2>8, <2>9, FoldStays, Zenon
<1> HIDE DEF h
<1>11. h[DOMAIN q] = h[1..n] /\ Full(h[1..n])
  BY <1>1, <1>6 DEF S
<1> QED BY <1>5, <1>9, <1>11, Zenon

-----------------------------------------------------------------------------
(***************************************************************************)
(* What the commands do.                                                   *)
(***************************************************************************)
LEMMA NothingNoted ==
  ASSUME NEW st \in States
  PROVE  Note(st, {}) = st
<1>1. st.noted \cup {} = st.noted
  OBVIOUS
<1> QED BY <1>1 DEF Note, States

LEMMA PutInto ==
  ASSUME NEW st \in States, NEW s \in Session, NEW r \in Recs
  PROVE  /\ Put(st, s, r) \in States /\ Put(st, s, r).sess = [st.sess EXCEPT ![s] = r]
         /\ Put(st, s, r).sess[s] = r
         /\ Put(st, s, r).groups = st.groups /\ Put(st, s, r).att = st.att
BY DEF Put, States

\* x is st where session s is r.
Having(st, s, r, x) ==
  Full(x) /\ x.sess = [st.sess EXCEPT ![s] = r] /\ x.sess[s] = r /\ x.groups = st.groups

LEMMA PutFull ==
  ASSUME Calm, NEW st, Full(st), NEW s \in Session, Mates(st, s) = {},
         NEW r, Sound(r), Once(r)
  PROVE  Having(st, s, r, Put(st, s, r))
<1> DEFINE x == Put(st, s, r)
           y == Note(x, {})
<1>1. st \in States /\ r \in Recs /\ Loose(st, {}) /\ {} \in SUBSET Window
  BY DEF Full, Loose, Sound
<1>2. x \in States /\ x.sess = [st.sess EXCEPT ![s] = r] /\ x.sess[s] = r /\ x.groups = st.groups
  BY <1>1, PutInto
<1>3. y = x
  BY <1>2, NothingNoted
<1>4. Loose(y, {})
  <2> HIDE DEF x, y
  <2> QED BY <1>1, PutAlone DEF x, y
<1> QED BY <1>2, <1>3, <1>4 DEF Full, Having

LEMMA SelectKeeps ==
  ASSUME Calm, NEW st, Full(st), NEW s \in Session, NEW i \in Linked(st.sess[s])
  PROVE  Full(Put(st, s, SetCurrent(st.sess[s], i)))
<1>1. st.sess[s] \in Recs /\ Sound(st.sess[s]) /\ st.sess[s].alive /\ Loose(st, {})
  <2>1. st.sess[s] = Dead \/ Sound(st.sess[s])
    BY DEF Full, Loose, SessOk
  <2> QED BY <2>1, DeadIs, SoundIsAlive DEF Full, Sound
<1> DEFINE r == SetCurrent(st.sess[s], i)
<1>2. Sound(r) /\ r.win = st.sess[s].win
  BY <1>1, SetCurrentIs, SoundIsHeadless
<1> HIDE DEF r
<1>3. Loose(Put(st, s, r), {})
  BY <1>1, <1>2, PutSame
<1> QED BY <1>3 DEF Full, r

\* A window is linked in one session twice when there are fewer windows than
\* winlinks.
LEMMA TwiceIs ==
  ASSUME Calm, NEW r \in Recs, ~(Cardinality(Range(r.win)) < Cardinality(Linked(r)))
  PROVE  OnceEach(r)
<1> DEFINE I == Linked(r)
           R == Range(r.win)
<1>1. /\ IsFiniteSet(I) /\ r.win \in [I -> R] /\ R = {r.win[i] : i \in I}
  BY Facts DEF Range, Linked
<1>2. SUFFICES ASSUME NEW i \in I, NEW j \in I, r.win[i] = r.win[j], i # j PROVE FALSE
  BY DEF OnceEach
<1>3. IsFiniteSet(I \ {i}) /\ Cardinality(I \ {i}) = Cardinality(I) - 1
  BY <1>1, FS_RemoveElement
<1> DEFINE f == [k \in I \ {i} |-> r.win[k]]
<1>4. f \in Surjection(I \ {i}, R)
  BY <1>1, <1>2 DEF Surjection
<1>5. IsFiniteSet(R) /\ Cardinality(R) <= Cardinality(I \ {i})
  BY <1>3, <1>4, FS_Surjection
<1>6. Cardinality(I) \in Nat /\ Cardinality(R) \in Nat
  BY <1>1, <1>5, FS_CardinalityType
<1> QED BY <1>3, <1>5, <1>6

LEMMA RenumberKeeps ==
  ASSUME Calm, Uses \cap {"-r", "renumber-windows"} # {}, NEW st, Full(st), NEW s \in Session,
         st.sess[s].alive, Mates(st, s) = {}, OnceEach(st.sess[s])
  PROVE  Full(Put(st, s, Renumber(st.sess[s])))
<1>1. Sound(st.sess[s])
  BY WholeGroup
<1>2. Base + Cardinality(Window) <= MaxIndex + 1
  BY DEF Calm
<1>3. Sound(Renumber(st.sess[s])) /\ OnceEach(Renumber(st.sess[s]))
  BY <1>1, <1>2, RenumberIs
<1>4. Having(st, s, Renumber(st.sess[s]), Put(st, s, Renumber(st.sess[s])))
  BY <1>3, PutFull DEF Once
<1> QED BY <1>4 DEF Having

LEMMA ShuffleKeeps ==
  ASSUME Calm, NEW st, Full(st), NEW s \in Session, st.sess[s].alive, Mates(st, s) = {},
         NEW k \in Nat, Room(st.sess[s], k)
  PROVE  Having(st, s, ShuffleUp(st.sess[s], k), Put(st, s, ShuffleUp(st.sess[s], k)))
<1> DEFINE r == ShuffleUp(st.sess[s], k)
<1>1. Sound(st.sess[s]) /\ Once(st.sess[s])
  BY WholeGroup
<1>2. Sound(r)
  BY <1>1, ShuffleUpIs
<1>3. Once(r)
  BY <1>1, ShuffleOnce DEF Once
<1> HIDE DEF r
<1>4. Having(st, s, r, Put(st, s, r))
  BY <1>2, <1>3, PutFull
<1> QED BY <1>4 DEF r

LEMMA RenumberAllKeeps ==
  ASSUME Calm, "renumber-windows" \in Uses, NEW st, Full(st)
  PROVE  Full(FoldLeft(LAMBDA y, z : RenumberGroup(y, z), st, Sorted(Alive(st))))
<1> DEFINE q == Sorted(Alive(st))
           n == Len(q)
           S == {x \in States : Full(x)}
           Do(y, z) == RenumberGroup(y, z)
           G == [p \in (1..n) \X S |-> Do(p[2], q[p[1]])]
           Result(f, t) == IF t = {} THEN st ELSE Do(f[t \ {Max(t)}], q[Max(t)])
           h == CHOOSE f : f = [t \in SUBSET (DOMAIN q) |-> Result(f, t)]
<1>1. n \in Nat /\ DOMAIN q = 1..n /\ \A k \in 1..n : q[k] \in Session
  <2>1. Alive(st) \subseteq Session /\ Alive(st) \in SUBSET (Indexes \cup Session)
    BY DEF Alive
  <2> QED BY <2>1, SortedIs
<1>2. st \in S
  BY DEF Full, Loose
<1>3. ASSUME NEW x \in S, NEW s \in Session PROVE Do(x, s) \in S
  <2>1. Full(RenumberGroup(x, s))
    BY RenumberGroupKeeps
  <2> QED BY <2>1 DEF Full, Loose
<1> HIDE DEF q, S, Do
<1>4. G \in [(1..n) \X S -> S]
  BY <1>1, <1>3
<1>5. FoldLeft(LAMBDA y, z : RenumberGroup(y, z), st, q) = h[DOMAIN q]
  BY Zenon DEF FoldLeft, MapThenFoldSet, q, Do
<1>6. h[1..n] \in S
  <2>1. PICK g : Solves(g, n, st, G)
    BY <1>1, Solvable
  <2>2. \A u \in SUBSET (1..n) : g[u] \in S
    <3> HIDE DEF G, n
    <3> QED BY <1>1, <1>2, <1>4, <2>1, SolvedIn
  <2>3. \A u \in SUBSET (1..n) : u # {} => Max(u) \in 1..n /\ u \ {Max(u)} \in SUBSET (1..n)
    BY <1>1, MaxIn
  <2>4. g = [u \in SUBSET (DOMAIN q) |-> Result(g, u)]
    <3>1. \A u \in SUBSET (1..n) : u # {} => Result(g, u) = G[<<Max(u), g[u \ {Max(u)}]>>]
      BY <2>2, <2>3
    <3> QED BY <1>1, <2>1, <3>1 DEF Solves
  <2>5. h = [u \in SUBSET (DOMAIN q) |-> Result(h, u)]
    <3> HIDE DEF Result
    <3> QED BY <2>4
  <2> HIDE DEF h
  <2>6. h[{}] = st
    BY <2>5
  <2>7. ASSUME NEW k \in 1..n, h[1..(k - 1)] \in S PROVE h[1..k] = G[<<k, h[1..(k - 1)]>>]
    <3>1. Max(1..k) = k /\ (1..k) \ {k} = 1..(k - 1) /\ 1..k # {}
      BY UpTo
    <3>2. 1..k \in SUBSET (DOMAIN q)
      BY <1>1
    <3> QED BY <2>5, <2>7, <3>1, <3>2
  <2>8. Follows(h, n, st, S, G)
    BY <2>6, <2>7 DEF Follows
  <2>9. n \in Nat
    BY <1>1
  <2> HIDE DEF G, n
  <2> QED BY <1>2, <1>4, <2>8, <2>9, FoldStays, Zenon
<1> HIDE DEF h
<1>11. h[DOMAIN q] = h[1..n] /\ Full(h[1..n])
  BY <1>1, <1>6 DEF S
<1>12. Full(FoldLeft(LAMBDA y, z : RenumberGroup(y, z), st, q))
  BY <1>5, <1>11, Zenon
<1> QED BY <1>12, Zenon DEF q

\* The windows of session r without w have been killed.
OthersKilled(st, r, w, d) ==
  FoldLeft(LAMBDA x, i : IF r.win[i] = w THEN x ELSE Kill(x, r.win[i], FALSE, d),
           st, Sorted(Linked(r)))

LEMMA OtherWindowsKilled ==
  ASSUME Calm, NEW st, Full(st), NEW s \in Session, NEW w, NEW d \in Even
  PROVE  Full(OthersKilled(st, st.sess[s], w, d))
<1> DEFINE q == Sorted(Linked(st.sess[s]))
           n == Len(q)
           S == {x \in States : Full(x)}
           Do(x, i) == IF st.sess[s].win[i] = w THEN x ELSE Kill(x, st.sess[s].win[i], FALSE, d)
           G == [p \in (1..n) \X S |-> Do(p[2], q[p[1]])]
           Result(f, t) == IF t = {} THEN st ELSE Do(f[t \ {Max(t)}], q[Max(t)])
           h == CHOOSE f : f = [t \in SUBSET (DOMAIN q) |-> Result(f, t)]
<1>1. n \in Nat /\ DOMAIN q = 1..n
  <2>1. st.sess[s] \in Recs
    BY DEF Full, Loose, States
  <2>2. Linked(st.sess[s]) \in SUBSET (Indexes \cup Session)
    BY <2>1, Facts
  <2> QED BY <2>2, SortedIs
<1>2. st \in S
  BY DEF Full, Loose
<1>3. ASSUME NEW x \in S, NEW i PROVE Do(x, i) \in S
  <2>1. Full(Kill(x, st.sess[s].win[i], FALSE, d))
    BY KillKeeps
  <2> QED BY <2>1 DEF Full, Loose
<1> HIDE DEF q, S, Do
<1>4. G \in [(1..n) \X S -> S]
  BY <1>1, <1>3
<1>5. FoldLeft(LAMBDA x, i : IF st.sess[s].win[i] = w THEN x
                             ELSE Kill(x, st.sess[s].win[i], FALSE, d),
               st, q) = h[DOMAIN q]
  BY Zenon DEF FoldLeft, MapThenFoldSet, q, Do
<1>6. h[1..n] \in S
  <2>1. PICK g : Solves(g, n, st, G)
    BY <1>1, Solvable
  <2>2. \A u \in SUBSET (1..n) : g[u] \in S
    <3> HIDE DEF G, n
    <3> QED BY <1>1, <1>2, <1>4, <2>1, SolvedIn
  <2>3. \A u \in SUBSET (1..n) : u # {} => Max(u) \in 1..n /\ u \ {Max(u)} \in SUBSET (1..n)
    BY <1>1, MaxIn
  <2>4. g = [u \in SUBSET (DOMAIN q) |-> Result(g, u)]
    <3>1. \A u \in SUBSET (1..n) : u # {} => Result(g, u) = G[<<Max(u), g[u \ {Max(u)}]>>]
      BY <2>2, <2>3
    <3> QED BY <1>1, <2>1, <3>1 DEF Solves
  <2>5. h = [u \in SUBSET (DOMAIN q) |-> Result(h, u)]
    <3> HIDE DEF Result
    <3> QED BY <2>4
  <2> HIDE DEF h
  <2>6. h[{}] = st
    BY <2>5
  <2>7. ASSUME NEW k \in 1..n, h[1..(k - 1)] \in S PROVE h[1..k] = G[<<k, h[1..(k - 1)]>>]
    <3>1. Max(1..k) = k /\ (1..k) \ {k} = 1..(k - 1) /\ 1..k # {}
      BY UpTo
    <3>2. 1..k \in SUBSET (DOMAIN q)
      BY <1>1
    <3> QED BY <2>5, <2>7, <3>1, <3>2
  <2>8. Follows(h, n, st, S, G)
    BY <2>6, <2>7 DEF Follows
  <2>9. n \in Nat
    BY <1>1
  <2> HIDE DEF G, n
  <2> QED BY <1>2, <1>4, <2>8, <2>9, FoldStays, Zenon
<1> HIDE DEF h
<1>11. h[DOMAIN q] = h[1..n] /\ Full(h[1..n])
  BY <1>1, <1>6 DEF S
<1>12. Full(FoldLeft(LAMBDA x, i : IF st.sess[s].win[i] = w THEN x
                                   ELSE Kill(x, st.sess[s].win[i], FALSE, d), st, q))
  BY <1>5, <1>11, Zenon
<1> QED BY <1>12, Zenon DEF OthersKilled, q

LEMMA OthersDestroyed ==
  ASSUME Calm, NEW st, Full(st), NEW T \in SUBSET Session, NEW d \in Even
  PROVE  Full(FoldLeft(LAMBDA x, y : DestroySession(x, y, d), st, Sorted(T)))
<1> DEFINE q == Sorted(T)
           n == Len(q)
           S == {x \in States : Full(x)}
           Do(x, y) == DestroySession(x, y, d)
           G == [p \in (1..n) \X S |-> Do(p[2], q[p[1]])]
           Result(f, t) == IF t = {} THEN st ELSE Do(f[t \ {Max(t)}], q[Max(t)])
           h == CHOOSE f : f = [t \in SUBSET (DOMAIN q) |-> Result(f, t)]
<1>1. n \in Nat /\ DOMAIN q = 1..n /\ \A k \in 1..n : q[k] \in Session
  <2>1. T \in SUBSET (Indexes \cup Session)
    OBVIOUS
  <2> QED BY <2>1, SortedIs
<1>2. st \in S
  BY DEF Full, Loose
<1>3. ASSUME NEW x \in S, NEW s \in Session PROVE Do(x, s) \in S
  <2>1. Loose(x, {})
    BY DEF Full
  <2>2. Loose(DestroySession(x, s, d), {})
    BY <2>1, DestroySessionKeeps
  <2> QED BY <2>2 DEF Full, Loose
<1> HIDE DEF q, S, Do
<1>4. G \in [(1..n) \X S -> S]
  BY <1>1, <1>3
<1>5. FoldLeft(LAMBDA x, y : DestroySession(x, y, d), st, q) = h[DOMAIN q]
  BY Zenon DEF FoldLeft, MapThenFoldSet, q, Do
<1>6. h[1..n] \in S
  <2>1. PICK g : Solves(g, n, st, G)
    BY <1>1, Solvable
  <2>2. \A u \in SUBSET (1..n) : g[u] \in S
    <3> HIDE DEF G, n
    <3> QED BY <1>1, <1>2, <1>4, <2>1, SolvedIn
  <2>3. \A u \in SUBSET (1..n) : u # {} => Max(u) \in 1..n /\ u \ {Max(u)} \in SUBSET (1..n)
    BY <1>1, MaxIn
  <2>4. g = [u \in SUBSET (DOMAIN q) |-> Result(g, u)]
    <3>1. \A u \in SUBSET (1..n) : u # {} => Result(g, u) = G[<<Max(u), g[u \ {Max(u)}]>>]
      BY <2>2, <2>3
    <3> QED BY <1>1, <2>1, <3>1 DEF Solves
  <2>5. h = [u \in SUBSET (DOMAIN q) |-> Result(h, u)]
    <3> HIDE DEF Result
    <3> QED BY <2>4
  <2> HIDE DEF h
  <2>6. h[{}] = st
    BY <2>5
  <2>7. ASSUME NEW k \in 1..n, h[1..(k - 1)] \in S PROVE h[1..k] = G[<<k, h[1..(k - 1)]>>]
    <3>1. Max(1..k) = k /\ (1..k) \ {k} = 1..(k - 1) /\ 1..k # {}
      BY UpTo
    <3>2. 1..k \in SUBSET (DOMAIN q)
      BY <1>1
    <3> QED BY <2>5, <2>7, <3>1, <3>2
  <2>8. Follows(h, n, st, S, G)
    BY <2>6, <2>7 DEF Follows
  <2>9. n \in Nat
    BY <1>1
  <2> HIDE DEF G, n
  <2> QED BY <1>2, <1>4, <2>8, <2>9, FoldStays, Zenon
<1> HIDE DEF h
<1>11. h[DOMAIN q] = h[1..n] /\ Full(h[1..n])
  BY <1>1, <1>6 DEF S
<1>12. Full(FoldLeft(LAMBDA x, y : DestroySession(x, y, d), st, q))
  BY <1>5, <1>11, Zenon
<1> QED BY <1>12, Zenon DEF q

\* A window that a session does not have is linked there at index i, where
\* the winlink of another one may go, and one winlink becomes current.
Linking(r, i, w, x) ==
  /\ Sound(x) /\ Linked(x) = Linked(r) \cup {i} /\ x.win[i] = w
  /\ \A j \in Linked(r) \ {i} : x.win[j] = r.win[j]

LEMMA LinkingFollows ==
  ASSUME Calm, NEW r, Sound(r), NEW i, NEW w, NEW x, Linking(r, i, w, x)
  PROVE  /\ Follow(r, x)
         /\ Once(r) /\ (\A j \in Linked(r) : r.win[j] # w) => Once(x)
<1>1. Linked(r) # {}
  BY SoundIsAlive
<1> QED BY <1>1 DEF Linking, Follow, Once, OnceEach

\* A window takes the place of the winlink at i, or a new one.
InItsPlace(r, i, w, x) ==
  /\ Headless(x) /\ x.cur = Cleared(r, i).cur
  /\ x.cur # None => Linking(r, i, w, x)
  /\ Linking(r, i, w, SetCurrent(x, i)) /\ SetCurrent(x, i).win = x.win
  /\ x.cur = None => Linking(r, i, w, [x EXCEPT !.cur = i])

LEMMA ClearAndLink ==
  ASSUME Calm, NEW r, Sound(r), NEW i \in Indexes, NEW w \in Window
  PROVE  InItsPlace(r, i, w, Link(Cleared(r, i), i, w))
<1> DEFINE c == Cleared(r, i)
           x == Link(c, i, w)
<1>1. /\ Headless(c) /\ Linked(c) = Linked(r) \ {i}
      /\ c.cur = IF i = r.cur THEN None ELSE r.cur
      /\ \A j \in Linked(c) : c.win[j] = r.win[j]
  BY ClearedIs
<1> HIDE DEF c
<1>2. i \notin Linked(c)
  BY <1>1
<1>3. /\ Headless(x) /\ (Sound(c) => Sound(x)) /\ x.cur = c.cur
      /\ Linked(x) = Linked(c) \cup {i} /\ x.win[i] = w
      /\ \A j \in Linked(c) : x.win[j] = c.win[j]
  BY <1>1, <1>2, LinkIs
<1>4. x.last = c.last
  BY <1>1 DEF Link, Headless, Recs
<1> HIDE DEF x
<1>5. Linked(x) = Linked(r) \cup {i} /\ \A j \in Linked(r) \ {i} : x.win[j] = r.win[j]
  BY <1>1, <1>3
<1>6. ASSUME x.cur # None PROVE Linking(r, i, w, x)
  <2>1. Sound(x)
    BY <1>3, <1>6 DEF Headless, Sound
  <2> QED BY <1>3, <1>5, <2>1 DEF Linking
<1>7. Linking(r, i, w, SetCurrent(x, i)) /\ SetCurrent(x, i).win = x.win
  <2> DEFINE y == SetCurrent(x, i)
  <2>1. Sound(y) /\ y.win = x.win
    BY <1>3, SetCurrentIs
  <2> HIDE DEF y
  <2>2. Linking(r, i, w, y)
    BY <1>3, <1>5, <2>1 DEF Linking, Linked
  <2> QED BY <2>1, <2>2 DEF y
<1>8. ASSUME x.cur = None PROVE Linking(r, i, w, [x EXCEPT !.cur = i])
  <2> DEFINE y == [x EXCEPT !.cur = i]
  <2>1. /\ y \in Recs /\ y.alive /\ y.win = x.win /\ y.cur = i /\ y.last = x.last
        /\ x.last = c.last /\ Linked(y) = Linked(x)
    BY <1>3, <1>4 DEF Headless, Recs, Linked
  <2>2. Uniq(x.last) /\ ToSet(c.last) \subseteq Linked(c)
    BY <1>1, <1>3 DEF Headless, LastSound
  <2> HIDE DEF y
  <2>3. Sound(y)
    BY <1>1, <1>2, <1>3, <2>1, <2>2 DEF Sound, LastSound
  <2>4. Linking(r, i, w, y)
    BY <1>3, <1>5, <2>1, <2>3 DEF Linking
  <2> QED BY <2>4 DEF y
<1> QED BY <1>1, <1>3, <1>6, <1>7, <1>8 DEF c, x, InItsPlace

\* Sessions of st that are alive, and their groups, get the winlinks of r.
LEMMA LinkingKeeps ==
  ASSUME Calm, NEW st, Full(st), NEW s \in Session, st.sess[s].alive, NEW i, NEW w, NEW r,
         Linking(st.sess[s], i, w, r), NEW W \in SUBSET Window
  PROVE  /\ Replaced(st, s, {}, r, SynchronizeFrom(Note(Put(st, s, r), W), s))
         /\ (\A j \in Linked(st.sess[s]) : st.sess[s].win[j] # w)
              => Full(SynchronizeFrom(Note(Put(st, s, r), W), s))
<1> DEFINE none == {}
           x == SynchronizeFrom(Note(Put(st, s, r), W), s)
<1>1. /\ Loose(st, none \cup Group(st, s)) /\ none \cap Group(st, s) = {} /\ Whole(st, s)
      /\ Once(st.sess[s]) /\ Sound(st.sess[s]) /\ Sound(r)
  BY WholeGroup DEF Linking
<1>2. /\ Follow(st.sess[s], r)
      /\ (\A j \in Linked(st.sess[s]) : st.sess[s].win[j] # w) => Once(r)
  BY <1>1, LinkingFollows
<1> HIDE DEF none, x
<1>3. Replaced(st, s, none, r, x)
  BY <1>1, <1>2, ReplaceKeeps DEF x
<1> QED BY <1>2, <1>3 DEF Replaced, Full, none, x

LEMMA SpawnedKeeps ==
  ASSUME Calm, NEW st, Full(st), NEW s \in Session, st.sess[s].alive, NEW i \in Indexes,
         NEW w \in Window, \A j \in Linked(st.sess[s]) : st.sess[s].win[j] # w,
         NEW select \in BOOLEAN
  PROVE  Full(Spawned(st, s, i, w, select))
<1> DEFINE r == Cleared(st.sess[s], i)
           x == Link(r, i, w)
           y == IF r.cur = None THEN [x EXCEPT !.cur = i] ELSE x
           z == IF select THEN SetCurrent(y, i) ELSE y
           W == {w} \cup Range(st.sess[s].win)
<1>1. Sound(st.sess[s]) /\ st.sess[s] \in Recs
  BY WholeGroup
<1>2. W \in SUBSET Window
  <2>1. Range(st.sess[s].win) \in SUBSET Window
    BY <1>1, WindowsOf
  <2> QED BY <2>1
<1>3. Linking(st.sess[s], i, w, y)
  <2> DEFINE l == Link(r, i, w)
  <2>1. InItsPlace(st.sess[s], i, w, l)
    BY <1>1, ClearAndLink
  <2> HIDE DEF l
  <2>2. Linking(st.sess[s], i, w, IF r.cur = None THEN [l EXCEPT !.cur = i] ELSE l)
    BY <2>1 DEF InItsPlace
  <2> QED BY <2>2 DEF l
<1>4. Spawned(st, s, i, w, select) = SynchronizeFrom(Note(Put(st, s, z), W), s)
  BY DEF Spawned
<1> HIDE DEF y, W
<1>5. Linking(st.sess[s], i, w, z)
  <2> DEFINE v == SetCurrent(y, i)
  <2>1. Sound(y) /\ i \in Linked(y)
    BY <1>3 DEF Linking
  <2>2. Sound(v) /\ v.win = y.win
    BY <2>1, SetCurrentIs, SoundIsHeadless
  <2> HIDE DEF v
  <2>3. Linking(st.sess[s], i, w, v)
    BY <1>3, <2>2 DEF Linking, Linked
  <2> QED BY <1>3, <2>3 DEF v
<1> HIDE DEF z
<1> QED BY <1>2, <1>4, <1>5, LinkingKeeps

\* Where nothing is linked yet.
LEMMA AttachKeeps ==
  ASSUME Calm, NEW st, Full(st), NEW s \in Session, st.sess[s].alive,
         NEW i \in Indexes, i \notin Linked(st.sess[s]),
         NEW w \in Window, \A j \in Linked(st.sess[s]) : st.sess[s].win[j] # w
  PROVE  Full(Attach(st, s, i, w)) /\ i \in Linked(Attach(st, s, i, w).sess[s])
<1> DEFINE r == Link(st.sess[s], i, w)
           x == Attach(st, s, i, w)
           W == {w}
<1>1. Sound(st.sess[s]) /\ st.sess[s] \in Recs
  BY WholeGroup
<1>2. Linking(st.sess[s], i, w, r)
  BY <1>1, LinkIs, SoundIsHeadless DEF Linking
<1>3. x = SynchronizeFrom(Note(Put(st, s, r), W), s)
  BY DEF Attach
<1>4. W \in SUBSET Window
  OBVIOUS
<1> HIDE DEF r, W
<1>5. Replaced(st, s, {}, r, x) /\ Full(x)
  <2> HIDE DEF x
  <2> QED BY <1>2, <1>3, <1>4, LinkingKeeps
<1> QED BY <1>2, <1>5 DEF Replaced, Linking

-----------------------------------------------------------------------------
\* Whoever follows a session sees its winlinks only.
LEMMA SynchronizeSame ==
  ASSUME Calm, NEW h, NEW r, h.win = r.win, NEW m, Sound(m)
  PROVE  Synchronize1(h, m) = Synchronize1(r, m)
<1>1. m.cur # None /\ MoveOff(m).cur # None
  <2>1. MoveOff(m).cur \in Linked(m) /\ None \notin Linked(m)
    BY MoveOffIs, Facts DEF Sound
  <2> QED BY <2>1, SoundIsAlive
<1>2. Linked(h) = Linked(r)
  BY DEF Linked
<1> HIDE DEF Linked
<1> QED BY <1>1, <1>2 DEF Synchronize1

\* The current winlink may be chosen after the others have followed.
LEMMA ChosenLater ==
  ASSUME Calm, NEW st, Full(st), NEW s \in Session, st.sess[s].alive,
         NEW h, Headless(h), Linked(h) # {}, NEW r, Sound(r), r.win = h.win,
         NEW W \in SUBSET Window
  PROVE  LET x == SynchronizeFrom(Note(Put(st, s, h), W), s) IN
         x.sess[s] = h /\ Put(x, s, r) = SynchronizeFrom(Note(Put(st, s, r), W), s)
<1> DEFINE N == IF "later" \in Uses THEN st.noted \cup W ELSE st.noted
           Z(u) == [sess |-> [st.sess EXCEPT ![s] = u], groups |-> st.groups, att |-> st.att,
                    noted |-> N]
           mates == Mates(st, s)
           F(u) == [y \in Session |-> IF y \in mates THEN Synchronize1(u, st.sess[y])
                                      ELSE IF y = s THEN u ELSE st.sess[y]]
           V(u) == UNION {Range(Z(u).sess[y].win) : y \in {s} \cup mates}
           M(u) == IF "later" \in Uses THEN N \cup V(u) ELSE N
           X(u) == [sess |-> F(u), groups |-> st.groups, att |-> st.att, noted |-> M(u)]
<1>1. /\ st \in States /\ st.sess \in [Session -> Recs]
      /\ st = [sess |-> st.sess, groups |-> st.groups, att |-> st.att, noted |-> st.noted]
  BY DEF Full, Loose, States
<1>2. /\ mates \subseteq Session /\ s \notin mates
      /\ \A y \in mates : Sound(st.sess[y])
  <2>1. mates \subseteq Session
    BY <1>1, GroupOfIs DEF Full, Loose
  <2>2. Whole(st, s)
    BY WholeGroup
  <2> QED BY <2>1, <2>2 DEF Whole, Group, Mates
<1>3. ASSUME NEW u PROVE Note(Put(st, s, u), W) = Z(u)
  BY <1>1 DEF Note, Put
<1>4. ASSUME NEW u PROVE Mates(Z(u), s) = mates
  BY DEF Mates, GroupOf, NameOf
<1>5. ASSUME NEW u, Linked(u) # {}
      PROVE  SynchronizeFrom(Z(u), s) = IF mates = {} THEN Z(u) ELSE X(u)
  <2>1. Mates(Z(u), s) = mates /\ Z(u).sess[s] = u
    BY <1>1, <1>4
  <2> DEFINE E == [y \in Session |-> IF y \in mates THEN Synchronize1(Z(u).sess[s], Z(u).sess[y])
                                     ELSE Z(u).sess[y]]
  <2>2. E = F(u)
    <3>1. \A y \in mates : Z(u).sess[y] = st.sess[y]
      BY <1>1, <1>2
    <3>2. \A y \in Session : Z(u).sess[y] = IF y = s THEN u ELSE st.sess[y]
      BY <1>1
    <3> QED BY <2>1, <3>1, <3>2
  <2>3. [Z(u) EXCEPT !.sess = E] = [sess |-> E, groups |-> st.groups, att |-> st.att, noted |-> N]
    <3> HIDE DEF E, N
    <3> QED OBVIOUS
  <2>4. SynchronizeFrom(Z(u), s)
         = IF mates = {} THEN Z(u) ELSE Note([Z(u) EXCEPT !.sess = E], V(u))
    <3> HIDE DEF Z, mates
    <3> QED BY <1>5, <2>1 DEF SynchronizeFrom
  <2>5. Note([sess |-> F(u), groups |-> st.groups, att |-> st.att, noted |-> N], V(u)) = X(u)
    <3> HIDE DEF F, V, N
    <3> QED BY DEF Note
  <2> HIDE DEF E, F, X, V, Z
  <2> QED BY <2>2, <2>3, <2>4, <2>5
<1>6. V(h) = V(r)
  <2>1. ASSUME NEW y \in {s} \cup mates PROVE Z(h).sess[y].win = Z(r).sess[y].win
    BY <1>1, <1>2
  <2> HIDE DEF Z, mates
  <2> QED BY <2>1
<1>7. Linked(r) = Linked(h)
  BY DEF Linked
<1> DEFINE x == SynchronizeFrom(Z(h), s)
<1>8. CASE mates = {}
  <2>1. x = Z(h) /\ SynchronizeFrom(Z(r), s) = Z(r)
    BY <1>5, <1>7, <1>8
  <2>2. Z(h).sess[s] = h
    BY <1>1
  <2>3. Put(Z(h), s, r) = Z(r)
    <3>1. [[st.sess EXCEPT ![s] = h] EXCEPT ![s] = r] = [st.sess EXCEPT ![s] = r]
      BY <1>1
    <3> HIDE DEF N
    <3> QED BY <3>1 DEF Put
  <2> HIDE DEF Z, x
  <2> QED BY <1>3, <2>1, <2>2, <2>3 DEF x
<1>9. CASE mates # {}
  <2>1. x = X(h) /\ SynchronizeFrom(Z(r), s) = X(r)
    BY <1>5, <1>7, <1>9
  <2>2. X(h).sess[s] = h
    BY <1>2
  <2>3. Put(X(h), s, r) = X(r)
    <3>1. [F(h) EXCEPT ![s] = r] = F(r)
      <4>1. \A y \in mates : Synchronize1(h, st.sess[y]) = Synchronize1(r, st.sess[y])
        BY <1>2, SynchronizeSame
      <4> QED BY <1>2, <4>1
    <3>2. M(h) = M(r)
      BY <1>6
    <3> HIDE DEF F, M
    <3> QED BY <3>1, <3>2 DEF Put
  <2> HIDE DEF X, Z, x
  <2> QED BY <1>3, <2>1, <2>2, <2>3 DEF x
<1> QED BY <1>8, <1>9

LEMMA NotedTwice ==
  ASSUME NEW st \in States, NEW s \in Session, NEW r \in Recs, NEW u, NEW V, NEW W
  PROVE  LET x == Note(Put(st, s, r), V) IN
         x.sess[s] = r /\ Note(Put(x, s, u), W) = Note(Put(st, s, u), V \cup W)
<1>1. /\ st = [sess |-> st.sess, groups |-> st.groups, att |-> st.att, noted |-> st.noted]
      /\ st.sess \in [Session -> Recs]
  BY DEF States
<1> DEFINE N(U) == IF "later" \in Uses THEN st.noted \cup U ELSE st.noted
           Z(v, U) == [sess |-> [st.sess EXCEPT ![s] = v], groups |-> st.groups, att |-> st.att,
                       noted |-> N(U)]
<1>2. \A v, U : Note(Put(st, s, v), U) = Z(v, U)
  BY <1>1 DEF Note, Put
<1>3. Z(r, V).sess[s] = r
  BY <1>1
<1>4. Note(Put(Z(r, V), s, u), W) = Z(u, V \cup W)
  <2>1. [[st.sess EXCEPT ![s] = r] EXCEPT ![s] = u] = [st.sess EXCEPT ![s] = u]
    BY <1>1
  <2>2. Put(Z(r, V), s, u) = [sess |-> [st.sess EXCEPT ![s] = u], groups |-> st.groups,
                              att |-> st.att, noted |-> N(V)]
    <3> HIDE DEF N
    <3> QED BY <2>1 DEF Put
  <2> DEFINE a == Put(Z(r, V), s, u)
  <2>3. /\ a = [sess |-> [st.sess EXCEPT ![s] = u], groups |-> st.groups, att |-> st.att,
                noted |-> N(V)]
        /\ (st.noted \cup V) \cup W = st.noted \cup (V \cup W)
    BY <2>2
  <2> HIDE DEF a
  <2>4. CASE "later" \in Uses
    <3>1. Note(a, W) = [a EXCEPT !.noted = @ \cup W]
      BY <2>4 DEF Note
    <3>2. N(V) = st.noted \cup V /\ N(V \cup W) = st.noted \cup (V \cup W)
      BY <2>4
    <3> HIDE DEF N
    <3> QED BY <2>3, <3>1, <3>2 DEF a
  <2>5. CASE "later" \notin Uses
    <3>1. Note(a, W) = a
      BY <2>5 DEF Note
    <3>2. N(V) = N(V \cup W)
      BY <2>5
    <3> HIDE DEF N
    <3> QED BY <2>3, <3>1, <3>2 DEF a
  <2> QED BY <2>4, <2>5
<1> HIDE DEF Z
<1> QED BY <1>2, <1>3, <1>4

LEMMA LinkWindowKeeps ==
  ASSUME Calm, NEW st, Full(st), NEW s \in Session, NEW i \in Linked(st.sess[s]),
         NEW t \in Session, st.sess[t].alive, NEW k \in Indexes, NEW select \in BOOLEAN
  PROVE  LET w == st.sess[s].win[i]
             x == LinkWindow(st, s, i, t, k, select) IN
         /\ \E r : Linking(st.sess[t], k, w, r) /\ Replaced(st, t, {}, r, x)
         /\ (\A j \in Linked(st.sess[t]) : st.sess[t].win[j] # w) => Full(x)
<1> DEFINE w == st.sess[s].win[i]
           r == Cleared(st.sess[t], k)
           l == Link(r, k, w)
           gone == IF k \in Linked(st.sess[t]) THEN {st.sess[t].win[k]} ELSE {}
           W == gone \cup {w}
           y == Note(Put(st, t, r), gone)
           z == SynchronizeFrom(Note(Put(st, t, l), W), t)
           g == SetCurrent(l, k)
           v == SynchronizeFrom(Note(Put(st, t, g), W), t)
           x == LinkWindow(st, s, i, t, k, select)
<1>1. /\ st \in States /\ st.sess[s] \in Recs /\ st.sess[t] \in Recs /\ Sound(st.sess[t])
  BY WholeGroup DEF Full, Loose, States
<1>2. w \in Window /\ gone \in SUBSET Window
  <2>1. w \in Window
    BY <1>1, Facts
  <2>2. k \in Linked(st.sess[t]) => st.sess[t].win[k] \in Window
    BY <1>1, Facts
  <2> QED BY <2>1, <2>2
<1>3. Headless(r)
  BY <1>1, ClearedIs
<1>4. /\ Headless(l) /\ l.cur = r.cur
      /\ l.cur # None => Linking(st.sess[t], k, w, l)
      /\ Linking(st.sess[t], k, w, g) /\ g.win = l.win
  <2> HIDE DEF w
  <2>1. InItsPlace(st.sess[t], k, w, l)
    BY <1>1, <1>2, ClearAndLink
  <2> HIDE DEF l
  <2> QED BY <2>1 DEF InItsPlace
<1>5. Attach(y, t, k, w) = z
  <2>1. r \in Recs
    BY <1>3 DEF Headless
  <2> HIDE DEF r, gone, w
  <2>2. y.sess[t] = r /\ Note(Put(y, t, l), {w}) = Note(Put(st, t, l), W)
    <3> HIDE DEF l
    <3> QED BY <1>1, <2>1, NotedTwice
  <2> HIDE DEF y, l
  <2> QED BY <2>2 DEF Attach, l
<1>6. x = IF select \/ r.cur = None THEN Put(z, t, SetCurrent(z.sess[t], k)) ELSE z
  <2> HIDE DEF z
  <2> QED BY <1>5 DEF LinkWindow
<1>7. W \in SUBSET Window
  BY <1>2
<1> HIDE DEF l, W, r, w
<1>8. Sound(g) /\ Linked(g) # {}
  BY <1>4, SoundIsAlive DEF Linking
<1>9. Linked(l) # {}
  BY <1>4, <1>8 DEF Linked
<1> HIDE DEF g
<1>10. z.sess[t] = l /\ Put(z, t, g) = v
  BY <1>1, <1>4, <1>7, <1>8, <1>9, ChosenLater
<1>11. x = IF select \/ r.cur = None THEN v ELSE z
  <2> HIDE DEF z, v, x
  <2> QED BY <1>6, <1>10 DEF g
<1> HIDE DEF v, z, x
<1>12. CASE select \/ r.cur = None
  <2>1. /\ Replaced(st, t, {}, g, v)
        /\ (\A j \in Linked(st.sess[t]) : st.sess[t].win[j] # w) => Full(v)
    BY <1>4, <1>7, LinkingKeeps DEF v
  <2> QED BY <1>4, <1>11, <1>12, <2>1 DEF w, x
<1>13. CASE ~(select \/ r.cur = None)
  <2>1. Linking(st.sess[t], k, w, l)
    BY <1>4, <1>13
  <2>2. /\ Replaced(st, t, {}, l, z)
        /\ (\A j \in Linked(st.sess[t]) : st.sess[t].win[j] # w) => Full(z)
    BY <1>7, <2>1, LinkingKeeps DEF z
  <2> QED BY <1>11, <1>13, <2>1, <2>2 DEF w, x
<1> QED BY <1>12, <1>13

-----------------------------------------------------------------------------
\* Windows change places.
LEMMA OtherWins ==
  ASSUME Calm, NEW st, Full(st), NEW s \in Session, st.sess[s].alive,
         NEW r, Sound(r), Linked(r) = Linked(st.sess[s]), Once(r)
  PROVE  Full(SynchronizeFrom(Put(st, s, r), s))
<1> DEFINE none == {}
           x == SynchronizeFrom(Note(Put(st, s, r), {}), s)
<1>1. /\ Loose(st, none \cup Group(st, s)) /\ none \cap Group(st, s) = {} /\ Whole(st, s)
      /\ st \in States /\ r \in Recs /\ {} \in SUBSET Window
  BY WholeGroup DEF Full, Loose, Sound
<1>2. Follow(st.sess[s], r)
  BY SoundIsAlive DEF Follow
<1>3. Note(Put(st, s, r), {}) = Put(st, s, r)
  BY <1>1, PutInto, NothingNoted
<1> HIDE DEF none, x
<1>4. Replaced(st, s, none, r, x)
  BY <1>1, <1>2, ReplaceKeeps DEF x
<1> QED BY <1>3, <1>4 DEF Replaced, Full, none, x

Relinked(r, i, w) == [r EXCEPT !.win[i] = w]

LEMMA RelinkIs ==
  ASSUME Calm, NEW r, Sound(r), NEW i \in Linked(r), NEW w \in Window
  PROVE  LET x == Relinked(r, i, w) IN
         /\ Sound(x) /\ Linked(x) = Linked(r) /\ x.win[i] = w
         /\ \A k \in Linked(r) : k # i => x.win[k] = r.win[k]
<1> DEFINE f == [r.win EXCEPT ![i] = w]
           x == Relinked(r, i, w)
<1>1. /\ r \in Recs /\ r.alive /\ r.cur \in Linked(r) /\ LastSound(r)
      /\ r.win = [j \in Linked(r) |-> r.win[j]] /\ r.win \in Wins
      /\ Linked(r) \subseteq Indexes /\ \A j \in Linked(r) : r.win[j] \in Window
  BY Facts DEF Sound
<1>2. /\ f = [j \in Linked(r) |-> f[j]] /\ DOMAIN f = Linked(r) /\ f[i] = w
      /\ \A k \in Linked(r) : k # i => f[k] = r.win[k]
  BY <1>1 DEF Linked
<1> HIDE DEF f
<1>3. f \in Wins
  BY <1>1, <1>2, WinsIs
<1>4. x \in Recs /\ x.alive /\ x.win = f /\ x.cur = r.cur /\ x.last = r.last
  BY <1>1, <1>3 DEF Relinked, Recs, f
<1> HIDE DEF x
<1>5. Linked(x) = Linked(r)
  BY <1>2, <1>4 DEF Linked
<1> QED BY <1>1, <1>2, <1>4, <1>5 DEF Sound, LastSound, x

LEMMA SwapIs ==
  ASSUME Calm, NEW r, Sound(r), Once(r), NEW i \in Linked(r), NEW j \in Linked(r)
  PROVE  LET x == Relinked(Relinked(r, i, r.win[j]), j, r.win[i]) IN
         Sound(x) /\ Linked(x) = Linked(r) /\ Once(x)
<1> DEFINE v == r.win[i]
           w == r.win[j]
           y == Relinked(r, i, w)
           x == Relinked(y, j, v)
<1>1. v \in Window /\ w \in Window
  BY Facts DEF Sound
<1>2. /\ Sound(y) /\ Linked(y) = Linked(r) /\ y.win[i] = w
      /\ \A k \in Linked(r) : k # i => y.win[k] = r.win[k]
  BY <1>1, RelinkIs
<1> HIDE DEF y
<1>3. /\ Sound(x) /\ Linked(x) = Linked(r) /\ x.win[j] = v
      /\ \A k \in Linked(r) : k # j => x.win[k] = y.win[k]
  BY <1>1, <1>2, RelinkIs
<1> HIDE DEF x
<1>4. \A k \in Linked(r) : x.win[k] = r.win[IF k = j THEN i ELSE IF k = i THEN j ELSE k]
  BY <1>2, <1>3
<1>5. ASSUME OnceEach(r), NEW a \in Linked(r), NEW b \in Linked(r), x.win[a] = x.win[b]
      PROVE  a = b
  <2>1. (IF a = j THEN i ELSE IF a = i THEN j ELSE a) = (IF b = j THEN i ELSE IF b = i THEN j ELSE b)
    BY <1>4, <1>5 DEF OnceEach
  <2> QED BY <2>1
<1>6. Once(x)
  BY <1>3, <1>5 DEF Once, OnceEach
<1> QED BY <1>3, <1>6 DEF x, y

LEMMA SwapInOne ==
  ASSUME NEW st \in States, NEW s \in Session, NEW i, NEW j
  PROVE  Exchanged(st, s, i, s, j)
           = Put(st, s, Relinked(Relinked(st.sess[s], i, st.sess[s].win[j]), j, st.sess[s].win[i]))
<1> DEFINE a == Relinked(st.sess[s], i, st.sess[s].win[j])
           b == Relinked(a, j, st.sess[s].win[i])
           x == Put(st, s, a)
<1>1. st.sess \in [Session -> Recs]
  BY DEF States
<1>2. Exchanged(st, s, i, s, j) = Put(x, s, Relinked(x.sess[s], j, st.sess[s].win[i]))
  BY DEF Exchanged, Relinked
<1> HIDE DEF a
<1>3. x = [st EXCEPT !.sess = [st.sess EXCEPT ![s] = a]] /\ x.sess[s] = a
  BY <1>1 DEF Put, States
<1> HIDE DEF x, b
<1>4. Put(x, s, b) = Put(st, s, b)
  <2>1. [[st.sess EXCEPT ![s] = a] EXCEPT ![s] = b] = [st.sess EXCEPT ![s] = b]
    BY <1>1
  <2> QED BY <1>3, <2>1 DEF Put, States
<1> QED BY <1>2, <1>3, <1>4 DEF a, b

LEMMA Apart ==
  ASSUME NEW st, Full(st), NEW s \in Session, NEW t \in Session, s # t, ~SameGroup(st, s, t)
  PROVE  Group(st, s) \cap Group(st, t) = {}
<1>1. st \in States /\ GroupsOf(st, {})
  BY DEF Full, Loose
<1>2. s \notin Group(st, t) /\ s \in Group(st, s)
  BY DEF SameGroup, Group
<1>3. CASE Mates(st, s) = {}
  BY <1>2, <1>3 DEF Group
<1>4. CASE Mates(st, s) # {}
  BY <1>1, <1>2, <1>4, GroupIs
<1> QED BY <1>3, <1>4

\* Two sessions get other winlinks at the same time.
LEMMA OtherWinsInBoth ==
  ASSUME Calm, NEW st, Full(st), NEW s \in Session, NEW t \in Session, s # t,
         st.sess[s].alive, st.sess[t].alive, ~SameGroup(st, s, t),
         NEW r, Sound(r), Linked(r) = Linked(st.sess[s]), Once(r),
         NEW u, Sound(u), Linked(u) = Linked(st.sess[t]), Once(u)
  PROVE  Full(SynchronizeFrom(SynchronizeFrom(Put(Put(st, s, r), t, u), s), t))
<1> DEFINE none == {}
           x == Put(st, s, r)
           y == Put(x, t, u)
           z == SynchronizeFrom(y, s)
           e == SynchronizeFrom(z, t)
           S == Group(st, s)
           T == Group(st, t)
<1>1. /\ st \in States /\ Loose(st, none) /\ r \in Recs /\ u \in Recs /\ {} \in SUBSET Window
      /\ S \cap T = {} /\ none \cup S = S
      /\ S \subseteq Session /\ T \subseteq Session /\ s \in S /\ t \in T
  <2>1. st \in States /\ GroupsOf(st, {}) /\ S \cap T = {}
    BY Apart DEF Full, Loose
  <2> QED BY <2>1, GroupIs DEF Full, Sound
<1> HIDE DEF none
<1>2. Placed(st, s, none, r, x)
  <2>1. Placed(st, s, none, r, Note(Put(st, s, r), {}))
    BY <1>1, PutKeeps
  <2> QED BY <1>1, <2>1, PutInto, NothingNoted
<1>3. /\ Loose(x, S) /\ x \in States /\ x.sess = [st.sess EXCEPT ![s] = r] /\ x.groups = st.groups
      /\ st.sess \in [Session -> Recs]
  BY <1>1, <1>2 DEF Placed, Loose, States
<1>4. \A p : Group(x, p) = Group(st, p)
  BY <1>3 DEF Group, Mates, GroupOf, NameOf
<1> HIDE DEF x
<1>5. Placed(x, t, S, u, y)
  <2>1. Placed(x, t, S, u, Note(Put(x, t, u), {}))
    BY <1>1, <1>3, PutKeeps
  <2> QED BY <1>1, <1>3, <2>1, PutInto, NothingNoted
<1>6. /\ Loose(y, S \cup T) /\ y.sess = [x.sess EXCEPT ![t] = u] /\ y.groups = st.groups
  BY <1>3, <1>4, <1>5 DEF Placed
<1>7. \A p : Group(y, p) = Group(st, p)
  BY <1>6 DEF Group, Mates, GroupOf, NameOf
<1> HIDE DEF y
<1>8. y.sess[s] = r /\ y.sess[t] = u /\ \A p \in Session : p \notin {s, t} => y.sess[p] = st.sess[p]
  BY <1>3, <1>6
<1>9. Whole(st, s) /\ Whole(st, t)
  BY WholeGroup
<1> HIDE DEF S, T
<1>10. /\ Loose(z, T) /\ z.groups = st.groups
       /\ \A p \in Session : p \notin S => z.sess[p] = y.sess[p]
  <2>1. T \cap Group(y, s) = {} /\ Loose(y, T \cup Group(y, s)) /\ Sound(y.sess[s])
    <3>1. T \cup S = S \cup T
      OBVIOUS
    <3> QED BY <1>1, <1>6, <1>7, <1>8, <3>1 DEF S
  <2>2. \A p \in Mates(y, s) : Sound(y.sess[p]) /\ Follow(y.sess[p], y.sess[s])
    <3> SUFFICES ASSUME NEW p \in Mates(y, s)
                 PROVE  Sound(y.sess[p]) /\ Follow(y.sess[p], y.sess[s])
      OBVIOUS
    <3>1. p \in S /\ p # s /\ p # t
      BY <1>1, <1>7 DEF Group, Mates, S
    <3>2. y.sess[p] = st.sess[p] /\ Sound(st.sess[p]) /\ st.sess[p].win = st.sess[s].win
      BY <1>1, <1>8, <1>9, <3>1 DEF Whole, S
    <3>3. Linked(st.sess[p]) = Linked(r)
      BY <3>2 DEF Linked
    <3> QED BY <1>8, <3>2, <3>3, SoundIsAlive DEF Follow
  <2>3. /\ Once(y.sess[s]) => Loose(z, T)
        /\ z.groups = y.groups
        /\ \A p \in Session : p \notin Group(y, s) => z.sess[p] = y.sess[p]
    BY <2>1, <2>2, SynchronizeKeeps
  <2> HIDE DEF z
  <2> QED BY <1>6, <1>7, <1>8, <2>3 DEF S
<1> HIDE DEF z
<1>11. \A p : Group(z, p) = Group(st, p)
  BY <1>10 DEF Group, Mates, GroupOf, NameOf
<1>12. Loose(e, none)
  <2>1. none \cap Group(z, t) = {} /\ Loose(z, none \cup Group(z, t)) /\ z.sess[t] = u
    <3>1. none \cap T = {} /\ none \cup T = T
      BY DEF none
    <3> QED BY <1>1, <1>8, <1>10, <1>11, <3>1 DEF T
  <2>2. \A p \in Mates(z, t) : Sound(z.sess[p]) /\ Follow(z.sess[p], z.sess[t])
    <3> SUFFICES ASSUME NEW p \in Mates(z, t)
                 PROVE  Sound(z.sess[p]) /\ Follow(z.sess[p], z.sess[t])
      OBVIOUS
    <3>1. p \in T /\ p # s /\ p # t /\ p \notin S
      BY <1>1, <1>11 DEF Group, Mates, T
    <3>2. z.sess[p] = st.sess[p] /\ Sound(st.sess[p]) /\ st.sess[p].win = st.sess[t].win
      BY <1>1, <1>8, <1>9, <1>10, <3>1 DEF Whole, T
    <3>3. Linked(st.sess[p]) = Linked(u)
      BY <3>2 DEF Linked
    <3> QED BY <2>1, <3>2, <3>3, SoundIsAlive DEF Follow
  <2>3. Once(z.sess[t]) => Loose(e, none)
    BY <2>1, <2>2, SynchronizeKeeps
  <2> HIDE DEF e
  <2> QED BY <2>1, <2>3
<1> QED BY <1>12 DEF Full, none, x, y, z

-----------------------------------------------------------------------------
\* A session is created.
LEMMA FirstWindow ==
  ASSUME Calm, NEW st, Full(st), NEW s \in Session, ~st.sess[s].alive,
         NEW r, Sound(r), OnceEach(r), NEW W \in SUBSET Window
  PROVE  LET x == Note(Put(st, s, r), W) IN
         /\ Full(x) /\ x.sess[s] = r /\ x.groups = st.groups
         /\ \A y \in Session : y # s => x.sess[y] = st.sess[y]
         /\ \A n \in Session : s \notin ToSet(x.groups[n])
<1> DEFINE x == Note(Put(st, s, r), W)
<1>1. /\ st \in States /\ GroupsOf(st, {}) /\ Loose(st, {})
      /\ st.sess \in [Session -> Recs]
  BY DEF Full, Loose, States
<1>2. \A n \in Session : s \notin ToSet(st.groups[n])
  <2>1. ASSUME NEW n \in Session, s \in ToSet(st.groups[n]) PROVE FALSE
    <3>1. st.groups[n] \in Groups(st)
      BY <2>1, NotEmpty DEF Groups
    <3> QED BY <1>1, <2>1, <3>1 DEF GroupsOf
  <2> QED BY <2>1
<1>3. Mates(st, s) = {}
  <2>1. GroupOf(st, s) = <<>>
    BY <1>1, <1>2, NameIs DEF GroupOf
  <2> QED BY <2>1 DEF Mates, ToSet
<1>4. Loose(x, {}) /\ x.sess = [st.sess EXCEPT ![s] = r] /\ x.groups = st.groups
  <2> HIDE DEF x
  <2> QED BY <1>1, <1>3, PutAlone DEF Once, x
<1> HIDE DEF x
<1> QED BY <1>1, <1>2, <1>4 DEF Full, x

\* The session has its first window only, and takes over the winlinks of t.
LEMMA TakenOver ==
  ASSUME Calm, NEW t, Sound(t), NEW r, Sound(r), Linked(r) = {r.cur}, r.last = <<>>
  PROVE  Headless(Synchronize1(t, r)) /\ Synchronize1(t, r).win = t.win
<1> DEFINE x == Synchronize1(t, r)
           o == Only(r.last, Linked(t))
           b == IF r.cur \in Linked(t) THEN r.cur ELSE None
<1>1. /\ r \in Recs /\ r.cur # None /\ Linked(t) # {} /\ t \in Recs /\ t.win \in Wins
      /\ r.last \in Seq(Indexes) /\ LastSound(r) /\ r.cur \in Linked(r) /\ r.alive
  BY SoundIsAlive, Facts DEF Sound
<1>2. MoveOff(r) = r
  <2>1. Before(r, r.cur) = r.cur
    BY BeforeIs
  <2>2. MoveOff(r) = SetCurrent(r, r.cur)
    BY <2>1 DEF MoveOff
  <2> QED BY <2>2 DEF SetCurrent
<1>3. x = [r EXCEPT !.win = t.win, !.cur = b, !.last = o]
  <2> DEFINE m == IF r.cur # None /\ r.cur \notin Linked(t) THEN MoveOff(r) ELSE r
             c == IF m.cur # None THEN m.cur ELSE t.cur
  <2>1. m = r
    BY <1>2
  <2>2. c = r.cur
    <3> HIDE DEF m
    <3> QED BY <1>1, <2>1
  <2>3. x = IF Linked(t) = {} THEN r
            ELSE [m EXCEPT !.win = t.win, !.cur = IF c \in Linked(t) THEN c ELSE None,
                           !.last = Only(@, Linked(t))]
    BY DEF Synchronize1
  <2> HIDE DEF x, m, c
  <2> QED BY <1>1, <2>1, <2>2, <2>3
<1>4. o \in Seq(Indexes) /\ ToSet(o) = {} /\ Uniq(o)
  <2>1. o \in Seq(Indexes) /\ ToSet(o) = ToSet(r.last) \cap Linked(t) /\ Uniq(o)
    <3>1. r.last \in Seq(Indexes) /\ Uniq(r.last)
      BY <1>1 DEF LastSound
    <3> QED BY <3>1, OnlyIs
  <2>2. ToSet(r.last) = {}
    BY <1>1, EmptyIs
  <2> QED BY <2>1, <2>2
<1> HIDE DEF o
<1>5. b \in Linked(t) \cup {None} /\ b \in Indexes \cup {None, Freed}
  BY <1>1, Facts
<1> HIDE DEF b
<1>6. x \in Recs /\ x.alive /\ x.win = t.win /\ x.cur = b /\ x.last = o
  BY <1>1, <1>3, <1>4, <1>5 DEF Recs
<1> HIDE DEF x
<1>7. Headless(x)
  BY <1>4, <1>5, <1>6 DEF Headless, LastSound, Linked
<1> QED BY <1>6, <1>7 DEF x

\* What the group named n is before session s joins it.
Place(st, s, t) ==
  IF t # s /\ st.sess[t].alive /\ NameOf(st, t) # None THEN NameOf(st, t) ELSE t

Hosts(st, s, t) ==
  IF t # s /\ st.sess[t].alive /\ NameOf(st, t) = None
    THEN Append(st.groups[Place(st, s, t)], t) ELSE st.groups[Place(st, s, t)]

LEMMA HostsAre ==
  ASSUME Calm, NEW st, Full(st), NEW s \in Session, NEW t \in Session,
         \A n \in Session : s \notin ToSet(st.groups[n]),
         t # s /\ st.sess[t].alive /\ NameOf(st, t) = None => st.groups[t] = <<>>
  PROVE  LET q == Hosts(st, s, t) IN
         /\ Place(st, s, t) \in Session /\ q \in Seq(Session) /\ Uniq(q) /\ s \notin ToSet(q)
         /\ Share(st, q) /\ (\A a \in ToSet(q) : st.sess[a].alive)
         /\ \A m \in Session \ {Place(st, s, t)} : ToSet(st.groups[m]) \cap ToSet(q) = {}
<1> DEFINE n == Place(st, s, t)
           q == Hosts(st, s, t)
<1>1. /\ st \in States /\ GroupsOf(st, {}) /\ st.groups \in [Session -> Seq(Session)]
  BY DEF Full, Loose, States
<1>2. n \in Session
  BY <1>1, NameIs DEF Place
<1>3. ASSUME q = st.groups[n]
      PROVE  /\ q \in Seq(Session) /\ Uniq(q) /\ s \notin ToSet(q) /\ Share(st, q)
             /\ \A a \in ToSet(q) : st.sess[a].alive
             /\ \A m \in Session \ {n} : ToSet(st.groups[m]) \cap ToSet(q) = {}
  <2> HIDE DEF q, n
  <2>1. \A m \in Session \ {n} : ToSet(st.groups[m]) \cap ToSet(q) = {}
    BY <1>1, <1>2, <1>3 DEF GroupsOf
  <2>2. CASE q = <<>>
    <3>1. ToSet(q) = {} /\ Uniq(q) /\ q \in Seq(Session)
      BY <2>2 DEF ToSet, Uniq
    <3> QED BY <2>1, <3>1 DEF Share
  <2>3. CASE q # <<>>
    <3>1. q \in Groups(st)
      BY <1>2, <1>3, <2>3 DEF Groups
    <3>2. q \in Seq(Session) /\ s \notin ToSet(q)
      BY <1>1, <1>2, <1>3
    <3>3. ToSet(q) # {}
      BY <2>3, <3>2, EmptyIs
    <3> QED BY <1>1, <2>1, <3>1, <3>2, <3>3 DEF GroupsOf
  <2> QED BY <2>2, <2>3
<1>4. CASE t # s /\ st.sess[t].alive /\ NameOf(st, t) = None
  <2>1. n = t /\ q = Append(<<>>, t)
    BY <1>4 DEF Place, Hosts
  <2>2. q \in Seq(Session) /\ Uniq(q) /\ ToSet(q) = {t}
    <3>1. <<>> \in Seq(Session) /\ Uniq(<<>>) /\ ToSet(<<>>) = {}
      BY DEF Uniq, ToSet
    <3> HIDE DEF n, q
    <3>2. \A z \in Seq(Session) :
            Uniq(z) /\ ToSet(z) = {} =>
              /\ Append(z, t) \in Seq(Session) /\ ToSet(Append(z, t)) = {t}
              /\ Uniq(Append(z, t))
      BY AppendIs
    <3> QED BY <2>1, <3>1, <3>2
  <2>3. \A m \in Session : t \notin ToSet(st.groups[m])
    BY <1>1, <1>4, NameIs
  <2> HIDE DEF n, q
  <2> QED BY <1>2, <1>4, <2>2, <2>3 DEF Share, n, q
<1>5. CASE ~(t # s /\ st.sess[t].alive /\ NameOf(st, t) = None)
  <2>1. q = st.groups[n]
    BY <1>5 DEF Hosts
  <2> HIDE DEF q, n
  <2> QED BY <1>2, <1>3, <2>1 DEF q, n
<1> QED BY <1>4, <1>5

\* In e session s with winlinks f has joined the sessions q of the group named n.
Joins(st, s, n, q, f, e) ==
  /\ n \in Session /\ q \in Seq(Session)
  /\ Uniq(q) /\ s \notin ToSet(q) /\ Share(st, q) /\ (\A a \in ToSet(q) : st.sess[a].alive)
  /\ \A m \in Session : s \notin ToSet(st.groups[m])
  /\ \A m \in Session \ {n} : ToSet(st.groups[m]) \cap ToSet(q) = {}
  /\ Sound(f) /\ Once(f) /\ (q # <<>> => f.win = st.sess[Head(q)].win)
  /\ e \in States /\ e.sess = [st.sess EXCEPT ![s] = f]
  /\ e.groups = [st.groups EXCEPT ![n] = Append(q, s)] /\ e.att = st.att

LEMMA JoinKeeps ==
  ASSUME Calm, NEW st, Full(st), NEW s \in Session, NEW n, NEW q, NEW f, NEW e,
         Joins(st, s, n, q, f, e)
  PROVE  Full(e) /\ e.sess[s].alive
<1> DEFINE new == Append(q, s)
<1> USE DEF Joins
<1>1. /\ st \in States /\ SessOk(st, {}) /\ GroupsOf(st, {}) /\ Homes(st)
      /\ st.sess \in [Session -> Recs] /\ st.groups \in [Session -> Seq(Session)]
      /\ st.att \in [Client -> Session \cup {None}]
  BY DEF Full, Loose, States
<1>2. new \in Seq(Session) /\ ToSet(new) = ToSet(q) \cup {s} /\ Uniq(new)
  BY AppendIs
<1>3. new # <<>>
  BY <1>2, NotEmpty
<1>4. q # <<>> => Head(q) \in ToSet(q)
  BY HeadIs
<1>5. ToSet(q) \subseteq Session
  BY SeqFacts
<1> HIDE DEF new
<1>6. e.sess[s] = f /\ \A a \in Session : a # s => e.sess[a] = st.sess[a]
  BY <1>1
<1>7. e.groups[n] = new /\ \A m \in Session : m # n => e.groups[m] = st.groups[m]
  BY <1>1 DEF new
<1>8. SessOk(e, {})
  BY <1>1, <1>6 DEF SessOk, Once
<1>9. GroupsOf(e, {})
  <2>1. ASSUME NEW g \in Groups(e)
        PROVE  g # <<>> /\ Uniq(g) /\ (\A a \in ToSet(g) : e.sess[a].alive) /\ Share(e, g)
    <3>1. PICK m \in Session : g = e.groups[m] /\ g # <<>>
      BY DEF Groups
    <3>2. CASE m = n
      <4>1. \A a \in ToSet(q) : e.sess[a] = st.sess[a]
        BY <1>5, <1>6
      <4>2. \A a \in ToSet(q) : e.sess[a].win = f.win
        <5>1. ASSUME NEW a \in ToSet(q) PROVE q # <<>>
          BY NotEmpty
        <5> QED BY <1>4, <4>1, <5>1 DEF Share
      <4>3. g = new
        BY <1>7, <3>1, <3>2
      <4>4. \A a \in ToSet(g) : e.sess[a].win = f.win /\ e.sess[a].alive
        BY <1>2, <1>6, <4>1, <4>2, <4>3 DEF Sound
      <4> QED BY <1>2, <3>1, <4>3, <4>4 DEF Share
    <3>3. CASE m # n
      <4>1. g \in Groups(st) /\ g = st.groups[m]
        BY <1>7, <3>1, <3>3 DEF Groups
      <4>2. s \notin ToSet(g) /\ ToSet(g) \subseteq Session
        BY <1>1, <4>1, GroupFacts
      <4>3. \A a \in ToSet(g) : e.sess[a] = st.sess[a]
        BY <1>6, <4>2
      <4>4. /\ Uniq(g) /\ (\A a \in ToSet(g) : st.sess[a].alive)
            /\ ToSet(g) \subseteq {} \/ Share(st, g)
        BY <1>1, <4>1 DEF GroupsOf
      <4> QED BY <3>1, <4>3, <4>4 DEF Share
    <3> QED BY <3>2, <3>3
  <2>2. ASSUME NEW m \in Session, NEW k \in Session, m # k
        PROVE  ToSet(e.groups[m]) \cap ToSet(e.groups[k]) = {}
    <3>1. \A l \in Session \ {n} : ToSet(st.groups[l]) \cap ToSet(new) = {}
      BY <1>2
    <3>2. CASE n \in {m, k}
      BY <1>7, <2>2, <3>1, <3>2
    <3>3. CASE n \notin {m, k}
      BY <1>1, <1>7, <2>2, <3>3 DEF GroupsOf
    <3> QED BY <3>2, <3>3
  <2> QED BY <2>1, <2>2 DEF GroupsOf
<1>10. Homes(e)
  BY <1>1, <1>6 DEF Homes, Sound
<1> QED BY <1>6, <1>8, <1>9, <1>10 DEF Full, Loose, Sound

LEMMA GroupedKeeps ==
  ASSUME Calm, NEW st, Full(st), NEW s \in Session, NEW t \in Session,
         \A n \in Session : s \notin ToSet(st.groups[n]),
         t # s /\ st.sess[t].alive /\ NameOf(st, t) = None => st.groups[t] = <<>>,
         Sound(st.sess[s]), Linked(st.sess[s]) = {st.sess[s].cur}, st.sess[s].last = <<>>
  PROVE  Full(Grouped(st, s, t)) /\ Grouped(st, s, t).sess[s].alive
<1> DEFINE n == Place(st, s, t)
           q == Hosts(st, s, t)
           C == [st.groups EXCEPT ![n] = Append(q, s)]
           x == [st EXCEPT !.groups[n] = Append(q, s)]
<1>1. /\ st \in States /\ SessOk(st, {}) /\ GroupsOf(st, {}) /\ Loose(st, {})
      /\ st.sess \in [Session -> Recs] /\ st.groups \in [Session -> Seq(Session)]
  BY DEF Full, Loose, States
<1>2. /\ n \in Session /\ q \in Seq(Session) /\ Uniq(q) /\ s \notin ToSet(q)
      /\ Share(st, q) /\ (\A a \in ToSet(q) : st.sess[a].alive)
      /\ \A m \in Session \ {n} : ToSet(st.groups[m]) \cap ToSet(q) = {}
  BY HostsAre
<1>3. Grouped(st, s, t)
       = LET y == Put(x, s, Synchronize1(x.sess[Head(q)], x.sess[s]))
             z == Note(y, Range(st.sess[s].win) \cup Range(y.sess[s].win))
         IN  IF q = <<>> THEN x ELSE Put(z, s, SetCurrent(z.sess[s], Min(Linked(z.sess[s]))))
  BY DEF Grouped, Place, Hosts
<1> HIDE DEF n, q
<1>4. C \in [Session -> Seq(Session)]
  <2>1. Append(q, s) \in Seq(Session)
    BY <1>2, AppendIs
  <2> QED BY <1>1, <1>2, <2>1
<1>5. /\ x \in States /\ x.sess = st.sess /\ x.groups = C /\ x.att = st.att
  <2>1. x = [st EXCEPT !.groups = C]
    BY <1>1 DEF States
  <2> HIDE DEF C, x
  <2> QED BY <1>1, <1>4, <2>1 DEF States
<1> HIDE DEF x
<1>6. CASE q = <<>>
  <2>1. x.sess = [st.sess EXCEPT ![s] = st.sess[s]] /\ Once(st.sess[s])
    BY <1>1, <1>5 DEF SessOk, Once
  <2>2. Full(x) /\ x.sess[s].alive
    <3>1. Joins(st, s, n, q, st.sess[s], x)
      BY <1>2, <1>5, <1>6, <2>1 DEF Joins
    <3> QED BY <3>1, JoinKeeps
  <2> QED BY <1>3, <1>6, <2>2
<1>7. CASE q # <<>>
  <2> DEFINE p == Head(q)
             m == Synchronize1(st.sess[p], st.sess[s])
             f == SetCurrent(m, Min(Linked(m)))
             W == Range(st.sess[s].win) \cup Range(m.win)
             y == Put(x, s, m)
             z == Note(y, W)
             e == Put(z, s, f)
  <2>1. p \in Session /\ st.sess[p].alive
    BY <1>2, <1>7, HeadIs
  <2> HIDE DEF p
  <2>2. Sound(st.sess[p]) /\ Once(st.sess[p]) /\ st.sess[p] \in Recs
    BY <2>1, WholeGroup
  <2>3. Headless(m) /\ m.win = st.sess[p].win
    BY <2>2, TakenOver
  <2>4. Linked(m) = Linked(st.sess[p])
    BY <2>3 DEF Linked
  <2> HIDE DEF m
  <2>5. Min(Linked(m)) \in Linked(m)
    <3>1. Linked(m) # {} /\ IsFiniteSet(Linked(m)) /\ Linked(m) \subseteq Int
      BY <2>2, <2>4, SoundIsAlive, Facts
    <3> QED BY <3>1, MinOf
  <2>6. Sound(f) /\ f.win = st.sess[p].win /\ Once(f)
    <3>1. Sound(f) /\ f.win = m.win
      BY <2>3, <2>5, SetCurrentIs
    <3> HIDE DEF f
    <3> QED BY <2>2, <2>3, <3>1 DEF Once, OnceEach, Linked
  <2>7. W \in SUBSET Window
    <3>1. st.sess[s] \in Recs /\ m \in Recs
      BY <2>3 DEF Headless, Sound
    <3> QED BY <3>1, WindowsOf
  <2>8. Grouped(st, s, t) = e
    <3>1. y.sess[s] = m
      BY <1>1, <1>5 DEF Put, States
    <3>2. z.sess = y.sess
      <4> HIDE DEF y, W
      <4> QED BY DEF Note
    <3>3. Put(x, s, Synchronize1(x.sess[p], x.sess[s])) = y
      BY <1>5 DEF m
    <3> HIDE DEF y, z, f
    <3>4. Note(y, Range(st.sess[s].win) \cup Range(y.sess[s].win)) = z
      BY <3>1 DEF z
    <3> QED BY <1>3, <1>7, <3>1, <3>2, <3>3, <3>4 DEF f, p
  <2>9. /\ e \in States /\ e.sess = [st.sess EXCEPT ![s] = f] /\ e.groups = C /\ e.att = st.att
    <3>1. m \in Recs /\ f \in Recs
      BY <2>3, <2>6 DEF Headless, Sound
    <3> HIDE DEF C, f, W
    <3>2. y \in States /\ y.sess = [st.sess EXCEPT ![s] = m] /\ y.groups = C /\ y.att = st.att
      BY <1>5, <3>1, PutInto
    <3> HIDE DEF y
    <3>3. z \in States /\ z.sess = y.sess /\ z.groups = C /\ z.att = st.att
      BY <2>7, <3>2, NoteIs
    <3> HIDE DEF z
    <3>4. e \in States /\ e.sess = [z.sess EXCEPT ![s] = f] /\ e.groups = C /\ e.att = st.att
      BY <3>1, <3>3, PutInto
    <3>5. [[st.sess EXCEPT ![s] = m] EXCEPT ![s] = f] = [st.sess EXCEPT ![s] = f]
      BY <1>1
    <3> HIDE DEF e
    <3> QED BY <3>2, <3>3, <3>4, <3>5
  <2> HIDE DEF e, f
  <2>10. f.win = st.sess[Head(q)].win
    BY <2>6 DEF p
  <2> HIDE DEF W, y, z
  <2>11. Full(e) /\ e.sess[s].alive
    <3>1. Joins(st, s, n, q, f, e)
      BY <1>2, <2>6, <2>9, <2>10 DEF Joins
    <3> QED BY <3>1, JoinKeeps
  <2> QED BY <2>8, <2>11
<1> QED BY <1>6, <1>7

-----------------------------------------------------------------------------
(***************************************************************************)
(* The commands, one after the other.                                      *)
(***************************************************************************)
LEMMA Frozen ==
  ASSUME UNCHANGED instance
  PROVE  /\ Window' = Window /\ Client' = Client /\ Indexes' = Indexes /\ Uses' = Uses
         /\ MaxIndex' = MaxIndex /\ Recs' = Recs /\ States' = States
<1>1. /\ Window' = Window /\ Client' = Client /\ Uses' = Uses /\ MaxIndex' = MaxIndex
  BY DEF Window, Client, Uses, MaxIndex
<1>2. Indexes' = Indexes
  BY <1>1 DEF Indexes
<1>3. Wins' = Wins
  BY <1>1, <1>2 DEF Wins
<1>4. Recs' = Recs
  BY <1>2, <1>3 DEF Recs
<1>5. States' = States
  BY <1>1, <1>4 DEF States
<1> QED BY <1>1, <1>2, <1>4, <1>5

LEMMA StillFull ==
  ASSUME Calm, UNCHANGED instance, Full(State')
  PROVE  (Calm /\ Full(State))'
<1>1. /\ Window' = Window /\ Client' = Client /\ Indexes' = Indexes /\ Uses' = Uses
      /\ MaxIndex' = MaxIndex /\ Recs' = Recs /\ States' = States
  BY Frozen
<1>2. Calm'
  BY <1>1 DEF Calm
<1>3. State' \in States /\ SessOk(State', {}) /\ GroupsOf(State', {}) /\ Homes(State')
  BY DEF Full, Loose
<1>4. SessOk(State, {})'
  BY <1>1, <1>3 DEF SessOk, Sound, LastSound, OnceEach
<1>5. GroupsOf(State, {})'
  BY <1>3 DEF GroupsOf, Share
<1>6. Homes(State)'
  BY <1>1, <1>3 DEF Homes
<1> QED BY <1>1, <1>2, <1>3, <1>4, <1>5, <1>6 DEF Full, Loose

LEMMA Becoming ==
  ASSUME Calm, NEW st, Full(st), Become(st)
  PROVE  (Calm /\ Full(State))'
<1>1. st \in States
  BY DEF Full, Loose
<1>2. State' = st /\ UNCHANGED instance
  BY <1>1 DEF Become, State, States
<1> QED BY <1>2, StillFull

LEMMA StateIs ==
  /\ State.sess = sess /\ State.groups = groups /\ State.att = att /\ State.noted = noted
BY DEF State

LEMMA FatesAre ==
  ASSUME Calm
  PROVE  Fates \subseteq Even
<1>1. PICK p : p \in Policies
  BY OptionsAssumption
<1>2. PICK s : s \in instance.sessions
  BY OptionsAssumption DEF Calm
<1>3. [policy |-> p, newest |-> s, keep |-> {}] \in Moves
  BY <1>1, <1>2 DEF Moves
<1> DEFINE d == CHOOSE d \in Moves : d.keep = {}
<1>4. d \in Moves /\ d.keep = {}
  BY <1>3
<1> HIDE DEF d
<1>5. d \in Even
  BY <1>4 DEF Even, SomeKept
<1>6. {e \in Moves : SomeKept(e) => "some kept" \in Uses} \subseteq Even
  BY DEF Calm, Even
<1> QED BY <1>5, <1>6 DEF Fates, d

\* What is known when a command begins.
LEMMA AtFirst ==
  ASSUME Calm, Full(State)
  PROVE  /\ State \in States /\ sess \in [Session -> Recs]
         /\ att \in [Client -> Session \cup {None}] /\ noted \in SUBSET Window
         /\ State.sess = sess /\ State.groups = groups /\ State.att = att /\ State.noted = noted
         /\ \A s \in Session : /\ sess[s] = Dead \/ Sound(sess[s])
                               /\ sess[s].alive <=> sess[s] # Dead
                               /\ sess[s].alive <=> Linked(sess[s]) # {}
                               /\ Once(sess[s])
         /\ \A c \in Client : att[c] # None => sess[att[c]].alive
         /\ \A s \in Session : Alone(s) <=> Mates(State, s) = {}
<1>1. State \in States /\ SessOk(State, {}) /\ Homes(State)
  BY DEF Full, Loose
<1>2. /\ State.sess = sess /\ State.groups = groups /\ State.att = att /\ State.noted = noted
  BY DEF State
<1>3. /\ sess \in [Session -> Recs] /\ att \in [Client -> Session \cup {None}]
      /\ noted \in SUBSET Window
  BY <1>1, <1>2 DEF States
<1>4. \A s \in Session : (sess[s] = Dead \/ Sound(sess[s])) /\ Once(sess[s])
  BY <1>1, <1>2 DEF SessOk, Once
<1>5. ASSUME NEW s \in Session
      PROVE  (sess[s].alive <=> sess[s] # Dead) /\ (sess[s].alive <=> Linked(sess[s]) # {})
  BY <1>4, DeadIs, SoundIsAlive
<1> QED BY <1>1, <1>2, <1>3, <1>4, <1>5 DEF Homes, Alone

LEMMA NewSessionKeeps ==
  ASSUME Calm, Full(State), NEW s \in Session, NEW c \in Client \cup {None}, NewSession(s, c)
  PROVE  (Calm /\ Full(State))'
<1> DEFINE r(w) == [alive |-> TRUE, win |-> [i \in {Base} |-> w], cur |-> Base, last |-> <<>>]
           X(w) == Note(Put(State, s, r(w)), {w})
           Y(w, t) == IF t = None THEN X(w) ELSE Grouped(X(w), s, t)
<1>1. /\ ~sess[s].alive /\ Base \in Indexes
      /\ \E w \in Fresh, t \in Targets \cup {None} :
           Become(IF c = None THEN Y(w, t) ELSE SetSession(Y(w, t), c, s))
  BY Zenon DEF NewSession
<1>2. PICK w \in Fresh, t \in Targets \cup {None} :
        Become(IF c = None THEN Y(w, t) ELSE SetSession(Y(w, t), c, s))
  BY <1>1
<1>3. /\ w \in Window
      /\ t # None => /\ t \in Session
                     /\ sess[t].alive /\ NameOf(State, t) = None => State.groups[t] = <<>>
  <2>1. w \in Window /\ instance.sessions \subseteq Session /\ State.groups = groups
    BY OptionsAssumption, StateIs DEF Fresh, Calm
  <2> QED BY <2>1 DEF Targets, Calm
<1> DEFINE e == r(w)
           x == X(w)
           y == Y(w, t)
<1>4. Sound(e) /\ OnceEach(e) /\ Linked(e) = {e.cur} /\ e.last = <<>>
  <2>1. [i \in {Base} |-> w] \in Wins
    <3> DEFINE f == [i \in {Base} |-> w]
    <3>1. f \in [{Base} -> Window] /\ {Base} \in SUBSET Indexes
      BY <1>1, <1>3
    <3> HIDE DEF f
    <3>2. f \in Wins
      BY <3>1 DEF Wins
    <3> QED BY <3>2 DEF f
  <2>2. e \in Recs
    BY <1>1, <2>1 DEF Recs
  <2>3. Uniq(e.last) /\ ToSet(e.last) = {}
    BY DEF Uniq, ToSet
  <2> QED BY <2>2, <2>3 DEF Sound, LastSound, OnceEach, Linked
<1> HIDE DEF r
<1>5. /\ Full(x) /\ x.sess[s] = e /\ x.groups = State.groups
      /\ \A z \in Session : z # s => x.sess[z] = sess[z]
      /\ \A n \in Session : s \notin ToSet(x.groups[n])
  <2>1. {w} \in SUBSET Window /\ State.sess = sess
    BY <1>3, AtFirst
  <2> HIDE DEF e
  <2> QED BY <1>1, <1>4, <2>1, FirstWindow DEF e
<1>6. Full(y) /\ y.sess[s].alive
  <2>1. e.alive
    BY <1>4 DEF Sound
  <2> HIDE DEF e, X
  <2>2. CASE t = None
    BY <1>5, <2>1, <2>2
  <2>3. CASE t # None
    <3>1. y = Grouped(x, s, t)
      BY <2>3
    <3>2. t \in Session
      BY <1>3, <2>3
    <3>3. t # s /\ x.sess[t].alive /\ NameOf(x, t) = None => x.groups[t] = <<>>
      BY <1>3, <1>5, <2>3 DEF NameOf
    <3>4. Full(Grouped(x, s, t)) /\ Grouped(x, s, t).sess[s].alive
      <4> HIDE DEF x
      <4> QED BY <1>4, <1>5, <3>2, <3>3, GroupedKeeps
    <3> QED BY <3>1, <3>4
  <2> QED BY <2>2, <2>3
<1> HIDE DEF Y, x, X
<1>7. CASE c = None
  BY <1>2, <1>6, <1>7, Becoming
<1>8. CASE c # None
  <2>1. Loose(SetSession(y, c, s), {})
    <3>1. Loose(y, {}) /\ c \in Client /\ s \in Session \cup {None}
      BY <1>6, <1>8 DEF Full
    <3> HIDE DEF y
    <3> QED BY <1>6, <3>1, SetSessionKeeps
  <2> QED BY <1>2, <1>8, <2>1, Becoming DEF Full
<1> QED BY <1>7, <1>8

LEMMA NewWindowKeeps ==
  ASSUME Calm, Full(State), NEW s \in Session, NewWindow(s)
  PROVE  (Calm /\ Full(State))'
<1>1. PICK w \in Fresh, select \in BOOLEAN :
       \/ \E i \in Indexes \ Linked(sess[s]) : Become(Spawned(State, s, i, w, select))
       \/ \E i \in Linked(sess[s]) : Become(Spawned(State, s, i, w, select))
       \/ /\ MayShuffle(s)
          /\ \E i \in Linked(sess[s]) : \E k \in {i, i + 1} :
               /\ Room(sess[s], k)
               /\ Become(Spawned(Put(State, s, ShuffleUp(sess[s], k)), s, k, w, select))
  BY DEF NewWindow
<1>2. /\ sess[s].alive /\ w \in Window /\ \A j \in Linked(sess[s]) : sess[s].win[j] # w
      /\ Linked(sess[s]) \subseteq Indexes /\ Linked(sess[s]) \subseteq Nat
      /\ State.sess = sess /\ Sound(sess[s])
  <2>1. sess[s] \in Recs /\ sess[s].alive /\ State.sess = sess /\ Sound(sess[s])
    BY AtFirst DEF NewWindow
  <2>2. w \in Window /\ Links(sess[s], w) = {}
    BY DEF Fresh
  <2> QED BY <2>1, <2>2, Facts DEF Links
<1>3. CASE \E i \in Indexes : Become(Spawned(State, s, i, w, select))
  <2>1. PICK i \in Indexes : Become(Spawned(State, s, i, w, select))
    BY <1>3
  <2>2. Full(Spawned(State, s, i, w, select))
    BY <1>2, SpawnedKeeps
  <2> QED BY <2>1, <2>2, Becoming
<1>4. CASE /\ MayShuffle(s)
           /\ \E i \in Linked(sess[s]) : \E k \in {i, i + 1} :
               /\ Room(sess[s], k)
               /\ Become(Spawned(Put(State, s, ShuffleUp(sess[s], k)), s, k, w, select))
  <2>0. PICK i \in Linked(sess[s]) : \E k \in {i, i + 1} :
          /\ Room(sess[s], k)
          /\ Become(Spawned(Put(State, s, ShuffleUp(sess[s], k)), s, k, w, select))
    BY <1>4
  <2>1. PICK k \in {i, i + 1} :
          /\ Room(sess[s], k)
          /\ Become(Spawned(Put(State, s, ShuffleUp(sess[s], k)), s, k, w, select))
    BY <2>0
  <2>2. k \in Nat /\ Mates(State, s) = {}
    <3>1. i \in Nat
      BY <1>2
    <3>2. Alone(s)
      BY <1>4 DEF MayShuffle, Calm
    <3>3. Mates(State, s) = {}
      BY <3>2 DEF Alone
    <3> QED BY <3>1, <3>3
  <2>3. k \in Indexes
    <3>1. MaxIndex \in Nat
      BY Bounds
    <3> QED BY <2>1, <2>2, <3>1 DEF Room, Indexes
  <2> DEFINE r == ShuffleUp(sess[s], k)
             x == Put(State, s, r)
  <2>4. Full(x) /\ x.sess[s] = r
    <3>1. Having(State, s, r, x)
      BY <1>2, <2>1, <2>2, ShuffleKeeps
    <3> QED BY <3>1 DEF Having
  <2>5. Sound(r) /\ \A j \in Linked(r) : r.win[j] # w
    <3>1. /\ Sound(r)
          /\ \A j \in Linked(sess[s]) : r.win[Up(sess[s], k, j)] = sess[s].win[j]
          /\ \A l \in Linked(r) : \E j \in Linked(sess[s]) : l = Up(sess[s], k, j)
      BY <1>2, <2>1, <2>2, ShuffleUpIs
    <3> HIDE DEF r
    <3> QED BY <1>2, <3>1
  <2> HIDE DEF r
  <2>6. x.sess[s].alive /\ \A j \in Linked(x.sess[s]) : x.sess[s].win[j] # w
    BY <2>4, <2>5 DEF Sound
  <2> HIDE DEF x
  <2>7. Full(Spawned(x, s, k, w, select))
    BY <1>2, <2>3, <2>4, <2>6, SpawnedKeeps
  <2> QED BY <2>1, <2>7, Becoming DEF r, x
<1> QED BY <1>1, <1>2, <1>3, <1>4

LEMMA NewWindowFailsKeeps ==
  ASSUME Calm, Full(State), NEW s \in Session, NewWindowFails(s)
  PROVE  (Calm /\ Full(State))'
<1>1. /\ sess[s].alive /\ State.sess = sess /\ Sound(sess[s]) /\ sess[s] \in Recs
      /\ Mates(State, s) = {} /\ Once(sess[s]) /\ State \in States
      /\ Linked(sess[s]) \subseteq Nat
  <2>1. sess[s].alive /\ Mates(State, s) = {}
    BY DEF NewWindowFails, Calm, Alone
  <2>2. /\ State.sess = sess /\ Sound(sess[s]) /\ sess[s] \in Recs
        /\ Once(sess[s]) /\ State \in States
    BY <2>1, AtFirst
  <2> QED BY <2>1, <2>2, Facts
<1>2. ASSUME NEW i \in Linked(sess[s]), i # sess[s].cur, Become(SpawnFailed(State, s, i))
      PROVE  (Calm /\ Full(State))'
  <2> DEFINE r == Cleared(sess[s], i)
             x == Note(Put(State, s, r), {sess[s].win[i]})
  <2>1. /\ Headless(r) /\ Linked(r) = Linked(sess[s]) \ {i} /\ r.cur = sess[s].cur
        /\ \A j \in Linked(r) : r.win[j] = sess[s].win[j]
    BY <1>1, <1>2, ClearedIs
  <2>2. r.cur # None /\ {sess[s].win[i]} \in SUBSET Window
    <3>1. sess[s].win[i] \in Window
      BY <1>1, Facts
    <3>2. sess[s].cur # None
      BY <1>1, SoundIsAlive
    <3> HIDE DEF r
    <3> QED BY <2>1, <3>1, <3>2
  <2>3. [r EXCEPT !.cur = IF @ = None THEN Freed ELSE @] = r
    <3>1. r = [alive |-> r.alive, win |-> r.win, cur |-> r.cur, last |-> r.last]
      BY <2>1 DEF Headless, Recs
    <3> HIDE DEF r
    <3> QED BY <2>2, <3>1
  <2>4. SpawnFailed(State, s, i) = x
    <3> HIDE DEF r
    <3> QED BY <1>1, <2>3 DEF SpawnFailed, r
  <2> HIDE DEF r
  <2>5. Sound(r) /\ Once(r)
    BY <1>1, <2>1, <2>2 DEF Headless, Sound, Once, OnceEach
  <2>6. Loose(x, {})
    <3>1. Loose(State, {})
      BY DEF Full
    <3> HIDE DEF x
    <3> QED BY <1>1, <2>2, <2>5, <3>1, PutAlone DEF x
  <2> QED BY <1>2, <2>4, <2>6, Becoming DEF Full
<1>3. ASSUME NEW k \in Nat, Room(sess[s], k), Become(Put(State, s, ShuffleUp(sess[s], k)))
      PROVE  (Calm /\ Full(State))'
  <2>1. Having(State, s, ShuffleUp(sess[s], k), Put(State, s, ShuffleUp(sess[s], k)))
    BY <1>1, <1>3, ShuffleKeeps
  <2>2. Full(Put(State, s, ShuffleUp(sess[s], k)))
    BY <2>1 DEF Having
  <2> QED BY <1>3, <2>2, Becoming
<1>4. CASE \E i \in Linked(sess[s]) :
             i # sess[s].cur /\ Become(SpawnFailed(State, s, i))
  BY <1>2, <1>4
<1>5. CASE \E i \in Linked(sess[s]) : \E k \in {i, i + 1} :
             Room(sess[s], k) /\ Become(Put(State, s, ShuffleUp(sess[s], k)))
  <2>0. PICK i \in Linked(sess[s]) : \E k \in {i, i + 1} :
          Room(sess[s], k) /\ Become(Put(State, s, ShuffleUp(sess[s], k)))
    BY <1>5
  <2>1. PICK k \in {i, i + 1} :
          Room(sess[s], k) /\ Become(Put(State, s, ShuffleUp(sess[s], k)))
    BY <2>0
  <2>2. k \in Nat
    BY <1>1
  <2> QED BY <1>3, <2>1, <2>2
<1> QED BY <1>4, <1>5 DEF NewWindowFails, Calm

\* The state in which windows are linked: winlinks of session t may have been
\* moved out of the way.
LEMMA MadeRoom ==
  ASSUME Calm, Full(State), NEW t \in Session, sess[t].alive,
         NEW k \in Indexes, NEW shuffle \in BOOLEAN, shuffle => CanShuffle(t, k)
  PROVE  LET st == Shuffled(t, k, shuffle) IN
         /\ Full(st) /\ st.groups = groups /\ st.sess[t].alive
         /\ \A s \in Session : s # t => st.sess[s] = sess[s]
         /\ \A j \in Linked(sess[t]) :
              LET l == IF shuffle THEN Up(sess[t], k, j) ELSE j
              IN  l \in Linked(st.sess[t]) /\ st.sess[t].win[l] = sess[t].win[j]
         /\ \A l \in Linked(st.sess[t]) : \E j \in Linked(sess[t]) :
              st.sess[t].win[l] = sess[t].win[j]
<1>1. /\ State.sess = sess /\ State.groups = groups /\ Sound(sess[t])
      /\ sess \in [Session -> Recs]
  BY AtFirst
<1>2. CASE ~shuffle
  BY <1>1, <1>2 DEF Shuffled
<1>3. CASE shuffle
  <2> DEFINE r == ShuffleUp(sess[t], k)
             x == Put(State, t, r)
  <2>0. x = Shuffled(t, k, shuffle) /\ MayShuffle(t) /\ Room(sess[t], k)
    BY <1>3 DEF Shuffled, CanShuffle
  <2>1. Mates(State, t) = {} /\ k \in Nat
    <3>1. Alone(t)
      BY <2>0 DEF MayShuffle, Calm
    <3> QED BY <3>1, Bounds DEF Alone
  <2>2. Having(State, t, r, x)
    BY <1>1, <2>0, <2>1, ShuffleKeeps
  <2>3. /\ Sound(r)
        /\ \A j \in Linked(sess[t]) : Up(sess[t], k, j) \in Linked(r)
                                      /\ r.win[Up(sess[t], k, j)] = sess[t].win[j]
        /\ \A l \in Linked(r) : \E j \in Linked(sess[t]) : l = Up(sess[t], k, j)
    BY <1>1, <2>0, <2>1, ShuffleUpIs
  <2> HIDE DEF r, x
  <2>4. /\ Full(x) /\ x.groups = groups /\ x.sess[t] = r
        /\ \A s \in Session : s # t => x.sess[s] = sess[s]
    BY <1>1, <2>2 DEF Having
  <2>5. r.alive
    BY <2>3 DEF Sound
  <2>6. \A l \in Linked(r) : \E j \in Linked(sess[t]) : r.win[l] = sess[t].win[j]
    BY <2>3
  <2> QED BY <1>3, <2>0, <2>3, <2>4, <2>5, <2>6
<1> QED BY <1>2, <1>3

LEMMA BreakPaneKeeps ==
  ASSUME Calm, Full(State), NEW s \in Session, BreakPane(s)
  PROVE  (Calm /\ Full(State))'
<1>1. PICK w \in Fresh, k \in Indexes, select \in BOOLEAN, shuffle \in BOOLEAN :
        LET st == Shuffled(s, k, shuffle)
            x == Attach(st, s, k, w)
        IN /\ shuffle => CanShuffle(s, k)
           /\ k \notin Linked(st.sess[s])
           /\ Become(IF select THEN Put(x, s, SetCurrent(x.sess[s], k)) ELSE x)
  BY DEF BreakPane
<1> DEFINE st == Shuffled(s, k, shuffle)
           x == Attach(st, s, k, w)
<1>2. /\ sess[s].alive /\ w \in Window /\ \A j \in Linked(sess[s]) : sess[s].win[j] # w
      /\ State.sess = sess
  <2>1. sess[s].alive /\ State.sess = sess
    BY AtFirst DEF BreakPane
  <2>2. w \in Window /\ Links(sess[s], w) = {}
    BY DEF Fresh
  <2> QED BY <2>1, <2>2 DEF Links
<1>3. Full(st) /\ st.sess[s].alive /\ \A j \in Linked(st.sess[s]) : st.sess[s].win[j] # w
  BY <1>1, <1>2, MadeRoom
<1>4. k \in Indexes \ Linked(st.sess[s])
  BY <1>1
<1> HIDE DEF st
<1>5. Full(x) /\ k \in Linked(x.sess[s])
  BY <1>2, <1>3, <1>4, AttachKeeps
<1>6. Become(IF select THEN Put(x, s, SetCurrent(x.sess[s], k)) ELSE x)
  BY <1>1 DEF st
<1> HIDE DEF x
<1>7. Full(Put(x, s, SetCurrent(x.sess[s], k)))
  BY <1>5, SelectKeeps
<1> QED BY <1>5, <1>6, <1>7, Becoming

LEMMA LinkKeeps ==
  ASSUME Calm, NEW st, Full(st), NEW s \in Session, NEW i \in Linked(st.sess[s]),
         NEW t \in Session, st.sess[t].alive, NEW k \in Indexes, NEW select \in BOOLEAN,
         "again" \in Uses \/ \A j \in Linked(st.sess[t]) : st.sess[t].win[j] # st.sess[s].win[i]
  PROVE  Full(LinkWindow(st, s, i, t, k, select))
<1> DEFINE w == st.sess[s].win[i]
           x == LinkWindow(st, s, i, t, k, select)
<1>1. /\ \E r : Linking(st.sess[t], k, w, r) /\ Replaced(st, t, {}, r, x)
      /\ (\A j \in Linked(st.sess[t]) : st.sess[t].win[j] # w) => Full(x)
  BY LinkWindowKeeps
<1> HIDE DEF x
<1>2. ASSUME "again" \in Uses PROVE Full(x)
  <2>1. PICK r : Replaced(st, t, {}, r, x)
    BY <1>1
  <2> QED BY <1>2, <2>1 DEF Replaced, Once, Full
<1> QED BY <1>1, <1>2 DEF x

LEMMA MoveKeeps ==
  ASSUME Calm, NEW st, Full(st), NEW s \in Session, NEW i \in Linked(st.sess[s]),
         NEW t \in Session, st.sess[t].alive, NEW k \in Indexes, NEW select \in BOOLEAN,
         CanLink(st, s, i, t, k),
         s = t \/ "again" \in Uses
           \/ \A j \in Linked(st.sess[t]) : st.sess[t].win[j] # st.sess[s].win[i],
         NEW d \in Even
  PROVE  LET x == LinkWindow(st, s, i, t, k, select)
             u == UnlinkOrDestroy(x, s, i, d)
         IN  Full(u) /\ (u.sess[s].alive => u.groups = st.groups)
<1> DEFINE w == st.sess[s].win[i]
           x == LinkWindow(st, s, i, t, k, select)
           u == UnlinkOrDestroy(x, s, i, d)
<1>1. /\ \E r : Linking(st.sess[t], k, w, r) /\ Replaced(st, t, {}, r, x)
      /\ st \in States /\ Once(st.sess[t])
  BY LinkWindowKeeps, WholeGroup DEF Full, Loose
<1>2. s # t => Full(x)
  <2> HIDE DEF x
  <2> QED BY LinkKeeps DEF x
<1>3. PICK r : Linking(st.sess[t], k, w, r) /\ Replaced(st, t, {}, r, x)
  BY <1>1
<1> HIDE DEF x, w
<1>4. x.groups = st.groups
  BY <1>3 DEF Replaced
<1>5. ASSUME s = t PROVE Full(u) /\ Gone(x, s, i, u)
  <2>1. /\ Loose(x, Group(x, s)) /\ Whole(x, s) /\ x.sess[s] = r
    <3>1. {} \cup Group(st, s) = Group(st, s)
      OBVIOUS
    <3> QED BY <1>3, <1>5, <3>1 DEF Replaced
  <2>2. i \in Linked(x.sess[s])
    BY <1>3, <1>5, <2>1 DEF Linking
  <2>3. OnceBut(x.sess[s], i)
    <3> SUFFICES ASSUME "again" \notin Uses, NEW a \in Linked(r) \ {i}, NEW b \in Linked(r) \ {i},
                        r.win[a] = r.win[b]
                 PROVE  a = b
      BY <2>1 DEF OnceBut
    <3>1. OnceEach(st.sess[s])
      BY <1>1, <1>5 DEF Once
    <3>2. ASSUME NEW c \in Linked(r) \ {i}, c # k
          PROVE  c \in Linked(st.sess[s]) /\ r.win[c] = st.sess[s].win[c] /\ r.win[c] # w
      <4>1. c \in Linked(st.sess[s]) /\ r.win[c] = st.sess[s].win[c]
        BY <1>3, <1>5, <3>2 DEF Linking
      <4>2. st.sess[s].win[c] # st.sess[s].win[i]
        BY <3>1, <4>1 DEF OnceEach
      <4> QED BY <4>1, <4>2 DEF w
    <3>3. r.win[k] = w
      BY <1>3 DEF Linking
    <3> QED BY <3>1, <3>2, <3>3 DEF OnceEach
  <2>4. Full(u) /\ Gone(x, s, i, u)
    BY <2>1, <2>2, <2>3, UnlinkOrDestroyKeeps
  <2> QED BY <2>4
<1>6. ASSUME s # t PROVE Full(u) /\ Gone(x, s, i, u)
  <2>1. x.sess[s] = st.sess[s]
    <3>1. s \notin Group(st, t)
      BY <1>6 DEF CanLink, SameGroup, Group
    <3> QED BY <1>3, <3>1 DEF Replaced
  <2>2. Full(u) /\ Gone(x, s, i, u)
    BY <1>2, <1>6, <2>1, UnlinkKeeps
  <2> QED BY <2>2
<1>7. Full(u) /\ Gone(x, s, i, u)
  BY <1>5, <1>6
<1> HIDE DEF u
<1>8. u.sess[s].alive => u.groups = st.groups
  BY <1>4, <1>7, DeadIs DEF Gone
<1> QED BY <1>7, <1>8 DEF x, u

LEMMA RenumberedOne ==
  ASSUME Calm, NEW u, Full(u), NEW s \in Session, NEW renumber,
         renumber => /\ "renumber-windows" \in Uses
                     /\ u.sess[s].alive => Mates(u, s) = {}
  PROVE  Full(RenumberOne(u, s, renumber))
<1>1. CASE renumber /\ u.sess[s].alive
  <2>1. "again" \notin Uses /\ Uses \cap {"-r", "renumber-windows"} # {}
    BY <1>1 DEF Calm
  <2>2. OnceEach(u.sess[s])
    BY <1>1, <2>1, WholeGroup DEF Once
  <2>3. Full(Put(u, s, Renumber(u.sess[s])))
    BY <1>1, <2>1, <2>2, RenumberKeeps
  <2> QED BY <1>1, <2>3 DEF RenumberOne
<1>2. CASE ~(renumber /\ u.sess[s].alive)
  BY <1>2 DEF RenumberOne
<1> QED BY <1>1, <1>2

LEMMA LinkOrMoveKeeps ==
  ASSUME Calm, Full(State), NEW s \in Session, NEW t \in Session, LinkOrMove(s, t)
  PROVE  (Calm /\ Full(State))'
<1> DEFINE X(st, j, k, select) == LinkWindow(st, s, j, t, k, select)
           Y(st, j, k, select, move, d) ==
             IF move THEN UnlinkOrDestroy(X(st, j, k, select), s, j, d) ELSE X(st, j, k, select)
<1>1. sess[s].alive /\ sess[t].alive
  BY DEF LinkOrMove
<1>2. PICK i \in Linked(sess[s]), k \in Indexes, shuffle \in BOOLEAN :
        LET st == Shuffled(t, k, shuffle)
            j == IF shuffle /\ s = t THEN Up(sess[s], k, i) ELSE i
        IN /\ shuffle => CanShuffle(t, k)
           /\ \/ ~CanLink(st, s, j, t, k) /\ Become(st)
              \/ /\ CanLink(st, s, j, t, k)
                 /\ \E select, move \in BOOLEAN, renumber \in Renumbering, d \in Fates :
                      /\ \/ "again" \in Uses \/ (move /\ s = t)
                         \/ sess[s].win[i] \notin Range(sess[t].win)
                      /\ renumber => MayRenumber(s)
                      /\ Become(RenumberOne(Y(st, j, k, select, move, d), s, renumber))
  BY DEF LinkOrMove
<1> DEFINE st == Shuffled(t, k, shuffle)
           j == IF shuffle /\ s = t THEN Up(sess[s], k, i) ELSE i
<1>3. /\ Full(st) /\ st.groups = groups /\ st.sess[t].alive
      /\ j \in Linked(st.sess[s]) /\ st.sess[s].win[j] = sess[s].win[i]
      /\ sess[s].win[i] \notin Range(sess[t].win)
           => \A l \in Linked(st.sess[t]) : st.sess[t].win[l] # sess[s].win[i]
  <2>1. /\ Full(st) /\ st.groups = groups /\ st.sess[t].alive
        /\ s # t => st.sess[s] = sess[s]
        /\ \A a \in Linked(sess[t]) :
             LET l == IF shuffle THEN Up(sess[t], k, a) ELSE a
             IN  l \in Linked(st.sess[t]) /\ st.sess[t].win[l] = sess[t].win[a]
        /\ \A l \in Linked(st.sess[t]) : \E a \in Linked(sess[t]) :
             st.sess[t].win[l] = sess[t].win[a]
    BY <1>1, <1>2, MadeRoom
  <2>2. ASSUME sess[s].win[i] \notin Range(sess[t].win), NEW a \in Linked(sess[t])
        PROVE  sess[t].win[a] # sess[s].win[i]
    BY <2>2 DEF Range, Linked
  <2> HIDE DEF st
  <2>3. j \in Linked(st.sess[s]) /\ st.sess[s].win[j] = sess[s].win[i]
    BY <2>1
  <2> QED BY <2>1, <2>2, <2>3
<1> HIDE DEF X, Y
<1>4. CASE Become(st)
  BY <1>3, <1>4, Becoming
<1>5. CASE /\ CanLink(st, s, j, t, k)
           /\ \E select, move \in BOOLEAN, renumber \in Renumbering, d \in Fates :
                /\ \/ "again" \in Uses \/ (move /\ s = t)
                   \/ sess[s].win[i] \notin Range(sess[t].win)
                /\ renumber => MayRenumber(s)
                /\ Become(RenumberOne(Y(st, j, k, select, move, d), s, renumber))
  <2>1. PICK select \in BOOLEAN, move \in BOOLEAN, renumber \in Renumbering, d \in Fates :
          /\ \/ "again" \in Uses \/ (move /\ s = t)
             \/ sess[s].win[i] \notin Range(sess[t].win)
          /\ renumber => MayRenumber(s)
          /\ Become(RenumberOne(Y(st, j, k, select, move, d), s, renumber))
    BY <1>5
  <2> DEFINE y == Y(st, j, k, select, move, d)
  <2> HIDE DEF st, j
  <2>2. d \in Even
    BY FatesAre
  <2>3. renumber => "renumber-windows" \in Uses /\ Mates(st, s) = {}
    <3>1. State.groups = groups
      BY AtFirst
    <3>2. renumber => "renumber-windows" \in Uses /\ Mates(State, s) = {}
      BY <2>1 DEF Renumbering, MayRenumber, Calm, Alone
    <3> QED BY <1>3, <3>1, <3>2, SameNames
  <2>4. Full(y) /\ (y.sess[s].alive => y.groups = st.groups)
    <3>1. CASE move
      <4>1. s = t \/ "again" \in Uses
              \/ \A l \in Linked(st.sess[t]) : st.sess[t].win[l] # st.sess[s].win[j]
        BY <1>3, <2>1
      <4> QED BY <1>3, <1>5, <2>2, <3>1, <4>1, MoveKeeps DEF X, Y
    <3>2. CASE ~move
      <4>1. Full(LinkWindow(st, s, j, t, k, select))
        BY <1>3, <2>1, <3>2, LinkKeeps
      <4>2. LinkWindow(st, s, j, t, k, select).groups = st.groups
        BY <1>3, LinkWindowKeeps DEF Replaced
      <4> QED BY <3>2, <4>1, <4>2 DEF X, Y
    <3> QED BY <3>1, <3>2
  <2> HIDE DEF y
  <2>5. renumber => (y.sess[s].alive => Mates(y, s) = {})
    BY <2>3, <2>4, SameNames
  <2>6. Full(RenumberOne(y, s, renumber))
    BY <2>3, <2>4, <2>5, RenumberedOne
  <2> QED BY <2>1, <2>6, Becoming DEF y
<1> QED BY <1>2, <1>4, <1>5, Zenon

LEMMA MoveWindowRKeeps ==
  ASSUME Calm, Full(State), NEW s \in Session, MoveWindowR(s)
  PROVE  (Calm /\ Full(State))'
<1>1. /\ sess[s].alive /\ "-r" \in Uses /\ Mates(State, s) = {} /\ ~HasTwice(s)
      /\ Become(Put(State, s, Renumber(sess[s])))
  BY DEF MoveWindowR, MayRenumber, Calm, Alone
<1>2. State.sess = sess /\ sess[s] \in Recs
  BY AtFirst
<1>3. OnceEach(sess[s])
  BY <1>1, <1>2, TwiceIs DEF HasTwice
<1>4. Full(Put(State, s, Renumber(sess[s])))
  <2>1. Uses \cap {"-r", "renumber-windows"} # {}
    BY <1>1
  <2> QED BY <1>1, <1>2, <1>3, <2>1, RenumberKeeps
<1> QED BY <1>1, <1>4, Becoming

LEMMA UnlinkWindowKeeps ==
  ASSUME Calm, Full(State), NEW s \in Session, NEW i \in Indexes, NEW kill,
         UnlinkWindow(s, i, kill)
  PROVE  (Calm /\ Full(State))'
<1>1. PICK d \in Fates : Become(UnlinkOrDestroy(State, s, i, d))
  BY DEF UnlinkWindow
<1>2. i \in Linked(State.sess[s]) /\ d \in Even
  BY StateIs, FatesAre DEF UnlinkWindow
<1>3. Full(UnlinkOrDestroy(State, s, i, d))
  BY <1>2, UnlinkKeeps
<1> QED BY <1>1, <1>3, Becoming

LEMMA KillWindowKeeps ==
  ASSUME Calm, Full(State), NEW s \in Session, KillWindow(s)
  PROVE  (Calm /\ Full(State))'
<1>1. PICK w \in Range(sess[s].win), renumber \in Renumbering, d \in Fates :
        Become(Kill(State, w, renumber, d))
  BY DEF KillWindow
<1>2. d \in Even /\ (renumber => "renumber-windows" \in Uses)
  BY FatesAre DEF Renumbering
<1>3. Full(Kill(State, w, renumber, d))
  BY <1>2, KillKeeps
<1> QED BY <1>1, <1>3, Becoming

LEMMA KillOtherWindowsKeeps ==
  ASSUME Calm, Full(State), NEW s \in Session, KillOtherWindows(s)
  PROVE  (Calm /\ Full(State))'
<1> DEFINE Others(w, d) == OthersKilled(State, sess[s], w, d)
           All(w, d) == IF Cardinality(Links(sess[s], w)) > 1
                          THEN Kill(Others(w, d), w, FALSE, d) ELSE Others(w, d)
           Again(x) == FoldLeft(LAMBDA y, z : RenumberGroup(y, z), x, Sorted(Alive(x)))
<1>1. \E w \in Range(sess[s].win), renumber \in Renumbering, d \in Fates :
        Become(IF renumber THEN Again(All(w, d)) ELSE All(w, d))
  BY Zenon DEF KillOtherWindows, OthersKilled
<1>2. ASSUME NEW x, Full(x), "renumber-windows" \in Uses PROVE Full(Again(x))
  BY <1>2, RenumberAllKeeps
<1>3. ASSUME NEW w, NEW d \in Even PROVE Full(Others(w, d))
  <2>1. Full(OthersKilled(State, State.sess[s], w, d))
    BY OtherWindowsKilled
  <2> QED BY <2>1, StateIs
<1> HIDE DEF Others, Again
<1>4. ASSUME NEW w, NEW d \in Even PROVE Full(All(w, d))
  <2>1. Full(Others(w, d))
    BY <1>3
  <2>2. Full(Kill(Others(w, d), w, FALSE, d))
    BY <2>1, KillKeeps
  <2> QED BY <2>1, <2>2
<1> HIDE DEF All
<1>5. PICK w \in Range(sess[s].win), renumber \in Renumbering, d \in Fates :
        Become(IF renumber THEN Again(All(w, d)) ELSE All(w, d))
  BY <1>1
<1>6. d \in Even /\ (renumber => "renumber-windows" \in Uses)
  BY FatesAre DEF Renumbering
<1>7. Full(IF renumber THEN Again(All(w, d)) ELSE All(w, d))
  BY <1>2, <1>4, <1>6
<1> QED BY <1>5, <1>7, Becoming

LEMMA TreeSwapKeeps ==
  ASSUME Calm, Full(State), NEW s \in Session, TreeSwap(s)
  PROVE  (Calm /\ Full(State))'
<1> DEFINE X(i, j) == Exchanged(State, s, i, s, j).sess[s]
           Y(i, j) == IF X(i, j).cur = i THEN SetCurrent(X(i, j), j)
                      ELSE IF X(i, j).cur = j THEN SetCurrent(X(i, j), i) ELSE X(i, j)
<1>1. PICK i \in Linked(sess[s]), j \in Linked(sess[s]) :
        Become(SynchronizeFrom(Put(State, s, Y(i, j)), s))
  BY DEF TreeSwap
<1> DEFINE r == Relinked(Relinked(sess[s], i, sess[s].win[j]), j, sess[s].win[i])
           y == Y(i, j)
<1>2. sess[s].alive /\ Sound(sess[s]) /\ Once(sess[s]) /\ State \in States /\ State.sess = sess
  BY <1>1, AtFirst
<1>3. Sound(r) /\ Linked(r) = Linked(sess[s]) /\ Once(r)
  BY <1>2, SwapIs
<1>4. X(i, j) = r
  <2> DEFINE a == r
  <2>1. Exchanged(State, s, i, s, j) = Put(State, s, a)
    BY <1>2, SwapInOne
  <2> HIDE DEF a
  <2>2. a \in Recs
    BY <1>3 DEF Sound, a
  <2>3. Put(State, s, a).sess[s] = a
    BY <1>2, <2>2 DEF Put, States
  <2>4. X(i, j) = a
    BY <2>1, <2>3
  <2> QED BY <2>4 DEF a
<1> HIDE DEF r, X
<1>5. Sound(y) /\ y.win = r.win
  BY <1>1, <1>3, <1>4, SetCurrentIs, SoundIsHeadless
<1> HIDE DEF Y, y
<1>6. Linked(y) = Linked(State.sess[s]) /\ Once(y) /\ State.sess[s].alive
  BY <1>2, <1>3, <1>5 DEF Linked, Once, OnceEach
<1>7. Full(SynchronizeFrom(Put(State, s, y), s))
  BY <1>5, <1>6, OtherWins
<1> QED BY <1>1, <1>7, Becoming DEF y

LEMMA SelectWindowKeeps ==
  ASSUME Calm, Full(State), NEW s \in Session, SelectWindow(s)
  PROVE  (Calm /\ Full(State))'
<1>1. ASSUME NEW i \in Linked(sess[s]), Become(Put(State, s, SetCurrent(sess[s], i)))
      PROVE  (Calm /\ Full(State))'
  <2>1. Full(Put(State, s, SetCurrent(State.sess[s], i)))
    BY StateIs, SelectKeeps
  <2> QED BY <1>1, <2>1, StateIs, Becoming
<1>2. ASSUME sess[s].last # <<>> PROVE Head(sess[s].last) \in Linked(sess[s])
  <2>1. sess[s] = Dead \/ Sound(sess[s])
    BY AtFirst
  <2>2. Dead.last = <<>>
    BY DEF Dead
  <2>3. Sound(sess[s])
    BY <1>2, <2>1, <2>2
  <2>4. Head(sess[s].last) \in ToSet(sess[s].last)
    BY <1>2, <2>3, Facts, HeadIs DEF Sound
  <2> QED BY <2>3, <2>4 DEF Sound, LastSound
<1> QED BY <1>1, <1>2 DEF SelectWindow

LEMMA KillSessionKeeps ==
  ASSUME Calm, Full(State), NEW s \in Session, KillSession(s)
  PROVE  (Calm /\ Full(State))'
<1>1. PICK d \in Fates : Become(DestroySession(State, s, d))
  BY DEF KillSession
<1>2. d \in Even /\ Loose(State, {})
  BY FatesAre DEF Full
<1>3. Loose(DestroySession(State, s, d), {})
  BY <1>2, DestroySessionKeeps
<1> QED BY <1>1, <1>3, Becoming DEF Full

LEMMA KillOtherSessionsKeeps ==
  ASSUME Calm, Full(State), NEW s \in Session, KillOtherSessions(s)
  PROVE  (Calm /\ Full(State))'
<1> DEFINE All(d) == FoldLeft(LAMBDA x, y : DestroySession(x, y, d), State, Sorted(Living \ {s}))
<1>1. \E d \in Fates : Become(All(d))
  BY Zenon DEF KillOtherSessions
<1>2. Living \ {s} \in SUBSET Session
  BY DEF Living
<1>3. ASSUME NEW d \in Even PROVE Full(All(d))
  BY <1>2, OthersDestroyed
<1> HIDE DEF All
<1>4. PICK d \in Fates : Become(All(d))
  BY <1>1
<1>5. Full(All(d))
  BY <1>3, FatesAre
<1> QED BY <1>4, <1>5, Becoming

LEMMA SwitchClientKeeps ==
  ASSUME Calm, Full(State), NEW s \in Session, NEW c \in Client, SwitchClient(c, s)
  PROVE  (Calm /\ Full(State))'
<1>1. Loose(State, {}) /\ State.sess[s].alive
  BY StateIs DEF Full, SwitchClient
<1>2. Loose(SetSession(State, c, s), {})
  BY <1>1, SetSessionKeeps
<1> QED BY <1>2, Becoming DEF Full, SwitchClient

LEMMA LoseKeeps ==
  ASSUME Calm, Full(State), NEW c \in Client, Lose(c)
  PROVE  (Calm /\ Full(State))'
<1> DEFINE x == [State EXCEPT !.att[c] = None]
           y == CheckUnattached(x, x.att)
<1>1. /\ State \in States /\ SessOk(State, {}) /\ GroupsOf(State, {}) /\ Homes(State)
  BY DEF Full, Loose
<1>2. /\ x \in States /\ x.sess = State.sess /\ x.groups = State.groups
      /\ x.att = [State.att EXCEPT ![c] = None]
  BY <1>1 DEF States
<1>3. Become(y)
  BY DEF Lose
<1> HIDE DEF x
<1>4. Loose(x, {})
  <2>1. SessOk(x, {}) /\ GroupsOf(x, {})
    BY <1>1, <1>2, SameSessions DEF Full, Loose
  <2>2. Homes(x)
    BY <1>1, <1>2 DEF Homes, States
  <2> QED BY <1>2, <2>1, <2>2 DEF Loose
<1>5. Loose(y, {})
  BY <1>4, CheckUnattachedKeeps
<1> QED BY <1>3, <1>5, Becoming DEF Full

LEMMA NotifiedKeeps ==
  ASSUME Calm, Full(State), NEW w, Notified(w)
  PROVE  (Calm /\ Full(State))'
<1> DEFINE x == [State EXCEPT !.noted = @ \ {w}]
<1>1. /\ State \in States /\ SessOk(State, {}) /\ GroupsOf(State, {}) /\ Homes(State)
  BY DEF Full, Loose
<1>2. x \in States /\ x.sess = State.sess /\ x.groups = State.groups /\ x.att = State.att
  BY <1>1 DEF States
<1>3. State' = x /\ UNCHANGED instance
  BY DEF Notified, State
<1> HIDE DEF x
<1>4. Full(x)
  BY <1>1, <1>2, SameSessions DEF Full, Loose, Homes
<1> QED BY <1>3, <1>4, StillFull

LEMMA ExchangedIs ==
  ASSUME NEW st \in States, NEW s \in Session, NEW t \in Session, s # t, NEW i, NEW j
  PROVE  Exchanged(st, s, i, t, j)
           = Put(Put(st, s, Relinked(st.sess[s], i, st.sess[t].win[j])),
                 t, Relinked(st.sess[t], j, st.sess[s].win[i]))
<1> DEFINE r == Relinked(st.sess[s], i, st.sess[t].win[j])
           x == Put(st, s, r)
<1>1. st.sess \in [Session -> Recs]
  BY DEF States
<1>2. Exchanged(st, s, i, t, j) = Put(x, t, Relinked(x.sess[t], j, st.sess[s].win[i]))
  BY DEF Exchanged, Relinked
<1> HIDE DEF r
<1>3. x.sess[t] = st.sess[t]
  BY <1>1 DEF Put, States
<1> QED BY <1>2, <1>3 DEF r

LEMMA PutTwice ==
  ASSUME NEW st \in States, NEW s \in Session, NEW t \in Session, s # t,
         NEW a \in Recs, NEW b \in Recs, NEW c \in Recs, NEW e \in Recs
  PROVE  LET x == Put(Put(st, s, a), t, b) IN
         /\ x \in States /\ x.sess[s] = a /\ x.sess[t] = b
         /\ Put(x, t, e).sess[s] = a
         /\ Put(Put(x, t, e), s, c) = Put(Put(st, s, c), t, e)
<1>1. st.sess \in [Session -> Recs]
  BY DEF States
<1> DEFINE x == Put(Put(st, s, a), t, b)
           f == [[st.sess EXCEPT ![s] = a] EXCEPT ![t] = b]
           g == [f EXCEPT ![t] = e]
           h == [g EXCEPT ![s] = c]
           k == [[st.sess EXCEPT ![s] = c] EXCEPT ![t] = e]
<1>2. /\ f \in [Session -> Recs] /\ g \in [Session -> Recs]
      /\ f[s] = a /\ f[t] = b /\ g[s] = a
  BY <1>1
<1>3. h = k
  <2>1. h \in [Session -> Recs] /\ k \in [Session -> Recs] /\ \A p \in Session : h[p] = k[p]
    BY <1>1
  <2> QED BY <2>1
<1>4. x = [st EXCEPT !.sess = f]
  BY DEF Put, States
<1>5. Put(Put(st, s, c), t, e) = [st EXCEPT !.sess = k]
  BY DEF Put, States
<1> HIDE DEF f
<1>6. x \in States /\ x.sess = f
  BY <1>2, <1>4 DEF States
<1>7. Put(x, t, e) = [st EXCEPT !.sess = g]
  BY <1>4 DEF Put, States
<1> HIDE DEF x, g, k
<1>8. Put(x, t, e).sess = g
  BY <1>7 DEF States
<1>9. Put(Put(x, t, e), s, c) = [st EXCEPT !.sess = h]
  BY <1>7 DEF Put, States
<1> QED BY <1>2, <1>3, <1>5, <1>6, <1>8, <1>9 DEF x

\* One session: two of its windows change places.
LEMMA SwapWithinKeeps ==
  ASSUME Calm, Full(State), NEW s \in Session, NEW i \in Linked(sess[s]), NEW j \in Linked(sess[s]),
         NEW d \in BOOLEAN
  PROVE  LET x == Exchanged(State, s, i, s, j)
             y == Put(x, s, SetCurrent(x.sess[s], j))
         IN Full(SynchronizeFrom(IF d THEN y ELSE x, s))
<1> DEFINE r == Relinked(Relinked(sess[s], i, sess[s].win[j]), j, sess[s].win[i])
           e == SetCurrent(r, j)
           x == Exchanged(State, s, i, s, j)
           y == Put(x, s, SetCurrent(x.sess[s], j))
<1>1. sess[s].alive /\ Sound(sess[s]) /\ Once(sess[s]) /\ State \in States /\ State.sess = sess
  BY AtFirst
<1>2. Sound(r) /\ Linked(r) = Linked(sess[s]) /\ Once(r)
  BY <1>1, SwapIs
<1>3. x = Put(State, s, r)
  BY <1>1, SwapInOne
<1> HIDE DEF r
<1>4. Sound(e) /\ e.win = r.win
  BY <1>2, SetCurrentIs, SoundIsHeadless
<1>5. r \in Recs /\ e \in Recs
  BY <1>2, <1>4 DEF Sound
<1>6. x \in States /\ x.sess = [sess EXCEPT ![s] = r] /\ x.sess[s] = r /\ sess \in [Session -> Recs]
  <2>1. sess \in [Session -> Recs]
    BY AtFirst
  <2>2. x \in States /\ x.sess = [sess EXCEPT ![s] = r]
    BY <1>1, <1>3, <1>5, PutInto
  <2> QED BY <2>1, <2>2
<1>7. y = Put(x, s, e)
  BY <1>6
<1> HIDE DEF x, y, e
<1>8. y = Put(State, s, e)
  <2>1. [[sess EXCEPT ![s] = r] EXCEPT ![s] = e] = [sess EXCEPT ![s] = e]
    BY <1>6
  <2> QED BY <1>1, <1>3, <1>7, <2>1 DEF Put, States
<1>9. Linked(e) = Linked(sess[s]) /\ Once(e)
  BY <1>2, <1>4 DEF Linked, Once, OnceEach
<1>10. Full(SynchronizeFrom(Put(State, s, r), s)) /\ Full(SynchronizeFrom(Put(State, s, e), s))
  BY <1>1, <1>2, <1>4, <1>9, OtherWins
<1> QED BY <1>3, <1>8, <1>10 DEF x, y

\* A session that gets a window that it did not have.
LEMMA RelinkedOnce ==
  ASSUME Calm, NEW r, Sound(r), Once(r), NEW i \in Linked(r), NEW w \in Window,
         "again" \in Uses \/ w \notin Range(r.win)
  PROVE  LET x == Relinked(r, i, w) IN Sound(x) /\ Linked(x) = Linked(r) /\ Once(x)
<1> DEFINE x == Relinked(r, i, w)
<1>1. /\ Sound(x) /\ Linked(x) = Linked(r) /\ x.win[i] = w
      /\ \A k \in Linked(r) : k # i => x.win[k] = r.win[k]
  BY RelinkIs
<1> HIDE DEF x
<1>2. "again" \in Uses \/ \A k \in Linked(r) : r.win[k] # w
  BY DEF Range, Linked
<1>3. Once(x)
  BY <1>1, <1>2 DEF Once, OnceEach
<1> QED BY <1>1, <1>3 DEF x

\* Two sessions, not of one group, swap windows.
LEMMA SwapBetweenKeeps ==
  ASSUME Calm, Full(State), NEW s \in Session, NEW t \in Session, s # t, ~SameGroup(State, s, t),
         NEW i \in Linked(sess[s]), NEW j \in Linked(sess[t]), NEW d \in BOOLEAN,
         \/ "again" \in Uses
         \/ sess[s].win[i] \notin Range(sess[t].win) /\ sess[t].win[j] \notin Range(sess[s].win)
  PROVE  LET x == Exchanged(State, s, i, t, j)
             y == Put(x, t, SetCurrent(x.sess[t], j))
             z == Put(y, s, SetCurrent(y.sess[s], i))
         IN Full(SynchronizeFrom(SynchronizeFrom(IF d THEN z ELSE x, s), t))
<1> DEFINE a == Relinked(sess[s], i, sess[t].win[j])
           b == Relinked(sess[t], j, sess[s].win[i])
           c == SetCurrent(a, i)
           e == SetCurrent(b, j)
           x == Exchanged(State, s, i, t, j)
           y == Put(x, t, SetCurrent(x.sess[t], j))
           z == Put(y, s, SetCurrent(y.sess[s], i))
<1>1. /\ sess[s].alive /\ Sound(sess[s]) /\ Once(sess[s])
      /\ sess[t].alive /\ Sound(sess[t]) /\ Once(sess[t])
      /\ State \in States /\ State.sess = sess
  BY AtFirst
<1>2. sess[s].win[i] \in Window /\ sess[t].win[j] \in Window
  BY <1>1, Facts DEF Sound
<1>3. Sound(a) /\ Linked(a) = Linked(sess[s]) /\ Once(a)
  BY <1>1, <1>2, RelinkedOnce
<1>4. Sound(b) /\ Linked(b) = Linked(sess[t]) /\ Once(b)
  BY <1>1, <1>2, RelinkedOnce
<1>5. x = Put(Put(State, s, a), t, b)
  BY <1>1, ExchangedIs
<1> HIDE DEF a, b
<1>6. Sound(c) /\ c.win = a.win
  BY <1>3, SetCurrentIs, SoundIsHeadless
<1>7. Sound(e) /\ e.win = b.win
  BY <1>4, SetCurrentIs, SoundIsHeadless
<1>8. a \in Recs /\ b \in Recs /\ c \in Recs /\ e \in Recs
  BY <1>3, <1>4, <1>6, <1>7 DEF Sound
<1>9. z = Put(Put(State, s, c), t, e)
  <2> HIDE DEF x, c, e
  <2>1. /\ x.sess[t] = b /\ Put(x, t, e).sess[s] = a
        /\ Put(Put(x, t, e), s, c) = Put(Put(State, s, c), t, e)
    BY <1>1, <1>5, <1>8, PutTwice
  <2>2. y = Put(x, t, e)
    BY <2>1 DEF e
  <2> HIDE DEF y
  <2>3. z = Put(y, s, c)
    BY <2>1, <2>2 DEF c
  <2> QED BY <2>1, <2>2, <2>3
<1>10. /\ Linked(c) = Linked(sess[s]) /\ Once(c)
       /\ Linked(e) = Linked(sess[t]) /\ Once(e)
  BY <1>3, <1>4, <1>6, <1>7 DEF Linked, Once, OnceEach
<1> HIDE DEF c, e, x, y, z
<1>11. Full(SynchronizeFrom(SynchronizeFrom(Put(Put(State, s, a), t, b), s), t))
  BY <1>1, <1>3, <1>4, OtherWinsInBoth
<1>12. Full(SynchronizeFrom(SynchronizeFrom(Put(Put(State, s, c), t, e), s), t))
  BY <1>1, <1>6, <1>7, <1>10, OtherWinsInBoth
<1> QED BY <1>5, <1>9, <1>11, <1>12 DEF x, y, z

LEMMA SwapWindowKeeps ==
  ASSUME Calm, Full(State), NEW s \in Session, NEW t \in Session, SwapWindow(s, t)
  PROVE  (Calm /\ Full(State))'
<1>1. PICK i \in Linked(sess[s]), d \in BOOLEAN : \E j \in Linked(sess[t]) :
        LET v == sess[s].win[i]
            w == sess[t].win[j]
            x == Exchanged(State, s, i, t, j)
            y == Put(x, t, SetCurrent(x.sess[t], j))
            z == IF s = t THEN y ELSE Put(y, s, SetCurrent(y.sess[s], i))
            from == SynchronizeFrom(IF d THEN z ELSE x, s)
        IN /\ "again" \in Uses \/ s = t
              \/ (v \notin Range(sess[t].win) /\ w \notin Range(sess[s].win))
           /\ Become(IF s = t THEN from ELSE SynchronizeFrom(from, t))
  BY DEF SwapWindow
<1>2. PICK j \in Linked(sess[t]) :
        LET v == sess[s].win[i]
            w == sess[t].win[j]
            x == Exchanged(State, s, i, t, j)
            y == Put(x, t, SetCurrent(x.sess[t], j))
            z == IF s = t THEN y ELSE Put(y, s, SetCurrent(y.sess[s], i))
            from == SynchronizeFrom(IF d THEN z ELSE x, s)
        IN /\ "again" \in Uses \/ s = t
              \/ (v \notin Range(sess[t].win) /\ w \notin Range(sess[s].win))
           /\ Become(IF s = t THEN from ELSE SynchronizeFrom(from, t))
  BY <1>1
<1> DEFINE x == Exchanged(State, s, i, t, j)
           y == Put(x, t, SetCurrent(x.sess[t], j))
           z == Put(y, s, SetCurrent(y.sess[s], i))
<1>3. CASE s = t
  <2> DEFINE u == SynchronizeFrom(IF d THEN y ELSE x, s)
  <2>1. Become(u)
    BY <1>2, <1>3
  <2>2. Full(u)
    BY <1>3, SwapWithinKeeps
  <2> HIDE DEF u
  <2> QED BY <2>1, <2>2, Becoming
<1>4. CASE s # t
  <2> DEFINE u == SynchronizeFrom(SynchronizeFrom(IF d THEN z ELSE x, s), t)
  <2>1. Become(u)
    BY <1>2, <1>4
  <2>2. Full(u)
    <3>1. /\ ~SameGroup(State, s, t)
          /\ \/ "again" \in Uses
             \/ sess[s].win[i] \notin Range(sess[t].win) /\ sess[t].win[j] \notin Range(sess[s].win)
      BY <1>2, <1>4 DEF SwapWindow
    <3> QED BY <1>4, <3>1, SwapBetweenKeeps
  <2> HIDE DEF u
  <2> QED BY <2>1, <2>2, Becoming
<1> QED BY <1>3, <1>4

-----------------------------------------------------------------------------
(***************************************************************************)
(* Every step, and what follows.                                           *)
(***************************************************************************)
IInv == Calm /\ Full(State)

LEMMA Starts == Init /\ Calm => IInv
<1> SUFFICES ASSUME Init, Calm PROVE Full(State)
  BY DEF IInv
<1>1. /\ State.sess = [s \in Session |-> Dead] /\ State.groups = [n \in Session |-> <<>>]
      /\ State.att = [c \in Client |-> None] /\ State.noted = {}
      /\ State = [sess |-> sess, groups |-> groups, att |-> att, noted |-> noted]
  BY DEF Init, State
<1>2. State \in States
  BY <1>1, DeadIs DEF States, Init
<1>3. SessOk(State, {})
  BY <1>1, DeadIs DEF SessOk
<1>4. GroupsOf(State, {}) /\ Homes(State)
  <2>1. Groups(State) = {}
    BY <1>1 DEF Groups
  <2>2. \A n \in Session : ToSet(State.groups[n]) = {}
    BY <1>1 DEF ToSet
  <2> QED BY <1>1, <2>1, <2>2 DEF GroupsOf, Homes
<1> QED BY <1>2, <1>3, <1>4 DEF Full, Loose

LEMMA StepKeeps == IInv /\ [Next]_vars => IInv'
<1> SUFFICES ASSUME Calm, Full(State), [Next]_vars PROVE (Calm /\ Full(State))'
  BY DEF IInv
<1>1. ASSUME NEW s \in Session, NEW c \in Client \cup {None}, NewSession(s, c)
      PROVE  (Calm /\ Full(State))'
  BY <1>1, NewSessionKeeps
<1>2. ASSUME NEW s \in Session,
             \/ NewWindow(s) \/ NewWindowFails(s) \/ BreakPane(s) \/ MoveWindowR(s)
             \/ KillWindow(s) \/ KillOtherWindows(s) \/ TreeSwap(s) \/ SelectWindow(s)
             \/ KillSession(s) \/ KillOtherSessions(s)
      PROVE  (Calm /\ Full(State))'
  BY <1>2, NewWindowKeeps, NewWindowFailsKeeps, BreakPaneKeeps, MoveWindowRKeeps, KillWindowKeeps,
     KillOtherWindowsKeeps, TreeSwapKeeps, SelectWindowKeeps, KillSessionKeeps,
     KillOtherSessionsKeeps
<1>3. ASSUME NEW s \in Session, NEW t \in Session, LinkOrMove(s, t) \/ SwapWindow(s, t)
      PROVE  (Calm /\ Full(State))'
  BY <1>3, LinkOrMoveKeeps, SwapWindowKeeps
<1>4. ASSUME NEW s \in Session, NEW i \in Indexes, NEW kill \in BOOLEAN, UnlinkWindow(s, i, kill)
      PROVE  (Calm /\ Full(State))'
  BY <1>4, UnlinkWindowKeeps
<1>5. ASSUME NEW s \in Session, NEW c \in Client, SwitchClient(c, s) PROVE (Calm /\ Full(State))'
  BY <1>5, SwitchClientKeeps
<1>6. ASSUME NEW c \in Client, Lose(c) PROVE (Calm /\ Full(State))'
  BY <1>6, LoseKeeps
<1>7. ASSUME NEW w \in Window, Notified(w) PROVE (Calm /\ Full(State))'
  BY <1>7, NotifiedKeeps
<1>8. CASE UNCHANGED vars
  <2>1. State' = State /\ UNCHANGED instance
    BY <1>8 DEF vars, State
  <2> QED BY <2>1, StillFull
<1> QED BY <1>1, <1>2, <1>3, <1>4, <1>5, <1>6, <1>7, <1>8 DEF Next

LEMMA Always == Spec /\ Calm => []IInv
<1> QED BY Starts, StepKeeps, PTL DEF Spec

LEMMA CountOf ==
  ASSUME NEW T, NEW q \in Seq(T), Uniq(q)
  PROVE  Cardinality(ToSet(q)) = Len(q) /\ IsFiniteSet(ToSet(q))
<1> DEFINE f == [k \in 1..Len(q) |-> q[k]]
<1>1. Len(q) \in Nat /\ ToSet(q) = {q[k] : k \in 1..Len(q)}
  BY SeqFacts
<1>2. f \in Bijection(1..Len(q), ToSet(q))
  BY <1>1 DEF Uniq, Bijection, Injection, IsInjective, Surjection
<1>3. ExistsBijection(1..Len(q), ToSet(q))
  BY <1>2 DEF ExistsBijection
<1>4. Cardinality(ToSet(q)) = Len(q)
  BY <1>1, <1>3, FS_CountingElements
<1>5. IsFiniteSet(1..Len(q))
  <2> HIDE DEF f
  <2>1. 1 \in Int /\ Len(q) \in Int
    BY <1>1
  <2> QED BY <2>1, FS_Interval
<1> QED BY <1>3, <1>4, <1>5, FS_Bijection

LEMMA Points == IInv => SessionsSound
<1> SUFFICES ASSUME Calm, Full(State) PROVE SessionsSound
  BY DEF IInv
<1>1. State \in States /\ sess \in [Session -> Recs] /\ groups \in [Session -> Seq(Session)]
      /\ att \in [Client -> Session \cup {None}] /\ noted \in SUBSET Window
  BY AtFirst DEF States
<1>2. ASSUME NEW s \in Session
      PROVE  /\ Linked(sess[s]) \subseteq Indexes /\ Range(sess[s].win) \subseteq Window
             /\ sess[s].alive \in BOOLEAN /\ sess[s].cur \in Indexes \cup {None, Freed}
             /\ sess[s].last \in Seq(Indexes) /\ (~sess[s].alive => sess[s] = Dead)
             /\ sess[s].alive => Sound(sess[s])
  <2>1. sess[s] \in Recs
    BY <1>1
  <2>2. Linked(sess[s]) \subseteq Indexes /\ Range(sess[s].win) \subseteq Window
    BY <2>1, Facts, WindowsOf
  <2>3. (~sess[s].alive => sess[s] = Dead) /\ (sess[s].alive => Sound(sess[s]))
    BY AtFirst
  <2> QED BY <2>1, <2>2, <2>3 DEF Recs
<1>3. TypeOK
  BY <1>1, <1>2 DEF TypeOK
<1>4. CurrentExists
  BY <1>2 DEF CurrentExists, Living, Sound
<1>5. LastStackSound
  <2> SUFFICES ASSUME NEW s \in Session, sess[s].alive
               PROVE  /\ ToSet(sess[s].last) \subseteq Linked(sess[s]) \ {sess[s].cur}
                      /\ Len(sess[s].last) = Cardinality(ToSet(sess[s].last))
    BY DEF LastStackSound, Living
  <2>1. sess[s].last \in Seq(Indexes) /\ LastSound(sess[s])
    BY <1>2 DEF Sound
  <2> QED BY <2>1, CountOf DEF LastSound
<1> QED BY <1>3, <1>4, <1>5 DEF SessionsSound

LEMMA Shares == IInv => GroupsShare
<1> SUFFICES ASSUME Calm, Full(State) PROVE GroupsShare
  BY DEF IInv
<1>1. /\ State \in States /\ State.groups = groups /\ State.sess = sess /\ GroupsOf(State, {})
  BY AtFirst DEF Full, Loose
<1>2. ASSUME NEW n \in Session
      PROVE  LET g == groups[n] IN
             /\ ToSet(g) \subseteq Living /\ Cardinality(ToSet(g)) = Len(g)
             /\ \A s \in ToSet(g) : sess[s].win = sess[Head(g)].win
  <2> DEFINE g == groups[n]
  <2>1. CASE g = <<>>
    <3>1. ToSet(g) = {} /\ Len(g) = 0
      BY <2>1 DEF ToSet
    <3>2. Cardinality(ToSet(g)) = 0
      BY <3>1, FS_EmptySet
    <3> QED BY <3>1, <3>2
  <2>2. CASE g # <<>>
    <3>0. g \in Groups(State)
      BY <1>1, <2>2 DEF Groups
    <3> HIDE DEF g
    <3>1. g \in Seq(Session) /\ ToSet(g) \subseteq Session
      BY <1>1, <3>0, GroupFacts
    <3>2. Uniq(g) /\ \A s \in ToSet(g) : sess[s].alive
      BY <1>1, <3>0 DEF GroupsOf
    <3>3. Head(g) \in ToSet(g)
      BY <2>2, <3>1, HeadIs
    <3>4. Share(State, g)
      BY <1>1, <3>0, <3>3 DEF GroupsOf
    <3>5. Cardinality(ToSet(g)) = Len(g)
      BY <3>1, <3>2, CountOf
    <3> QED BY <1>1, <3>1, <3>2, <3>3, <3>4, <3>5 DEF Living, Share, g
  <2> QED BY <2>1, <2>2
<1>3. \A m, n \in Session : m # n => ToSet(groups[m]) \cap ToSet(groups[n]) = {}
  BY <1>1 DEF GroupsOf
<1> QED BY <1>2, <1>3 DEF GroupsShare

LEMMA Houses == IInv => ClientsOnLiveSessions
BY AtFirst DEF IInv, ClientsOnLiveSessions, Living

\* The winlinks to a window that is linked at one index in all sessions of one
\* group, and nowhere else, are as many as the sessions.
LEMMA OneEach ==
  ASSUME NEW G, IsFiniteSet(G), NEW i
  PROVE  Cardinality({<<s, i>> : s \in G}) = Cardinality(G)
<1> DEFINE f == [s \in G |-> <<s, i>>]
           L == {<<s, i>> : s \in G}
<1>1. f \in Bijection(G, L)
  BY DEF Bijection, Injection, IsInjective, Surjection
<1>2. ExistsBijection(G, L)
  BY <1>1 DEF ExistsBijection
<1> HIDE DEF L
<1>3. Cardinality(L) = Cardinality(G)
  BY <1>2, FS_Bijection
<1> QED BY <1>3 DEF L

LEMMA Pair ==
  ASSUME NEW a, NEW b
  PROVE  IsFiniteSet({a, b})
<1>1. IsFiniteSet({a})
  BY FS_Singleton
<1>2. IsFiniteSet({a} \cup {b})
  BY <1>1, FS_AddElement
<1>3. {a, b} = {a} \cup {b}
  OBVIOUS
<1> QED BY <1>2, <1>3

LEMMA HowMany ==
  ASSUME Calm, Full(State), NEW s \in Session
  PROVE  /\ IsFiniteSet(Group(State, s))
         /\ Cardinality(Group(State, s)) = Max({1, Len(GroupOf(State, s))})
<1> DEFINE q == GroupOf(State, s)
           n == Len(q)
<1>1. /\ q = <<>> \/ (Uniq(q) /\ s \in ToSet(q))
      /\ q \in Seq(Session)
      /\ Mates(State, s) = ToSet(q) \ {s}
  <2>1. State \in States /\ GroupsOf(State, {})
    BY DEF Full, Loose
  <2>2. /\ q = <<>> \/ (q \in Groups(State) /\ s \in ToSet(q))
        /\ q \in Seq(Session) /\ Mates(State, s) = ToSet(q) \ {s}
    BY <2>1, GroupOfIs
  <2> HIDE DEF q
  <2> QED BY <2>1, <2>2 DEF GroupsOf
<1> HIDE DEF q
<1>2. CASE q = <<>>
  <2>1. ToSet(q) = {} /\ n = 0
    BY <1>2 DEF ToSet
  <2>2. Group(State, s) = {s}
    BY <1>1, <2>1 DEF Group
  <2>3. Max({1, n}) = 1
    <3>1. IsFiniteSet({1, 0})
      BY Pair
    <3>2. Max({1, 0}) \in {1, 0} /\ \A y \in {1, 0} : Max({1, 0}) >= y
      BY <3>1, MaxOf
    <3> QED BY <2>1, <3>2
  <2> QED BY <2>2, <2>3, FS_Singleton DEF q
<1>3. CASE q # <<>>
  <2>1. Group(State, s) = ToSet(q)
    BY <1>1, <1>3 DEF Group
  <2>2. IsFiniteSet(ToSet(q)) /\ Cardinality(ToSet(q)) = n
    BY <1>1, <1>3, CountOf
  <2>3. n \in Nat \ {0}
    BY <1>1, <1>3, HeadIs, SeqFacts
  <2>4. Max({1, n}) = n
    <3> HIDE DEF n
    <3>1. IsFiniteSet({1, n})
      BY Pair
    <3>2. Max({1, n}) \in {1, n} /\ \A y \in {1, n} : Max({1, n}) >= y
      BY <2>3, <3>1, MaxOf
    <3> QED BY <2>3, <3>2
  <2> QED BY <2>1, <2>2, <2>4 DEF q
<1> QED BY <1>2, <1>3

LEMMA Stays == IInv => QuietUnlinkKeepsWindows
<1> SUFFICES ASSUME Calm, Full(State), NEW s \in Living, NEW i \in Linked(sess[s]),
                    IsLinked(s, sess[s].win[i]), sess[s].win[i] \notin noted,
                    ~StaysLinked(s, i)
             PROVE  FALSE
  BY DEF IInv, QuietUnlinkKeepsWindows
<1> DEFINE w == sess[s].win[i]
           G == Group(State, s)
           L == {l \in Session \X Indexes : l[2] \in Links(sess[l[1]], w)}
<1>1. s \in Session /\ sess[s].alive /\ State.sess = sess
  BY StateIs DEF Living
<1>2. Whole(State, s) /\ G \subseteq Session /\ sess \in [Session -> Recs]
  <2>1. State \in States /\ GroupsOf(State, {}) /\ Whole(State, s)
    BY <1>1, WholeGroup DEF Full, Loose
  <2> QED BY <1>1, <2>1, GroupIs, AtFirst
<1>3. \A x \in Session : \A j \in Links(sess[x], w) : j = i /\ x \in G
  BY DEF StaysLinked, Group
<1>4. \A x \in G : i \in Links(sess[x], w)
  <2> SUFFICES ASSUME NEW x \in G PROVE i \in Links(sess[x], w)
    OBVIOUS
  <2>1. sess[x].win = sess[s].win
    BY <1>1, <1>2 DEF Whole
  <2> QED BY <2>1 DEF Links, Linked
<1>5. i \in Indexes
  BY <1>1, <1>2, Facts
<1> HIDE DEF G, w
<1>6. L = {<<x, i>> : x \in G}
  BY <1>2, <1>3, <1>4, <1>5
<1>7. Cardinality(L) # Max({1, Len(GroupOf(State, s))})
  BY DEF IsLinked, w
<1> HIDE DEF L
<1>8. IsFiniteSet(G) /\ Cardinality(G) = Max({1, Len(GroupOf(State, s))})
  BY <1>1, HowMany DEF G
<1>9. Cardinality(L) = Cardinality(G)
  BY <1>6, <1>8, OneEach
<1> QED BY <1>7, <1>8, <1>9

\* Whatever sequence of commands, with whatever targets, and however many
\* sessions, windows, indexes and clients: a session that is alive has a
\* current window, its stack of last windows is sound, and what has been freed
\* is not pointed to. Like the theorems below this is said of behaviours
\* without what Calm leaves out.
THEOREM PointersAreSound == Spec /\ Calm => []SessionsSound
BY Always, Points, PTL

\* After every command the sessions of a group have the same windows at the
\* same indexes, all of them are alive, and groups have no session in common,
\* also where a session joins a group that has outlived the one it is named
\* after; not where that one has been made again and starts a group itself.
THEOREM GroupsDoShare == Spec /\ Calm => []GroupsShare
BY Always, Shares, PTL

\* No client is left on a session that has been destroyed, each client with
\* or without the flag no-detach-on-destroy; not where some clients of one
\* session have it and others not while destroy-unattached is on.
THEOREM ClientsHaveSessions == Spec /\ Calm => []ClientsOnLiveSessions
BY Always, Houses, PTL

\* Where unlink-window is allowed without -k and no notification is queued,
\* a link to the window stays: counting references tells the truth about
\* groups of any size.
THEOREM WindowsStay == Spec /\ Calm => []QuietUnlinkKeepsWindows
BY Always, Stays, PTL
=============================================================================
