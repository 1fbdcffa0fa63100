---------------------------- MODULE ControlProofs --------------------------
(***************************************************************************)
(* Proofs about ControlOutput, for any number of panes and clients, any    *)
(* sizes of buffers, messages and watermarks: what a control mode client   *)
(* is owed of a pane is in its blocks and in the buffer of the pane.       *)
(*                                                                         *)
(* The inductive invariant, Owes, says of one client at a time what the    *)
(* events, the commands and the loop make of it (Fits, Waits). It counts   *)
(* the bytes of the blocks of a pane: for a client whose offset holds the  *)
(* buffer they are those between its two offsets, or fewer once the pane   *)
(* has gone and control_write_pending has left some out. The folds of      *)
(* control_write_pending and control_write_callback are followed one       *)
(* block and one round at a time, by counting the steps.                   *)
(***************************************************************************)
EXTENDS ControlOutput, FiniteSetTheorems, WellFoundedInduction, TLAPS

-----------------------------------------------------------------------------
(***************************************************************************)
(* Greatest and least numbers, and what FoldLeft computes.                 *)
(***************************************************************************)
\* Of the sets in T one has no other one of T inside it.
Smallest(x, T) == x \in T /\ \A y \in T : ~(y \subseteq x /\ y # x)

\* A set of parts of a finite set has one.
LEMMA HasSmallest ==
  ASSUME NEW S, IsFiniteSet(S), NEW T, T \subseteq SUBSET S, T # {}
  PROVE  \E x : Smallest(x, T)
<1>1. IsWellFoundedOn(StrictSubsetOrdering(S), FiniteSubsetsOf(S))
  BY FS_StrictSubsetOrderingWellFounded
<1>2. T \subseteq FiniteSubsetsOf(S)
  BY FS_Subset DEF FiniteSubsetsOf
<1>3. \E x \in T : \A y \in T : ~(<<y, x>> \in StrictSubsetOrdering(S))
  BY <1>1, <1>2, WFMin
<1> QED BY <1>3 DEF StrictSubsetOrdering, Smallest

\* Finite sets have a greatest and a least number.
LEMMA MaxOf ==
  ASSUME NEW S, IsFiniteSet(S), S \subseteq Int, S # {}
  PROVE  Max(S) \in S /\ \A y \in S : Max(S) >= y
<1> DEFINE T == {t \in SUBSET S : t # {} /\ ~\E x \in t : \A y \in t : x >= y}
<1>1. SUFFICES ASSUME T # {} PROVE FALSE
  <2>1. \E x \in S : \A y \in S : x >= y
    BY <1>1
  <2> QED BY <2>1 DEF Max
<1>2. PICK t : Smallest(t, T)
  <2> HIDE DEF T
  <2>1. T \subseteq SUBSET S
    BY DEF T
  <2> QED BY <1>1, <2>1, HasSmallest, Zenon
<1>3. PICK z \in t : TRUE
  BY <1>2 DEF Smallest
<1>4. t \ {z} # {} /\ t \in T
  BY <1>2, <1>3 DEF Smallest
<1>5. t \ {z} \notin T /\ t \ {z} \in SUBSET S
  BY <1>2, <1>3, <1>4 DEF Smallest
<1>9. PICK x \in t \ {z} : \A y \in t \ {z} : x >= y
  BY <1>4, <1>5
<1>6. x \in Int /\ z \in Int /\ t \subseteq Int
  BY <1>4
<1>7. CASE x >= z
  BY <1>4, <1>9, <1>6, <1>7
<1>8. CASE ~(x >= z)
  <2>1. \A y \in t : z >= y
    BY <1>9, <1>6, <1>8
  <2> QED BY <1>4, <2>1
<1> QED BY <1>7, <1>8

LEMMA MinOf ==
  ASSUME NEW S, IsFiniteSet(S), S \subseteq Int, S # {}
  PROVE  Min(S) \in S /\ \A y \in S : Min(S) <= y
<1> DEFINE T == {t \in SUBSET S : t # {} /\ ~\E x \in t : \A y \in t : x <= y}
<1>1. SUFFICES ASSUME T # {} PROVE FALSE
  <2>1. \E x \in S : \A y \in S : x <= y
    BY <1>1
  <2> QED BY <2>1 DEF Min
<1>2. PICK t : Smallest(t, T)
  <2> HIDE DEF T
  <2>1. T \subseteq SUBSET S
    BY DEF T
  <2> QED BY <1>1, <2>1, HasSmallest, Zenon
<1>3. PICK z \in t : TRUE
  BY <1>2 DEF Smallest
<1>4. t \ {z} # {} /\ t \in T
  BY <1>2, <1>3 DEF Smallest
<1>5. t \ {z} \notin T /\ t \ {z} \in SUBSET S
  BY <1>2, <1>3, <1>4 DEF Smallest
<1>9. PICK x \in t \ {z} : \A y \in t \ {z} : x <= y
  BY <1>4, <1>5
<1>6. x \in Int /\ z \in Int /\ t \subseteq Int
  BY <1>4
<1>7. CASE x <= z
  BY <1>4, <1>9, <1>6, <1>7
<1>8. CASE ~(x <= z)
  <2>1. \A y \in t : z <= y
    BY <1>9, <1>6, <1>8
  <2> QED BY <1>4, <2>1
<1> QED BY <1>7, <1>8

LEMMA MaxIs ==
  ASSUME NEW S, S \subseteq Int, NEW m \in S, \A y \in S : m >= y
  PROVE  Max(S) = m
<1>1. Max(S) \in S /\ \A y \in S : Max(S) >= y
  BY DEF Max
<1>2. Max(S) >= m /\ m >= Max(S) /\ Max(S) \in Int /\ m \in Int
  BY <1>1
<1> QED BY <1>2

LEMMA MaxIn ==
  ASSUME NEW n \in Nat, NEW s \in SUBSET (1..n), s # {}
  PROVE  Max(s) \in s /\ Max(s) \in 1..n /\ s \ {Max(s)} \in SUBSET (1..n)
<1>1. IsFiniteSet(1..n) /\ s \subseteq 1..n /\ s \subseteq Int
  BY FS_Interval
<1>2. IsFiniteSet(s)
  BY <1>1, FS_Subset, Zenon
<1>3. Max(s) \in s
  BY <1>1, <1>2, MaxOf
<1> QED BY <1>1, <1>3

\* What holds at first and is kept by each of n steps holds after them.
LEMMA Steps ==
  ASSUME NEW n \in Nat, NEW P, 0 \in P, \A k \in 1..n : k - 1 \in P => k \in P
  PROVE  n \in P
<1> DEFINE T == {t \in SUBSET (1..n) : \E k \in 1..n : t = 1..k /\ k \notin P}
<1>1. SUFFICES ASSUME n \notin P PROVE FALSE
  OBVIOUS
<1>2. 1..n \in T
  <2>1. n \in 1..n
    BY <1>1
  <2> QED BY <1>1, <2>1
<1>3. PICK t : Smallest(t, T)
  <2> HIDE DEF T
  <2>1. T \subseteq SUBSET (1..n) /\ T # {}
    BY <1>2 DEF T
  <2>2. IsFiniteSet(1..n)
    BY FS_Interval
  <2> QED BY <2>1, <2>2, HasSmallest, Zenon
<1>4. PICK k \in 1..n : t = 1..k /\ k \notin P
  BY <1>3 DEF Smallest
<1>5. k - 1 \notin P /\ k - 1 \in 1..n
  BY <1>4
<1>6. 1..(k - 1) \in T /\ k \in 1..k /\ k \notin 1..(k - 1)
  BY <1>5
<1>7. 1..(k - 1) \subseteq 1..k
  OBVIOUS
<1> QED BY <1>3, <1>4, <1>6, <1>7 DEF Smallest

\* g is what FoldLeft computes for each part of a sequence of length n, where
\* G maps a position and a value to the next value.
Solves(g, n, st, G) ==
  g = [s \in SUBSET (1..n) |-> IF s = {} THEN st ELSE G[<<Max(s), g[s \ {Max(s)}]>>]]

\* There is such a function, so a fold is one.
LEMMA Solvable ==
  ASSUME NEW n \in Nat, NEW st, NEW G
  PROVE  \E g : Solves(g, n, st, G)
<1> DEFINE Value(g, s) == IF s = {} THEN st ELSE G[<<Max(s), g[s \ {Max(s)}]>>]
           Ok(t) == \E g : g = [s \in SUBSET t |-> Value(g, s)]
           T == {t \in SUBSET (1..n) : ~Ok(t)}
<1>1. SUFFICES ASSUME T # {} PROVE FALSE
  <2>1. Ok(1..n)
    BY <1>1
  <2> QED BY <2>1, Zenon DEF Solves
<1>2. PICK t : Smallest(t, T)
  <2> HIDE DEF T
  <2>1. T \subseteq SUBSET (1..n)
    BY DEF T
  <2>2. IsFiniteSet(1..n)
    BY FS_Interval
  <2> QED BY <1>1, <2>1, <2>2, HasSmallest, Zenon
<1>3. t # {}
  <2>1. SUFFICES ASSUME t = {} PROVE Ok(t)
    BY <1>2 DEF Smallest
  <2> DEFINE g == [s \in SUBSET {} |-> st]
  <2>2. g = [s \in SUBSET t |-> Value(g, s)]
    BY <2>1
  <2> QED BY <2>2
<1> DEFINE x == Max(t)
           u == t \ {x}
<1>4. x \in t /\ t \subseteq Int /\ \A y \in t : x >= y
  <2>1. IsFiniteSet(1..n) /\ t \subseteq 1..n
    BY <1>2, FS_Interval DEF Smallest
  <2>2. IsFiniteSet(t)
    BY <2>1, FS_Subset, Zenon
  <2>3. t \subseteq Int
    BY <2>1
  <2> QED BY <1>3, <2>2, <2>3, MaxOf
<1>5. Ok(u)
  <2>1. u \subseteq t /\ u # t /\ u \in SUBSET (1..n)
    BY <1>2, <1>4 DEF Smallest
  <2>2. u \notin T
    BY <1>2, <2>1 DEF Smallest
  <2> QED BY <2>1, <2>2
<1>6. PICK g : g = [s \in SUBSET u |-> Value(g, s)]
  BY <1>5
<1> DEFINE h == [s \in SUBSET t |-> IF x \in s THEN G[<<x, g[s \ {x}]>>] ELSE g[s]]
<1>7. \A s \in SUBSET t : h[s] = Value(h, s)
  <2> SUFFICES ASSUME NEW s \in SUBSET t PROVE h[s] = Value(h, s)
    OBVIOUS
  <2>1. CASE x \in s
    <3>1. Max(s) = x
      BY <1>4, <2>1, MaxIs
    <3>2. h[s \ {x}] = g[s \ {x}]
      OBVIOUS
    <3> QED BY <2>1, <3>1, <3>2
  <2>2. CASE x \notin s
    <3>1. h[s] = g[s] /\ g[s] = Value(g, s)
      BY <1>6, <2>2
    <3>2. CASE s = {}
      BY <3>1, <3>2
    <3>3. CASE s # {}
      <4>1. x \notin s \ {Max(s)} /\ s \ {Max(s)} \in SUBSET t
        BY <2>2
      <4>2. h[s \ {Max(s)}] = g[s \ {Max(s)}]
        BY <4>1
      <4> QED BY <3>1, <3>3, <4>2
    <3> QED BY <3>2, <3>3
  <2> QED BY <2>1, <2>2
<1>8. h = [s \in SUBSET t |-> Value(h, s)]
  BY <1>7
<1>9. t \in T
  BY <1>2 DEF Smallest
<1> HIDE DEF h
<1> QED BY <1>8, <1>9

\* Values that stay in S, which a fold computes with a function on S.
LEMMA SolvedIn ==
  ASSUME NEW n \in Nat, NEW S, NEW st \in S, NEW G \in [(1..n) \X S -> S],
         NEW g, Solves(g, n, st, G)
  PROVE  \A s \in SUBSET (1..n) : g[s] \in S
<1> DEFINE T == {t \in SUBSET (1..n) : g[t] \notin S}
<1>1. SUFFICES ASSUME T # {} PROVE FALSE
  OBVIOUS
<1>2. PICK t : Smallest(t, T)
  <2> HIDE DEF T
  <2>1. T \subseteq SUBSET (1..n)
    BY DEF T
  <2>2. IsFiniteSet(1..n)
    BY FS_Interval
  <2> QED BY <1>1, <2>1, <2>2, HasSmallest, Zenon
<1>3. t # {} /\ t \in T
  BY <1>2 DEF Solves, Smallest
<1>4. Max(t) \in t
  <2>1. IsFiniteSet(1..n) /\ t \subseteq 1..n
    BY <1>2, FS_Interval DEF Smallest
  <2>2. IsFiniteSet(t)
    BY <2>1, FS_Subset, Zenon
  <2>3. t \subseteq Int
    BY <2>1
  <2> QED BY <1>3, <2>2, <2>3, MaxOf
<1>5. g[t \ {Max(t)}] \in S
  <2>1. t \ {Max(t)} \subseteq t /\ t \ {Max(t)} # t /\ t \ {Max(t)} \in SUBSET (1..n)
    BY <1>3, <1>4
  <2> QED BY <1>2, <2>1 DEF Smallest
<1>6. g[t] = G[<<Max(t), g[t \ {Max(t)}]>>]
  BY <1>3 DEF Solves
<1>7. Max(t) \in 1..n
  BY <1>3, <1>4
<1> QED BY <1>3, <1>5, <1>6, <1>7

LEMMA UpTo ==
  ASSUME NEW k \in Nat, k # 0
  PROVE  Max(1..k) = k /\ (1..k) \ {k} = 1..(k - 1) /\ 1..k # {}
<1>1. k \in 1..k /\ 1..k \subseteq Int /\ \A y \in 1..k : k >= y
  OBVIOUS
<1>2. Max(1..k) = k
  BY <1>1, MaxIs
<1>3. (1..k) \ {k} = 1..(k - 1)
  OBVIOUS
<1> QED BY <1>1, <1>2, <1>3

\* A fold that starts with st and follows G while it is in S; what each step
\* leaves done, and no later one undoes.
Follows(h, n, st, S, G) ==
  h[{}] = st /\ \A k \in 1..n : h[1..(k - 1)] \in S => h[1..k] = G[<<k, h[1..(k - 1)]>>]

Leaves(R, n, S, G) ==
  \A k \in 1..n : \A x \in S :
    /\ <<k, G[<<k, x>>]>> \in R
    /\ \A j \in 1..(k - 1) : <<j, x>> \in R => <<j, G[<<k, x>>]>> \in R

LEMMA FoldKeeps ==
  ASSUME NEW n \in Nat, NEW S, NEW st \in S, NEW G \in [(1..n) \X S -> S],
         NEW h, Follows(h, n, st, S, G), NEW R, Leaves(R, n, S, G)
  PROVE  h[1..n] \in S /\ \A k \in 1..n : <<k, h[1..n]>> \in R
<1> DEFINE P == {k \in 0..n : h[1..k] \in S /\ \A j \in 1..k : <<j, h[1..k]>> \in R}
<1>1. 0 \in P
  <2>1. 1..0 = {}
    OBVIOUS
  <2> QED BY <2>1 DEF Follows
<1>2. ASSUME NEW k \in 1..n, k - 1 \in P PROVE k \in P
  <2>1. h[1..(k - 1)] \in S /\ \A j \in 1..(k - 1) : <<j, h[1..(k - 1)]>> \in R
    BY <1>2
  <2>2. h[1..k] = G[<<k, h[1..(k - 1)]>>]
    BY <2>1 DEF Follows
  <2>3. h[1..k] \in S
    BY <2>1, <2>2
  <2>4. <<k, h[1..k]>> \in R /\ \A j \in 1..(k - 1) : <<j, h[1..k]>> \in R
    BY <2>1, <2>2 DEF Leaves
  <2>5. \A j \in 1..k : j = k \/ j \in 1..(k - 1)
    OBVIOUS
  <2> QED BY <2>3, <2>4, <2>5
<1>3. n \in P
  <2> HIDE DEF P
  <2> QED BY <1>1, <1>2, Steps
<1> QED BY <1>3

-----------------------------------------------------------------------------
(***************************************************************************)
(* Sequences, and the part of one that is kept.                            *)
(***************************************************************************)
Uniq(q) == \A j, k \in 1..Len(q) : q[j] = q[k] => j = k

LEMMA SeqFacts ==
  ASSUME NEW T, NEW q \in Seq(T)
  PROVE  /\ Len(q) \in Nat /\ DOMAIN q = 1..Len(q)
         /\ ToSet(q) = {q[k] : k \in 1..Len(q)} /\ ToSet(q) \subseteq T
         /\ \A k \in 1..Len(q) : q[k] \in T
  BY DEF ToSet

LEMMA AppendIs ==
  ASSUME NEW T, NEW q \in Seq(T), NEW x \in T
  PROVE  /\ Append(q, x) \in Seq(T)
         /\ ToSet(Append(q, x)) = ToSet(q) \cup {x}
         /\ Uniq(q) /\ x \notin ToSet(q) => Uniq(Append(q, x))
<1> DEFINE r == Append(q, x)
<1>1. /\ r \in Seq(T) /\ Len(r) = Len(q) + 1 /\ r[Len(q) + 1] = x
      /\ \A k \in 1..Len(q) : r[k] = q[k]
  OBVIOUS
<1> HIDE DEF r
<1>2. /\ Len(q) \in Nat /\ ToSet(q) = {q[k] : k \in 1..Len(q)}
      /\ ToSet(r) = {r[k] : k \in 1..(Len(q) + 1)}
  BY <1>1, SeqFacts
<1>3. ToSet(r) = ToSet(q) \cup {x}
  BY <1>1, <1>2
<1>4. ASSUME Uniq(q), x \notin ToSet(q) PROVE Uniq(r)
  BY <1>1, <1>2, <1>4 DEF Uniq
<1> QED BY <1>1, <1>3, <1>4 DEF r

\* Sorted lists each number of a finite set once: how many are not greater
\* than one is its place.
LEMMA InOrder ==
  ASSUME NEW I, IsFiniteSet(I), I \subseteq Int
  PROVE  /\ Cardinality(I) \in Nat /\ DOMAIN Sorted(I) = 1..Cardinality(I)
         /\ Sorted(I) \in Seq(I) /\ Len(Sorted(I)) = Cardinality(I)
         /\ \A n \in 1..Cardinality(I) : Sorted(I)[n] \in I
         /\ \A m, n \in 1..Cardinality(I) : Sorted(I)[m] = Sorted(I)[n] => m = n
         /\ \A i \in I : \E n \in 1..Cardinality(I) : Sorted(I)[n] = i
         /\ \A m, n \in 1..Cardinality(I) : m < n => Sorted(I)[m] < Sorted(I)[n]
<1> DEFINE N == Cardinality(I)
           UpToIt(i) == {j \in I : j <= i}
           rank == [i \in I |-> Cardinality(UpToIt(i))]
<1>1. N \in Nat
  BY FS_CardinalityType
<1>2. ASSUME NEW i \in I
      PROVE  IsFiniteSet(UpToIt(i)) /\ Cardinality(UpToIt(i)) \in 1..N /\ i \in UpToIt(i)
  <2>1. UpToIt(i) \in SUBSET I /\ i \in UpToIt(i)
    BY <1>2
  <2> HIDE DEF UpToIt
  <2>2. IsFiniteSet(UpToIt(i)) /\ Cardinality(UpToIt(i)) <= N
    BY <2>1, FS_Subset
  <2>3. Cardinality(UpToIt(i)) \in Nat /\ Cardinality(UpToIt(i)) # 0
    <3>1. Cardinality(UpToIt(i)) = 0 <=> UpToIt(i) = {}
      BY <2>2, FS_EmptySet
    <3> QED BY <2>1, <2>2, <3>1, FS_CardinalityType
  <2> QED BY <1>1, <2>1, <2>2, <2>3
<1>3. ASSUME NEW i \in I, NEW j \in I, i < j
      PROVE  Cardinality(UpToIt(i)) < Cardinality(UpToIt(j))
  <2>1. UpToIt(i) \in SUBSET UpToIt(j) /\ j \notin UpToIt(i)
    <3>1. i \in Int /\ j \in Int /\ i < j
      BY <1>3
    <3>2. \A k \in I : k \in Int /\ (k <= i => k <= j)
      BY <3>1
    <3>3. ~(j <= i)
      BY <3>1
    <3> QED BY <3>2, <3>3
  <2>2. j \in UpToIt(j) /\ IsFiniteSet(UpToIt(j))
    BY <1>2
  <2> HIDE DEF UpToIt
  <2>3. /\ Cardinality(UpToIt(i)) <= Cardinality(UpToIt(j))
        /\ Cardinality(UpToIt(i)) # Cardinality(UpToIt(j))
    BY <2>1, <2>2, FS_Subset
  <2>4. Cardinality(UpToIt(i)) \in Nat /\ Cardinality(UpToIt(j)) \in Nat
    BY <1>2
  <2> QED BY <2>3, <2>4
<1> HIDE DEF UpToIt
<1>4. rank \in [I -> 1..N]
  BY <1>2
<1>5. \A i, j \in I : rank[i] = rank[j] => i = j
  <2> SUFFICES ASSUME NEW i \in I, NEW j \in I, rank[i] = rank[j], i # j PROVE FALSE
    OBVIOUS
  <2>1. rank[i] \in Int /\ rank[j] \in Int
    BY <1>4
  <2>2. ~(i < j)
    BY <1>3, <2>1
  <2>3. ~(j < i)
    BY <1>3, <2>1
  <2> QED BY <2>2, <2>3
<1>6. \A n \in 1..N : \E i \in I : rank[i] = n
  <2>1. rank \in Injection(I, 1..N)
    BY <1>4, <1>5 DEF Injection, IsInjective
  <2>2. IsFiniteSet(1..N) /\ Cardinality(1..N) = N
    BY <1>1, FS_Interval
  <2>3. rank \in Surjection(I, 1..N)
    <3> HIDE DEF rank
    <3> QED BY <2>1, <2>2, FS_Injection
  <2> QED BY <2>3 DEF Surjection
<1>7. Sorted(I) = [n \in 1..N |-> CHOOSE i \in I : Cardinality(UpToIt(i)) = n]
  BY DEF Sorted, UpToIt
<1>8. ASSUME NEW n \in 1..N PROVE Sorted(I)[n] \in I /\ rank[Sorted(I)[n]] = n
  <2>1. Sorted(I)[n] = CHOOSE i \in I : Cardinality(UpToIt(i)) = n
    BY <1>7
  <2>2. \E i \in I : Cardinality(UpToIt(i)) = n
    BY <1>6
  <2>3. Sorted(I)[n] \in I /\ Cardinality(UpToIt(Sorted(I)[n])) = n
    BY <2>1, <2>2, Zenon
  <2> QED BY <2>3
<1>12. \A i, j \in I : i < j => rank[i] < rank[j]
  BY <1>3
<1> HIDE DEF rank
<1>13. ASSUME NEW m \in 1..N, NEW n \in 1..N, m < n PROVE Sorted(I)[m] < Sorted(I)[n]
  <2> DEFINE a == Sorted(I)[m]
             b == Sorted(I)[n]
  <2>1. a \in I /\ b \in I /\ rank[a] = m /\ rank[b] = n
    BY <1>8
  <2> HIDE DEF a, b
  <2>2. a \in Int /\ b \in Int /\ a # b
    BY <1>1, <1>13, <2>1
  <2>3. ~(b < a)
    BY <1>1, <1>12, <1>13, <2>1
  <2>4. a < b
    BY <2>2, <2>3
  <2> QED BY <2>4 DEF a, b
<1>9. \A i \in I : Sorted(I)[rank[i]] = i
  BY <1>4, <1>5, <1>8
<1> HIDE DEF N
<1>10. DOMAIN Sorted(I) = 1..N /\ Sorted(I) \in [1..N -> I]
  BY <1>7, <1>8
<1>11. Sorted(I) \in Seq(I) /\ Len(Sorted(I)) = N
  BY <1>1, <1>10
<1> QED BY <1>1, <1>4, <1>8, <1>9, <1>10, <1>11, <1>13 DEF N

\* A part of a sequence, in its order.
LEMMA KeptIs ==
  ASSUME NEW T, NEW q \in Seq(T), NEW D \in SUBSET (DOMAIN q)
  PROVE  /\ Kept(q, D) \in Seq(T)
         /\ ToSet(Kept(q, D)) = {q[k] : k \in D}
         /\ Uniq(q) => Uniq(Kept(q, D))
<1> DEFINE N == Cardinality(D)
           p == Sorted(D)
<1>1. Len(q) \in Nat /\ DOMAIN q = 1..Len(q) /\ \A k \in 1..Len(q) : q[k] \in T
  BY SeqFacts
<1>2. IsFiniteSet(D) /\ D \subseteq Int
  <2>1. IsFiniteSet(1..Len(q)) /\ D \in SUBSET (1..Len(q))
    BY <1>1, FS_Interval
  <2> QED BY <1>1, <2>1, FS_Subset
<1>3. /\ N \in Nat /\ \A n \in 1..N : p[n] \in D
      /\ \A m, n \in 1..N : p[m] = p[n] => m = n
      /\ \A k \in D : \E n \in 1..N : p[n] = k
  BY <1>2, InOrder
<1>4. Kept(q, D) = [n \in 1..N |-> q[p[n]]]
  BY DEF Kept
<1> HIDE DEF N, p
<1>5. \A n \in 1..N : q[p[n]] \in T
  BY <1>1, <1>3
<1>6. Kept(q, D) \in Seq(T) /\ Len(Kept(q, D)) = N
  BY <1>3, <1>4, <1>5
<1>7. ToSet(Kept(q, D)) = {Kept(q, D)[n] : n \in 1..N}
  BY <1>6, SeqFacts
<1>8. ToSet(Kept(q, D)) = {q[k] : k \in D}
  <2>1. \A n \in 1..N : Kept(q, D)[n] = q[p[n]] /\ p[n] \in D
    BY <1>3, <1>4
  <2>2. \A n \in 1..N : Kept(q, D)[n] \in {q[k] : k \in D}
    BY <2>1
  <2>3. ASSUME NEW k \in D PROVE \E n \in 1..N : Kept(q, D)[n] = q[k]
    BY <1>3, <2>1
  <2> QED BY <1>7, <2>2, <2>3
<1>9. Uniq(q) => Uniq(Kept(q, D))
  BY <1>1, <1>3, <1>4, <1>6 DEF Uniq
<1> QED BY <1>6, <1>8, <1>9

-----------------------------------------------------------------------------
(***************************************************************************)
(* Blocks and lines of a client, and the bytes in them.                    *)
(***************************************************************************)
\* What all_blocks holds.
Item == [pane : Pane, size : Nat \ {0}] \cup {Line}

\* Places of the blocks of pane q in s, the bytes in them and how many.
At(s, q) == {k \in DOMAIN s : s[k].pane = q}
BytesAt(s, q) == UNION {{k} \X (1..s[k].size) : k \in At(s, q)}
Owing(s, q) == Cardinality(BytesAt(s, q))

LEMMA Settings ==
  ASSUME ControlAssumption
  PROVE  /\ IsFiniteSet(Pane) /\ IsFiniteSet(Client) /\ None \notin Pane
         /\ Low \in Nat \ {0} /\ High \in Nat \ {0} /\ Minimum \in Nat \ {0}
         /\ MaxBuffer \in Nat \ {0} /\ Low < High
BY DEF ControlAssumption

LEMMA ItemsAre ==
  ASSUME ControlAssumption, NEW s \in Seq(Item)
  PROVE  /\ DOMAIN s = 1..Len(s) /\ Len(s) \in Nat
         /\ \A k \in DOMAIN s : /\ s[k] \in Item /\ s[k].size \in Nat
                                /\ s[k].pane \in Pane <=> s[k] # Line
                                /\ s[k].pane \in Pane => s[k].size # 0
<1>1. DOMAIN s = 1..Len(s) /\ Len(s) \in Nat /\ \A k \in DOMAIN s : s[k] \in Item
  BY SeqFacts
<1>2. ASSUME NEW b \in Item
      PROVE  b.size \in Nat /\ (b.pane \in Pane <=> b # Line) /\ (b.pane \in Pane => b.size # 0)
  <2>1. Line.pane \notin Pane /\ Line.size = 0
    BY Settings DEF Line
  <2> QED BY <2>1 DEF Item
<1> QED BY <1>1, <1>2

LEMMA BytesAre ==
  ASSUME ControlAssumption, NEW s \in Seq(Item), NEW q
  PROVE  /\ IsFiniteSet(BytesAt(s, q)) /\ Owing(s, q) \in Nat
         /\ BytesAt(s, q) = {<<x[1], x[2]>> : x \in BytesAt(s, q)}
         /\ \A k, i : <<k, i>> \in BytesAt(s, q) <=> k \in At(s, q) /\ i \in 1..s[k].size
<1>1. \A k, i : <<k, i>> \in BytesAt(s, q) <=> k \in At(s, q) /\ i \in 1..s[k].size
  BY DEF BytesAt
<1>2. \A x \in BytesAt(s, q) : x = <<x[1], x[2]>>
  BY DEF BytesAt
<1>3. IsFiniteSet(BytesAt(s, q))
  <2> DEFINE K == At(s, q)
             F == {{k} \X (1..s[k].size) : k \in K}
  <2>1. IsFiniteSet(K)
    <3>1. Len(s) \in Nat /\ K \in SUBSET (1..Len(s))
      BY ItemsAre DEF At
    <3>2. IsFiniteSet(1..Len(s))
      BY <3>1, FS_Interval
    <3> QED BY <3>1, <3>2, FS_Subset, Zenon
  <2>2. \A k \in K : IsFiniteSet({k} \X (1..s[k].size))
    <3> SUFFICES ASSUME NEW k \in K PROVE IsFiniteSet({k} \X (1..s[k].size))
      OBVIOUS
    <3>1. s[k].size \in Nat
      BY ItemsAre DEF At
    <3>2. IsFiniteSet({k})
      BY FS_Singleton
    <3>3. IsFiniteSet(1..s[k].size)
      BY <3>1, FS_Interval
    <3> QED BY <3>2, <3>3, FS_Product
  <2>3. IsFiniteSet(F)
    <3> DEFINE g == [k \in K |-> {k} \X (1..s[k].size)]
    <3>1. g \in Surjection(K, F)
      BY DEF Surjection
    <3> HIDE DEF g, F, K
    <3> QED BY <2>1, <3>1, FS_Surjection
  <2>4. \A T \in F : IsFiniteSet(T)
    BY <2>2
  <2>5. IsFiniteSet(UNION F)
    <3> HIDE DEF F
    <3> QED BY <2>3, <2>4, FS_UNION
  <2> QED BY <2>5 DEF BytesAt
<1>4. Owing(s, q) \in Nat
  BY <1>3, FS_CardinalityType DEF Owing
<1>5. BytesAt(s, q) = {<<x[1], x[2]>> : x \in BytesAt(s, q)}
  BY <1>2
<1> QED BY <1>1, <1>3, <1>4, <1>5

\* No bytes, no blocks: none is empty.
LEMMA NoBytes ==
  ASSUME ControlAssumption, NEW s \in Seq(Item), NEW q \in Pane
  PROVE  Owing(s, q) = 0 <=> At(s, q) = {}
<1>1. Owing(s, q) = 0 <=> BytesAt(s, q) = {}
  BY BytesAre, FS_EmptySet DEF Owing
<1>2. ASSUME NEW k \in At(s, q) PROVE <<k, 1>> \in BytesAt(s, q)
  <2>1. s[k].size \in Nat \ {0}
    BY ItemsAre DEF At
  <2> QED BY <2>1, BytesAre
<1>3. At(s, q) = {} => BytesAt(s, q) = {}
  BY DEF BytesAt
<1> QED BY <1>1, <1>2, <1>3

\* n bytes of one block.
LEMMA BlockBytes ==
  ASSUME NEW k, NEW a \in Nat, NEW b \in Nat, a <= b
  PROVE  IsFiniteSet({k} \X ((a + 1)..b)) /\ Cardinality({k} \X ((a + 1)..b)) = b - a
<1>1. IsFiniteSet((a + 1)..b) /\ Cardinality((a + 1)..b) = b - a
  <2>1. a + 1 \in Int /\ b \in Int
    OBVIOUS
  <2>2. /\ IsFiniteSet((a + 1)..b)
        /\ Cardinality((a + 1)..b) = IF a + 1 > b THEN 0 ELSE b - (a + 1) + 1
    BY <2>1, FS_Interval
  <2> QED BY <2>2
<1>2. IsFiniteSet({k}) /\ Cardinality({k}) = 1
  BY FS_Singleton
<1>3. /\ IsFiniteSet({k} \X ((a + 1)..b))
      /\ Cardinality({k} \X ((a + 1)..b)) = Cardinality({k}) * Cardinality((a + 1)..b)
  BY <1>1, <1>2, FS_Product
<1> QED BY <1>1, <1>2, <1>3

\* The part of a queue that is kept has the bytes at its places, and
\* all bytes of a pane if it has all places of its blocks.
LEMMA KeptItems ==
  ASSUME ControlAssumption, NEW s \in Seq(Item), NEW D \in SUBSET (DOMAIN s)
  PROVE  /\ Kept(s, D) \in Seq(Item)
         /\ ToSet(Kept(s, D)) = {s[k] : k \in D}
         /\ \A q : At(Kept(s, D), q) = {} <=> At(s, q) \cap D = {}
         /\ \A q : Owing(Kept(s, D), q) = Cardinality({x \in BytesAt(s, q) : x[1] \in D})
<1> DEFINE t == Kept(s, D)
           N == Cardinality(D)
           p == Sorted(D)
<1>1. t \in Seq(Item) /\ ToSet(t) = {s[k] : k \in D}
  BY KeptIs
<1>2. IsFiniteSet(D) /\ D \subseteq Int
  <2>1. D \in SUBSET (1..Len(s)) /\ Len(s) \in Nat
    BY ItemsAre
  <2>2. IsFiniteSet(1..Len(s))
    BY <2>1, FS_Interval
  <2> QED BY <2>1, <2>2, FS_Subset
<1>3. /\ N \in Nat /\ \A n \in 1..N : p[n] \in D
      /\ \A m, n \in 1..N : p[m] = p[n] => m = n
      /\ \A k \in D : \E n \in 1..N : p[n] = k
  BY <1>2, InOrder
<1>4. t = [n \in 1..N |-> s[p[n]]]
  BY DEF Kept
<1> HIDE DEF t, N, p
<1>5. \A q : At(t, q) = {n \in 1..N : p[n] \in At(s, q)}
  BY <1>3, <1>4 DEF At
<1>6. ASSUME NEW q PROVE At(t, q) = {} <=> At(s, q) \cap D = {}
  BY <1>3, <1>5
<1>7. ASSUME NEW q PROVE Owing(t, q) = Cardinality({x \in BytesAt(s, q) : x[1] \in D})
  <2> DEFINE T == {x \in BytesAt(s, q) : x[1] \in D}
             f == [x \in BytesAt(t, q) |-> <<p[x[1]], x[2]>>]
  <2>1. ASSUME NEW x \in BytesAt(t, q)
        PROVE  /\ x = <<x[1], x[2]>> /\ x[1] \in 1..N /\ f[x] \in T
    <3>1. x = <<x[1], x[2]>> /\ x[1] \in At(t, q) /\ x[2] \in 1..t[x[1]].size
      BY <1>1, BytesAre DEF t
    <3>2. x[1] \in 1..N /\ p[x[1]] \in At(s, q) /\ t[x[1]] = s[p[x[1]]] /\ p[x[1]] \in D
      BY <1>3, <1>4, <1>5, <3>1
    <3>3. <<p[x[1]], x[2]>> \in BytesAt(s, q)
      BY <3>1, <3>2, BytesAre
    <3> QED BY <3>1, <3>2, <3>3
  <2>2. ASSUME NEW y \in T PROVE \E x \in BytesAt(t, q) : f[x] = y
    <3>1. y = <<y[1], y[2]>> /\ y[1] \in At(s, q) /\ y[2] \in 1..s[y[1]].size /\ y[1] \in D
      BY BytesAre
    <3>2. PICK n \in 1..N : p[n] = y[1]
      BY <1>3, <3>1
    <3>3. n \in At(t, q) /\ y[2] \in 1..t[n].size
      BY <1>4, <1>5, <3>1, <3>2
    <3>4. <<n, y[2]>> \in BytesAt(t, q)
      BY <1>1, <3>3, BytesAre DEF t
    <3>5. f[<<n, y[2]>>] = <<p[n], y[2]>>
      BY <3>4
    <3> QED BY <3>1, <3>2, <3>4, <3>5
  <2>3. f \in [BytesAt(t, q) -> T]
    BY <2>1
  <2>4. ASSUME NEW x \in BytesAt(t, q), NEW y \in BytesAt(t, q), f[x] = f[y] PROVE x = y
    <3>1. p[x[1]] = p[y[1]] /\ x[2] = y[2]
      BY <2>4
    <3>2. x[1] = y[1]
      BY <1>3, <2>1, <3>1
    <3> QED BY <2>1, <3>1, <3>2
  <2>5. f \in Bijection(BytesAt(t, q), T)
    <3> HIDE DEF f, T
    <3> QED BY <2>2, <2>3, <2>4 DEF Bijection, Injection, Surjection, IsInjective
  <2>6. ExistsBijection(BytesAt(t, q), T)
    BY <2>5 DEF ExistsBijection
  <2>7. IsFiniteSet(BytesAt(t, q))
    BY <1>1, BytesAre DEF t
  <2> HIDE DEF T
  <2>8. Cardinality(T) = Cardinality(BytesAt(t, q))
    BY <2>6, <2>7, FS_Bijection
  <2> QED BY <2>8 DEF Owing, T
<1> QED BY <1>1, <1>6, <1>7 DEF t

LEMMA KeptOwing ==
  ASSUME ControlAssumption, NEW s \in Seq(Item), NEW D \in SUBSET (DOMAIN s), NEW q
  PROVE  /\ Owing(Kept(s, D), q) <= Owing(s, q)
         /\ At(s, q) \subseteq D => Owing(Kept(s, D), q) = Owing(s, q)
<1> DEFINE T == {x \in BytesAt(s, q) : x[1] \in D}
<1>1. Owing(Kept(s, D), q) = Cardinality(T)
  BY KeptItems
<1>2. IsFiniteSet(BytesAt(s, q)) /\ T \in SUBSET BytesAt(s, q)
  BY BytesAre
<1>3. At(s, q) \subseteq D => T = BytesAt(s, q)
  BY BytesAre
<1> HIDE DEF T
<1>4. Cardinality(T) <= Cardinality(BytesAt(s, q))
  BY <1>2, FS_Subset
<1> QED BY <1>1, <1>3, <1>4 DEF Owing

\* One block has n bytes less.
LEMMA TakenFrom ==
  ASSUME ControlAssumption, NEW s \in Seq(Item), NEW q, NEW k \in At(s, q),
         NEW n \in Nat, n <= s[k].size
  PROVE  Cardinality({x \in BytesAt(s, q) : x[1] = k => x[2] <= s[k].size - n}) = Owing(s, q) - n
<1> DEFINE S == BytesAt(s, q)
           c == s[k].size
           T == {k} \X ((c - n + 1)..c)
           R == {x \in S : x[1] = k => x[2] <= c - n}
<1>1. c \in Nat
  BY ItemsAre DEF At
<1>2. IsFiniteSet(T) /\ Cardinality(T) = n
  <2>1. c - n \in Nat /\ c - n <= c /\ c - (c - n) = n
    BY <1>1
  <2> HIDE DEF c
  <2> QED BY <1>1, <2>1, BlockBytes
<1>3. T \subseteq S
  <2> SUFFICES ASSUME NEW i \in (c - n + 1)..c PROVE <<k, i>> \in S
    OBVIOUS
  <2>1. i \in 1..c
    BY <1>1
  <2> QED BY <2>1, BytesAre
<1>4. R = S \ T
  <2>1. ASSUME NEW x \in S PROVE (x[1] = k => x[2] <= c - n) <=> x \notin T
    <3>1. x = <<x[1], x[2]>> /\ x[1] \in At(s, q) /\ x[2] \in 1..s[x[1]].size
      BY BytesAre
    <3>2. CASE x[1] = k
      <4>1. x[2] \in 1..c
        BY <3>1, <3>2
      <4>2. x \in T <=> x[2] \in (c - n + 1)..c
        BY <3>1, <3>2
      <4> QED BY <1>1, <3>2, <4>1, <4>2
    <3>3. CASE x[1] # k
      BY <3>3
    <3> QED BY <3>2, <3>3
  <2> QED BY <2>1
<1>5. IsFiniteSet(S)
  BY BytesAre
<1> HIDE DEF S, T, R, c
<1>6. Cardinality(S \ T) = Cardinality(S) - Cardinality(S \cap T) /\ S \cap T = T
  BY <1>3, <1>5, FS_Difference
<1>7. Cardinality(R) = Cardinality(S) - n
  BY <1>2, <1>4, <1>6
<1> QED BY <1>7 DEF S, R, c, Owing

LEMMA TakenIsThere ==
  ASSUME ControlAssumption, NEW s \in Seq(Item), NEW q, NEW k \in At(s, q)
  PROVE  s[k].size <= Owing(s, q)
<1>1. s[k].size \in Nat
  BY ItemsAre DEF At
<1>2. Cardinality({x \in BytesAt(s, q) : x[1] = k => x[2] <= s[k].size - s[k].size})
        = Owing(s, q) - s[k].size
  BY <1>1, TakenFrom
<1> DEFINE R == {x \in BytesAt(s, q) : x[1] = k => x[2] <= s[k].size - s[k].size}
<1>3. Cardinality(R) \in Nat
  <2>1. IsFiniteSet(BytesAt(s, q)) /\ R \in SUBSET BytesAt(s, q)
    BY BytesAre
  <2> HIDE DEF R
  <2>2. IsFiniteSet(R)
    BY <2>1, FS_Subset
  <2> QED BY <2>2, FS_CardinalityType
<1>4. Owing(s, q) \in Nat
  BY BytesAre
<1> QED BY <1>1, <1>2, <1>3, <1>4

\* A queue without one block, with a shorter one, and with one more.
LEMMA WithoutBlock ==
  ASSUME ControlAssumption, NEW s \in Seq(Item), NEW p \in Pane, NEW k \in At(s, p)
  PROVE  LET t == Without(s, k)
         IN  /\ t \in Seq(Item)
             /\ Owing(t, p) = Owing(s, p) - s[k].size
             /\ \A q \in Pane \ {p} : Owing(t, q) = Owing(s, q)
<1> DEFINE D == DOMAIN s \ {k}
           t == Without(s, k)
<1>1. D \in SUBSET (DOMAIN s) /\ k \in DOMAIN s /\ s[k].pane = p
  BY DEF At
<1>0. t = Kept(s, D)
  BY DEF Without
<1>2. t \in Seq(Item) /\ Owing(t, p) = Cardinality({x \in BytesAt(s, p) : x[1] \in D})
  <2>1. /\ Kept(s, D) \in Seq(Item)
        /\ Owing(Kept(s, D), p) = Cardinality({x \in BytesAt(s, p) : x[1] \in D})
    BY <1>1, KeptItems
  <2> HIDE DEF D, t
  <2> QED BY <1>0, <2>1
<1>3. s[k].size \in Nat
  BY <1>1, ItemsAre
<1>4. {x \in BytesAt(s, p) : x[1] \in D}
        = {x \in BytesAt(s, p) : x[1] = k => x[2] <= s[k].size - s[k].size}
  <2>1. ASSUME NEW x \in BytesAt(s, p)
        PROVE  x[1] \in D <=> (x[1] = k => x[2] <= s[k].size - s[k].size)
    <3>1. x[1] \in DOMAIN s /\ x[2] \in Nat /\ x[2] >= 1
      <4>1. x[1] \in At(s, p) /\ x[2] \in 1..s[x[1]].size
        BY BytesAre
      <4> QED BY <4>1 DEF At
    <3> QED BY <1>3, <3>1
  <2> QED BY <2>1
<1>5. Owing(t, p) = Owing(s, p) - s[k].size
  BY <1>2, <1>3, <1>4, TakenFrom
<1>6. ASSUME NEW q \in Pane \ {p} PROVE Owing(t, q) = Owing(s, q)
  <2>1. At(s, q) \subseteq D
    BY <1>1 DEF At
  <2> QED BY <1>0, <1>1, <2>1, KeptOwing
<1> QED BY <1>2, <1>5, <1>6

LEMMA ShorterBlock ==
  ASSUME ControlAssumption, NEW s \in Seq(Item), NEW p \in Pane, NEW k \in At(s, p),
         NEW n \in Nat, n < s[k].size
  PROVE  LET t == Shorter(s, k, n)
         IN  /\ t \in Seq(Item) /\ \A q : At(t, q) = At(s, q)
             /\ \A j \in DOMAIN s : t[j] = Line <=> s[j] = Line
             /\ Owing(t, p) = Owing(s, p) - n
             /\ \A q \in Pane \ {p} : Owing(t, q) = Owing(s, q)
<1> DEFINE t == Shorter(s, k, n)
<1>1. DOMAIN s = 1..Len(s) /\ Len(s) \in Nat /\ k \in 1..Len(s) /\ s[k].pane = p
  BY ItemsAre DEF At
<1>2. s[k] \in [pane : Pane, size : Nat \ {0}] /\ \A j \in 1..Len(s) : s[j] \in Item
  <2>1. Line.pane \notin Pane
    BY Settings DEF Line
  <2> QED BY <1>1, <2>1, ItemsAre DEF Item
<1>3. /\ DOMAIN t = 1..Len(s) /\ t[k] = [s[k] EXCEPT !.size = s[k].size - n]
      /\ \A j \in 1..Len(s) : j # k => t[j] = s[j]
  BY <1>1 DEF Shorter
<1>4. t[k] \in [pane : Pane, size : Nat \ {0}] /\ t[k].pane = p /\ t[k].size = s[k].size - n
  BY <1>1, <1>2, <1>3
<1> HIDE DEF t
<1>5. t \in Seq(Item)
  <2>1. \A j \in 1..Len(s) : t[j] \in Item
    BY <1>2, <1>3, <1>4 DEF Item
  <2>2. t = [j \in 1..Len(s) |-> t[j]]
    <3>1. t = [j \in DOMAIN t |-> t[j]]
      BY <1>1 DEF t, Shorter
    <3> QED BY <1>3, <3>1
  <2>3. t \in [1..Len(s) -> Item]
    BY <2>1, <2>2
  <2> QED BY <1>1, <2>3
<1>6. \A q : At(t, q) = At(s, q)
  BY <1>1, <1>3, <1>4 DEF At
<1>7. \A j \in DOMAIN s : t[j] = Line <=> s[j] = Line
  <2>1. Line.pane \notin Pane
    BY Settings DEF Line
  <2>2. t[k] # Line /\ s[k] # Line
    BY <1>1, <1>4, <2>1
  <2> QED BY <1>1, <1>3, <2>2
<1>8. BytesAt(t, p) = {x \in BytesAt(s, p) : x[1] = k => x[2] <= s[k].size - n}
  <2> DEFINE R == {x \in BytesAt(s, p) : x[1] = k => x[2] <= s[k].size - n}
  <2>1. s[k].size \in Nat
    BY <1>2
  <2>2. ASSUME NEW j, NEW i PROVE <<j, i>> \in BytesAt(t, p) <=> <<j, i>> \in R
    <3>1. <<j, i>> \in BytesAt(t, p) <=> j \in At(s, p) /\ i \in 1..t[j].size
      BY <1>5, <1>6, BytesAre
    <3>2. <<j, i>> \in BytesAt(s, p) <=> j \in At(s, p) /\ i \in 1..s[j].size
      BY BytesAre
    <3>3. CASE j = k
      <4>1. i \in 1..(s[k].size - n) <=> i \in 1..s[k].size /\ i <= s[k].size - n
        BY <2>1
      <4> QED BY <1>4, <3>1, <3>2, <3>3, <4>1
    <3>4. CASE j # k
      <4>1. j \in At(s, p) => t[j] = s[j]
        BY <1>1, <1>3, <3>4 DEF At
      <4> QED BY <3>1, <3>2, <3>4, <4>1
    <3> QED BY <3>3, <3>4
  <2>3. \A x \in BytesAt(t, p) : x = <<x[1], x[2]>>
    BY DEF BytesAt
  <2>4. \A x \in R : x = <<x[1], x[2]>>
    BY DEF BytesAt
  <2> HIDE DEF R
  <2>5. BytesAt(t, p) = R
    <3>1. ASSUME NEW x \in BytesAt(t, p) PROVE x \in R
      <4>1. x = <<x[1], x[2]>>
        BY <2>3
      <4>2. <<x[1], x[2]>> \in BytesAt(t, p) <=> <<x[1], x[2]>> \in R
        BY <2>2
      <4> QED BY <4>1, <4>2
    <3>2. ASSUME NEW x \in R PROVE x \in BytesAt(t, p)
      <4>1. x = <<x[1], x[2]>>
        BY <2>4
      <4>2. <<x[1], x[2]>> \in BytesAt(t, p) <=> <<x[1], x[2]>> \in R
        BY <2>2
      <4> QED BY <4>1, <4>2
    <3> QED BY <3>1, <3>2
  <2> QED BY <2>5 DEF R
<1>9. Owing(t, p) = Owing(s, p) - n
  <2>1. s[k].size \in Nat /\ n <= s[k].size
    BY <1>2
  <2> QED BY <1>8, <2>1, TakenFrom DEF Owing
<1>10. ASSUME NEW q \in Pane \ {p} PROVE BytesAt(t, q) = BytesAt(s, q)
  <2>1. At(t, q) = At(s, q) /\ \A j \in At(s, q) : t[j] = s[j]
    BY <1>1, <1>3, <1>6 DEF At
  <2> QED BY <2>1 DEF BytesAt
<1> QED BY <1>5, <1>6, <1>7, <1>9, <1>10 DEF t, Owing

LEMMA OneMore ==
  ASSUME ControlAssumption, NEW s \in Seq(Item), NEW b \in Item
  PROVE  LET t == Append(s, b)
         IN  /\ t \in Seq(Item) /\ t # <<>>
             /\ \A q \in Pane : /\ Owing(t, q) = Owing(s, q) + IF b.pane = q THEN b.size ELSE 0
                                /\ b.pane # q => At(t, q) = At(s, q)
<1> DEFINE t == Append(s, b)
           n == Len(s)
<1>1. n \in Nat /\ DOMAIN s = 1..n /\ \A k \in 1..n : s[k] \in Item
  BY ItemsAre
<1>2. t \in Seq(Item) /\ DOMAIN t = 1..(n + 1) /\ t[n + 1] = b /\ \A k \in 1..n : t[k] = s[k]
  BY <1>1
<1>3. t # <<>>
  BY <1>1, <1>2
<1>4. b.size \in Nat
  BY DEF Item, Line
<1> HIDE DEF t, n
<1>5. ASSUME NEW q \in Pane, b.pane # q PROVE At(t, q) = At(s, q) /\ Owing(t, q) = Owing(s, q)
  <2>1. At(t, q) = At(s, q)
    <3>1. \A k \in 1..(n + 1) : k = n + 1 \/ k \in 1..n
      BY <1>1
    <3>2. 1..n \subseteq 1..(n + 1)
      BY <1>1
    <3> QED BY <1>1, <1>2, <1>5, <3>1, <3>2 DEF At
  <2>2. BytesAt(t, q) = BytesAt(s, q)
    <3>1. \A k \in At(s, q) : t[k] = s[k]
      BY <1>1, <1>2 DEF At
    <3> QED BY <2>1, <3>1 DEF BytesAt
  <2> QED BY <2>1, <2>2 DEF Owing
<1>6. ASSUME NEW q \in Pane, b.pane = q PROVE Owing(t, q) = Owing(s, q) + b.size
  <2> DEFINE T == {n + 1} \X (1..b.size)
  <2>1. At(t, q) = At(s, q) \cup {n + 1} /\ n + 1 \notin At(s, q)
    <3>1. \A k \in 1..(n + 1) : k = n + 1 \/ k \in 1..n
      BY <1>1
    <3>2. 1..n \subseteq 1..(n + 1) /\ n + 1 \in 1..(n + 1) /\ n + 1 \notin 1..n
      BY <1>1
    <3> QED BY <1>1, <1>2, <1>6, <3>1, <3>2 DEF At
  <2>2. \A k \in At(s, q) : t[k] = s[k]
    BY <1>1, <1>2 DEF At
  <2>3. BytesAt(t, q) = BytesAt(s, q) \cup T
    BY <1>2, <2>1, <2>2 DEF BytesAt
  <2>4. BytesAt(s, q) \cap T = {}
    BY <2>1, BytesAre
  <2>5. IsFiniteSet(T) /\ Cardinality(T) = b.size
    <3>1. 0 <= b.size /\ 0 \in Nat /\ 0 + 1 = 1 /\ b.size - 0 = b.size
      BY <1>4
    <3> HIDE DEF T
    <3>2. /\ IsFiniteSet({n + 1} \X ((0 + 1)..b.size))
          /\ Cardinality({n + 1} \X ((0 + 1)..b.size)) = b.size - 0
      BY <1>4, <3>1, BlockBytes
    <3> QED BY <3>1, <3>2 DEF T
  <2>6. IsFiniteSet(BytesAt(s, q)) /\ Owing(s, q) \in Nat
    BY BytesAre
  <2> HIDE DEF T
  <2>7. Cardinality(BytesAt(s, q) \cup T)
          = Cardinality(BytesAt(s, q)) + Cardinality(T) - Cardinality({})
    BY <2>4, <2>5, <2>6, FS_Union
  <2>8. Cardinality({}) = 0
    BY FS_EmptySet
  <2> QED BY <1>4, <2>3, <2>5, <2>6, <2>7, <2>8 DEF Owing
<1>7. ASSUME NEW q \in Pane, b.pane # q PROVE Owing(t, q) = Owing(s, q) + 0
  <2>1. Owing(s, q) \in Nat
    BY BytesAre
  <2> QED BY <1>5, <1>7, <2>1
<1> QED BY <1>2, <1>3, <1>5, <1>6, <1>7 DEF t

\* What is kept of nothing is nothing.
LEMMA NotEmpty ==
  ASSUME ControlAssumption, NEW s \in Seq(Item), NEW D \in SUBSET (DOMAIN s), Kept(s, D) # <<>>
  PROVE  s # <<>>
<1>1. Kept(s, D) \in Seq(Item) /\ ToSet(Kept(s, D)) = {s[k] : k \in D}
  BY KeptItems
<1>2. 1 \in 1..Len(Kept(s, D)) /\ Kept(s, D)[1] \in ToSet(Kept(s, D))
  BY <1>1, SeqFacts
<1>3. D # {}
  BY <1>1, <1>2
<1> QED BY <1>3

\* Lines in front are gone after control_flush_all_blocks.
LEMMA FlushedHead ==
  ASSUME ControlAssumption, NEW s \in Seq(Item), NEW D \in SUBSET (DOMAIN s),
         D = DOMAIN s \ {k \in DOMAIN s : \A j \in 1..k : s[j] = Line}, Kept(s, D) # <<>>
  PROVE  Head(Kept(s, D)) # Line
<1> DEFINE N == Cardinality(D)
           p == Sorted(D)
<1>1. DOMAIN s = 1..Len(s) /\ Len(s) \in Nat
  BY ItemsAre
<1>2. IsFiniteSet(D) /\ D \subseteq Int
  <2>1. IsFiniteSet(1..Len(s))
    BY <1>1, FS_Interval
  <2> QED BY <1>1, <2>1, FS_Subset
<1>3. N \in Nat /\ \A n \in 1..N : p[n] \in D
  BY <1>2, InOrder
<1>13. /\ \A m, n \in 1..N : m < n => p[m] < p[n]
       /\ \A k \in D : \E n \in 1..N : p[n] = k
  BY <1>2, InOrder
<1>4. Kept(s, D) = [n \in 1..N |-> s[p[n]]] /\ Kept(s, D) \in Seq(Item)
  BY KeptItems DEF Kept
<1> HIDE DEF p, N
<1>5. 1 \in 1..N
  <2>1. Len(Kept(s, D)) = N
    BY <1>3, <1>4
  <2>2. 1 \in 1..Len(Kept(s, D))
    BY <1>4, SeqFacts
  <2> QED BY <2>1, <2>2
<1>6. Head(Kept(s, D)) = s[p[1]] /\ p[1] \in D
  BY <1>3, <1>4, <1>5
<1>7. \A j \in D : j <= p[1] => j = p[1]
  <2> SUFFICES ASSUME NEW j \in D, j <= p[1], j # p[1] PROVE FALSE
    OBVIOUS
  <2>1. PICK n \in 1..N : p[n] = j
    BY <1>13
  <2>2. 1 < n
    BY <1>3, <2>1
  <2>3. p[1] < p[n] /\ p[1] \in Int /\ p[n] \in Int
    BY <1>2, <1>3, <1>5, <1>13, <2>2
  <2> QED BY <2>1, <2>3
<1>8. PICK j \in 1..p[1] : s[j] # Line
  BY <1>6
<1>9. p[1] \in 1..Len(s)
  BY <1>1, <1>6
<1>10. j \in DOMAIN s /\ j \in 1..j
  BY <1>1, <1>9
<1>11. j \in D
  BY <1>8, <1>10
<1>12. j = p[1]
  BY <1>7, <1>8, <1>9, <1>11
<1> QED BY <1>6, <1>8, <1>12

-----------------------------------------------------------------------------
(***************************************************************************)
(* What is known to go wrong is left out: a client that is to exit, whose  *)
(* blocks stay when its offsets move on; a client that is switched to      *)
(* another session, or a pane that is respawned, while there is output to  *)
(* write (control_write_output, control_write_pending, spawn_pane).        *)
(***************************************************************************)
Calm == ControlUses \cap {"exit", "switch early", "respawn early"} = {}

\* Panes and clients, with what tells the clients of them.
CP == [offset : Positions, queued : Positions, off : BOOLEAN, paused : BOOLEAN]

Recs == [panes : [Pane -> CP \cup {None}], all : Seq(Item), pending : Seq(Pane), out : Nat,
         armed : BOOLEAN, quiet : BOOLEAN, exit : BOOLEAN, exited : BOOLEAN, sees : SUBSET Pane]

\* What the buffers of the panes hold.
Buffers(P) ==
  /\ P \in [Pane -> [len : 0..MaxBuffer, parsed : 0..MaxBuffer, reading : BOOLEAN,
                     open : BOOLEAN, exited : BOOLEAN]]
  /\ \A p \in Pane : P[p].parsed <= P[p].len

Gone(P, p) == ~P[p].open \/ P[p].exited

\* What client r is to get of pane p, with the buffers P: blocks are part of
\* what is between the offsets, and all of it until the pane has gone.
Owed(r, p, P) ==
  LET cp == r.panes[p]
  IN /\ cp # None => cp.queued <= P[p].len
     /\ IF Counts(r, p)
          THEN /\ cp.offset >= 0
               /\ Owing(r.all, p) <= cp.queued - cp.offset
               /\ ~Gone(P, p) /\ ~r.exit => Owing(r.all, p) = cp.queued - cp.offset
          ELSE Owing(r.all, p) = 0
     /\ Owing(r.all, p) # 0 => p \in r.sees /\ p \in ToSet(r.pending)

Fits(r, P) ==
  /\ r \in Recs
  /\ \A p \in Pane : Owed(r, p, P)
  /\ r.exit => \A p \in Pane : Owing(r.all, p) = 0
  /\ Uniq(r.pending)
  /\ "age" \notin ControlUses => ~r.exit

\* The client is waited for if there is something to write.
Waits(r) ==
  /\ (\E p \in Pane : Owing(r.all, p) # 0) => r.armed
  /\ "age" \notin ControlUses /\ r.all # <<>> => r.armed

LEMMA NotNone ==
  ASSUME ControlAssumption
  PROVE  None \notin CP
<1>1. CP \subseteq [offset : Int, queued : Int, off : BOOLEAN, paused : BOOLEAN]
  BY DEF CP, Positions, Behind
<1> QED BY <1>1 DEF ControlAssumption

LEMMA FitsFacts ==
  ASSUME ControlAssumption, NEW P, NEW r, Fits(r, P)
  PROVE  /\ r \in Recs /\ r.all \in Seq(Item) /\ r.pending \in Seq(Pane) /\ r.out \in Nat
         /\ r.sees \subseteq Pane /\ r.panes \in [Pane -> CP \cup {None}]
         /\ r.armed \in BOOLEAN /\ r.quiet \in BOOLEAN /\ r.exit \in BOOLEAN
         /\ \A q \in Pane : r.panes[q] # None => r.panes[q] \in CP
         /\ \A q \in Pane : Owing(r.all, q) \in Nat
<1>1. r \in Recs /\ r.all \in Seq(Item)
  BY DEF Fits, Recs
<1>2. \A q \in Pane : Owing(r.all, q) \in Nat
  BY <1>1, BytesAre
<1> QED BY <1>1, <1>2 DEF Recs

\* What a client is owed of a pane depends on these alone.
LEMMA Alike ==
  ASSUME ControlAssumption, NEW P, NEW r, NEW x, NEW p \in Pane, Owed(r, p, P),
         x.panes[p] = r.panes[p], x.quiet = r.quiet, x.exit = r.exit, x.sees = r.sees,
         p \in ToSet(r.pending) => p \in ToSet(x.pending),
         Owing(x.all, p) = Owing(r.all, p)
  PROVE  Owed(x, p, P)
BY DEF Owed, Counts

-----------------------------------------------------------------------------
(***************************************************************************)
(* The operations on one client: lines, the blocks of a pane that are      *)
(* discarded, and refresh-client.                                          *)
(***************************************************************************)
\* A line is no block.
LEMMA ControlWriteIs ==
  ASSUME ControlAssumption, NEW P, NEW r, Fits(r, P)
  PROVE  LET x == ControlWrite(r)
         IN  /\ Fits(x, P) /\ Waits(x) /\ x.armed
             /\ x.panes = r.panes /\ x.out >= r.out
             /\ x.pending = r.pending /\ x.sees = r.sees /\ x.exit = r.exit /\ x.quiet = r.quiet
             /\ \A q \in Pane : Owing(x.all, q) = Owing(r.all, q)
<1> DEFINE x == ControlWrite(r)
<1>1. r \in Recs /\ r.all \in Seq(Item) /\ r.out \in Nat
  BY FitsFacts
<1>2. /\ x.all \in Seq(Item)
      /\ \A q \in Pane : Owing(x.all, q) = Owing(r.all, q)
  <2>1. CASE r.all = <<>>
    BY <1>1, <2>1 DEF ControlWrite, Recs
  <2>2. CASE r.all # <<>>
    <3>1. Line \in Item /\ Line.pane \notin Pane
      BY Settings DEF Item, Line
    <3>2. x.all = Append(r.all, Line)
      BY <1>1, <2>2 DEF ControlWrite, Recs
    <3>3. \A q \in Pane : Line.pane # q
      BY <3>1
    <3>4. Append(r.all, Line) \in Seq(Item)
      BY <1>1, <3>1, OneMore
    <3>5. \A q \in Pane : At(Append(r.all, Line), q) = At(r.all, q)
      BY <1>1, <3>1, <3>3, OneMore
    <3>6. \A q \in Pane : Owing(Append(r.all, Line), q) = Owing(r.all, q) + 0
      BY <1>1, <3>1, <3>3, OneMore
    <3>7. \A q \in Pane : Owing(r.all, q) \in Nat
      BY <1>1, BytesAre
    <3> QED BY <3>2, <3>4, <3>6, <3>7
  <2> QED BY <2>1, <2>2
<1>3. /\ x \in Recs /\ x.armed /\ x.panes = r.panes /\ x.out >= r.out /\ x.pending = r.pending
      /\ x.sees = r.sees /\ x.exit = r.exit /\ x.quiet = r.quiet
  <2>1. CASE r.all = <<>>
    <3>1. x = [r EXCEPT !.out = r.out + 1, !.armed = TRUE]
      BY <2>1 DEF ControlWrite
    <3> HIDE DEF x
    <3>2. x.out = r.out + 1 /\ x.out \in Nat /\ x.armed = TRUE
      BY <1>1, <3>1 DEF Recs
    <3>3. x \in Recs
      BY <1>1, <3>1, <3>2 DEF Recs
    <3> QED BY <1>1, <3>1, <3>2, <3>3 DEF Recs
  <2>2. CASE r.all # <<>>
    <3>1. x = [r EXCEPT !.all = Append(r.all, Line), !.armed = TRUE]
      BY <2>2 DEF ControlWrite
    <3>2. x.all = Append(r.all, Line)
      BY <1>1, <3>1 DEF Recs
    <3> HIDE DEF x
    <3>3. x \in Recs /\ x.armed = TRUE /\ x.out = r.out
      BY <1>1, <1>2, <3>1, <3>2 DEF Recs
    <3> QED BY <1>1, <3>1, <3>3 DEF Recs
  <2> QED BY <2>1, <2>2
<1> HIDE DEF x
<1>4. \A q \in Pane : Owed(x, q, P)
  BY <1>2, <1>3, Alike DEF Fits
<1>5. Fits(x, P)
  BY <1>2, <1>3, <1>4 DEF Fits
<1> QED BY <1>2, <1>3, <1>5 DEF x, Waits

\* A new control_pane starts at what has been parsed.
LEMMA AddPaneIs ==
  ASSUME ControlAssumption, Buffers(pane), NEW r, Fits(r, pane), NEW p \in Pane
  PROVE  LET x == AddPane(r, p)
         IN  /\ Fits(x, pane) /\ x.panes[p] \in CP
             /\ r.panes[p] # None => x = r
             /\ r.panes[p] = None =>
                  x.panes[p] = [offset |-> pane[p].parsed, queued |-> pane[p].parsed,
                                off |-> FALSE, paused |-> FALSE]
             /\ x = [r EXCEPT !.panes = x.panes]
             /\ \A q \in Pane \ {p} : x.panes[q] = r.panes[q]
             /\ Waits(r) => Waits(x)
<1> DEFINE x == AddPane(r, p)
           cp == [offset |-> pane[p].parsed, queued |-> pane[p].parsed,
                  off |-> FALSE, paused |-> FALSE]
<1>1. r \in Recs /\ r.panes \in [Pane -> CP \cup {None}]
  BY FitsFacts
<1>2. CASE r.panes[p] # None
  BY <1>1, <1>2 DEF AddPane, Recs
<1>3. CASE r.panes[p] = None
  <2>1. /\ pane[p].parsed \in 0..MaxBuffer /\ pane[p].len \in 0..MaxBuffer
        /\ pane[p].parsed <= pane[p].len
    BY DEF Buffers
  <2>2. cp \in CP /\ cp # None
    <3>1. cp \in CP
      BY <2>1, Settings DEF CP, Positions, Behind
    <3> QED BY <3>1, NotNone
  <2>3. x = [r EXCEPT !.panes[p] = cp]
    BY <1>3 DEF AddPane
  <2> HIDE DEF x
  <2>4. /\ x \in Recs /\ x.panes[p] = cp /\ \A q \in Pane \ {p} : x.panes[q] = r.panes[q]
        /\ x.all = r.all /\ x.quiet = r.quiet /\ x.exit = r.exit /\ x.sees = r.sees
        /\ x.pending = r.pending /\ x.armed = r.armed
        /\ x = [r EXCEPT !.panes = x.panes]
    BY <1>1, <2>2, <2>3 DEF Recs
  <2>5. Owed(x, p, pane)
    <3>1. Owing(r.all, p) = 0
      BY <1>3 DEF Fits, Owed, Counts
    <3> QED BY <2>1, <2>4, <3>1 DEF Owed
  <2>6. \A q \in Pane \ {p} : Owed(x, q, pane)
    BY <2>4, Alike DEF Fits
  <2>7. Fits(x, pane)
    BY <2>4, <2>5, <2>6 DEF Fits
  <2> QED BY <1>3, <2>2, <2>4, <2>7 DEF x, Waits
<1> QED BY <1>2, <1>3

\* No block is flushed, and nothing in front of a block is left.
LEMMA FlushIs ==
  ASSUME ControlAssumption, NEW P, NEW r, Fits(r, P)
  PROVE  LET x == Flush(r)
         IN  /\ Fits(x, P) /\ x.out >= r.out /\ (Waits(r) => Waits(x))
             /\ x.all # <<>> => Head(x.all) # Line
             /\ x = [r EXCEPT !.out = x.out, !.all = x.all]
             /\ \A q \in Pane : Owing(x.all, q) = Owing(r.all, q)
<1> DEFINE x == Flush(r)
           D == DOMAIN r.all \ Ready(r)
           n == Cardinality(Ready(r))
<1>1. r \in Recs /\ r.all \in Seq(Item) /\ r.out \in Nat
  BY FitsFacts
<1>2. n \in Nat
  <2>1. IsFiniteSet(1..Len(r.all)) /\ DOMAIN r.all = 1..Len(r.all)
    <3>1. DOMAIN r.all = 1..Len(r.all) /\ Len(r.all) \in Nat
      BY <1>1, ItemsAre
    <3> QED BY <3>1, FS_Interval
  <2>2. Ready(r) \in SUBSET (1..Len(r.all))
    BY <2>1 DEF Ready
  <2>3. IsFiniteSet(Ready(r))
    BY <2>1, <2>2, FS_Subset, Zenon
  <2> QED BY <2>3, FS_CardinalityType
<1>3. D \in SUBSET (DOMAIN r.all)
  OBVIOUS
<1>4. /\ Kept(r.all, D) \in Seq(Item)
      /\ \A q \in Pane : Owing(Kept(r.all, D), q) = Owing(r.all, q)
  <2>1. ASSUME NEW q \in Pane PROVE At(r.all, q) \subseteq D
    <3> SUFFICES ASSUME NEW k \in At(r.all, q), k \in Ready(r) PROVE FALSE
      BY DEF At
    <3>1. k \in 1..k
      BY <1>1, ItemsAre DEF At
    <3>2. r.all[k] = Line /\ r.all[k].pane \in Pane
      BY <3>1 DEF At, Ready
    <3> QED BY <3>2, Settings DEF Line
  <2> HIDE DEF D
  <2> QED BY <1>1, <1>3, <2>1, KeptItems, KeptOwing
<1>5. Kept(r.all, D) # <<>> => Head(Kept(r.all, D)) # Line /\ r.all # <<>>
  <2>1. D = DOMAIN r.all \ {k \in DOMAIN r.all : \A j \in 1..k : r.all[j] = Line}
    BY DEF Ready
  <2> HIDE DEF D
  <2> QED BY <1>1, <1>3, <2>1, FlushedHead, NotEmpty
<1>6. x = [r EXCEPT !.out = r.out + n, !.all = Kept(r.all, D)]
  BY DEF Flush
<1> HIDE DEF D, n, x
<1>7. x.out = r.out + n /\ x.all = Kept(r.all, D) /\ x.out \in Nat
  BY <1>1, <1>2, <1>6 DEF Recs
<1>8. x \in Recs
  BY <1>1, <1>4, <1>6, <1>7 DEF Recs
<1>9. /\ x.panes = r.panes /\ x.quiet = r.quiet /\ x.exit = r.exit /\ x.sees = r.sees
      /\ x.pending = r.pending /\ x.armed = r.armed
  BY <1>1, <1>6 DEF Recs
<1>10. \A q \in Pane : Owing(x.all, q) = Owing(r.all, q)
  BY <1>4, <1>7
<1>11. \A q \in Pane : Owed(x, q, P)
  BY <1>9, <1>10, Alike DEF Fits
<1>12. Fits(x, P)
  BY <1>8, <1>9, <1>10, <1>11 DEF Fits
<1>13. Waits(r) => Waits(x)
  BY <1>5, <1>7, <1>9, <1>10 DEF Waits
<1>14. x = [r EXCEPT !.out = x.out, !.all = x.all]
  BY <1>6, <1>7
<1> QED BY <1>1, <1>2, <1>5, <1>7, <1>10, <1>12, <1>13, <1>14 DEF x

\* control_discard_pane, control_discard.
LEMMA DiscardPaneIs ==
  ASSUME ControlAssumption, NEW s \in Seq(Item), NEW p \in Pane
  PROVE  LET t == Kept(s, DOMAIN s \ At(s, p))
         IN  /\ t \in Seq(Item) /\ Owing(t, p) = 0 /\ (t # <<>> => s # <<>>)
             /\ \A q \in Pane \ {p} : Owing(t, q) = Owing(s, q)
<1> DEFINE D == DOMAIN s \ At(s, p)
           t == Kept(s, D)
<1>1. D \in SUBSET (DOMAIN s) /\ At(s, p) \cap D = {}
  OBVIOUS
<1>2. \A q \in Pane \ {p} : At(s, q) \subseteq D
  BY DEF At
<1> HIDE DEF D
<1>3. t \in Seq(Item) /\ At(t, p) = {}
  BY <1>1, KeptItems
<1>4. Owing(t, p) = 0
  BY <1>3, NoBytes
<1>5. \A q \in Pane \ {p} : Owing(t, q) = Owing(s, q)
  BY <1>1, <1>2, KeptOwing
<1>6. t # <<>> => s # <<>>
  BY <1>1, NotEmpty
<1> QED BY <1>3, <1>4, <1>5, <1>6 DEF D

LEMMA DiscardAllIs ==
  ASSUME ControlAssumption, NEW s \in Seq(Item)
  PROVE  LET t == Kept(s, {k \in DOMAIN s : s[k] = Line})
         IN  /\ t \in Seq(Item) /\ (t # <<>> => s # <<>>)
             /\ \A q \in Pane : Owing(t, q) = 0
<1> DEFINE D == {k \in DOMAIN s : s[k] = Line}
           t == Kept(s, D)
<1>1. D \in SUBSET (DOMAIN s)
  OBVIOUS
<1>2. \A q \in Pane : At(s, q) \cap D = {}
  BY Settings DEF At, Line
<1> HIDE DEF D
<1>3. t \in Seq(Item) /\ \A q \in Pane : At(t, q) = {}
  BY <1>1, <1>2, KeptItems
<1>4. \A q \in Pane : Owing(t, q) = 0
  BY <1>3, NoBytes
<1>5. t # <<>> => s # <<>>
  BY <1>1, NotEmpty
<1> QED BY <1>3, <1>4, <1>5 DEF D

\* The blocks of a pane that no longer counts are discarded.
Silent(r, p, cp) == [DiscardPane(r, p) EXCEPT !.panes[p] = cp]

LEMMA SilentIs ==
  ASSUME ControlAssumption, NEW P, NEW r, Fits(r, P), NEW p \in Pane, NEW cp \in CP,
         cp.off \/ cp.paused, cp.queued <= P[p].len
  PROVE  LET x == Silent(r, p, cp)
         IN  /\ Fits(x, P) /\ Owing(x.all, p) = 0 /\ (Waits(r) => Waits(x))
             /\ x.out = r.out /\ x.pending = r.pending /\ x.sees = r.sees
             /\ x.quiet = r.quiet /\ x.exit = r.exit /\ x.armed = r.armed
             /\ x.panes[p] = cp /\ \A q \in Pane \ {p} : x.panes[q] = r.panes[q]
             /\ \A q \in Pane \ {p} : Owing(x.all, q) = Owing(r.all, q)
<1> DEFINE t == Kept(r.all, DOMAIN r.all \ At(r.all, p))
           x == Silent(r, p, cp)
           f == [r.panes EXCEPT ![p] = cp]
<1>1. r \in Recs /\ r.all \in Seq(Item) /\ r.panes \in [Pane -> CP \cup {None}]
  BY FitsFacts
<1>2. /\ t \in Seq(Item) /\ Owing(t, p) = 0 /\ (t # <<>> => r.all # <<>>)
      /\ \A q \in Pane \ {p} : Owing(t, q) = Owing(r.all, q)
  BY <1>1, DiscardPaneIs
<1>3. DiscardPane(r, p) = [r EXCEPT !.all = t]
  BY DEF DiscardPane, Blocks, At
<1> HIDE DEF t
<1>4. x = [r EXCEPT !.all = t, !.panes = f]
  BY <1>1, <1>3 DEF Silent, Recs
<1> HIDE DEF x
<1>5. /\ f \in [Pane -> CP \cup {None}] /\ f[p] = cp
      /\ \A q \in Pane \ {p} : f[q] = r.panes[q]
  BY <1>1
<1> HIDE DEF f
<1>6. /\ x.all = t /\ x.panes = f /\ x.sees = r.sees /\ x.pending = r.pending
      /\ x.out = r.out
  BY <1>1, <1>4 DEF Recs
<1>7. x.quiet = r.quiet /\ x.exit = r.exit /\ x.armed = r.armed /\ x.exited = r.exited
  BY <1>1, <1>4 DEF Recs
<1>8. x \in Recs
  BY <1>1, <1>2, <1>4, <1>5 DEF Recs
<1>9. Owed(x, p, P)
  <2>1. ~Counts(x, p)
    BY <1>5, <1>6 DEF Counts
  <2> QED BY <1>2, <1>5, <1>6, <2>1 DEF Owed
<1>10. \A q \in Pane \ {p} : Owed(x, q, P)
  BY <1>2, <1>5, <1>6, <1>7, Alike DEF Fits
<1>11. \A q \in Pane : Owed(x, q, P)
  BY <1>9, <1>10
<1>12. Fits(x, P)
  BY <1>2, <1>6, <1>7, <1>8, <1>11 DEF Fits
<1>13. Waits(r) => Waits(x)
  BY <1>2, <1>6, <1>7 DEF Waits
<1> QED BY <1>2, <1>5, <1>6, <1>7, <1>12, <1>13 DEF x

\* What has been parsed is in the buffer.
LEMMA AtParsedIs ==
  ASSUME ControlAssumption, Buffers(pane), NEW p \in Pane, NEW cp \in CP
  PROVE  LET x == AtParsed(cp, p)
         IN  /\ x \in CP /\ x # None /\ x.off = cp.off /\ x.paused = cp.paused
             /\ x.offset = pane[p].parsed /\ x.queued = pane[p].parsed
             /\ x.queued <= pane[p].len /\ x.offset \in Nat
<1>1. /\ pane[p].parsed \in 0..MaxBuffer /\ pane[p].len \in 0..MaxBuffer
      /\ pane[p].parsed <= pane[p].len
  BY DEF Buffers
<1>2. pane[p].parsed \in Positions
  BY <1>1, Settings DEF Positions, Behind
<1> DEFINE x == AtParsed(cp, p)
<1>3. /\ x.off = cp.off /\ x.paused = cp.paused
      /\ x.offset = pane[p].parsed /\ x.queued = pane[p].parsed
  BY DEF AtParsed, CP
<1>4. x \in CP
  BY <1>2 DEF AtParsed, CP
<1> HIDE DEF x
<1>5. x # None
  BY <1>4, NotNone
<1>6. x.queued <= pane[p].len /\ x.offset \in Nat
  BY <1>1, <1>3
<1> QED BY <1>3, <1>4, <1>5, <1>6, Zenon DEF x

LEMMA PausedIs ==
  ASSUME ControlAssumption, NEW P, NEW r, Fits(r, P), NEW p \in Pane, r.panes[p] # None
  PROVE  LET x == Paused(r, p)
         IN  /\ Fits(x, P) /\ Waits(x) /\ Owing(x.all, p) = 0 /\ x.out >= r.out
             /\ x.pending = r.pending /\ x.sees = r.sees /\ x.quiet = r.quiet
             /\ \A q \in Pane \ {p} : Owing(x.all, q) = Owing(r.all, q)
<1> DEFINE cp == [r.panes[p] EXCEPT !.paused = TRUE]
           y == Silent(r, p, cp)
           x == ControlWrite(y)
<1>1. r \in Recs /\ r.panes[p] \in CP /\ r.panes \in [Pane -> CP \cup {None}] /\ r.out \in Nat
  BY FitsFacts
<1>2. cp \in CP /\ (cp.off \/ cp.paused) /\ cp.queued = r.panes[p].queued
  BY <1>1 DEF CP
<1>3. cp.queued <= P[p].len
  BY <1>2 DEF Fits, Owed
<1>4. Paused(r, p) = x
  <2>1. DiscardPane(r, p).panes = r.panes
    BY <1>1 DEF DiscardPane, Recs
  <2>2. [DiscardPane(r, p) EXCEPT !.panes[p].paused = TRUE] = y
    BY <1>1, <2>1 DEF Silent
  <2> QED BY <2>2 DEF Paused
<1> HIDE DEF cp
<1>5. /\ Fits(y, P) /\ Owing(y.all, p) = 0
      /\ y.pending = r.pending /\ y.sees = r.sees /\ y.out = r.out /\ y.quiet = r.quiet
      /\ \A q \in Pane \ {p} : Owing(y.all, q) = Owing(r.all, q)
  BY <1>2, <1>3, SilentIs
<1> HIDE DEF y
<1>7. /\ Fits(x, P) /\ Waits(x) /\ x.out >= y.out /\ x.pending = y.pending /\ x.sees = y.sees
      /\ x.quiet = y.quiet
      /\ \A q \in Pane : Owing(x.all, q) = Owing(y.all, q)
  BY <1>5, ControlWriteIs
<1> HIDE DEF x
<1> QED BY <1>4, <1>5, <1>7

\* A pane whose block is too old is paused, or the client exits.
LEMMA TooOldIs ==
  ASSUME ControlAssumption, NEW P, NEW r, Fits(r, P), NEW p \in Pane, r.panes[p] # None, NEW c,
         "age" \in ControlUses
  PROVE  LET x == TooOld(r, c, p)
         IN  /\ Fits(x, P) /\ (Waits(r) => Waits(x)) /\ Owing(x.all, p) = 0 /\ x.out >= r.out
             /\ x.pending = r.pending /\ x.sees = r.sees /\ x.quiet = r.quiet
             /\ \A q \in Pane : Owing(r.all, q) = 0 => Owing(x.all, q) = 0
<1>1. CASE c \in PauseAfter
  BY <1>1, PausedIs DEF TooOld
<1>2. CASE c \notin PauseAfter
  <2> DEFINE x == TooOld(r, c, p)
             t == Kept(r.all, {k \in DOMAIN r.all : r.all[k] = Line})
  <2>1. r \in Recs /\ r.all \in Seq(Item) /\ r.panes \in [Pane -> CP \cup {None}] /\ r.out \in Nat
    BY FitsFacts
  <2>2. t \in Seq(Item) /\ (t # <<>> => r.all # <<>>) /\ \A q \in Pane : Owing(t, q) = 0
    <3>1. t \in Seq(Item) /\ (t # <<>> => r.all # <<>>)
      BY <2>1, DiscardAllIs
    <3>2. \A q \in Pane : Owing(t, q) = 0
      BY <2>1, DiscardAllIs
    <3> QED BY <3>1, <3>2
  <2>3. DiscardAll(r) = [r EXCEPT !.all = t]
    BY DEF DiscardAll
  <2>6. t \in Seq(Item) /\ \A q \in Pane : Owing(t, q) = 0
    BY <2>1, DiscardAllIs
  <2> HIDE DEF t
  <2>4. x = [r EXCEPT !.all = t, !.exit = TRUE]
    BY <1>2, <2>1, <2>3 DEF TooOld, Recs
  <2> HIDE DEF x
  <2>5. /\ x \in Recs /\ x.all = t /\ x.panes = r.panes /\ x.quiet = r.quiet /\ x.sees = r.sees
        /\ x.pending = r.pending /\ x.armed = r.armed /\ x.out = r.out /\ x.exit = TRUE
    BY <2>1, <2>4, <2>6 DEF Recs
  <2>7. ASSUME NEW q \in Pane PROVE Owed(x, q, P)
    <3>1. Owed(r, q, P) /\ Owing(r.all, q) \in Nat /\ (r.panes[q] # None => r.panes[q] \in CP)
      BY FitsFacts DEF Fits
    <3>2. Counts(x, q) = Counts(r, q)
      BY <2>5 DEF Counts
    <3>3. Owing(x.all, q) = 0
      BY <2>5, <2>6
    <3>4. CASE Counts(r, q)
      <4>1. r.panes[q] \in CP
        BY <3>1, <3>4 DEF Counts
      <4>2. r.panes[q].queued \in Int /\ r.panes[q].offset \in Int
        BY <4>1 DEF CP, Positions, Behind
      <4>3. r.panes[q].offset >= 0 /\ Owing(r.all, q) <= r.panes[q].queued - r.panes[q].offset
        BY <3>1, <3>4 DEF Owed
      <4>4. 0 <= r.panes[q].queued - r.panes[q].offset
        BY <3>1, <4>2, <4>3
      <4> QED BY <2>5, <3>1, <3>2, <3>3, <3>4, <4>3, <4>4 DEF Owed
    <3>5. CASE ~Counts(r, q)
      BY <2>5, <3>1, <3>2, <3>3, <3>5 DEF Owed
    <3> QED BY <3>4, <3>5
  <2>8. Fits(x, P)
    BY <2>5, <2>6, <2>7 DEF Fits
  <2>9. Waits(x)
    BY <2>5, <2>6 DEF Waits
  <2> QED BY <2>1, <2>5, <2>6, <2>8, <2>9 DEF x
<1> QED BY <1>1, <1>2

\* Both offsets of a pane with no blocks are put to the same place.
Put(r, p, cp) == [r EXCEPT !.panes[p] = cp]

LEMMA PutIs ==
  ASSUME ControlAssumption, NEW P, NEW r, Fits(r, P), NEW p \in Pane, NEW cp \in CP,
         Owing(r.all, p) = 0, cp.queued <= P[p].len, cp.offset = cp.queued, cp.offset >= 0
  PROVE  LET x == Put(r, p, cp)
         IN  /\ Fits(x, P) /\ (Waits(r) => Waits(x))
             /\ x.all = r.all /\ x.out = r.out /\ x.pending = r.pending /\ x.sees = r.sees
             /\ x.quiet = r.quiet /\ x.exit = r.exit /\ x.armed = r.armed /\ x.panes[p] = cp
<1> DEFINE x == Put(r, p, cp)
           f == [r.panes EXCEPT ![p] = cp]
<1>1. r \in Recs /\ r.all \in Seq(Item) /\ r.panes \in [Pane -> CP \cup {None}]
  BY FitsFacts
<1>2. x = [r EXCEPT !.panes = f]
  BY <1>1 DEF Put, Recs
<1> HIDE DEF x
<1>3. /\ f \in [Pane -> CP \cup {None}] /\ f[p] = cp
      /\ \A q \in Pane \ {p} : f[q] = r.panes[q]
  BY <1>1
<1> HIDE DEF f
<1>4. /\ x.all = r.all /\ x.panes = f /\ x.sees = r.sees /\ x.pending = r.pending
      /\ x.out = r.out
  BY <1>1, <1>2 DEF Recs
<1>5. x.quiet = r.quiet /\ x.exit = r.exit /\ x.armed = r.armed /\ x.exited = r.exited
  BY <1>1, <1>2 DEF Recs
<1>6. x \in Recs
  BY <1>1, <1>2, <1>3 DEF Recs
<1>7. Owed(x, p, P)
  <2>1. cp.queued - cp.offset = 0
    BY DEF CP, Positions, Behind
  <2> QED BY <1>3, <1>4, <2>1 DEF Owed
<1>8. \A q \in Pane \ {p} : Owed(x, q, P)
  BY <1>3, <1>4, <1>5, Alike DEF Fits
<1>9. \A q \in Pane : Owed(x, q, P)
  BY <1>7, <1>8
<1>10. Fits(x, P)
  BY <1>4, <1>5, <1>6, <1>9 DEF Fits
<1>11. Waits(r) => Waits(x)
  BY <1>4, <1>5 DEF Waits
<1> QED BY <1>3, <1>4, <1>5, <1>10, <1>11 DEF x

\* Other buffers.
LEMMA FitsOther ==
  ASSUME ControlAssumption, NEW P, NEW Q, NEW r, Fits(r, P), Buffers(P), Buffers(Q),
         \A q \in Pane : P[q].len <= Q[q].len /\ (Gone(P, q) => Gone(Q, q))
  PROVE  Fits(r, Q)
<1>1. ASSUME NEW q \in Pane PROVE Owed(r, q, Q)
  <2>1. Owed(r, q, P) /\ (r.panes[q] # None => r.panes[q] \in CP)
    BY FitsFacts DEF Fits
  <2>2. P[q].len \in Int /\ Q[q].len \in Int
    BY DEF Buffers
  <2>3. r.panes[q] # None => r.panes[q].queued <= Q[q].len
    <3>1. r.panes[q] # None => r.panes[q].queued \in Int
      BY <2>1 DEF CP, Positions, Behind
    <3> QED BY <2>1, <2>2, <3>1 DEF Owed
  <2> QED BY <2>1, <2>3 DEF Owed
<1> QED BY <1>1 DEF Fits

LEMMA SetPaneOnIs ==
  ASSUME ControlAssumption, Buffers(pane), NEW r, Fits(r, pane), Waits(r), NEW p \in Pane
  PROVE  Fits(SetPaneOn(r, p), pane) /\ Waits(SetPaneOn(r, p))
<1>1. CASE r.panes[p] = None \/ ~r.panes[p].off
  BY <1>1 DEF SetPaneOn
<1>2. CASE ~(r.panes[p] = None \/ ~r.panes[p].off)
  <2> DEFINE y == AtParsed(r.panes[p], p)
             cp == [y EXCEPT !.off = FALSE]
  <2>1. r \in Recs /\ r.panes[p] \in CP
    BY <1>2, FitsFacts
  <2>2. y \in CP /\ y.offset = pane[p].parsed /\ y.queued = pane[p].parsed
        /\ y.queued <= pane[p].len /\ y.offset \in Nat
    BY <2>1, AtParsedIs
  <2>3. SetPaneOn(r, p) = Put(r, p, cp)
    BY <1>2 DEF SetPaneOn, Put
  <2> HIDE DEF y
  <2>4. cp \in CP /\ cp.offset = y.offset /\ cp.queued = y.queued
    BY <2>2 DEF CP
  <2>5. Owing(r.all, p) = 0
    BY <1>2 DEF Fits, Owed, Counts
  <2> HIDE DEF cp
  <2> QED BY <2>2, <2>3, <2>4, <2>5, PutIs
<1> QED BY <1>1, <1>2

LEMMA SetPaneOffIs ==
  ASSUME ControlAssumption, Buffers(pane), NEW r, Fits(r, pane), Waits(r), NEW p \in Pane
  PROVE  Fits(SetPaneOff(r, p), pane) /\ Waits(SetPaneOff(r, p))
<1> DEFINE x == AddPane(r, p)
           y == AtParsed(x.panes[p], p)
           cp == [y EXCEPT !.off = TRUE]
<1>1. Fits(x, pane) /\ Waits(x) /\ x.panes[p] \in CP
  BY AddPaneIs
<1>2. x \in Recs
  BY <1>1, FitsFacts
<1> HIDE DEF x
<1>3. y \in CP /\ y.queued <= pane[p].len
  BY <1>1, AtParsedIs
<1>4. SetPaneOff(r, p) = Silent(x, p, cp)
  <2>1. DiscardPane(x, p).panes = x.panes
    BY <1>2 DEF DiscardPane, Recs
  <2> QED BY <1>2, <2>1 DEF SetPaneOff, Silent, x
<1> HIDE DEF y
<1>5. cp \in CP /\ (cp.off \/ cp.paused) /\ cp.queued = y.queued
  BY <1>3 DEF CP
<1> HIDE DEF cp
<1> QED BY <1>1, <1>3, <1>4, <1>5, SilentIs

LEMMA ContinuePaneIs ==
  ASSUME ControlAssumption, Buffers(pane), NEW r, Fits(r, pane), Waits(r), NEW p \in Pane
  PROVE  Fits(ContinuePane(r, p), pane) /\ Waits(ContinuePane(r, p))
<1>1. CASE r.panes[p] = None \/ ~r.panes[p].paused
  BY <1>1 DEF ContinuePane
<1>2. CASE ~(r.panes[p] = None \/ ~r.panes[p].paused)
  <2> DEFINE y == AtParsed(r.panes[p], p)
             cp == [y EXCEPT !.paused = FALSE]
             z == Put(r, p, cp)
  <2>1. r \in Recs /\ r.panes[p] \in CP
    BY <1>2, FitsFacts
  <2>2. y \in CP /\ y.offset = pane[p].parsed /\ y.queued = pane[p].parsed
        /\ y.queued <= pane[p].len /\ y.offset \in Nat
    BY <2>1, AtParsedIs
  <2>3. ContinuePane(r, p) = ControlWrite(z)
    BY <1>2 DEF ContinuePane, Put
  <2> HIDE DEF y
  <2>4. cp \in CP /\ cp.offset = y.offset /\ cp.queued = y.queued
    BY <2>2 DEF CP
  <2>5. Owing(r.all, p) = 0
    BY <1>2 DEF Fits, Owed, Counts
  <2> HIDE DEF cp
  <2>6. Fits(z, pane)
    BY <2>2, <2>4, <2>5, PutIs
  <2> HIDE DEF z
  <2> QED BY <2>3, <2>6, ControlWriteIs
<1> QED BY <1>1, <1>2

LEMMA PausePaneIs ==
  ASSUME ControlAssumption, Buffers(pane), NEW r, Fits(r, pane), Waits(r), NEW p \in Pane
  PROVE  Fits(PausePane(r, p), pane) /\ Waits(PausePane(r, p))
<1> DEFINE x == AddPane(r, p)
<1>1. Fits(x, pane) /\ Waits(x) /\ x.panes[p] \in CP
  BY AddPaneIs
<1>2. PausePane(r, p) = IF x.panes[p].paused THEN x ELSE Paused(x, p)
  BY DEF PausePane
<1> HIDE DEF x
<1>3. x.panes[p] # None
  BY <1>1, NotNone
<1> QED BY <1>1, <1>2, <1>3, PausedIs

\* control_reset_offsets and the flag no-output.
LEMMA ResetIs ==
  ASSUME ControlAssumption, NEW P, NEW r, Fits(r, P), Waits(r), NEW quiet \in BOOLEAN
  PROVE  LET x == [ResetOffsets(r) EXCEPT !.quiet = quiet]
         IN  Fits(x, P) /\ Waits(x)
<1> DEFINE x == [ResetOffsets(r) EXCEPT !.quiet = quiet]
           t == Kept(r.all, {k \in DOMAIN r.all : r.all[k] = Line})
           f == [q \in Pane |-> None]
<1>1. r \in Recs /\ r.all \in Seq(Item)
  BY FitsFacts
<1>2. t \in Seq(Item) /\ (t # <<>> => r.all # <<>>)
  BY <1>1, DiscardAllIs
<1>3. \A q \in Pane : Owing(t, q) = 0
  BY <1>1, DiscardAllIs
<1>4. DiscardAll(r) = [r EXCEPT !.all = t]
  BY DEF DiscardAll
<1> HIDE DEF t
<1>5. x = [r EXCEPT !.all = t, !.panes = f, !.pending = <<>>, !.quiet = quiet]
  BY <1>1, <1>4 DEF ResetOffsets, Recs
<1> HIDE DEF x
<1>6. f \in [Pane -> CP \cup {None}] /\ \A q \in Pane : f[q] = None
  OBVIOUS
<1> HIDE DEF f
<1>7. /\ x.all = t /\ x.panes = f /\ x.pending = <<>> /\ x.armed = r.armed /\ x.exit = r.exit
      /\ x.quiet = quiet
  BY <1>1, <1>5 DEF Recs
<1>8. x \in Recs
  <2>1. <<>> \in Seq(Pane)
    OBVIOUS
  <2> DEFINE e == <<>>
  <2> HIDE DEF e
  <2>2. x = [r EXCEPT !.all = t, !.panes = f, !.pending = e, !.quiet = quiet]
    BY <1>5 DEF e
  <2>3. e \in Seq(Pane)
    BY <2>1 DEF e
  <2> QED BY <1>1, <1>2, <1>6, <2>2, <2>3 DEF Recs
<1>9. ASSUME NEW q \in Pane PROVE Owed(x, q, P)
  <2>1. x.panes[q] = None /\ Owing(x.all, q) = 0
    BY <1>3, <1>6, <1>7
  <2> QED BY <2>1 DEF Owed, Counts
<1>10. Fits(x, P)
  <2>1. Uniq(x.pending)
    BY <1>7 DEF Uniq
  <2> QED BY <1>3, <1>7, <1>8, <1>9, <2>1 DEF Fits
<1>11. Waits(x)
  BY <1>2, <1>3, <1>7 DEF Waits
<1> QED BY <1>10, <1>11 DEF x

-----------------------------------------------------------------------------
(***************************************************************************)
(* New data of a pane: control_write_output.                               *)
(***************************************************************************)
LEMMA PendingIs ==
  ASSUME NEW s \in Seq(Pane), Uniq(s), NEW p \in Pane
  PROVE  LET t == IF Contains(s, p) THEN s ELSE Append(s, p)
         IN  t \in Seq(Pane) /\ Uniq(t) /\ ToSet(t) = ToSet(s) \cup {p}
<1>1. Contains(s, p) <=> p \in ToSet(s)
  <2>1. ToSet(s) = {s[k] : k \in 1..Len(s)}
    BY SeqFacts
  <2> QED BY <2>1 DEF Contains
<1>2. CASE Contains(s, p)
  BY <1>1, <1>2
<1>3. CASE ~Contains(s, p)
  BY <1>1, <1>3, AppendIs
<1> QED BY <1>2, <1>3

\* A block more for a client whose offset of pane p counts.
Queued(r, p, len, block) ==
  [r EXCEPT !.panes[p].queued = len,
            !.all = Append(@, block),
            !.pending = IF Contains(@, p) THEN @ ELSE Append(@, p),
            !.armed = TRUE]

LEMMA QueuedIs ==
  ASSUME ControlAssumption, NEW P, NEW r, Fits(r, P), NEW p \in Pane, Counts(r, p),
         p \in r.sees, ~r.exit, NEW len \in 0..MaxBuffer, P[p].len = len,
         NEW block, block = [pane |-> p, size |-> len - r.panes[p].queued], block.size # 0
  PROVE  LET x == Queued(r, p, len, block) IN Fits(x, P) /\ Waits(x)
<1> DEFINE x == Queued(r, p, len, block)
           cp == r.panes[p]
           f == [r.panes EXCEPT ![p].queued = len]
           t == Append(r.all, block)
           u == IF Contains(r.pending, p) THEN r.pending ELSE Append(r.pending, p)
<1>1. /\ r \in Recs /\ r.all \in Seq(Item) /\ r.panes \in [Pane -> CP \cup {None}]
      /\ r.pending \in Seq(Pane) /\ \A q \in Pane : Owing(r.all, q) \in Nat
  BY FitsFacts
<1>2. /\ cp \in CP /\ cp.queued \in Int /\ cp.offset \in Int /\ cp.queued <= len
      /\ cp.offset >= 0 /\ Owing(r.all, p) <= cp.queued - cp.offset
      /\ (~Gone(P, p) => Owing(r.all, p) = cp.queued - cp.offset)
  <2>1. cp # None
    BY DEF Counts
  <2>2. cp \in CP
    BY <1>1, <2>1
  <2>3. cp.queued \in Int /\ cp.offset \in Int
    BY <2>2 DEF CP, Positions, Behind
  <2>4. Owed(r, p, P)
    BY DEF Fits
  <2> QED BY <2>1, <2>2, <2>3, <2>4 DEF Owed
<1>3. block \in Item /\ block.pane = p /\ block.size = len - cp.queued
  BY <1>2 DEF Item
<1>4. /\ t \in Seq(Item) /\ Owing(t, p) = Owing(r.all, p) + block.size
      /\ \A q \in Pane \ {p} : Owing(t, q) = Owing(r.all, q)
  <2>1. t \in Seq(Item)
    BY <1>1, <1>3, OneMore
  <2>2. \A q \in Pane : Owing(t, q) = Owing(r.all, q) + IF block.pane = q THEN block.size ELSE 0
    BY <1>1, <1>3, OneMore
  <2> HIDE DEF t
  <2>3. \A q \in Pane \ {p} : Owing(t, q) = Owing(r.all, q)
    <3> SUFFICES ASSUME NEW q \in Pane \ {p} PROVE Owing(t, q) = Owing(r.all, q)
      OBVIOUS
    <3>1. Owing(t, q) = Owing(r.all, q) + 0
      BY <1>3, <2>2
    <3> QED BY <1>1, <3>1
  <2> QED BY <1>3, <2>1, <2>2, <2>3
<1>5. u \in Seq(Pane) /\ Uniq(u) /\ ToSet(u) = ToSet(r.pending) \cup {p}
  BY <1>1, PendingIs DEF Fits
<1>6. /\ f \in [Pane -> CP \cup {None}] /\ f[p] = [cp EXCEPT !.queued = len] /\ f[p] \in CP
      /\ \A q \in Pane \ {p} : f[q] = r.panes[q]
  <2>1. len \in Positions
    BY Settings DEF Positions, Behind
  <2>2. [cp EXCEPT !.queued = len] \in CP
    BY <1>2, <2>1 DEF CP
  <2> QED BY <1>1, <2>2
<1>7. /\ f[p].queued = len /\ f[p].offset = cp.offset /\ f[p] # None
      /\ f[p].off = cp.off /\ f[p].paused = cp.paused
  BY <1>2, <1>6, NotNone DEF CP
<1> HIDE DEF t, u
<1>8. x = [r EXCEPT !.panes = f, !.all = t, !.pending = u, !.armed = TRUE]
  BY <1>1 DEF Queued, Recs, t, u
<1> HIDE DEF f, x
<1>9. x.all = t /\ x.panes = f /\ x.pending = u /\ x.sees = r.sees
  BY <1>1, <1>8 DEF Recs
<1>10. x.armed = TRUE /\ x.exit = r.exit /\ x.quiet = r.quiet
  BY <1>1, <1>8 DEF Recs
<1>11. x \in Recs
  BY <1>1, <1>4, <1>5, <1>6, <1>8 DEF Recs
<1>12. Owed(x, p, P)
  <2>1. Counts(x, p)
    BY <1>7, <1>9, <1>10 DEF Counts
  <2>2. p \in ToSet(x.pending) /\ p \in x.sees
    BY <1>5, <1>9
  <2>3. Owing(x.all, p) = Owing(r.all, p) + (len - cp.queued) /\ Owing(r.all, p) \in Nat
    BY <1>1, <1>3, <1>4, <1>9
  <2>4. Owing(x.all, p) <= len - cp.offset
    BY <1>2, <2>3
  <2>5. ~Gone(P, p) => Owing(x.all, p) = len - cp.offset
    BY <1>2, <2>3
  <2> QED BY <1>2, <1>7, <1>9, <2>1, <2>2, <2>4, <2>5 DEF Owed
<1>13. \A q \in Pane \ {p} : Owed(x, q, P)
  BY <1>4, <1>5, <1>6, <1>9, <1>10, Alike DEF Fits
<1>14. \A q \in Pane : Owed(x, q, P)
  BY <1>12, <1>13
<1>15. Fits(x, P)
  BY <1>5, <1>9, <1>10, <1>11, <1>14 DEF Fits
<1> QED BY <1>10, <1>15 DEF x, Waits

\* The data of a pane that has nothing for the client are passed over.
Ignored(r, p, len) == [r EXCEPT !.panes[p].offset = len, !.panes[p].queued = len]

LEMMA IgnoreIs ==
  ASSUME ControlAssumption, NEW P, NEW r, Fits(r, P), Waits(r), NEW p \in Pane,
         r.panes[p] # None, Owing(r.all, p) = 0, NEW len \in 0..MaxBuffer, P[p].len = len
  PROVE  Fits(Ignored(r, p, len), P) /\ Waits(Ignored(r, p, len))
<1> DEFINE x == Ignored(r, p, len)
           cp == [r.panes[p] EXCEPT !.offset = len, !.queued = len]
<1>1. r \in Recs /\ r.panes[p] \in CP /\ r.panes \in [Pane -> CP \cup {None}]
  BY FitsFacts
<1>2. len \in Positions
  BY Settings DEF Positions, Behind
<1>3. cp \in CP /\ cp.offset = len /\ cp.queued = len
  BY <1>1, <1>2 DEF CP
<1>4. x = Put(r, p, cp)
  BY <1>1 DEF Ignored, Put, Recs
<1> HIDE DEF x, cp
<1>5. cp.queued <= P[p].len /\ cp.offset = cp.queued /\ cp.offset >= 0
  BY <1>3
<1>6. Fits(Put(r, p, cp), P) /\ (Waits(r) => Waits(Put(r, p, cp)))
  BY <1>3, <1>5, PutIs
<1> QED BY <1>4, <1>6 DEF x

\* control_write_output, with the buffers Q that have the new data.
LEMMA WriteOutputIs ==
  ASSUME ControlAssumption, Buffers(pane), NEW r, Fits(r, pane), Waits(r), NEW c,
         NEW p \in Pane, NEW len \in 0..MaxBuffer, NEW old, old => "age" \in ControlUses,
         NEW Q, Buffers(Q), Q[p].len = len,
         \A q \in Pane : pane[q].len <= Q[q].len /\ (Gone(pane, q) => Gone(Q, q))
  PROVE  LET y == WriteOutput(r, c, p, len, old) IN Fits(y, Q) /\ Waits(y)
<1> DEFINE x == AddPane(r, p)
           cp == x.panes[p]
           y == WriteOutput(r, c, p, len, old)
           block == [pane |-> p, size |-> len - cp.queued]
<1>1. r \in Recs /\ Fits(r, Q)
  BY FitsFacts, FitsOther
<1>2. /\ Fits(x, Q) /\ Fits(x, pane) /\ x \in Recs /\ Waits(x) /\ cp \in CP /\ cp # None
      /\ x = [r EXCEPT !.panes = x.panes]
  <2>1. /\ Fits(x, pane) /\ (Waits(r) => Waits(x)) /\ cp \in CP
        /\ x = [r EXCEPT !.panes = x.panes]
    BY AddPaneIs
  <2> HIDE DEF x
  <2>2. Fits(x, Q)
    BY <2>1, FitsOther
  <2>3. x \in Recs
    BY <2>1, FitsFacts
  <2> QED BY <2>1, <2>2, <2>3, NotNone
<1>3. x.quiet = r.quiet /\ x.exit = r.exit /\ x.sees = r.sees
  BY <1>1, <1>2 DEF Recs
<1>4. CASE p \notin r.sees
  BY <1>1, <1>4 DEF WriteOutput
<1>5. CASE p \in r.sees /\ (r.quiet \/ r.exit)
  <2>1. Owing(r.all, p) = 0
    BY <1>5 DEF Fits, Owed, Counts
  <2>2. y = IF r.panes[p] = None THEN r
            ELSE Ignored(r, p, len)
    BY <1>5 DEF WriteOutput, Ignored
  <2> HIDE DEF y
  <2> QED BY <1>1, <2>1, <2>2, IgnoreIs DEF y
<1>6. CASE p \in r.sees /\ ~(r.quiet \/ r.exit) /\ (cp.off \/ cp.paused)
  <2>1. Owing(x.all, p) = 0
    BY <1>2, <1>6 DEF Fits, Owed, Counts
  <2>2. y = Ignored(x, p, len)
    BY <1>6 DEF WriteOutput, Ignored
  <2> HIDE DEF x, y
  <2> QED BY <1>2, <2>1, <2>2, IgnoreIs DEF y
<1>7. CASE p \in r.sees /\ ~(r.quiet \/ r.exit) /\ ~(cp.off \/ cp.paused)
  <2>1. CASE old /\ Blocks(r, p) # {}
    <3>1. y = TooOld(r, c, p)
      BY <1>7, <2>1 DEF WriteOutput
    <3>2. Owing(r.all, p) # 0
      BY <1>1, <2>1, NoBytes DEF Blocks, At, Recs
    <3>3. r.panes[p] # None
      BY <3>2 DEF Fits, Owed, Counts
    <3> HIDE DEF y
    <3>4. Fits(TooOld(r, c, p), Q) /\ (Waits(r) => Waits(TooOld(r, c, p)))
      BY <1>1, <2>1, <3>3, TooOldIs
    <3> QED BY <3>1, <3>4 DEF y
  <2>2. CASE ~(old /\ Blocks(r, p) # {}) /\ block.size = 0
    <3>1. y = x
      BY <1>7, <2>2 DEF WriteOutput
    <3> QED BY <1>2, <3>1
  <2>3. CASE ~(old /\ Blocks(r, p) # {}) /\ block.size # 0
    <3>1. y = Queued(x, p, len, block)
      BY <1>7, <2>3 DEF WriteOutput, Queued
    <3>2. Counts(x, p) /\ p \in x.sees /\ ~x.exit
      BY <1>2, <1>3, <1>7 DEF Counts
    <3> HIDE DEF x, y
    <3>3. Fits(Queued(x, p, len, block), Q) /\ Waits(Queued(x, p, len, block))
      <4> DEFINE b == block
      <4>1. b = [pane |-> p, size |-> len - x.panes[p].queued] /\ b.size # 0
        BY <2>3
      <4> HIDE DEF block
      <4> QED BY <1>2, <3>2, <4>1, QueuedIs
    <3> QED BY <3>1, <3>3 DEF y
  <2> QED BY <2>1, <2>2, <2>3
<1> QED BY <1>4, <1>5, <1>6, <1>7

-----------------------------------------------------------------------------
(***************************************************************************)
(* control_write_pending: some bytes of the blocks of one pane.            *)
(***************************************************************************)
\* What writing does not undo.
Better(r, x) ==
  /\ x.pending = r.pending /\ x.sees = r.sees
  /\ x.out >= r.out
  /\ \A q \in Pane : Owing(r.all, q) = 0 => Owing(x.all, q) = 0
  /\ "age" \notin ControlUses /\ ~LineFirst(r) => ~LineFirst(x)

LEMMA BetterStill ==
  ASSUME NEW r, NEW x, NEW y, r.out \in Nat, x.out \in Nat, y.out \in Nat,
         Better(r, x), Better(x, y)
  PROVE  Better(r, y)
BY DEF Better

\* size bytes of a pane have been written.
LEMMA MovedIs ==
  ASSUME ControlAssumption, Buffers(pane), NEW r, Fits(r, pane), NEW p \in Pane,
         Owing(r.all, p) # 0, NEW size \in Nat, size <= Owing(r.all, p),
         NEW t \in Seq(Item), Owing(t, p) = Owing(r.all, p) - size,
         \A q \in Pane \ {p} : Owing(t, q) = Owing(r.all, q)
  PROVE  LET x == Moved(r, p, size, t)
         IN  /\ Fits(x, pane) /\ x.all = t /\ x.pending = r.pending /\ x.sees = r.sees
             /\ x.out = r.out /\ size <= pane[p].len - r.panes[p].offset
<1> DEFINE x == Moved(r, p, size, t)
           cp == r.panes[p]
           f == [r.panes EXCEPT ![p].offset = cp.offset + size]
<1>1. /\ r \in Recs /\ r.all \in Seq(Item) /\ r.panes \in [Pane -> CP \cup {None}]
      /\ r.exit \in BOOLEAN /\ \A q \in Pane : Owing(r.all, q) \in Nat
  BY FitsFacts
<1>2. Counts(r, p) /\ p \in r.sees /\ p \in ToSet(r.pending) /\ ~r.exit /\ cp # None
  BY DEF Fits, Owed, Counts
<1>3. cp \in CP /\ cp.queued \in Int /\ cp.offset \in Int /\ cp.queued <= MaxBuffer
  BY <1>1, <1>2, Settings DEF CP, Positions, Behind
<1>4. /\ cp.queued <= pane[p].len /\ cp.offset >= 0
      /\ Owing(r.all, p) <= cp.queued - cp.offset
      /\ (~Gone(pane, p) => Owing(r.all, p) = cp.queued - cp.offset)
  <2>1. Owed(r, p, pane)
    BY DEF Fits
  <2> QED BY <1>2, <2>1 DEF Owed
<1>5. pane[p].len \in Int
  BY DEF Buffers
<1>6. size <= pane[p].len - cp.offset /\ cp.offset + size \in Positions
  <2>1. Owing(r.all, p) \in Nat
    BY <1>1
  <2>2. cp.offset + size <= cp.queued /\ cp.offset + size \in Int /\ cp.offset + size >= 0
    BY <1>3, <1>4, <2>1
  <2>3. size <= pane[p].len - cp.offset
    BY <1>3, <1>4, <1>5, <2>2
  <2>4. MaxBuffer \in Int
    BY Settings
  <2> QED BY <1>3, <2>2, <2>3, <2>4 DEF Positions, Behind
<1>7. /\ f \in [Pane -> CP \cup {None}] /\ f[p] = [cp EXCEPT !.offset = cp.offset + size]
      /\ f[p] \in CP /\ \A q \in Pane \ {p} : f[q] = r.panes[q]
  <2>1. [cp EXCEPT !.offset = cp.offset + size] \in CP
    BY <1>3, <1>6 DEF CP
  <2> QED BY <1>1, <2>1
<1>8. /\ f[p].queued = cp.queued /\ f[p].offset = cp.offset + size /\ f[p] # None
      /\ f[p].off = cp.off /\ f[p].paused = cp.paused
  BY <1>3, <1>7, NotNone DEF CP
<1>9. x = [r EXCEPT !.panes = f, !.all = t]
  BY <1>1 DEF Moved, Recs
<1> HIDE DEF f, x
<1>10. x.all = t /\ x.panes = f /\ x.pending = r.pending /\ x.sees = r.sees /\ x.out = r.out
  BY <1>1, <1>9 DEF Recs
<1>11. x.exit = r.exit /\ x.quiet = r.quiet
  BY <1>1, <1>9 DEF Recs
<1>12. x \in Recs
  BY <1>1, <1>7, <1>9 DEF Recs
<1>13. Owed(x, p, pane)
  <2>1. Counts(x, p)
    BY <1>2, <1>8, <1>10, <1>11 DEF Counts
  <2>2. Owing(x.all, p) <= cp.queued - (cp.offset + size)
    BY <1>1, <1>3, <1>4, <1>10
  <2>3. ~Gone(pane, p) => Owing(x.all, p) = cp.queued - (cp.offset + size)
    BY <1>1, <1>3, <1>4, <1>10
  <2>4. cp.offset + size >= 0
    BY <1>3, <1>4
  <2> QED BY <1>2, <1>4, <1>8, <1>10, <2>1, <2>2, <2>3, <2>4 DEF Owed
<1>14. \A q \in Pane \ {p} : Owed(x, q, pane)
  BY <1>7, <1>10, <1>11, Alike DEF Fits
<1>15. \A q \in Pane : Owed(x, q, pane)
  BY <1>13, <1>14
<1>16. Fits(x, pane)
  BY <1>2, <1>10, <1>11, <1>12, <1>15 DEF Fits
<1> QED BY <1>6, <1>10, <1>16 DEF x

LEMMA WriteMessageIs ==
  ASSUME ControlAssumption, NEW P, NEW r, Fits(r, P), NEW n \in Nat
  PROVE  LET x == WriteMessage(r, n)
         IN  /\ Fits(x, P) /\ x.out = r.out + n /\ x.all = r.all
             /\ x.pending = r.pending /\ x.sees = r.sees
<1> DEFINE x == WriteMessage(r, n)
<1>1. r \in Recs /\ r.out \in Nat
  BY FitsFacts
<1>2. x = [r EXCEPT !.out = r.out + n]
  BY DEF WriteMessage
<1> HIDE DEF x
<1>3. x.out = r.out + n /\ x.all = r.all /\ x.pending = r.pending /\ x.sees = r.sees
  BY <1>1, <1>2 DEF Recs
<1>4. x.exit = r.exit /\ x.quiet = r.quiet /\ x.panes = r.panes
  BY <1>1, <1>2 DEF Recs
<1>5. x \in Recs
  <2>1. r.out + n \in Nat
    BY <1>1
  <2> QED BY <1>1, <1>2, <2>1 DEF Recs
<1>6. \A q \in Pane : Owed(x, q, P)
  BY <1>3, <1>4, Alike DEF Fits
<1>7. Fits(x, P)
  BY <1>3, <1>4, <1>5, <1>6 DEF Fits
<1> QED BY <1>3, <1>7 DEF x

\* Values of a message on its way.
Writings == [r : Recs, used : Nat, message : Nat, n : Nat, stop : BOOLEAN, fatal : BOOLEAN]

\* Something has been written, or there is nothing.
Wrote(st, p) == st.message > 0 \/ st.r.out > 0 \/ Owing(st.r.all, p) = 0

\* How far client r is with a message of pane p.
Writing(r, p, limit) ==
  {st \in Writings : /\ Fits(st.r, pane) /\ Better(r, st.r)
                     /\ ~st.fatal /\ st.used <= limit
                     /\ st.stop => Owing(st.r.all, p) = 0
                     /\ st.used > 0 => Wrote(st, p)}

LEMMA WrittenIs ==
  ASSUME NEW r, NEW p, NEW limit \in Nat, NEW st \in Writing(r, p, limit), ~st.stop,
         NEW size \in Nat, st.used + size <= limit, NEW x, Fits(x, pane), Better(r, x),
         NEW m \in Nat, m > 0 \/ x.out > 0
  PROVE  Written(st, size, x, m) \in Writing(r, p, limit) /\ Wrote(Written(st, size, x, m), p)
<1> DEFINE y == Written(st, size, x, m)
<1>1. st \in Writings /\ st.used \in Nat /\ st.n \in Nat /\ ~st.stop /\ ~st.fatal
  BY DEF Writing, Writings
<1>2. st.used + size \in Nat /\ st.n + 1 \in Nat
  BY <1>1
<1>3. x \in Recs
  BY DEF Fits
<1>4. y = [st EXCEPT !.r = x, !.used = st.used + size, !.n = st.n + 1, !.message = m]
  BY DEF Written
<1> HIDE DEF y
<1>5. y \in Writings
  BY <1>1, <1>2, <1>3, <1>4 DEF Writings
<1>6. /\ y.r = x /\ y.used = st.used + size /\ y.message = m
      /\ y.stop = st.stop /\ y.fatal = st.fatal
  BY <1>1, <1>4 DEF Writings
<1>7. Wrote(y, p)
  BY <1>6 DEF Wrote
<1> QED BY <1>1, <1>5, <1>6, <1>7 DEF y, Writing

LEMMA LongBlockIs ==
  ASSUME ControlAssumption, Buffers(pane), NEW r, Fits(r, pane), NEW p \in Pane,
         NEW k \in At(r.all, p), NEW size \in Nat, size < r.all[k].size
  PROVE  LET x == Moved(r, p, size, Shorter(r.all, k, size))
         IN  /\ Fits(x, pane) /\ Better(r, x) /\ x.out \in Nat
             /\ size <= pane[p].len - r.panes[p].offset
<1> DEFINE s == r.all
           t == Shorter(s, k, size)
           x == Moved(r, p, size, t)
<1>1. r \in Recs /\ s \in Seq(Item) /\ r.out \in Nat
  BY FitsFacts
<1>2. Owing(s, p) # 0 /\ size <= Owing(s, p) /\ Owing(s, p) \in Nat
  <2>1. s[k].size \in Nat /\ s[k].size <= Owing(s, p) /\ Owing(s, p) \in Nat
    BY <1>1, TakenIsThere, ItemsAre, BytesAre DEF At
  <2> QED BY <2>1
<1>3. /\ t \in Seq(Item) /\ Owing(t, p) = Owing(s, p) - size
      /\ \A q \in Pane \ {p} : Owing(t, q) = Owing(s, q)
      /\ \A j \in DOMAIN s : t[j] = Line <=> s[j] = Line
  BY <1>1, ShorterBlock
<1>4. Len(t) = Len(s) /\ DOMAIN s = 1..Len(s) /\ Len(s) \in Nat
  <2>1. DOMAIN t = DOMAIN s
    BY DEF Shorter
  <2> QED BY <1>1, <1>3, <2>1, ItemsAre
<1> HIDE DEF t
<1>5. /\ Fits(x, pane) /\ x.all = t /\ x.pending = r.pending
      /\ x.sees = r.sees /\ x.out = r.out /\ size <= pane[p].len - r.panes[p].offset
  BY <1>2, <1>3, MovedIs
<1> HIDE DEF x
<1>6. LineFirst(x) => LineFirst(r)
  <2>1. t # <<>> => 1 \in DOMAIN s /\ Head(t) = t[1] /\ Head(s) = s[1] /\ s # <<>>
    BY <1>1, <1>3, <1>4
  <2> QED BY <1>3, <1>5, <2>1 DEF LineFirst
<1>7. \A q \in Pane : Owing(s, q) = 0 => Owing(t, q) = 0
  BY <1>2, <1>3
<1>8. Better(r, x)
  BY <1>1, <1>5, <1>6, <1>7 DEF Better
<1> QED BY <1>1, <1>5, <1>8 DEF x, t

LEMMA LastBytesAre ==
  ASSUME ControlAssumption, Buffers(pane), NEW r, Fits(r, pane), NEW p \in Pane,
         NEW k \in At(r.all, p), NEW size, size = r.all[k].size
  PROVE  LET x == Moved(r, p, size, Without(r.all, k))
         IN  /\ Fits(x, pane) /\ (~LineFirst(x) => Better(r, x)) /\ x.out = r.out /\ x.out \in Nat
             /\ x.pending = r.pending /\ x.sees = r.sees
             /\ \A q \in Pane : Owing(r.all, q) = 0 => Owing(x.all, q) = 0
             /\ size <= pane[p].len - r.panes[p].offset
<1> DEFINE s == r.all
           t == Without(s, k)
           x == Moved(r, p, size, t)
<1>1. r \in Recs /\ s \in Seq(Item) /\ r.out \in Nat
  BY FitsFacts
<1>2. Owing(s, p) # 0 /\ size <= Owing(s, p) /\ Owing(s, p) \in Nat /\ size \in Nat
  <2>1. s[k].size <= Owing(s, p) /\ Owing(s, p) \in Nat /\ k \in DOMAIN s
    BY <1>1, TakenIsThere, BytesAre DEF At
  <2>2. s[k].size \in Nat
    BY <1>1, <2>1, ItemsAre
  <2>3. s[k].size # 0
    BY <1>1, <2>1, ItemsAre DEF At
  <2> QED BY <2>1, <2>2, <2>3
<1>3. /\ t \in Seq(Item) /\ Owing(t, p) = Owing(s, p) - size
      /\ \A q \in Pane \ {p} : Owing(t, q) = Owing(s, q)
  BY <1>1, WithoutBlock
<1> HIDE DEF t
<1>4. /\ Fits(x, pane) /\ x.all = t /\ x.pending = r.pending
      /\ x.sees = r.sees /\ x.out = r.out /\ size <= pane[p].len - r.panes[p].offset
  BY <1>2, <1>3, MovedIs
<1> HIDE DEF x
<1>5. \A q \in Pane : Owing(r.all, q) = 0 => Owing(x.all, q) = 0
  BY <1>2, <1>3, <1>4
<1>6. ~LineFirst(x) => Better(r, x)
  BY <1>1, <1>4, <1>5 DEF Better
<1> QED BY <1>1, <1>4, <1>5, <1>6 DEF x, t

\* control_append_data.
LEMMA AppendBlockIs ==
  ASSUME ControlAssumption, Buffers(pane), NEW r, r.out \in Nat, NEW p \in Pane,
         NEW limit \in Nat, NEW st \in Writing(r, p, limit), ~st.stop,
         NEW k \in At(st.r.all, p), NEW size \in Nat \ {0}, size <= st.r.all[k].size,
         st.used + size <= limit
  PROVE  LET x == AppendBlock(st, p, k, size)
         IN  x \in Writing(r, p, limit) /\ Wrote(x, p)
<1> DEFINE s == st.r.all
           rest == Moved(st.r, p, size, Shorter(s, k, size))
           done == Moved(st.r, p, size, Without(s, k))
           n == st.message + size
           written == WriteMessage(done, n)
           flushed == Flush(written)
<1>1. /\ st \in Writings /\ Fits(st.r, pane) /\ Better(r, st.r) /\ ~st.fatal
      /\ st.used \in Nat /\ st.message \in Nat /\ st.n \in Nat
  BY DEF Writing, Writings
<1>2. st.r \in Recs /\ s \in Seq(Item) /\ st.r.out \in Nat /\ s[k].size \in Nat
  <2>1. st.r \in Recs /\ s \in Seq(Item) /\ st.r.out \in Nat
    BY <1>1, FitsFacts
  <2> QED BY <2>1, ItemsAre DEF At
<1>3. AppendBlock(st, p, k, size) =
        IF s[k].size > size THEN Written(st, size, rest, n)
        ELSE IF LineFirst(done) THEN Written(st, size, flushed, 0)
        ELSE Written(st, size, done, n)
  BY DEF AppendBlock
<1>4. CASE s[k].size > size
  <2>1. Fits(rest, pane) /\ Better(st.r, rest) /\ rest.out \in Nat
    BY <1>1, <1>2, <1>4, LongBlockIs
  <2>2. AppendBlock(st, p, k, size) = Written(st, size, rest, n)
    BY <1>3, <1>4
  <2> HIDE DEF rest
  <2>3. Better(r, rest)
    BY <1>1, <1>2, <2>1, BetterStill
  <2>4. n \in Nat /\ n > 0 /\ size \in Nat
    BY <1>1
  <2> HIDE DEF n
  <2> QED BY <2>1, <2>2, <2>3, <2>4, WrittenIs
<1>5. CASE ~(s[k].size > size)
  <2>1. size = s[k].size
    BY <1>2, <1>5
  <2>2. /\ Fits(done, pane) /\ (~LineFirst(done) => Better(st.r, done)) /\ done.out \in Nat
        /\ done.pending = st.r.pending /\ done.sees = st.r.sees /\ done.out = st.r.out
        /\ \A q \in Pane : Owing(s, q) = 0 => Owing(done.all, q) = 0
    BY <1>1, <2>1, LastBytesAre
  <2>3. AppendBlock(st, p, k, size) =
          IF LineFirst(done) THEN Written(st, size, flushed, 0)
          ELSE Written(st, size, done, n)
    BY <1>3, <1>5
  <2> HIDE DEF done
  <2>4. n \in Nat /\ n > 0 /\ size \in Nat
    BY <1>1
  <2> HIDE DEF n
  <2>5. CASE LineFirst(done)
    <3>1. /\ Fits(written, pane) /\ written.out = done.out + (n)
          /\ written.all = done.all /\ written.pending = done.pending
          /\ written.sees = done.sees
      <4>1. Fits(done, pane) /\ n \in Nat
        BY <2>2, <2>4
      <4> HIDE DEF written
      <4>2. LET y == WriteMessage(done, n)
            IN  /\ Fits(y, pane) /\ y.out = done.out + n /\ y.all = done.all
                /\ y.pending = done.pending /\ y.sees = done.sees
        BY <4>1, WriteMessageIs
      <4> QED BY <4>2 DEF written
    <3> HIDE DEF written
    <3>2. /\ Fits(flushed, pane) /\ flushed.out >= written.out
          /\ flushed.all # <<>> => Head(flushed.all) # Line
          /\ flushed = [written EXCEPT !.out = flushed.out, !.all = flushed.all]
          /\ \A q \in Pane : Owing(flushed.all, q) = Owing(written.all, q)
      BY <3>1, FlushIs
    <3> HIDE DEF flushed
    <3>3. flushed.pending = written.pending /\ flushed.sees = written.sees
      BY <3>1, <3>2 DEF Fits, Recs
    <3>4. flushed.out \in Nat /\ flushed.out > 0 /\ flushed.out >= st.r.out
      <4>1. flushed.out \in Nat
        BY <3>2, FitsFacts
      <4> QED BY <1>2, <2>2, <2>4, <3>1, <3>2, <4>1
    <3>5. Better(st.r, flushed)
      <4>1. \A q \in Pane : Owing(s, q) = 0 => Owing(flushed.all, q) = 0
        BY <2>2, <3>1, <3>2
      <4> QED BY <2>2, <3>1, <3>2, <3>3, <3>4, <4>1 DEF Better, LineFirst
    <3>6. Better(r, flushed)
      BY <1>1, <1>2, <3>4, <3>5, BetterStill
    <3>7. AppendBlock(st, p, k, size) = Written(st, size, flushed, 0)
      BY <2>3, <2>5
    <3> QED BY <2>4, <3>2, <3>4, <3>6, <3>7, WrittenIs
  <2>6. CASE ~LineFirst(done)
    <3>1. Better(r, done)
      BY <1>1, <1>2, <2>2, <2>6, BetterStill
    <3>2. AppendBlock(st, p, k, size) = Written(st, size, done, n)
      BY <2>3, <2>6
    <3> QED BY <2>2, <2>4, <3>1, <3>2, WrittenIs
  <2> QED BY <2>5, <2>6
<1> QED BY <1>4, <1>5

\* There is enough data for the next block: its bytes are between the offset
\* and the end of the buffer.
LEMMA NextBlockIs ==
  ASSUME ControlAssumption, Buffers(pane), NEW r, r.out \in Nat, NEW c, NEW p \in Pane,
         NEW limit \in Nat \ {0}, NEW st \in Writing(r, p, limit), NEW old \in Ages
  PROVE  LET x == NextBlock(st, c, p, limit, old)
         IN  x \in Writing(r, p, limit) /\ Wrote(x, p)
<1> DEFINE x == NextBlock(st, c, p, limit, old)
           s == st.r.all
           k == Min(At(s, p))
           size == Min({s[k].size, limit - st.used})
<1>1. /\ st \in Writings /\ Fits(st.r, pane) /\ Better(r, st.r) /\ ~st.fatal
      /\ st.used \in Nat /\ st.message \in Nat /\ st.n \in Nat /\ st.used <= limit
      /\ (st.stop => Owing(s, p) = 0) /\ (st.used > 0 => Wrote(st, p))
  BY DEF Writing, Writings
<1>2. st.r \in Recs /\ s \in Seq(Item) /\ st.r.out \in Nat
  BY <1>1, FitsFacts
<1>3. Blocks(st.r, p) = At(s, p) /\ (At(s, p) = {} <=> Owing(s, p) = 0)
  BY <1>2, NoBytes DEF Blocks, At
<1>4. x = IF st.stop \/ st.fatal \/ st.used = limit \/ At(s, p) = {} THEN st
          ELSE IF old = st.n + 1
            THEN [st EXCEPT !.r = TooOld(st.r, c, p), !.message = 0, !.stop = TRUE]
          ELSE IF pane[p].len - st.r.panes[p].offset < size THEN [st EXCEPT !.fatal = TRUE]
          ELSE AppendBlock(st, p, k, size)
  BY <1>3 DEF NextBlock
<1>5. CASE st.stop \/ st.used = limit \/ At(s, p) = {}
  <2>1. x = st
    BY <1>4, <1>5
  <2>2. Wrote(st, p)
    BY <1>1, <1>3, <1>5 DEF Wrote
  <2> QED BY <2>1, <2>2
<1>6. CASE ~(st.stop \/ st.used = limit \/ At(s, p) = {}) /\ old = st.n + 1
  <2> DEFINE y == TooOld(st.r, c, p)
  <2>1. x = [st EXCEPT !.r = y, !.message = 0, !.stop = TRUE]
    BY <1>1, <1>4, <1>6
  <2>2. "age" \in ControlUses
    BY <1>1, <1>6 DEF Ages
  <2>3. st.r.panes[p] # None
    BY <1>1, <1>3, <1>6 DEF Fits, Owed, Counts
  <2>4. /\ Fits(y, pane) /\ Owing(y.all, p) = 0 /\ y.out >= st.r.out
        /\ y.pending = st.r.pending /\ y.sees = st.r.sees
        /\ \A q \in Pane : Owing(st.r.all, q) = 0 => Owing(y.all, q) = 0
    BY <1>1, <2>2, <2>3, TooOldIs
  <2> HIDE DEF y, x
  <2>5. y \in Recs /\ y.out \in Nat
    BY <2>4, FitsFacts
  <2>6. Better(st.r, y)
    BY <2>2, <2>4 DEF Better
  <2>7. Better(r, y)
    BY <1>1, <1>2, <2>5, <2>6, BetterStill
  <2>8. x \in Writings /\ x.r = y /\ x.used = st.used /\ x.fatal = st.fatal
    BY <1>1, <2>1, <2>5 DEF Writings
  <2>9. Wrote(x, p)
    BY <2>4, <2>8 DEF Wrote
  <2>10. x \in Writing(r, p, limit)
    BY <1>1, <2>4, <2>7, <2>8, <2>9 DEF Writing
  <2> QED BY <2>9, <2>10 DEF x
<1>7. CASE ~(st.stop \/ st.used = limit \/ At(s, p) = {}) /\ old # st.n + 1
  <2>1. k \in At(s, p)
    <3>1. DOMAIN s = 1..Len(s) /\ Len(s) \in Nat
      BY <1>2, ItemsAre
    <3>2. At(s, p) \in SUBSET (1..Len(s)) /\ IsFiniteSet(1..Len(s))
      BY <3>1, FS_Interval DEF At
    <3>3. IsFiniteSet(At(s, p))
      BY <3>2, FS_Subset, Zenon
    <3>4. At(s, p) \subseteq Int
      BY <3>2
    <3> QED BY <1>7, <3>3, <3>4, MinOf
  <2> HIDE DEF k
  <2>2. s[k].size \in Nat \ {0}
    BY <1>2, <2>1, ItemsAre DEF At
  <2>3. size \in Nat \ {0} /\ size <= s[k].size /\ st.used + size <= limit
    <3> DEFINE T == {s[k].size, limit - st.used}
    <3>1. T \subseteq Int /\ T # {} /\ \A i \in T : i > 0
      BY <1>1, <1>7, <2>2
    <3>2. IsFiniteSet(T)
      <4>1. IsFiniteSet({s[k].size})
        BY FS_Singleton
      <4>2. IsFiniteSet({s[k].size} \cup {limit - st.used})
        BY <4>1, FS_AddElement
      <4>3. T = {s[k].size} \cup {limit - st.used}
        OBVIOUS
      <4> QED BY <4>2, <4>3
    <3>3. Min(T) \in T /\ \A i \in T : Min(T) <= i
      <4> HIDE DEF T
      <4> QED BY <3>1, <3>2, MinOf
    <3>4. s[k].size \in T /\ limit - st.used \in T
      OBVIOUS
    <3>5. size = Min(T)
      OBVIOUS
    <3> HIDE DEF T, size
    <3>6. size \in Int /\ size > 0 /\ size <= s[k].size /\ size <= limit - st.used
      BY <3>1, <3>3, <3>4, <3>5
    <3> QED BY <1>1, <3>6
  <2> HIDE DEF size
  <2>4. ~(pane[p].len - st.r.panes[p].offset < size)
    <3>1. Owing(s, p) # 0 /\ size <= Owing(s, p)
      <4>1. s[k].size <= Owing(s, p) /\ Owing(s, p) \in Nat
        BY <1>2, <2>1, TakenIsThere, BytesAre
      <4> QED BY <1>3, <1>7, <2>2, <2>3, <4>1
    <3>2. Counts(st.r, p) /\ Owed(st.r, p, pane) /\ st.r.panes[p] # None
      BY <1>1, <3>1 DEF Fits, Owed, Counts
    <3>3. st.r.panes[p] \in CP
      BY <1>1, <3>2, FitsFacts
    <3>4. st.r.panes[p].queued \in Int /\ st.r.panes[p].offset \in Int /\ pane[p].len \in Int
      BY <3>3 DEF CP, Positions, Behind, Buffers
    <3>5. /\ st.r.panes[p].queued <= pane[p].len
          /\ Owing(s, p) <= st.r.panes[p].queued - st.r.panes[p].offset
      BY <3>2 DEF Owed
    <3>6. Owing(s, p) \in Nat
      BY <1>2, BytesAre
    <3> QED BY <2>3, <3>1, <3>4, <3>5, <3>6
  <2>5. x = AppendBlock(st, p, k, size)
    BY <1>1, <1>4, <1>7, <2>4
  <2>6. LET y == AppendBlock(st, p, k, size) IN y \in Writing(r, p, limit) /\ Wrote(y, p)
    BY <1>7, <2>1, <2>3, AppendBlockIs
  <2> HIDE DEF x
  <2> QED BY <2>5, <2>6 DEF x
<1> QED BY <1>5, <1>6, <1>7

\* The blocks of pane p, one after another.
WrittenFrom(start, c, p, limit, old, q) ==
  FoldLeft(LAMBDA st, b : NextBlock(st, c, p, limit, old), start, q)

\* All blocks of a message.
LEMMA BlocksWrittenAre ==
  ASSUME ControlAssumption, Buffers(pane), NEW r, Fits(r, pane), NEW c, NEW p \in Pane,
         NEW limit \in Nat \ {0}, NEW old \in Ages,
         NEW start, start = [r |-> r, used |-> 0, message |-> 0, n |-> 0,
                             stop |-> FALSE, fatal |-> FALSE]
  PROVE  LET x == WrittenFrom(start, c, p, limit, old, r.all)
         IN  x \in Writing(r, p, limit) /\ Wrote(x, p)
<1> DEFINE q == r.all
           n == Len(q)
           S == Writing(r, p, limit)
           Do(x, y) == NextBlock(x, c, p, limit, old)
           G == [i \in (1..n) \X S |-> Do(i[2], q[i[1]])]
           R == {i \in (1..n) \X S : Wrote(i[2], p)}
           Result(f, t) == IF t = {} THEN start ELSE Do(f[t \ {Max(t)}], q[Max(t)])
           h == CHOOSE f : f = [t \in SUBSET (DOMAIN q) |-> Result(f, t)]
<1>0. r \in Recs /\ q \in Seq(Item) /\ r.out \in Nat
  BY FitsFacts
<1>1. n \in Nat /\ DOMAIN q = 1..n
  BY <1>0, ItemsAre
<1>2. start \in S
  <2>1. start \in Writings
    BY <1>0 DEF Writings
  <2>2. Better(r, r)
    BY <1>0 DEF Better
  <2> QED BY <2>1, <2>2 DEF Writing
<1>3. ASSUME NEW x \in S, NEW y
      PROVE  Do(x, y) \in S /\ Wrote(Do(x, y), p)
  BY <1>0, NextBlockIs
<1>5. FoldLeft(LAMBDA st, b : NextBlock(st, c, p, limit, old), start, r.all) = h[DOMAIN q]
  BY Zenon DEF FoldLeft, MapThenFoldSet, q, Do
<1> HIDE DEF q, S, Do
<1>4. G \in [(1..n) \X S -> S]
  BY <1>1, <1>3
<1>7. Leaves(R, n, S, G)
  <2>1. ASSUME NEW k \in 1..n, NEW x \in S PROVE <<k, G[<<k, x>>]>> \in R
    BY <1>1, <1>3
  <2>2. ASSUME NEW k \in 1..n, NEW x \in S, NEW j \in 1..(k - 1), <<j, x>> \in R
        PROVE  <<j, G[<<k, x>>]>> \in R
    <3>1. j \in 1..n
      BY <1>1
    <3> QED BY <1>1, <1>3, <3>1
  <2> HIDE DEF G, R
  <2> QED BY <2>1, <2>2 DEF Leaves
<1>8. h[1..n] \in S /\ \A k \in 1..n : <<k, h[1..n]>> \in R
  <2>1. PICK g : Solves(g, n, start, G)
    BY <1>1, Solvable
  <2>2. \A u \in SUBSET (1..n) : g[u] \in S
    <3> HIDE DEF G, n
    <3> QED BY <1>1, <1>2, <1>4, <2>1, SolvedIn
  <2>3. \A u \in SUBSET (1..n) : u # {} => Max(u) \in 1..n /\ u \ {Max(u)} \in SUBSET (1..n)
    BY <1>1, MaxIn
  <2>4. g = [u \in SUBSET (DOMAIN q) |-> Result(g, u)]
    <3>1. \A u \in SUBSET (1..n) : u # {} => Result(g, u) = G[<<Max(u), g[u \ {Max(u)}]>>]
      BY <2>2, <2>3
    <3> QED BY <1>1, <2>1, <3>1 DEF Solves
  <2>5. h = [u \in SUBSET (DOMAIN q) |-> Result(h, u)]
    <3> HIDE DEF Result
    <3> QED BY <2>4
  <2> HIDE DEF h
  <2>6. h[{}] = start
    BY <2>5
  <2>7. ASSUME NEW k \in 1..n, h[1..(k - 1)] \in S PROVE h[1..k] = G[<<k, h[1..(k - 1)]>>]
    <3>1. Max(1..k) = k /\ (1..k) \ {k} = 1..(k - 1) /\ 1..k # {}
      BY UpTo
    <3>2. 1..k \in SUBSET (DOMAIN q)
      BY <1>1
    <3> QED BY <2>5, <2>7, <3>1, <3>2
  <2>8. Follows(h, n, start, S, G)
    BY <2>6, <2>7 DEF Follows
  <2>9. n \in Nat
    BY <1>1
  <2> HIDE DEF G, n, R
  <2> QED BY <1>2, <1>4, <1>7, <2>8, <2>9, FoldKeeps, Zenon
<1>6. Wrote(h[1..n], p)
  <2>1. CASE n = 0
    <3>1. At(q, p) = {}
      BY <1>1, <2>1 DEF At
    <3>2. Owing(r.all, p) = 0
      BY <1>0, <3>1, NoBytes DEF q
    <3>3. h[1..n].r \in Recs /\ Better(r, h[1..n].r)
      BY <1>8 DEF S, Writing, Writings
    <3> HIDE DEF h
    <3> QED BY <3>2, <3>3 DEF Better, Wrote
  <2>2. CASE n # 0
    <3>1. n \in 1..n
      BY <1>1, <2>2
    <3> HIDE DEF h
    <3> QED BY <1>8, <3>1
  <2> QED BY <2>1, <2>2
<1> HIDE DEF h
<1>9. WrittenFrom(start, c, p, limit, old, r.all) = h[1..n]
  BY <1>1, <1>5, Zenon DEF WrittenFrom
<1> QED BY <1>6, <1>8, <1>9 DEF S

\* Something has been written, or pane p has no blocks.
Done(x, p) == x.out > 0 \/ Owing(x.all, p) = 0

\* A pane with output is written, or is done with.
LEMMA WritePendingIs ==
  ASSUME ControlAssumption, Buffers(pane), NEW r, Fits(r, pane), NEW c, NEW p \in Pane,
         NEW limit \in Nat \ {0}, NEW old \in Ages
  PROVE  LET x == WritePending(r, c, p, limit, old)
         IN  /\ Fits(x.r, pane) /\ Better(r, x.r) /\ x.fatal = FALSE
             /\ Done(x.r, p)
<1> DEFINE start == [r |-> r, used |-> 0, message |-> 0, n |-> 0, stop |-> FALSE, fatal |-> FALSE]
           end == WrittenFrom(start, c, p, limit, old, r.all)
           t == Kept(r.all, DOMAIN r.all \ At(r.all, p))
           y == DiscardPane(r, p)
           z == Flush(y)
           w == WriteMessage(end.r, end.message)
           x == WritePending(r, c, p, limit, old)
<1>1. r \in Recs /\ r.all \in Seq(Item) /\ r.out \in Nat
  BY FitsFacts
<1>2. x = IF p \notin r.sees \/ Exited(p) THEN [start EXCEPT !.r = z] ELSE [end EXCEPT !.r = w]
  BY DEF WritePending, WrittenFrom
<1>3. CASE p \notin r.sees \/ Exited(p)
  <2>1. /\ t \in Seq(Item) /\ Owing(t, p) = 0
        /\ \A q \in Pane \ {p} : Owing(t, q) = Owing(r.all, q)
    BY <1>1, DiscardPaneIs
  <2>2. y = [r EXCEPT !.all = t]
    BY DEF DiscardPane, Blocks, At
  <2>3. x.r = z /\ x.fatal = FALSE
    BY <1>2, <1>3
  <2> HIDE DEF t, y, x
  <2>4. y \in Recs /\ y.all = t /\ y.panes = r.panes /\ y.sees = r.sees /\ y.pending = r.pending
    BY <1>1, <2>1, <2>2 DEF Recs
  <2>5. y.exit = r.exit /\ y.quiet = r.quiet /\ y.out = r.out
    BY <1>1, <2>2 DEF Recs
  <2>6. Owed(y, p, pane)
    <3>1. Owed(r, p, pane) /\ (r.panes[p] # None => r.panes[p] \in CP) /\ Owing(r.all, p) \in Nat
      BY FitsFacts DEF Fits
    <3>2. Counts(y, p) = Counts(r, p)
      BY <2>4, <2>5 DEF Counts
    <3>3. Gone(pane, p) \/ ~Counts(r, p) \/ Owing(r.all, p) = 0
      BY <1>3, <3>1 DEF Owed, Gone, Exited
    <3>4. Counts(r, p) => r.panes[p].offset \in Int /\ r.panes[p].queued \in Int
      BY <3>1 DEF Counts, CP, Positions, Behind
    <3>5. CASE ~Counts(r, p)
      BY <2>1, <2>4, <3>1, <3>2, <3>5 DEF Owed
    <3>6. CASE Counts(r, p) /\ Gone(pane, p)
      <4>1. 0 <= r.panes[p].queued - r.panes[p].offset
        BY <3>1, <3>4, <3>6 DEF Owed
      <4> QED BY <2>1, <2>4, <3>1, <3>2, <3>6, <4>1 DEF Owed
    <3>7. CASE Counts(r, p) /\ Owing(r.all, p) = 0
      BY <2>1, <2>4, <2>5, <3>1, <3>2, <3>7 DEF Owed
    <3> QED BY <3>3, <3>5, <3>6, <3>7
  <2>7. \A q \in Pane \ {p} : Owed(y, q, pane)
    BY <2>1, <2>4, <2>5, Alike DEF Fits
  <2>8. \A q \in Pane : Owed(y, q, pane)
    BY <2>6, <2>7
  <2>9. \A q \in Pane : Owing(r.all, q) = 0 => Owing(y.all, q) = 0
    BY <2>1, <2>4
  <2>10. Fits(y, pane)
    BY <2>4, <2>5, <2>8, <2>9 DEF Fits
  <2>11. /\ Fits(z, pane) /\ z.out >= y.out /\ (z.all # <<>> => Head(z.all) # Line)
         /\ z = [y EXCEPT !.out = z.out, !.all = z.all]
         /\ \A q \in Pane : Owing(z.all, q) = Owing(y.all, q)
    BY <2>10, FlushIs
  <2> HIDE DEF z
  <2>12. z.pending = y.pending /\ z.sees = y.sees
    BY <2>4, <2>11 DEF Recs
  <2>13. Better(r, z)
    BY <2>4, <2>5, <2>9, <2>11, <2>12 DEF Better, LineFirst
  <2>14. Owing(z.all, p) = 0
    BY <2>1, <2>4, <2>11
  <2> QED BY <2>3, <2>11, <2>13, <2>14 DEF x, Done
<1>4. CASE ~(p \notin r.sees \/ Exited(p))
  <2>1. end \in Writing(r, p, limit) /\ Wrote(end, p)
    BY BlocksWrittenAre
  <2>2. x = [end EXCEPT !.r = w]
    BY <1>2, <1>4
  <2> HIDE DEF end, x
  <2>3. /\ end \in Writings /\ Fits(end.r, pane) /\ Better(r, end.r) /\ end.fatal = FALSE
        /\ end.message \in Nat
    BY <2>1 DEF Writing, Writings
  <2>4. /\ Fits(w, pane) /\ w.out = end.r.out + end.message /\ w.all = end.r.all
        /\ w.pending = end.r.pending /\ w.sees = end.r.sees
    BY <2>3, WriteMessageIs
  <2> HIDE DEF w
  <2>5. x.r = w /\ x.fatal = FALSE
    BY <2>2, <2>3 DEF Writings
  <2>6. end.r.out \in Nat /\ w.out \in Nat
    BY <2>3, <2>4, FitsFacts
  <2>7. Better(end.r, w)
    BY <2>3, <2>4, <2>6 DEF Better, LineFirst
  <2>8. Better(r, w)
    BY <1>1, <2>3, <2>6, <2>7, BetterStill
  <2>9. w.out > 0 \/ Owing(w.all, p) = 0
    BY <2>1, <2>3, <2>4, <2>6 DEF Wrote
  <2> QED BY <2>4, <2>5, <2>8, <2>9 DEF x, Done
<1> QED BY <1>3, <1>4

-----------------------------------------------------------------------------
(***************************************************************************)
(* control_write_callback: rounds over the panes that are pending.         *)
(***************************************************************************)
\* x may come after r while panes are written.
Later(r, x) ==
  /\ x.out >= r.out
  /\ \A q \in Pane : Owing(r.all, q) = 0 => Owing(x.all, q) = 0
  /\ "age" \notin ControlUses /\ ~LineFirst(r) => ~LineFirst(x)

Rounds(r) ==
  {st \in [r : Recs, fatal : BOOLEAN] : Fits(st.r, pane) /\ ~st.fatal /\ Later(r, st.r)}

LEMMA LaterStill ==
  ASSUME NEW r, NEW x, NEW y, r.out \in Nat, x.out \in Nat, y.out \in Nat,
         Later(r, x), Later(x, y)
  PROVE  Later(r, y) /\ \A q \in Pane : Done(x, q) => Done(y, q)
BY DEF Later, Done

\* A pane with no blocks leaves the list of pending panes.
Dropped(r, p) == [r EXCEPT !.pending = Kept(@, {k \in DOMAIN @ : @[k] # p})]

LEMMA DroppedIs ==
  ASSUME ControlAssumption, NEW P, NEW r, Fits(r, P), NEW p \in Pane, Owing(r.all, p) = 0
  PROVE  LET x == Dropped(r, p)
         IN  Fits(x, P) /\ x.all = r.all /\ x.out = r.out
<1> DEFINE x == Dropped(r, p)
           D == {k \in DOMAIN r.pending : r.pending[k] # p}
           t == Kept(r.pending, D)
<1>1. r \in Recs /\ r.pending \in Seq(Pane)
  BY FitsFacts
<1>2. D \in SUBSET (DOMAIN r.pending)
  OBVIOUS
<1>3. t \in Seq(Pane) /\ ToSet(t) = {r.pending[k] : k \in D} /\ Uniq(t)
  <2> HIDE DEF D
  <2> QED BY <1>1, <1>2, KeptIs DEF Fits
<1>4. \A q \in ToSet(r.pending) : q # p => q \in ToSet(t)
  <2>1. /\ ToSet(r.pending) = {r.pending[k] : k \in 1..Len(r.pending)}
        /\ DOMAIN r.pending = 1..Len(r.pending)
    BY <1>1, SeqFacts
  <2> HIDE DEF t
  <2> QED BY <1>3, <2>1
<1>5. x = [r EXCEPT !.pending = t]
  BY DEF Dropped
<1> HIDE DEF x, t, D
<1>6. x.pending = t /\ x.all = r.all /\ x.out = r.out /\ x.sees = r.sees /\ x.panes = r.panes
  BY <1>1, <1>5 DEF Recs
<1>7. x.exit = r.exit /\ x.quiet = r.quiet
  BY <1>1, <1>5 DEF Recs
<1>8. x \in Recs
  BY <1>1, <1>3, <1>5 DEF Recs
<1>9. ASSUME NEW q \in Pane PROVE Owed(x, q, P)
  <2>1. CASE q = p
    BY <1>6, <1>7, <2>1 DEF Fits, Owed, Counts
  <2>2. CASE q # p
    BY <1>4, <1>6, <1>7, <2>2, Alike DEF Fits
  <2> QED BY <2>1, <2>2
<1>10. Fits(x, P)
  BY <1>3, <1>6, <1>7, <1>8, <1>9 DEF Fits
<1> QED BY <1>6, <1>10 DEF x

\* One pane of a round.
LEMMA PendingPaneIs ==
  ASSUME ControlAssumption, Buffers(pane), NEW r, r.out \in Nat, NEW st \in Rounds(r), NEW c,
         NEW p \in Pane, NEW limit \in Nat \ {0}, NEW old \in [Pane -> Ages]
  PROVE  LET x == PendingPane(st, c, p, limit, old)
         IN  x \in Rounds(r) /\ Done(x.r, p) /\ \A q \in Pane : Done(st.r, q) => Done(x.r, q)
<1> DEFINE o == old[p]
           x == WritePending(st.r, c, p, limit, o)
           y == IF At(x.r.all, p) = {} THEN Dropped(x.r, p) ELSE x.r
           z == PendingPane(st, c, p, limit, old)
<1>1. /\ st \in [r : Recs, fatal : BOOLEAN] /\ Fits(st.r, pane) /\ ~st.fatal /\ Later(r, st.r)
      /\ st.r.out \in Nat
  BY FitsFacts DEF Rounds
<1>2. CASE st.r.out >= High
  <2>1. z = st
    BY <1>2 DEF PendingPane
  <2>2. Done(st.r, p)
    BY <1>1, <1>2, Settings DEF Done
  <2> QED BY <2>1, <2>2
<1>3. CASE ~(st.r.out >= High)
  <2>1. z = [r |-> y, fatal |-> x.fatal]
    BY <1>1, <1>3 DEF PendingPane, Blocks, At, Dropped
  <2>2. o \in Ages
    OBVIOUS
  <2> HIDE DEF o
  <2>3. /\ Fits(x.r, pane) /\ Better(st.r, x.r) /\ x.fatal = FALSE
        /\ Done(x.r, p)
    <3>1. Fits(st.r, pane)
      BY <1>1
    <3>2. Fits(x.r, pane)
      BY <2>2, <3>1, WritePendingIs
    <3>3. x.fatal = FALSE
      BY <2>2, <3>1, WritePendingIs
    <3>4. Better(st.r, x.r)
      BY <2>2, <3>1, WritePendingIs
    <3>5. Done(x.r, p)
      BY <2>2, <3>1, WritePendingIs
    <3> QED BY <3>2, <3>3, <3>4, <3>5
  <2> HIDE DEF x
  <2>4. Fits(y, pane) /\ y.all = x.r.all /\ y.out = x.r.out
    <3>1. CASE At(x.r.all, p) = {}
      <4>1. Owing(x.r.all, p) = 0
        BY <2>3, <3>1, FitsFacts, NoBytes
      <4> QED BY <2>3, <3>1, <4>1, DroppedIs
    <3>2. CASE At(x.r.all, p) # {}
      BY <2>3, <3>2
    <3> QED BY <3>1, <3>2
  <2> HIDE DEF y
  <2>5. y \in Recs /\ y.out \in Nat
    BY <2>4, FitsFacts
  <2>6. Later(st.r, y)
    BY <2>3, <2>4 DEF Better, Later, LineFirst
  <2>7. Later(r, y) /\ \A q \in Pane : Done(st.r, q) => Done(y, q)
    BY <1>1, <2>5, <2>6, LaterStill
  <2>8. Done(y, p)
    BY <2>3, <2>4 DEF Done
  <2> HIDE DEF z
  <2>9. z.r = y /\ z.fatal = FALSE /\ z \in [r : Recs, fatal : BOOLEAN]
    BY <2>1, <2>3, <2>5
  <2>10. z \in Rounds(r)
    BY <2>4, <2>7, <2>9 DEF Rounds
  <2> QED BY <2>7, <2>8, <2>9, <2>10 DEF z
<1> QED BY <1>2, <1>3

\* Every pane may write something.
LEMMA LimitIs ==
  ASSUME ControlAssumption, NEW P, NEW r, Fits(r, P), r.pending # <<>>
  PROVE  WriteLimit(r) \in Nat \ {0}
<1>1. r.pending \in Seq(Pane) /\ r.out \in Nat
  BY FitsFacts
<1>2. Len(r.pending) \in Nat \ {0}
  BY <1>1
<1>3. High - r.out \in Int /\ 3 * Len(r.pending) \in Nat \ {0}
  BY <1>1, <1>2, Settings
<1> DEFINE d == (High - r.out) \div (3 * Len(r.pending))
           T == {Minimum, d}
<1>4. d \in Int
  BY <1>3
<1>5. WriteLimit(r) = Max(T)
  BY DEF WriteLimit
<1> HIDE DEF d
<1>6. IsFiniteSet(T)
  <2>1. IsFiniteSet({Minimum} \cup {d})
    BY FS_Singleton, FS_AddElement
  <2>2. T = {Minimum} \cup {d}
    OBVIOUS
  <2> QED BY <2>1, <2>2
<1>7. T \subseteq Int /\ Minimum \in T
  BY <1>4, Settings
<1> HIDE DEF T
<1>8. Max(T) \in T /\ Max(T) >= Minimum
  BY <1>6, <1>7, MaxOf
<1> DEFINE m == Max(T)
<1>9. m \in Int /\ m >= Minimum
  BY <1>7, <1>8
<1> HIDE DEF m
<1>10. m \in Nat \ {0}
  BY <1>9, Settings
<1> QED BY <1>5, <1>10 DEF m

\* A round over the panes in q.
RoundOver(st, c, limit, old, q) ==
  FoldLeft(LAMBDA x, p : PendingPane(x, c, p, limit, old), st, q)

LEMMA RoundOverIs ==
  ASSUME ControlAssumption, Buffers(pane), NEW r, r.out \in Nat, NEW st \in Rounds(r), NEW c,
         NEW limit \in Nat \ {0}, NEW old \in [Pane -> Ages], NEW q \in Seq(Pane)
  PROVE  LET x == RoundOver(st, c, limit, old, q)
         IN  x \in Rounds(r) /\ \A p \in ToSet(q) : Done(x.r, p)
<1> DEFINE n == Len(q)
           S == Rounds(r)
           Do(x, y) == PendingPane(x, c, y, limit, old)
           G == [i \in (1..n) \X S |-> Do(i[2], q[i[1]])]
           R == {i \in (1..n) \X S : Done(i[2].r, q[i[1]])}
           Result(f, t) == IF t = {} THEN st ELSE Do(f[t \ {Max(t)}], q[Max(t)])
           h == CHOOSE f : f = [t \in SUBSET (DOMAIN q) |-> Result(f, t)]
<1>1. /\ n \in Nat /\ DOMAIN q = 1..n /\ (\A k \in 1..n : q[k] \in Pane)
      /\ ToSet(q) = {q[k] : k \in 1..n}
  BY SeqFacts
<1>2. st \in S
  OBVIOUS
<1>3. ASSUME NEW x \in S, NEW y \in Pane
      PROVE  /\ Do(x, y) \in S /\ Done(Do(x, y).r, y)
             /\ \A z \in Pane : Done(x.r, z) => Done(Do(x, y).r, z)
  BY PendingPaneIs
<1>5. FoldLeft(LAMBDA x, p : PendingPane(x, c, p, limit, old), st, q) = h[DOMAIN q]
  BY Zenon DEF FoldLeft, MapThenFoldSet, Do
<1> HIDE DEF S, Do
<1>4. G \in [(1..n) \X S -> S]
  BY <1>1, <1>3
<1>7. Leaves(R, n, S, G)
  <2>1. ASSUME NEW k \in 1..n, NEW x \in S PROVE <<k, G[<<k, x>>]>> \in R
    BY <1>1, <1>3
  <2>2. ASSUME NEW k \in 1..n, NEW x \in S, NEW j \in 1..(k - 1), <<j, x>> \in R
        PROVE  <<j, G[<<k, x>>]>> \in R
    <3>1. j \in 1..n /\ Done(x.r, q[j])
      BY <1>1, <2>2
    <3> QED BY <1>1, <1>3, <3>1
  <2> HIDE DEF G, R
  <2> QED BY <2>1, <2>2 DEF Leaves
<1>8. h[1..n] \in S /\ \A k \in 1..n : <<k, h[1..n]>> \in R
  <2>1. PICK g : Solves(g, n, st, G)
    BY <1>1, Solvable
  <2>2. \A u \in SUBSET (1..n) : g[u] \in S
    <3> HIDE DEF G, n
    <3> QED BY <1>1, <1>2, <1>4, <2>1, SolvedIn
  <2>3. \A u \in SUBSET (1..n) : u # {} => Max(u) \in 1..n /\ u \ {Max(u)} \in SUBSET (1..n)
    BY <1>1, MaxIn
  <2>4. g = [u \in SUBSET (DOMAIN q) |-> Result(g, u)]
    <3>1. \A u \in SUBSET (1..n) : u # {} => Result(g, u) = G[<<Max(u), g[u \ {Max(u)}]>>]
      BY <2>2, <2>3
    <3> QED BY <1>1, <2>1, <3>1 DEF Solves
  <2>5. h = [u \in SUBSET (DOMAIN q) |-> Result(h, u)]
    <3> HIDE DEF Result
    <3> QED BY <2>4
  <2> HIDE DEF h
  <2>6. h[{}] = st
    BY <2>5
  <2>7. ASSUME NEW k \in 1..n, h[1..(k - 1)] \in S PROVE h[1..k] = G[<<k, h[1..(k - 1)]>>]
    <3>1. Max(1..k) = k /\ (1..k) \ {k} = 1..(k - 1) /\ 1..k # {}
      BY UpTo
    <3>2. 1..k \in SUBSET (DOMAIN q)
      BY <1>1
    <3> QED BY <2>5, <2>7, <3>1, <3>2
  <2>8. Follows(h, n, st, S, G)
    BY <2>6, <2>7 DEF Follows
  <2>9. n \in Nat
    BY <1>1
  <2> HIDE DEF G, n, R
  <2> QED BY <1>2, <1>4, <1>7, <2>8, <2>9, FoldKeeps, Zenon
<1> HIDE DEF h
<1>6. \A p \in ToSet(q) : Done(h[1..n].r, p)
  <2>1. \A k \in 1..n : Done(h[1..n].r, q[k])
    BY <1>8
  <2> QED BY <1>1, <2>1
<1>9. RoundOver(st, c, limit, old, q) = h[1..n]
  BY <1>1, <1>5, Zenon DEF RoundOver
<1> QED BY <1>6, <1>8, <1>9 DEF S

\* Something has been written, or there is nothing to write.
Settled(x) == x.out > 0 \/ \A q \in Pane : Owing(x.all, q) = 0

\* After a round something has been written or no pane has blocks.
LEMMA RoundIs ==
  ASSUME ControlAssumption, Buffers(pane), NEW r, r.out \in Nat, NEW st \in Rounds(r), NEW c,
         NEW old \in [Pane -> Ages]
  PROVE  LET x == Round(st, c, old)
         IN  x \in Rounds(r) /\ Settled(x.r)
<1> DEFINE limit == WriteLimit(st.r)
           x == Round(st, c, old)
           y == RoundOver(st, c, limit, old, st.r.pending)
<1>1. /\ st.r \in Recs /\ Fits(st.r, pane) /\ ~st.fatal /\ Later(r, st.r)
      /\ st.r.out \in Nat /\ st.r.pending \in Seq(Pane)
  BY FitsFacts DEF Rounds
<1>2. CASE st.r.out >= High \/ st.r.pending = <<>>
  <2>1. x = st
    BY <1>2 DEF Round
  <2>2. CASE st.r.out >= High
    BY <1>1, <2>1, <2>2, Settings DEF Settled
  <2>3. CASE st.r.pending = <<>>
    <3>1. ToSet(st.r.pending) = {}
      BY <2>3 DEF ToSet
    <3>2. \A q \in Pane : Owing(st.r.all, q) = 0
      BY <1>1, <3>1 DEF Fits, Owed
    <3> QED BY <2>1, <3>2 DEF Settled
  <2> QED BY <1>2, <2>2, <2>3
<1>3. CASE ~(st.r.out >= High \/ st.r.pending = <<>>)
  <2>1. x = y
    BY <1>1, <1>3 DEF Round, RoundOver
  <2>2. limit \in Nat \ {0}
    BY <1>1, <1>3, LimitIs
  <2> HIDE DEF limit
  <2>3. y \in Rounds(r) /\ \A p \in ToSet(st.r.pending) : Done(y.r, p)
    BY <1>1, <2>2, RoundOverIs
  <2>4. st \in Rounds(st.r)
    <3>1. Later(st.r, st.r)
      BY <1>1 DEF Later
    <3> QED BY <1>1, <3>1 DEF Rounds
  <2>5. y \in Rounds(st.r)
    BY <1>1, <2>2, <2>4, RoundOverIs
  <2> HIDE DEF x, y
  <2>6. \A q \in Pane : Owing(st.r.all, q) = 0 => Owing(y.r.all, q) = 0
    BY <2>5 DEF Rounds, Later
  <2>7. \A q \in Pane : Owing(st.r.all, q) = 0 \/ q \in ToSet(st.r.pending)
    BY <1>1 DEF Fits, Owed
  <2>8. Settled(y.r)
    BY <2>3, <2>6, <2>7 DEF Settled, Done
  <2> QED BY <2>1, <2>3, <2>8 DEF x
<1> QED BY <1>2, <1>3

\* Rounds, one for every number in q.
Rounded(start, c, old, q) == FoldLeft(LAMBDA x, n : Round(x, c, old), start, q)

LEMMA RoundedIs ==
  ASSUME ControlAssumption, Buffers(pane), NEW r, r.out \in Nat, NEW st \in Rounds(r), NEW c,
         NEW old \in [Pane -> Ages], NEW n \in Nat \ {0}, NEW q, q = [k \in 1..n |-> k]
  PROVE  LET x == Rounded(st, c, old, q)
         IN  x \in Rounds(r) /\ Settled(x.r)
<1> DEFINE S == Rounds(r)
           Do(x, y) == Round(x, c, old)
           G == [i \in (1..n) \X S |-> Do(i[2], q[i[1]])]
           R == {i \in (1..n) \X S : Settled(i[2].r)}
           Result(f, t) == IF t = {} THEN st ELSE Do(f[t \ {Max(t)}], q[Max(t)])
           h == CHOOSE f : f = [t \in SUBSET (DOMAIN q) |-> Result(f, t)]
<1>1. n \in Nat /\ DOMAIN q = 1..n
  OBVIOUS
<1>2. st \in S
  OBVIOUS
<1>3. ASSUME NEW x \in S, NEW y
      PROVE  Do(x, y) \in S /\ Settled(Do(x, y).r)
  BY RoundIs
<1>5. FoldLeft(LAMBDA x, k : Round(x, c, old), st, q) = h[DOMAIN q]
  BY Zenon DEF FoldLeft, MapThenFoldSet, Do
<1> HIDE DEF S, Do
<1>4. G \in [(1..n) \X S -> S]
  BY <1>1, <1>3
<1>7. Leaves(R, n, S, G)
  <2>1. ASSUME NEW k \in 1..n, NEW x \in S PROVE <<k, G[<<k, x>>]>> \in R
    BY <1>1, <1>3
  <2>2. ASSUME NEW k \in 1..n, NEW x \in S, NEW j \in 1..(k - 1), <<j, x>> \in R
        PROVE  <<j, G[<<k, x>>]>> \in R
    <3>1. j \in 1..n
      BY <1>1
    <3> QED BY <1>1, <1>3, <3>1
  <2> HIDE DEF G, R
  <2> QED BY <2>1, <2>2 DEF Leaves
<1>8. h[1..n] \in S /\ \A k \in 1..n : <<k, h[1..n]>> \in R
  <2>1. PICK g : Solves(g, n, st, G)
    BY <1>1, Solvable
  <2>2. \A u \in SUBSET (1..n) : g[u] \in S
    <3> HIDE DEF G
    <3> QED BY <1>1, <1>2, <1>4, <2>1, SolvedIn
  <2>3. \A u \in SUBSET (1..n) : u # {} => Max(u) \in 1..n /\ u \ {Max(u)} \in SUBSET (1..n)
    BY <1>1, MaxIn
  <2>4. g = [u \in SUBSET (DOMAIN q) |-> Result(g, u)]
    <3>1. \A u \in SUBSET (1..n) : u # {} => Result(g, u) = G[<<Max(u), g[u \ {Max(u)}]>>]
      BY <2>2, <2>3
    <3> QED BY <1>1, <2>1, <3>1 DEF Solves
  <2>5. h = [u \in SUBSET (DOMAIN q) |-> Result(h, u)]
    <3> HIDE DEF Result
    <3> QED BY <2>4
  <2> HIDE DEF h
  <2>6. h[{}] = st
    BY <2>5
  <2>7. ASSUME NEW k \in 1..n, h[1..(k - 1)] \in S PROVE h[1..k] = G[<<k, h[1..(k - 1)]>>]
    <3>1. Max(1..k) = k /\ (1..k) \ {k} = 1..(k - 1) /\ 1..k # {}
      <4>1. k \in Nat /\ k # 0
        OBVIOUS
      <4> QED BY <4>1, UpTo
    <3>2. 1..k \in SUBSET (DOMAIN q)
      BY <1>1
    <3> QED BY <2>5, <2>7, <3>1, <3>2
  <2>8. Follows(h, n, st, S, G)
    BY <2>6, <2>7 DEF Follows
  <2>9. n \in Nat
    BY <1>1
  <2> HIDE DEF G, R
  <2> QED BY <1>2, <1>4, <1>7, <2>8, <2>9, FoldKeeps, Zenon
<1> HIDE DEF h
<1>6. Settled(h[1..n].r)
  <2>1. n \in 1..n
    BY <1>1
  <2> QED BY <1>8, <2>1
<1>9. Rounded(st, c, old, q) = h[1..n]
  BY <1>1, <1>5, Zenon DEF Rounded
<1> QED BY <1>6, <1>8, <1>9 DEF S

\* control_write_callback stops with something to write, or with no blocks:
\* then the client need not be waited for.
LEMMA WriteCallbackIs ==
  ASSUME ControlAssumption, Buffers(pane), NEW r, Fits(r, pane), NEW c,
         NEW old \in [Pane -> Ages]
  PROVE  LET x == WriteCallback(r, c, old)
         IN  Fits(x.r, pane) /\ Waits(x.r) /\ x.fatal = FALSE
<1> DEFINE f == Flush(r)
           start == [r |-> f, fatal |-> FALSE]
           n == High + Cardinality(Pane)
           q == [k \in 1..n |-> k]
           st == Rounded(start, c, old, q)
           y == [st.r EXCEPT !.armed = st.r.out > 0]
           x == WriteCallback(r, c, old)
<1>1. /\ Fits(f, pane) /\ (f.all # <<>> => Head(f.all) # Line) /\ f \in Recs /\ f.out \in Nat
  <2>1. Fits(f, pane) /\ (f.all # <<>> => Head(f.all) # Line)
    BY FlushIs
  <2> HIDE DEF f
  <2> QED BY <2>1, FitsFacts
<1> HIDE DEF f
<1>2. start \in Rounds(f)
  <2>1. Later(f, f)
    BY <1>1 DEF Later
  <2> QED BY <1>1, <2>1 DEF Rounds
<1>3. n \in Nat \ {0}
  <2>1. Cardinality(Pane) \in Nat
    BY Settings, FS_CardinalityType
  <2> QED BY <2>1, Settings
<1>4. x = [st EXCEPT !.r.armed = st.r.out > 0]
  BY Zenon DEF WriteCallback, Rounded, f
<1> HIDE DEF start, n, x
<1>5. st \in Rounds(f) /\ Settled(st.r)
  BY <1>1, <1>2, <1>3, RoundedIs
<1> HIDE DEF st
<1>6. /\ st \in [r : Recs, fatal : BOOLEAN] /\ Fits(st.r, pane) /\ st.fatal = FALSE
      /\ Later(f, st.r) /\ st.r \in Recs /\ st.r.out \in Nat /\ st.r.all \in Seq(Item)
  BY <1>5, FitsFacts DEF Rounds
<1>7. x.r = y /\ x.fatal = FALSE
  BY <1>4, <1>6
<1>8. /\ y.all = st.r.all /\ y.panes = st.r.panes /\ y.pending = st.r.pending /\ y.sees = st.r.sees
      /\ y.out = st.r.out
  BY <1>6 DEF Recs
<1>9. y.exit = st.r.exit /\ y.quiet = st.r.quiet
  BY <1>6 DEF Recs
<1>10. y.armed <=> st.r.out > 0
  BY <1>6 DEF Recs
<1>11. y \in Recs
  <2>1. (st.r.out > 0) \in BOOLEAN
    OBVIOUS
  <2> QED BY <1>6, <2>1 DEF Recs
<1> HIDE DEF y
<1>12. \A p \in Pane : Owed(y, p, pane)
  BY <1>6, <1>8, <1>9, Alike DEF Fits
<1>13. Fits(y, pane)
  BY <1>6, <1>8, <1>9, <1>11, <1>12 DEF Fits
<1>14. Waits(y)
  <2>1. ASSUME NEW p \in Pane, Owing(y.all, p) # 0 PROVE y.armed
    BY <1>5, <1>8, <1>10, <2>1 DEF Settled
  <2>2. ASSUME "age" \notin ControlUses, y.all # <<>> PROVE y.armed
    <3> DEFINE s == y.all
               p == s[1].pane
    <3>1. s \in Seq(Item) /\ s # <<>> /\ Head(s) # Line
      BY <1>1, <1>6, <1>8, <2>2 DEF Later, LineFirst
    <3>2. 1 \in DOMAIN s /\ s[1] # Line
      BY <3>1
    <3>3. p \in Pane
      BY <3>1, <3>2, ItemsAre
    <3>4. 1 \in At(s, p)
      BY <3>2 DEF At
    <3>5. Owing(s, p) # 0
      <4> HIDE DEF s, p
      <4> QED BY <3>1, <3>3, <3>4, NoBytes
    <3> QED BY <2>1, <3>3, <3>5
  <2> QED BY <2>1, <2>2 DEF Waits
<1> QED BY <1>7, <1>13, <1>14 DEF x

-----------------------------------------------------------------------------
(***************************************************************************)
(* server_client_loop: clients that exit, and data that all have used.     *)
(***************************************************************************)
\* server_client_check_exit drops blocks of a client that exits.
LEMMA CheckExitIs ==
  ASSUME ControlAssumption, NEW P, NEW r, Fits(r, P), Waits(r)
  PROVE  LET x == CheckExit(r)
         IN  /\ Fits(x, P) /\ Waits(x) /\ x.panes = r.panes /\ x.quiet = r.quiet
<1> DEFINE x == CheckExit(r)
           t == Kept(r.all, {k \in DOMAIN r.all : r.all[k] = Line})
           y == DiscardAll(r)
<1>1. r \in Recs /\ r.all \in Seq(Item)
  BY FitsFacts
<1>2. CASE ~r.exit \/ r.exited
  BY <1>2 DEF CheckExit
<1>3. CASE ~(~r.exit \/ r.exited)
  <2>1. t \in Seq(Item) /\ \A q \in Pane : Owing(t, q) = 0
    BY <1>1, DiscardAllIs
  <2>2. t # <<>> => r.all # <<>>
    BY <1>1, DiscardAllIs
  <2>3. y = [r EXCEPT !.all = t]
    BY DEF DiscardAll
  <2> HIDE DEF t
  <2> DEFINE b == y.all = <<>> /\ y.out = 0
  <2>4. x = [y EXCEPT !.exited = b]
    BY <1>3 DEF CheckExit
  <2> HIDE DEF x, y
  <2>5. b \in BOOLEAN
    OBVIOUS
  <2> HIDE DEF b
  <2>6. y \in Recs
    BY <1>1, <2>1, <2>3 DEF Recs
  <2>7. /\ x.all = y.all /\ y.all = t /\ x.panes = y.panes /\ y.panes = r.panes
        /\ x.pending = y.pending /\ y.pending = r.pending
    BY <1>1, <2>3, <2>4, <2>6 DEF Recs
  <2>8. /\ x.sees = y.sees /\ y.sees = r.sees /\ x.quiet = y.quiet /\ y.quiet = r.quiet
        /\ x.exit = y.exit /\ y.exit = r.exit /\ x.armed = y.armed /\ y.armed = r.armed
    BY <1>1, <2>3, <2>4, <2>6 DEF Recs
  <2>9. x \in Recs
    BY <2>4, <2>5, <2>6 DEF Recs
  <2>10. ASSUME NEW q \in Pane PROVE Owed(x, q, P)
    <3>1. Owed(r, q, P) /\ (r.panes[q] # None => r.panes[q] \in CP) /\ Owing(r.all, q) = 0
      BY <1>3, FitsFacts DEF Fits
    <3>2. Owing(x.all, q) = Owing(r.all, q)
      BY <2>1, <2>7, <3>1
    <3> QED BY <2>7, <2>8, <3>1, <3>2, Alike
  <2>11. Fits(x, P)
    BY <2>1, <2>7, <2>8, <2>9, <2>10 DEF Fits
  <2>12. Waits(x)
    BY <2>1, <2>2, <2>7, <2>8 DEF Waits
  <2> QED BY <2>7, <2>8, <2>11, <2>12 DEF x
<1> QED BY <1>2, <1>3

LEMMA ShiftIs ==
  ASSUME NEW i \in Int, NEW n \in Int
  PROVE  /\ Shift(i, n) \in Int /\ Shift(i, n) >= -1
         /\ Shift(i, n) = i - n \/ (Shift(i, n) = -1 /\ i - n < -1)
<1> DEFINE S == {-1, i - n}
<1>1. Shift(i, n) = Max(S)
  BY DEF Shift, Behind
<1>2. CASE i - n >= -1
  <2>1. Max(S) = i - n
    <3>1. S \subseteq Int /\ i - n \in S /\ \A y \in S : i - n >= y
      BY <1>2
    <3> HIDE DEF S
    <3> QED BY <3>1, MaxIs
  <2> QED BY <1>1, <1>2, <2>1
<1>3. CASE ~(i - n >= -1)
  <2>1. Max(S) = -1
    <3>1. S \subseteq Int /\ -1 \in S /\ \A y \in S : -1 >= y
      BY <1>3
    <3> HIDE DEF S
    <3> QED BY <3>1, MaxIs
  <2> QED BY <1>1, <1>3, <2>1
<1> QED BY <1>2, <1>3

\* Bytes are removed up to the offset of every client that counts.
LEMMA DrainedIs ==
  ASSUME ControlAssumption, Buffers(pane), \A c \in Client : Fits(cl[c], pane), NEW p \in Pane
  PROVE  /\ Drained(p) \in Nat /\ Drained(p) <= pane[p].parsed
         /\ ~pane[p].open => Drained(p) = 0
         /\ pane[p].open =>
              \A c \in Client : Counts(cl[c], p) => Drained(p) <= cl[c].panes[p].offset
<1> DEFINE C == {c \in Client : Counts(cl[c], p)}
           T == {cl[c].panes[p].offset : c \in C}
           S == {pane[p].parsed} \cup T
<1>1. pane[p].parsed \in Nat
  BY DEF Buffers
<1>2. CASE ~pane[p].open
  <2>1. Drained(p) = 0
    BY <1>2 DEF Drained
  <2> QED BY <1>1, <1>2, <2>1
<1>3. CASE pane[p].open
  <2>1. ASSUME NEW c \in C PROVE cl[c].panes[p].offset \in Nat
    <3>1. Fits(cl[c], pane) /\ Counts(cl[c], p) /\ cl[c].panes[p] # None
      BY DEF Counts
    <3>2. cl[c].panes[p].offset >= 0 /\ cl[c].panes[p] \in CP
      BY <3>1, FitsFacts DEF Fits, Owed
    <3> QED BY <3>2 DEF CP, Positions, Behind
  <2>2. S \subseteq Nat
    BY <1>1, <2>1
  <2>3. IsFiniteSet(S)
    <3>1. IsFiniteSet(Client) /\ C \in SUBSET Client
      BY Settings
    <3>2. IsFiniteSet(C)
      <4> HIDE DEF C
      <4> QED BY <3>1, FS_Subset, Zenon
    <3> DEFINE g == [c \in C |-> cl[c].panes[p].offset]
    <3>3. g \in Surjection(C, T)
      BY DEF Surjection
    <3>4. IsFiniteSet(T)
      <4> HIDE DEF g, T, C
      <4> QED BY <3>2, <3>3, FS_Surjection
    <3> HIDE DEF T
    <3>5. IsFiniteSet({pane[p].parsed})
      BY FS_Singleton
    <3> QED BY <3>4, <3>5, FS_Union
  <2>4. Drained(p) = Min(S)
    BY <1>3 DEF Drained
  <2>5. pane[p].parsed \in S /\ \A c \in Client : Counts(cl[c], p) => cl[c].panes[p].offset \in S
    OBVIOUS
  <2> HIDE DEF S
  <2>6. Min(S) \in S /\ \A y \in S : Min(S) <= y
    <3>1. S \subseteq Int /\ S # {}
      BY <2>2, <2>5
    <3> QED BY <2>3, <3>1, MinOf
  <2>7. Drained(p) \in Nat
    BY <2>2, <2>4, <2>6
  <2> QED BY <1>3, <2>4, <2>5, <2>6, <2>7
<1> QED BY <1>2, <1>3

LEMMA LessIs ==
  ASSUME ControlAssumption, NEW cp \in CP, NEW n \in Nat
  PROVE  LET x == Less(cp, n)
         IN  /\ x \in CP /\ x # None /\ x.off = cp.off /\ x.paused = cp.paused
             /\ x.offset = Shift(cp.offset, n) /\ x.queued = Shift(cp.queued, n)
<1> DEFINE x == Less(cp, n)
           a == Shift(cp.offset, n)
           b == Shift(cp.queued, n)
<1>1. MaxBuffer \in Nat /\ n \in Int
  BY Settings
<1>2. /\ cp.offset \in Int /\ cp.offset <= MaxBuffer
      /\ cp.queued \in Int /\ cp.queued <= MaxBuffer
  BY <1>1 DEF CP, Positions, Behind
<1>3. a \in Int /\ a >= -1 /\ (a = cp.offset - n \/ (a = -1 /\ cp.offset - n < -1))
  <2>1. cp.offset \in Int
    BY <1>2
  <2> QED BY <1>1, <2>1, ShiftIs, Zenon
<1>4. b \in Int /\ b >= -1 /\ (b = cp.queued - n \/ (b = -1 /\ cp.queued - n < -1))
  <2>1. cp.queued \in Int
    BY <1>2
  <2> QED BY <1>1, <2>1, ShiftIs, Zenon
<1> HIDE DEF a, b
<1>5. a \in Positions /\ b \in Positions
  <2>1. ASSUME NEW i \in Int, NEW j \in Int, j <= MaxBuffer, i >= -1,
               i = j - n \/ (i = -1 /\ j - n < -1)
        PROVE  i \in -1..MaxBuffer
    BY <1>1, <2>1
  <2>2. a \in -1..MaxBuffer
    BY <1>2, <1>3, <2>1
  <2>3. b \in -1..MaxBuffer
    BY <1>2, <1>4, <2>1
  <2> QED BY <2>2, <2>3 DEF Positions, Behind
<1>6. x = [cp EXCEPT !.offset = a, !.queued = b]
  BY DEF Less, a, b
<1> HIDE DEF x
<1>7. /\ x \in CP /\ x.off = cp.off /\ x.paused = cp.paused
      /\ x.offset = a /\ x.queued = b
  BY <1>5, <1>6 DEF CP
<1>8. x # None
  BY <1>7, NotNone
<1> QED BY <1>7, <1>8 DEF x, a, b

\* Data that all have used are removed.
LEMMA ShiftedIs ==
  ASSUME ControlAssumption, NEW P, Buffers(P), NEW r, Fits(r, P), Waits(r), NEW D \in [Pane -> Nat],
         \A p \in Pane : D[p] <= P[p].parsed /\ (~P[p].open => D[p] = 0),
         \A p \in Pane : P[p].open /\ Counts(r, p) => D[p] <= r.panes[p].offset,
         NEW Q, \A p \in Pane : Q[p].len = P[p].len - D[p] /\ (Gone(P, p) => Gone(Q, p))
  PROVE  Fits(Shifted(r, D), Q) /\ Waits(Shifted(r, D))
<1> DEFINE x == Shifted(r, D)
           f == [p \in Pane |-> IF r.panes[p] = None THEN None ELSE Less(r.panes[p], D[p])]
<1>1. r \in Recs /\ r.panes \in [Pane -> CP \cup {None}]
  BY FitsFacts
<1>2. x = [r EXCEPT !.panes = f]
  BY DEF Shifted
<1>3. ASSUME NEW p \in Pane, r.panes[p] # None
      PROVE  /\ f[p] \in CP /\ f[p] # None
             /\ f[p].off = r.panes[p].off /\ f[p].paused = r.panes[p].paused
             /\ f[p].offset = Shift(r.panes[p].offset, D[p])
             /\ f[p].queued = Shift(r.panes[p].queued, D[p])
  <2>1. r.panes[p] \in CP /\ D[p] \in Nat /\ f[p] = Less(r.panes[p], D[p])
    BY <1>1, <1>3
  <2> HIDE DEF f
  <2> QED BY <2>1, LessIs
<1>4. \A p \in Pane : r.panes[p] = None => f[p] = None
  OBVIOUS
<1>5. f \in [Pane -> CP \cup {None}]
  <2>1. \A p \in Pane : f[p] \in CP \cup {None}
    BY <1>3, <1>4
  <2> QED BY <2>1
<1> HIDE DEF f, x
<1>6. /\ x.all = r.all /\ x.panes = f /\ x.sees = r.sees /\ x.pending = r.pending
      /\ x.out = r.out
  BY <1>1, <1>2 DEF Recs
<1>7. x.quiet = r.quiet /\ x.exit = r.exit /\ x.armed = r.armed
  BY <1>1, <1>2 DEF Recs
<1>8. x \in Recs
  BY <1>1, <1>2, <1>5 DEF Recs
<1>9. ASSUME NEW p \in Pane PROVE Owed(x, p, Q)
  <2> DEFINE cp == r.panes[p]
  <2>1. Owed(r, p, P) /\ Owing(r.all, p) \in Nat
    BY FitsFacts DEF Fits
  <2>2. /\ P[p].len \in Nat /\ P[p].parsed \in Nat /\ P[p].parsed <= P[p].len /\ D[p] \in Nat
        /\ D[p] <= P[p].parsed
    BY DEF Buffers
  <2>3. CASE cp = None
    <3>1. f[p] = None
      BY <1>4, <2>3
    <3> QED BY <1>6, <2>1, <2>3, <3>1 DEF Owed, Counts
  <2>4. CASE cp # None
    <3>1. /\ f[p] \in CP /\ f[p].off = cp.off /\ f[p].paused = cp.paused
          /\ f[p].offset = Shift(cp.offset, D[p]) /\ f[p].queued = Shift(cp.queued, D[p])
          /\ f[p] # None
      BY <1>3, <2>4, NotNone
    <3>2. Counts(x, p) = Counts(r, p)
      BY <1>6, <1>7, <2>4, <3>1 DEF Counts
    <3>3. cp \in CP /\ cp.offset \in Int /\ cp.queued \in Int
      <4>1. cp \in CP
        BY <2>4, FitsFacts
      <4> QED BY <4>1 DEF CP, Positions, Behind
    <3>4. cp.queued <= P[p].len
      BY <2>1, <2>4 DEF Owed
    <3>5. /\ f[p].offset \in Int /\ f[p].queued \in Int
          /\ f[p].offset = cp.offset - D[p] \/ (f[p].offset = -1 /\ cp.offset - D[p] < -1)
          /\ f[p].queued = cp.queued - D[p] \/ (f[p].queued = -1 /\ cp.queued - D[p] < -1)
      <4>1. D[p] \in Int
        BY <2>2
      <4> HIDE DEF cp
      <4>2. /\ Shift(cp.offset, D[p]) \in Int
            /\ Shift(cp.offset, D[p]) = cp.offset - D[p]
               \/ (Shift(cp.offset, D[p]) = -1 /\ cp.offset - D[p] < -1)
        BY <3>3, <4>1, ShiftIs, Zenon
      <4>3. /\ Shift(cp.queued, D[p]) \in Int
            /\ Shift(cp.queued, D[p]) = cp.queued - D[p]
               \/ (Shift(cp.queued, D[p]) = -1 /\ cp.queued - D[p] < -1)
        BY <3>3, <4>1, ShiftIs, Zenon
      <4> QED BY <3>1, <4>2, <4>3, Zenon
    <3>6. f[p].queued <= Q[p].len
      <4>1. Q[p].len = P[p].len - D[p]
        OBVIOUS
      <4> HIDE DEF cp
      <4> QED BY <2>2, <3>3, <3>4, <3>5, <4>1
    <3>7. CASE Counts(r, p)
      <4>1. D[p] <= cp.offset
        BY <2>1, <3>7 DEF Owed
      <4>2. /\ cp.offset >= 0 /\ Owing(r.all, p) <= cp.queued - cp.offset
            /\ (~Gone(P, p) /\ ~r.exit => Owing(r.all, p) = cp.queued - cp.offset)
        BY <2>1, <3>7 DEF Owed
      <4> HIDE DEF cp
      <4>3. f[p].offset = cp.offset - D[p] /\ f[p].queued = cp.queued - D[p]
        BY <2>1, <2>2, <3>3, <3>5, <4>1, <4>2
      <4>4. f[p].offset >= 0 /\ f[p].queued - f[p].offset = cp.queued - cp.offset
        BY <2>2, <3>3, <4>1, <4>3
      <4>5. ~Gone(Q, p) => ~Gone(P, p)
        OBVIOUS
      <4>6. Owing(x.all, p) # 0 => p \in x.sees /\ p \in ToSet(x.pending)
        BY <1>6, <2>1 DEF Owed
      <4> QED BY <1>6, <1>7, <3>2, <3>6, <3>7, <4>2, <4>4, <4>5, <4>6 DEF Owed
    <3>8. CASE ~Counts(r, p)
      BY <1>6, <2>1, <3>2, <3>6, <3>8 DEF Owed
    <3> QED BY <3>7, <3>8
  <2> QED BY <2>3, <2>4
<1>10. Fits(x, Q)
  BY <1>6, <1>7, <1>8, <1>9 DEF Fits
<1>11. Waits(x)
  BY <1>6, <1>7 DEF Waits
<1> QED BY <1>10, <1>11 DEF x

-----------------------------------------------------------------------------
(***************************************************************************)
(* The inductive invariant, and every action.                              *)
(***************************************************************************)
\* All clients are owed what the buffers P have for them.
AllFit(C, P) ==
  C \in [Client -> Recs] /\ \A c \in Client : Fits(C[c], P) /\ Waits(C[c])

Owes ==
  /\ Buffers(pane) /\ AllFit(cl, pane)
  /\ phase \in {"events", "commands"}
  /\ fatal = FALSE

\* A client that has just come.
LEMMA EmptyOwes ==
  ASSUME ControlAssumption, NEW P, Buffers(P)
  PROVE  Fits(NewClient, P) /\ Waits(NewClient)
<1> DEFINE r == NewClient
<1>1. /\ r.panes = [p \in Pane |-> None] /\ r.all = <<>> /\ r.pending = <<>>
      /\ r.exit = FALSE /\ r.sees = Pane
  BY DEF NewClient
<1>2. r \in Recs
  <2>1. <<>> \in Seq(Item) /\ <<>> \in Seq(Pane)
    OBVIOUS
  <2>2. [p \in Pane |-> None] \in [Pane -> CP \cup {None}]
    OBVIOUS
  <2> QED BY <2>1, <2>2 DEF NewClient, Recs
<1>3. ASSUME NEW q \in Pane PROVE Owing(r.all, q) = 0
  <2>1. r.all \in Seq(Item) /\ At(r.all, q) = {}
    BY <1>1, <1>2 DEF At, Recs
  <2> QED BY <2>1, NoBytes
<1>4. Uniq(r.pending)
  <2>1. Len(<<>>) = 0
    OBVIOUS
  <2> QED BY <1>1, <2>1 DEF Uniq
<1> HIDE DEF r
<1>5. ASSUME NEW q \in Pane PROVE Owed(r, q, P)
  BY <1>1, <1>3 DEF Owed, Counts
<1> QED BY <1>1, <1>2, <1>3, <1>4, <1>5 DEF Fits, Waits, r

LEMMA OwesInit ==
  ASSUME ControlAssumption, ControlInit
  PROVE  Owes
<1>1. Buffers(pane)
  BY Settings DEF ControlInit, Buffers
<1>2. /\ cl = [c \in Client |-> NewClient]
      /\ phase \in {"events", "commands"} /\ fatal = FALSE
  BY DEF ControlInit
<1>3. Fits(NewClient, pane) /\ Waits(NewClient) /\ NewClient \in Recs
  BY <1>1, EmptyOwes DEF Fits
<1>4. AllFit(cl, pane)
  BY <1>2, <1>3 DEF AllFit
<1> QED BY <1>1, <1>2, <1>4 DEF Owes

LEMMA OwesFacts ==
  ASSUME Owes
  PROVE  /\ Buffers(pane) /\ cl \in [Client -> Recs] /\ fatal = FALSE
         /\ \A c \in Client : Fits(cl[c], pane) /\ Waits(cl[c]) /\ cl[c] \in Recs
         /\ phase \in {"events", "commands"}
BY DEF Owes, AllFit

\* One client changes.
LEMMA OneFits ==
  ASSUME ControlAssumption, Owes, NEW c \in Client, NEW r, Fits(r, pane), Waits(r),
         cl' = [cl EXCEPT ![c] = r], pane' = pane, phase' \in {"events", "commands"},
         fatal' = FALSE
  PROVE  Owes'
<1>1. r \in Recs
  BY DEF Fits
<1>2. AllFit(cl', pane)
  BY <1>1, OwesFacts DEF AllFit
<1>3. Buffers(pane')
  BY OwesFacts
<1>4. AllFit(cl', pane')
  BY <1>2
<1> QED BY <1>3, <1>4 DEF Owes

\* Commands and notifications for one client.
LEMMA BecomesIs ==
  ASSUME ControlAssumption, Owes, NEW c \in Client, NEW r, Fits(r, pane), Waits(r), Becomes(c, r)
  PROVE  Owes'
<1>1. /\ cl' = [cl EXCEPT ![c] = r] /\ pane' = pane /\ phase' \in {"events", "commands"}
      /\ fatal' = FALSE
  BY OwesFacts DEF Becomes
<1> QED BY <1>1, OneFits

LEMMA NotifyOwes ==
  ASSUME ControlAssumption, Owes, NEW c \in Client, Notify(c)
  PROVE  Owes'
<1>1. Fits(cl[c], pane) /\ Becomes(c, ControlWrite(cl[c]))
  BY OwesFacts DEF Notify
<1>2. Fits(ControlWrite(cl[c]), pane) /\ Waits(ControlWrite(cl[c]))
  BY <1>1, ControlWriteIs
<1> QED BY <1>1, <1>2, BecomesIs

LEMMA RefreshOwes ==
  ASSUME ControlAssumption, Owes, NEW c \in Client, Refresh(c)
  PROVE  Owes'
<1> DEFINE S(p) == {SetPaneOn(cl[c], p), SetPaneOff(cl[c], p),
                    ContinuePane(cl[c], p), PausePane(cl[c], p)}
<1>1. PICK p \in Pane : \E r \in S(p) : Becomes(c, r)
  BY DEF Refresh
<1>2. PICK r \in S(p) : Becomes(c, r)
  BY <1>1
<1>3. Buffers(pane) /\ Fits(cl[c], pane) /\ Waits(cl[c])
  BY OwesFacts
<1>4. /\ Fits(SetPaneOn(cl[c], p), pane) /\ Waits(SetPaneOn(cl[c], p))
      /\ Fits(SetPaneOff(cl[c], p), pane) /\ Waits(SetPaneOff(cl[c], p))
  BY <1>3, SetPaneOnIs, SetPaneOffIs
<1>5. /\ Fits(ContinuePane(cl[c], p), pane) /\ Waits(ContinuePane(cl[c], p))
      /\ Fits(PausePane(cl[c], p), pane) /\ Waits(PausePane(cl[c], p))
  BY <1>3, ContinuePaneIs, PausePaneIs
<1>6. Fits(r, pane) /\ Waits(r)
  BY <1>4, <1>5
<1> HIDE DEF S
<1> QED BY <1>2, <1>6, BecomesIs

LEMMA SetNoOutputOwes ==
  ASSUME ControlAssumption, Owes, NEW c \in Client, SetNoOutput(c)
  PROVE  Owes'
<1>1. PICK quiet \in BOOLEAN : Becomes(c, [ResetOffsets(cl[c]) EXCEPT !.quiet = quiet])
  BY DEF SetNoOutput
<1> DEFINE x == [ResetOffsets(cl[c]) EXCEPT !.quiet = quiet]
<1>2. Fits(cl[c], pane) /\ Waits(cl[c])
  BY OwesFacts
<1>3. Fits(x, pane) /\ Waits(x)
  BY <1>2, ResetIs
<1>4. Becomes(c, x)
  BY <1>1
<1> HIDE DEF x
<1> QED BY <1>3, <1>4, BecomesIs

LEMMA SwitchSessionOwes ==
  ASSUME ControlAssumption, Calm, Owes, NEW c \in Client, SwitchSession(c)
  PROVE  Owes'
<1>1. PICK S \in SUBSET Pane : /\ \A p \in Pane \ S : Blocks(cl[c], p) = {}
                               /\ Becomes(c, [cl[c] EXCEPT !.sees = S])
  BY DEF SwitchSession, Calm
<1> DEFINE r == cl[c]
           x == [r EXCEPT !.sees = S]
<1>2. Fits(r, pane) /\ Waits(r) /\ r \in Recs /\ r.all \in Seq(Item)
  BY OwesFacts, FitsFacts
<1>3. \A p \in Pane \ S : Owing(r.all, p) = 0
  <2>1. \A p \in Pane \ S : At(r.all, p) = {}
    BY <1>1 DEF Blocks, At
  <2> HIDE DEF r
  <2> QED BY <1>2, <2>1, NoBytes
<1>4. Becomes(c, x)
  BY <1>1
<1> HIDE DEF r
<1>5. /\ x.all = r.all /\ x.panes = r.panes /\ x.sees = S /\ x.pending = r.pending
      /\ x.quiet = r.quiet /\ x.exit = r.exit /\ x.armed = r.armed
  BY <1>2 DEF Recs
<1>6. x \in Recs
  BY <1>2 DEF Recs
<1> HIDE DEF x
<1>7. ASSUME NEW p \in Pane PROVE Owed(x, p, pane)
  <2>1. Owed(r, p, pane)
    BY <1>2 DEF Fits
  <2>2. Counts(x, p) = Counts(r, p)
    BY <1>5 DEF Counts
  <2> QED BY <1>3, <1>5, <2>1, <2>2 DEF Owed
<1>8. Fits(x, pane) /\ Waits(x)
  BY <1>2, <1>5, <1>6, <1>7 DEF Fits, Waits
<1> QED BY <1>4, <1>8, BecomesIs

LEMMA PaneReadsOwes ==
  ASSUME ControlAssumption, Owes, NEW p \in Pane, NEW n \in 1..MaxBuffer, PaneReads(p, n)
  PROVE  Owes'
<1> DEFINE len == pane[p].len + n
           Q == [pane EXCEPT ![p].len = len, ![p].parsed = len, ![p].reading = FALSE]
<1>1. PICK old \in [Client -> {FALSE, "age" \in ControlUses}] :
        cl' = [c \in Client |-> WriteOutput(cl[c], c, p, len, old[c])]
  BY DEF PaneReads
<1>2. pane' = Q /\ phase' = phase /\ fatal' = fatal /\ len <= MaxBuffer
  BY DEF PaneReads
<1>3. Buffers(pane) /\ MaxBuffer \in Nat
  BY OwesFacts, Settings
<1>4. len \in 0..MaxBuffer /\ pane[p].len <= len
  <2>1. pane[p].len \in Nat
    BY <1>3 DEF Buffers
  <2> QED BY <1>2, <1>3, <2>1
<1>5. /\ Buffers(Q) /\ Q[p].len = len
      /\ \A q \in Pane : pane[q].len <= Q[q].len /\ (Gone(pane, q) => Gone(Q, q))
  <2> HIDE DEF len
  <2>1. /\ Q[p].len = len /\ Q[p].parsed = len /\ Q[p].open = pane[p].open
        /\ Q[p].exited = pane[p].exited /\ \A q \in Pane \ {p} : Q[q] = pane[q]
    BY <1>3 DEF Buffers
  <2>2. Q \in [Pane -> [len : 0..MaxBuffer, parsed : 0..MaxBuffer, reading : BOOLEAN,
                        open : BOOLEAN, exited : BOOLEAN]]
    BY <1>3, <1>4 DEF Buffers
  <2> HIDE DEF Q
  <2>3. \A q \in Pane : Q[q].parsed <= Q[q].len
    BY <1>3, <1>4, <2>1 DEF Buffers
  <2>4. \A q \in Pane : pane[q].len <= Q[q].len
    <3>1. \A q \in Pane : pane[q].len \in Nat
      BY <1>3 DEF Buffers
    <3> QED BY <1>4, <2>1, <3>1
  <2>5. \A q \in Pane : Gone(pane, q) => Gone(Q, q)
    BY <2>1 DEF Gone
  <2> QED BY <2>1, <2>2, <2>3, <2>4, <2>5 DEF Buffers
<1> HIDE DEF Q, len
<1>6. ASSUME NEW c \in Client
      PROVE  /\ Fits(WriteOutput(cl[c], c, p, len, old[c]), Q)
             /\ Waits(WriteOutput(cl[c], c, p, len, old[c]))
  <2>1. Fits(cl[c], pane) /\ Waits(cl[c])
    BY OwesFacts
  <2>2. old[c] => "age" \in ControlUses
    OBVIOUS
  <2> QED BY <1>3, <1>4, <1>5, <2>1, <2>2, WriteOutputIs
<1>7. AllFit(cl', Q)
  <2>1. \A c \in Client : WriteOutput(cl[c], c, p, len, old[c]) \in Recs
    BY <1>6 DEF Fits
  <2> QED BY <1>1, <1>6, <2>1 DEF AllFit
<1>8. Buffers(pane') /\ AllFit(cl', pane')
  BY <1>2, <1>5, <1>7
<1>9. phase' \in {"events", "commands"} /\ fatal' = FALSE
  BY <1>2, OwesFacts
<1> QED BY <1>8, <1>9 DEF Owes

LEMMA PaneExitsOwes ==
  ASSUME ControlAssumption, Owes, NEW p \in Pane, PaneExits(p)
  PROVE  Owes'
<1>1. PICK open \in BOOLEAN : pane' = [pane EXCEPT ![p].exited = TRUE, ![p].open = open]
  BY DEF PaneExits
<1> DEFINE Q == [pane EXCEPT ![p].exited = TRUE, ![p].open = open]
<1>2. cl' = cl /\ pane' = Q /\ phase' = phase /\ fatal' = fatal
  BY <1>1 DEF PaneExits
<1>3. Buffers(pane)
  BY OwesFacts
<1>4. Q \in [Pane -> [len : 0..MaxBuffer, parsed : 0..MaxBuffer, reading : BOOLEAN,
                      open : BOOLEAN, exited : BOOLEAN]]
  BY <1>3 DEF Buffers
<1>5. /\ Q[p].exited = TRUE /\ \A q \in Pane \ {p} : Q[q] = pane[q]
      /\ \A q \in Pane : Q[q].len = pane[q].len /\ Q[q].parsed = pane[q].parsed
  BY <1>3 DEF Buffers
<1> HIDE DEF Q
<1>6. Buffers(Q)
  BY <1>3, <1>4, <1>5 DEF Buffers
<1>7. \A q \in Pane : pane[q].len <= Q[q].len /\ (Gone(pane, q) => Gone(Q, q))
  <2>1. \A q \in Pane : pane[q].len \in Nat
    BY <1>3 DEF Buffers
  <2>2. \A q \in Pane : Gone(pane, q) => Gone(Q, q)
    BY <1>5 DEF Gone
  <2> QED BY <1>5, <2>1, <2>2
<1>8. \A c \in Client : Fits(cl[c], Q) /\ Waits(cl[c])
  BY <1>3, <1>6, <1>7, FitsOther, OwesFacts
<1>9. AllFit(cl', Q)
  BY <1>2, <1>8, OwesFacts DEF AllFit
<1>10. Buffers(pane') /\ AllFit(cl', pane')
  BY <1>2, <1>6, <1>9
<1>11. phase' \in {"events", "commands"} /\ fatal' = FALSE
  BY <1>2, OwesFacts
<1> QED BY <1>10, <1>11 DEF Owes

LEMMA ClientTakesOwes ==
  ASSUME ControlAssumption, Owes, NEW c \in Client, NEW n \in 0..MaxOut + High, ClientTakes(c, n)
  PROVE  Owes'
<1> DEFINE b == cl[c].out > n
           r == [cl[c] EXCEPT !.out = @ - n, !.armed = cl[c].out > n]
<1>1. Fits(cl[c], pane) /\ Waits(cl[c]) /\ cl[c] \in Recs /\ Buffers(pane) /\ cl[c].out \in Nat
  BY OwesFacts, FitsFacts
<1>2. n \in Nat /\ n <= cl[c].out /\ cl[c].armed
  <2>1. n \in IF cl[c].out = 0 THEN {0} ELSE 1..cl[c].out
    BY DEF ClientTakes
  <2>2. cl[c].armed
    BY DEF ClientTakes
  <2> QED BY <1>1, <2>1, <2>2
<1>3. r.out \in Nat /\ r.out = cl[c].out - n /\ b \in BOOLEAN
  BY <1>1, <1>2 DEF Recs
<1>4. /\ r.all = cl[c].all /\ r.panes = cl[c].panes /\ r.sees = cl[c].sees
      /\ r.pending = cl[c].pending /\ r.quiet = cl[c].quiet /\ r.exit = cl[c].exit
      /\ r.armed = b
  BY <1>1 DEF Recs
<1>5. r \in Recs
  BY <1>1, <1>3 DEF Recs
<1>6. \/ r.out > Low /\ cl' = [cl EXCEPT ![c] = r] /\ fatal' = fatal
      \/ \E old \in [Pane -> Ages] :
           LET st == WriteCallback(r, c, old)
           IN cl' = [cl EXCEPT ![c] = st.r] /\ fatal' = st.fatal
  BY DEF ClientTakes
<1>7. pane' = pane /\ phase' \in {"events", "commands"}
  BY OwesFacts DEF ClientTakes
<1>8. r.out > Low => b
  <2>1. Low \in Nat
    BY Settings
  <2>2. r.out > Low => cl[c].out > n
    BY <1>1, <1>2, <1>3, <2>1
  <2> QED BY <2>2
<1> HIDE DEF r, b
<1>9. ASSUME NEW q \in Pane PROVE Owed(r, q, pane)
  <2>1. Owed(cl[c], q, pane)
    BY <1>1 DEF Fits
  <2> QED BY <1>4, <2>1, Alike
<1>10. Fits(r, pane)
  BY <1>1, <1>4, <1>5, <1>9 DEF Fits
<1>11. CASE r.out > Low /\ cl' = [cl EXCEPT ![c] = r] /\ fatal' = fatal
  <2>1. Waits(r)
    BY <1>4, <1>8, <1>11 DEF Waits
  <2>2. fatal' = FALSE
    BY <1>11, OwesFacts
  <2> QED BY <1>7, <1>10, <1>11, <2>1, <2>2, OneFits
<1>12. CASE \E old \in [Pane -> Ages] :
              LET st == WriteCallback(r, c, old)
              IN cl' = [cl EXCEPT ![c] = st.r] /\ fatal' = st.fatal
  <2>1. PICK old \in [Pane -> Ages] :
          LET st == WriteCallback(r, c, old)
          IN cl' = [cl EXCEPT ![c] = st.r] /\ fatal' = st.fatal
    BY <1>12
  <2> DEFINE st == WriteCallback(r, c, old)
  <2>2. Fits(st.r, pane) /\ Waits(st.r) /\ st.fatal = FALSE
    BY <1>1, <1>10, WriteCallbackIs
  <2>3. cl' = [cl EXCEPT ![c] = st.r] /\ fatal' = st.fatal
    BY <2>1
  <2> HIDE DEF st
  <2> QED BY <1>7, <2>2, <2>3, OneFits
<1> QED BY <1>6, <1>11, <1>12

LEMMA RespawnOwes ==
  ASSUME ControlAssumption, Calm, Owes, NEW p \in Pane, Respawn(p)
  PROVE  Owes'
<1> DEFINE Q == [pane EXCEPT ![p].len = 0, ![p].reading = TRUE, ![p].open = TRUE,
                             ![p].exited = FALSE]
<1>1. /\ pane[p].parsed = 0
      /\ \A c \in Client : cl[c].panes[p] # None => cl[c].panes[p].queued <= 0
  BY DEF Respawn, Calm
<1>2. cl' = cl /\ pane' = Q /\ phase' \in {"events", "commands"} /\ fatal' = FALSE
  BY OwesFacts DEF Respawn
<1>3. Buffers(pane)
  BY OwesFacts
<1>4. Q \in [Pane -> [len : 0..MaxBuffer, parsed : 0..MaxBuffer, reading : BOOLEAN,
                      open : BOOLEAN, exited : BOOLEAN]]
  <2>1. 0 \in 0..MaxBuffer
    BY Settings
  <2> QED BY <1>3, <2>1 DEF Buffers
<1>5. /\ Q[p].len = 0 /\ Q[p].parsed = pane[p].parsed
      /\ \A q \in Pane \ {p} : Q[q] = pane[q]
  BY <1>3 DEF Buffers
<1> HIDE DEF Q
<1>6. Buffers(Q)
  <2>1. \A q \in Pane : Q[q].parsed <= Q[q].len
    BY <1>1, <1>3, <1>5 DEF Buffers
  <2> QED BY <1>4, <2>1 DEF Buffers
<1>7. ASSUME NEW c \in Client PROVE Fits(cl[c], Q)
  <2> DEFINE r == cl[c]
  <2>1. Fits(r, pane)
    BY OwesFacts
  <2>2. ASSUME NEW q \in Pane PROVE Owed(r, q, Q)
    <3>1. Owed(r, q, pane) /\ Owing(r.all, q) \in Nat /\ (r.panes[q] # None => r.panes[q] \in CP)
      BY <2>1, FitsFacts DEF Fits
    <3>2. CASE q # p
      <4>1. Q[q] = pane[q]
        BY <1>5, <3>2
      <4> QED BY <3>1, <4>1 DEF Owed, Gone
    <3>3. CASE q = p
      <4> DEFINE cp == r.panes[p]
                 n == Owing(r.all, p)
      <4>1. cp # None => cp.queued <= 0 /\ cp.queued \in Int /\ cp.offset \in Int
        <5>1. cp # None => cp \in CP
          BY <3>1, <3>3
        <5> QED BY <1>1, <5>1 DEF CP, Positions, Behind
      <4>2. CASE ~Counts(r, p)
        BY <1>5, <3>1, <3>3, <4>1, <4>2 DEF Owed
      <4>3. CASE Counts(r, p)
        <5>1. cp # None /\ cp.offset >= 0 /\ n <= cp.queued - cp.offset
          BY <3>1, <3>3, <4>3 DEF Owed, Counts
        <5>2. n \in Nat
          BY <3>1, <3>3
        <5>3. cp.queued <= Q[p].len
          BY <1>5, <4>1, <5>1
        <5>4. n = 0 /\ cp.queued - cp.offset = 0
          <6> HIDE DEF cp, n
          <6> QED BY <4>1, <5>1, <5>2
        <5> QED BY <3>3, <4>3, <5>1, <5>3, <5>4 DEF Owed
      <4> QED BY <4>2, <4>3
    <3> QED BY <3>2, <3>3
  <2> QED BY <2>1, <2>2 DEF Fits
<1>8. AllFit(cl', Q)
  BY <1>2, <1>7, OwesFacts DEF AllFit
<1>9. Buffers(pane') /\ AllFit(cl', pane')
  BY <1>2, <1>6, <1>8
<1> QED BY <1>2, <1>9 DEF Owes

LEMMA LoopOwes ==
  ASSUME ControlAssumption, Owes, Loop
  PROVE  Owes'
<1> DEFINE checked == [c \in Client |-> CheckExit(cl[c])]
           D == [p \in Pane |-> Drained(p)]
           b(p) == IF pane[p].open THEN Reads(p, checked) ELSE pane[p].reading
           Q == [p \in Pane |->
                  [pane[p] EXCEPT !.len = Max({0, @ - D[p]}), !.parsed = @ - D[p],
                                  !.reading = b(p)]]
<1>1. /\ phase' = "events" /\ fatal' = fatal
      /\ pane' = Q /\ cl' = [c \in Client |-> Shifted(checked[c], D)]
  BY DEF Loop
<1>2. Buffers(pane) /\ (\A c \in Client : Fits(cl[c], pane) /\ Waits(cl[c])) /\ MaxBuffer \in Nat
  BY OwesFacts, Settings
<1>3. \A p \in Pane : /\ D[p] \in Nat /\ D[p] <= pane[p].parsed
                      /\ ~pane[p].open => D[p] = 0
                      /\ pane[p].open =>
                           \A c \in Client : Counts(cl[c], p) => D[p] <= cl[c].panes[p].offset
  BY <1>2, DrainedIs
<1>4. D \in [Pane -> Nat]
  BY <1>3
<1>5. ASSUME NEW p \in Pane PROVE b(p) \in BOOLEAN
  BY <1>2 DEF Buffers, Reads
<1> HIDE DEF D, b
<1>6. ASSUME NEW p \in Pane
      PROVE  /\ pane[p].len - D[p] \in 0..MaxBuffer /\ pane[p].parsed - D[p] \in 0..MaxBuffer
             /\ pane[p].parsed - D[p] <= pane[p].len - D[p]
             /\ Max({0, pane[p].len - D[p]}) = pane[p].len - D[p]
  <2>1. /\ pane[p].len \in 0..MaxBuffer /\ pane[p].parsed \in 0..MaxBuffer
        /\ pane[p].parsed <= pane[p].len
    BY <1>2 DEF Buffers
  <2>2. D[p] \in Nat /\ D[p] <= pane[p].parsed
    BY <1>3
  <2>3. /\ pane[p].len - D[p] \in 0..MaxBuffer /\ pane[p].parsed - D[p] \in 0..MaxBuffer
        /\ pane[p].parsed - D[p] <= pane[p].len - D[p]
    BY <1>2, <2>1, <2>2
  <2> DEFINE m == pane[p].len - D[p]
  <2>4. m \in Nat
    BY <2>3
  <2>5. Max({0, m}) = m
    <3> HIDE DEF m
    <3>1. {0, m} \subseteq Int /\ m \in {0, m} /\ \A y \in {0, m} : m >= y
      BY <2>4
    <3> QED BY <3>1, MaxIs
  <2> QED BY <2>3, <2>5
<1>7. Q = [p \in Pane |-> [pane[p] EXCEPT !.len = pane[p].len - D[p],
                                         !.parsed = pane[p].parsed - D[p], !.reading = b(p)]]
  BY <1>6
<1>8. ASSUME NEW p \in Pane
      PROVE  /\ Q[p].len = pane[p].len - D[p] /\ Q[p].parsed = pane[p].parsed - D[p]
             /\ Q[p].open = pane[p].open /\ Q[p].exited = pane[p].exited
             /\ Q[p] \in [len : 0..MaxBuffer, parsed : 0..MaxBuffer, reading : BOOLEAN,
                          open : BOOLEAN, exited : BOOLEAN]
  <2>1. Q[p] = [pane[p] EXCEPT !.len = pane[p].len - D[p],
                               !.parsed = pane[p].parsed - D[p], !.reading = b(p)]
    BY <1>7
  <2> HIDE DEF Q
  <2> QED BY <1>2, <1>5, <1>6, <2>1 DEF Buffers
<1>9. Q = [p \in Pane |-> Q[p]]
  OBVIOUS
<1> HIDE DEF Q
<1>10. Buffers(Q)
  BY <1>6, <1>8, <1>9 DEF Buffers
<1>11. \A p \in Pane : Gone(pane, p) => Gone(Q, p)
  BY <1>8 DEF Gone
<1>12. ASSUME NEW c \in Client
       PROVE  /\ Fits(Shifted(checked[c], D), Q) /\ Waits(Shifted(checked[c], D))
              /\ Shifted(checked[c], D) \in Recs
  <2> DEFINE x == CheckExit(cl[c])
  <2>1. Fits(cl[c], pane) /\ Waits(cl[c]) /\ checked[c] = x
    BY <1>2
  <2>2. Fits(x, pane) /\ Waits(x) /\ x.panes = cl[c].panes /\ x.quiet = cl[c].quiet
    BY <2>1, CheckExitIs
  <2> HIDE DEF x, checked
  <2>3. \A p \in Pane : pane[p].open /\ Counts(x, p) => D[p] <= x.panes[p].offset
    BY <1>3, <2>2 DEF Counts
  <2>4. \A p \in Pane : D[p] <= pane[p].parsed /\ (~pane[p].open => D[p] = 0)
    BY <1>3
  <2>5. \A p \in Pane : Q[p].len = pane[p].len - D[p] /\ (Gone(pane, p) => Gone(Q, p))
    BY <1>8, <1>11
  <2>6. Fits(Shifted(x, D), Q) /\ Waits(Shifted(x, D))
    BY <1>2, <1>4, <2>2, <2>3, <2>4, <2>5, ShiftedIs
  <2>7. Shifted(x, D) \in Recs
    BY <2>6 DEF Fits
  <2> QED BY <2>1, <2>6, <2>7
<1> HIDE DEF checked
<1>13. AllFit(cl', Q)
  BY <1>1, <1>12 DEF AllFit
<1>14. Buffers(pane') /\ AllFit(cl', pane')
  BY <1>1, <1>10, <1>13
<1>15. phase' \in {"events", "commands"} /\ fatal' = FALSE
  BY <1>1, OwesFacts
<1> QED BY <1>14, <1>15 DEF Owes

\* Every step. ClientExits and ClientLost need "exit".
LEMMA OwesStep ==
  ASSUME ControlAssumption, Calm, Owes, [ControlNext]_controlVars
  PROVE  Owes'
<1>1. ASSUME NEW p \in Pane, NEW n \in 1..MaxBuffer, PaneReads(p, n) PROVE Owes'
  BY <1>1, PaneReadsOwes
<1>2. ASSUME NEW p \in Pane, PaneExits(p) \/ Respawn(p) PROVE Owes'
  BY <1>2, PaneExitsOwes, RespawnOwes
<1>3. ASSUME NEW c \in Client, NEW n \in 0..MaxOut + High, ClientTakes(c, n) PROVE Owes'
  BY <1>3, ClientTakesOwes
<1>4. ASSUME NEW c \in Client, ClientExits(c) \/ ClientLost(c) PROVE Owes'
  BY <1>4 DEF ClientExits, ClientLost, Calm
<1>5. ASSUME NEW c \in Client,
             Notify(c) \/ Refresh(c) \/ SetNoOutput(c) \/ SwitchSession(c)
      PROVE  Owes'
  BY <1>5, NotifyOwes, RefreshOwes, SetNoOutputOwes, SwitchSessionOwes
<1>6. ASSUME Loop PROVE Owes'
  BY <1>6, LoopOwes
<1>7. ASSUME UNCHANGED controlVars PROVE Owes'
  BY <1>7 DEF controlVars, Owes
<1> QED BY <1>1, <1>2, <1>3, <1>4, <1>5, <1>6, <1>7 DEF ControlNext

-----------------------------------------------------------------------------
(***************************************************************************)
(* The theorems.                                                           *)
(***************************************************************************)
\* What is in a sequence once each counts its length.
LEMMA UniqCount ==
  ASSUME NEW T, NEW q \in Seq(T), Uniq(q)
  PROVE  Len(q) = Cardinality(ToSet(q))
<1>1. Len(q) \in Nat /\ DOMAIN q = 1..Len(q) /\ ToSet(q) = {q[k] : k \in 1..Len(q)}
  BY SeqFacts
<1> DEFINE f == [k \in 1..Len(q) |-> q[k]]
<1>2. f \in Bijection(1..Len(q), ToSet(q))
  BY <1>1 DEF Uniq, Bijection, Injection, Surjection, IsInjective
<1>3. IsFiniteSet(1..Len(q)) /\ Cardinality(1..Len(q)) = Len(q)
  BY <1>1, FS_Interval
<1>4. Cardinality(1..Len(q)) = Cardinality(ToSet(q))
  <2>1. ExistsBijection(1..Len(q), ToSet(q))
    BY <1>2 DEF ExistsBijection
  <2> QED BY <1>3, <2>1, FS_Bijection
<1> QED BY <1>3, <1>4

LEMMA OwesTypes ==
  ASSUME ControlAssumption, Owes
  PROVE  TypeOK
<1>1. ASSUME NEW p \in Pane
      PROVE  /\ {pane[p].len, pane[p].parsed} \subseteq 0..MaxBuffer
             /\ {pane[p].reading, pane[p].open, pane[p].exited} \subseteq BOOLEAN
  BY OwesFacts DEF Buffers
<1>2. ASSUME NEW c \in Client
      PROVE  /\ \A p \in Pane : cl[c].panes[p] # None =>
                  {cl[c].panes[p].offset, cl[c].panes[p].queued} \subseteq Positions
             /\ \A k \in 1..Len(cl[c].all) :
                  cl[c].all[k] = Line \/ (cl[c].all[k].pane \in Pane /\ cl[c].all[k].size > 0)
             /\ cl[c].pending \in Seq(Pane) /\ cl[c].out \in Nat
             /\ {cl[c].armed, cl[c].quiet, cl[c].exit, cl[c].exited} \subseteq BOOLEAN
  <2> DEFINE r == cl[c]
  <2>1. r \in Recs /\ r.all \in Seq(Item) /\ \A p \in Pane : r.panes[p] # None => r.panes[p] \in CP
    BY OwesFacts, FitsFacts
  <2> HIDE DEF r
  <2>2. \A p \in Pane : r.panes[p] # None =>
          {r.panes[p].offset, r.panes[p].queued} \subseteq Positions
    BY <2>1 DEF CP
  <2>3. ASSUME NEW k \in 1..Len(r.all)
        PROVE  r.all[k] = Line \/ (r.all[k].pane \in Pane /\ r.all[k].size > 0)
    <3>1. k \in DOMAIN r.all
      BY <2>1
    <3>2. /\ r.all[k].size \in Nat /\ (r.all[k].pane \in Pane <=> r.all[k] # Line)
          /\ (r.all[k].pane \in Pane => r.all[k].size # 0)
      BY <2>1, <3>1, ItemsAre
    <3> QED BY <3>2
  <2>4. r.pending \in Seq(Pane) /\ r.out \in Nat
    BY <2>1 DEF Recs
  <2>5. {r.armed, r.quiet, r.exit, r.exited} \subseteq BOOLEAN
    BY <2>1 DEF Recs
  <2> QED BY <2>2, <2>3, <2>4, <2>5 DEF r
<1>3. phase \in {"events", "commands"} /\ fatal \in BOOLEAN
  BY OwesFacts
<1> QED BY <1>1, <1>2, <1>3 DEF TypeOK

\* What the inductive invariant says of a client is what BlocksSound does.
LEMMA OwesSound ==
  ASSUME ControlAssumption, Owes
  PROVE  BlocksSound
<1>1. ASSUME NEW c \in Client
      PROVE  /\ Fits(cl[c], pane) /\ Waits(cl[c]) /\ Uniq(cl[c].pending)
             /\ cl[c].all \in Seq(Item) /\ cl[c].pending \in Seq(Pane)
             /\ \A p \in Pane : /\ Owed(cl[c], p, pane)
                                /\ Owing(cl[c].all, p) = 0 <=> Blocks(cl[c], p) = {}
                                /\ Bytes(cl[c], p) = BytesAt(cl[c].all, p)
  <2> DEFINE r == cl[c]
  <2>1. Fits(r, pane) /\ Waits(r)
    BY OwesFacts
  <2>2. r.all \in Seq(Item) /\ r.pending \in Seq(Pane) /\ Uniq(r.pending)
    BY <2>1, FitsFacts DEF Fits
  <2>3. ASSUME NEW p \in Pane
        PROVE  /\ Owed(r, p, pane) /\ (Owing(r.all, p) = 0 <=> Blocks(r, p) = {})
               /\ Bytes(r, p) = BytesAt(r.all, p)
    <3>1. Blocks(r, p) = At(r.all, p)
      BY DEF Blocks, At
    <3>2. Owing(r.all, p) = 0 <=> At(r.all, p) = {}
      BY <2>2, NoBytes
    <3>3. Bytes(r, p) = BytesAt(r.all, p)
      BY <3>1 DEF Bytes, BytesAt
    <3> QED BY <2>1, <3>1, <3>2, <3>3 DEF Fits
  <2> QED BY <2>1, <2>2, <2>3
<1>2. BlocksMatchOffsets
  <2> SUFFICES ASSUME NEW c \in Client, NEW p \in Pane, ~Exited(p), ~cl[c].exit
               PROVE  IF Counts(cl[c], p)
                        THEN /\ cl[c].panes[p].offset >= 0
                             /\ cl[c].panes[p].queued - cl[c].panes[p].offset
                                  = Cardinality(Bytes(cl[c], p))
                        ELSE Blocks(cl[c], p) = {}
    BY DEF BlocksMatchOffsets
  <2>1. ~Gone(pane, p)
    BY DEF Exited, Gone
  <2>2. /\ Owed(cl[c], p, pane) /\ (Owing(cl[c].all, p) = 0 <=> Blocks(cl[c], p) = {})
        /\ Owing(cl[c].all, p) = Cardinality(Bytes(cl[c], p))
    BY <1>1 DEF Owing
  <2> QED BY <2>1, <2>2 DEF Owed
<1>3. BlocksArePending
  <2>1. ASSUME NEW c \in Client, NEW p \in Pane, Blocks(cl[c], p) # {}
        PROVE  p \in ToSet(cl[c].pending) /\ cl[c].armed
    <3>1. Owing(cl[c].all, p) # 0 /\ Owed(cl[c], p, pane) /\ Waits(cl[c])
      BY <1>1, <2>1
    <3> QED BY <3>1 DEF Owed, Waits
  <2>2. ASSUME NEW c \in Client PROVE Len(cl[c].pending) = Cardinality(ToSet(cl[c].pending))
    BY <1>1, UniqCount
  <2> QED BY <2>1, <2>2 DEF BlocksArePending
<1>4. HeldLinesWait
  BY <1>1 DEF HeldLinesWait, LineFirst, Waits
<1> QED BY <1>2, <1>3, <1>4, OwesTypes DEF BlocksSound

\* The inductive invariant: buffers, offsets, blocks, pending panes and the
\* watermark of every client agree (control.c).
THEOREM ServedClients ==
  ASSUME ControlAssumption, Calm
  PROVE  ControlSpec => []Owes
<1>1. ControlInit => Owes
  BY OwesInit
<1>2. Owes /\ [ControlNext]_controlVars => Owes'
  BY OwesStep
<1> QED BY <1>1, <1>2, PTL DEF ControlSpec

\* The offsets of a pane and the blocks of a client agree, a pane with blocks
\* is pending and its client is waited for, for all panes, clients and sizes
\* of buffers: control_write_output, control_write_callback, refresh-client,
\* switch-client, respawn-pane and server_client_loop in any order.
THEOREM OutputIsInStep ==
  ASSUME ControlAssumption, Calm
  PROVE  ControlSpec => []BlocksSound
<1>1. Owes => BlocksSound
  BY OwesSound
<1> QED BY <1>1, ServedClients, PTL

\* control_append_data never meets its fatal error "not enough data".
THEOREM DataSuffice ==
  ASSUME ControlAssumption, Calm
  PROVE  ControlSpec => []EnoughData
<1>1. Owes => EnoughData
  BY DEF Owes, EnoughData
<1> QED BY <1>1, ServedClients, PTL
=============================================================================
