--------------------------- MODULE CmdQueueProofs --------------------------
(***************************************************************************)
(* Proofs about the command queues, for any sets of clients, items and     *)
(* jobs and any lines of commands; and about what the server makes of its  *)
(* queues: the loop that drains them (server_loop in server.c), and the    *)
(* lifetime of clients (server_client_unref and server_client_free in      *)
(* server-client.c), whose references count exactly what points at them.   *)
(***************************************************************************)
EXTENDS CmdQueue, SequenceTheorems, FiniteSetTheorems, TLAPS

(***************************************************************************)
(* Induction over the naturals, for a property given as a set.             *)
(***************************************************************************)
LEMMA LessIsWellFounded == IsWellFoundedOn({ss \in Nat \X Nat : ss[1] < ss[2]}, Nat)
BY Zenon, NatLessThanWellFounded DEF OpToRel

LEMMA Induction ==
  ASSUME NEW S, S \subseteq Nat, 0 \in S, \A n \in Nat : n \in S => n + 1 \in S
  PROVE  S = Nat
<1> DEFINE Less == {ss \in Nat \X Nat : ss[1] < ss[2]}
           Rest == Nat \ S
<1>1. SUFFICES ASSUME Rest # {} PROVE FALSE
  OBVIOUS
<1>2. Rest \subseteq Nat
  OBVIOUS
<1>3. \E x \in Rest : \A y \in Rest : <<y, x>> \notin Less
  <2> HIDE DEF Less, Rest
  <2>1. IsWellFoundedOn(Less, Nat)
    BY LessIsWellFounded DEF Less
  <2> QED
    BY <1>1, <1>2, <2>1, WFMin, Zenon
<1>4. PICK x \in Rest : \A y \in Rest : ~(y < x)
  BY <1>3
<1>5. x # 0 /\ x - 1 \in Nat /\ x - 1 \notin S
  BY <1>4
<1> QED
  BY <1>4, <1>5

-----------------------------------------------------------------------------
(***************************************************************************)
(* Sequences as the queues use them.                                       *)
(***************************************************************************)
Distinct(s) == \A j, k \in 1..Len(s) : s[j] = s[k] => j = k

LEMMA ElementsEmpty == Elements(<<>>) = {} /\ Distinct(<<>>)
BY DEF Elements, Distinct

LEMMA ElementsOf ==
  ASSUME NEW S, NEW s \in Seq(S)
  PROVE  /\ Elements(s) \subseteq S
         /\ s \in Seq(Elements(s))
         /\ s # <<>> <=> Elements(s) # {}
         /\ s # <<>> <=> Len(s) # 0
<1>1. Len(s) \in Nat /\ s \in [1..Len(s) -> S]
  BY LenProperties
<1>2. s \in [1..Len(s) -> Elements(s)]
  BY <1>1 DEF Elements
<1>3. s \in Seq(Elements(s))
  BY <1>1, <1>2, IsASeq
<1>4. s # <<>> <=> Len(s) # 0
  BY <1>1, EmptySeq
<1>5. Len(s) # 0 <=> Elements(s) # {}
  BY <1>1 DEF Elements
<1> QED
  BY <1>1, <1>3, <1>4, <1>5 DEF Elements

LEMMA ElementsConcat ==
  ASSUME NEW S, NEW s \in Seq(S), NEW t \in Seq(S)
  PROVE  /\ s \o t \in Seq(S)
         /\ Elements(s \o t) = Elements(s) \cup Elements(t)
         /\ s # <<>> => s \o t # <<>> /\ Head(s \o t) = Head(s)
         /\ Distinct(s) /\ Distinct(t) /\ Elements(s) \cap Elements(t) = {}
              => Distinct(s \o t)
<1>1. /\ s \o t \in Seq(S)
      /\ Len(s \o t) = Len(s) + Len(t)
      /\ \A i \in 1..(Len(s) + Len(t)) :
           (s \o t)[i] = IF i <= Len(s) THEN s[i] ELSE t[i - Len(s)]
  BY ConcatProperties
<1>2. Len(s) \in Nat /\ Len(t) \in Nat
  BY LenProperties
<1>3. \A i \in 1..Len(s) : i \in 1..Len(s \o t) /\ (s \o t)[i] = s[i]
  BY <1>1, <1>2
<1>4. \A i \in 1..Len(t) : i + Len(s) \in 1..Len(s \o t) /\ (s \o t)[i + Len(s)] = t[i]
  BY <1>1, <1>2
<1>5. \A i \in 1..Len(s \o t) : i \notin 1..Len(s) =>
        i - Len(s) \in 1..Len(t) /\ (s \o t)[i] = t[i - Len(s)]
  BY <1>1, <1>2
<1>6. Elements(s \o t) = Elements(s) \cup Elements(t)
  <2>1. Elements(s \o t) \subseteq Elements(s) \cup Elements(t)
    BY <1>3, <1>5 DEF Elements
  <2>2. Elements(s) \subseteq Elements(s \o t)
    BY <1>3 DEF Elements
  <2>3. Elements(t) \subseteq Elements(s \o t)
    BY <1>4 DEF Elements
  <2> QED
    BY <2>1, <2>2, <2>3
<1>7. ASSUME s # <<>>
      PROVE  s \o t # <<>> /\ Head(s \o t) = Head(s)
  BY <1>1, <1>2, <1>3, <1>7, EmptySeq, HeadTailProperties, ElementsOf
<1>8. ASSUME Distinct(s), Distinct(t), Elements(s) \cap Elements(t) = {}
      PROVE  Distinct(s \o t)
  <2>1. SUFFICES ASSUME NEW j \in 1..Len(s \o t), NEW k \in 1..Len(s \o t),
                        (s \o t)[j] = (s \o t)[k]
                 PROVE  j = k
    BY DEF Distinct
  <2>2. CASE j \in 1..Len(s) /\ k \in 1..Len(s)
    BY <1>3, <1>8, <2>1, <2>2 DEF Distinct
  <2>3. CASE j \notin 1..Len(s) /\ k \notin 1..Len(s)
    BY <1>1, <1>2, <1>5, <1>8, <2>1, <2>3 DEF Distinct
  <2>4. \A i \in 1..Len(s \o t) :
          (s \o t)[i] \in IF i \in 1..Len(s) THEN Elements(s) ELSE Elements(t)
    BY <1>3, <1>5 DEF Elements
  <2>5. (j \in 1..Len(s)) = (k \in 1..Len(s))
    BY <1>8, <2>1, <2>4
  <2> QED
    BY <2>2, <2>3, <2>5
<1> QED
  BY <1>1, <1>6, <1>7, <1>8

LEMMA ElementsTail ==
  ASSUME NEW S, NEW s \in Seq(S), s # <<>>
  PROVE  /\ Head(s) \in Elements(s)
         /\ Tail(s) \in Seq(S)
         /\ Elements(s) = {Head(s)} \cup Elements(Tail(s))
         /\ Distinct(s) => Distinct(Tail(s)) /\ Head(s) \notin Elements(Tail(s))
<1>1. /\ Tail(s) \in Seq(S)
      /\ Len(Tail(s)) = Len(s) - 1
      /\ \A i \in 1..Len(Tail(s)) : Tail(s)[i] = s[i + 1]
  BY HeadTailProperties
<1>2. Len(s) \in Nat \ {0} /\ Head(s) = s[1] /\ 1 \in 1..Len(s)
  BY EmptySeq, LenProperties
<1>3. \A i \in 1..Len(Tail(s)) : i + 1 \in 1..Len(s) /\ i \in Nat
  BY <1>1, <1>2
<1>4. \A j \in 1..Len(s) : j # 1 => j - 1 \in 1..Len(Tail(s)) /\ s[j] = Tail(s)[j - 1]
  BY <1>1, <1>2
<1>5. Head(s) \in Elements(s)
  BY <1>2 DEF Elements
<1>6. Elements(Tail(s)) \subseteq Elements(s)
  BY <1>1, <1>3 DEF Elements
<1>7. Elements(s) \subseteq {Head(s)} \cup Elements(Tail(s))
  BY <1>2, <1>4 DEF Elements
<1>8. ASSUME Distinct(s)
      PROVE  Distinct(Tail(s)) /\ Head(s) \notin Elements(Tail(s))
  <2>1. Distinct(Tail(s))
    BY <1>1, <1>3, <1>8 DEF Distinct
  <2>2. Head(s) \notin Elements(Tail(s))
    BY <1>1, <1>2, <1>3, <1>8 DEF Distinct, Elements
  <2> QED
    BY <2>1, <2>2
<1> QED
  BY <1>1, <1>5, <1>6, <1>7, <1>8

\* What is put after the head of a queue is between the head and the rest.
LEMMA InsertAtHead ==
  ASSUME NEW S, NEW q \in Seq(S), q # <<>>, Distinct(q),
         NEW h, h = Head(q), NEW s \in Seq(S)
  PROVE  /\ InsertAfter(q, h, s) \in Seq(S)
         /\ InsertAfter(q, h, s) # <<>>
         /\ Head(InsertAfter(q, h, s)) = h
         /\ Elements(InsertAfter(q, h, s)) = Elements(q) \cup Elements(s)
         /\ Distinct(s) /\ Elements(q) \cap Elements(s) = {}
              => Distinct(InsertAfter(q, h, s))
<1> DEFINE one == SubSeq(q, 1, 1)
           rest == SubSeq(q, 2, Len(q))
<1>1. Len(q) \in Nat \ {0} /\ Head(q) = q[1]
  BY EmptySeq, LenProperties
<1>2. (CHOOSE k \in 1..Len(q) : q[k] = Head(q)) = 1
  BY <1>1 DEF Distinct
<1>3. InsertAfter(q, Head(q), s) = one \o s \o rest
  <2>1. 1 + 1 = 2
    OBVIOUS
  <2> QED
    BY <1>2, <2>1, Zenon DEF InsertAfter
<1>4. one \in Seq(S) /\ Len(one) = 1 /\ one[1] = Head(q)
  BY <1>1, SubSeqProperties
<1>5. one # <<>> /\ Head(one) = Head(q) /\ Elements(one) = {Head(q)} /\ Distinct(one)
  <2>1. one # <<>>
    BY <1>4, EmptySeq
  <2>2. Head(one) = one[1]
    BY <1>4, <2>1, HeadTailProperties
  <2> QED
    BY <1>4, <2>1, <2>2 DEF Elements, Distinct
<1>6. rest = Tail(q)
  BY TailIsSubSeq
<1> HIDE DEF one, rest
<1>7. /\ rest \in Seq(S)
      /\ Elements(q) = {Head(q)} \cup Elements(rest)
      /\ Distinct(rest)
      /\ Head(q) \notin Elements(rest)
  BY <1>6, ElementsTail, Zenon
<1>8. /\ one \o s \in Seq(S)
      /\ one \o s # <<>>
      /\ Head(one \o s) = Head(q)
      /\ Elements(one \o s) = {Head(q)} \cup Elements(s)
      /\ Distinct(s) /\ Head(q) \notin Elements(s) => Distinct(one \o s)
  BY <1>4, <1>5, ElementsConcat
<1> DEFINE front == one \o s
<1>9. InsertAfter(q, Head(q), s) = front \o rest
  BY <1>3
<1> HIDE DEF front
<1>10. /\ front \in Seq(S) /\ front # <<>> /\ Head(front) = Head(q)
       /\ Elements(front) = {Head(q)} \cup Elements(s)
       /\ Distinct(s) /\ Head(q) \notin Elements(s) => Distinct(front)
  BY <1>8 DEF front
<1>11. /\ front \o rest \in Seq(S)
       /\ front \o rest # <<>>
       /\ Head(front \o rest) = Head(q)
       /\ Elements(front \o rest) = Elements(front) \cup Elements(rest)
       /\ Distinct(front) /\ Elements(front) \cap Elements(rest) = {}
            => Distinct(front \o rest)
  BY <1>7, <1>10, ElementsConcat
<1> QED
  BY <1>7, <1>9, <1>10, <1>11

\* A function on 0..n may be defined by recursion, as in Without.
KeptStep(q, R, k, f) ==
  IF k = 0 THEN <<>>
  ELSE IF q[k] \in R THEN f[k - 1] ELSE Append(f[k - 1], q[k])

LEMMA KeptExists ==
  ASSUME NEW q, NEW R, NEW n \in Nat
  PROVE  \E f : f = [k \in 0..n |-> KeptStep(q, R, k, f)]
<1> DEFINE Step(k, f) == KeptStep(q, R, k, f)
           Good == {m \in Nat : \E f : f = [k \in 0..m |-> Step(k, f)]}
<1>1. 0 \in Good
  <2> DEFINE f0 == [k \in 0..0 |-> <<>>]
  <2>1. f0 = [k \in 0..0 |-> Step(k, f0)]
    BY DEF KeptStep
  <2> QED
    BY <2>1
<1>2. ASSUME NEW m \in Nat, m \in Good
      PROVE  m + 1 \in Good
  <2>1. PICK f : f = [k \in 0..m |-> Step(k, f)]
    BY <1>2
  <2> DEFINE g == [k \in 0..(m + 1) |-> IF k = m + 1 THEN Step(k, f) ELSE f[k]]
  <2>2. \A k \in 0..m : f[k] = Step(k, f)
    BY <2>1
  <2>3. \A k \in 0..m : g[k] = f[k]
    OBVIOUS
  <2>4. \A k \in 0..(m + 1) : g[k] = Step(k, g)
    <3>1. SUFFICES ASSUME NEW k \in 0..(m + 1) PROVE g[k] = Step(k, g)
      OBVIOUS
    <3>2. k = 0 \/ k - 1 \in 0..m
      OBVIOUS
    <3>3. g[k] = Step(k, f)
      BY <2>2
    <3>4. Step(k, f) = Step(k, g)
      <4> HIDE DEF g
      <4> QED
        BY <2>3, <3>2 DEF KeptStep
    <3> QED
      BY <3>3, <3>4
  <2>5. g = [k \in 0..(m + 1) |-> Step(k, g)]
    <3>1. g = [k \in 0..(m + 1) |-> g[k]]
      OBVIOUS
    <3> QED
      BY <2>4, <3>1
  <2> HIDE DEF g, Step
  <2> QED
    BY <2>5
<1>3. Good = Nat
  <2> HIDE DEF Good
  <2>1. Good \subseteq Nat
    BY DEF Good
  <2> QED
    BY <1>1, <1>2, <2>1, Induction
<1>4. n \in Good
  BY <1>3
<1> QED
  BY <1>4

LEMMA ElementsAppend ==
  ASSUME NEW S, NEW s \in Seq(S), NEW e \in S
  PROVE  /\ Append(s, e) \in Seq(S)
         /\ Append(s, e) # <<>>
         /\ Elements(Append(s, e)) = Elements(s) \cup {e}
         /\ Distinct(s) /\ e \notin Elements(s) => Distinct(Append(s, e))
         /\ s # <<>> => Head(Append(s, e)) = Head(s)
         /\ s = <<>> => Head(Append(s, e)) = e
<1>1. /\ Append(s, e) \in Seq(S)
      /\ Append(s, e) # <<>>
      /\ Len(Append(s, e)) = Len(s) + 1
      /\ \A i \in 1..Len(s) : Append(s, e)[i] = s[i]
      /\ Append(s, e)[Len(s) + 1] = e
  BY AppendProperties
<1>2. Len(s) \in Nat /\ (s = <<>> <=> Len(s) = 0)
  BY LenProperties, EmptySeq
<1>3. 1..(Len(s) + 1) = 1..Len(s) \cup {Len(s) + 1}
  BY <1>2
<1>4. Elements(Append(s, e)) = Elements(s) \cup {e}
  BY <1>1, <1>2, <1>3 DEF Elements
<1>5. ASSUME Distinct(s), e \notin Elements(s)
      PROVE  Distinct(Append(s, e))
  BY <1>1, <1>2, <1>3, <1>5 DEF Distinct, Elements
<1>6. Head(Append(s, e)) = Append(s, e)[1] /\ (s # <<>> => Head(s) = s[1])
  BY <1>1, HeadTailProperties
<1>7. /\ s # <<>> => Head(Append(s, e)) = Head(s)
      /\ s = <<>> => Head(Append(s, e)) = e
  BY <1>1, <1>2, <1>6
<1> QED
  BY <1>1, <1>4, <1>5, <1>7

\* What is left of a queue is what was not removed, in the order it had.
LEMMA WithoutProperties ==
  ASSUME NEW S, NEW q \in Seq(S), NEW R
  PROVE  /\ Without(q, R) \in Seq(S)
         /\ Elements(Without(q, R)) = Elements(q) \ R
         /\ Distinct(q) => Distinct(Without(q, R))
         /\ q # <<>> /\ Head(q) \notin R =>
              Without(q, R) # <<>> /\ Head(Without(q, R)) = Head(q)
<1> DEFINE kept == CHOOSE f : f = [k \in 0..Len(q) |-> KeptStep(q, R, k, f)]
           First(n) == {q[k] : k \in 1..n}
           Fine(n) == /\ kept[n] \in Seq(S)
                      /\ Elements(kept[n]) = First(n) \ R
                      /\ Distinct(q) => Distinct(kept[n])
                      /\ n # 0 /\ q[1] \notin R => kept[n] # <<>> /\ Head(kept[n]) = q[1]
           Good == {n \in Nat : n \in 0..Len(q) => Fine(n)}
<1>1. Len(q) \in Nat /\ \A k \in 1..Len(q) : q[k] \in S
  BY LenProperties
<1>2. kept = [k \in 0..Len(q) |-> KeptStep(q, R, k, kept)]
  <2>1. \A n \in Nat : \E f : f = [k \in 0..n |-> KeptStep(q, R, k, f)]
    BY KeptExists
  <2>2. \E f : f = [k \in 0..Len(q) |-> KeptStep(q, R, k, f)]
    BY <1>1, <2>1
  <2> QED
    BY <2>2, Zenon
<1>3. Without(q, R) = kept[Len(q)]
  BY DEF Without, KeptStep
<1> HIDE DEF kept
<1>4. kept[0] = <<>>
  BY <1>1, <1>2 DEF KeptStep
<1>5. \A k \in 1..Len(q) : /\ q[k] \in R => kept[k] = kept[k - 1]
                           /\ q[k] \notin R => kept[k] = Append(kept[k - 1], q[k])
  <2>1. SUFFICES ASSUME NEW k \in 1..Len(q)
                 PROVE  /\ q[k] \in R => kept[k] = kept[k - 1]
                        /\ q[k] \notin R => kept[k] = Append(kept[k - 1], q[k])
    OBVIOUS
  <2>2. k \in 0..Len(q) /\ k # 0
    BY <1>1
  <2>3. kept[k] = KeptStep(q, R, k, kept)
    BY <1>2, <2>2
  <2> QED
    BY <2>2, <2>3 DEF KeptStep
<1>6. 0 \in Good
  <2>1. First(0) = {}
    OBVIOUS
  <2>2. <<>> \in Seq(S)
    BY EmptySeq
  <2> QED
    BY <1>4, <2>1, <2>2, ElementsEmpty
<1>7. ASSUME NEW n \in Nat, n \in Good
      PROVE  n + 1 \in Good
  <2>1. SUFFICES ASSUME n + 1 \in 0..Len(q) PROVE Fine(n + 1)
    OBVIOUS
  <2>2. n + 1 \in 1..Len(q) /\ (n + 1) - 1 = n /\ n \in 0..Len(q)
    BY <1>1, <2>1
  <2>3. Fine(n)
    BY <1>7, <2>2
  <2>4. /\ q[n + 1] \in R => kept[n + 1] = kept[n]
        /\ q[n + 1] \notin R => kept[n + 1] = Append(kept[n], q[n + 1])
    BY <1>5, <2>2
  <2>5. First(n + 1) = First(n) \cup {q[n + 1]}
    <3>1. 1..(n + 1) = 1..n \cup {n + 1}
      OBVIOUS
    <3> QED
      BY <3>1
  <2>6. Distinct(q) => q[n + 1] \notin First(n)
    BY <1>1, <2>2 DEF Distinct
  <2>7. q[n + 1] \in S
    BY <1>1, <2>2
  <2>8. n = 0 => First(n) = {}
    OBVIOUS
  <2> HIDE DEF First
  <2>9. CASE q[n + 1] \in R
    <3>1. n = 0 => q[1] \in R
      BY <2>9
    <3> QED
      BY <2>3, <2>4, <2>5, <2>9, <3>1
  <2>10. CASE q[n + 1] \notin R
    <3> DEFINE s == kept[n]  e == q[n + 1]
    <3>1. /\ Append(s, e) \in Seq(S)
          /\ Append(s, e) # <<>>
          /\ Elements(Append(s, e)) = Elements(s) \cup {e}
          /\ Distinct(s) /\ e \notin Elements(s) => Distinct(Append(s, e))
          /\ s # <<>> => Head(Append(s, e)) = Head(s)
          /\ s = <<>> => Head(Append(s, e)) = e
      BY <2>3, <2>7, ElementsAppend
    <3>2. n = 0 => s = <<>> /\ e = q[1]
      BY <1>4
    <3>3. kept[n + 1] = Append(s, e)
      BY <2>4, <2>10
    <3> HIDE DEF s, e
    <3>4. /\ Append(s, e) \in Seq(S)
          /\ Elements(Append(s, e)) = (First(n) \cup {e}) \ R
          /\ Distinct(q) => Distinct(Append(s, e))
      BY <2>3, <2>6, <2>10, <3>1 DEF s, e
    <3>5. q[1] \notin R => Append(s, e) # <<>> /\ Head(Append(s, e)) = q[1]
      BY <2>3, <3>1, <3>2 DEF s
    <3> QED
      BY <2>5, <3>3, <3>4, <3>5 DEF e
  <2> QED
    BY <2>9, <2>10
<1>8. Good = Nat
  <2> HIDE DEF Good
  <2>1. Good \subseteq Nat
    BY DEF Good
  <2> QED
    BY <1>6, <1>7, <2>1, Induction
<1>9. Fine(Len(q))
  <2>1. Len(q) \in Good /\ Len(q) \in 0..Len(q)
    <3> HIDE DEF Good
    <3> QED
      BY <1>1, <1>8
  <2> HIDE DEF Fine
  <2> QED
    BY <2>1
<1>10. First(Len(q)) = Elements(q)
  BY DEF Elements
<1>11. q # <<>> => Len(q) # 0 /\ Head(q) = q[1]
  BY EmptySeq, HeadTailProperties
<1> QED
  BY <1>3, <1>9, <1>10, <1>11

\* A queue that holds each item once is as long as its set of items.
LEMMA DistinctLength ==
  ASSUME NEW S, NEW s \in Seq(S), Distinct(s)
  PROVE  Cardinality(Elements(s)) = Len(s)
<1>1. Len(s) \in Nat /\ s \in [1..Len(s) -> S]
  BY LenProperties
<1>2. s \in [1..Len(s) -> Elements(s)]
  BY <1>1 DEF Elements
<1>3. s \in Bijection(1..Len(s), Elements(s))
  BY <1>2 DEF Distinct, Elements, Bijection, Injection, Surjection, IsInjective
<1>4. ExistsBijection(1..Len(s), Elements(s))
  BY <1>3 DEF ExistsBijection
<1> QED
  BY <1>1, <1>4, FS_CountingElements

-----------------------------------------------------------------------------
(***************************************************************************)
(* The inductive invariant. What holds of every item on its own is said of *)
(* its record, so that it need be shown only for the items a step makes.   *)
(***************************************************************************)
Kinds == {"free", "command", "callback", "notice"}

ItemRecord ==
  [kind : Kinds, queue : Queue \cup {None}, client : Client \cup {None},
   group : Groups \cup {0}, hook : BOOLEAN, fired : BOOLEAN, waiting : BOOLEAN,
   depth : Nat, about : Client \cup {None}]

JobRecord ==
  [busy : BOOLEAN, item : Item \cup {None}, client : Client \cup {None}]

Typed ==
  /\ it \in [Item -> ItemRecord]
  /\ order \in [Queue -> Seq(Item)]
  /\ running \in [Queue -> Item \cup {None}]
  /\ job \in [Job -> JobRecord]
  /\ conn \in [Client -> {"new", "live", "lost", "freed"}]
  /\ freeing \in SUBSET Client
  /\ at \in Queue \cup {"events"}
  /\ todo \in SUBSET Client
  /\ busy \in BOOLEAN

\* The items of a client's queue belong to it, those that hold a client for a
\* notification to no one; hooks are two deep at most, one on a client's queue.
MadeWell(r) ==
  /\ r.kind = "free" => r = FreeItem
  /\ r.kind # "free" => r.queue # None
  /\ r.waiting => r.fired
  /\ r.fired => r.kind = "command"
  /\ r.queue \in Client => r.client = r.queue
  /\ r.kind = "notice" => r.queue = Global /\ r.client = None /\ r.depth <= 1
  /\ r.kind # "notice" => r.about = None
  /\ r.kind = "command" /\ r.depth > 0 => r.hook
  /\ r.queue # Global /\ r.hook => r.depth <= 1
  /\ r.depth <= 2

Made == \A i \in Item : MadeWell(it[i])

Listed ==
  \A q \in Queue : Distinct(order[q]) /\ Elements(order[q]) = {i \in Item : it[i].queue = q}

HeadFired ==
  \A i \in Item : it[i].fired => i = Head(order[it[i].queue])

\* Jobs that have an item have one that waits, each a different one; and every
\* item that waits has a job.
JobsWait ==
  \A j \in Job : /\ ~job[j].busy => job[j] = FreeJob
                 /\ job[j].item # None => it[job[j].item].waiting

JobsDiffer ==
  \A j, k \in Job : job[j].item # None /\ job[j].item = job[k].item => j = k

WaitersHaveJobs ==
  \A i \in Item : it[i].waiting => \E j \in Job : job[j].item = i

Waiters == JobsWait /\ JobsDiffer /\ WaitersHaveJobs

QInv == Typed /\ Made /\ Listed /\ HeadFired /\ RunningIsHead /\ Waiters

-----------------------------------------------------------------------------
(***************************************************************************)
(* Firing the head of a queue.                                             *)
(***************************************************************************)
LEMMA CurrentItem ==
  ASSUME QInv, at # "events", order[at] # <<>>
  PROVE  /\ at \in Queue
         /\ order[at] \in Seq(Item) /\ Distinct(order[at])
         /\ Current \in Item /\ Current \in Elements(order[at])
         /\ it[Current].queue = at /\ it[Current].kind # "free"
         /\ Tail(order[at]) \in Seq(Item) /\ Distinct(Tail(order[at]))
         /\ Elements(order[at]) = {Current} \cup Elements(Tail(order[at]))
         /\ Current \notin Elements(Tail(order[at]))
<1>1. at \in Queue /\ order[at] \in Seq(Item) /\ Distinct(order[at])
  BY DEF QInv, Typed, Listed
<1>2. /\ Current \in Elements(order[at])
      /\ Tail(order[at]) \in Seq(Item) /\ Distinct(Tail(order[at]))
      /\ Elements(order[at]) = {Current} \cup Elements(Tail(order[at]))
      /\ Current \notin Elements(Tail(order[at]))
  BY <1>1, ElementsTail DEF Current
<1>3. Current \in Item /\ it[Current].queue = at
  BY <1>1, <1>2 DEF QInv, Listed
<1>4. it[Current].kind # "free"
  BY <1>1, <1>3, NamesAssumption DEF QInv, Made, MadeWell, FreeItem, Queue
<1> QED
  BY <1>1, <1>2, <1>3, <1>4

\* What may be new and what may go when the head of a queue fires.
FireShape(s, rec, n, a, removed, waits) ==
  /\ s \in Seq(Item) /\ Distinct(s) /\ Elements(s) \subseteq Unused
  /\ n \in Seq(Item) /\ Distinct(n) /\ Elements(n) \subseteq Unused
  /\ Elements(s) \cap Elements(n) = {}
  /\ removed \subseteq Elements(Tail(order[at]))
  /\ waits \in BOOLEAN
  /\ waits => removed = {} /\ it[Current].kind = "command"
  /\ s # <<>> => /\ rec \in ItemRecord /\ MadeWell(rec) /\ rec.queue = at
                 /\ ~rec.fired /\ rec.kind # "free"
  /\ n # <<>> => /\ a \in Client \cup {None} /\ it[Current].depth <= 1
                 /\ at = Global => ~it[Current].hook

LEMMA FireOrder ==
  ASSUME QInv, at # "events", order[at] # <<>>,
         NEW s, NEW rec, NEW n, NEW a, NEW removed, NEW waits,
         FireShape(s, rec, n, a, removed, waits),
         FireItems(s, rec, n, a, removed, waits)
  PROVE  /\ order' \in [Queue -> Seq(Item)]
         /\ \A q \in Queue :
              /\ Distinct(order'[q])
              /\ Elements(order'[q]) =
                   (IF q = at
                      THEN (Elements(order[q]) \cup Elements(s)) \ Gone(removed, waits)
                      ELSE Elements(order[q]))
                   \cup (IF q = Global THEN Elements(n) ELSE {})
              /\ q # at /\ order[q] # <<>> =>
                   order'[q] # <<>> /\ Head(order'[q]) = Head(order[q])
              /\ q = at /\ waits => order'[q] # <<>> /\ Head(order'[q]) = Current
<1>1. /\ at \in Queue
      /\ order[at] \in Seq(Item) /\ Distinct(order[at])
      /\ Current \in Item /\ Current \in Elements(order[at])
      /\ \A q \in Queue : order[q] \in Seq(Item) /\ Distinct(order[q])
      /\ \A q \in Queue : Elements(order[q]) \cap Unused = {}
  <2>1. \A q \in Queue : Elements(order[q]) \cap Unused = {}
    BY NamesAssumption DEF QInv, Listed, Made, MadeWell, Unused, FreeItem, Queue
  <2> QED
    BY <2>1, CurrentItem DEF QInv, Typed, Listed
<1> DEFINE ins == InsertAfter(order[at], Current, s)
           gone == Gone(removed, waits)
           left(q) == IF q = at THEN Without(ins, gone) ELSE order[q]
           more(q) == IF q = Global THEN n ELSE <<>>
<1>2. /\ ins \in Seq(Item) /\ ins # <<>> /\ Head(ins) = Current
      /\ Elements(ins) = Elements(order[at]) \cup Elements(s)
      /\ Distinct(ins)
  <2>1. /\ s \in Seq(Item) /\ Distinct(s)
        /\ Elements(order[at]) \cap Elements(s) = {}
    BY <1>1 DEF FireShape
  <2>2. Current = Head(order[at])
    BY DEF Current
  <2> HIDE DEF ins
  <2>3. ins = InsertAfter(order[at], Current, s)
    BY DEF ins
  <2> QED
    BY <1>1, <2>1, <2>2, <2>3, InsertAtHead
<1>3. waits => gone = {}
  BY DEF Gone, FireShape
<1>4. order' = [q \in Queue |-> left(q) \o more(q)]
  BY DEF FireItems
<1> HIDE DEF ins
<1>5. /\ Without(ins, gone) \in Seq(Item)
      /\ Elements(Without(ins, gone)) = Elements(ins) \ gone
      /\ Distinct(Without(ins, gone))
      /\ Current \notin gone => Without(ins, gone) # <<>> /\ Head(Without(ins, gone)) = Current
  BY <1>2, WithoutProperties
<1>6. ASSUME NEW q \in Queue
      PROVE  /\ order'[q] \in Seq(Item)
             /\ Distinct(order'[q])
             /\ Elements(order'[q]) =
                   (IF q = at
                      THEN (Elements(order[q]) \cup Elements(s)) \ gone
                      ELSE Elements(order[q]))
                   \cup (IF q = Global THEN Elements(n) ELSE {})
             /\ q # at /\ order[q] # <<>> =>
                   order'[q] # <<>> /\ Head(order'[q]) = Head(order[q])
             /\ q = at /\ waits => order'[q] # <<>> /\ Head(order'[q]) = Current
  <2>1. order'[q] = left(q) \o more(q)
    BY <1>4, <1>6
  <2>2. /\ left(q) \in Seq(Item) /\ Distinct(left(q))
        /\ Elements(left(q)) = IF q = at THEN (Elements(order[q]) \cup Elements(s)) \ gone
                              ELSE Elements(order[q])
        /\ q # at => left(q) = order[q]
        /\ q = at /\ waits => left(q) # <<>> /\ Head(left(q)) = Current
    BY <1>1, <1>2, <1>3, <1>5, <1>6
  <2>3. /\ more(q) \in Seq(Item) /\ Distinct(more(q))
        /\ Elements(more(q)) = IF q = Global THEN Elements(n) ELSE {}
    BY ElementsEmpty, EmptySeq DEF FireShape
  <2>4. Elements(left(q)) \cap Elements(more(q)) = {}
    BY <1>1, <1>6, <2>2, <2>3 DEF FireShape
  <2> HIDE DEF left, more, gone
  <2>5. /\ left(q) \o more(q) \in Seq(Item)
        /\ Elements(left(q) \o more(q)) = Elements(left(q)) \cup Elements(more(q))
        /\ left(q) # <<>> => left(q) \o more(q) # <<>>
                            /\ Head(left(q) \o more(q)) = Head(left(q))
        /\ Distinct(left(q) \o more(q))
    BY <2>2, <2>3, <2>4, ElementsConcat
  <2> QED
    BY <2>1, <2>2, <2>3, <2>5
<1> HIDE DEF left, more
<1>7. order' \in [Queue -> Seq(Item)]
  BY <1>4, <1>6
<1> QED
  BY <1>6, <1>7

\* An item at which cmdq_next has stopped.
Stopped(r) == [r EXCEPT !.fired = TRUE, !.waiting = TRUE]

LEMMA StoppedFacts ==
  ASSUME NEW r \in ItemRecord, MadeWell(r), r.kind = "command"
  PROVE  /\ Stopped(r) \in ItemRecord /\ MadeWell(Stopped(r))
         /\ Stopped(r).queue = r.queue /\ Stopped(r).client = r.client
         /\ Stopped(r).about = r.about /\ Stopped(r).kind = r.kind
         /\ Stopped(r).waiting
<1>1. Stopped(r) = [r EXCEPT !.fired = TRUE, !.waiting = TRUE]
  BY DEF Stopped
<1> QED
  BY <1>1 DEF ItemRecord, MadeWell, FreeItem

LEMMA FreeItemFacts == FreeItem \in ItemRecord /\ MadeWell(FreeItem)
BY NamesAssumption DEF FreeItem, ItemRecord, MadeWell, Kinds, Queue

LEMMA NoticeFacts ==
  ASSUME NEW a \in Client \cup {None}, NEW d \in Nat, d <= 1
  PROVE  /\ Notice(a, d) \in ItemRecord /\ MadeWell(Notice(a, d))
         /\ Notice(a, d).queue = Global /\ ~Notice(a, d).fired
         /\ Notice(a, d).kind = "notice"
         /\ Notice(a, d).client = None /\ Notice(a, d).about = a
<1>1. Notice(a, d) =
        [kind |-> "notice", queue |-> Global, client |-> None, group |-> 0, hook |-> FALSE,
         fired |-> FALSE, waiting |-> FALSE, depth |-> d, about |-> a]
  BY DEF Notice, NewItem
<1>2. Notice(a, d) \in ItemRecord
  BY <1>1 DEF ItemRecord, Kinds, Queue
<1>3. MadeWell(Notice(a, d))
  BY <1>1, NamesAssumption DEF MadeWell
<1> QED
  BY <1>1, <1>2, <1>3

LEMMA FireContents ==
  ASSUME QInv, at # "events", order[at] # <<>>,
         NEW s, NEW rec, NEW n, NEW a, NEW removed, NEW waits,
         FireShape(s, rec, n, a, removed, waits),
         FireItems(s, rec, n, a, removed, waits)
  PROVE  /\ it' \in [Item -> ItemRecord]
         /\ Gone(removed, waits) \subseteq Elements(order[at])
         /\ waits => Gone(removed, waits) = {}
         /\ ~waits => Current \in Gone(removed, waits)
         /\ \A i \in Item :
              /\ i \in Gone(removed, waits) => it'[i] = FreeItem
              /\ i \in Elements(s) => it'[i] = rec
              /\ i \in Elements(n) => it'[i] = Notice(a, it[Current].depth)
              /\ i = Current /\ waits =>
                  it'[i] = Stopped(it[i])
              /\ i \notin Gone(removed, waits) \cup Elements(s) \cup Elements(n)
                 /\ ~(i = Current /\ waits) => it'[i] = it[i]
<1> DEFINE gone == Gone(removed, waits)
<1>1. gone \subseteq Elements(order[at]) /\ (waits => gone = {}) /\ (~waits => Current \in gone)
  BY CurrentItem DEF Gone, FireShape
<1>2. /\ Elements(order[at]) \cap (Elements(s) \cup Elements(n)) = {}
      /\ Elements(s) \cap Elements(n) = {}
      /\ Current \in Elements(order[at]) /\ Current \in Item
  <2>1. Elements(order[at]) = {i \in Item : it[i].queue = at} /\ at # None
    BY CurrentItem, NamesAssumption DEF QInv, Listed, Queue
  <2>2. \A i \in Unused : it[i].queue = None
    BY DEF QInv, Made, MadeWell, Unused, FreeItem
  <2> QED
    BY <2>1, <2>2, CurrentItem DEF FireShape
<1>3. it' = [i \in Item |->
       CASE i \in gone -> FreeItem
         [] i \in Elements(s) -> rec
         [] i \in Elements(n) -> Notice(a, it[Current].depth)
         [] i = Current /\ waits -> Stopped(it[i])
         [] OTHER -> it[i]]
  BY DEF FireItems, Stopped
<1> HIDE DEF gone
<1>4. ASSUME NEW i \in Item
      PROVE  /\ i \in gone => it'[i] = FreeItem
             /\ i \in Elements(s) => it'[i] = rec
             /\ i \in Elements(n) => it'[i] = Notice(a, it[Current].depth)
             /\ i = Current /\ waits =>
                 it'[i] = Stopped(it[i])
             /\ i \notin gone \cup Elements(s) \cup Elements(n)
                /\ ~(i = Current /\ waits) => it'[i] = it[i]
  BY <1>1, <1>2, <1>3, <1>4
<1>5. ASSUME NEW i \in Item
      PROVE  it'[i] \in ItemRecord
  <2>1. it[i] \in ItemRecord /\ it[Current] \in ItemRecord
    BY <1>2, <1>5 DEF QInv, Typed
  <2>2. i = Current /\ waits => Stopped(it[i]) \in ItemRecord
    BY <2>1, StoppedFacts DEF FireShape, QInv, Made
  <2>3. i \in Elements(s) => rec \in ItemRecord
    BY ElementsEmpty DEF FireShape
  <2>4. i \in Elements(n) => Notice(a, it[Current].depth) \in ItemRecord
    BY <2>1, ElementsEmpty, NoticeFacts DEF FireShape, ItemRecord
  <2> QED
    BY <1>4, <2>1, <2>2, <2>3, <2>4, FreeItemFacts
<1>6. it' \in [Item -> ItemRecord]
  BY <1>3, <1>5
<1> QED
  BY <1>1, <1>4, <1>6 DEF gone

\* The items and the queues are in order after the head has fired.
LEMMA FireSound ==
  ASSUME QInv, at # "events", order[at] # <<>>, ~it[Current].fired,
         NEW s, NEW rec, NEW n, NEW a, NEW removed, NEW waits,
         FireShape(s, rec, n, a, removed, waits),
         FireItems(s, rec, n, a, removed, waits)
  PROVE  Made' /\ Listed' /\ HeadFired' /\ RunningIsHead'
<1> DEFINE gone == Gone(removed, waits)
<1>1. /\ it' \in [Item -> ItemRecord]
      /\ gone \subseteq Elements(order[at])
      /\ waits => gone = {}
      /\ ~waits => Current \in gone
      /\ \A i \in Item :
           /\ i \in gone => it'[i] = FreeItem
           /\ i \in Elements(s) => it'[i] = rec
           /\ i \in Elements(n) => it'[i] = Notice(a, it[Current].depth)
           /\ i = Current /\ waits =>
                it'[i] = Stopped(it[i])
           /\ i \notin gone \cup Elements(s) \cup Elements(n)
              /\ ~(i = Current /\ waits) => it'[i] = it[i]
  BY FireContents
<1>2. /\ order' \in [Queue -> Seq(Item)]
      /\ \A q \in Queue :
           /\ Distinct(order'[q])
           /\ Elements(order'[q]) =
                (IF q = at THEN (Elements(order[q]) \cup Elements(s)) \ gone
                           ELSE Elements(order[q]))
                \cup (IF q = Global THEN Elements(n) ELSE {})
           /\ q # at /\ order[q] # <<>> =>
                order'[q] # <<>> /\ Head(order'[q]) = Head(order[q])
           /\ q = at /\ waits => order'[q] # <<>> /\ Head(order'[q]) = Current
  BY FireOrder
<1> HIDE DEF gone
<1>3. /\ at \in Queue
      /\ Current \in Item /\ Current \in Elements(order[at])
      /\ it[Current].queue = at /\ it[Current].kind # "free"
      /\ it \in [Item -> ItemRecord]
      /\ it[Current].depth \in Nat
  BY CurrentItem DEF QInv, Typed, ItemRecord
<1>4. /\ \A i \in Elements(s) : MadeWell(rec) /\ rec.queue = at /\ ~rec.fired
      /\ \A i \in Elements(n) : /\ MadeWell(Notice(a, it[Current].depth))
                                /\ Notice(a, it[Current].depth).queue = Global
                                /\ ~Notice(a, it[Current].depth).fired
      /\ waits => it[Current].kind = "command"
  BY <1>3, ElementsEmpty, NoticeFacts DEF FireShape
<1>5. /\ Elements(s) \subseteq Item /\ Elements(n) \subseteq Item
      /\ \A i \in Elements(s) \cup Elements(n) : it[i].queue = None
      /\ Elements(s) \cap Elements(n) = {}
  BY DEF FireShape, Unused, QInv, Made, MadeWell, FreeItem
<1>6. Made'
  <2>1. ASSUME NEW i \in Item
        PROVE  MadeWell(it'[i])
    <3>1. MadeWell(it[i]) /\ it[i] \in ItemRecord
      BY <1>3, <2>1 DEF QInv, Made
    <3>2. i = Current /\ waits =>
            MadeWell(Stopped(it[i]))
      BY <1>4, <3>1, StoppedFacts
    <3> QED
      BY <1>1, <1>4, <2>1, <3>1, <3>2, FreeItemFacts
  <2> QED
    BY <2>1 DEF Made, MadeWell
<1>7. Listed'
  <2>1. ASSUME NEW q \in Queue
        PROVE  Elements(order'[q]) = {i \in Item : it'[i].queue = q}
    <3>1. Elements(order[q]) = {i \in Item : it[i].queue = q} /\ q # None
      BY <2>1, NamesAssumption DEF QInv, Listed, Queue
    <3>2. \A i \in Item : i \in gone => it[i].queue = at /\ it'[i].queue = None
      BY <1>1, <1>3 DEF QInv, Listed, FreeItem
    <3>3. \A i \in Item : i \in Elements(s) => it'[i].queue = at
      BY <1>1, <1>4
    <3>4. \A i \in Item : i \in Elements(n) => it'[i].queue = Global
      BY <1>1, <1>4
    <3>5. \A i \in Item : i \notin gone \cup Elements(s) \cup Elements(n) =>
             it'[i].queue = it[i].queue
      BY <1>1, <1>3, <1>4, StoppedFacts DEF QInv, Made
    <3>6. \A i \in Item : it'[i].queue = q <=> i \in Elements(order'[q])
      BY <1>2, <1>5, <2>1, <3>1, <3>2, <3>3, <3>4, <3>5
    <3>7. Elements(order'[q]) \subseteq Item
      BY <1>2, <2>1, ElementsOf
    <3> QED
      BY <3>6, <3>7
  <2> QED
    BY <1>2, <2>1 DEF Listed, Distinct, Elements
<1>8. HeadFired'
  <2>1. ASSUME NEW i \in Item, it'[i].fired
        PROVE  i = Head(order'[it'[i].queue])
    <3>1. i \notin gone \cup Elements(s) \cup Elements(n)
      BY <1>1, <1>4, <2>1 DEF FreeItem
    <3>2. CASE i = Current /\ waits
      BY <1>1, <1>2, <1>3, <1>4, <2>1, <3>2, StoppedFacts DEF QInv, Made
    <3>3. CASE ~(i = Current /\ waits)
      <4>1. it'[i] = it[i] /\ i # Current
        BY <1>1, <2>1, <3>1, <3>3
      <4>2. i = Head(order[it[i].queue]) /\ it[i].kind # "free"
        BY <2>1, <4>1 DEF QInv, HeadFired, Made, MadeWell, FreeItem
      <4>3. it[i].queue \in Queue
        BY <1>3, <2>1, <4>2 DEF QInv, Made, MadeWell, ItemRecord
      <4>4. it[i].queue # at
        BY <4>1, <4>2 DEF Current
      <4>5. order[it[i].queue] # <<>>
        BY <2>1, <4>3, ElementsEmpty DEF QInv, Listed
      <4> QED
        BY <1>2, <4>1, <4>2, <4>3, <4>4, <4>5
    <3> QED
      BY <3>2, <3>3
  <2> QED
    BY <2>1 DEF HeadFired
<1>9. RunningIsHead'
  <2>1. running' = [running EXCEPT ![at] = NextRunning(at)]
    BY DEF FireItems
  <2>2. ASSUME NEW q \in Queue, running'[q] # None
        PROVE  order'[q] # <<>> /\ running'[q] = Head(order'[q])
    <3>1. CASE q = at
      BY <1>3, <2>1, <2>2, <3>1 DEF NextRunning, QInv, Typed
    <3>2. CASE q # at
      BY <1>2, <2>1, <2>2, <3>2 DEF QInv, RunningIsHead, Typed
    <3> QED
      BY <3>1, <3>2
  <2> QED
    BY <2>2 DEF RunningIsHead
<1> QED
  BY <1>6, <1>7, <1>8, <1>9

LEMMA SlotsFacts ==
  ASSUME NEW n \in Nat, NEW s \in Slots(n)
  PROVE  /\ s \in Seq(Item) /\ Distinct(s) /\ Elements(s) \subseteq Unused
         /\ Len(s) = n
<1>1. s \in [1..n -> Unused] /\ \A j, k \in 1..n : s[j] = s[k] => j = k
  BY DEF Slots
<1>2. s \in [1..n -> Item]
  BY <1>1 DEF Unused
<1>3. s \in Seq(Item) /\ Len(s) = n
  <2>1. s \in Seq(Item)
    BY <1>2, IsASeq
  <2>2. Len(s) = n
    BY <1>2, <2>1, LenProperties
  <2> QED
    BY <2>1, <2>2
<1> QED
  BY <1>1, <1>3 DEF Distinct, Elements

(***************************************************************************)
(* What the firing of an item of any kind comes to: what is new, what goes *)
(* and which clients the new items and jobs point at.                      *)
(***************************************************************************)
Known == Live \cup {None, it[Current].client}

FireStep(s, rec, n, a, removed, waits, jr) ==
  /\ FireShape(s, rec, n, a, removed, waits)
  /\ Fire(s, rec, n, a, removed, waits, jr)
  /\ s # <<>> => rec.client \in Known /\ rec.about = None
  /\ a \in Live \cup {None} /\ (n = <<>> => a = None)
  /\ \/ ~waits /\ jr = {} /\ job' = job
     \/ \E j \in Idle, t \in Known :
          /\ jr = {<<j, t>>}
          /\ job' = [job EXCEPT ![j] = NewJob(IF waits THEN Current ELSE None, t)]

LEMMA HookFacts ==
  ASSUME QInv, at # "events", order[at] # <<>>, ~it[Current].hook \/ it[Current].kind = "notice",
         it[Current].kind \in {"command", "notice"},
         NEW c \in Client \cup {None}, at \in Client => c = at
  PROVE  /\ Hook(c) \in ItemRecord /\ MadeWell(Hook(c)) /\ Hook(c).queue = at
         /\ ~Hook(c).fired /\ Hook(c).kind = "command" /\ Hook(c).client = c
         /\ Hook(c).about = None
<1>1. /\ at \in Queue /\ Current \in Item /\ it[Current].queue = at
      /\ it[Current] \in ItemRecord /\ MadeWell(it[Current])
  BY CurrentItem DEF QInv, Typed, Made
<1>2. /\ it[Current].depth \in Nat /\ it[Current].depth <= 1
      /\ at # Global => it[Current].depth = 0
  BY <1>1 DEF ItemRecord, MadeWell
<1>3. Hook(c) = [kind |-> "command", queue |-> at, client |-> c, group |-> 0, hook |-> TRUE,
                 fired |-> FALSE, waiting |-> FALSE, depth |-> it[Current].depth + 1,
                 about |-> None]
  BY DEF Hook, NewItem
<1>4. Hook(c) \in ItemRecord
  BY <1>1, <1>2, <1>3 DEF ItemRecord, Kinds
<1>5. MadeWell(Hook(c))
  BY <1>1, <1>2, <1>3, NamesAssumption DEF MadeWell, Queue
<1> QED
  BY <1>3, <1>4, <1>5

LEMMA NoticeSlotsFacts ==
  ASSUME QInv, at # "events", order[at] # <<>>, ~it[Current].fired,
         it[Current].kind = "command", NEW n \in NoticeSlots
  PROVE  /\ n \in Seq(Item) /\ Distinct(n) /\ Elements(n) \subseteq Unused
         /\ n # <<>> => /\ it[Current].depth <= 1
                        /\ at = Global => ~it[Current].hook
<1>1. /\ at \in Queue /\ Current \in Item /\ it[Current].queue = at
      /\ it[Current] \in ItemRecord /\ MadeWell(it[Current])
  BY CurrentItem DEF QInv, Typed, Made
<1>2. n \in Seq(Item) /\ Distinct(n) /\ Elements(n) \subseteq Unused
  BY SlotsFacts, ElementsEmpty, EmptySeq DEF NoticeSlots
<1>3. ASSUME n # <<>>
      PROVE  at = Global => ~it[Current].hook
  BY <1>1, <1>3, NamesAssumption DEF NoticeSlots, Suppressed, RunningGlobal, MadeWell
<1>4. ASSUME n # <<>>
      PROVE  it[Current].depth <= 1
  BY <1>1, <1>3, <1>4 DEF MadeWell, ItemRecord
<1> QED
  BY <1>2, <1>3, <1>4

LEMMA FireIsStep ==
  ASSUME QInv, FireCommand \/ FireCallback \/ FireNotice
  PROVE  /\ at # "events" /\ order[at] # <<>> /\ ~it[Current].fired
         /\ \E s, rec, n, a, removed, waits, jr :
              FireStep(s, rec, n, a, removed, waits, jr)
<1>1. at # "events" /\ order[at] # <<>> /\ ~it[Current].fired
  BY DEF FireCommand, FireCallback, FireNotice, CanFire
<1>2. /\ at \in Queue /\ Current \in Item /\ it[Current].queue = at
      /\ it[Current] \in ItemRecord /\ MadeWell(it[Current])
      /\ it[Current].client \in Client \cup {None}
      /\ it[Current].depth \in Nat /\ it[Current].hook \in BOOLEAN
      /\ at \in Client => it[Current].client = at
      /\ None \notin Client
  BY <1>1, CurrentItem, NamesAssumption DEF QInv, Typed, Made, MadeWell, ItemRecord
<1>3. /\ <<>> \in Seq(Item) /\ Distinct(<<>>) /\ Elements(<<>>) = {}
      /\ Live \subseteq Client
  BY ElementsEmpty, EmptySeq DEF Live
<1>4. ASSUME NEW c \in ClientsFor(Current), it[Current].kind = "command"
      PROVE  c \in Client \cup {None} /\ c \in Known /\ (at \in Client => c = at)
  BY <1>2, <1>3, <1>4 DEF ClientsFor, Known
<1>5. ASSUME NEW c \in ClientsFor(Current), CanFire("command"), CommandSucceeds(c)
      PROVE  \E s, rec, n, a, removed, waits, jr : FireStep(s, rec, n, a, removed, waits, jr)
  <2>1. PICK s \in HookSlots(Current), n \in NoticeSlots, a \in Live \cup {None} :
          /\ Elements(s) \cap Elements(n) = {}
          /\ n = <<>> => a = None
          /\ Fire(s, Hook(c), n, a, {}, FALSE, {})
          /\ job' = job
    BY <1>5 DEF CommandSucceeds
  <2>2. it[Current].kind = "command"
    BY <1>5 DEF CanFire
  <2>3. s \in Seq(Item) /\ Distinct(s) /\ Elements(s) \subseteq Unused
    BY <1>3, SlotsFacts DEF HookSlots
  <2>4. s # <<>> => ~it[Current].hook
    BY DEF HookSlots
  <2>5. s # <<>> => /\ Hook(c) \in ItemRecord /\ MadeWell(Hook(c)) /\ Hook(c).queue = at
                    /\ ~Hook(c).fired /\ Hook(c).kind # "free" /\ Hook(c).client = c
                    /\ Hook(c).about = None
    BY <1>1, <1>4, <2>2, <2>4, HookFacts
  <2>6. FireShape(s, Hook(c), n, a, {}, FALSE)
    BY <1>1, <1>3, <2>1, <2>2, <2>3, <2>5, NoticeSlotsFacts DEF FireShape
  <2>7. FireStep(s, Hook(c), n, a, {}, FALSE, {})
    BY <1>4, <2>1, <2>2, <2>5, <2>6 DEF FireStep
  <2> QED
    BY <2>7
<1>6. ASSUME NEW c \in ClientsFor(Current), CanFire("command"), CommandInserts(c)
      PROVE  \E s, rec, n, a, removed, waits, jr : FireStep(s, rec, n, a, removed, waits, jr)
  <2>1. PICK l \in InsertSizes \X FreshGroups : \E s \in Slots(l[1]) :
          /\ Fire(s, NewItem("command", at, c, l[2], it[Current].hook, it[Current].depth, None),
                  <<>>, None, {}, FALSE, {})
          /\ job' = job
    BY <1>6 DEF CommandInserts
  <2> DEFINE new == NewItem("command", at, c, l[2], it[Current].hook, it[Current].depth, None)
  <2>2. PICK s \in Slots(l[1]) : Fire(s, new, <<>>, None, {}, FALSE, {}) /\ job' = job
    BY <2>1
  <2>3. l[1] \in Nat /\ l[2] \in Groups /\ it[Current].kind = "command"
    BY <1>6, <2>1, GroupAssumption DEF FreshGroups, CanFire
  <2>4. s \in Seq(Item) /\ Distinct(s) /\ Elements(s) \subseteq Unused
    BY <2>3, SlotsFacts
  <2>5. new = [kind |-> "command", queue |-> at, client |-> c, group |-> l[2],
               hook |-> it[Current].hook, fired |-> FALSE, waiting |-> FALSE,
               depth |-> it[Current].depth, about |-> None]
    BY DEF NewItem
  <2> HIDE DEF new
  <2>6. new \in ItemRecord
    BY <1>2, <1>4, <2>3, <2>5 DEF ItemRecord, Kinds
  <2>7. MadeWell(new)
    BY <1>2, <1>4, <2>3, <2>5, NamesAssumption DEF MadeWell, Queue
  <2>8. FireShape(s, new, <<>>, None, {}, FALSE)
    BY <1>3, <2>4, <2>5, <2>6, <2>7 DEF FireShape
  <2>9. FireStep(s, new, <<>>, None, {}, FALSE, {})
    BY <1>4, <2>2, <2>3, <2>5, <2>8 DEF FireStep
  <2> QED
    BY <2>9
<1>7. ASSUME CanFire("command"), CommandFails
      PROVE  \E s, rec, n, a, removed, waits, jr : FireStep(s, rec, n, a, removed, waits, jr)
  <2> DEFINE new == Hook(it[Current].client)
  <2>1. PICK s \in HookSlots(Current) :
          Fire(s, new, <<>>, None, SameGroup, FALSE, {}) /\ job' = job
    BY <1>7 DEF CommandFails
  <2>2. it[Current].kind = "command"
    BY <1>7 DEF CanFire
  <2>3. s \in Seq(Item) /\ Distinct(s) /\ Elements(s) \subseteq Unused
    BY <1>3, SlotsFacts DEF HookSlots
  <2>4. s # <<>> => ~it[Current].hook
    BY DEF HookSlots
  <2>5. s # <<>> => /\ new \in ItemRecord /\ MadeWell(new) /\ new.queue = at
                    /\ ~new.fired /\ new.kind # "free" /\ new.client = it[Current].client
                    /\ new.about = None
    BY <1>1, <1>2, <2>2, <2>4, HookFacts
  <2> HIDE DEF new
  <2>6. SameGroup \subseteq Elements(Tail(order[at]))
    BY DEF SameGroup
  <2>7. FireShape(s, new, <<>>, None, SameGroup, FALSE)
    BY <1>3, <2>3, <2>5, <2>6 DEF FireShape
  <2>8. FireStep(s, new, <<>>, None, SameGroup, FALSE, {})
    BY <2>1, <2>5, <2>7 DEF FireStep, Known
  <2> QED
    BY <2>8
<1>8. ASSUME NEW c \in ClientsFor(Current), CanFire("command"), CommandWaits(c)
      PROVE  \E s, rec, n, a, removed, waits, jr : FireStep(s, rec, n, a, removed, waits, jr)
  <2>1. PICK j \in Idle, s \in HookSlots(Current), n \in NoticeSlots :
          /\ Elements(s) \cap Elements(n) = {}
          /\ Fire(s, Hook(c), n, None, {}, TRUE, {<<j, c>>})
          /\ job' = [job EXCEPT ![j] = NewJob(Current, c)]
    BY <1>8 DEF CommandWaits
  <2>2. it[Current].kind = "command"
    BY <1>8 DEF CanFire
  <2>3. s \in Seq(Item) /\ Distinct(s) /\ Elements(s) \subseteq Unused
    BY <1>3, SlotsFacts DEF HookSlots
  <2>4. s # <<>> => ~it[Current].hook
    BY DEF HookSlots
  <2>5. s # <<>> => /\ Hook(c) \in ItemRecord /\ MadeWell(Hook(c)) /\ Hook(c).queue = at
                    /\ ~Hook(c).fired /\ Hook(c).kind # "free" /\ Hook(c).client = c
                    /\ Hook(c).about = None
    BY <1>1, <1>4, <2>2, <2>4, HookFacts
  <2>6. FireShape(s, Hook(c), n, None, {}, TRUE)
    BY <1>1, <1>3, <2>1, <2>2, <2>3, <2>5, NoticeSlotsFacts DEF FireShape
  <2>7. FireStep(s, Hook(c), n, None, {}, TRUE, {<<j, c>>})
    BY <1>4, <2>1, <2>2, <2>5, <2>6 DEF FireStep
  <2> QED
    BY <2>7
<1>9. ASSUME NEW c \in ClientsFor(Current), CanFire("command"), CommandStarts(c)
      PROVE  \E s, rec, n, a, removed, waits, jr : FireStep(s, rec, n, a, removed, waits, jr)
  <2>1. PICK j \in Idle, t \in {c} \cup Live \cup {None} :
          /\ Fire(<<>>, FreeItem, <<>>, None, {}, FALSE, {<<j, t>>})
          /\ job' = [job EXCEPT ![j] = NewJob(None, t)]
    BY <1>9 DEF CommandStarts
  <2>2. it[Current].kind = "command"
    BY <1>9 DEF CanFire
  <2>3. t \in Known
    BY <1>4, <2>2 DEF Known
  <2>4. FireShape(<<>>, FreeItem, <<>>, None, {}, FALSE)
    BY <1>3 DEF FireShape
  <2>5. FireStep(<<>>, FreeItem, <<>>, None, {}, FALSE, {<<j, t>>})
    BY <2>1, <2>3, <2>4 DEF FireStep
  <2> QED
    BY <2>5
<1>10. ASSUME FireCallback
       PROVE  \E s, rec, n, a, removed, waits, jr : FireStep(s, rec, n, a, removed, waits, jr)
  <2>1. PICK l \in Lines(LineSizes) : \E s \in Slots(l[1]) :
          /\ Fire(s, NewItem("command", at, it[Current].client, l[2], FALSE, 0, None),
                  <<>>, None, {}, FALSE, {})
          /\ job' = job
    BY <1>10 DEF FireCallback
  <2> DEFINE new == NewItem("command", at, it[Current].client, l[2], FALSE, 0, None)
  <2>2. PICK s \in Slots(l[1]) : Fire(s, new, <<>>, None, {}, FALSE, {}) /\ job' = job
    BY <2>1
  <2>3. l[1] \in Nat /\ l[2] \in Groups \cup {0}
    BY <2>1, GroupAssumption DEF Lines, FreshGroups
  <2>4. s \in Seq(Item) /\ Distinct(s) /\ Elements(s) \subseteq Unused
    BY <2>3, SlotsFacts
  <2>5. new = [kind |-> "command", queue |-> at, client |-> it[Current].client,
               group |-> l[2], hook |-> FALSE, fired |-> FALSE, waiting |-> FALSE,
               depth |-> 0, about |-> None]
    BY DEF NewItem
  <2> HIDE DEF new
  <2>6. new \in ItemRecord
    BY <1>2, <2>3, <2>5 DEF ItemRecord, Kinds
  <2>7. MadeWell(new)
    BY <1>2, <2>3, <2>5, NamesAssumption DEF MadeWell, Queue
  <2>8. FireShape(s, new, <<>>, None, {}, FALSE)
    BY <1>3, <2>4, <2>5, <2>6, <2>7 DEF FireShape
  <2>9. FireStep(s, new, <<>>, None, {}, FALSE, {})
    BY <2>2, <2>5, <2>8 DEF FireStep, Known
  <2> QED
    BY <2>9
<1>11. ASSUME FireNotice
       PROVE  \E s, rec, n, a, removed, waits, jr : FireStep(s, rec, n, a, removed, waits, jr)
  <2> DEFINE new == Hook(it[Current].client)
  <2>1. PICK k \in {0, 1} : \E s \in Slots(k) :
          Fire(s, new, <<>>, None, {}, FALSE, {}) /\ job' = job
    BY <1>11 DEF FireNotice
  <2>2. PICK s \in Slots(k) : Fire(s, new, <<>>, None, {}, FALSE, {}) /\ job' = job
    BY <2>1
  <2>3. it[Current].kind = "notice"
    BY <1>11 DEF FireNotice, CanFire
  <2>4. s \in Seq(Item) /\ Distinct(s) /\ Elements(s) \subseteq Unused
    BY <2>1, SlotsFacts
  <2>5. /\ new \in ItemRecord /\ MadeWell(new) /\ new.queue = at
        /\ ~new.fired /\ new.kind # "free" /\ new.client = it[Current].client
        /\ new.about = None
    BY <1>1, <1>2, <2>3, HookFacts
  <2> HIDE DEF new
  <2>6. FireShape(s, new, <<>>, None, {}, FALSE)
    BY <1>3, <2>4, <2>5 DEF FireShape
  <2>7. FireStep(s, new, <<>>, None, {}, FALSE, {})
    BY <2>2, <2>5, <2>6 DEF FireStep, Known
  <2> QED
    BY <2>7
<1> QED
  BY <1>1, <1>5, <1>6, <1>7, <1>8, <1>9, <1>10, <1>11 DEF FireCommand

\* Who waits, and for which job, stays the same.
LEMMA WaitersKept ==
  ASSUME QInv,
         \A i \in Item : it'[i].waiting = it[i].waiting,
         \A j \in Job : /\ ~job'[j].busy => job'[j] = FreeJob
                        /\ job'[j].item = job[j].item
  PROVE  Waiters'
<1>1. \A j \in Job : job[j].item \in Item \cup {None}
  BY DEF QInv, Typed, JobRecord
<1>2. Waiters
  BY DEF QInv
<1> QED
  <2>1. JobsWait'
    <3>1. \A j \in Job : job'[j].item # None => it'[job'[j].item].waiting
      BY <1>1, <1>2 DEF Waiters, JobsWait
    <3> QED
      BY <3>1 DEF JobsWait, FreeJob
  <2>2. JobsDiffer'
    BY <1>2 DEF Waiters, JobsDiffer
  <2>3. WaitersHaveJobs'
    BY <1>2 DEF Waiters, WaitersHaveJobs
  <2> QED
    BY <2>1, <2>2, <2>3 DEF Waiters

LEMMA FireWaiting ==
  ASSUME QInv, at # "events", order[at] # <<>>, ~it[Current].fired,
         NEW s, NEW rec, NEW n, NEW a, NEW removed, NEW waits,
         FireShape(s, rec, n, a, removed, waits),
         FireItems(s, rec, n, a, removed, waits),
         NEW i \in Item
  PROVE  /\ it'[i].waiting <=> it[i].waiting \/ (waits /\ i = Current)
         /\ i \in Gone(removed, waits) => ~it[i].waiting
<1> DEFINE gone == Gone(removed, waits)
<1>1. /\ gone \subseteq Elements(order[at])
      /\ waits => gone = {}
      /\ ~waits => Current \in gone
      /\ i \in gone => it'[i] = FreeItem
      /\ i \in Elements(s) => it'[i] = rec
      /\ i \in Elements(n) => it'[i] = Notice(a, it[Current].depth)
      /\ i = Current /\ waits => it'[i] = Stopped(it[i])
      /\ i \notin gone \cup Elements(s) \cup Elements(n) /\ ~(i = Current /\ waits)
           => it'[i] = it[i]
  BY FireContents
<1> HIDE DEF gone
<1>2. /\ Current \in Item /\ MadeWell(it[Current]) /\ it[Current] \in ItemRecord
      /\ it[i] \in ItemRecord /\ MadeWell(it[i]) /\ at \in Queue
      /\ Elements(order[at]) = {x \in Item : it[x].queue = at}
  BY CurrentItem DEF QInv, Made, Typed, Listed
<1>3. i \in gone => ~it[i].waiting
  <2>1. i \in gone => it[i].queue = at
    BY <1>1, <1>2
  <2>2. it[i].fired => i = Head(order[it[i].queue])
    BY DEF QInv, HeadFired
  <2>3. i \in gone /\ it[i].fired => i = Current
    BY <2>1, <2>2 DEF Current
  <2> QED
    BY <1>2, <2>3 DEF MadeWell
<1>4. i \in Elements(s) \cup Elements(n) => ~it[i].waiting
  BY DEF FireShape, Unused, QInv, Made, MadeWell, FreeItem
<1>5. i \in Elements(s) => ~it'[i].waiting
  BY <1>1, ElementsEmpty DEF FireShape, MadeWell
<1>6. i \in Elements(n) => ~it'[i].waiting
  BY <1>1 DEF Notice, NewItem
<1>7. i \in gone => ~it'[i].waiting
  BY <1>1 DEF FreeItem
<1>8. i = Current /\ waits => it'[i].waiting
  BY <1>1, <1>2, StoppedFacts DEF FireShape
<1> QED
  BY <1>1, <1>3, <1>4, <1>5, <1>6, <1>7, <1>8 DEF gone

LEMMA FireKeepsQInv ==
  ASSUME QInv, at # "events", order[at] # <<>>, ~it[Current].fired,
         NEW s, NEW rec, NEW n, NEW a, NEW removed, NEW waits, NEW jr,
         FireStep(s, rec, n, a, removed, waits, jr)
  PROVE  QInv'
<1>1. FireShape(s, rec, n, a, removed, waits) /\ FireItems(s, rec, n, a, removed, waits)
  BY DEF FireStep, Fire
<1>2. Made' /\ Listed' /\ HeadFired' /\ RunningIsHead'
  BY <1>1, FireSound
<1>3. /\ Current \in Item /\ at \in Queue
      /\ MadeWell(it[Current])
      /\ it[Current] \in ItemRecord
      /\ Known \subseteq Client \cup {None}
  BY CurrentItem DEF QInv, Typed, Made, ItemRecord, Known, Live
<1>4. Typed'
  <2>1. it' \in [Item -> ItemRecord] /\ order' \in [Queue -> Seq(Item)]
    BY <1>1, FireContents, FireOrder
  <2>2. job' \in [Job -> JobRecord]
    <3>1. \A t \in Known, i \in Item \cup {None} : NewJob(i, t) \in JobRecord
      BY <1>3 DEF NewJob, JobRecord
    <3>2. job \in [Job -> JobRecord]
      BY DEF QInv, Typed
    <3>3. \/ job' = job
          \/ \E j \in Idle, t \in Known :
               job' = [job EXCEPT ![j] = NewJob(IF waits THEN Current ELSE None, t)]
      BY DEF FireStep
    <3> QED
      BY <1>3, <3>1, <3>2, <3>3
  <2>3. running' \in [Queue -> Item \cup {None}]
    <3>1. NextRunning(at) \in Item \cup {None}
      BY <1>3, <2>1, ElementsTail, ElementsOf DEF NextRunning
    <3> QED
      BY <1>1, <1>3, <3>1 DEF FireItems, QInv, Typed
  <2>4. freeing' \in SUBSET Client
    BY DEF FireStep, Fire, Reference, QInv, Typed
  <2>5. busy' \in BOOLEAN /\ conn' = conn /\ at' = at /\ todo' = todo
    BY <1>1 DEF FireItems, FireShape, QInv, Typed
  <2> QED
    BY <2>1, <2>2, <2>3, <2>4, <2>5 DEF QInv, Typed
<1>5. \A i \in Item : it'[i].waiting <=> it[i].waiting \/ (waits /\ i = Current)
  BY <1>1, FireWaiting
<1>6. \A i \in Item : it'[i].waiting \in BOOLEAN /\ it[i].waiting \in BOOLEAN
  BY <1>4 DEF QInv, Typed, ItemRecord
<1>7. Waiters'
  <2>1. CASE jr = {} /\ job' = job /\ ~waits
    BY <1>5, <1>6, <2>1, WaitersKept DEF QInv, Waiters, JobsWait
  <2>2. CASE \E j \in Idle, t \in Known :
               job' = [job EXCEPT ![j] = NewJob(IF waits THEN Current ELSE None, t)]
    <3>1. PICK j \in Idle, t \in Known :
            job' = [job EXCEPT ![j] = NewJob(IF waits THEN Current ELSE None, t)]
      BY <2>2
    <3>2. /\ j \in Job /\ job[j].item = None /\ job \in [Job -> JobRecord]
      BY DEF Idle, QInv, Waiters, JobsWait, FreeJob, Typed
    <3>3. /\ job'[j].busy /\ job'[j].item = (IF waits THEN Current ELSE None)
          /\ \A k \in Job : k # j => job'[k] = job[k]
      BY <3>1, <3>2 DEF NewJob
    <3>4. CASE waits
      <4>1. ~it[Current].waiting
        BY <1>3 DEF MadeWell
      <4>2. \A k \in Job : job[k].item # Current
        BY <1>3, <4>1, NamesAssumption DEF QInv, Waiters, JobsWait
      <4>3. job'[j].item = Current
        BY <3>3, <3>4
      <4>4. JobsWait'
        <5>1. \A k \in Job : job[k].item \in Item \cup {None}
          BY <3>2 DEF JobRecord
        <5>2. \A k \in Job : /\ ~job'[k].busy => job'[k] = FreeJob
                             /\ job'[k].item # None => it'[job'[k].item].waiting
          BY <1>3, <1>5, <3>3, <3>4, <4>3, <5>1 DEF QInv, Waiters, JobsWait
        <5> QED
          BY <5>2 DEF JobsWait, FreeJob
      <4>5. JobsDiffer'
        BY <3>3, <4>2, <4>3 DEF QInv, Waiters, JobsDiffer
      <4>6. WaitersHaveJobs'
        <5>1. ASSUME NEW i \in Item, it'[i].waiting
              PROVE  \E k \in Job : job'[k].item = i
          <6>1. CASE i = Current
            BY <3>2, <4>3, <6>1
          <6>2. CASE i # Current
            <7>1. it[i].waiting
              BY <1>5, <5>1, <6>2
            <7>2. PICK k \in Job : job[k].item = i
              BY <5>1, <7>1 DEF QInv, Waiters, WaitersHaveJobs
            <7>3. k # j
              BY <3>2, <5>1, <7>2, NamesAssumption
            <7> QED
              BY <3>3, <7>2, <7>3
          <6> QED
            BY <6>1, <6>2
        <5> QED
          BY <5>1 DEF WaitersHaveJobs
      <4> QED
        BY <4>4, <4>5, <4>6 DEF Waiters
    <3>5. CASE ~waits
      <4>1. \A i \in Item : it'[i].waiting = it[i].waiting
        BY <1>5, <1>6, <3>5
      <4>2. \A k \in Job : job'[k].item = job[k].item
        BY <3>2, <3>3, <3>5
      <4>3. \A k \in Job : ~job'[k].busy => job'[k] = FreeJob
        BY <3>2, <3>3 DEF QInv, Waiters, JobsWait
      <4> QED
        BY <4>1, <4>2, <4>3, WaitersKept
    <3> QED
      BY <1>1, <3>4, <3>5 DEF FireShape
  <2> QED
    BY <2>1, <2>2 DEF FireStep
<1> QED
  BY <1>2, <1>4, <1>7 DEF QInv

-----------------------------------------------------------------------------
(***************************************************************************)
(* The steps that fire nothing.                                            *)
(***************************************************************************)
LEMMA RetireKeepsQInv ==
  ASSUME QInv, Retire
  PROVE  QInv'
<1> DEFINE h == Current
           rest == Tail(order[at])
<1>1. at # "events" /\ order[at] # <<>> /\ it[h].fired /\ ~it[h].waiting
  BY DEF Retire
<1>2. /\ at \in Queue /\ h \in Item /\ it[h].queue = at
      /\ rest \in Seq(Item) /\ Distinct(rest)
      /\ Elements(order[at]) = {h} \cup Elements(rest) /\ h \notin Elements(rest)
  BY <1>1, CurrentItem
<1>3. /\ it' = [it EXCEPT ![h] = FreeItem]
      /\ order' = [order EXCEPT ![at] = rest]
      /\ running' = [running EXCEPT ![at] = NextRunning(at)]
      /\ job' = job /\ conn' = conn /\ at' = at /\ todo' = todo /\ busy' = busy
      /\ freeing' = freeing \cup {c \in Client : refs[c] # 0 /\ refs'[c] = 0}
  BY DEF Retire, Reference, loopVars
<1> HIDE DEF h, rest
<1>4. /\ it \in [Item -> ItemRecord] /\ order \in [Queue -> Seq(Item)]
      /\ running \in [Queue -> Item \cup {None}]
  BY DEF QInv, Typed
<1>5. /\ it'[h] = FreeItem /\ \A i \in Item : i # h => it'[i] = it[i]
      /\ order'[at] = rest /\ \A q \in Queue : q # at => order'[q] = order[q]
  BY <1>2, <1>3, <1>4
<1>6. Typed'
  <2>1. it' \in [Item -> ItemRecord] /\ order' \in [Queue -> Seq(Item)]
    BY <1>2, <1>3, <1>4, FreeItemFacts
  <2>2. NextRunning(at) \in Item \cup {None}
    BY <1>2, <2>1, ElementsTail, ElementsOf DEF NextRunning
  <2>3. running' \in [Queue -> Item \cup {None}]
    BY <1>2, <1>3, <1>4, <2>2
  <2> QED
    BY <1>3, <2>1, <2>3 DEF QInv, Typed
<1>7. Made'
  BY <1>2, <1>5, FreeItemFacts DEF QInv, Made, MadeWell
<1>8. Listed'
  <2>1. ASSUME NEW q \in Queue
        PROVE  Distinct(order'[q]) /\ Elements(order'[q]) = {i \in Item : it'[i].queue = q}
    <3>1. Elements(order[q]) = {i \in Item : it[i].queue = q} /\ Distinct(order[q]) /\ q # None
      BY <2>1, NamesAssumption DEF QInv, Listed, Queue
    <3>2. it'[h].queue = None
      BY <1>5 DEF FreeItem
    <3> QED
      BY <1>2, <1>5, <2>1, <3>1, <3>2
  <2> QED
    BY <2>1 DEF Listed, Distinct, Elements
<1>9. HeadFired'
  <2>1. ASSUME NEW i \in Item, it'[i].fired
        PROVE  i = Head(order'[it'[i].queue])
    <3>1. i # h /\ it'[i] = it[i]
      BY <1>5, <2>1 DEF FreeItem
    <3>2. i = Head(order[it[i].queue]) /\ it[i].kind # "free"
      BY <2>1, <3>1 DEF QInv, HeadFired, Made, MadeWell, FreeItem
    <3>3. it[i].queue \in Queue
      BY <1>4, <2>1, <3>2 DEF QInv, Made, MadeWell, ItemRecord
    <3>4. it[i].queue # at
      BY <3>1, <3>2 DEF Current, h
    <3> QED
      BY <1>5, <3>1, <3>2, <3>3, <3>4
  <2> QED
    BY <2>1 DEF HeadFired
<1>10. RunningIsHead'
  <2>1. ASSUME NEW q \in Queue, running'[q] # None
        PROVE  order'[q] # <<>> /\ running'[q] = Head(order'[q])
    BY <1>2, <1>3, <1>4, <1>5, <2>1 DEF NextRunning, QInv, RunningIsHead
  <2> QED
    BY <2>1 DEF RunningIsHead
<1>11. Waiters'
  <2>1. \A i \in Item : it'[i].waiting = it[i].waiting
    <3>1. it[h] \in ItemRecord /\ it'[h].waiting = FALSE
      BY <1>2, <1>4, <1>5 DEF FreeItem
    <3>2. it[h].waiting = FALSE
      BY <1>1, <3>1 DEF ItemRecord
    <3> QED
      BY <1>5, <3>1, <3>2
  <2> QED
    BY <1>3, <2>1, WaitersKept DEF QInv, Waiters, JobsWait
<1> QED
  BY <1>6, <1>7, <1>8, <1>9, <1>10, <1>11 DEF QInv

\* New items at the end of a queue.
AddShape(q, s, f) ==
  /\ q \in Queue
  /\ s \in Seq(Item) /\ Distinct(s) /\ Elements(s) \subseteq Unused
  /\ \A i \in Elements(s) : /\ f[i] \in ItemRecord /\ MadeWell(f[i]) /\ f[i].queue = q
                            /\ ~f[i].fired

LEMMA AddSound ==
  ASSUME QInv, NEW q, NEW s, NEW f, AddShape(q, s, f), Append2(q, s, f), running' = running
  PROVE  /\ it' \in [Item -> ItemRecord]
         /\ order' \in [Queue -> Seq(Item)]
         /\ Made' /\ Listed' /\ HeadFired' /\ RunningIsHead'
         /\ \A i \in Item : it'[i].waiting = it[i].waiting
<1>1. /\ it \in [Item -> ItemRecord] /\ order \in [Queue -> Seq(Item)]
      /\ \A r \in Queue : /\ Elements(order[r]) = {i \in Item : it[i].queue = r}
                          /\ Distinct(order[r]) /\ r # None
  BY NamesAssumption DEF QInv, Typed, Listed, Queue
<1>2. \A i \in Elements(s) : i \in Item /\ it[i] = FreeItem
  BY DEF AddShape, Unused, QInv, Made, MadeWell
<1>3. /\ \A i \in Item : it'[i] = IF i \in Elements(s) THEN f[i] ELSE it[i]
      /\ order' = [order EXCEPT ![q] = order[q] \o s]
      /\ it' = [i \in Item |-> IF i \in Elements(s) THEN f[i] ELSE it[i]]
  BY DEF Append2
<1>4. /\ order[q] \o s \in Seq(Item)
      /\ Elements(order[q] \o s) = Elements(order[q]) \cup Elements(s)
      /\ order[q] # <<>> => order[q] \o s # <<>> /\ Head(order[q] \o s) = Head(order[q])
      /\ Distinct(order[q] \o s)
  <2>1. /\ order[q] \in Seq(Item) /\ Distinct(order[q])
        /\ s \in Seq(Item) /\ Distinct(s)
        /\ Elements(order[q]) \cap Elements(s) = {}
    BY <1>1, <1>2 DEF AddShape, FreeItem
  <2> QED
    BY <2>1, ElementsConcat
<1>5. /\ q \in Queue
      /\ order'[q] = order[q] \o s
      /\ \A r \in Queue : r # q => order'[r] = order[r]
  BY <1>1, <1>3 DEF AddShape
<1>6. it' \in [Item -> ItemRecord] /\ order' \in [Queue -> Seq(Item)]
  BY <1>1, <1>3, <1>4, <1>5 DEF AddShape
<1>7. \A i \in Elements(s) : MadeWell(it'[i]) /\ it'[i].queue = q /\ ~it'[i].fired
  BY <1>2, <1>3 DEF AddShape
<1>8. Made'
  <2>1. \A i \in Item : MadeWell(it'[i])
    BY <1>3, <1>7 DEF QInv, Made
  <2> QED
    BY <2>1 DEF Made, MadeWell
<1>9. Listed'
  <2>1. ASSUME NEW r \in Queue
        PROVE  Distinct(order'[r]) /\ Elements(order'[r]) = {i \in Item : it'[i].queue = r}
    <3>1. \A i \in Elements(s) : it[i].queue = None
      BY <1>2 DEF FreeItem
    <3> QED
      BY <1>1, <1>2, <1>3, <1>4, <1>5, <1>7, <2>1, <3>1
  <2> QED
    BY <2>1 DEF Listed, Distinct, Elements
<1>10. HeadFired'
  <2>1. ASSUME NEW i \in Item, it'[i].fired
        PROVE  i = Head(order'[it'[i].queue])
    <3>1. it'[i] = it[i] /\ it[i].fired
      BY <1>3, <1>7, <2>1
    <3>2. i = Head(order[it[i].queue]) /\ it[i].kind # "free"
      BY <2>1, <3>1 DEF QInv, HeadFired, Made, MadeWell, FreeItem
    <3>3. it[i].queue \in Queue
      BY <1>1, <2>1, <3>2 DEF QInv, Made, MadeWell, ItemRecord
    <3>4. order[it[i].queue] # <<>>
      BY <1>1, <2>1, <3>3, ElementsEmpty
    <3> QED
      BY <1>4, <1>5, <3>1, <3>2, <3>3, <3>4
  <2> QED
    BY <2>1 DEF HeadFired
<1>11. RunningIsHead'
  BY <1>4, <1>5 DEF QInv, RunningIsHead
<1>12. \A i \in Item : it'[i].waiting = it[i].waiting
  <2>1. \A i \in Elements(s) : ~it[i].waiting
    BY <1>2 DEF FreeItem
  <2>2. \A i \in Elements(s) : ~it'[i].waiting /\ it'[i].waiting \in BOOLEAN
    BY <1>2, <1>6, <1>7 DEF MadeWell, ItemRecord
  <2> QED
    BY <1>1, <1>2, <1>3, <2>1, <2>2 DEF ItemRecord
<1> QED
  BY <1>6, <1>8, <1>9, <1>10, <1>11, <1>12

LEMMA RequestKeepsQInv ==
  ASSUME QInv, NEW c \in Client, Request(c)
  PROVE  QInv'
<1> DEFINE callback == NewItem("callback", c, c, 0, FALSE, 0, None)
           command(g) == NewItem("command", c, c, g, FALSE, 0, None)
           new(l, s) == [i \in Elements(s) |-> IF i = s[l[1] + 1] THEN callback
                                             ELSE command(l[2])]
<1>1. PICK l \in Lines(LineSizes) : \E s \in Slots(l[1] + 1) :
        Append2(c, s, new(l, s)) /\ Reference(ByItems(it', Elements(s)), {})
  BY DEF Request
<1>2. PICK s \in Slots(l[1] + 1) :
        Append2(c, s, new(l, s)) /\ Reference(ByItems(it', Elements(s)), {})
  BY <1>1
<1>3. l[1] \in Nat /\ l[2] \in Groups \cup {0}
  BY GroupAssumption DEF Lines, FreshGroups
<1>4. s \in Seq(Item) /\ Distinct(s) /\ Elements(s) \subseteq Unused
  BY <1>3, SlotsFacts
<1>5. /\ callback \in ItemRecord /\ MadeWell(callback) /\ callback.queue = c /\ ~callback.fired
      /\ command(l[2]) \in ItemRecord /\ MadeWell(command(l[2]))
      /\ command(l[2]).queue = c /\ ~command(l[2]).fired
  BY <1>3, NamesAssumption DEF NewItem, ItemRecord, Kinds, Queue, MadeWell
<1> HIDE DEF callback, command
<1>6. AddShape(c, s, new(l, s))
  BY <1>4, <1>5 DEF AddShape, Queue
<1>7. /\ running' = running /\ job' = job /\ conn' = conn
      /\ at' = at /\ todo' = todo /\ busy' = busy
  BY DEF Request, loopVars
<1> HIDE DEF new
<1>8. /\ it' \in [Item -> ItemRecord]
      /\ order' \in [Queue -> Seq(Item)]
      /\ Made' /\ Listed' /\ HeadFired' /\ RunningIsHead'
      /\ \A i \in Item : it'[i].waiting = it[i].waiting
  BY <1>2, <1>6, <1>7, AddSound
<1>9. Typed'
  BY <1>2, <1>7, <1>8 DEF QInv, Typed, Reference
<1>10. Waiters'
  BY <1>7, <1>8, WaitersKept DEF QInv, Waiters, JobsWait
<1> QED
  BY <1>8, <1>9, <1>10 DEF QInv

LEMMA RaiseKeepsQInv ==
  ASSUME QInv, Raise
  PROVE  QInv'
<1>1. PICK s \in Slots(1), a \in Live \cup {None} :
        /\ Append2(Global, s, [i \in Elements(s) |-> Notice(a, 0)])
        /\ Reference(ByNotices(it', Elements(s)), {})
  BY DEF Raise
<1> DEFINE new == [i \in Elements(s) |-> Notice(a, 0)]
<1>2. s \in Seq(Item) /\ Distinct(s) /\ Elements(s) \subseteq Unused
  BY SlotsFacts
<1>3. a \in Client \cup {None}
  BY DEF Live
<1>4. /\ Notice(a, 0) \in ItemRecord /\ MadeWell(Notice(a, 0))
      /\ Notice(a, 0).queue = Global /\ ~Notice(a, 0).fired
  BY <1>3, NoticeFacts
<1>5. AddShape(Global, s, new)
  BY <1>2, <1>4 DEF AddShape, Queue
<1>6. /\ running' = running /\ job' = job /\ conn' = conn
      /\ at' = at /\ todo' = todo /\ busy' = busy
  BY DEF Raise, loopVars
<1> HIDE DEF new
<1>7. Append2(Global, s, new)
  BY <1>1 DEF new
<1>8. /\ it' \in [Item -> ItemRecord]
      /\ order' \in [Queue -> Seq(Item)]
      /\ Made' /\ Listed' /\ HeadFired' /\ RunningIsHead'
      /\ \A i \in Item : it'[i].waiting = it[i].waiting
  BY <1>5, <1>6, <1>7, AddSound
<1>9. Typed'
  BY <1>1, <1>6, <1>8 DEF QInv, Typed, Reference
<1>10. Waiters'
  BY <1>6, <1>8, WaitersKept DEF QInv, Waiters, JobsWait
<1> QED
  BY <1>8, <1>9, <1>10 DEF QInv

LEMMA LoseKeepsQInv ==
  ASSUME QInv, NEW c \in Client, Lose(c)
  PROVE  QInv'
<1>1. PICK n \in NoticeSlots :
        /\ Append2(Global, n, [i \in Elements(n) |-> Notice(c, 0)])
        /\ Reference(ByNotices(it', Elements(n)), {<<None, c>>})
  BY DEF Lose
<1> DEFINE new == [i \in Elements(n) |-> Notice(c, 0)]
<1>2. n \in Seq(Item) /\ Distinct(n) /\ Elements(n) \subseteq Unused
  BY SlotsFacts, ElementsEmpty, EmptySeq DEF NoticeSlots
<1>3. /\ Notice(c, 0) \in ItemRecord /\ MadeWell(Notice(c, 0))
      /\ Notice(c, 0).queue = Global /\ ~Notice(c, 0).fired
  BY NoticeFacts
<1>4. AddShape(Global, n, new)
  BY <1>2, <1>3 DEF AddShape, Queue
<1>5. /\ running' = running /\ job' = job
      /\ conn' = [conn EXCEPT ![c] = "lost"]
      /\ at' = at /\ todo' = todo /\ busy' = busy
  BY DEF Lose, loopVars
<1> HIDE DEF new
<1>6. Append2(Global, n, new)
  BY <1>1 DEF new
<1>7. /\ it' \in [Item -> ItemRecord]
      /\ order' \in [Queue -> Seq(Item)]
      /\ Made' /\ Listed' /\ HeadFired' /\ RunningIsHead'
      /\ \A i \in Item : it'[i].waiting = it[i].waiting
  BY <1>4, <1>5, <1>6, AddSound
<1>8. Typed'
  BY <1>1, <1>5, <1>7 DEF QInv, Typed, Reference
<1>9. Waiters'
  BY <1>5, <1>7, WaitersKept DEF QInv, Waiters, JobsWait
<1> QED
  BY <1>7, <1>8, <1>9 DEF QInv

LEMMA BackgroundEndsKeepsQInv ==
  ASSUME QInv, NEW j \in Job, BackgroundEnds(j)
  PROVE  QInv'
<1> DEFINE c == job[j].client
           q == IF c = None THEN Global ELSE c
           command(g) == NewItem("command", q, c, g, FALSE, 0, None)
<1>1. PICK l \in Lines(InsertSizes) : \E s \in Slots(l[1]) :
        /\ Append2(q, s, [i \in Elements(s) |-> command(l[2])])
        /\ Reference(ByItems(it', Elements(s)), Dropped(j))
  BY DEF BackgroundEnds
<1>2. PICK s \in Slots(l[1]) :
        /\ Append2(q, s, [i \in Elements(s) |-> command(l[2])])
        /\ Reference(ByItems(it', Elements(s)), Dropped(j))
  BY <1>1
<1> DEFINE new == [i \in Elements(s) |-> command(l[2])]
<1>3. l[1] \in Nat /\ l[2] \in Groups \cup {0}
  BY GroupAssumption DEF Lines, FreshGroups
<1>4. s \in Seq(Item) /\ Distinct(s) /\ Elements(s) \subseteq Unused
  BY <1>3, SlotsFacts
<1>5. /\ c \in Client \cup {None} /\ q \in Queue
      /\ q \in Client => q = c
      /\ job[j].item = None /\ job[j].busy
      /\ job \in [Job -> JobRecord]
  BY NamesAssumption DEF QInv, Typed, JobRecord, Queue, BackgroundEnds
<1>6. /\ command(l[2]) \in ItemRecord /\ MadeWell(command(l[2]))
      /\ command(l[2]).queue = q /\ ~command(l[2]).fired
  BY <1>3, <1>5, NamesAssumption DEF NewItem, ItemRecord, Kinds, Queue, MadeWell
<1> HIDE DEF command
<1>7. AddShape(q, s, new)
  BY <1>4, <1>5, <1>6 DEF AddShape
<1>8. /\ running' = running /\ conn' = conn
      /\ job' = [job EXCEPT ![j] = FreeJob]
      /\ at' = at /\ todo' = todo /\ busy' = busy
  BY DEF BackgroundEnds, loopVars
<1> HIDE DEF new, q, c
<1>9. Append2(q, s, new)
  BY <1>2 DEF new
<1>10. /\ it' \in [Item -> ItemRecord]
       /\ order' \in [Queue -> Seq(Item)]
       /\ Made' /\ Listed' /\ HeadFired' /\ RunningIsHead'
       /\ \A i \in Item : it'[i].waiting = it[i].waiting
  BY <1>7, <1>8, <1>9, AddSound
<1>11. /\ job' \in [Job -> JobRecord]
       /\ \A k \in Job : /\ ~job'[k].busy => job'[k] = FreeJob
                         /\ job'[k].item = job[k].item
  <2>1. FreeJob \in JobRecord /\ FreeJob.item = None
    BY DEF FreeJob, JobRecord
  <2> QED
    BY <1>5, <1>8, <2>1 DEF QInv, Waiters, JobsWait
<1>12. Typed'
  BY <1>2, <1>8, <1>10, <1>11 DEF QInv, Typed, Reference
<1>13. Waiters'
  BY <1>10, <1>11, WaitersKept
<1> QED
  BY <1>10, <1>12, <1>13 DEF QInv

LEMMA LoopKeepsQInv ==
  ASSUME QInv, LoopStart \/ NextClient \/ NextPass \/ LeaveLoop \/ UNCHANGED vars
  PROVE  QInv'
<1>1. UNCHANGED <<order, it, running, job, conn, freeing>>
  BY DEF LoopStart, NextClient, NextPass, LeaveLoop, QueueDone, vars, qVars, cVars
<1>2. /\ at' \in Queue \cup {"events"} /\ todo' \in SUBSET Client /\ busy' \in BOOLEAN
  BY DEF LoopStart, NextClient, NextPass, LeaveLoop, StartPass, vars, loopVars, QInv, Typed,
         Queue, Live
<1>3. Typed'
  BY <1>1, <1>2 DEF QInv, Typed
<1>4. Made' /\ Listed' /\ HeadFired' /\ RunningIsHead'
  BY <1>1 DEF QInv, Made, MadeWell, Listed, Distinct, Elements, HeadFired, RunningIsHead
<1>5. Waiters'
  BY <1>1, WaitersKept DEF QInv, Waiters, JobsWait
<1> QED
  BY <1>3, <1>4, <1>5 DEF QInv

LEMMA ClientKeepsQInv ==
  ASSUME QInv, NEW c \in Client, Connect(c) \/ Free(c)
  PROVE  QInv'
<1>1. UNCHANGED <<order, it, running, job, at, todo, busy>>
  BY DEF Connect, Free, qVars, loopVars
<1>2. /\ conn' \in [Client -> {"new", "live", "lost", "freed"}]
      /\ freeing' \in SUBSET Client
  BY DEF Connect, Free, QInv, Typed
<1>3. Typed'
  BY <1>1, <1>2 DEF QInv, Typed
<1>4. Made' /\ Listed' /\ HeadFired' /\ RunningIsHead'
  BY <1>1 DEF QInv, Made, MadeWell, Listed, Distinct, Elements, HeadFired, RunningIsHead
<1>5. Waiters'
  BY <1>1, WaitersKept DEF QInv, Waiters, JobsWait
<1> QED
  BY <1>3, <1>4, <1>5 DEF QInv

\* The item a job will continue is a command at the head of its queue.
LEMMA JobItemFacts ==
  ASSUME QInv, NEW j \in Job, job[j].item # None
  PROVE  /\ job[j].item \in Item
         /\ it[job[j].item].waiting /\ it[job[j].item].fired
         /\ it[job[j].item].kind = "command"
         /\ it[job[j].item].queue \in Queue
         /\ order[it[job[j].item].queue] # <<>>
         /\ job[j].item = Head(order[it[job[j].item].queue])
<1> DEFINE i == job[j].item
<1>1. i \in Item /\ it[i].waiting
  BY DEF QInv, Waiters, JobsWait, Typed, JobRecord
<1>2. MadeWell(it[i]) /\ it[i] \in ItemRecord
  BY <1>1 DEF QInv, Made, Typed
<1>3. it[i].fired /\ it[i].kind = "command" /\ it[i].queue \in Queue
  BY <1>1, <1>2 DEF MadeWell, ItemRecord
<1>4. i = Head(order[it[i].queue])
  BY <1>1, <1>3 DEF QInv, HeadFired
<1>5. order[it[i].queue] # <<>>
  BY <1>1, <1>3, ElementsEmpty DEF QInv, Listed
<1> QED
  BY <1>1, <1>3, <1>4, <1>5

LEMMA ContinuedFacts ==
  ASSUME NEW r \in ItemRecord, MadeWell(r), r.kind # "free"
  PROVE  /\ Continued(r) \in ItemRecord /\ MadeWell(Continued(r))
         /\ Continued(r).queue = r.queue /\ Continued(r).client = r.client
         /\ Continued(r).about = r.about /\ Continued(r).kind = r.kind
         /\ Continued(r).fired = r.fired /\ ~Continued(r).waiting
<1>1. Continued(r) = [r EXCEPT !.waiting = FALSE]
  BY DEF Continued
<1> QED
  BY <1>1 DEF ItemRecord, MadeWell, FreeItem

\* What JobEnds makes of the item of the job and of the new ones.
JobLine(i, l) ==
  NewItem("command", it[i].queue, it[i].client, l[2], it[i].hook, it[i].depth, None)

LEMMA JobEndsItems ==
  ASSUME QInv, NEW j \in Job, JobEnds(j)
  PROVE  \E l \in Lines(InsertSizes) : \E s \in Slots(l[1]) :
           /\ s \in Seq(Item) /\ Distinct(s) /\ Elements(s) \subseteq Unused
           /\ job[j].item \notin Elements(s)
           /\ LET new == JobLine(job[j].item, l) IN
                /\ new \in ItemRecord /\ MadeWell(new) /\ new.about = None
                /\ new.queue = it[job[j].item].queue /\ ~new.fired /\ new.kind = "command"
                /\ new.client = it[job[j].item].client
                /\ \A x \in Elements(s) : it'[x] = new
           /\ it' \in [Item -> ItemRecord]
           /\ it'[job[j].item] = Continued(it[job[j].item])
           /\ \A x \in Item : x # job[j].item /\ x \notin Elements(s) => it'[x] = it[x]
           /\ order' = [order EXCEPT ![it[job[j].item].queue] =
                          InsertAfter(order[it[job[j].item].queue], job[j].item, s)]
           /\ Reference(ByItems(it', Elements(s)), Dropped(j))
<1> DEFINE i == job[j].item
           q == it[i].queue
<1>1. job[j].item # None
  BY DEF JobEnds
<1>2. /\ i \in Item /\ it[i].waiting /\ it[i].kind = "command" /\ q \in Queue
      /\ it[i] \in ItemRecord /\ MadeWell(it[i])
  BY <1>1, JobItemFacts DEF QInv, Typed, Made
<1>3. PICK l \in Lines(InsertSizes) : \E s \in Slots(l[1]) :
        /\ order' = [order EXCEPT ![q] = InsertAfter(order[q], i, s)]
        /\ it' = [x \in Item |->
             CASE x \in Elements(s) -> JobLine(i, l)
               [] x = i -> Continued(it[i])
               [] OTHER -> it[x]]
        /\ Reference(ByItems(it', Elements(s)), Dropped(j))
  BY DEF JobEnds, JobLine
<1> HIDE DEF i, q
<1>4. PICK s \in Slots(l[1]) :
        /\ order' = [order EXCEPT ![q] = InsertAfter(order[q], i, s)]
        /\ it' = [x \in Item |->
             CASE x \in Elements(s) -> JobLine(i, l)
               [] x = i -> Continued(it[i])
               [] OTHER -> it[x]]
        /\ Reference(ByItems(it', Elements(s)), Dropped(j))
  BY <1>3
<1>5. l[1] \in Nat /\ l[2] \in Groups \cup {0}
  BY GroupAssumption DEF Lines, FreshGroups
<1>6. s \in Seq(Item) /\ Distinct(s) /\ Elements(s) \subseteq Unused
  BY <1>5, SlotsFacts
<1>7. i \notin Elements(s)
  BY <1>2, <1>6 DEF Unused
<1> DEFINE new == JobLine(i, l)
<1>8. /\ new \in ItemRecord /\ MadeWell(new) /\ new.about = None
      /\ new.queue = q /\ ~new.fired /\ new.kind = "command" /\ new.client = it[i].client
  <2>1. new = [kind |-> "command", queue |-> q, client |-> it[i].client, group |-> l[2],
               hook |-> it[i].hook, fired |-> FALSE, waiting |-> FALSE,
               depth |-> it[i].depth, about |-> None]
    BY DEF JobLine, NewItem, q
  <2> HIDE DEF new
  <2>2. new \in ItemRecord
    BY <1>2, <1>5, <2>1 DEF ItemRecord, Kinds
  <2>3. MadeWell(new)
    BY <1>2, <2>1, NamesAssumption DEF MadeWell, Queue, q
  <2> QED
    BY <2>1, <2>2, <2>3
<1> HIDE DEF new
<1>9. /\ \A x \in Elements(s) : it'[x] = new
      /\ it'[i] = Continued(it[i])
      /\ \A x \in Item : x # i /\ x \notin Elements(s) => it'[x] = it[x]
      /\ Continued(it[i]) \in ItemRecord
  BY <1>2, <1>4, <1>6, <1>7, ContinuedFacts DEF new, Unused
<1>10. it' \in [Item -> ItemRecord]
  <2>1. \A x \in Item : it'[x] \in ItemRecord
    BY <1>8, <1>9 DEF QInv, Typed
  <2> QED
    BY <1>4, <2>1
<1> QED
  BY <1>4, <1>6, <1>7, <1>8, <1>9, <1>10 DEF i, q, new

LEMMA JobEndsKeepsQInv ==
  ASSUME QInv, NEW j \in Job, JobEnds(j)
  PROVE  QInv'
<1> DEFINE i == job[j].item
           q == it[i].queue
<1>1. job[j].item # None /\ job[j].busy
  BY DEF JobEnds
<1>2. PICK s :
        /\ s \in Seq(Item) /\ Distinct(s) /\ Elements(s) \subseteq Unused
        /\ i \notin Elements(s)
        /\ \A x \in Elements(s) : MadeWell(it'[x]) /\ it'[x].queue = q /\ ~it'[x].fired
        /\ it' \in [Item -> ItemRecord]
        /\ it'[i] = Continued(it[i])
        /\ \A x \in Item : x # i /\ x \notin Elements(s) => it'[x] = it[x]
        /\ order' = [order EXCEPT ![q] = InsertAfter(order[q], i, s)]
        /\ Reference(ByItems(it', Elements(s)), Dropped(j))
  <2>1. PICK l \in Lines(InsertSizes) : \E s \in Slots(l[1]) :
           /\ s \in Seq(Item) /\ Distinct(s) /\ Elements(s) \subseteq Unused
           /\ i \notin Elements(s)
           /\ LET new == JobLine(i, l) IN
                /\ new \in ItemRecord /\ MadeWell(new) /\ new.about = None
                /\ new.queue = q /\ ~new.fired /\ new.kind = "command"
                /\ new.client = it[i].client
                /\ \A x \in Elements(s) : it'[x] = new
           /\ it' \in [Item -> ItemRecord]
           /\ it'[i] = Continued(it[i])
           /\ \A x \in Item : x # i /\ x \notin Elements(s) => it'[x] = it[x]
           /\ order' = [order EXCEPT ![q] = InsertAfter(order[q], i, s)]
           /\ Reference(ByItems(it', Elements(s)), Dropped(j))
    BY JobEndsItems
  <2> HIDE DEF i, q
  <2> QED
    BY <2>1
<1>3. /\ i \in Item /\ it[i].waiting /\ it[i].kind = "command" /\ q \in Queue
      /\ order[q] # <<>> /\ i = Head(order[q])
      /\ it[i] \in ItemRecord /\ MadeWell(it[i]) /\ it[i].fired
  BY <1>1, JobItemFacts DEF QInv, Typed, Made
<1>4. /\ it'[i].queue = q /\ MadeWell(it'[i]) /\ it'[i].fired /\ ~it'[i].waiting
  BY <1>2, <1>3, ContinuedFacts
<1> HIDE DEF i, q
<1>5. /\ order \in [Queue -> Seq(Item)]
      /\ \A r \in Queue : /\ Elements(order[r]) = {x \in Item : it[x].queue = r}
                          /\ Distinct(order[r]) /\ r # None
  BY NamesAssumption DEF QInv, Typed, Listed, Queue
<1>6. \A x \in Elements(s) : x \in Item /\ it[x] = FreeItem /\ it[x].queue = None /\ ~it[x].waiting
  <2>1. \A x \in Elements(s) : x \in Item /\ it[x] = FreeItem
    BY <1>2 DEF Unused, QInv, Made, MadeWell
  <2>2. FreeItem.queue = None /\ ~FreeItem.waiting
    BY DEF FreeItem
  <2> QED
    BY <2>1, <2>2
<1> DEFINE longer == InsertAfter(order[q], i, s)
<1>7. /\ longer \in Seq(Item) /\ longer # <<>> /\ Head(longer) = i
      /\ Elements(longer) = Elements(order[q]) \cup Elements(s)
      /\ Distinct(longer)
  <2>1. Elements(order[q]) \cap Elements(s) = {}
    BY <1>3, <1>5, <1>6
  <2>2. order[q] \in Seq(Item) /\ Distinct(order[q])
    BY <1>3, <1>5
  <2>3. s \in Seq(Item) /\ Distinct(s)
    BY <1>2
  <2>4. order[q] # <<>> /\ i = Head(order[q])
    BY <1>3
  <2>5. /\ longer \in Seq(Item) /\ longer # <<>> /\ Head(longer) = i
        /\ Elements(longer) = Elements(order[q]) \cup Elements(s)
        /\ Distinct(s) /\ Elements(order[q]) \cap Elements(s) = {} => Distinct(longer)
    <3> DEFINE old == order[q]
    <3>1. old \in Seq(Item) /\ Distinct(old) /\ old # <<>> /\ i = Head(old)
      BY <2>2, <2>4
    <3> HIDE DEF old
    <3>2. /\ InsertAfter(old, i, s) \in Seq(Item)
          /\ InsertAfter(old, i, s) # <<>> /\ Head(InsertAfter(old, i, s)) = i
          /\ Elements(InsertAfter(old, i, s)) = Elements(old) \cup Elements(s)
          /\ Distinct(s) /\ Elements(old) \cap Elements(s) = {}
               => Distinct(InsertAfter(old, i, s))
      BY <2>3, <3>1, InsertAtHead
    <3> QED
      BY <3>2 DEF old
  <2> QED
    BY <2>1, <2>3, <2>5
<1> HIDE DEF longer
<1>8. /\ order'[q] = longer /\ \A r \in Queue : r # q => order'[r] = order[r]
      /\ order' \in [Queue -> Seq(Item)]
  BY <1>2, <1>3, <1>5, <1>7 DEF longer
<1>9. /\ running' = running /\ conn' = conn
      /\ job' = [job EXCEPT ![j] = FreeJob]
      /\ at' = at /\ todo' = todo /\ busy' = busy
  BY DEF JobEnds, loopVars
<1>10. /\ job' \in [Job -> JobRecord] /\ job \in [Job -> JobRecord]
       /\ job'[j] = FreeJob /\ FreeJob.item = None
       /\ \A k \in Job : k # j => job'[k] = job[k]
  <2>1. FreeJob \in JobRecord /\ FreeJob.item = None
    BY DEF FreeJob, JobRecord
  <2> QED
    BY <1>9, <2>1 DEF QInv, Typed
<1>11. Typed'
  BY <1>2, <1>8, <1>9, <1>10 DEF QInv, Typed, Reference
<1>12. Made'
  <2>1. \A x \in Item : MadeWell(it'[x])
    BY <1>2, <1>4 DEF QInv, Made
  <2> QED
    BY <2>1 DEF Made, MadeWell
<1>13. Listed'
  <2>1. ASSUME NEW r \in Queue
        PROVE  Distinct(order'[r]) /\ Elements(order'[r]) = {x \in Item : it'[x].queue = r}
    <3>1. \A x \in Item : it'[x].queue = IF x \in Elements(s) THEN q ELSE it[x].queue
      BY <1>2, <1>4 DEF q
    <3>2. /\ Elements(order[r]) = {x \in Item : it[x].queue = r}
          /\ Distinct(order[r]) /\ r # None
      BY <1>5, <2>1
    <3>3. CASE r = q
      <4>1. {x \in Item : it'[x].queue = r} = {x \in Item : it[x].queue = r} \cup Elements(s)
        BY <1>6, <3>1, <3>2, <3>3
      <4> QED
        BY <1>7, <1>8, <3>2, <3>3, <4>1
    <3>4. CASE r # q
      <4>1. {x \in Item : it'[x].queue = r} = {x \in Item : it[x].queue = r}
        BY <1>6, <3>1, <3>2, <3>4
      <4> QED
        BY <1>8, <2>1, <3>2, <3>4, <4>1
    <3> QED
      BY <3>3, <3>4
  <2> QED
    BY <2>1 DEF Listed, Distinct, Elements
<1>14. HeadFired'
  <2>1. ASSUME NEW x \in Item, it'[x].fired
        PROVE  x = Head(order'[it'[x].queue])
    <3>1. CASE x = i
      BY <1>3, <1>4, <1>7, <1>8, <3>1
    <3>2. CASE x # i
      <4>1. it'[x] = it[x] /\ it[x].fired
        BY <1>2, <2>1, <3>2
      <4>2. x = Head(order[it[x].queue]) /\ it[x].kind # "free"
        BY <2>1, <4>1 DEF QInv, HeadFired, Made, MadeWell, FreeItem
      <4>3. it[x].queue \in Queue
        BY <2>1, <4>2 DEF QInv, Typed, Made, MadeWell, ItemRecord
      <4>4. it[x].queue # q
        BY <1>3, <3>2, <4>2
      <4> QED
        BY <1>8, <4>1, <4>2, <4>3, <4>4
    <3> QED
      BY <3>1, <3>2
  <2> QED
    BY <2>1 DEF HeadFired
<1>15. RunningIsHead'
  BY <1>3, <1>7, <1>8, <1>9 DEF QInv, RunningIsHead
<1>16. \A x \in Item : x # i => (it'[x].waiting <=> it[x].waiting)
  <2>1. \A x \in Elements(s) : ~it'[x].waiting
    BY <1>2 DEF MadeWell
  <2> QED
    BY <1>2, <1>6, <2>1
<1>17. JobsWait'
  <2>1. \A k \in Job : k # j /\ job[k].item # None => job[k].item # i /\ job[k].item \in Item
    BY <1>1, <1>10 DEF QInv, Waiters, JobsDiffer, JobRecord, i
  <2>2. \A k \in Job : /\ ~job'[k].busy => job'[k] = FreeJob
                       /\ job'[k].item # None => it'[job'[k].item].waiting
    BY <1>10, <1>16, <2>1 DEF QInv, Waiters, JobsWait
  <2> QED
    BY <2>2 DEF JobsWait, FreeJob
<1>18. JobsDiffer'
  BY <1>10 DEF QInv, Waiters, JobsDiffer
<1>19. WaitersHaveJobs'
  <2>1. ASSUME NEW x \in Item, it'[x].waiting
        PROVE  \E k \in Job : job'[k].item = x
    <3>1. x # i /\ it[x].waiting
      BY <1>4, <1>16, <2>1
    <3>2. PICK k \in Job : job[k].item = x
      BY <2>1, <3>1 DEF QInv, Waiters, WaitersHaveJobs
    <3>3. k # j
      BY <3>1, <3>2 DEF i
    <3> QED
      BY <1>10, <3>2, <3>3
  <2> QED
    BY <2>1 DEF WaitersHaveJobs
<1> QED
  BY <1>11, <1>12, <1>13, <1>14, <1>15, <1>17, <1>18, <1>19 DEF QInv, Waiters


-----------------------------------------------------------------------------
(***************************************************************************)
(* The queues, whatever the commands do.                                   *)
(***************************************************************************)
LEMMA QInvInit ==
  ASSUME Init
  PROVE  QInv
<1>1. Typed
  BY FreeItemFacts, EmptySeq DEF Init, Typed, FreeJob, JobRecord
<1>2. Made
  BY FreeItemFacts DEF Init, Made
<1>3. Listed
  <2>1. \A q \in Queue : q # None
    BY NamesAssumption DEF Queue
  <2> QED
    BY <2>1, ElementsEmpty DEF Init, Listed, FreeItem
<1>4. HeadFired /\ RunningIsHead
  BY DEF Init, HeadFired, RunningIsHead, FreeItem
<1>5. Waiters
  BY DEF Init, Waiters, JobsWait, JobsDiffer, WaitersHaveJobs, FreeItem, FreeJob
<1> QED
  BY <1>1, <1>2, <1>3, <1>4, <1>5 DEF QInv

LEMMA QInvNext ==
  ASSUME QInv, [Next]_vars
  PROVE  QInv'
<1>1. CASE FireCommand \/ FireCallback \/ FireNotice
  <2>1. /\ at # "events" /\ order[at] # <<>> /\ ~it[Current].fired
        /\ \E s, rec, n, a, removed, waits, jr :
             FireStep(s, rec, n, a, removed, waits, jr)
    BY <1>1, FireIsStep
  <2> QED
    BY <2>1, FireKeepsQInv
<1>2. CASE Retire
  BY <1>2, RetireKeepsQInv
<1>3. CASE LoopStart \/ NextClient \/ NextPass \/ LeaveLoop \/ UNCHANGED vars
  BY <1>3, LoopKeepsQInv
<1>4. CASE Raise
  BY <1>4, RaiseKeepsQInv
<1>5. ASSUME NEW c \in Client, Connect(c) \/ Request(c) \/ Lose(c) \/ Free(c)
      PROVE  QInv'
  BY <1>5, ClientKeepsQInv, RequestKeepsQInv, LoseKeepsQInv
<1>6. ASSUME NEW j \in Job, JobEnds(j) \/ BackgroundEnds(j)
      PROVE  QInv'
  BY <1>6, JobEndsKeepsQInv, BackgroundEndsKeepsQInv
<1> QED
  BY <1>1, <1>2, <1>3, <1>4, <1>5, <1>6 DEF Next

\* The queues, the items on them, the jobs they wait for and queue->item are
\* consistent in every reachable state (cmdq_append, cmdq_insert_after,
\* cmdq_next, cmdq_continue): what the theorems about order and hooks rest on.
THEOREM QueuesConsistent == Spec => []QInv
<1>1. Init => QInv
  BY QInvInit
<1>2. QInv /\ [Next]_vars => QInv'
  BY QInvNext
<1> QED
  BY <1>1, <1>2, PTL DEF Spec

\* However commands, notifications and jobs insert new commands, hooks never
\* feed on themselves: no item is more than two hooks deep (cmdq_insert_hook
\* and notify_add look at CMDQ_STATE_NOHOOKS).
THEOREM HooksDoEnd == Spec => []HooksEnd
<1>1. QInv => HooksEnd
  BY DEF QInv, Made, MadeWell, HooksEnd
<1> QED
  BY <1>1, QueuesConsistent, PTL

LEMMA QInvOrder ==
  ASSUME QInv
  PROVE  FiringInOrder
<1>1. OnlyHeadFired
  <2>1. ASSUME NEW q \in Queue, NEW k \in 2..Len(order[q])
        PROVE  ~it[order[q][k]].fired /\ ~it[order[q][k]].waiting
    <3> DEFINE i == order[q][k]
    <3>1. order[q] \in Seq(Item) /\ Distinct(order[q])
      BY <2>1 DEF QInv, Typed, Listed
    <3>2. Len(order[q]) \in Nat /\ order[q] \in [1..Len(order[q]) -> Item]
      BY <3>1, LenProperties
    <3>3. i \in Item /\ i \in Elements(order[q]) /\ it[i].queue = q
      BY <2>1, <3>2 DEF QInv, Listed, Elements
    <3>4. i # order[q][1]
      BY <2>1, <3>1, <3>2 DEF Distinct
    <3>5. Head(order[q]) = order[q][1]
      BY <3>1, HeadTailProperties, <2>1, <3>2
    <3>6. ~it[i].fired
      BY <3>3, <3>4, <3>5 DEF QInv, HeadFired
    <3>7. ~it[i].waiting
      BY <3>3, <3>6 DEF QInv, Made, MadeWell
    <3> QED
      BY <3>6, <3>7
  <2> QED
    BY <2>1 DEF OnlyHeadFired
<1>2. JobsMatchWaiters
  <2>1. ASSUME NEW j \in Job, job[j].item # None
        PROVE  /\ it[job[j].item].waiting
               /\ it[job[j].item] # FreeItem
               /\ job[j].item = Head(order[it[job[j].item].queue])
    BY <2>1, JobItemFacts DEF FreeItem
  <2>2. ASSUME NEW i \in Item, it[i].waiting
        PROVE  Cardinality({j \in Job : job[j].item = i}) = 1
    <3>1. PICK k \in Job : job[k].item = i
      BY <2>2 DEF QInv, Waiters, WaitersHaveJobs
    <3>2. i # None
      BY <2>2, NamesAssumption
    <3>3. {j \in Job : job[j].item = i} = {k}
      BY <3>1, <3>2 DEF QInv, Waiters, JobsDiffer
    <3> QED
      BY <3>3, FS_Singleton
  <2> QED
    BY <2>1, <2>2 DEF JobsMatchWaiters
<1> QED
  BY <1>1, <1>2 DEF QInv, FiringInOrder

\* Items fire in the order they have on their queue, and the pointers that
\* outlive the firing of an item (queue->item, cdata->item of a job) always
\* point at the head of a queue, which waits (cmdq_next, cmdq_continue,
\* cmd_run_shell_callback): none is ever used after the item is freed.
THEOREM FireInOrder == Spec => []FiringInOrder
<1>1. QInv => FiringInOrder
  BY QInvOrder
<1> QED
  BY <1>1, QueuesConsistent, PTL

-----------------------------------------------------------------------------
(***************************************************************************)
(* How far a pass that has fired nothing has come: the clients visited     *)
(* have nothing that could run, and if the global queue has something to   *)
(* run again, a client visited after it raised it and then waited.         *)
(***************************************************************************)
Visited == Live \ todo

GlobalExcused ==
  Runnable(Global) =>
    /\ it[Head(order[Global])].kind = "notice"
    /\ \E c \in Visited : HeadWaits(c)

Pass ==
  at # "events" =>
    /\ todo \subseteq Live
    /\ at \in {Global} \cup Visited
    /\ ~busy =>
         /\ \A c \in Visited : c # at => ~Runnable(c)
         /\ at # Global => GlobalExcused

LEMMA PassInit ==
  ASSUME Init
  PROVE  Pass
BY DEF Init, Pass

\* Only a command that waits fires without being counted.
LEMMA FireKeepsPass ==
  ASSUME QInv, Pass, at # "events", order[at] # <<>>, ~it[Current].fired,
         NEW s, NEW rec, NEW n, NEW a, NEW removed, NEW waits, NEW jr,
         FireStep(s, rec, n, a, removed, waits, jr)
  PROVE  Pass'
<1>1. FireShape(s, rec, n, a, removed, waits) /\ FireItems(s, rec, n, a, removed, waits)
  BY DEF FireStep, Fire
<1>2. at' = at /\ todo' = todo /\ conn' = conn /\ Live' = Live /\ busy' = (busy \/ ~waits)
  BY <1>1 DEF FireItems, Live
<1>3. Visited' = Visited
  BY <1>2 DEF Visited
<1>4. CASE busy \/ ~waits
  BY <1>2, <1>3, <1>4 DEF Pass
<1>5. CASE ~busy /\ waits
  <2>1. /\ at \in Queue /\ Current \in Item /\ it[Current].queue = at
        /\ Visited \subseteq Client /\ Global \notin Client
    BY CurrentItem, NamesAssumption DEF Visited, Live
  <2>2. it[Current].kind = "command"
    BY <1>1, <1>5 DEF FireShape
  <2>3. /\ Gone(removed, waits) = {}
        /\ \A i \in Elements(s) \cup Elements(n) : i \in Item /\ it[i] = FreeItem
        /\ Elements(s) \cap Elements(n) = {}
    <3>1. /\ Elements(s) \subseteq Unused /\ Elements(n) \subseteq Unused
          /\ Elements(s) \cap Elements(n) = {}
      BY <1>1 DEF FireShape
    <3>2. \A i \in Unused : i \in Item /\ it[i] = FreeItem
      BY DEF Unused, QInv, Made, MadeWell
    <3>3. removed = {}
      BY <1>1, <1>5 DEF FireShape
    <3>4. Gone(removed, waits) = {}
      BY <1>5, <3>3 DEF Gone
    <3>5. \A i \in Elements(s) \cup Elements(n) : i \in Unused
      BY <3>1
    <3> QED
      BY <3>1, <3>2, <3>4, <3>5
  <2>4. \A q \in Queue : Elements(order[q]) = {i \in Item : it[i].queue = q}
    BY DEF QInv, Listed
  <2>5. /\ \A i \in Elements(n) : it'[i] = Notice(a, it[Current].depth) /\ it[i] = FreeItem
        /\ it'[Current].waiting
        /\ \A i \in Item : i \notin Elements(s) \cup Elements(n) /\ i # Current => it'[i] = it[i]
        /\ Elements(n) \subseteq Item
    <3>1. Elements(n) \subseteq Item /\ \A i \in Elements(n) : it[i] = FreeItem
      BY <2>3
    <3>2. it[Current] \in ItemRecord /\ MadeWell(it[Current])
      BY <2>1 DEF QInv, Typed, Made
    <3>3. \A i \in Item :
            /\ i \in Gone(removed, waits) => it'[i] = FreeItem
            /\ i \in Elements(s) => it'[i] = rec
            /\ i \in Elements(n) => it'[i] = Notice(a, it[Current].depth)
            /\ i = Current /\ waits =>
                 it'[i] = Stopped(it[i])
            /\ i \notin Gone(removed, waits) \cup Elements(s) \cup Elements(n)
               /\ ~(i = Current /\ waits) => it'[i] = it[i]
      BY <1>1, FireContents
    <3>4. it'[Current] = Stopped(it[Current])
      BY <1>5, <2>1, <3>3
    <3>5. /\ \A i \in Elements(n) : it'[i] = Notice(a, it[Current].depth)
          /\ \A i \in Item :
               i \notin Elements(s) \cup Elements(n) /\ i # Current => it'[i] = it[i]
      BY <2>3, <3>1, <3>3
    <3> QED
      BY <2>2, <3>1, <3>2, <3>4, <3>5, StoppedFacts
  <2>6. /\ \A q \in Queue : q # at /\ order[q] # <<>> =>
             order'[q] # <<>> /\ Head(order'[q]) = Head(order[q])
        /\ order'[at] # <<>> /\ Head(order'[at]) = Current
        /\ \A q \in Queue : q # at => Elements(order'[q]) =
             Elements(order[q]) \cup (IF q = Global THEN Elements(n) ELSE {})
        /\ order' \in [Queue -> Seq(Item)]
    <3>1. /\ order' \in [Queue -> Seq(Item)]
          /\ \A q \in Queue :
               /\ Elements(order'[q]) =
                    (IF q = at
                       THEN (Elements(order[q]) \cup Elements(s)) \ Gone(removed, waits)
                       ELSE Elements(order[q]))
                    \cup (IF q = Global THEN Elements(n) ELSE {})
               /\ q # at /\ order[q] # <<>> =>
                    order'[q] # <<>> /\ Head(order'[q]) = Head(order[q])
               /\ q = at /\ waits => order'[q] # <<>> /\ Head(order'[q]) = Current
      BY <1>1, FireOrder
    <3>2. \A q \in Queue : q # at => Elements(order'[q]) =
             Elements(order[q]) \cup (IF q = Global THEN Elements(n) ELSE {})
      BY <3>1
    <3> QED
      BY <1>5, <2>1, <3>1, <3>2
  <2>7. ASSUME NEW q \in Queue, q # at, order[q] # <<>>
        PROVE  order'[q] # <<>> /\ it'[Head(order'[q])] = it[Head(order[q])]
    <3>1. Head(order[q]) \in Elements(order[q])
      BY <2>7, ElementsTail DEF QInv, Typed
    <3>2. Head(order[q]) \in Item /\ it[Head(order[q])].queue = q
      BY <2>4, <2>7, <3>1
    <3>3. Head(order[q]) # Current
      BY <2>1, <2>7, <3>2
    <3>4. Head(order[q]) \notin Elements(s) \cup Elements(n)
      BY <2>3, <2>7, <3>2, NamesAssumption DEF FreeItem, Queue
    <3> QED
      BY <2>5, <2>6, <2>7, <3>2, <3>3, <3>4
  <2>8. ASSUME NEW c \in Visited, c # at
        PROVE  ~Runnable(c)'
    <3>1. c \in Queue /\ c # Global /\ order[c] \in Seq(Item) /\ ~Runnable(c)
      BY <1>5, <2>1, <2>8 DEF Pass, Queue, QInv, Typed
    <3>2. CASE order[c] = <<>>
      <4>1. Elements(order'[c]) = {} /\ order'[c] \in Seq(Item)
        BY <2>6, <2>8, <3>1, <3>2, ElementsEmpty
      <4>2. order'[c] = <<>>
        BY <4>1, ElementsOf
      <4> QED
        BY <4>2 DEF Runnable
    <3>3. CASE order[c] # <<>>
      BY <2>7, <2>8, <3>1, <3>3 DEF Runnable
    <3> QED
      BY <3>2, <3>3
  <2>9. ASSUME at # Global
        PROVE  GlobalExcused'
    <3>1. SUFFICES ASSUME Runnable(Global)'
                   PROVE  it'[Head(order'[Global])].kind = "notice"
      <4>1. PICK c \in Visited : c = at
        BY <1>5, <2>9 DEF Pass
      <4>2. HeadWaits(c)'
        BY <2>5, <2>6, <4>1 DEF HeadWaits
      <4> QED
        BY <1>3, <4>2 DEF GlobalExcused
    <3>2. Global \in Queue /\ order[Global] \in Seq(Item)
      BY DEF Queue, QInv, Typed
    <3>3. CASE order[Global] = <<>>
      <4>1. Elements(order'[Global]) = Elements(n) /\ order'[Global] # <<>>
            /\ order'[Global] \in Seq(Item)
        BY <2>6, <2>9, <3>1, <3>2, <3>3, ElementsEmpty DEF Runnable
      <4>2. Head(order'[Global]) \in Elements(n)
        BY <4>1, ElementsTail
      <4> QED
        BY <2>5, <4>2 DEF Notice, NewItem
    <3>4. CASE order[Global] # <<>>
      <4>1. it'[Head(order'[Global])] = it[Head(order[Global])]
        BY <2>7, <2>9, <3>2, <3>4
      <4>2. Runnable(Global)
        BY <3>1, <3>4, <4>1 DEF Runnable
      <4> QED
        BY <1>5, <2>9, <4>1, <4>2 DEF Pass, GlobalExcused
    <3> QED
      BY <3>3, <3>4
  <2> QED
    BY <1>2, <1>3, <2>8, <2>9 DEF Pass
<1> QED
  BY <1>4, <1>5

LEMMA RetireKeepsPass ==
  ASSUME QInv, Pass, Retire
  PROVE  Pass'
<1>1. at # "events" /\ order[at] # <<>> /\ it[Current].fired /\ ~it[Current].waiting
  BY DEF Retire
<1>2. at \in Queue /\ Current \in Item /\ it[Current].queue = at
      /\ Current = Head(order[at])
  BY <1>1, CurrentItem DEF Current
<1>3. /\ it' = [it EXCEPT ![Current] = FreeItem]
      /\ order' = [order EXCEPT ![at] = Tail(order[at])]
      /\ at' = at /\ todo' = todo /\ conn' = conn /\ busy' = busy
      /\ Live' = Live /\ Visited' = Visited
  BY DEF Retire, loopVars, Live, Visited
<1>4. it \in [Item -> ItemRecord] /\ order \in [Queue -> Seq(Item)]
  BY DEF QInv, Typed
<1>5. ASSUME NEW q \in Queue, q # at
      PROVE  Runnable(q)' = Runnable(q) /\ HeadWaits(q)' = HeadWaits(q)
             /\ (order[q] # <<>> => it'[Head(order'[q])] = it[Head(order[q])])
             /\ order'[q] = order[q]
  <2>1. order'[q] = order[q]
    BY <1>3, <1>4, <1>5
  <2>2. ASSUME order[q] # <<>>
        PROVE  it'[Head(order[q])] = it[Head(order[q])]
    <3>1. Head(order[q]) \in Elements(order[q])
      BY <1>4, <1>5, <2>2, ElementsTail
    <3>2. Head(order[q]) \in Item /\ it[Head(order[q])].queue = q
      BY <1>5, <3>1 DEF QInv, Listed
    <3> QED
      BY <1>2, <1>3, <1>4, <1>5, <3>2
  <2> QED
    BY <2>1, <2>2 DEF Runnable, HeadWaits
<1>6. Visited \subseteq Client /\ Global \notin Client /\ Global \in Queue
  BY NamesAssumption DEF Visited, Live, Queue
<1>7. ASSUME ~busy, NEW c \in Visited, c # at
      PROVE  ~Runnable(c)'
  BY <1>1, <1>5, <1>6, <1>7 DEF Pass, Queue
<1>8. ASSUME ~busy, at # Global
      PROVE  GlobalExcused'
  <2>1. SUFFICES ASSUME Runnable(Global)'
                 PROVE  /\ it'[Head(order'[Global])].kind = "notice"
                        /\ \E c \in Visited : HeadWaits(c)'
    BY <1>3 DEF GlobalExcused
  <2>2. Runnable(Global) /\ order[Global] # <<>>
    BY <1>5, <1>6, <1>8, <2>1 DEF Runnable
  <2>3. /\ it[Head(order[Global])].kind = "notice"
        /\ \E c \in Visited : HeadWaits(c)
    BY <1>1, <1>8, <2>2 DEF Pass, GlobalExcused
  <2>4. PICK c \in Visited : HeadWaits(c)
    BY <2>3
  <2>5. c # at
    BY <1>1, <1>2, <2>4 DEF HeadWaits
  <2>6. HeadWaits(c)'
    BY <1>5, <1>6, <2>4, <2>5 DEF Queue
  <2> QED
    BY <1>5, <1>6, <1>8, <2>2, <2>3, <2>6
<1> QED
  BY <1>3, <1>7, <1>8 DEF Pass

LEMMA LoopKeepsPass ==
  ASSUME QInv, Pass, LoopStart \/ NextClient \/ NextPass \/ LeaveLoop
  PROVE  Pass'
<1>1. order' = order /\ it' = it /\ conn' = conn /\ Live' = Live
  BY DEF LoopStart, NextClient, NextPass, LeaveLoop, QueueDone, qVars, cVars, Live
<1>2. CASE LoopStart \/ NextPass
  <2>1. at' = Global /\ todo' = Live
    BY <1>2 DEF LoopStart, NextPass, StartPass
  <2>2. Visited' = {}
    BY <1>1, <2>1 DEF Visited
  <2> QED
    BY <1>1, <2>1, <2>2 DEF Pass
<1>3. CASE LeaveLoop
  BY <1>3 DEF LeaveLoop, Pass
<1>4. CASE NextClient
  <2>1. PICK c \in todo : at' = c /\ todo' = todo \ {c}
    BY <1>4 DEF NextClient
  <2>2. at # "events" /\ ~Runnable(at) /\ busy' = busy
    BY <1>4 DEF NextClient, QueueDone, Runnable, Current
  <2>3. todo \subseteq Live /\ at \in {Global} \cup Visited
    BY <2>2 DEF Pass
  <2>4. Visited' = Visited \cup {c}
    BY <1>1, <2>1, <2>3 DEF Visited
  <2>5. \A q : Runnable(q)' = Runnable(q) /\ HeadWaits(q)' = HeadWaits(q)
    BY <1>1 DEF Runnable, HeadWaits
  <2>6. ASSUME ~busy, NEW d \in Visited', d # at'
        PROVE  ~Runnable(d)'
    BY <2>1, <2>2, <2>4, <2>5, <2>6 DEF Pass
  <2>7. ASSUME ~busy
        PROVE  GlobalExcused'
    <3>1. SUFFICES ASSUME Runnable(Global)
                   PROVE  /\ it[Head(order[Global])].kind = "notice"
                          /\ \E d \in Visited' : HeadWaits(d)
      BY <1>1, <2>5 DEF GlobalExcused
    <3>2. at # Global
      BY <2>2, <3>1
    <3> QED
      BY <2>2, <2>4, <2>7, <3>1, <3>2 DEF Pass, GlobalExcused
  <2> QED
    BY <1>1, <2>1, <2>2, <2>3, <2>4, <2>6, <2>7 DEF Pass
<1> QED
  BY <1>2, <1>3, <1>4

LEMMA PassNext ==
  ASSUME QInv, Pass, [Next]_vars
  PROVE  Pass'
<1>1. CASE FireCommand \/ FireCallback \/ FireNotice
  <2>1. /\ at # "events" /\ order[at] # <<>> /\ ~it[Current].fired
        /\ \E s, rec, n, a, removed, waits, jr :
             FireStep(s, rec, n, a, removed, waits, jr)
    BY <1>1, FireIsStep
  <2> QED
    BY <2>1, FireKeepsPass
<1>2. CASE Retire
  BY <1>2, RetireKeepsPass
<1>3. CASE LoopStart \/ NextClient \/ NextPass \/ LeaveLoop
  BY <1>3, LoopKeepsPass
<1>4. CASE UNCHANGED vars
  BY <1>4 DEF vars, qVars, cVars, loopVars, Pass, GlobalExcused, Visited, Live, Runnable,
              HeadWaits
<1>5. CASE \/ Raise
           \/ \E c \in Client : Connect(c) \/ Request(c) \/ Lose(c) \/ Free(c)
           \/ \E j \in Job : JobEnds(j) \/ BackgroundEnds(j)
  <2>1. at = "events" /\ at' = at
    BY <1>5 DEF Raise, Connect, Request, Lose, Free, JobEnds, BackgroundEnds, loopVars
  <2> QED
    BY <2>1 DEF Pass
<1> QED
  BY <1>1, <1>2, <1>3, <1>4, <1>5 DEF Next

\* When server_loop hands over to the event loop, a last pass that fired
\* nothing has left every queue empty or at an item that waits, but for a
\* notification on the global queue that a command raised before it waited.
LEMMA LeavesNothing ==
  ASSUME QInv, Pass, [Next]_vars, at # "events", at' = "events"
  PROVE  /\ \A c \in Live : ~Runnable(c)
         /\ Runnable(Global) =>
              /\ it[Head(order[Global])].kind = "notice"
              /\ \E c \in Live : HeadWaits(c)
<1>1. LeaveLoop
  <2>1. \A c \in Client : c # "events"
    BY NamesAssumption
  <2>2. at' = at \/ at' \in Client \cup {Global} \/ LeaveLoop
    BY DEF Next, vars, loopVars, FireCommand, FireCallback, FireNotice, CommandSucceeds,
           CommandInserts, CommandFails, CommandWaits, CommandStarts, Fire, FireItems, Retire,
           LoopStart, NextClient, NextPass, StartPass, Raise, Connect, Request, Lose, Free,
           JobEnds, BackgroundEnds, QInv, Typed
  <2> QED
    BY <2>1, <2>2, NamesAssumption
<1>2. todo = {} /\ ~busy /\ ~Runnable(at)
  BY <1>1 DEF LeaveLoop, LastPass, QueueDone, Runnable, Current
<1>3. Visited = Live
  BY <1>2 DEF Visited
<1>4. \A c \in Live : ~Runnable(c)
  BY <1>2, <1>3 DEF Pass
<1>5. ASSUME Runnable(Global)
      PROVE  /\ it[Head(order[Global])].kind = "notice"
             /\ \E c \in Live : HeadWaits(c)
  BY <1>2, <1>3, <1>5 DEF Pass, GlobalExcused
<1> QED
  BY <1>4, <1>5

\* server_loop goes back to libevent only when no client has an item that
\* could run; on the global queue a notification may be left, and then some
\* client has an item that waits (server_loop does not count an item that
\* waits, cmdq_next returns 0 for it).
THEOREM NothingLeft == Spec => LoopLeavesNothing
<1>1. Init => QInv /\ Pass
  BY QInvInit, PassInit
<1>2. QInv /\ Pass /\ [Next]_vars => (QInv /\ Pass)'
  BY QInvNext, PassNext
<1>3. QInv /\ Pass /\ [Next]_vars =>
        [at # "events" /\ at' = "events" =>
           /\ \A c \in Live : ~Runnable(c)
           /\ Runnable(Global) =>
                /\ it[Head(order[Global])].kind = "notice"
                /\ \E c \in Live : HeadWaits(c)]_vars
  BY LeavesNothing
<1> QED
  BY <1>1, <1>2, <1>3, PTL DEF Spec, LoopLeavesNothing

-----------------------------------------------------------------------------
(***************************************************************************)
(* Counting.                                                               *)
(***************************************************************************)
\* The pairs of a client, and what a set of its holders comes to.
Concerning(pairs, c) == {x \in pairs : x[2] = c}
Tagged(H, c) == {<<h, c>> : h \in H}

LEMMA CountPairs ==
  ASSUME NEW pairs, NEW c, NEW H, IsFiniteSet(H),
         Concerning(pairs, c) = Tagged(H, c)
  PROVE  Count(pairs, c) = Cardinality(H)
<1> DEFINE P == {<<h, c>> : h \in H}
           f == [h \in H |-> <<h, c>>]
<1>1. f \in Bijection(H, P)
  <2>1. f \in [H -> P] /\ \A p \in P : \E h \in H : f[h] = p
    OBVIOUS
  <2>2. \A a, b \in H : f[a] = f[b] => a = b
    OBVIOUS
  <2> QED
    BY <2>1, <2>2 DEF Bijection, Injection, Surjection, IsInjective
<1>2. ExistsBijection(H, P)
  BY <1>1 DEF ExistsBijection
<1>3. Cardinality(P) = Cardinality(H)
  BY <1>2, FS_Bijection
<1> QED
  BY <1>3 DEF Count, Concerning, Tagged

LEMMA DisjointUnion ==
  ASSUME NEW A, IsFiniteSet(A), NEW B, IsFiniteSet(B), A \cap B = {}
  PROVE  /\ IsFiniteSet(A \cup B)
         /\ Cardinality(A) \in Nat /\ Cardinality(B) \in Nat
         /\ Cardinality(A \cup B) = Cardinality(A) + Cardinality(B)
<1>1. Cardinality(A) \in Nat /\ Cardinality(B) \in Nat
  BY FS_CardinalityType
<1>2. Cardinality(A \cap B) = 0
  BY FS_EmptySet
<1>3. /\ IsFiniteSet(A \cup B)
      /\ Cardinality(A \cup B) = Cardinality(A) + Cardinality(B) - Cardinality(A \cap B)
  BY FS_Union
<1> QED
  BY <1>1, <1>2, <1>3

LEMMA Exchange ==
  ASSUME NEW H, IsFiniteSet(H), NEW G, G \subseteq H, NEW C, IsFiniteSet(C), C \cap H = {}
  PROVE  /\ Cardinality(H) \in Nat /\ Cardinality(G) \in Nat /\ Cardinality(C) \in Nat
         /\ Cardinality(G) <= Cardinality(H)
         /\ Cardinality((H \ G) \cup C) = (Cardinality(H) + Cardinality(C)) - Cardinality(G)
<1> DEFINE R == H \ G
<1>1. IsFiniteSet(G) /\ IsFiniteSet(R)
  BY FS_Subset
<1>2. R \cap C = {} /\ R \cap G = {} /\ R \cup G = H
  OBVIOUS
<1> HIDE DEF R
<1>3. /\ Cardinality(R) \in Nat /\ Cardinality(C) \in Nat
      /\ Cardinality(R \cup C) = Cardinality(R) + Cardinality(C)
  BY <1>1, <1>2, DisjointUnion
<1>4. Cardinality(G) \in Nat /\ Cardinality(H) = Cardinality(R) + Cardinality(G)
  BY <1>1, <1>2, DisjointUnion
<1>5. Cardinality(R \cup C) = (Cardinality(H) + Cardinality(C)) - Cardinality(G)
  BY <1>3, <1>4
<1> QED
  BY <1>3, <1>4, <1>5 DEF R

-----------------------------------------------------------------------------
(***************************************************************************)
(* The items and the jobs that point at a client.                          *)
(***************************************************************************)
Holds(r, c) == c \in {r.client, r.about}

Holders(c) == {i \in Item : Holds(it[i], c)} \cup {j \in Job : job[j].client = c}

OnList(c) == IF conn[c] = "live" THEN 1 ELSE 0

LEMMA HoldersFinite ==
  ASSUME QInv, NEW c \in Client
  PROVE  /\ IsFiniteSet(Holders(c))
         /\ Cardinality(Holders(c)) \in Nat
         /\ Pointers(c) = OnList(c) + Cardinality(Holders(c))
<1> DEFINE A == {i \in Item : it[i].client = c}
           B == {i \in Item : it[i].about = c}
           J == {j \in Job : job[j].client = c}
<1>1. IsFiniteSet(A) /\ IsFiniteSet(B) /\ IsFiniteSet(J)
  BY PoolAssumption, FS_Subset
<1>2. A \cap B = {}
  <2>1. \A i \in Item : ~(it[i].client = c /\ it[i].about = c)
    BY NamesAssumption DEF QInv, Made, MadeWell
  <2> QED
    BY <2>1
<1>3. (A \cup B) \cap J = {}
  BY PoolAssumption
<1>4. Holders(c) = (A \cup B) \cup J
  BY DEF Holders, Holds
<1>5. IsFiniteSet(A \cup B) /\ Cardinality(A \cup B) = Cardinality(A) + Cardinality(B)
  BY <1>1, <1>2, DisjointUnion
<1>6. /\ IsFiniteSet(Holders(c))
      /\ Cardinality(Holders(c)) = (Cardinality(A) + Cardinality(B)) + Cardinality(J)
  <2> HIDE DEF A, B, J
  <2>1. /\ IsFiniteSet((A \cup B) \cup J)
        /\ Cardinality((A \cup B) \cup J) = Cardinality(A \cup B) + Cardinality(J)
    BY <1>1, <1>3, <1>5, DisjointUnion
  <2> QED
    BY <1>4, <1>5, <2>1
<1>7. Cardinality(A) \in Nat /\ Cardinality(B) \in Nat /\ Cardinality(J) \in Nat
  BY <1>1, FS_CardinalityType
<1>8. OnList(c) \in Nat
  BY DEF OnList
<1>9. Pointers(c) = ((OnList(c) + Cardinality(A)) + Cardinality(B)) + Cardinality(J)
  BY DEF Pointers, OnList
<1> QED
  BY <1>6, <1>7, <1>8, <1>9

(***************************************************************************)
(* The inductive invariant: the references are counted, and of a client    *)
(* that is about to be freed, and before it connects or after it is freed, *)
(* there are none.                                                         *)
(***************************************************************************)
Counted ==
  /\ refs \in [Client -> Nat]
  /\ \A c \in Client : refs[c] = OnList(c) + Cardinality(Holders(c))

Unheld ==
  /\ \A c \in Client : c \in freeing \/ conn[c] \in {"new", "freed"} => refs[c] = 0
  /\ \A c \in freeing : conn[c] = "lost"

Held == Counted /\ Unheld

LEMMA NoHolders ==
  ASSUME QInv, Counted, NEW c \in Client
  PROVE  refs[c] = 0 <=> Holders(c) = {} /\ conn[c] # "live"
<1>1. Cardinality(Holders(c)) \in Nat /\ (Cardinality(Holders(c)) = 0 <=> Holders(c) = {})
  BY HoldersFinite, FS_EmptySet
<1> QED
  BY <1>1 DEF Counted, OnList

\* A client nothing points at has an empty queue: what is on it points at it.
LEMMA NoHoldersNoItems ==
  ASSUME QInv, Counted, NEW c \in Client, refs[c] = 0
  PROVE  order[c] = <<>>
<1>1. Holders(c) = {}
  BY NoHolders
<1>2. c \in Queue /\ order[c] \in Seq(Item) /\ Elements(order[c]) = {i \in Item : it[i].queue = c}
  BY DEF QInv, Typed, Listed, Queue
<1>3. \A i \in Item : it[i].queue = c => i \in Holders(c)
  BY DEF QInv, Made, MadeWell, Holders, Holds
<1> QED
  BY <1>1, <1>2, <1>3, ElementsOf

\* The invariant gives what Lifetimes says.
LEMMA HeldGivesLifetimes ==
  ASSUME QInv, Held
  PROVE  Lifetimes
<1>1. Lists
  <2>1. ASSUME NEW q \in Queue
        PROVE  /\ Elements(order[q]) = {i \in Item : it[i].queue = q}
               /\ Cardinality(Elements(order[q])) = Len(order[q])
    BY <2>1, DistinctLength DEF QInv, Typed, Listed
  <2>2. \A i \in Item : it[i].kind = "free" <=> it[i].queue = None
    BY DEF QInv, Made, MadeWell, FreeItem
  <2> QED
    BY <2>1, <2>2 DEF Lists
<1>2. TypeOK
  <2>1. ASSUME NEW i \in Item
        PROVE  /\ it[i].kind \in {"free", "command", "callback", "notice"}
               /\ it[i].queue \in Queue \cup {None}
               /\ it[i].client \in Client \cup {None}
               /\ it[i].about \in Client \cup {None}
               /\ it[i].group \in Groups \cup {0}
               /\ it[i].depth \in Nat
               /\ {it[i].hook, it[i].fired, it[i].waiting} \subseteq BOOLEAN
    BY <2>1 DEF QInv, Typed, ItemRecord, Kinds
  <2>2. /\ order \in [Queue -> Seq(Item)]
        /\ running \in [Queue -> Item \cup {None}]
        /\ job \in [Job -> [busy : BOOLEAN, item : Item \cup {None},
                            client : Client \cup {None}]]
        /\ conn \in [Client -> {"new", "live", "lost", "freed"}]
        /\ refs \in [Client -> Nat]
        /\ freeing \in SUBSET Client
        /\ at \in Queue \cup {"events"}
        /\ todo \in SUBSET Client
        /\ busy \in BOOLEAN
    BY DEF QInv, Typed, JobRecord, Held, Counted
  <2> QED
    BY <1>1, <2>1, <2>2 DEF TypeOK
<1>3. ReferencesExact
  BY HoldersFinite DEF ReferencesExact, Held, Counted
<1>4. FreedForGood
  BY NoHoldersNoItems DEF FreedForGood, Held, Unheld, QInv, Typed
<1> QED
  BY <1>2, <1>3, <1>4 DEF Lifetimes

-----------------------------------------------------------------------------
(***************************************************************************)
(* A step that counts what comes to point at a client and what goes.       *)
(***************************************************************************)
Traded(c, come, go) ==
  /\ come \subseteq Item \cup Job /\ come \cap Holders(c) = {}
  /\ go \subseteq Holders(c)
  /\ Holders(c)' = (Holders(c) \ go) \cup come
  /\ come # {} => refs[c] # 0

Accounted(c, gained, dropped) ==
  \E come, go :
    /\ Traded(c, come, go)
    /\ Count(gained, c) = Cardinality(come)
    /\ Count(dropped, c) = (Cardinality(go) + OnList(c)) - OnList(c)'

Stays(c) == conn'[c] = conn[c] \/ (conn[c] = "live" /\ conn'[c] = "lost")

LEMMA ReferenceKeepsHeld ==
  ASSUME QInv, QInv', Held, NEW gained, NEW dropped, Reference(gained, dropped),
         \A c \in Client : Accounted(c, gained, dropped) /\ Stays(c)
  PROVE  Held'
<1>1. /\ refs' = [c \in Client |-> (refs[c] + Count(gained, c)) - Count(dropped, c)]
      /\ freeing' = freeing \cup {c \in Client : refs[c] # 0 /\ refs'[c] = 0}
  BY DEF Reference
<1>2. ASSUME NEW c \in Client
      PROVE  /\ refs'[c] \in Nat
             /\ refs'[c] = OnList(c)' + Cardinality(Holders(c)')
             /\ refs[c] = 0 => refs'[c] = OnList(c)'
             /\ refs'[c] = 0 => conn'[c] # "live"
             /\ OnList(c)' \in {0, 1} /\ (OnList(c)' = 0 <=> conn'[c] # "live")
  <2>1. PICK come, go :
          /\ Traded(c, come, go)
          /\ Count(gained, c) = Cardinality(come)
          /\ Count(dropped, c) = (Cardinality(go) + OnList(c)) - OnList(c)'
    BY <1>2 DEF Accounted
  <2>2. IsFiniteSet(Holders(c)) /\ IsFiniteSet(come)
    <3>1. IsFiniteSet(Item \cup Job)
      BY PoolAssumption, FS_Union
    <3> QED
      BY <1>2, <2>1, <3>1, HoldersFinite, FS_Subset DEF Traded
  <2>3. /\ Cardinality(Holders(c)) \in Nat /\ Cardinality(go) \in Nat
        /\ Cardinality(come) \in Nat /\ Cardinality(go) <= Cardinality(Holders(c))
        /\ Cardinality((Holders(c) \ go) \cup come) =
             (Cardinality(Holders(c)) + Cardinality(come)) - Cardinality(go)
    BY <2>1, <2>2, Exchange DEF Traded
  <2>4. refs[c] = OnList(c) + Cardinality(Holders(c)) /\ refs[c] \in Nat
    BY <1>2 DEF Held, Counted
  <2>5. OnList(c) \in {0, 1} /\ OnList(c)' \in {0, 1} /\ (OnList(c)' = 0 <=> conn'[c] # "live")
    BY DEF OnList
  <2>6. refs'[c] = (refs[c] + Cardinality(come)) - ((Cardinality(go) + OnList(c)) - OnList(c)')
    BY <1>1, <1>2, <2>1
  <2>7. Cardinality(Holders(c)') =
          (Cardinality(Holders(c)) + Cardinality(come)) - Cardinality(go)
    BY <2>1, <2>3 DEF Traded
  <2>8. refs'[c] = OnList(c)' + Cardinality(Holders(c)')
    BY <2>3, <2>4, <2>5, <2>6, <2>7
  <2>9. refs'[c] \in Nat
    BY <2>3, <2>4, <2>5, <2>6
  <2>10. ASSUME refs[c] = 0
         PROVE  refs'[c] = OnList(c)'
    <3>1. come = {}
      BY <2>1, <2>10 DEF Traded
    <3>2. Cardinality(come) = 0
      BY <3>1, FS_EmptySet
    <3> QED
      BY <2>3, <2>4, <2>5, <2>6, <2>10, <3>2
  <2>11. refs'[c] = 0 => conn'[c] # "live"
    BY <2>3, <2>4, <2>5, <2>6
  <2> QED
    BY <2>5, <2>8, <2>9, <2>10, <2>11
<1>3. Counted'
  <2>1. refs' \in [Client -> Nat]
    BY <1>1, <1>2
  <2>2. \A c \in Client : refs'[c] = OnList(c)' + Cardinality(Holders(c)')
    BY <1>2
  <2> QED
    BY <2>1, <2>2 DEF Counted
<1>4. freeing \subseteq Client /\ \A c \in Client : conn[c] \in {"new", "live", "lost", "freed"}
  BY DEF QInv, Typed
<1>5. ASSUME NEW c \in Client
      PROVE  /\ c \in freeing' \/ conn'[c] \in {"new", "freed"} => refs'[c] = 0
             /\ c \in freeing' => conn'[c] = "lost"
  <2>1. Stays(c)
    BY <1>5
  <2>2. CASE refs[c] = 0
    BY <1>1, <1>2, <1>4, <1>5, <2>1, <2>2 DEF Held, Unheld, Stays
  <2>3. CASE refs[c] # 0
    BY <1>1, <1>2, <1>4, <1>5, <2>1, <2>3 DEF Held, Unheld, Stays
  <2> QED
    BY <2>2, <2>3
<1>6. freeing' \subseteq Client
  BY <1>1, <1>4
<1>7. Unheld'
  BY <1>5, <1>6 DEF Unheld
<1> QED
  BY <1>3, <1>7 DEF Held

\* The items that come and go, and the jobs that start and end, in a step.
Changes(old, new, ended, begun) ==
  /\ old \subseteq Item /\ new \subseteq Unused /\ old \cap new = {}
  /\ ended \subseteq Job /\ begun \subseteq Idle /\ ended \cap begun = {}
  /\ \A i \in old : it'[i] = FreeItem
  /\ \A i \in Item \ (old \cup new) :
       it'[i].client = it[i].client /\ it'[i].about = it[i].about
  /\ \A j \in ended : job'[j] = FreeJob
  /\ \A j \in Job \ (ended \cup begun) : job'[j] = job[j]

Coming(new, begun, c) ==
  {i \in new : Holds(it'[i], c)} \cup {j \in begun : job'[j].client = c}

Going(old, ended, c) ==
  {i \in old : Holds(it[i], c)} \cup {j \in ended : job[j].client = c}

LEMMA HoldersTraded ==
  ASSUME QInv, NEW old, NEW new, NEW ended, NEW begun, NEW c \in Client,
         Changes(old, new, ended, begun),
         Coming(new, begun, c) # {} => refs[c] # 0
  PROVE  Traded(c, Coming(new, begun, c), Going(old, ended, c))
<1> DEFINE come == Coming(new, begun, c)
           go == Going(old, ended, c)
<1>0. /\ old \subseteq Item /\ new \subseteq Unused /\ old \cap new = {}
      /\ ended \subseteq Job /\ begun \subseteq Idle /\ ended \cap begun = {}
      /\ \A i \in old : it'[i] = FreeItem
      /\ \A i \in Item \ (old \cup new) :
           it'[i].client = it[i].client /\ it'[i].about = it[i].about
      /\ \A j \in ended : job'[j] = FreeJob
      /\ \A j \in Job \ (ended \cup begun) : job'[j] = job[j]
      /\ come = {i \in new : Holds(it'[i], c)} \cup {j \in begun : job'[j].client = c}
      /\ go = {i \in old : Holds(it[i], c)} \cup {j \in ended : job[j].client = c}
  BY DEF Changes, Coming, Going
<1> HIDE DEF come, go
<1>1. None # c
  BY NamesAssumption
<1>2. \A i \in Unused : i \in Item /\ ~Holds(it[i], c)
  BY <1>1 DEF Unused, QInv, Made, MadeWell, FreeItem, Holds
<1>3. ~Holds(FreeItem, c) /\ FreeJob.client # c
  BY <1>1 DEF FreeItem, FreeJob, Holds
<1>4. \A j \in Idle : j \in Job /\ job[j].client # c
  BY <1>3 DEF Idle, QInv, Waiters, JobsWait
<1>5. come \subseteq Item \cup Job /\ come \cap Holders(c) = {}
  BY <1>0, <1>2, <1>4, PoolAssumption DEF Holders, Unused, Idle
<1>6. go \subseteq Holders(c)
  BY <1>0 DEF Holders
<1>7. \A i \in Item : i \in Holders(c)' <=> i \in (Holders(c) \ go) \cup come
  <2>1. ASSUME NEW i \in Item
        PROVE  i \in Holders(c)' <=> i \in (Holders(c) \ go) \cup come
    <3>1. i \notin Job
      BY <2>1, PoolAssumption
    <3>2. /\ i \in Holders(c)' <=> Holds(it'[i], c)
          /\ i \in Holders(c) <=> Holds(it[i], c)
      BY <2>1, <3>1 DEF Holders, Holds
    <3>3. /\ i \in come <=> i \in new /\ Holds(it'[i], c)
          /\ i \in go <=> i \in old /\ Holds(it[i], c)
      BY <1>0, <3>1 DEF Idle
    <3>4. i \in old => ~Holds(it'[i], c)
      BY <1>0, <1>3
    <3>5. i \notin old \cup new => (Holds(it'[i], c) <=> Holds(it[i], c))
      BY <1>0, <2>1 DEF Holds
    <3> QED
      BY <1>0, <1>2, <3>2, <3>3, <3>4, <3>5
  <2> QED
    BY <2>1
<1>8. \A j \in Job : j \in Holders(c)' <=> j \in (Holders(c) \ go) \cup come
  <2>1. ASSUME NEW j \in Job
        PROVE  j \in Holders(c)' <=> j \in (Holders(c) \ go) \cup come
    <3>1. j \notin Item
      BY <2>1, PoolAssumption
    <3>2. /\ j \in Holders(c)' <=> job'[j].client = c
          /\ j \in Holders(c) <=> job[j].client = c
      BY <2>1, <3>1 DEF Holders
    <3>3. /\ j \in come <=> j \in begun /\ job'[j].client = c
          /\ j \in go <=> j \in ended /\ job[j].client = c
      BY <1>0, <3>1 DEF Unused
    <3> QED
      BY <1>0, <1>3, <1>4, <2>1, <3>2, <3>3
  <2> QED
    BY <2>1
<1>9. Holders(c)' \subseteq Item \cup Job /\ Holders(c) \subseteq Item \cup Job
  BY DEF Holders
<1>10. Holders(c)' = (Holders(c) \ go) \cup come
  BY <1>5, <1>7, <1>8, <1>9
<1> QED
  BY <1>5, <1>6, <1>10 DEF Traded, come, go

\* The pairs that are counted are those of the holders that come and go, and
\* one for a client that leaves the list.
Tallies(come, go, gained, dropped, c) ==
  /\ Stays(c)
  /\ come # {} => refs[c] # 0
  /\ Concerning(gained, c) = Tagged(come, c)
  /\ \/ /\ conn'[c] = conn[c]
        /\ Concerning(dropped, c) = Tagged(go, c)
     \/ /\ conn'[c] # conn[c] /\ go = {}
        /\ Concerning(dropped, c) = {<<None, c>>}

\* With the pairs counted for what comes and goes, the invariant is kept.
LEMMA StepKeepsHeld ==
  ASSUME QInv, QInv', Held, NEW old, NEW new, NEW ended, NEW begun,
         NEW gained, NEW dropped,
         Changes(old, new, ended, begun), Reference(gained, dropped),
         \A c \in Client : Tallies(Coming(new, begun, c), Going(old, ended, c), gained, dropped, c)
  PROVE  Held'
<1>0. \A c \in Client : Stays(c)
  BY DEF Tallies
<1>1. ASSUME NEW c \in Client
      PROVE  Accounted(c, gained, dropped)
  <2> DEFINE come == Coming(new, begun, c)
             go == Going(old, ended, c)
  <2>0. Tallies(come, go, gained, dropped, c)
    BY <1>1
  <2>1. Traded(c, come, go)
    BY <1>1, <2>0, HoldersTraded DEF Tallies
  <2> HIDE DEF come, go
  <2>2. IsFiniteSet(come) /\ IsFiniteSet(go)
    <3>1. IsFiniteSet(Item \cup Job)
      BY PoolAssumption, FS_Union
    <3> QED
      BY <1>1, <2>1, <3>1, HoldersFinite, FS_Subset DEF Traded
  <2>3. Count(gained, c) = Cardinality(come)
    <3>1. Concerning(gained, c) = Tagged(come, c)
      BY <2>0 DEF Tallies
    <3> QED
      BY <2>2, <3>1, CountPairs
  <2>4. Cardinality(go) \in Nat /\ OnList(c) \in Nat
    BY <2>2, FS_CardinalityType DEF OnList
  <2>5. CASE conn'[c] = conn[c] /\ Concerning(dropped, c) = Tagged(go, c)
    <3>1. Count(dropped, c) = Cardinality(go)
      BY <2>2, <2>5, CountPairs
    <3>2. OnList(c)' = OnList(c)
      BY <2>5 DEF OnList
    <3> QED
      BY <2>1, <2>3, <2>4, <3>1, <3>2 DEF Accounted
  <2>6. CASE conn'[c] # conn[c] /\ go = {} /\ Concerning(dropped, c) = {<<None, c>>}
    <3>1. OnList(c) = 1 /\ OnList(c)' = 0
      BY <2>0, <2>6 DEF OnList, Stays, Tallies
    <3>2. Cardinality(go) = 0 /\ Count(dropped, c) = 1
      BY <2>6, FS_EmptySet, FS_Singleton DEF Count, Concerning
    <3> QED
      BY <2>1, <2>3, <3>1, <3>2 DEF Accounted
  <2> QED
    BY <2>0, <2>5, <2>6 DEF Tallies
<1> QED
  BY <1>0, <1>1, ReferenceKeepsHeld

-----------------------------------------------------------------------------
(***************************************************************************)
(* Each step counts what it does.                                          *)
(***************************************************************************)
LEMMA NothingPaired ==
  ASSUME NEW c
  PROVE  /\ Concerning({}, c) = {} /\ Tagged({}, c) = {}
         /\ Going({}, {}, c) = {} /\ Coming({}, {}, c) = {}
BY DEF Concerning, Tagged, Going, Coming

LEMMA PairsOfItems ==
  ASSUME NEW f, NEW S, NEW c
  PROVE  Concerning(ByItems(f, S) \cup ByNotices(f, S), c) =
           Tagged({i \in S : Holds(f[i], c)}, c)
<1> DEFINE pairs == ByItems(f, S) \cup ByNotices(f, S)
           H == {i \in S : Holds(f[i], c)}
<1>1. ASSUME NEW x \in pairs, x[2] = c
      PROVE  \E h \in H : x = <<h, c>>
  <2>1. PICK i \in S : x = <<i, f[i].client>> \/ x = <<i, f[i].about>>
    BY <1>1 DEF ByItems, ByNotices
  <2>2. x = <<i, c>> /\ Holds(f[i], c)
    BY <1>1, <2>1 DEF Holds
  <2> QED
    BY <2>2
<1>2. ASSUME NEW h \in H
      PROVE  <<h, c>> \in pairs
  BY <1>2 DEF ByItems, ByNotices, Holds
<1> HIDE DEF pairs, H
<1>3. {x \in pairs : x[2] = c} = {<<h, c>> : h \in H}
  BY <1>1, <1>2
<1> QED
  BY <1>3 DEF Concerning, Tagged, pairs, H

LEMMA KnownIsHeld ==
  ASSUME QInv, Counted, at # "events", order[at] # <<>>, NEW c \in Client, c \in Known
  PROVE  refs[c] # 0
<1>1. Current \in Item
  BY CurrentItem
<1>2. it[Current].client = c => Current \in Holders(c)
  BY <1>1 DEF Holders, Holds
<1>3. c \in Live \/ it[Current].client = c
  BY NamesAssumption DEF Known
<1> QED
  BY <1>2, <1>3, NoHolders DEF Live

\* The client was there before the item that is fired, and is still there.
LEMMA FireKeepsHeld ==
  ASSUME QInv, QInv', Held, at # "events", order[at] # <<>>, ~it[Current].fired,
         NEW s, NEW rec, NEW n, NEW a, NEW removed, NEW waits, NEW jr,
         FireStep(s, rec, n, a, removed, waits, jr)
  PROVE  Held'
<1> DEFINE old == Gone(removed, waits)
           new == Elements(s) \cup Elements(n)
           gained == ByItems(it', Elements(s)) \cup ByNotices(it', Elements(n)) \cup jr
           dropped == ByItems(it, old) \cup ByNotices(it, old)
<1>1. FireShape(s, rec, n, a, removed, waits) /\ FireItems(s, rec, n, a, removed, waits)
      /\ Reference(gained, dropped)
  BY DEF FireStep, Fire
<1>2. /\ old \subseteq Elements(order[at])
      /\ \A i \in Item :
           /\ i \in old => it'[i] = FreeItem
           /\ i \in Elements(s) => it'[i] = rec
           /\ i \in Elements(n) => it'[i] = Notice(a, it[Current].depth)
           /\ i = Current /\ waits => it'[i] = Stopped(it[i])
           /\ i \notin old \cup Elements(s) \cup Elements(n)
              /\ ~(i = Current /\ waits) => it'[i] = it[i]
  BY <1>1, FireContents
<1>3. PICK begun \in SUBSET Idle :
        /\ jr = {<<j, job'[j].client>> : j \in begun}
        /\ \A j \in begun : job'[j].client \in Known
        /\ \A j \in Job \ begun : job'[j] = job[j]
  <2>1. CASE jr = {} /\ job' = job
    <3>1. jr = {<<j, job'[j].client>> : j \in {}}
      BY <2>1
    <3> QED
      BY <2>1, <3>1
  <2>2. CASE \E j \in Idle, t \in Known :
               /\ jr = {<<j, t>>}
               /\ job' = [job EXCEPT ![j] = NewJob(IF waits THEN Current ELSE None, t)]
    <3>1. PICK j \in Idle, t \in Known :
            /\ jr = {<<j, t>>}
            /\ job' = [job EXCEPT ![j] = NewJob(IF waits THEN Current ELSE None, t)]
      BY <2>2
    <3>2. job \in [Job -> JobRecord] /\ j \in Job
      BY DEF QInv, Typed, Idle
    <3>3. job'[j].client = t /\ \A k \in Job \ {j} : job'[k] = job[k]
      BY <3>1, <3>2 DEF NewJob
    <3>4. jr = {<<k, job'[k].client>> : k \in {j}}
      BY <3>1, <3>3
    <3> QED
      BY <3>1, <3>3, <3>4
  <2> QED
    BY <2>1, <2>2 DEF FireStep
<1>4. conn' = conn
  BY <1>1 DEF FireItems
<1> HIDE DEF old
<1>5. /\ Elements(s) \subseteq Unused /\ Elements(n) \subseteq Unused
      /\ Elements(s) # {} => rec.client \in Known /\ rec.about = None
      /\ Elements(n) # {} => a \in Known /\ it[Current].depth <= 1
      /\ waits => it[Current].kind = "command"
      /\ a \in Client \cup {None}
  BY <1>1, ElementsEmpty DEF FireStep, FireShape, Known, Live
<1>6. /\ Current \in Item /\ it[Current] \in ItemRecord /\ MadeWell(it[Current])
      /\ it[Current].depth \in Nat
      /\ old \subseteq Item /\ \A i \in old : i \notin Unused
  <2>1. /\ Current \in Item /\ it[Current] \in ItemRecord /\ MadeWell(it[Current])
        /\ it[Current].depth \in Nat
    BY CurrentItem DEF QInv, Typed, Made, ItemRecord
  <2>2. at \in Queue /\ at # None
    BY CurrentItem, NamesAssumption DEF Queue
  <2>3. \A i \in old : i \in Item /\ it[i].queue = at
    BY <1>2, <2>2 DEF QInv, Listed
  <2>4. \A i \in Unused : it[i].queue = None
    BY DEF QInv, Made, MadeWell, Unused, FreeItem
  <2> QED
    BY <2>1, <2>2, <2>3, <2>4
<1>7. /\ \A i \in Elements(s) : it'[i].client = rec.client /\ it'[i].about = None
      /\ \A i \in Elements(n) : it'[i].client = None /\ it'[i].about = a
  BY <1>2, <1>5, <1>6, NoticeFacts DEF Unused
<1>8. Changes(old, new, {}, begun)
  <2>1. \A i \in Item \ (old \cup new) :
          it'[i].client = it[i].client /\ it'[i].about = it[i].about
    BY <1>2, <1>5, <1>6, StoppedFacts
  <2> QED
    BY <1>2, <1>3, <1>5, <1>6, <2>1 DEF Changes
<1>9. ASSUME NEW c \in Client
      PROVE  Tallies(Coming(new, begun, c), Going(old, {}, c), gained, dropped, c)
  <2> DEFINE come == Coming(new, begun, c)
  <2>1. None # c
    BY <1>9, NamesAssumption
  <2>2. come = {i \in new : Holds(it'[i], c)} \cup {j \in begun : job'[j].client = c}
    BY DEF Coming
  <2> HIDE DEF come
  <2>3. \A i \in new : Holds(it'[i], c) =>
          \/ i \in Elements(s) /\ it'[i].client = c
          \/ i \in Elements(n) /\ it'[i].about = c
    BY <1>7, <2>1 DEF Holds
  <2>4. come # {} => c \in Known
    BY <1>3, <1>5, <1>7, <2>2, <2>3
  <2>5. come # {} => refs[c] # 0
    BY <1>9, <2>4, KnownIsHeld DEF Held
  <2>6. Concerning(gained, c) = Tagged(come, c)
    <3>1. ASSUME NEW x \in gained, x[2] = c
          PROVE  \E h \in come : x = <<h, c>>
      <4>1. CASE x \in ByItems(it', Elements(s))
        <5>1. PICK i \in Elements(s) : x = <<i, it'[i].client>>
          BY <4>1 DEF ByItems
        <5> QED
          BY <2>2, <3>1, <5>1 DEF Holds
      <4>2. CASE x \in ByNotices(it', Elements(n))
        <5>1. PICK i \in Elements(n) : x = <<i, it'[i].about>>
          BY <4>2 DEF ByNotices
        <5> QED
          BY <2>2, <3>1, <5>1 DEF Holds
      <4>3. CASE x \in jr
        BY <1>3, <2>2, <3>1, <4>3
      <4> QED
        BY <3>1, <4>1, <4>2, <4>3
    <3>2. ASSUME NEW h \in come
          PROVE  <<h, c>> \in gained
      <4>1. CASE h \in new /\ Holds(it'[h], c)
        BY <2>3, <4>1 DEF ByItems, ByNotices
      <4>2. CASE h \in begun /\ job'[h].client = c
        BY <1>3, <4>2
      <4> QED
        BY <2>2, <3>2, <4>1, <4>2
    <3> HIDE DEF gained
    <3>3. {x \in gained : x[2] = c} = {<<h, c>> : h \in come}
      BY <3>1, <3>2
    <3> QED
      BY <3>3 DEF Concerning, Tagged
  <2>7. Concerning(dropped, c) = Tagged(Going(old, {}, c), c)
    <3>1. Going(old, {}, c) = {i \in old : Holds(it[i], c)}
      BY DEF Going
    <3>2. Concerning(dropped, c) = Tagged({i \in old : Holds(it[i], c)}, c)
      BY PairsOfItems
    <3> QED
      BY <3>1, <3>2
  <2> HIDE DEF gained, dropped
  <2> QED
    BY <1>4, <2>5, <2>6, <2>7 DEF come, Tallies, Stays
<1> HIDE DEF gained, dropped, new
<1> QED
  BY <1>1, <1>8, <1>9, StepKeepsHeld

\* An item that goes drops what it holds.
LEMMA RetireKeepsHeld ==
  ASSUME QInv, QInv', Held, Retire
  PROVE  Held'
<1> DEFINE old == {Current}
           dropped == ByItems(it, old)
<1>1. /\ at # "events" /\ order[at] # <<>> /\ it[Current].fired
      /\ it' = [it EXCEPT ![Current] = FreeItem]
      /\ Reference({}, dropped) /\ job' = job /\ conn' = conn
  BY DEF Retire
<1>2. /\ Current \in Item /\ it \in [Item -> ItemRecord] /\ MadeWell(it[Current])
      /\ it[Current].kind # "free" /\ it[Current].queue = at
  BY <1>1, CurrentItem DEF QInv, Typed, Made
<1>3. Changes(old, {}, {}, {})
  BY <1>1, <1>2 DEF Changes
<1>4. it[Current].about = None
  <2>1. Current \in Item /\ Current = Head(order[it[Current].queue])
    BY <1>1, <1>2 DEF QInv, HeadFired
  <2> QED
    BY <1>1, <1>2 DEF MadeWell
<1>5. ASSUME NEW c \in Client
      PROVE  Tallies(Coming({}, {}, c), Going(old, {}, c), {}, dropped, c)
  <2>1. Going(old, {}, c) = IF it[Current].client = c THEN {Current} ELSE {}
    BY <1>4, <1>5, NamesAssumption DEF Going, Holds
  <2>2. Concerning(dropped, c) = Tagged(Going(old, {}, c), c)
    <3>1. CASE it[Current].client = c
      BY <2>1, <3>1 DEF ByItems, Concerning, Tagged
    <3>2. CASE it[Current].client # c
      BY <2>1, <3>2 DEF ByItems, Concerning, Tagged
    <3> QED
      BY <3>1, <3>2
  <2> HIDE DEF old, dropped
  <2> QED
    BY <1>1, <2>2, NothingPaired DEF Tallies, Stays
<1> HIDE DEF old, dropped
<1> QED
  BY <1>1, <1>3, <1>5, StepKeepsHeld

\* What new items hold, when they are no notifications, or all are.
LEMMA NewItemPairs ==
  ASSUME NEW S, NEW c, c # None, \A i \in S : it'[i].about = None
  PROVE  Concerning(ByItems(it', S), c) = Tagged(Coming(S, {}, c), c)
<1>1. Coming(S, {}, c) = {i \in S : it'[i].client = c}
  BY DEF Coming, Holds
<1>2. Concerning(ByItems(it', S), c) = Tagged({i \in S : it'[i].client = c}, c)
  BY DEF ByItems, Concerning, Tagged
<1> QED
  BY <1>1, <1>2

LEMMA NewNoticePairs ==
  ASSUME NEW S, NEW c, c # None, \A i \in S : it'[i].client = None
  PROVE  Concerning(ByNotices(it', S), c) = Tagged(Coming(S, {}, c), c)
<1>1. Coming(S, {}, c) = {i \in S : it'[i].about = c}
  BY DEF Coming, Holds
<1>2. Concerning(ByNotices(it', S), c) = Tagged({i \in S : it'[i].about = c}, c)
  BY DEF ByNotices, Concerning, Tagged
<1> QED
  BY <1>1, <1>2

LEMMA AddChanges ==
  ASSUME QInv, NEW q, NEW s, NEW f, Append2(q, s, f), Elements(s) \subseteq Unused,
         NEW ended, ended \subseteq Job, \A j \in ended : job'[j] = FreeJob,
         \A j \in Job \ ended : job'[j] = job[j]
  PROVE  /\ Changes({}, Elements(s), ended, {})
         /\ \A i \in Elements(s) : it'[i] = f[i]
<1>1. \A i \in Item : it'[i] = IF i \in Elements(s) THEN f[i] ELSE it[i]
  BY DEF Append2
<1> QED
  BY <1>1 DEF Changes, Unused

\* The commands of a client point at it while it is on the list of clients.
LEMMA RequestKeepsHeld ==
  ASSUME QInv, QInv', Held, NEW c \in Client, Request(c)
  PROVE  Held'
<1> DEFINE callback == NewItem("callback", c, c, 0, FALSE, 0, None)
           command(g) == NewItem("command", c, c, g, FALSE, 0, None)
           new(l, s) == [i \in Elements(s) |-> IF i = s[l[1] + 1] THEN callback
                                             ELSE command(l[2])]
<1>1. PICK l \in Lines(LineSizes) : \E s \in Slots(l[1] + 1) :
        Append2(c, s, new(l, s)) /\ Reference(ByItems(it', Elements(s)), {})
  BY DEF Request
<1>2. PICK s \in Slots(l[1] + 1) :
        Append2(c, s, new(l, s)) /\ Reference(ByItems(it', Elements(s)), {})
  BY <1>1
<1>3. l[1] \in Nat
  BY GroupAssumption DEF Lines, FreshGroups
<1>4. Elements(s) \subseteq Unused
  BY <1>3, SlotsFacts
<1>5. \A i \in Elements(s) : new(l, s)[i].client = c /\ new(l, s)[i].about = None
  BY DEF NewItem
<1> HIDE DEF new, callback, command
<1>6. conn[c] = "live" /\ conn' = conn /\ job' = job
  BY DEF Request
<1>7. /\ Changes({}, Elements(s), {}, {})
      /\ \A i \in Elements(s) : it'[i].client = c /\ it'[i].about = None
  BY <1>2, <1>4, <1>5, <1>6, AddChanges
<1>8. ASSUME NEW d \in Client
      PROVE  Tallies(Coming(Elements(s), {}, d), Going({}, {}, d),
                     ByItems(it', Elements(s)), {}, d)
  <2>1. d # None
    BY <1>8, NamesAssumption
  <2>2. Coming(Elements(s), {}, d) # {} => d = c
    BY <1>7, <2>1 DEF Coming, Holds
  <2>3. refs[c] # 0
    BY <1>6, NoHolders DEF Held
  <2>4. Concerning(ByItems(it', Elements(s)), d) =
          Tagged(Coming(Elements(s), {}, d), d)
    BY <1>7, <2>1, NewItemPairs
  <2> QED
    BY <1>6, <2>2, <2>3, <2>4, NothingPaired DEF Tallies, Stays
<1> QED
  BY <1>2, <1>7, <1>8, StepKeepsHeld

LEMMA RaiseKeepsHeld ==
  ASSUME QInv, QInv', Held, Raise
  PROVE  Held'
<1>1. PICK s \in Slots(1), a \in Live \cup {None} :
        /\ Append2(Global, s, [i \in Elements(s) |-> Notice(a, 0)])
        /\ Reference(ByNotices(it', Elements(s)), {})
  BY DEF Raise
<1>2. Elements(s) \subseteq Unused
  BY SlotsFacts
<1>3. conn' = conn /\ job' = job /\ a \in Client \cup {None}
  BY DEF Raise, Live
<1>4. Notice(a, 0).client = None /\ Notice(a, 0).about = a
  BY <1>3, NoticeFacts
<1>5. /\ Changes({}, Elements(s), {}, {})
      /\ \A i \in Elements(s) : it'[i].client = None /\ it'[i].about = a
  BY <1>1, <1>2, <1>3, <1>4, AddChanges
<1>6. ASSUME NEW d \in Client
      PROVE  Tallies(Coming(Elements(s), {}, d), Going({}, {}, d),
                     ByNotices(it', Elements(s)), {}, d)
  <2>1. d # None
    BY <1>6, NamesAssumption
  <2>2. Coming(Elements(s), {}, d) # {} => d \in Live
    BY <1>5, <2>1 DEF Coming, Holds
  <2>3. d \in Live => refs[d] # 0
    BY <1>6, NoHolders DEF Held, Live
  <2>4. Concerning(ByNotices(it', Elements(s)), d) =
          Tagged(Coming(Elements(s), {}, d), d)
    <3>1. \A i \in Elements(s) : it'[i].client = None
      BY <1>5
    <3> QED
      BY <2>1, <3>1, NewNoticePairs
  <2> QED
    BY <1>3, <2>2, <2>3, <2>4, NothingPaired DEF Tallies, Stays
<1> QED
  BY <1>1, <1>5, <1>6, StepKeepsHeld

\* The notification of a client that is lost takes over where the list lets go.
LEMMA LoseKeepsHeld ==
  ASSUME QInv, QInv', Held, NEW c \in Client, Lose(c)
  PROVE  Held'
<1>1. PICK n \in NoticeSlots :
        /\ Append2(Global, n, [i \in Elements(n) |-> Notice(c, 0)])
        /\ Reference(ByNotices(it', Elements(n)), {<<None, c>>})
  BY DEF Lose
<1>2. Elements(n) \subseteq Unused
  BY SlotsFacts, ElementsEmpty DEF NoticeSlots
<1>3. conn[c] = "live" /\ conn' = [conn EXCEPT ![c] = "lost"] /\ job' = job
  BY DEF Lose, Losable
<1>4. conn'[c] = "lost" /\ \A d \in Client : d # c => conn'[d] = conn[d]
  BY <1>3 DEF QInv, Typed
<1>5. Notice(c, 0).client = None /\ Notice(c, 0).about = c
  BY NoticeFacts
<1>6. /\ Changes({}, Elements(n), {}, {})
      /\ \A i \in Elements(n) : it'[i].client = None /\ it'[i].about = c
  BY <1>1, <1>2, <1>3, <1>5, AddChanges
<1>7. ASSUME NEW d \in Client
      PROVE  Tallies(Coming(Elements(n), {}, d), Going({}, {}, d),
                     ByNotices(it', Elements(n)), {<<None, c>>}, d)
  <2>1. d # None
    BY <1>7, NamesAssumption
  <2>2. Coming(Elements(n), {}, d) # {} => d = c
    BY <1>6, <2>1 DEF Coming, Holds
  <2>3. refs[c] # 0
    BY <1>3, NoHolders DEF Held
  <2>4. Concerning(ByNotices(it', Elements(n)), d) = Tagged(Coming(Elements(n), {}, d), d)
    <3>1. \A i \in Elements(n) : it'[i].client = None
      BY <1>6
    <3> QED
      BY <2>1, <3>1, NewNoticePairs
  <2>5. Stays(d)
    BY <1>3, <1>4, <1>7 DEF Stays
  <2>6. CASE d = c
    <3>1. Concerning({<<None, c>>}, d) = {<<None, d>>}
      BY <2>6 DEF Concerning
    <3> QED
      BY <1>3, <1>4, <2>3, <2>4, <2>5, <2>6, <3>1, NothingPaired DEF Tallies
  <2>7. CASE d # c
    <3>1. Concerning({<<None, c>>}, d) = {}
      BY <2>7 DEF Concerning
    <3> QED
      BY <1>4, <1>7, <2>2, <2>4, <2>5, <2>7, <3>1, NothingPaired DEF Tallies
  <2> QED
    BY <2>6, <2>7
<1> QED
  BY <1>1, <1>6, <1>7, StepKeepsHeld

\* The data of a job drops its reference after what it inserted has its own.
LEMMA EndedJobPairs ==
  ASSUME NEW j, NEW c
  PROVE  Concerning(Dropped(j), c) = Tagged(Going({}, {j}, c), c)
<1>1. Going({}, {j}, c) = IF job[j].client = c THEN {j} ELSE {}
  BY DEF Going
<1>2. CASE job[j].client = c
  BY <1>1, <1>2 DEF Dropped, Concerning, Tagged
<1>3. CASE job[j].client # c
  BY <1>1, <1>3 DEF Dropped, Concerning, Tagged
<1> QED
  BY <1>2, <1>3

LEMMA BackgroundEndsKeepsHeld ==
  ASSUME QInv, QInv', Held, NEW j \in Job, BackgroundEnds(j)
  PROVE  Held'
<1> DEFINE owner == job[j].client
           q == IF owner = None THEN Global ELSE owner
           command(g) == NewItem("command", q, owner, g, FALSE, 0, None)
<1>1. PICK l \in Lines(InsertSizes) : \E s \in Slots(l[1]) :
        /\ Append2(q, s, [i \in Elements(s) |-> command(l[2])])
        /\ Reference(ByItems(it', Elements(s)), Dropped(j))
  BY DEF BackgroundEnds
<1>2. PICK s \in Slots(l[1]) :
        /\ Append2(q, s, [i \in Elements(s) |-> command(l[2])])
        /\ Reference(ByItems(it', Elements(s)), Dropped(j))
  BY <1>1
<1>3. l[1] \in Nat
  BY GroupAssumption DEF Lines, FreshGroups
<1>4. Elements(s) \subseteq Unused
  BY <1>3, SlotsFacts
<1>5. command(l[2]).client = owner /\ command(l[2]).about = None
  BY DEF NewItem
<1> HIDE DEF command, q, owner
<1>6. conn' = conn /\ job' = [job EXCEPT ![j] = FreeJob]
  BY DEF BackgroundEnds
<1>7. job'[j] = FreeJob /\ \A k \in Job \ {j} : job'[k] = job[k]
  BY <1>6 DEF QInv, Typed
<1>8. /\ Changes({}, Elements(s), {j}, {})
      /\ \A i \in Elements(s) : it'[i].client = owner /\ it'[i].about = None
  BY <1>2, <1>4, <1>5, <1>7, AddChanges
<1>9. ASSUME NEW d \in Client
      PROVE  Tallies(Coming(Elements(s), {}, d), Going({}, {j}, d),
                     ByItems(it', Elements(s)), Dropped(j), d)
  <2>1. d # None
    BY <1>9, NamesAssumption
  <2>2. Coming(Elements(s), {}, d) # {} => d = owner
    BY <1>8, <2>1 DEF Coming, Holds
  <2>3. d = owner => refs[d] # 0
    <3>1. d = owner => j \in Holders(d)
      BY DEF Holders, owner
    <3> QED
      BY <1>9, <3>1, NoHolders DEF Held
  <2>4. Concerning(ByItems(it', Elements(s)), d) =
          Tagged(Coming(Elements(s), {}, d), d)
    BY <1>8, <2>1, NewItemPairs
  <2>5. Concerning(Dropped(j), d) = Tagged(Going({}, {j}, d), d)
    BY EndedJobPairs
  <2> QED
    BY <1>6, <2>2, <2>3, <2>4, <2>5 DEF Tallies, Stays
<1> QED
  BY <1>2, <1>8, <1>9, StepKeepsHeld

LEMMA JobEndsKeepsHeld ==
  ASSUME QInv, QInv', Held, NEW j \in Job, JobEnds(j)
  PROVE  Held'
<1> DEFINE waiter == job[j].item
           owner == it[waiter].client
<1>1. PICK s :
        /\ Elements(s) \subseteq Unused
        /\ \A x \in Elements(s) : it'[x].client = owner /\ it'[x].about = None
        /\ it'[waiter] = Continued(it[waiter])
        /\ \A x \in Item : x # waiter /\ x \notin Elements(s) => it'[x] = it[x]
        /\ Reference(ByItems(it', Elements(s)), Dropped(j))
  <2>1. PICK l \in Lines(InsertSizes) : \E s \in Slots(l[1]) :
          /\ s \in Seq(Item) /\ Distinct(s) /\ Elements(s) \subseteq Unused
          /\ waiter \notin Elements(s)
          /\ LET new == JobLine(waiter, l) IN
               /\ new \in ItemRecord /\ MadeWell(new) /\ new.about = None
               /\ new.queue = it[waiter].queue /\ ~new.fired /\ new.kind = "command"
               /\ new.client = owner
               /\ \A x \in Elements(s) : it'[x] = new
          /\ it' \in [Item -> ItemRecord]
          /\ it'[waiter] = Continued(it[waiter])
          /\ \A x \in Item : x # waiter /\ x \notin Elements(s) => it'[x] = it[x]
          /\ order' =
               [order EXCEPT ![it[waiter].queue] = InsertAfter(order[it[waiter].queue], waiter, s)]
          /\ Reference(ByItems(it', Elements(s)), Dropped(j))
    BY JobEndsItems
  <2> HIDE DEF waiter, owner
  <2> QED
    BY <2>1
<1>2. /\ waiter \in Item /\ it[waiter] \in ItemRecord
      /\ MadeWell(it[waiter]) /\ it[waiter].kind # "free"
  BY JobItemFacts DEF JobEnds, QInv, Typed, Made
<1>3. conn' = conn /\ job' = [job EXCEPT ![j] = FreeJob]
  BY DEF JobEnds
<1>4. job'[j] = FreeJob /\ \A k \in Job \ {j} : job'[k] = job[k]
  BY <1>3 DEF QInv, Typed
<1> HIDE DEF waiter, owner
<1>5. Changes({}, Elements(s), {j}, {})
  <2>1. it'[waiter].client = it[waiter].client /\ it'[waiter].about = it[waiter].about
    BY <1>1, <1>2, ContinuedFacts
  <2> QED
    BY <1>1, <1>4, <2>1 DEF Changes
<1>6. ASSUME NEW d \in Client
      PROVE  Tallies(Coming(Elements(s), {}, d), Going({}, {j}, d),
                     ByItems(it', Elements(s)), Dropped(j), d)
  <2>1. d # None
    BY <1>6, NamesAssumption
  <2>2. Coming(Elements(s), {}, d) # {} => d = owner
    BY <1>1, <2>1 DEF Coming, Holds
  <2>3. d = owner => refs[d] # 0
    <3>1. d = owner => waiter \in Holders(d)
      BY <1>2 DEF Holders, Holds, owner
    <3> QED
      BY <1>6, <3>1, NoHolders DEF Held
  <2>4. Concerning(ByItems(it', Elements(s)), d) =
          Tagged(Coming(Elements(s), {}, d), d)
    <3>1. \A x \in Elements(s) : it'[x].about = None
      BY <1>1
    <3> QED
      BY <2>1, <3>1, NewItemPairs
  <2>5. Concerning(Dropped(j), d) = Tagged(Going({}, {j}, d), d)
    BY EndedJobPairs
  <2> QED
    BY <1>3, <2>2, <2>3, <2>4, <2>5 DEF Tallies, Stays
<1> QED
  BY <1>1, <1>5, <1>6, StepKeepsHeld

\* Without references counted: nothing comes or goes but a place on the list.
LEMMA ConnectKeepsHeld ==
  ASSUME QInv, Held, NEW c \in Client, Connect(c)
  PROVE  Held'
<1>1. /\ it' = it /\ job' = job /\ freeing' = freeing
      /\ conn[c] = "new"
      /\ conn' = [conn EXCEPT ![c] = "live"] /\ refs' = [refs EXCEPT ![c] = 1]
      /\ conn \in [Client -> {"new", "live", "lost", "freed"}] /\ refs \in [Client -> Nat]
  BY DEF Connect, qVars, QInv, Typed, Held, Counted
<1>2. refs[c] = 0 /\ Holders(c) = {}
  BY <1>1, NoHolders DEF Held, Unheld
<1>3. \A d \in Client : Holders(d)' = Holders(d)
  BY <1>1 DEF Holders, Holds
<1>4. \A d \in Client : refs'[d] = OnList(d)' + Cardinality(Holders(d)')
  <2>1. Cardinality(Holders(c)) = 0
    BY <1>2, FS_EmptySet
  <2> QED
    BY <1>1, <1>3, <2>1 DEF Held, Counted, OnList
<1>5. Counted'
  BY <1>1, <1>4 DEF Counted
<1>6. Unheld'
  BY <1>1 DEF Held, Unheld
<1> QED
  BY <1>5, <1>6 DEF Held

LEMMA FreeKeepsHeld ==
  ASSUME QInv, Held, NEW c \in Client, Free(c)
  PROVE  Held'
<1>1. /\ it' = it /\ job' = job /\ freeing' = freeing \ {c} /\ refs' = refs
      /\ c \in freeing
      /\ conn' = [conn EXCEPT ![c] = IF refs[c] = 0 THEN "freed" ELSE conn[c]]
      /\ conn \in [Client -> {"new", "live", "lost", "freed"}]
  BY DEF Free, qVars, QInv, Typed
<1>2. refs[c] = 0 /\ conn[c] = "lost"
  BY <1>1 DEF Held, Unheld
<1>3. \A d \in Client : Holders(d)' = Holders(d) /\ OnList(d)' = OnList(d)
  BY <1>1, <1>2 DEF Holders, Holds, OnList
<1>4. Counted'
  BY <1>1, <1>3 DEF Held, Counted
<1>5. Unheld'
  BY <1>1, <1>2 DEF Held, Unheld
<1> QED
  BY <1>4, <1>5 DEF Held

LEMMA LoopKeepsHeld ==
  ASSUME Held, LoopStart \/ NextClient \/ NextPass \/ LeaveLoop \/ UNCHANGED vars
  PROVE  Held'
<1>1. UNCHANGED <<it, job, conn, refs, freeing>>
  BY DEF LoopStart, NextClient, NextPass, LeaveLoop, QueueDone, vars, qVars, cVars
<1>2. \A d : Holders(d)' = Holders(d) /\ OnList(d)' = OnList(d)
  BY <1>1 DEF Holders, Holds, OnList
<1>3. Counted'
  BY <1>1, <1>2 DEF Held, Counted
<1>4. Unheld'
  BY <1>1 DEF Held, Unheld
<1> QED
  BY <1>3, <1>4 DEF Held

LEMMA HeldInit ==
  ASSUME Init
  PROVE  Held
<1>1. \A c \in Client : Holders(c) = {}
  BY NamesAssumption DEF Init, Holders, Holds, FreeItem, FreeJob
<1>2. \A c \in Client : OnList(c) = 0 /\ refs[c] = 0
  BY DEF Init, OnList
<1>3. Counted
  <2>1. refs \in [Client -> Nat]
    BY DEF Init
  <2>2. \A c \in Client : refs[c] = OnList(c) + Cardinality(Holders(c))
    BY <1>1, <1>2, FS_EmptySet
  <2> QED
    BY <2>1, <2>2 DEF Counted
<1> QED
  BY <1>2, <1>3 DEF Held, Unheld, Init

LEMMA HeldNext ==
  ASSUME QInv, QInv', Held, [Next]_vars
  PROVE  Held'
<1>1. CASE FireCommand \/ FireCallback \/ FireNotice
  <2>1. /\ at # "events" /\ order[at] # <<>> /\ ~it[Current].fired
        /\ \E s, rec, n, a, removed, waits, jr :
             FireStep(s, rec, n, a, removed, waits, jr)
    BY <1>1, FireIsStep
  <2> QED
    BY <2>1, FireKeepsHeld
<1>2. CASE Retire
  BY <1>2, RetireKeepsHeld
<1>3. CASE LoopStart \/ NextClient \/ NextPass \/ LeaveLoop \/ UNCHANGED vars
  BY <1>3, LoopKeepsHeld
<1>4. CASE Raise
  BY <1>4, RaiseKeepsHeld
<1>5. ASSUME NEW c \in Client, Connect(c) \/ Request(c) \/ Lose(c) \/ Free(c)
      PROVE  Held'
  BY <1>5, ConnectKeepsHeld, RequestKeepsHeld, LoseKeepsHeld, FreeKeepsHeld
<1>6. ASSUME NEW j \in Job, JobEnds(j) \/ BackgroundEnds(j)
      PROVE  Held'
  BY <1>6, JobEndsKeepsHeld, BackgroundEndsKeepsHeld
<1> QED
  BY <1>1, <1>2, <1>3, <1>4, <1>5, <1>6 DEF Next

\* c->references is the number of pointers at the client in every reachable
\* state, and a client is freed only when there are none and its queue is
\* empty, so cmdq_free never calls fatalx and no item, job or notification is
\* left with a client that is gone (server_client_unref, server_client_free).
THEOREM ClientsLiveLongEnough == Spec => []Lifetimes
<1>1. Init => QInv /\ Held
  BY QInvInit, HeldInit
<1>2. QInv /\ Held /\ [Next]_vars => (QInv /\ Held)'
  BY QInvNext, HeldNext
<1>3. QInv /\ Held => Lifetimes
  BY HeldGivesLifetimes
<1> QED
  BY <1>1, <1>2, <1>3, PTL DEF Spec
=============================================================================
