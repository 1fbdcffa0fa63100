--------------------------- MODULE WaitForProofs ---------------------------
(***************************************************************************)
(* Proofs about the wait channels, for any sets of channels and clients.   *)
(***************************************************************************)
EXTENDS WaitFor, SequenceTheorems, TLAPS

(***************************************************************************)
(* Sequences as the channels use them: what Append and Tail do to the set  *)
(* of elements of a list without duplicates.                               *)
(***************************************************************************)
LEMMA ElementsEmpty == Elements(<<>>) = {}
BY DEF Elements

LEMMA ElementsNone ==
  ASSUME NEW S, NEW s \in Seq(S), Elements(s) = {}
  PROVE  s = <<>>
<1>1. SUFFICES ASSUME s # <<>> PROVE FALSE
  OBVIOUS
<1>2. 1 \in 1..Len(s)
  BY <1>1, EmptySeq, LenProperties
<1> QED
  BY <1>2 DEF Elements

LEMMA ElementsAppend ==
  ASSUME NEW S, NEW s \in Seq(S), NEW e \in S
  PROVE  /\ Append(s, e) \in Seq(S)
         /\ Append(s, e) # <<>>
         /\ Elements(Append(s, e)) = Elements(s) \cup {e}
         /\ NoDuplicates(s) /\ e \notin Elements(s) => NoDuplicates(Append(s, e))
<1>1. /\ Append(s, e) \in Seq(S)
      /\ Append(s, e) # <<>>
      /\ Len(Append(s, e)) = Len(s) + 1
      /\ \A i \in 1..Len(s) : Append(s, e)[i] = s[i]
      /\ Append(s, e)[Len(s) + 1] = e
  BY AppendProperties
<1>2. Len(s) \in Nat
  BY LenProperties
<1>3. 1..(Len(s) + 1) = 1..Len(s) \cup {Len(s) + 1}
  BY <1>2
<1>4. Elements(Append(s, e)) = Elements(s) \cup {e}
  BY <1>1, <1>2, <1>3 DEF Elements
<1>5. ASSUME NoDuplicates(s), e \notin Elements(s)
      PROVE  NoDuplicates(Append(s, e))
  BY <1>1, <1>2, <1>3, <1>5 DEF NoDuplicates, Elements
<1> QED
  BY <1>1, <1>4, <1>5

LEMMA ElementsTail ==
  ASSUME NEW S, NEW s \in Seq(S), s # <<>>
  PROVE  /\ Head(s) \in S
         /\ Head(s) \in Elements(s)
         /\ Tail(s) \in Seq(S)
         /\ Elements(Tail(s)) \subseteq Elements(s)
         /\ NoDuplicates(s) =>
              /\ NoDuplicates(Tail(s))
              /\ Elements(Tail(s)) = Elements(s) \ {Head(s)}
<1>1. /\ Head(s) \in S
      /\ Tail(s) \in Seq(S)
      /\ Len(Tail(s)) = Len(s) - 1
      /\ \A i \in 1..Len(Tail(s)) : Tail(s)[i] = s[i + 1]
  BY HeadTailProperties
<1>2. Len(s) \in Nat \ {0} /\ Head(s) = s[1] /\ 1 \in 1..Len(s)
  BY EmptySeq, LenProperties
<1>3. \A i \in 1..Len(Tail(s)) : i + 1 \in 1..Len(s) /\ i \in Nat
  BY <1>1, <1>2
<1>4. \A j \in 1..Len(s) : j # 1 => j - 1 \in 1..Len(Tail(s)) /\ s[j] = Tail(s)[j - 1]
  BY <1>1, <1>2
<1>5. Head(s) \in Elements(s)
  BY <1>2 DEF Elements
<1>6. Elements(Tail(s)) \subseteq Elements(s)
  BY <1>1, <1>3 DEF Elements
<1>7. ASSUME NoDuplicates(s)
      PROVE  NoDuplicates(Tail(s)) /\ Elements(Tail(s)) = Elements(s) \ {Head(s)}
  <2>1. NoDuplicates(Tail(s))
    BY <1>1, <1>3, <1>7 DEF NoDuplicates
  <2>2. Head(s) \notin Elements(Tail(s))
    BY <1>1, <1>2, <1>3, <1>7 DEF NoDuplicates, Elements
  <2>3. Elements(s) \ {Head(s)} \subseteq Elements(Tail(s))
    BY <1>2, <1>4 DEF Elements
  <2> QED
    BY <1>6, <2>1, <2>2, <2>3
<1> QED
  BY <1>1, <1>5, <1>6, <1>7

-----------------------------------------------------------------------------
LEMMA InitIInv == Init => IInv
<1> SUFFICES ASSUME Init PROVE IInv
  OBVIOUS
<1>1. TypeOK
  BY EmptySeq DEF Init, TypeOK
<1>2. \A ch \in Channel : OnChannel(ch) = {}
  BY ElementsEmpty DEF Init, OnChannel
<1>3. NoDuplicates(<<>>)
  BY DEF NoDuplicates
<1>4. Parked
  BY <1>2, <1>3, ElementsEmpty DEF Init, Parked
<1>5. FreedIsEmpty /\ NobodyWaitsInVain
  BY DEF Init, FreedIsEmpty, NobodyWaitsInVain
<1> QED
  BY <1>1, <1>4, <1>5 DEF IInv

\* Parked with the primes moved to the variables.
LEMMA ParkedNext ==
  Parked' <=>
    /\ \A q \in Queue : q \in blocked' <=> \E ch \in Channel :
         q \in Elements(waiters'[ch]) \/ q \in Elements(lockers'[ch])
    /\ \A ch \in Channel : NoDuplicates(waiters'[ch]) /\ NoDuplicates(lockers'[ch])
    /\ \A ch \in Channel, q \in Queue :
         ~(q \in Elements(waiters'[ch]) /\ q \in Elements(lockers'[ch]))
    /\ \A ch, d \in Channel, q \in Queue :
         /\ q \in Elements(waiters'[ch]) \/ q \in Elements(lockers'[ch])
         /\ q \in Elements(waiters'[d]) \/ q \in Elements(lockers'[d])
         => ch = d
<1>1. \A ch : OnChannel(ch)' = Elements(waiters'[ch]) \cup Elements(lockers'[ch])
  BY DEF OnChannel, Elements
<1>2. \A ch : /\ Elements(waiters[ch])' = Elements(waiters'[ch])
             /\ Elements(lockers[ch])' = Elements(lockers'[ch])
  BY DEF Elements
<1>3. \A ch : /\ NoDuplicates(waiters[ch])' = NoDuplicates(waiters'[ch])
             /\ NoDuplicates(lockers[ch])' = NoDuplicates(lockers'[ch])
  BY DEF NoDuplicates
<1> QED
  BY <1>1, <1>2, <1>3 DEF Parked

LEMMA SignalStep ==
  ASSUME IInv, NEW q \in Queue, NEW ch \in Channel, Signal(q, ch)
  PROVE  IInv'
<1> USE DEF IInv
<1>1. CASE SignalRecorded(ch)
  <2> USE DEF Signal, SignalRecorded
  <2>1. TypeOK'
    BY <1>1 DEF TypeOK
  <2>2. Parked'
    BY <1>1, ParkedNext DEF Parked, OnChannel
  <2>3. FreedIsEmpty'
    BY <1>1 DEF FreedIsEmpty, TypeOK
  <2>4. NobodyWaitsInVain'
    BY <1>1 DEF NobodyWaitsInVain, TypeOK
  <2> QED
    BY <2>1, <2>2, <2>3, <2>4
<1>2. CASE SignalAll(ch)
  <2> USE DEF Signal, SignalAll
  <2>1. TypeOK'
    BY <1>2, EmptySeq DEF TypeOK
  <2>2. \A d \in Channel : waiters'[d] = IF d = ch THEN <<>> ELSE waiters[d]
    BY <1>2 DEF TypeOK
  <2>3. NoDuplicates(<<>>)
    BY DEF NoDuplicates
  <2>4. Parked'
    BY <1>2, <2>2, <2>3, ElementsEmpty, ParkedNext DEF Parked, OnChannel
  <2>5. FreedIsEmpty'
    BY <1>2, <2>2 DEF FreedIsEmpty, NobodyWaitsInVain, Removable, TypeOK
  <2>6. NobodyWaitsInVain'
    BY <1>2, <2>2 DEF NobodyWaitsInVain, Removable, TypeOK
  <2> QED
    BY <2>1, <2>4, <2>5, <2>6
<1> QED
  BY <1>1, <1>2 DEF Signal

LEMMA WaitStep ==
  ASSUME IInv, NEW q \in Queue, NEW ch \in Channel, Wait(q, ch)
  PROVE  IInv'
<1> USE DEF IInv
<1>1. CASE WaitWoken(ch)
  <2> USE DEF Wait, WaitWoken
  <2>1. TypeOK'
    BY <1>1 DEF TypeOK
  <2>2. Parked'
    BY <1>1, ParkedNext DEF Parked, OnChannel
  <2>3. FreedIsEmpty'
    BY <1>1 DEF FreedIsEmpty, NobodyWaitsInVain, Removable, TypeOK
  <2>4. NobodyWaitsInVain'
    BY <1>1 DEF NobodyWaitsInVain, Removable, TypeOK
  <2> QED
    BY <2>1, <2>2, <2>3, <2>4
<1>2. CASE WaitBlocks(q, ch)
  <2> USE DEF Wait, WaitBlocks
  <2>1. /\ waiters[ch] \in Seq(Queue)
        /\ q \notin blocked
    BY DEF TypeOK, CanRun
  <2>2. q \notin Elements(waiters[ch]) /\ NoDuplicates(waiters[ch])
    BY <2>1 DEF Parked, OnChannel
  <2>3. /\ waiters'[ch] \in Seq(Queue)
        /\ waiters'[ch] # <<>>
        /\ Elements(waiters'[ch]) = Elements(waiters[ch]) \cup {q}
        /\ NoDuplicates(waiters'[ch])
    BY <1>2, <2>1, <2>2, ElementsAppend DEF TypeOK
  <2>4. \A d \in Channel : d # ch => waiters'[d] = waiters[d]
    BY <1>2 DEF TypeOK
  <2>5. TypeOK'
    BY <1>2, <2>1, ElementsAppend DEF TypeOK
  <2>6. Parked'
    BY <1>2, <2>1, <2>3, <2>4, ParkedNext DEF Parked, OnChannel
  <2>7. FreedIsEmpty'
    BY <1>2, <2>4 DEF FreedIsEmpty
  <2>8. NobodyWaitsInVain'
    BY <1>2, <2>4 DEF NobodyWaitsInVain
  <2> QED
    BY <2>5, <2>6, <2>7, <2>8
<1> QED
  BY <1>1, <1>2 DEF Wait

LEMMA LockStep ==
  ASSUME IInv, NEW q \in Queue, NEW ch \in Channel, Lock(q, ch)
  PROVE  IInv'
<1> USE DEF IInv
<1>1. CASE LockTaken(q, ch)
  <2> USE DEF Lock, LockTaken
  <2>1. TypeOK'
    BY <1>1 DEF TypeOK
  <2>2. Parked'
    BY <1>1, ParkedNext DEF Parked, OnChannel
  <2>3. FreedIsEmpty'
    BY <1>1 DEF FreedIsEmpty, TypeOK
  <2>4. NobodyWaitsInVain'
    BY <1>1, NobodyAssumption DEF NobodyWaitsInVain, TypeOK, Queue
  <2> QED
    BY <2>1, <2>2, <2>3, <2>4
<1>2. CASE LockBlocks(q, ch)
  <2> USE DEF Lock, LockBlocks
  <2>1. /\ lockers[ch] \in Seq(Queue)
        /\ q \notin blocked
    BY DEF TypeOK, CanRun
  <2>2. q \notin Elements(lockers[ch]) /\ NoDuplicates(lockers[ch])
    BY <2>1 DEF Parked, OnChannel
  <2>3. /\ lockers'[ch] \in Seq(Queue)
        /\ Elements(lockers'[ch]) = Elements(lockers[ch]) \cup {q}
        /\ NoDuplicates(lockers'[ch])
    BY <1>2, <2>1, <2>2, ElementsAppend DEF TypeOK
  <2>4. \A d \in Channel : d # ch => lockers'[d] = lockers[d]
    BY <1>2 DEF TypeOK
  <2>5. TypeOK'
    BY <1>2, <2>1, ElementsAppend DEF TypeOK
  <2>6. Parked'
    BY <1>2, <2>1, <2>3, <2>4, ParkedNext DEF Parked, OnChannel
  <2>7. FreedIsEmpty'
    BY <1>2, <2>4 DEF FreedIsEmpty
  <2>8. NobodyWaitsInVain'
    BY <1>2, <2>4 DEF NobodyWaitsInVain
  <2> QED
    BY <2>5, <2>6, <2>7, <2>8
<1> QED
  BY <1>1, <1>2 DEF Lock

LEMMA UnlockStep ==
  ASSUME IInv, NEW q \in Queue, NEW ch \in Channel, Unlock(q, ch)
  PROVE  IInv'
<1> USE DEF IInv
<1>1. CASE UnlockHandsOver(ch)
  <2> USE DEF Unlock, UnlockHandsOver
  <2>1. lockers[ch] \in Seq(Queue) /\ NoDuplicates(lockers[ch])
    BY DEF TypeOK, Parked, OnChannel
  <2>2. /\ Head(lockers[ch]) \in Queue
        /\ Head(lockers[ch]) \in Elements(lockers[ch])
        /\ Tail(lockers[ch]) \in Seq(Queue)
        /\ NoDuplicates(Tail(lockers[ch]))
        /\ Elements(Tail(lockers[ch])) = Elements(lockers[ch]) \ {Head(lockers[ch])}
    BY <1>1, <2>1, ElementsTail
  <2>3. \A d \in Channel : lockers'[d] = IF d = ch THEN Tail(lockers[ch]) ELSE lockers[d]
    BY <1>1 DEF TypeOK
  <2>4. TypeOK'
    BY <1>1, <2>2 DEF TypeOK
  <2>5. Parked'
    BY <1>1, <2>2, <2>3, ParkedNext DEF Parked, OnChannel
  <2>6. FreedIsEmpty'
    BY <1>1, <2>3 DEF FreedIsEmpty
  <2>7. NobodyWaitsInVain'
    BY <1>1, <2>2, <2>3, NobodyAssumption DEF NobodyWaitsInVain, TypeOK, Queue
  <2> QED
    BY <2>4, <2>5, <2>6, <2>7
<1>2. CASE UnlockFrees(ch)
  <2> USE DEF Unlock, UnlockFrees
  <2>1. TypeOK'
    BY <1>2 DEF TypeOK
  <2>2. Parked'
    BY <1>2, ParkedNext DEF Parked, OnChannel
  <2>3. FreedIsEmpty'
    BY <1>2 DEF FreedIsEmpty, Removable, TypeOK
  <2>4. NobodyWaitsInVain'
    BY <1>2 DEF NobodyWaitsInVain, Removable, TypeOK
  <2> QED
    BY <2>1, <2>2, <2>3, <2>4
<1> QED
  BY <1>1, <1>2 DEF Unlock

LEMMA FlushStep == ASSUME IInv, Flush PROVE IInv'
<1> USE DEF IInv, Flush
<1>1. TypeOK'
  BY EmptySeq DEF TypeOK
<1>2. \A ch \in Channel : /\ waiters'[ch] = <<>> /\ lockers'[ch] = <<>>
                         /\ locked'[ch] = FALSE /\ woken'[ch] = FALSE
                         /\ holder'[ch] = Nobody
  BY DEF FreedIsEmpty
<1>3. NoDuplicates(<<>>)
  BY DEF NoDuplicates
<1>4. UNION {OnChannel(ch) : ch \in exists} = UNION {OnChannel(ch) : ch \in Channel}
  BY ElementsEmpty DEF FreedIsEmpty, OnChannel, TypeOK
<1>5. blocked' = {}
  <2>1. blocked' = blocked \ UNION {OnChannel(ch) : ch \in Channel}
    BY <1>4
  <2>2. \A q \in blocked : q \in Queue /\ \E ch \in Channel : q \in OnChannel(ch)
    BY DEF Parked, TypeOK
  <2> QED
    BY <2>1, <2>2
<1>6. Parked'
  BY <1>2, <1>3, <1>5, ElementsEmpty, ParkedNext DEF Parked, OnChannel
<1>7. FreedIsEmpty' /\ NobodyWaitsInVain'
  BY <1>2 DEF FreedIsEmpty, NobodyWaitsInVain
<1> QED
  BY <1>1, <1>6, <1>7

\* A step that changes no channel and stops or continues no queue.
LEMMA QuietStep ==
  ASSUME IInv, UNCHANGED <<chanVars, blocked, holder>>, lost' \in SUBSET Client
  PROVE  IInv'
<1> USE DEF IInv, chanVars
<1>1. TypeOK'
  BY DEF TypeOK
<1>2. Parked'
  BY ParkedNext DEF Parked, OnChannel
<1>3. FreedIsEmpty' /\ NobodyWaitsInVain'
  BY DEF FreedIsEmpty, NobodyWaitsInVain
<1> QED
  BY <1>1, <1>2, <1>3

LEMMA NextIInv == IInv /\ [Next]_vars => IInv'
<1> SUFFICES ASSUME IInv, [Next]_vars PROVE IInv'
  OBVIOUS
<1>1. ASSUME NEW q \in Queue, Command(q) PROVE IInv'
  BY <1>1, SignalStep, WaitStep, LockStep, UnlockStep DEF Command
<1>2. ASSUME Flush PROVE IInv'
  BY <1>2, FlushStep
<1>3. ASSUME NEW c \in Client, Lose(c) PROVE IInv'
  BY <1>3, QuietStep DEF Lose, IInv, TypeOK
<1>4. ASSUME UNCHANGED vars PROVE IInv'
  BY <1>4, QuietStep DEF vars, IInv, TypeOK
<1> QED
  BY <1>1, <1>2, <1>3, <1>4 DEF Next

THEOREM Inductive == Spec => []IInv
BY InitIInv, NextIInv, PTL DEF Spec

(***************************************************************************)
(* Every variable of the wait channels keeps its type.                     *)
(***************************************************************************)
THEOREM TypeCorrect == Spec => []TypeOK
BY Inductive, PTL DEF IInv

(***************************************************************************)
(* No wait is lost and none is left over: a queue is stopped by wait-for   *)
(* exactly when it is on one list of one channel, once.                    *)
(***************************************************************************)
THEOREM WaitsAreParked == Spec => []Parked
BY Inductive, PTL DEF IInv

(***************************************************************************)
(* cmd_wait_for_remove never frees a channel with somebody on it.          *)
(***************************************************************************)
THEOREM FreedChannelsAreEmpty == Spec => []FreedIsEmpty
BY Inductive, PTL DEF IInv

(***************************************************************************)
(* Nobody waits for a lock that is free or a wakeup that is recorded.      *)
(***************************************************************************)
THEOREM NoVainWait == Spec => []NobodyWaitsInVain
BY Inductive, PTL DEF IInv

(***************************************************************************)
(* The lock half of the channels implements LockService.                   *)
(***************************************************************************)
Asking == [ch \in Channel |-> Elements(lockers[ch])]

LEMMA ServiceInit == Init => Service!Init
BY ElementsEmpty DEF Init, Service!Init

LEMMA ServiceNext == IInv /\ [Next]_vars => [Service!Next]_<<holder, Asking>>
<1> SUFFICES ASSUME IInv, [Next]_vars
             PROVE  Service!Next \/ UNCHANGED <<holder, Asking>>
  OBVIOUS
<1> USE DEF IInv
<1>1. ASSUME NEW q \in Queue, NEW ch \in Channel, Signal(q, ch) \/ Wait(q, ch)
      PROVE  UNCHANGED <<holder, Asking>>
  BY <1>1 DEF Signal, SignalRecorded, SignalAll, Wait, WaitWoken, WaitBlocks,
              Asking, Elements
<1>2. ASSUME NEW q \in Queue, NEW ch \in Channel, Lock(q, ch)
      PROVE  Service!Next
  <2>1. CASE LockTaken(q, ch)
    <3>1. holder[ch] = Nobody
      BY <2>1 DEF LockTaken, NobodyWaitsInVain
    <3>2. Asking' = Asking
      BY <2>1 DEF LockTaken, Asking, Elements
    <3> QED
      BY <2>1, <3>1, <3>2 DEF Service!Take, Service!Next, LockTaken, Asking, Queue
  <2>2. CASE LockBlocks(q, ch)
    <3>1. holder[ch] # Nobody
      BY <2>2 DEF LockBlocks, NobodyWaitsInVain
    <3>2. \A d \in Channel : q \notin Asking[d]
      BY <1>2 DEF Lock, CanRun, Asking, Parked, OnChannel
    <3>3. Elements(Append(lockers[ch], q)) = Elements(lockers[ch]) \cup {q}
      <4>1. lockers[ch] \in Seq(Queue)
        BY DEF TypeOK
      <4> QED
        BY <4>1, ElementsAppend
    <3>5. \A d \in Channel : Elements(lockers'[d]) =
              IF d = ch THEN Elements(lockers[d]) \cup {q} ELSE Elements(lockers[d])
      BY <2>2, <3>3 DEF LockBlocks, TypeOK
    <3>4. Asking' = [Asking EXCEPT ![ch] = @ \cup {q}]
      BY <3>5 DEF Asking, Elements
    <3> QED
      BY <2>2, <3>1, <3>2, <3>4 DEF Service!Ask, Service!Next, LockBlocks, Asking, Queue
  <2> QED
    BY <1>2, <2>1, <2>2 DEF Lock
<1>3. ASSUME NEW q \in Queue, NEW ch \in Channel, Unlock(q, ch)
      PROVE  Service!Next
  <2>1. holder[ch] # Nobody
    BY <1>3 DEF Unlock, NobodyWaitsInVain
  <2>2. CASE UnlockHandsOver(ch)
    <3> DEFINE next == Head(lockers[ch])
    <3>1. /\ next \in Queue
          /\ next \in Elements(lockers[ch])
          /\ Elements(Tail(lockers[ch])) = Elements(lockers[ch]) \ {next}
      BY <2>2, ElementsTail DEF UnlockHandsOver, TypeOK, Parked, OnChannel
    <3>2. \A d \in Channel : Elements(lockers'[d]) =
              IF d = ch THEN Elements(lockers[d]) \ {next} ELSE Elements(lockers[d])
      BY <2>2, <3>1 DEF UnlockHandsOver, TypeOK
    <3>3. Asking' = [Asking EXCEPT ![ch] = @ \ {next}]
      BY <3>2 DEF Asking, Elements
    <3>4. Service!Pass(next, ch)
      BY <2>1, <2>2, <3>1, <3>3 DEF Service!Pass, UnlockHandsOver, Asking
    <3> QED
      BY <3>1, <3>4 DEF Service!Next, Queue
  <2>3. CASE UnlockFrees(ch)
    <3>1. Asking' = Asking
      BY <2>3 DEF UnlockFrees, Asking, Elements
    <3>2. Asking[ch] = {}
      BY <2>3, ElementsEmpty DEF UnlockFrees, Asking
    <3> QED
      BY <2>1, <2>3, <3>1, <3>2 DEF Service!Free, Service!Next, UnlockFrees, Asking
  <2> QED
    BY <1>3, <2>2, <2>3 DEF Unlock
<1>4. ASSUME Flush PROVE Service!Next
  <2>1. \A ch \in Channel : lockers'[ch] = <<>>
    BY <1>4 DEF Flush, FreedIsEmpty
  <2>2. Asking' = [ch \in Channel |-> {}]
    BY <2>1, ElementsEmpty DEF Asking, Elements
  <2> QED
    BY <1>4, <2>2 DEF Flush, Service!Abandon, Service!Next, Asking
<1>5. ASSUME NEW c \in Client, Lose(c) PROVE UNCHANGED <<holder, Asking>>
  BY <1>5 DEF Lose, chanVars, Asking, Elements
<1>6. ASSUME UNCHANGED vars PROVE UNCHANGED <<holder, Asking>>
  BY <1>6 DEF vars, chanVars, Asking, Elements
<1> QED
  BY <1>1, <1>2, <1>3, <1>4, <1>5, <1>6 DEF Next, Command

(***************************************************************************)
(* Every behaviour of the wait channels is one of the abstract lock        *)
(* service, with the history variable holder as the owner.                 *)
(***************************************************************************)
THEOREM Refinement == Spec => LocksAreALockService
<1>1. Init => Service!Init
  BY ServiceInit
<1>2. IInv /\ [Next]_vars => [Service!Next]_<<holder, Asking>>
  BY ServiceNext
<1>3. Spec => Service!Init /\ [][Service!Next]_<<holder, Asking>>
  BY <1>1, <1>2, Inductive, PTL DEF Spec
<1> QED
  BY <1>3, PTL DEF LocksAreALockService, Service!Spec, Asking
=============================================================================
