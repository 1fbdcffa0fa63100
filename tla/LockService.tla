---------------------------- MODULE LockService ----------------------------
(***************************************************************************)
(* What wait-for -L and -U promise: a lock for each channel that one queue *)
(* owns at a time and that those who ask for it while it is owned get one  *)
(* after the other.                                                        *)
(***************************************************************************)
CONSTANTS Channel, Client, Global, Nobody

VARIABLES owner,  \* the queue that has the lock, or Nobody
          asking  \* the queues waiting for it

Init ==
  /\ owner = [ch \in Channel |-> Nobody]
  /\ asking = [ch \in Channel |-> {}]

Take(q, ch) ==
  /\ owner[ch] = Nobody
  /\ owner' = [owner EXCEPT ![ch] = q]
  /\ UNCHANGED asking

\* A queue that asks stops, so it does not ask for two locks at once.
Ask(q, ch) ==
  /\ owner[ch] # Nobody
  /\ \A d \in Channel : q \notin asking[d]
  /\ asking' = [asking EXCEPT ![ch] = @ \cup {q}]
  /\ UNCHANGED owner

Pass(q, ch) ==
  /\ owner[ch] # Nobody
  /\ q \in asking[ch]
  /\ owner' = [owner EXCEPT ![ch] = q]
  /\ asking' = [asking EXCEPT ![ch] = @ \ {q}]

Free(ch) ==
  /\ owner[ch] # Nobody
  /\ asking[ch] = {}
  /\ owner' = [owner EXCEPT ![ch] = Nobody]
  /\ UNCHANGED asking

\* The server gives up every lock when its last attached client has gone.
Abandon ==
  /\ owner' = [ch \in Channel |-> Nobody]
  /\ asking' = [ch \in Channel |-> {}]

Next ==
  \/ \E q \in Client \cup {Global}, ch \in Channel :
       Take(q, ch) \/ Ask(q, ch) \/ Pass(q, ch)
  \/ \E ch \in Channel : Free(ch)
  \/ Abandon

Spec == Init /\ [][Next]_<<owner, asking>>
=============================================================================
