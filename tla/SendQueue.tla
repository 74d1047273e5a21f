----------------------------- MODULE SendQueue -----------------------------
(***************************************************************************)
(* What a send list promises the peer of a connection: replies leave in    *)
(* the order in which they were put, one at a time, and each stays until   *)
(* the system is done with it.                                             *)
(***************************************************************************)
EXTENDS Sequences

CONSTANTS
  Conns,    \* connections
  Items,    \* replies
  Nothing   \* no reply

VARIABLES
  queue,    \* replies of each connection, oldest first
  inFlight  \* the one the system is sending, or Nothing

QueueInit ==
  /\ queue = [r \in Conns |-> <<>>]
  /\ inFlight = [r \in Conns |-> Nothing]

Put(r, b) ==
  /\ queue' = [queue EXCEPT ![r] = Append(@, b)]
  /\ UNCHANGED inFlight

(* Only the oldest reply is ever handed to the system ... *)
Begin(r) ==
  /\ queue[r] # <<>> /\ inFlight[r] = Nothing
  /\ inFlight' = [inFlight EXCEPT ![r] = Head(queue[r])]
  /\ UNCHANGED queue

(* ... which gives it back, with all, some or none of it sent. *)
End(r) ==
  /\ inFlight[r] # Nothing
  /\ inFlight' = [inFlight EXCEPT ![r] = Nothing]
  /\ UNCHANGED queue

(* A reply leaves the queue while the system does not have it. *)
Remove(r) ==
  /\ queue[r] # <<>> /\ inFlight[r] = Nothing
  /\ queue' = [queue EXCEPT ![r] = Tail(@)]
  /\ UNCHANGED inFlight

QueueNext ==
  \E r \in Conns : Begin(r) \/ End(r) \/ Remove(r) \/ \E b \in Items : Put(r, b)

QueueSpec == QueueInit /\ [][QueueNext]_<<queue, inFlight>>
=============================================================================
