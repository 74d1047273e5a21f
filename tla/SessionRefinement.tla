------------------------- MODULE SessionRefinement -------------------------
(***************************************************************************)
(* ClientSession implements the two abstract specifications: the lists     *)
(* that CheckSend and GetNextData share are queues, and nRef with its      *)
(* interlocked steps is ownership.                                         *)
(***************************************************************************)
EXTENDS ClientSession
Sx == INSTANCE SequencesExt

(* push_front and pop_back: the newest reply is first in lstSend. *)
QueueOf == [r \in RSocks |-> Sx!Reverse(lstSend[r])]

(* The reply of r that a WSASend is under way for. *)
InFlight ==
  [r \in RSocks |->
    IF \E b \in BObjs : at[b] = "sending" /\ rel[b] = r
    THEN CHOOSE b \in BObjs : at[b] = "sending" /\ rel[b] = r
    ELSE None]

SQ == INSTANCE SendQueue
        WITH Conns <- RSocks, Items <- BObjs, Nothing <- None,
             queue <- QueueOf, inFlight <- InFlight

SL == INSTANCE SharedLife
        WITH Things <- RSocks, Agents <- Objs \cup Workers,
             alive <- { r \in RSocks : at[r] = "used" },
             owners <- [r \in RSocks |-> Holders(r)]

(* The send lists are queues: whichever workers run CheckSend, the send
   completions and their failures, in whatever order, a connection's replies
   reach WSASend oldest first, one at a time, and none is dropped from the
   list while the system is sending it. *)
ImplementsSendQueue == SQ!QueueSpec

(* The reference count is ownership: every step of every handler either lets
   an owner in through one that is still there, or lets one go, or passes a
   reference on, and a RECV_SOCK is given back exactly when the last owner has
   gone. No step loses two references, and none revives a RECV_SOCK whose
   count has reached 0. *)
ImplementsSharedLife == SL!LifeSpec
=============================================================================
