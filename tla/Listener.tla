------------------------------ MODULE Listener ------------------------------
(***************************************************************************)
(* Accepting connections: the main thread, the listeners it serves one     *)
(* after the other, and the map of posted AcceptEx calls, which the        *)
(* workers shrink while main fills and sweeps it.                          *)
(*                                                                         *)
(* An AcceptEx call completes with the first data of its client, so a      *)
(* connection is "pending" (no client yet), then "connected" (a client     *)
(* that is silent), then its packet is "ready" or "failed".  A client that *)
(* finds no pending call waits in the backlog; this is what FD_ACCEPT      *)
(* reports.  As Winsock has it, the event is set once, and reporting is    *)
(* enabled again by the next AcceptEx, which sets the event at once if     *)
(* clients are still waiting.                                              *)
(***************************************************************************)
EXTENDS Integers, FiniteSets

CONSTANTS
  Listeners,    \* their number, g_dwListenCount
  Conns,        \* addresses of RECV_SOCK or BUFFER_SOCK, seen as KEY_VALUE
  Keys,         \* values of GetRand
  Batch,        \* AcceptEx calls per wake-up, 10
  SweepLimit,   \* size of the pending map that starts a sweep, 100
  MaxClients,   \* bound: clients that ever connect
  MaxFaults,    \* bound: calls that fail
  None          \* NULL

ASSUME ListenerAssumption ==
  /\ Listeners \in Nat \ {0} /\ Batch \in Nat \ {0} /\ SweepLimit \in Nat
  /\ MaxClients \in Nat /\ MaxFaults \in Nat
  /\ IsFiniteSet(Conns) /\ IsFiniteSet(Keys) /\ Keys # {}
  /\ None \notin Conns

L == 1..Listeners

VARIABLES
  at,                \* what each connection is doing
  of,                \* the listener it was posted for
  nKey,              \* its key
  acceptPendingMap,  \* for each listener, the entry of each key
  backlog,           \* clients waiting at each listener
  event,             \* hPostAcceptexEvent of each listener
  enabled,           \* does FD_ACCEPT set the event?
  main,              \* the main thread: pc, nIndex, i, connection at hand
  toVisit,           \* keys the sweep has still to visit
  clients, faults,   \* how many there have been
  clashed            \* history: connections that shared their key

lVars == <<at, of, nKey, acceptPendingMap, backlog, event, enabled, main,
           toVisit, clients, faults, clashed>>

netVars == <<backlog, event, enabled, clients>>
mapVars == <<of, nKey, acceptPendingMap, clashed>>

\* Between InsertIntoPendingMap and DeleteFromPendingMap.
Posted == {"posting", "pending", "connected", "ready", "failed"}
PCs == {"wait", "scan", "reset", "post", "accept", "visit", "ask", "close", "exit"}

ListenerInit ==
  /\ at = [c \in Conns |-> "free"]
  /\ of = [c \in Conns |-> 1]
  /\ nKey = [c \in Conns |-> CHOOSE k \in Keys : TRUE]
  /\ acceptPendingMap = [l \in L |-> [k \in Keys |-> None]]
  /\ backlog = [l \in L |-> 0]
  /\ event = [l \in L |-> FALSE]
  /\ enabled = [l \in L |-> TRUE]
  /\ main = [pc |-> "post", boot |-> TRUE, nIndex |-> 1, i |-> 0, c |-> None]
  /\ toVisit = {}
  /\ clients = 0 /\ faults = 0
  /\ clashed = {}

-----------------------------------------------------------------------------
(* The pending map. An accessor locks its entry, so both are one step. *)

(* The entry is made before the connection has its new key. *)
InsertIntoPendingMapEarly(l, c, k) ==
  acceptPendingMap' = [acceptPendingMap EXCEPT ![l][nKey[c]] = c]

(* insert finds or makes the entry of the key; either way it is set. *)
InsertIntoPendingMap(l, c, k) ==
  acceptPendingMap' = [acceptPendingMap EXCEPT ![l][k] = c]

(* Whatever entry is under the key goes. *)
DeleteFromPendingMap(c) ==
  acceptPendingMap' = [acceptPendingMap EXCEPT ![of[c]][nKey[c]] = None]

EntryKeys(l) == { k \in Keys : acceptPendingMap[l][k] # None }

-----------------------------------------------------------------------------
(* Winsock and the clients. *)

(* main initialises and fills one listener after the other. *)
Listening(l) == ~main.boot \/ l <= main.nIndex

(* A client connects: a pending AcceptEx takes it, or it waits. *)
ClientConnects(l) ==
  /\ main.pc # "exit" /\ Listening(l) /\ clients < MaxClients
  /\ clients' = clients + 1
  /\ IF \E c \in Conns : at[c] = "pending" /\ of[c] = l
     THEN /\ \E c \in Conns :
               /\ at[c] = "pending" /\ of[c] = l
               /\ at' = [at EXCEPT ![c] = "connected"]
          /\ UNCHANGED <<backlog, event, enabled>>
     ELSE /\ backlog' = [backlog EXCEPT ![l] = @ + 1]
          /\ event' = [event EXCEPT ![l] = @ \/ enabled[l]]
          /\ enabled' = [enabled EXCEPT ![l] = FALSE]
          /\ UNCHANGED at
  /\ UNCHANGED <<mapVars, main, toVisit, faults>>

(* It sends its first bytes, or goes away. *)
ClientActs(c) ==
  /\ main.pc # "exit" /\ at[c] = "connected"
  /\ \E outcome \in {"ready", "failed"} : at' = [at EXCEPT ![c] = outcome]
  /\ UNCHANGED <<mapVars, netVars, main, toVisit, faults>>

-----------------------------------------------------------------------------
(* The workers. *)

(* The packet of the accept: the entry goes, and a session begins. *)
AcceptCompletionSuccess(c) ==
  /\ main.pc # "exit" /\ at[c] = "ready"
  /\ DeleteFromPendingMap(c)
  /\ at' = [at EXCEPT ![c] = "session"]
  /\ UNCHANGED <<of, nKey, clashed, netVars, main, toVisit, faults>>

(* AcceptCompletionFailed that leaves the entry in the map. *)
AcceptCompletionFailedLeavesEntry(c) ==
  /\ main.pc # "exit" /\ at[c] = "failed"
  /\ at' = [at EXCEPT ![c] = "free"]
  /\ UNCHANGED <<mapVars, netVars, main, toVisit, faults>>

(* The accept failed, or brought no bytes: nothing is kept. *)
AcceptCompletionFailed(c) ==
  /\ main.pc # "exit" /\ at[c] = "failed"
  /\ DeleteFromPendingMap(c)
  /\ at' = [at EXCEPT ![c] = "free"]
  /\ UNCHANGED <<of, nKey, clashed, netVars, main, toVisit, faults>>

(* The session, a matter of ClientSession and NcSession, ends. *)
SessionEnds(c) ==
  /\ main.pc # "exit" /\ at[c] = "session"
  /\ at' = [at EXCEPT ![c] = "free"]
  /\ UNCHANGED <<mapVars, netVars, main, toVisit, faults>>

-----------------------------------------------------------------------------
(* The main thread. *)

MainGoes(pc) == main' = [main EXCEPT !.pc = pc]

(* One event is enough to wake main; every listener is then looked at. *)
WaitForMultipleEvents ==
  /\ main.pc = "wait" /\ \E l \in L : event[l]
  /\ main' = [main EXCEPT !.pc = "scan", !.nIndex = 1]
  /\ UNCHANGED <<at, mapVars, netVars, toVisit, faults>>

(* On to the next listener, or to the next wait. *)
NextListener ==
  main' = [main EXCEPT !.pc = IF main.nIndex = Listeners THEN "wait"
                              ELSE IF main.boot THEN "post" ELSE "scan",
                       !.nIndex = IF @ = Listeners THEN @ ELSE @ + 1,
                       !.boot = @ /\ main.nIndex # Listeners,
                       !.i = 0]

WaitForSingleObject ==
  /\ main.pc = "scan"
  /\ IF event[main.nIndex] THEN MainGoes("reset") ELSE NextListener
  /\ UNCHANGED <<at, mapVars, netVars, toVisit, faults>>

(* Either wait fails: the process ends. *)
WaitFailed ==
  /\ main.pc \in {"wait", "scan"} /\ faults < MaxFaults
  /\ MainGoes("exit")
  /\ faults' = faults + 1
  /\ UNCHANGED <<at, mapVars, netVars, toVisit>>

(* WSAResetEvent forgotten. *)
ResetEventForgotten ==
  /\ main.pc = "reset"
  /\ MainGoes("post")
  /\ UNCHANGED <<at, mapVars, netVars, toVisit, faults>>

ResetEvent ==
  /\ main.pc = "reset"
  /\ event' = [event EXCEPT ![main.nIndex] = FALSE]
  /\ MainGoes("post")
  /\ UNCHANGED <<at, mapVars, backlog, enabled, clients, toVisit, faults>>

(* fpAcceptex up to InsertIntoPendingMap: objects, a socket, a key. *)
PostAcceptEx(c, k) ==
  LET l == main.nIndex
      Same == { d \in Conns : at[d] \in Posted /\ of[d] = l /\ nKey[d] = k }
  IN  /\ main.pc = "post" /\ main.i < Batch
      /\ at[c] = "free"
      /\ at' = [at EXCEPT ![c] = "posting"]
      /\ of' = [of EXCEPT ![c] = l]
      /\ nKey' = [nKey EXCEPT ![c] = k]
      /\ InsertIntoPendingMap(l, c, k)
      /\ main' = [main EXCEPT !.pc = "accept", !.c = c]
      /\ clashed' = (clashed \ {c}) \cup Same \cup (IF Same = {} THEN {} ELSE {c})
      /\ UNCHANGED <<netVars, toVisit, faults>>

(* No object or no socket: the call is lost, and the loop goes on. *)
PostAcceptExFails ==
  /\ main.pc = "post" /\ main.i < Batch /\ faults < MaxFaults
  /\ faults' = faults + 1
  /\ main' = [main EXCEPT !.i = @ + 1]
  /\ UNCHANGED <<at, mapVars, netVars, toVisit>>

(* AcceptEx itself: it takes a waiting client, if there is one, and enables
   FD_ACCEPT, which fires at once for the clients still waiting. *)
AcceptEx ==
  LET l == main.nIndex
      waiting == IF backlog[l] > 0 THEN backlog[l] - 1 ELSE 0
  IN  /\ main.pc = "accept"
      /\ at' = [at EXCEPT ![main.c] = IF backlog[l] > 0 THEN "connected" ELSE "pending"]
      /\ backlog' = [backlog EXCEPT ![l] = waiting]
      /\ event' = [event EXCEPT ![l] = @ \/ waiting > 0]
      /\ enabled' = [enabled EXCEPT ![l] = waiting = 0]
      /\ main' = [main EXCEPT !.pc = "post", !.i = @ + 1, !.c = None]
      /\ UNCHANGED <<mapVars, clients, toVisit, faults>>

(* AcceptEx fails, and so does not enable FD_ACCEPT. *)
AcceptExFails ==
  /\ main.pc = "accept" /\ faults < MaxFaults
  /\ faults' = faults + 1
  /\ DeleteFromPendingMap(main.c)
  /\ at' = [at EXCEPT ![main.c] = "free"]
  /\ main' = [main EXCEPT !.pc = "post", !.i = @ + 1, !.c = None]
  /\ UNCHANGED <<of, nKey, clashed, netVars, toVisit>>

(* BatchDone that resets the event after the calls. *)
BatchDoneResets ==
  /\ main.pc = "post" /\ main.i = Batch
  /\ event' = [event EXCEPT ![main.nIndex] = FALSE]
  /\ NextListener
  /\ UNCHANGED <<at, mapVars, backlog, enabled, clients, toVisit, faults>>

(* After the batch: a map that is too large is swept. *)
BatchDone ==
  /\ main.pc = "post" /\ main.i = Batch
  /\ IF ~main.boot /\ Cardinality(EntryKeys(main.nIndex)) > SweepLimit
     THEN MainGoes("visit") /\ toVisit' = EntryKeys(main.nIndex)
     ELSE NextListener /\ UNCHANGED toVisit
  /\ UNCHANGED <<at, mapVars, netVars, faults>>

(* The iterator reaches an entry, unless it has been erased. *)
SweepVisits(k) ==
  LET c == acceptPendingMap[main.nIndex][k] IN
  /\ main.pc = "visit" /\ k \in toVisit
  /\ toVisit' = toVisit \ {k}
  /\ main' = IF c = None THEN main ELSE [main EXCEPT !.pc = "ask", !.c = c]
  /\ UNCHANGED <<at, mapVars, netVars, faults>>

(* SweepAsks without the test for a socket that is not connected. *)
SweepAsksUnconnected ==
  /\ main.pc = "ask"
  /\ \/ main' = [main EXCEPT !.pc = "visit", !.c = None]
     \/ MainGoes("close")
  /\ UNCHANGED <<at, mapVars, netVars, toVisit, faults>>

(* getsockopt says whether the socket has been connected for more than a
   minute; a worker may have finished with the accept, or freed the
   connection and its handle, since the entry was read. *)
SweepAsks ==
  /\ main.pc = "ask"
  /\ \/ main' = [main EXCEPT !.pc = "visit", !.c = None]
     \/ at[main.c] \in {"connected", "ready", "failed", "session"} /\ MainGoes("close")
  /\ UNCHANGED <<at, mapVars, netVars, toVisit, faults>>

(* closesocket: an accept that is still waiting for bytes fails. *)
SweepCloses ==
  /\ main.pc = "close"
  /\ at' = [at EXCEPT ![main.c] = IF @ = "connected" THEN "failed" ELSE @]
  /\ main' = [main EXCEPT !.pc = "visit", !.c = None]
  /\ UNCHANGED <<mapVars, netVars, toVisit, faults>>

SweepDone ==
  /\ main.pc = "visit" /\ toVisit = {}
  /\ NextListener
  /\ UNCHANGED <<at, mapVars, netVars, toVisit, faults>>

-----------------------------------------------------------------------------
Main ==
  \/ WaitForMultipleEvents \/ WaitForSingleObject \/ ResetEvent
  \/ \E c \in Conns, k \in Keys : PostAcceptEx(c, k)
  \/ AcceptEx \/ BatchDone
  \/ \E k \in Keys : SweepVisits(k)
  \/ SweepAsks \/ SweepCloses \/ SweepDone

MainFails == WaitFailed \/ PostAcceptExFails \/ AcceptExFails

Worker(c) ==
  AcceptCompletionSuccess(c) \/ AcceptCompletionFailed(c) \/ SessionEnds(c)

ListenerNext ==
  \/ Main \/ MainFails
  \/ \E c \in Conns : Worker(c) \/ ClientActs(c)
  \/ \E l \in L : ClientConnects(l)

ListenerSpec == ListenerInit /\ [][ListenerNext]_lVars

(* Threads run. That a call fails, what clients do, or that a session ends,
   nobody promises. *)
ListenerFairSpec ==
  /\ ListenerSpec
  /\ WF_lVars(Main)
  /\ \A c \in Conns :
       WF_lVars(AcceptCompletionSuccess(c) \/ AcceptCompletionFailed(c))

-----------------------------------------------------------------------------
(* An entry that the sweep reads is not stale: it is a connection posted for
   this listener whose packet no worker has finished, also when several
   connections drew the same key. It says nothing of the steps after the
   reading, when a worker may free the connection main has in hand. *)
EntriesAreLive ==
  \A l \in L, k \in Keys :
    LET c == acceptPendingMap[l][k] IN
    c # None => at[c] \in Posted /\ of[c] = l /\ nKey[c] = k

(* The sweep can find every connection posted and not yet finished, except
   one that shared its random key with another: InsertIntoPendingMap lets
   the later one replace the earlier, and the first to finish takes the
   entry away for both. *)
SweepFindsAll ==
  \A c \in Conns : at[c] \in Posted \ {"posting"} /\ c \notin clashed =>
    acceptPendingMap[of[c]][nKey[c]] = c

(* Between the reading of the entry, getsockopt and closesocket the workers may
   finish with the connection and free it, but it is never the socket of a new
   AcceptEx that main closes: only main posts, and only when it is not
   sweeping. That a session in progress may be closed it does not exclude. *)
SweepSparesUnconnected ==
  main.pc = "close" => at[main.c] \notin {"posting", "pending"}

(* Connections with an AcceptEx that no client has taken. *)
Unclaimed(l) == { c \in Conns : at[c] = "pending" /\ of[c] = l }

(* main posts a batch only after the calls posted before had run out, or, the
   event having been set again meanwhile, once more: unclaimed AcceptEx
   calls, each of which holds a socket and a buffer, do not pile up. *)
PostsBounded ==
  \A l \in L : Cardinality(Unclaimed(l)) < 2 * Batch

(* A client in the backlog leaves it in the end: as long as no batch can have
   failed entirely, no wake-up is lost between FD_ACCEPT, WSAResetEvent and
   the AcceptEx calls, whenever clients arrive. *)
WaitingIsAccepted ==
  \A l \in L : backlog[l] > 0 ~>
    (backlog[l] = 0 \/ main.pc = "exit" \/ faults >= Batch)

(* Nobody erases the entry main's iterator stands on: what a traversal of
   concurrent_hash_map, not a thread-safe operation, requires. *)
TraversalUndisturbed ==
  main.pc \in {"ask", "close"} => acceptPendingMap[main.nIndex][nKey[main.c]] = main.c
=============================================================================
