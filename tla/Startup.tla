------------------------------ MODULE Startup ------------------------------
(***************************************************************************)
(* Starting the server: UniqueInstance, InitWinsock2, the completion port, *)
(* InitListenSock for port 7099 and then for port 80.  Several processes   *)
(* may be started, and one may die at any point; what a dead process held  *)
(* (handles of the named event, ports) is given back by the system a       *)
(* moment later.                                                           *)
(*                                                                         *)
(* LISTEN_SOCK::Init reads sListenSock of memory that new left as it was,  *)
(* and closes a socket of that number: Leftovers are the listeners whose   *)
(* number the memory may hold.                                             *)
(***************************************************************************)
EXTENDS Integers, FiniteSets

CONSTANTS
  Procs,       \* processes
  Listeners,   \* number of listeners, 2, in the order of their set-up
  Leftovers,   \* listeners whose handle Init may find in fresh memory
  MaxFaults,   \* bound: calls that fail, and crashes
  Nobody       \* no process

ASSUME StartupAssumption ==
  /\ IsFiniteSet(Procs) /\ Nobody \notin Procs
  /\ Listeners \in Nat \ {0} /\ Leftovers \subseteq 1..Listeners
  /\ MaxFaults \in Nat

VARIABLES
  pc,          \* how far each process is
  cur,         \* the listener it is setting up
  lsock,       \* state of the sockets of its listeners
  registered,  \* listeners in its LSock_Array and hEvent_Array
  holders,     \* processes with a handle of the named event
  bound,       \* the process that has each port
  faults       \* how many there have been

uVars == <<pc, cur, lsock, registered, holders, bound, faults>>

Ports == 1..Listeners
Running == {"create", "winsock", "port", "open", "select", "bind", "listen", "posts", "serve"}

StartupInit ==
  /\ pc = [p \in Procs |-> "off"]
  /\ cur = [p \in Procs |-> 1]
  /\ lsock = [p \in Procs |-> [i \in Ports |-> "none"]]
  /\ registered = [p \in Procs |-> {}]
  /\ holders = {}
  /\ bound = [i \in Ports |-> Nobody]
  /\ faults = 0

-----------------------------------------------------------------------------
Goes(p, to) == pc' = [pc EXCEPT ![p] = to]
SocketBecomes(p, state) == lsock' = [lsock EXCEPT ![p][cur[p]] = state]

(* A process returns -1 from main, or dies; the system cleans up later. *)
Fails(p) ==
  /\ faults < MaxFaults /\ faults' = faults + 1
  /\ Goes(p, "dead")
  /\ UNCHANGED <<cur, lsock, registered, holders, bound>>

Start(p) ==
  /\ pc[p] = "off" /\ Goes(p, "unique")
  /\ UNCHANGED <<cur, lsock, registered, holders, bound, faults>>

SystemCleansUp(p) ==
  /\ pc[p] = "dead" /\ Goes(p, "off")
  /\ cur' = [cur EXCEPT ![p] = 1]
  /\ lsock' = [lsock EXCEPT ![p] = [i \in Ports |-> "none"]]
  /\ registered' = [registered EXCEPT ![p] = {}]
  /\ holders' = holders \ {p}
  /\ bound' = [i \in Ports |-> IF bound[i] = p THEN Nobody ELSE bound[i]]
  /\ UNCHANGED faults

-----------------------------------------------------------------------------
(* UniqueInstance. *)

(* OpenEvent that is asked after the event has been made. *)
OpenEventLate(p) ==
  /\ pc[p] = "unique"
  /\ holders' = holders \cup {p}
  /\ Goes(p, "dead")
  /\ UNCHANGED <<cur, lsock, registered, bound, faults>>

(* OpenEvent: there is such an event, and the process ends ... *)
OpenEvent(p) ==
  /\ pc[p] = "unique"
  /\ IF holders # {} THEN Goes(p, "dead") /\ holders' = holders \cup {p}
                     ELSE Goes(p, "create") /\ UNCHANGED holders
  /\ UNCHANGED <<cur, lsock, registered, bound, faults>>

(* ... or CreateEvent makes it, or opens the one that was made meanwhile. *)
CreateEvent(p) ==
  /\ pc[p] = "create" /\ Goes(p, "winsock")
  /\ holders' = holders \cup {p}
  /\ UNCHANGED <<cur, lsock, registered, bound, faults>>

(* WSAStartup, the extension functions. *)
InitWinsock2(p) ==
  /\ pc[p] = "winsock" /\ Goes(p, "port")
  /\ UNCHANGED <<cur, lsock, registered, holders, bound, faults>>

(* InitMemory, the completion port, the worker threads. *)
CreatePortAndWorkers(p) ==
  /\ pc[p] = "port" /\ Goes(p, "open")
  /\ UNCHANGED <<cur, lsock, registered, holders, bound, faults>>

-----------------------------------------------------------------------------
(* InitListenSock, and main around it. *)

(* Init with what was in the memory, which closes the socket of that number
   if it is still the listener's; a socket on the completion port; the
   entries of LSock_Array and hEvent_Array. *)
RegisterListener(p) ==
  /\ pc[p] = "open" /\ Goes(p, "select")
  /\ registered' = [registered EXCEPT ![p] = @ \cup {cur[p]}]
  /\ \E old \in {0} \cup { i \in Leftovers \cap registered[p] : lsock[p][i] = "listening" } :
       /\ lsock' = [lsock EXCEPT ![p] =
            [i \in Ports |-> IF i = cur[p] THEN "open"
                             ELSE IF i = old THEN "taken" ELSE @[i]]]
       /\ bound' = [i \in Ports |-> IF i = old THEN Nobody ELSE bound[i]]
  /\ UNCHANGED <<cur, holders, faults>>

(* WSAEventSelect. *)
EventSelect(p) ==
  /\ pc[p] = "select" /\ Goes(p, "bind")
  /\ UNCHANGED <<cur, lsock, registered, holders, bound, faults>>

(* bind whose failure is taken for success. *)
BindUnchecked(p) ==
  /\ pc[p] = "bind" /\ Goes(p, "listen")
  /\ bound' = [bound EXCEPT ![cur[p]] = IF @ = Nobody THEN p ELSE @]
  /\ SocketBecomes(p, "bound")
  /\ UNCHANGED <<cur, registered, holders, faults>>

(* bind fails for a port that another process has, and the process ends. *)
Bind(p) ==
  /\ pc[p] = "bind"
  /\ IF bound[cur[p]] = Nobody
     THEN /\ bound' = [bound EXCEPT ![cur[p]] = p]
          /\ SocketBecomes(p, "bound")
          /\ Goes(p, "listen")
     ELSE /\ SocketBecomes(p, "none")
          /\ Goes(p, "dead")
          /\ UNCHANGED bound
  /\ UNCHANGED <<cur, registered, holders, faults>>

Listen(p) ==
  /\ pc[p] = "listen" /\ Goes(p, "posts")
  /\ SocketBecomes(p, "listening")
  /\ UNCHANGED <<cur, registered, holders, bound, faults>>

(* A failed call after which main goes on with the next listener. *)
InitListenSockFailsSoftly(p) ==
  /\ pc[p] \in {"open", "select", "bind", "listen"}
  /\ faults < MaxFaults /\ faults' = faults + 1
  /\ SocketBecomes(p, "none")
  /\ Goes(p, "posts")
  /\ UNCHANGED <<cur, registered, holders, bound>>

(* A call of InitListenSock fails: the socket is closed, the LISTEN_SOCK
   deleted, though it may be registered, and main returns. *)
InitListenSockFails(p) ==
  /\ pc[p] \in {"open", "select", "bind", "listen"}
  /\ faults < MaxFaults /\ faults' = faults + 1
  /\ SocketBecomes(p, "none")
  /\ Goes(p, "dead")
  /\ UNCHANGED <<cur, registered, holders, bound>>

(* The first AcceptEx calls; then the next listener, or main's loop. *)
FirstPosts(p) ==
  /\ pc[p] = "posts"
  /\ IF cur[p] < Listeners THEN Goes(p, "open") /\ cur' = [cur EXCEPT ![p] = @ + 1]
                           ELSE Goes(p, "serve") /\ UNCHANGED cur
  /\ UNCHANGED <<lsock, registered, holders, bound, faults>>

-----------------------------------------------------------------------------
StartupStep(p) ==
  \/ OpenEvent(p) \/ CreateEvent(p) \/ InitWinsock2(p) \/ CreatePortAndWorkers(p)
  \/ RegisterListener(p) \/ EventSelect(p) \/ Bind(p) \/ Listen(p)
  \/ FirstPosts(p) \/ SystemCleansUp(p)

StartupNext ==
  \E p \in Procs :
    \/ Start(p) \/ StartupStep(p) \/ InitListenSockFails(p)
    \/ pc[p] \in Running /\ Fails(p)

StartupSpec == StartupInit /\ [][StartupNext]_uVars

(* A process that has been started runs. *)
StartupFairSpec == StartupSpec /\ \A p \in Procs : WF_uVars(StartupStep(p))

-----------------------------------------------------------------------------
(* Init took the number of a socket of p's for its own. *)
Robbed(p) == \E i \in Ports : lsock[p][i] = "taken"

(* main waits for the events of registered listeners and posts AcceptEx on
   their sockets: in its loop each of them is listening and has its port,
   although a listener is registered before most of the calls that may fail.
   The one exception is a listener whose socket the next LISTEN_SOCK::Init
   closed. *)
ServingListens ==
  \A p \in Procs : pc[p] = "serve" =>
    /\ registered[p] = Ports
    /\ \A i \in Ports : lsock[p][i] = "taken" \/ (lsock[p][i] = "listening" /\ bound[i] = p)

(* One server at a time: two processes may both get past UniqueInstance, but
   the first port is set up first by all of them, so that one of them ends;
   unless its socket was closed by Init, and the port is free again. *)
OneServer ==
  \A p, q \in Procs : pc[p] = "serve" /\ pc[q] = "serve" =>
    p = q \/ Robbed(p) \/ Robbed(q)

(* Processes that are started together do not all give way to each other:
   unless a call fails, or one of them dies, one of them serves in the end. *)
SomebodyServes ==
  (\E p \in Procs : pc[p] \notin {"off", "dead"})
    ~> (faults > 0 \/ \E p \in Procs : pc[p] = "serve")
=============================================================================
