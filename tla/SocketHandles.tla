--------------------------- MODULE SocketHandles ---------------------------
(***************************************************************************)
(* Socket handles are numbers the kernel uses again.  A RECV_SOCK's handle *)
(* is read, used, closed and set to INVALID_SOCKET by several threads, and *)
(* none of these is atomic with the next: main's sweep, the worker of the  *)
(* receive chain (GetCmdDataLength closes the socket of a damaged stream), *)
(* the worker that sends a reply, and the one that frees the RECV_SOCK.    *)
(* In between, main may open a socket for another connection and get the   *)
(* number that was just given back.  And CheckNCData, on a request with    *)
(* more bytes than its header says, closes whatever handle has the number  *)
(* of bytes received.                                                      *)
(*                                                                         *)
(* A connection here is a RECV_SOCK; a BUFFER_SOCK of the API listener,    *)
(* whose handles come from the same numbers, is one that never gets a      *)
(* command or a damaged frame.                                             *)
(***************************************************************************)
EXTENDS Integers, FiniteSets

CONSTANTS
  Conns,           \* addresses of RECV_SOCK
  Handles,         \* handle values
  INVALID_SOCKET,
  Main,            \* the main thread
  Overlong         \* do API clients send more than the header announces?

ASSUME HandleAssumption ==
  /\ IsFiniteSet(Conns) /\ IsFiniteSet(Handles)
  /\ INVALID_SOCKET \notin Handles \cup Conns
  /\ Main \notin Conns \X {"rx", "tx"}
  /\ Overlong \in BOOLEAN

\* A connection has a receive chain and, while a command is under way, a
\* second worker that replies.
Workers == Conns \X {"rx", "tx"}
Threads == Workers \cup {Main}

VARIABLES
  phase,    \* of a RECV_SOCK: "free", "accept", "session"
  sock,     \* its handle
  nRef,     \* its reference count
  owner,    \* whose socket a handle is: its RECV_SOCK, or INVALID_SOCKET
  thr,      \* each thread: where it is, and the handle it has read
  swept,    \* the RECV_SOCK main's sweep is at
  hurt      \* history: the RECV_SOCKs that an early close, an API request or
            \* a thread of another such RECV_SOCK has harmed since the accept

hVars == <<phase, sock, nRef, owner, thr, swept, hurt>>

At(pc) == [pc |-> pc, h |-> INVALID_SOCKET]
Goes(t, pc) == thr' = [thr EXCEPT ![t] = At(pc)]

\* Steps that leave the phase and the references alone.
Held == <<phase, nRef>>

HandleInit ==
  /\ phase = [c \in Conns |-> "free"]
  /\ sock = [c \in Conns |-> INVALID_SOCKET]
  /\ nRef = [c \in Conns |-> 0]
  /\ owner = [h \in Handles |-> INVALID_SOCKET]
  /\ thr = [t \in Threads |-> At("idle")]
  /\ swept \in Conns
  /\ hurt = {}

-----------------------------------------------------------------------------
(* closesocket of whatever handle was read, and the write that follows it. *)

(* The thread has the handle of connection c in a register. *)
Reads(t, c, pc) == thr' = [thr EXCEPT ![t] = [pc |-> pc, h |-> sock[c]]]

Closes(t, pc) ==
  /\ owner' = [h \in Handles |-> IF h = thr[t].h THEN INVALID_SOCKET ELSE owner[h]]
  /\ Goes(t, pc)

Invalidates(t, c, pc) ==
  /\ sock' = [sock EXCEPT ![c] = INVALID_SOCKET]
  /\ Goes(t, pc)

-----------------------------------------------------------------------------
(* The main thread. *)

(* Client_PostAcceptEx: Init, which closes a handle that is still there,
   socket, InsertIntoPendingMap, AcceptEx. *)
Client_PostAcceptEx(c, h) ==
  /\ thr[Main].pc = "idle" /\ phase[c] = "free"
  /\ owner[h] = INVALID_SOCKET \/ h = sock[c]
  /\ phase' = [phase EXCEPT ![c] = "accept"]
  /\ nRef' = [nRef EXCEPT ![c] = 1]
  /\ sock' = [sock EXCEPT ![c] = h]
  /\ owner' = [g \in Handles |-> IF g = h THEN c
                                 ELSE IF g = sock[c] THEN INVALID_SOCKET ELSE owner[g]]
  /\ UNCHANGED <<thr, swept>>

(* The sweep: getsockopt on the handle of a silent connection of the map; *)
SweepFinds(c) ==
  /\ thr[Main].pc = "idle"
  /\ phase[c] = "accept" /\ sock[c] # INVALID_SOCKET
  /\ swept' = c
  /\ Goes(Main, "found")
  /\ UNCHANGED <<Held, sock, owner>>

(* closesocket on the handle it has by then; the handle is invalidated. *)
SweepReads ==
  /\ thr[Main].pc = "found" /\ Reads(Main, swept, "close")
  /\ UNCHANGED <<Held, sock, owner, swept>>

SweepCloses ==
  /\ thr[Main].pc = "close" /\ Closes(Main, "write")
  /\ UNCHANGED <<Held, sock, swept>>

SweepInvalidates ==
  /\ thr[Main].pc = "write" /\ Invalidates(Main, swept, "idle")
  /\ UNCHANGED <<Held, owner, swept>>

-----------------------------------------------------------------------------
(* The receive chain. *)

(* The accept completes with data: the entry leaves the map. *)
AcceptCompletionSuccess(c) ==
  /\ phase[c] = "accept" /\ thr[<<c, "rx">>].pc = "idle"
  /\ phase' = [phase EXCEPT ![c] = "session"]
  /\ Goes(<<c, "rx">>, "run")
  /\ UNCHANGED <<sock, nRef, owner, swept>>

(* It fails: straight to CMCloseSocket. *)
AcceptCompletionFailed(c) ==
  /\ phase[c] = "accept" /\ thr[<<c, "rx">>].pc = "idle"
  /\ phase' = [phase EXCEPT ![c] = "session"]
  /\ Goes(<<c, "rx">>, "test")
  /\ UNCHANGED <<sock, nRef, owner, swept>>

(* A frame: AddRef, and a command for another worker. *)
PostCommand(c) ==
  /\ thr[<<c, "rx">>].pc = "run" /\ thr[<<c, "tx">>].pc = "idle"
  /\ nRef' = [nRef EXCEPT ![c] = @ + 1]
  /\ Goes(<<c, "tx">>, "run")
  /\ UNCHANGED <<phase, sock, owner, swept>>

(* GetCmdDataLength finds a damaged frame: closesocket(sock), and
   sock = INVALID_SOCKET. *)
ParserReads(c) ==
  /\ thr[<<c, "rx">>].pc = "run" /\ Reads(<<c, "rx">>, c, "damaged")
  /\ UNCHANGED <<Held, sock, owner, swept>>

ParserCloses(c) ==
  /\ thr[<<c, "rx">>].pc = "damaged" /\ Closes(<<c, "rx">>, "mark")
  /\ UNCHANGED <<Held, sock, swept>>

ParserInvalidates(c) ==
  /\ thr[<<c, "rx">>].pc = "mark" /\ Invalidates(<<c, "rx">>, c, "run")
  /\ UNCHANGED <<Held, owner, swept>>

-----------------------------------------------------------------------------
(* WSARecv and WSASend: the handle is read, ... *)
PostReads(t) ==
  /\ thr[t].pc = "run" /\ Reads(t, t[1], "use")
  /\ UNCHANGED <<Held, sock, owner, swept>>

(* ... and works if a socket has that number: the operation is posted ... *)
Posts(t) ==
  /\ thr[t].pc = "use" /\ thr[t].h # INVALID_SOCKET
  /\ owner[thr[t].h] # INVALID_SOCKET
  /\ Goes(t, "posted")
  /\ UNCHANGED <<Held, sock, owner, swept>>

(* ... or fails. *)
PostFails(t) ==
  /\ thr[t].pc = "use" /\ Goes(t, "drop")
  /\ UNCHANGED <<Held, sock, owner, swept>>

(* It completes: the handler runs, or ends the chain. *)
Completes(t) ==
  /\ thr[t].pc = "posted"
  /\ \E pc \in {"run", "drop"} : Goes(t, pc)
  /\ UNCHANGED <<Held, sock, owner, swept>>

(* DropRef that closes the socket of a connection others still use. *)
DropRefCloses(t) ==
  LET c == t[1] IN
  /\ thr[t].pc = "drop"
  /\ nRef' = [nRef EXCEPT ![c] = @ - 1]
  /\ Goes(t, "test")
  /\ UNCHANGED <<phase, sock, owner, swept>>

(* InterlockedDecrement: the last one closes and frees. *)
DropRef(t) ==
  LET c == t[1] IN
  /\ thr[t].pc = "drop"
  /\ nRef' = [nRef EXCEPT ![c] = @ - 1]
  /\ Goes(t, IF nRef[c] = 1 THEN "test" ELSE "idle")
  /\ UNCHANGED <<phase, sock, owner, swept>>

(* CMCloseSocket: the test, closesocket and the write; CMTests that frees
   without asking ... *)
CMTestsNot(t) ==
  /\ thr[t].pc = "test"
  /\ Goes(t, "free")
  /\ UNCHANGED <<Held, sock, owner, swept>>

CMTests(t) ==
  /\ thr[t].pc = "test"
  /\ IF sock[t[1]] = INVALID_SOCKET THEN Goes(t, "free") ELSE Reads(t, t[1], "close")
  /\ UNCHANGED <<Held, sock, owner, swept>>

CMCloses(t) ==
  /\ thr[t].pc = "close" /\ Closes(t, "write")
  /\ UNCHANGED <<Held, sock, swept>>

(* ... and CMInvalidates forgotten. *)
CMInvalidatesNot(t) ==
  /\ thr[t].pc = "write" /\ Goes(t, "free")
  /\ UNCHANGED <<Held, sock, owner, swept>>

CMInvalidates(t) ==
  /\ thr[t].pc = "write" /\ Invalidates(t, t[1], "free")
  /\ UNCHANGED <<Held, owner, swept>>

freeRSock(t) ==
  /\ thr[t].pc = "free"
  /\ phase' = [phase EXCEPT ![t[1]] = "free"]
  /\ Goes(t, "idle")
  /\ UNCHANGED <<sock, nRef, owner, swept>>

-----------------------------------------------------------------------------
(* CheckNCData closes the BUFFER_OBJ instead of the BUFFER_SOCK: CMCloseSocket
   takes the byte count in its first field for a handle. *)
CloseByCount(h) ==
  /\ Overlong
  /\ owner' = [owner EXCEPT ![h] = INVALID_SOCKET]
  /\ UNCHANGED <<Held, sock, thr, swept>>

-----------------------------------------------------------------------------
Step ==
  \/ \E h \in Handles : CloseByCount(h)
  \/ \E c \in Conns :
       \/ \E h \in Handles : Client_PostAcceptEx(c, h)
       \/ SweepFinds(c)
       \/ AcceptCompletionSuccess(c) \/ AcceptCompletionFailed(c)
       \/ PostCommand(c)
       \/ ParserReads(c) \/ ParserCloses(c) \/ ParserInvalidates(c)
  \/ SweepReads \/ SweepCloses \/ SweepInvalidates
  \/ \E t \in Workers :
       \/ PostReads(t) \/ Posts(t) \/ PostFails(t) \/ Completes(t)
       \/ DropRef(t) \/ CMTests(t) \/ CMCloses(t) \/ CMInvalidates(t)
       \/ freeRSock(t)

(* Workers inside a handler of c, other than the parser itself. *)
Busy(c) ==
  { t \in {<<c, "rx">>, <<c, "tx">>} :
      thr[t].pc \notin {"idle", "posted", "damaged", "mark"} }

(* The two early closes, the sweep's and the parser's, do not look at the
   reference count: does one overlap with a worker's handler of c? *)
OverlapAt(c) ==
  \/ thr[Main].pc # "idle" /\ swept = c /\ phase[c] # "accept"
  \/ thr[<<c, "rx">>].pc \in {"damaged", "mark"} /\ Busy(c) # {}

Conn(t) == IF t = Main THEN swept ELSE t[1]

(* Who loses a socket in a step that no thread of a sound connection takes:
   a thread of a harmed one, or CheckNCData. *)
Robbed ==
  { c \in Conns :
      /\ phase' = phase
      /\ \A t \in Threads : thr'[t] # thr[t] => Conn(t) \in hurt
      /\ \E h \in Handles : owner[h] = c /\ owner'[h] # c }

(* A RECV_SOCK is sound again when it is used for the next connection. *)
Harms ==
  hurt' = { c \in Conns : \/ c \in hurt /\ (phase[c] = "free" => phase'[c] = "free")
                         \/ c \in Robbed
                         \/ OverlapAt(c)' }

HandleNext == Step /\ Harms

HandleSpec == HandleInit /\ [][HandleNext]_hVars

-----------------------------------------------------------------------------
(* A handle that a thread is about to use or close is never the socket of
   another connection, though numbers are used again at once, unless the
   thread's own connection was harmed before: by an early close (the sweep's,
   the parser's) that overlapped with one of its handlers, by CheckNCData's
   close, or by a thread of another harmed connection. Damage starts nowhere
   else: for a sound connection the reference count, and main being the only
   one to open sockets, keep the reading of a handle and its use together. *)
HandleStaysOurs ==
  \A t \in Threads :
    LET h == thr[t].h IN
    h # INVALID_SOCKET /\ Conn(t) \notin hurt => owner[h] \in {Conn(t), INVALID_SOCKET}

(* Nobody takes a sound connection's socket away: its handle stands for its
   own open socket until one of its own threads closes it, whatever the
   threads of the other sound connections do. A handle left in a freed
   RECV_SOCK would be closed by Init, when the number may already be another
   connection's. *)
SocketStaysOpen ==
  \A c \in Conns : c \notin hurt /\ phase[c] # "free" /\ sock[c] # INVALID_SOCKET =>
    \/ owner[sock[c]] = c
    \/ \E t \in Threads : Conn(t) = c /\ thr[t].pc \in {"write", "mark"}

(* Whatever overlaps, no open socket is lost: the connection it was opened
   for is in use and still holds its handle, so somebody will close it. *)
NoSocketLost ==
  \A h \in Handles : owner[h] # INVALID_SOCKET =>
    sock[owner[h]] = h /\ phase[owner[h]] # "free"

(* What goes down goes to the client that asked: the handle that a worker
   sends a reply on, or receives on, is not another connection's socket. The
   parser's early close refutes it, with no API request about: it closes the
   socket while the other worker has read the handle, or reads it before it is
   overwritten, and the next connection gets the number. *)
ReplyGoesHome ==
  \A t \in Workers :
    LET h == thr[t].h IN
    thr[t].pc = "use" /\ h # INVALID_SOCKET => owner[h] \in {t[1], INVALID_SOCKET}
=============================================================================
