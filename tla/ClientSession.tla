--------------------------- MODULE ClientSession ---------------------------
(***************************************************************************)
(* The life of client connections in the worker threads: RECV_SOCK objects *)
(* and their reference count nRef, the RECV_OBJ that carries a connection's *)
(* one receive operation, the BUFFER_OBJs that carry commands and replies, *)
(* the send list, and the object pools of ms_memory.cpp.                   *)
(*                                                                         *)
(* A worker runs one completion handler at a time; wk[w] is its program    *)
(* counter and its locals.  Steps end where another thread can tell the    *)
(* difference: at an interlocked operation, a critical section, a system   *)
(* call that makes an object reachable for others, a write of the socket   *)
(* handle.  What the parser finds in the ring is module FrameParser; here  *)
(* it may find a frame, nothing, or a reason to close.                     *)
(*                                                                         *)
(* The command handlers and DealTail are not part of the sources: the body *)
(* of Client_CmdCompletionSuccess is commented out.  Handlers = {"empty"}  *)
(* is the program as it is; "external" stands for a handler that answers   *)
(* through CheckSend and CLient_PostSend, or gives up through              *)
(* Client_CmdCompletionFailed; with both, some commands have one.          *)
(***************************************************************************)
EXTENDS Integers, Sequences, FiniteSets

CONSTANTS
  RSocks, RObjs, BObjs,     \* addresses of RECV_SOCK, RECV_OBJ, BUFFER_OBJ
  Workers,                  \* worker threads
  RSOCK_SIZE_MAX, ROBJ_SIZE_MAX, BOBJ_SIZE_MAX,   \* pool limits, 500 each
  ReplySize,                \* dwRecvedCount of a reply
  MaxBatch,                 \* bound: frames found by one receive completion
  Handlers,                 \* what a command may meet: "empty", "external"
  None                      \* NULL

ASSUME SessionAssumption ==
  /\ IsFiniteSet(RSocks) /\ IsFiniteSet(RObjs) /\ IsFiniteSet(BObjs)
  /\ IsFiniteSet(Workers)
  /\ RSocks \cap (RObjs \cup BObjs \cup Workers) = {}
  /\ RObjs \cap (BObjs \cup Workers) = {} /\ BObjs \cap Workers = {}
  /\ None \notin RSocks \cup RObjs \cup BObjs \cup Workers
  /\ RSOCK_SIZE_MAX \in Nat \ {0} /\ ROBJ_SIZE_MAX \in Nat \ {0}
  /\ BOBJ_SIZE_MAX \in Nat \ {0}
  /\ ReplySize \in Nat \ {0} /\ MaxBatch \in Nat
  /\ Handlers \subseteq {"empty", "external"}

VARIABLES
  at,          \* where each object is
  rel,         \* pRelateSock of each RECV_OBJ and BUFFER_OBJ in use
  nRef,        \* reference count of each RECV_SOCK
  sock,        \* socket handle of each RECV_SOCK: "open" or "invalid"
  lstSend,     \* replies of each RECV_SOCK, newest first
  left,        \* bytes of each reply that are not sent
  pendingMap,  \* RECV_SOCKs in the listener's acceptPendingMap
  sweep,       \* the entry main's sweep is looking at
  wk           \* the worker threads

vars == <<at, rel, nRef, sock, lstSend, left, pendingMap, sweep, wk>>

Objs == RObjs \cup BObjs

\* An object is on the heap, in its pool, or in use: a RECV_SOCK is "used"; a
\* RECV_OBJ or BUFFER_OBJ is with the kernel ("accept", "zero", "recv",
\* "sending"), on the completion port ("posted"), in a send list behind
\* others ("queued"), in the hands of a worker ("held", and "made" before its
\* packet is posted), or forgotten ("dropped").
Pending == {"accept", "zero", "recv", "sending", "posted", "queued", "made", "dropped"}
Places == {"heap", "pool", "used", "held"} \cup Pending

Idle == [pc |-> "idle", r |-> None, x |-> None, y |-> None, via |-> "none", n |-> 0]

PCs == {"idle", "refuse", "loop", "post", "repost", "drop", "close",
        "freeSock", "freeObj", "cmd", "send", "next", "hand"}

-----------------------------------------------------------------------------
(* ms_memory.cpp: a free object goes to its pool, or to the heap when the
   pool is at its limit; a pool is used up before the heap is. *)
InPool(S) == { x \in S : at[x] = "pool" }
Available(S) == IF InPool(S) # {} THEN InPool(S) ELSE { x \in S : at[x] = "heap" }

PlaceIfFreed(x) ==
  IF x \in RSocks
  THEN IF Cardinality(InPool(RSocks)) < RSOCK_SIZE_MAX THEN "pool" ELSE "heap"
  ELSE IF x \in RObjs
  THEN IF Cardinality(InPool(RObjs)) < ROBJ_SIZE_MAX THEN "pool" ELSE "heap"
  ELSE IF Cardinality(InPool(BObjs)) < BOBJ_SIZE_MAX THEN "pool" ELSE "heap"

(* The worker goes on at pc; other locals stay. *)
GoTo(w, pc) == wk' = [wk EXCEPT ![w].pc = pc]
Return(w) == wk' = [wk EXCEPT ![w] = Idle]

Init ==
  /\ at = [x \in RSocks \cup Objs |-> "heap"]
  /\ rel = [x \in Objs |-> None]
  /\ nRef = [r \in RSocks |-> 0]
  /\ sock = [r \in RSocks |-> "invalid"]
  /\ lstSend = [r \in RSocks |-> <<>>]
  /\ left = [b \in BObjs |-> 0]
  /\ pendingMap = {}
  /\ sweep = None
  /\ wk = [w \in Workers |-> Idle]

-----------------------------------------------------------------------------
(* The main thread: nobody else reaches the two objects before AcceptEx has
   been called, so Client_PostAcceptEx is one step for each outcome. *)

(* allocRObj, allocRSock with Init, socket, InsertIntoPendingMap, AcceptEx. *)
Client_PostAcceptEx(r, o) ==
  /\ sweep = None
  /\ r \in Available(RSocks) /\ o \in Available(RObjs)
  /\ at' = [at EXCEPT ![r] = "used", ![o] = "accept"]
  /\ rel' = [rel EXCEPT ![o] = r]
  /\ nRef' = [nRef EXCEPT ![r] = 1]
  /\ sock' = [sock EXCEPT ![r] = "open"]
  /\ lstSend' = [lstSend EXCEPT ![r] = <<>>]
  /\ pendingMap' = pendingMap \cup {r}
  /\ UNCHANGED <<left, sweep, wk>>

(* socket or AcceptEx fails: whatever was done is undone. *)
PostAcceptExFails(r, o) ==
  /\ sweep = None
  /\ r \in Available(RSocks) /\ o \in Available(RObjs)
  /\ at' = [at EXCEPT ![r] = "pool", ![o] = "pool"]
  /\ nRef' = [nRef EXCEPT ![r] = 1]
  /\ sock' = [sock EXCEPT ![r] = "invalid"]
  /\ lstSend' = [lstSend EXCEPT ![r] = <<>>]
  /\ UNCHANGED <<rel, left, pendingMap, sweep, wk>>

(* main's sweep finds a connection that has been silent for a minute ... *)
SweepFinds(r) ==
  /\ sweep = None
  /\ r \in pendingMap /\ sock[r] = "open"
  /\ sweep' = r
  /\ UNCHANGED <<at, rel, nRef, sock, lstSend, left, pendingMap, wk>>

(* ... and closes its socket, whatever the workers did in between. *)
SweepCloses ==
  /\ sweep # None
  /\ sock' = [sock EXCEPT ![sweep] = "invalid"]
  /\ sweep' = None
  /\ UNCHANGED <<at, rel, nRef, lstSend, left, pendingMap, wk>>

-----------------------------------------------------------------------------
(* Accepting. *)

(* AcceptEx completes with data and the socket joins the completion port. *)
Client_AcceptCompletionSuccess(w, o) ==
  /\ wk[w] = Idle /\ at[o] = "accept"
  /\ at' = [at EXCEPT ![o] = "held"]
  /\ pendingMap' = pendingMap \ {rel[o]}
  /\ wk' = [wk EXCEPT ![w] = [Idle EXCEPT !.pc = "loop", !.r = rel[o], !.x = o,
                                          !.via = "accept"]]
  /\ UNCHANGED <<rel, nRef, sock, lstSend, left, sweep>>

(* AcceptEx fails or brings nothing, or the completion port refuses. *)
Client_AcceptCompletionFailed(w, o) ==
  /\ wk[w] = Idle /\ at[o] = "accept"
  /\ at' = [at EXCEPT ![o] = "held"]
  /\ pendingMap' = pendingMap \ {rel[o]}
  /\ sock' = [sock EXCEPT ![rel[o]] = "invalid"]
  /\ wk' = [wk EXCEPT ![w] = [Idle EXCEPT !.pc = "refuse", !.r = rel[o], !.x = o]]
  /\ UNCHANGED <<rel, nRef, lstSend, left, sweep>>

(* freeRObj and freeRSock: the reference count is not asked here. *)
RefuseFrees(w) ==
  /\ wk[w].pc = "refuse"
  /\ at' = [at EXCEPT ![wk[w].x] = PlaceIfFreed(wk[w].x),
                      ![wk[w].r] = PlaceIfFreed(wk[w].r)]
  /\ rel' = [rel EXCEPT ![wk[w].x] = None]
  /\ Return(w)
  /\ UNCHANGED <<nRef, sock, lstSend, left, pendingMap, sweep>>

-----------------------------------------------------------------------------
(* The frame loop of the accept and the receive handler. *)

(* LoopFrame without its AddRef. *)
LoopFrameNoRef(w, b) ==
  /\ wk[w].pc = "loop" /\ wk[w].n < MaxBatch
  /\ b \in Available(BObjs)
  /\ at' = [at EXCEPT ![b] = "made"]
  /\ rel' = [rel EXCEPT ![b] = wk[w].r]
  /\ left' = [left EXCEPT ![b] = 0]
  /\ wk' = [wk EXCEPT ![w].pc = "post", ![w].y = b, ![w].n = @ + 1]
  /\ UNCHANGED <<nRef, sock, lstSend, pendingMap, sweep>>

(* A frame is complete: allocBObj, Read, AddRef. *)
LoopFrame(w, b) ==
  /\ wk[w].pc = "loop" /\ wk[w].n < MaxBatch
  /\ b \in Available(BObjs)
  /\ at' = [at EXCEPT ![b] = "made"]
  /\ rel' = [rel EXCEPT ![b] = wk[w].r]
  /\ left' = [left EXCEPT ![b] = 0]
  /\ nRef' = [nRef EXCEPT ![wk[w].r] = @ + 1]
  /\ wk' = [wk EXCEPT ![w].pc = "post", ![w].y = b, ![w].n = @ + 1]
  /\ UNCHANGED <<sock, lstSend, pendingMap, sweep>>

(* PostQueuedCompletionStatus takes the packet, and the loop goes on. *)
PostCmd(w) ==
  /\ wk[w].pc = "post"
  /\ at' = [at EXCEPT ![wk[w].y] = "posted"]
  /\ wk' = [wk EXCEPT ![w].pc = "loop", ![w].y = None]
  /\ UNCHANGED <<rel, nRef, sock, lstSend, left, pendingMap, sweep>>

(* PostCmdFails that takes its own, last reference for the command's. *)
PostCmdFailsEarly(w) ==
  /\ wk[w].pc = "post"
  /\ at' = [at EXCEPT ![wk[w].y] = PlaceIfFreed(wk[w].y)]
  /\ rel' = [rel EXCEPT ![wk[w].y] = None]
  /\ nRef' = [nRef EXCEPT ![wk[w].r] = @ - 1]
  /\ IF wk[w].via = "recv" /\ nRef'[wk[w].r] <= 1
     THEN wk' = [wk EXCEPT ![w].pc = "close", ![w].x = None, ![w].y = None]
     ELSE wk' = [wk EXCEPT ![w].pc = "loop", ![w].y = None]
  /\ UNCHANGED <<sock, lstSend, left, pendingMap, sweep>>

(* It does not: the accept handler takes the reference back with DecRef; the
   receive handler with a decrement that, at 0, would give up the RECV_SOCK
   and return without the RECV_OBJ. *)
PostCmdFails(w) ==
  /\ wk[w].pc = "post"
  /\ at' = [at EXCEPT ![wk[w].y] = PlaceIfFreed(wk[w].y)]
  /\ rel' = [rel EXCEPT ![wk[w].y] = None]
  /\ nRef' = [nRef EXCEPT ![wk[w].r] = @ - 1]
  /\ IF wk[w].via = "recv" /\ nRef'[wk[w].r] = 0
     THEN wk' = [wk EXCEPT ![w].pc = "close", ![w].x = None, ![w].y = None]
     ELSE wk' = [wk EXCEPT ![w].pc = "loop", ![w].y = None]
  /\ UNCHANGED <<sock, lstSend, left, pendingMap, sweep>>

(* GetCmdDataLength returns 0; in some cases it has closed the socket. *)
LoopDone(w) ==
  /\ wk[w].pc = "loop"
  /\ \/ UNCHANGED sock
     \/ sock' = [sock EXCEPT ![wk[w].r] = "invalid"]
  /\ wk' = [wk EXCEPT ![w].pc = "repost", ![w].via = "none", ![w].n = 0]
  /\ UNCHANGED <<at, rel, nRef, lstSend, left, pendingMap, sweep>>

(* Client_PostZeroRecv: the kernel has the RECV_OBJ again, and the worker is
   done; on a closed socket it fails, and it may fail on an open one. *)
Client_PostZeroRecv(w) ==
  /\ wk[w].pc = "repost" /\ sock[wk[w].r] = "open"
  /\ at' = [at EXCEPT ![wk[w].x] = "zero"]
  /\ Return(w)
  /\ UNCHANGED <<rel, nRef, sock, lstSend, left, pendingMap, sweep>>

PostZeroRecvFails(w) ==
  /\ wk[w].pc = "repost"
  /\ GoTo(w, "drop")
  /\ UNCHANGED <<at, rel, nRef, sock, lstSend, left, pendingMap, sweep>>

-----------------------------------------------------------------------------
(* Receiving. *)

(* The zero-byte receive completes: the RECV_OBJ goes back with the real one. *)
Client_ZeroRecvCompletionSuccess(w, o) ==
  /\ wk[w] = Idle /\ at[o] = "zero" /\ sock[rel[o]] = "open"
  /\ at' = [at EXCEPT ![o] = "recv"]
  /\ UNCHANGED <<rel, nRef, sock, lstSend, left, pendingMap, sweep, wk>>

(* It fails, or the real receive cannot be posted, or that one fails or
   brings nothing. *)
Client_RecvCompletionFailed(w, o) ==
  /\ wk[w] = Idle /\ at[o] \in {"zero", "recv"}
  /\ at' = [at EXCEPT ![o] = "held"]
  /\ wk' = [wk EXCEPT ![w] = [Idle EXCEPT !.pc = "drop", !.r = rel[o], !.x = o]]
  /\ UNCHANGED <<rel, nRef, sock, lstSend, left, pendingMap, sweep>>

Client_RecvCompletionSuccess(w, o) ==
  /\ wk[w] = Idle /\ at[o] = "recv"
  /\ at' = [at EXCEPT ![o] = "held"]
  /\ wk' = [wk EXCEPT ![w] = [Idle EXCEPT !.pc = "loop", !.r = rel[o], !.x = o,
                                          !.via = "recv"]]
  /\ UNCHANGED <<rel, nRef, sock, lstSend, left, pendingMap, sweep>>

-----------------------------------------------------------------------------
(* Giving a reference up: every handler ends a connection this way. *)

(* DropRef that closes without looking at the result. *)
DropRefAlwaysCloses(w) ==
  /\ wk[w].pc = "drop"
  /\ nRef' = [nRef EXCEPT ![wk[w].r] = @ - 1]
  /\ GoTo(w, "close")
  /\ UNCHANGED <<at, rel, sock, lstSend, left, pendingMap, sweep>>

(* DropRef that does not look at the result. *)
DropRefNeverCloses(w) ==
  /\ wk[w].pc = "drop"
  /\ nRef' = [nRef EXCEPT ![wk[w].r] = @ - 1]
  /\ wk' = [wk EXCEPT ![w] = IF wk[w].x = None THEN Idle
                             ELSE [@ EXCEPT !.pc = "freeObj", !.r = None]]
  /\ UNCHANGED <<at, rel, sock, lstSend, left, pendingMap, sweep>>

(* InterlockedDecrement, and 0 makes this worker the last one. *)
DropRef(w) ==
  /\ wk[w].pc = "drop"
  /\ nRef' = [nRef EXCEPT ![wk[w].r] = @ - 1]
  /\ wk' = [wk EXCEPT ![w] =
              IF nRef'[wk[w].r] = 0 THEN [@ EXCEPT !.pc = "close"]
              ELSE IF wk[w].x = None THEN Idle
              ELSE [@ EXCEPT !.pc = "freeObj", !.r = None]]
  /\ UNCHANGED <<at, rel, sock, lstSend, left, pendingMap, sweep>>

(* CMCloseSocket. *)
CloseSock(w) ==
  /\ wk[w].pc = "close"
  /\ sock' = [sock EXCEPT ![wk[w].r] = "invalid"]
  /\ GoTo(w, "freeSock")
  /\ UNCHANGED <<at, rel, nRef, lstSend, left, pendingMap, sweep>>

(* freeRSock. *)
FreeSock(w) ==
  /\ wk[w].pc = "freeSock"
  /\ at' = [at EXCEPT ![wk[w].r] = PlaceIfFreed(wk[w].r)]
  /\ wk' = [wk EXCEPT ![w] = IF wk[w].x = None THEN Idle
                             ELSE [@ EXCEPT !.pc = "freeObj", !.r = None]]
  /\ UNCHANGED <<rel, nRef, sock, lstSend, left, pendingMap, sweep>>

(* freeRObj, or freeBObj in Client_CmdCompletionFailed. *)
FreeObj(w) ==
  /\ wk[w].pc = "freeObj"
  /\ at' = [at EXCEPT ![wk[w].x] = PlaceIfFreed(wk[w].x)]
  /\ rel' = [rel EXCEPT ![wk[w].x] = None]
  /\ Return(w)
  /\ UNCHANGED <<nRef, sock, lstSend, left, pendingMap, sweep>>

-----------------------------------------------------------------------------
(* Commands. *)

(* Client_CmdCompletionSuccess as it is: it returns, and nobody knows the
   BUFFER_OBJ any more. *)
Client_CmdCompletionSuccess(w, b) ==
  /\ "empty" \in Handlers
  /\ wk[w] = Idle /\ at[b] = "posted"
  /\ at' = [at EXCEPT ![b] = "dropped"]
  /\ UNCHANGED <<rel, nRef, sock, lstSend, left, pendingMap, sweep, wk>>

(* With a command handler: it starts, ... *)
CmdStarts(w, b) ==
  /\ "external" \in Handlers
  /\ wk[w] = Idle /\ at[b] = "posted"
  /\ at' = [at EXCEPT ![b] = "held"]
  /\ wk' = [wk EXCEPT ![w] = [Idle EXCEPT !.pc = "cmd", !.r = rel[b], !.x = b]]
  /\ UNCHANGED <<rel, nRef, sock, lstSend, left, pendingMap, sweep>>

(* ... gives up with Client_CmdCompletionFailed, ... *)
Client_CmdCompletionFailed(w) ==
  /\ wk[w].pc = "cmd"
  /\ GoTo(w, "drop")
  /\ UNCHANGED <<at, rel, nRef, sock, lstSend, left, pendingMap, sweep>>

(* (CheckSend that answers true whether or not the list was empty.) *)
CheckSendAlwaysTrue(w) ==
  /\ wk[w].pc = "cmd"
  /\ lstSend' = [lstSend EXCEPT ![wk[w].r] = <<wk[w].x>> \o @]
  /\ left' = [left EXCEPT ![wk[w].x] = ReplySize]
  /\ GoTo(w, "send")
  /\ UNCHANGED <<at, rel, nRef, sock, pendingMap, sweep>>

(* ... or answers in its BUFFER_OBJ: CheckSend puts it at the front of the
   list; the worker sends it itself only if the list was empty. *)
CheckSend(w) ==
  /\ wk[w].pc = "cmd"
  /\ lstSend' = [lstSend EXCEPT ![wk[w].r] = <<wk[w].x>> \o @]
  /\ left' = [left EXCEPT ![wk[w].x] = ReplySize]
  /\ IF lstSend[wk[w].r] = <<>>
     THEN GoTo(w, "send") /\ UNCHANGED at
     ELSE Return(w) /\ at' = [at EXCEPT ![wk[w].x] = "queued"]
  /\ UNCHANGED <<rel, nRef, sock, pendingMap, sweep>>

-----------------------------------------------------------------------------
(* Sending. *)

(* CLient_PostSend. *)
CLient_PostSend(w) ==
  /\ wk[w].pc = "send" /\ sock[wk[w].r] = "open"
  /\ at' = [at EXCEPT ![wk[w].x] = "sending"]
  /\ Return(w)
  /\ UNCHANGED <<rel, nRef, sock, lstSend, left, pendingMap, sweep>>

PostSendFails(w) ==
  /\ wk[w].pc = "send"
  /\ GoTo(w, "next")
  /\ UNCHANGED <<at, rel, nRef, sock, lstSend, left, pendingMap, sweep>>

(* The send completes with n > 0 bytes: the rest, if any, is posted again. *)
Client_SendCompletionSuccess(w, b, n) ==
  /\ wk[w] = Idle /\ at[b] = "sending" /\ n \in 1..left[b]
  /\ at' = [at EXCEPT ![b] = "held"]
  /\ left' = [left EXCEPT ![b] = @ - n]
  /\ wk' = [wk EXCEPT ![w] = [Idle EXCEPT !.pc = IF n < left[b] THEN "send" ELSE "next",
                                          !.r = rel[b], !.x = b]]
  /\ UNCHANGED <<rel, nRef, sock, lstSend, pendingMap, sweep>>

(* It fails, or completes with no bytes. *)
Client_SendCompletionFailed(w, b) ==
  /\ wk[w] = Idle /\ at[b] = "sending"
  /\ at' = [at EXCEPT ![b] = "held"]
  /\ wk' = [wk EXCEPT ![w] = [Idle EXCEPT !.pc = "next", !.r = rel[b], !.x = b]]
  /\ UNCHANGED <<rel, nRef, sock, lstSend, left, pendingMap, sweep>>

(* GetNextData that goes on with the newest reply ... *)
GetNextDataNewest(w) ==
  LET r == wk[w].r
      rest == SubSeq(lstSend[r], 1, Len(lstSend[r]) - 1)
  IN  /\ wk[w].pc = "next"
      /\ lstSend' = [lstSend EXCEPT ![r] = rest]
      /\ at' = [at EXCEPT ![wk[w].x] = PlaceIfFreed(wk[w].x)]
      /\ rel' = [rel EXCEPT ![wk[w].x] = None]
      /\ wk' = [wk EXCEPT ![w].pc = IF rest = <<>> THEN "drop" ELSE "hand",
                          ![w].x = None,
                          ![w].y = IF rest = <<>> THEN None ELSE rest[1]]
      /\ UNCHANGED <<nRef, sock, left, pendingMap, sweep>>

(* ... and one that goes on with none. *)
GetNextDataStops(w) ==
  LET r == wk[w].r IN
  /\ wk[w].pc = "next"
  /\ lstSend' = [lstSend EXCEPT ![r] = SubSeq(@, 1, Len(@) - 1)]
  /\ at' = [at EXCEPT ![wk[w].x] = PlaceIfFreed(wk[w].x)]
  /\ rel' = [rel EXCEPT ![wk[w].x] = None]
  /\ wk' = [wk EXCEPT ![w].pc = "drop", ![w].x = None]
  /\ UNCHANGED <<nRef, sock, left, pendingMap, sweep>>

(* GetNextData and freeBObj: the list loses its back; if another reply is
   there, this worker goes on with it, else it gives its reference up. *)
GetNextData(w) ==
  LET r == wk[w].r
      rest == SubSeq(lstSend[r], 1, Len(lstSend[r]) - 1)
  IN  /\ wk[w].pc = "next"
      /\ lstSend' = [lstSend EXCEPT ![r] = rest]
      /\ at' = [at EXCEPT ![wk[w].x] = PlaceIfFreed(wk[w].x)]
      /\ rel' = [rel EXCEPT ![wk[w].x] = None]
      /\ wk' = [wk EXCEPT ![w].pc = IF rest = <<>> THEN "drop" ELSE "hand",
                          ![w].x = None,
                          ![w].y = IF rest = <<>> THEN None ELSE rest[Len(rest)]]
      /\ UNCHANGED <<nRef, sock, left, pendingMap, sweep>>

(* The reference of the reply just freed is given up without a look at the
   count, since the next reply has one; that reply is sent now. *)
HandOver(w) ==
  /\ wk[w].pc = "hand"
  /\ nRef' = [nRef EXCEPT ![wk[w].r] = @ - 1]
  /\ at' = [at EXCEPT ![wk[w].y] = "held"]
  /\ wk' = [wk EXCEPT ![w].pc = "send", ![w].x = wk[w].y, ![w].y = None]
  /\ UNCHANGED <<rel, sock, lstSend, left, pendingMap, sweep>>

-----------------------------------------------------------------------------
(* Packets a worker takes from the completion port for object x ... *)
TakePacket(w, x) ==
  \/ /\ x \in RObjs
     /\ \/ Client_AcceptCompletionSuccess(w, x)
        \/ Client_AcceptCompletionFailed(w, x)
        \/ Client_ZeroRecvCompletionSuccess(w, x)
        \/ Client_RecvCompletionFailed(w, x)
        \/ Client_RecvCompletionSuccess(w, x)
  \/ /\ x \in BObjs
     /\ \/ Client_CmdCompletionSuccess(w, x)
        \/ CmdStarts(w, x)
        \/ \E n \in 1..ReplySize : Client_SendCompletionSuccess(w, x, n)
        \/ Client_SendCompletionFailed(w, x)

(* ... and the steps of the handler it runs. *)
HandlerStep(w) ==
  \/ RefuseFrees(w)
  \/ \E b \in BObjs : LoopFrame(w, b)
  \/ PostCmd(w) \/ PostCmdFails(w) \/ LoopDone(w)
  \/ Client_PostZeroRecv(w) \/ PostZeroRecvFails(w)
  \/ DropRef(w) \/ CloseSock(w) \/ FreeSock(w) \/ FreeObj(w)
  \/ Client_CmdCompletionFailed(w) \/ CheckSend(w)
  \/ CLient_PostSend(w) \/ PostSendFails(w)
  \/ GetNextData(w) \/ HandOver(w)

Next ==
  \/ \E r \in RSocks, o \in RObjs :
       Client_PostAcceptEx(r, o) \/ PostAcceptExFails(r, o)
  \/ \E r \in RSocks : SweepFinds(r)
  \/ SweepCloses
  \/ \E w \in Workers : HandlerStep(w) \/ \E x \in Objs : TakePacket(w, x)

Spec == Init /\ [][Next]_vars

(* A handler runs to its end; what is on the completion port is taken by some
   worker in the end, the queue being first in, first out; a send completes,
   since keep-alive breaks a connection whose peer is gone. A receive need
   never complete. *)
Fairness ==
  /\ \A w \in Workers : WF_vars(HandlerStep(w))
  /\ \A b \in BObjs : SF_vars(\E w \in Workers : TakePacket(w, b))

FairSpec == Spec /\ Fairness

-----------------------------------------------------------------------------
TypeOK ==
  /\ at \in [RSocks \cup Objs -> Places]
  /\ rel \in [Objs -> RSocks \cup {None}]
  /\ nRef \in [RSocks -> Nat]
  /\ sock \in [RSocks -> {"open", "invalid"}]
  /\ lstSend \in [RSocks -> Seq(BObjs)]
  /\ left \in [BObjs -> 0..ReplySize]
  /\ pendingMap \subseteq RSocks
  /\ sweep \in RSocks \cup {None}
  /\ wk \in [Workers -> [pc : PCs, r : RSocks \cup {None}, x : Objs \cup {None},
                         y : BObjs \cup {None}, via : {"none", "accept", "recv"},
                         n : 0..MaxBatch]]

(* At these places in a handler the worker itself owns one reference. *)
RefPCs == {"refuse", "loop", "post", "repost", "drop", "cmd", "send", "next", "hand"}

(* Who owns a reference on r: objects outside the workers' hands, and workers
   that have not given theirs up. *)
Holders(r) ==
  { x \in Objs : at[x] \in Pending /\ rel[x] = r }
    \cup { w \in Workers : wk[w].pc \in RefPCs /\ wk[w].r = r }

(* nRef counts exactly the operations, packets, queued replies and handlers
   that have a reference on the RECV_SOCK, through every AddRef, DecRef and
   InterlockedDecrement on every path, failures included. A command that the
   empty handler has dropped is one of them: its reference is never given up. *)
RefCountExact ==
  \A r \in RSocks : at[r] = "used" => nRef[r] = Cardinality(Holders(r))

(* A RECV_SOCK that has gone back to its pool or to the heap has no operation,
   packet, reply or handler left that refers to it, and no open socket. main's
   sweep is not covered by the first two: it may have read the entry before a
   worker failed the accept and freed the RECV_SOCK, and write to it after that.
   It then finds no handle to close, and the object is not another
   connection's, since only main allocates them; on the heap the late write is
   undefined all the same, and how the sweep comes to it is in Listener. *)
NoUseAfterFree ==
  \A r \in RSocks : at[r] # "used" =>
    /\ Holders(r) = {}
    /\ \A w \in Workers : wk[w].r # r
    /\ sock[r] = "invalid"

(* What can still bring r nearer to its end: an operation or packet that is to
   be completed, and a worker in a handler. A queued reply cannot by itself, nor
   can a command that has been made and not posted, nor one that was dropped. *)
Movers(r) ==
  { x \in Objs : at[x] \in {"accept", "zero", "recv", "sending", "posted"} /\ rel[x] = r }
    \cup { w \in Workers : wk[w].r = r }

(* A RECV_SOCK in use is not forgotten, unless the empty command handler
   dropped a command of it: some operation, packet or worker will come back to
   it, however references, list and failures interleave. The two decrements
   that do not look at their result are never the last one, and a queued reply
   always has a sender before it. *)
ForgottenOnlyIfDropped ==
  \A r \in RSocks : at[r] = "used" =>
    \/ Movers(r) # {}
    \/ \E b \in BObjs : at[b] = "dropped" /\ rel[b] = r

(* The worker that closes and frees a RECV_SOCK is alone with it: nobody owns
   a reference, no second worker closes or frees it, no reply is listed. *)
ReclaimExclusive ==
  \A w \in Workers : wk[w].pc \in {"close", "freeSock"} =>
    /\ at[wk[w].r] = "used"
    /\ Holders(wk[w].r) = {}
    /\ lstSend[wk[w].r] = <<>>
    /\ \A v \in Workers \ {w} : wk[v].r # wk[w].r

(* A RECV_OBJ or BUFFER_OBJ in a worker's hands is in one worker's hands, and
   none is lost: the return inside the receive loop that would forget the
   RECV_OBJ is never taken. *)
HeldByOne ==
  \A x \in Objs : at[x] = "held" =>
    Cardinality({ w \in Workers : wk[w].x = x }) = 1

(* The workers and the kernel that are busy with a reply of r's send list. *)
Drivers(r) ==
  { b \in BObjs : at[b] = "sending" /\ rel[b] = r }
    \cup { w \in Workers : wk[w].pc \in {"send", "next", "hand"} /\ wk[w].r = r }

(* CheckSend and GetNextData between them keep exactly one send going while
   replies are listed: never two at a time, and never a list that everybody
   believes somebody else is sending. *)
OneSenderPerList ==
  \A r \in RSocks : at[r] = "used" =>
    Cardinality(Drivers(r)) = IF lstSend[r] = <<>> THEN 0 ELSE 1

(* What is being sent is the oldest reply of its list: replies leave in the
   order in which CheckSend listed them, and pop_back drops the right one. *)
OldestIsSent ==
  \A r \in RSocks : at[r] = "used" /\ lstSend[r] # <<>> =>
    LET back == lstSend[r][Len(lstSend[r])] IN
    /\ \A b \in BObjs : at[b] = "sending" /\ rel[b] = r => b = back
    /\ \A w \in Workers : wk[w].pc \in {"send", "next"} /\ wk[w].r = r => wk[w].x = back
    /\ \A i \in 1..(Len(lstSend[r]) - 1) : at[lstSend[r][i]] = "queued"

(* A command that was posted is answered or given up in the end, and its
   BUFFER_OBJ is free again. *)
CommandFinishes ==
  \A b \in BObjs : (at[b] = "posted") ~> (at[b] \in {"pool", "heap"})

(* A connection whose receive operation has been given up is reclaimed, once
   its commands and replies are through. *)
SessionReclaimed ==
  \A r \in RSocks :
    (at[r] = "used" /\ \A o \in RObjs : rel[o] # r) ~> (at[r] # "used")
=============================================================================
