----------------------------- MODULE NcSession -----------------------------
(***************************************************************************)
(* The API (NC) sessions: an operator's platform connects to port 80 and   *)
(* sends one HTTP request.  A connection is a BUFFER_SOCK and a BUFFER_OBJ *)
(* with one outstanding operation at a time, so no two workers are in      *)
(* handlers of one connection and a handler is one step; main's sweep may  *)
(* close the socket and overwrite the handle between any two of them.      *)
(* Connections share the two pools, and a pooled BUFFER_OBJ keeps the      *)
(* bytes of its last use.                                                  *)
(*                                                                         *)
(* Text is abstracted to cells: "len" is a Content-Length line with its    *)
(* number, "end" is the empty line after the header, "nul" a zero byte,    *)
(* "text" anything else.  CheckNCData searches the buffer as a string, up  *)
(* to the first zero byte, not up to what has been received.  A            *)
(* Content-Length is a natural number of at most seven digits, which is    *)
(* what CheckNCData has room for.                                          *)
(*                                                                         *)
(* doNcResponse is not part of the sources: the call is commented out.     *)
(* Replies = FALSE is the program as it is; Replies = TRUE puts an         *)
(* external doNcResponse in place that answers through Nc_PostSend.        *)
(***************************************************************************)
EXTENDS Integers, Sequences, FiniteSets, FiniteSetsExt

CONSTANTS
  BSocks, BObjs,                    \* addresses of BUFFER_SOCK, BUFFER_OBJ
  BSOCK_SIZE_MAX, BOBJ_SIZE_MAX,    \* pool limits, 500 each
  DataLen,                          \* datalen of a BUFFER_OBJ, in cells
  AddrCells,                        \* what AcceptEx needs for two addresses
  Requests,                         \* what a peer may send on a connection
  Commands,                         \* cells a client command may consist of
  ResponseLen,                      \* cells of a response
  Replies,                          \* is there a doNcResponse?
  None                              \* NULL

Text == [is |-> "text", n |-> 0]
EndLine == [is |-> "end", n |-> 0]
Nul == [is |-> "nul", n |-> 0]
LenLine(n) == [is |-> "len", n |-> n]
Cells == {Text, EndLine, Nul} \cup { LenLine(n) : n \in 0..DataLen }

ASSUME NcAssumption ==
  /\ IsFiniteSet(BSocks) /\ IsFiniteSet(BObjs) /\ BSocks \cap BObjs = {}
  /\ None \notin BSocks \cup BObjs
  /\ BSOCK_SIZE_MAX \in Nat \ {0} /\ BOBJ_SIZE_MAX \in Nat \ {0}
  /\ DataLen \in Nat /\ AddrCells \in Nat /\ AddrCells < DataLen
  /\ Requests \subseteq Seq(Cells \ {Nul})
  /\ \A c \in Commands : c \in Seq(Cells) /\ Len(c) <= DataLen
  /\ ResponseLen \in 1..DataLen
  /\ Replies \in BOOLEAN

VARIABLES
  at,              \* where each object is
  rel,             \* pRelateSock of each BUFFER_OBJ in use
  sock,            \* handle of each BUFFER_SOCK
  data,            \* the cells of each BUFFER_OBJ
  dwRecvedCount, dwSendedCount,
  wsaBuf,          \* what the posted operation covers: first cell, cells
  peer,            \* the request the connection's peer sends
  out,             \* the cells of the response the peer got, by index
  sweep            \* the BUFFER_SOCK main's sweep is about to close, or None

ncVars == <<at, rel, sock, data, dwRecvedCount, dwSendedCount, wsaBuf, peer, out, sweep>>

\* A BUFFER_OBJ with an operation posted, or ("whole") with a complete request.
InUse == {"accept", "zero", "recv", "send", "whole"}

\* A handle is "stolen" when somebody else closed the socket it stands for.
\* Operations on it fail here; what they do to the socket that gets the number
\* next is the subject of SocketHandles.
Handles == {"open", "stolen", "invalid"}

-----------------------------------------------------------------------------
(* ms_memory.cpp: a pool is used up before the heap is; a free object goes
   to the heap when its pool is at its limit. *)
InPool(S) == { x \in S : at[x] = "pool" }
Available(S) == IF InPool(S) # {} THEN InPool(S) ELSE { x \in S : at[x] = "heap" }

freeBSock == IF Cardinality(InPool(BSocks)) < BSOCK_SIZE_MAX THEN "pool" ELSE "heap"
freeBObj == IF Cardinality(InPool(BObjs)) < BOBJ_SIZE_MAX THEN "pool" ELSE "heap"

NoData == [i \in 1..DataLen |-> Nul]
NoBuf == [from |-> 1, len |-> 0]

NcInit ==
  /\ at = [x \in BSocks \cup BObjs |-> "heap"]
  /\ rel = [b \in BObjs |-> None]
  /\ sock = [s \in BSocks |-> "invalid"]
  /\ data = [b \in BObjs |-> NoData]
  /\ dwRecvedCount = [b \in BObjs |-> 0]
  /\ dwSendedCount = [b \in BObjs |-> 0]
  /\ wsaBuf = [b \in BObjs |-> NoBuf]
  /\ peer = [b \in BObjs |-> <<>>]
  /\ out = [b \in BObjs |-> <<>>]
  /\ sweep = None

-----------------------------------------------------------------------------
(* CheckNCData. *)

(* The cells of d that are before its first zero byte. Without one _tcsstr
   goes on past the buffer; what it could find there lies beyond DataLen, so
   that the verdict on a request that fits is "wait", as without it. *)
AsString(d) ==
  { i \in 1..DataLen : \A j \in 1..i : d[j] # Nul }

(* _tcsstr and StrStrI: the first cell of a kind, or 0. *)
Find(d, kind) ==
  LET S == { i \in AsString(d) : d[i].is = kind } IN IF S = {} THEN 0 ELSE Min(S)

(* CheckNCData that does not count the empty line as part of the header. *)
CheckNCDataShort(d, count) ==
  LET HeaderLen == Find(d, "end") - 1
      len == d[Find(d, "len")].n
  IN  IF HeaderLen < 0 \/ Find(d, "len") = 0 THEN "wait"
      ELSE IF HeaderLen + len > count THEN "wait"
      ELSE IF HeaderLen + len = count THEN "whole" ELSE "over"

(* "wait" returns 0, "whole" the header's length; "over", more than the
   request's bytes, calls CMCloseSocket and returns 0. *)
CheckNCData(d, count) ==
  LET HeaderLen == Find(d, "end")
      len == d[Find(d, "len")].n
  IN  IF HeaderLen = 0 \/ Find(d, "len") = 0 THEN "wait"
      ELSE IF HeaderLen + len > count THEN "wait"
      ELSE IF HeaderLen + len = count THEN "whole" ELSE "over"

-----------------------------------------------------------------------------
(* CMCloseSocket: a handle somebody else closed may be another connection's
   by now. *)
CMCloseSocket(s) ==
  \/ sock' = [sock EXCEPT ![s] = "invalid"]
  \/ \E o \in BSocks :
       /\ sock[s] = "stolen" /\ sock[o] = "open"
       /\ sock' = [sock EXCEPT ![s] = "invalid", ![o] = "stolen"]

(* CMCloseSocket, freeBSock, freeBObj: the end of every failed handler. Only
   memory from the heap is zeroed. *)
Ends(b) ==
  /\ at' = [at EXCEPT ![rel[b]] = freeBSock, ![b] = freeBObj]
  /\ CMCloseSocket(rel[b])
  /\ rel' = [rel EXCEPT ![b] = None]
  /\ data' = [data EXCEPT ![b] = IF freeBObj = "heap" THEN NoData ELSE @]
  /\ dwRecvedCount' = [dwRecvedCount EXCEPT ![b] = 0]
  /\ dwSendedCount' = [dwSendedCount EXCEPT ![b] = 0]
  /\ wsaBuf' = [wsaBuf EXCEPT ![b] = NoBuf]
  /\ peer' = [peer EXCEPT ![b] = <<>>]
  /\ out' = [out EXCEPT ![b] = <<>>]
  /\ UNCHANGED sweep

(* allocBObj, allocBSock, socket, AcceptEx; main's thread, outside the sweep. *)
Nc_PostAcceptEx(s, b, request) ==
  /\ sweep = None
  /\ s \in Available(BSocks) /\ b \in Available(BObjs)
  /\ at' = [at EXCEPT ![s] = "used", ![b] = "accept"]
  /\ rel' = [rel EXCEPT ![b] = s]
  /\ sock' = [sock EXCEPT ![s] = "open"]
  /\ wsaBuf' = [wsaBuf EXCEPT ![b] = [from |-> 1, len |-> DataLen - AddrCells]]
  /\ peer' = [peer EXCEPT ![b] = request]
  /\ UNCHANGED <<data, dwRecvedCount, dwSendedCount, out, sweep>>

(* socket or AcceptEx fails: both objects go to their pools. *)
PostAcceptExFails(s, b) ==
  /\ sweep = None
  /\ s \in Available(BSocks) /\ b \in Available(BObjs)
  /\ at' = [at EXCEPT ![s] = "pool", ![b] = "pool"]
  /\ UNCHANGED <<rel, sock, data, dwRecvedCount, dwSendedCount, wsaBuf, peer, out, sweep>>

(* main's sweep of acceptPendingMap, which holds the BUFFER_SOCKs too: an
   accept that is still pending is found connected, ... *)
SweepFinds(b) ==
  /\ sweep = None
  /\ at[b] = "accept" /\ sock[rel[b]] = "open"
  /\ sweep' = rel[b]
  /\ UNCHANGED <<at, rel, sock, data, dwRecvedCount, dwSendedCount, wsaBuf, peer, out>>

(* ... and its socket is closed, wherever the connection is by then; a worker
   may have freed it. *)
SweepCloses ==
  /\ sweep # None
  /\ CMCloseSocket(sweep)
  /\ sweep' = None
  /\ UNCHANGED <<at, rel, data, dwRecvedCount, dwSendedCount, wsaBuf, peer, out>>

(* The BUFFER_OBJ pool is also that of the client sessions: the frame loop
   reads a command into b, and freeBObj brings b back with its bytes. *)
CommandUses(b, c) ==
  /\ b \in Available(BObjs)
  /\ at' = [at EXCEPT ![b] = "pool"]
  /\ data' = [data EXCEPT ![b] = [i \in 1..DataLen |-> IF i <= Len(c) THEN c[i] ELSE @[i]]]
  /\ UNCHANGED <<rel, sock, dwRecvedCount, dwSendedCount, wsaBuf, peer, out, sweep>>

(* The accept, a receive or a send fails or completes without bytes, the
   completion port refuses the socket, or the next operation cannot be
   posted. *)
Nc_AcceptCompletionFailed(b) == at[b] = "accept" /\ Ends(b)
NC_RecvZeroCompFailed(b) == at[b] = "zero" /\ Ends(b)
NC_RecvCompFailed(b) == at[b] = "recv" /\ Ends(b)
NC_SendCompFailed(b) == at[b] = "send" /\ Ends(b)

(* n cells arrive where the posted operation points. *)
Received(b, n) ==
  [i \in 1..DataLen |->
     IF wsaBuf[b].from <= i /\ i < wsaBuf[b].from + n
     THEN peer[b][dwRecvedCount[b] + 1 + i - wsaBuf[b].from]
     ELSE IF at[b] = "accept" /\ i > DataLen - AddrCells THEN Nul
     ELSE data[b][i]]

(* CMCloseSocket(bobj) takes a BUFFER_OBJ for a KEY_VALUE: the handle it sees
   is InternalHigh of the OVERLAPPED, the number of bytes just received. No
   socket has that handle, or some connection's has. *)
CloseByCount ==
  \/ UNCHANGED sock
  \/ \E s \in BSocks : sock[s] = "open" /\ sock' = [sock EXCEPT ![s] = "stolen"]

(* Data is counted and checked, and the zero-byte receive posted unless the
   request is complete; it is about to fail when the handle is gone. *)
DataArrives(b, n) ==
  LET verdict == CheckNCData(Received(b, n), dwRecvedCount[b] + n) IN
  /\ n \in 1..wsaBuf[b].len /\ dwRecvedCount[b] + n <= Len(peer[b])
  /\ data' = [data EXCEPT ![b] = Received(b, n)]
  /\ dwRecvedCount' = [dwRecvedCount EXCEPT ![b] = @ + n]
  /\ at' = [at EXCEPT ![b] = IF verdict = "whole" THEN "whole" ELSE "zero"]
  /\ wsaBuf' = [wsaBuf EXCEPT ![b] = NoBuf]
  /\ IF verdict = "over" THEN CloseByCount ELSE UNCHANGED sock
  /\ UNCHANGED <<rel, dwSendedCount, peer, out, sweep>>

(* The completion port takes no handle that is gone; a receive may have
   completed before its socket was closed. *)
Nc_AcceptCompletionSuccess(b, n) ==
  at[b] = "accept" /\ sock[rel[b]] = "open" /\ DataArrives(b, n)
NC_RecvCompSuccess(b, n) == at[b] = "recv" /\ DataArrives(b, n)

(* NC_RecvZeroCompSuccess that always offers the whole buffer ... *)
NC_RecvZeroCompSuccessWhole(b) ==
  /\ at[b] = "zero" /\ sock[rel[b]] = "open"
  /\ at' = [at EXCEPT ![b] = "recv"]
  /\ wsaBuf' = [wsaBuf EXCEPT ![b] = [from |-> dwRecvedCount[b] + 1, len |-> DataLen]]
  /\ UNCHANGED <<rel, sock, data, dwRecvedCount, dwSendedCount, peer, out, sweep>>

(* ... and one that waits again when there is no room. *)
NC_RecvZeroCompSuccessWaits(b) ==
  /\ at[b] = "zero" /\ sock[rel[b]] = "open"
  /\ dwRecvedCount[b] < DataLen
  /\ at' = [at EXCEPT ![b] = "recv"]
  /\ wsaBuf' = [wsaBuf EXCEPT ![b] = [from |-> dwRecvedCount[b] + 1,
                                      len |-> DataLen - dwRecvedCount[b]]]
  /\ UNCHANGED <<rel, sock, data, dwRecvedCount, dwSendedCount, peer, out, sweep>>

(* NC_RecvZeroCompSuccess and Nc_PostRecv: the rest of the buffer. *)
NC_RecvZeroCompSuccess(b) ==
  /\ at[b] = "zero" /\ sock[rel[b]] = "open"
  /\ at' = [at EXCEPT ![b] = "recv"]
  /\ wsaBuf' = [wsaBuf EXCEPT ![b] = [from |-> dwRecvedCount[b] + 1,
                                      len |-> DataLen - dwRecvedCount[b]]]
  /\ UNCHANGED <<rel, sock, data, dwRecvedCount, dwSendedCount, peer, out, sweep>>

-----------------------------------------------------------------------------
(* Nc_PostSend that starts at the beginning of the response every time. *)
Nc_PostSendAll(b, sended, total) ==
  wsaBuf' = [wsaBuf EXCEPT ![b] = [from |-> 1, len |-> total - sended]]

(* Nc_PostSend: what is left of the response. *)
Nc_PostSend(b, sended, total) ==
  wsaBuf' = [wsaBuf EXCEPT ![b] = [from |-> sended + 1, len |-> total - sended]]

(* An external doNcResponse: the response replaces the request. *)
doNcResponse(b) ==
  /\ Replies
  /\ at[b] = "whole" /\ sock[rel[b]] = "open"
  /\ at' = [at EXCEPT ![b] = "send"]
  /\ data' = [data EXCEPT ![b] = [i \in 1..DataLen |-> IF i <= ResponseLen THEN Text ELSE @[i]]]
  /\ dwRecvedCount' = [dwRecvedCount EXCEPT ![b] = ResponseLen]
  /\ Nc_PostSend(b, 0, ResponseLen)
  /\ UNCHANGED <<rel, sock, dwSendedCount, peer, out, sweep>>

(* It cannot be posted. *)
ResponseFails(b) ==
  /\ Replies /\ at[b] = "whole"
  /\ Ends(b)

(* NC_SendCompSuccess, n cells taken, and some are left. *)
SendGoesOn(b, n) ==
  /\ at[b] = "send" /\ sock[rel[b]] = "open"
  /\ n \in 1..(wsaBuf[b].len - 1)
  /\ dwSendedCount' = [dwSendedCount EXCEPT ![b] = @ + n]
  /\ out' = [out EXCEPT ![b] = @ \o [i \in 1..n |-> wsaBuf[b].from + i - 1]]
  /\ Nc_PostSend(b, dwSendedCount[b] + n, dwRecvedCount[b])
  /\ UNCHANGED <<at, rel, sock, data, dwRecvedCount, peer, sweep>>

(* NC_SendCompSuccess without the return before its last lines. *)
SendFinishesFallsThrough(b) ==
  /\ at[b] = "send" /\ sock[rel[b]] = "open"
  /\ at' = [at EXCEPT ![rel[b]] = freeBSock, ![b] = "zero"]
  /\ CMCloseSocket(rel[b])
  /\ dwRecvedCount' = [dwRecvedCount EXCEPT ![b] = 0]
  /\ dwSendedCount' = [dwSendedCount EXCEPT ![b] = 0]
  /\ wsaBuf' = [wsaBuf EXCEPT ![b] = NoBuf]
  /\ out' = [out EXCEPT ![b] = <<>>]
  /\ UNCHANGED <<rel, data, peer, sweep>>

(* NC_SendCompSuccess, the rest is taken: close and free. *)
SendFinishes(b) ==
  /\ at[b] = "send" /\ sock[rel[b]] = "open"
  /\ Ends(b)

-----------------------------------------------------------------------------
NcNext ==
  \/ \E s \in BSocks, b \in BObjs :
       \/ \E request \in Requests : Nc_PostAcceptEx(s, b, request)
       \/ PostAcceptExFails(s, b)
  \/ \E b \in BObjs, c \in Commands : CommandUses(b, c)
  \/ SweepCloses
  \/ \E b \in BObjs :
       \/ SweepFinds(b)
       \/ Nc_AcceptCompletionFailed(b) \/ NC_RecvZeroCompFailed(b)
       \/ NC_RecvCompFailed(b) \/ NC_SendCompFailed(b)
       \/ \E n \in 1..DataLen :
            Nc_AcceptCompletionSuccess(b, n) \/ NC_RecvCompSuccess(b, n) \/ SendGoesOn(b, n)
       \/ NC_RecvZeroCompSuccess(b)
       \/ doNcResponse(b) \/ ResponseFails(b)
       \/ SendFinishes(b)

(* What the peer has sent arrives, a zero-byte receive completes when cells
   are waiting, a receive into no room completes with 0 bytes, an operation on
   a handle that is gone fails, and a posted send completes or fails,
   keep-alive seeing to it. The peer need not close
   and need not send more than its request. *)
DataWaiting(b) == dwRecvedCount[b] < Len(peer[b])

Progress(b) ==
  \/ \E n \in 1..DataLen : Nc_AcceptCompletionSuccess(b, n) \/ NC_RecvCompSuccess(b, n)
  \/ DataWaiting(b) /\ NC_RecvZeroCompSuccess(b)
  \/ wsaBuf[b].len = 0 /\ NC_RecvCompFailed(b)
  \/ /\ rel[b] # None /\ sock[rel[b]] # "open"
     /\ \/ Nc_AcceptCompletionFailed(b) \/ NC_RecvZeroCompFailed(b)
        \/ NC_RecvCompFailed(b) \/ NC_SendCompFailed(b)
  \/ doNcResponse(b) \/ ResponseFails(b)
  \/ \E n \in 1..DataLen : SendGoesOn(b, n)
  \/ SendFinishes(b)

NcSpec == NcInit /\ [][NcNext]_ncVars
NcFairSpec == NcSpec /\ \A b \in BObjs : WF_ncVars(Progress(b))

-----------------------------------------------------------------------------
NcTypeOK ==
  /\ at \in [BSocks \cup BObjs -> {"heap", "pool", "used"} \cup InUse]
  /\ rel \in [BObjs -> BSocks \cup {None}]
  /\ sock \in [BSocks -> Handles]
  /\ data \in [BObjs -> [1..DataLen -> Cells]]
  /\ dwRecvedCount \in [BObjs -> 0..DataLen] /\ dwSendedCount \in [BObjs -> 0..DataLen]
  /\ wsaBuf \in [BObjs -> [from : 1..(DataLen + 1), len : 0..DataLen]]
  /\ peer \in [BObjs -> Requests \cup {<<>>}]
  /\ out \in [BObjs -> Seq(1..DataLen)]
  /\ sweep \in BSocks \cup {None}

(* A request as the header announces it: a Content-Length before the empty
   line, and exactly that much after it. *)
Conforming(q) ==
  \E e \in DOMAIN q, l \in DOMAIN q :
    /\ l < e /\ q[e] = EndLine /\ q[l].is = "len" /\ Len(q) = e + q[l].n
    /\ \A i \in 1..(e - 1) : q[i] # EndLine /\ (i # l => q[i].is # "len")

(* Connections and buffers stay paired through every handler, its failures
   and pool reuse: a BUFFER_SOCK in use belongs to exactly one BUFFER_OBJ in
   use and the other way round, so no handler works on a freed one and no
   connection is left that nothing will complete. *)
NcPaired ==
  /\ \A b \in BObjs :
       IF at[b] \in InUse THEN rel[b] # None /\ at[rel[b]] = "used" ELSE rel[b] = None
  /\ \A s \in BSocks : at[s] = "used" =>
       Cardinality({ b \in BObjs : rel[b] = s /\ at[b] \in InUse }) = 1

(* For a conforming request CheckNCData decides by the request alone, though
   it also searches what earlier uses left in the buffer: the request
   is taken when all of it, and not before all of it, has arrived. *)
RequestTakenWhole ==
  \A b \in BObjs : Conforming(peer[b]) =>
    /\ at[b] = "whole" => dwRecvedCount[b] = Len(peer[b])
    /\ at[b] \in {"zero", "recv"} => dwRecvedCount[b] < Len(peer[b])

(* However a response is cut into sends, the peer gets its cells once each
   and in order. *)
ResponseInOrder ==
  \A b \in BObjs : out[b] = [i \in 1..dwSendedCount[b] |-> i]

(* Once a request is complete it is answered or given up, and once a request
   that is longer than a BUFFER_OBJ has begun, the receive that has no room
   for it ends the connection; either way both objects are free in the end,
   whatever the sweep and CheckNCData close meanwhile. Its first half needs
   the external doNcResponse: without it (Replies = FALSE, the program as it
   is) a complete request keeps both objects for ever. *)
RequestSettled ==
  \A b \in BObjs :
    (\/ at[b] = "whole"
     \/ at[b] \in {"zero", "recv"} /\ Len(peer[b]) > DataLen)
      ~> (at[b] \in {"pool", "heap"})
=============================================================================
