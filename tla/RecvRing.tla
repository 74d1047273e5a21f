------------------------------ MODULE RecvRing ------------------------------
(***************************************************************************)
(* The positions of the receive ring of a client connection: struct        *)
(* _recv_sock of ms_data.h (dwWritepos, dwReadpos, dwRightsize,            *)
(* dwLeftsize, bFull, bEmpty), as the accept and receive handlers of       *)
(* ms_client_requestcompletion.cpp drive it.                               *)
(*                                                                         *)
(* Here the bytes are abstracted away: the parser may find any frame that  *)
(* fits in the unread bytes, wait for more, or close the socket.  Module   *)
(* FrameParser adds the bytes and the real parser.  One RECV_OBJ carries   *)
(* the only receive operation of a connection, so one handler at a time    *)
(* works on the ring; io says where that operation is.                     *)
(***************************************************************************)
EXTENDS Integers

CONSTANTS
  Bufsize,    \* dwBufsize: g_dwPagesize * 8 - RECV_SOCK_SIZE
  AddrSpace   \* (sizeof(sockaddr_in) + 16) * 2, kept free for AcceptEx

ASSUME RingAssumption ==
  /\ Bufsize \in Nat
  /\ AddrSpace \in Nat
  /\ AddrSpace + 6 < Bufsize    \* a frame header fits in the first receive

VARIABLES
  dwWritepos, dwReadpos,   \* both run over 0..Bufsize; Bufsize means "wrap next"
  dwRightsize, dwLeftsize, \* free bytes right of dwWritepos, left of dwReadpos
  bFull, bEmpty,
  sock,                    \* "open", or "closed": INVALID_SOCKET
  io                       \* where the connection's one receive operation is

ring == <<dwWritepos, dwReadpos, dwRightsize, dwLeftsize, bFull, bEmpty>>
ringVars == <<ring, sock, io>>

\* "accept", "zero" and "recv": posted to the kernel and not completed;
\* "loop": a worker is in the handler's while (len) loop; "ended": given up.
Stages == {"accept", "loop", "zero", "recv", "ended"}

-----------------------------------------------------------------------------
(* The unread bytes, as GetCmdDataLength counts them. *)
Unread ==
  IF bEmpty THEN 0
  ELSE IF dwWritepos > dwReadpos THEN dwWritepos - dwReadpos
       ELSE (Bufsize - dwReadpos) + dwWritepos

(* InitWRpos after n > 0 bytes arrived. *)
InitWRpos(n) ==
  /\ IF bFull
     THEN UNCHANGED <<dwWritepos, bFull, bEmpty>>
     ELSE /\ dwWritepos' = IF n > dwRightsize THEN n - dwRightsize
                                              ELSE dwWritepos + n
          /\ bFull' = (dwWritepos' = dwReadpos)
          /\ bEmpty' = FALSE
  /\ UNCHANGED <<dwReadpos, dwRightsize, dwLeftsize>>

(* InitRLsize with its third case forgotten. *)
InitRLsizeNoWrap ==
  /\ dwRightsize' = IF bFull THEN 0 ELSE Bufsize - dwWritepos
  /\ dwLeftsize' = IF ~bFull /\ dwReadpos <= dwWritepos THEN dwReadpos ELSE 0
  /\ UNCHANGED <<dwWritepos, dwReadpos, bFull, bEmpty>>

(* InitRLsize, called by InitWSABUFS before a receive is posted. *)
InitRLsize ==
  /\ dwRightsize' = CASE bFull -> 0
                      [] ~bFull /\ dwReadpos <= dwWritepos -> Bufsize - dwWritepos
                      [] ~bFull /\ dwReadpos > dwWritepos -> dwReadpos - dwWritepos
  /\ dwLeftsize' = IF ~bFull /\ dwReadpos <= dwWritepos THEN dwReadpos ELSE 0
  /\ UNCHANGED <<dwWritepos, dwReadpos, bFull, bEmpty>>

(* HeaderEnd if the header is not skipped. *)
HeaderKept == dwReadpos

(* The read position after GetCmdDataLength has skipped the 6 header bytes. *)
HeaderEnd ==
  IF dwWritepos <= dwReadpos /\ dwReadpos + 6 > Bufsize
  THEN dwReadpos + 6 - Bufsize
  ELSE dwReadpos + 6

(* ReadEnd if reading never wraps. *)
ReadEndNoWrap(r, n) == r + n

(* The read position after Read has copied n bytes from position r. *)
ReadEnd(r, n) ==
  IF r < dwWritepos \/ Bufsize - r > n THEN r + n ELSE n - (Bufsize - r)

(* Read that leaves bFull as it is. *)
ReadKeepsFull(r, n) ==
  /\ dwReadpos' = ReadEnd(r, n)
  /\ bEmpty' = (dwReadpos' = dwWritepos)
  /\ UNCHANGED <<dwWritepos, dwRightsize, dwLeftsize, bFull>>

(* Read(_, n) from position r. *)
Read(r, n) ==
  /\ bFull' = FALSE
  /\ dwReadpos' = ReadEnd(r, n)
  /\ bEmpty' = (dwReadpos' = dwWritepos)
  /\ UNCHANGED <<dwWritepos, dwRightsize, dwLeftsize>>

-----------------------------------------------------------------------------
RingInit ==
  /\ dwWritepos = 0 /\ dwReadpos = 0 /\ dwRightsize = 0 /\ dwLeftsize = 0
  /\ bFull = FALSE /\ bEmpty = TRUE
  /\ sock = "open"
  /\ io = "accept"

(* Client_AcceptCompletionSuccess up to its loop: AcceptEx brought n bytes. *)
AcceptData(n) ==
  /\ io = "accept" /\ n \in 1..(Bufsize - AddrSpace)
  /\ InitWRpos(n)
  /\ io' = "loop"
  /\ UNCHANGED sock

(* Client_RecvCompletionSuccess up to its loop: WSARecv brought n bytes. *)
RecvData(n) ==
  /\ io = "recv" /\ n \in 1..(dwRightsize + dwLeftsize)
  /\ InitWRpos(n)
  /\ io' = "loop"
  /\ UNCHANGED sock

(* One round of while (len): a frame of frameLen data bytes is complete; its
   header is skipped and data, checksum and end mark are read. *)
TakeFrame(frameLen) ==
  /\ io = "loop" /\ sock = "open"
  /\ frameLen \in Nat /\ frameLen + 8 <= Unread
  /\ Read(HeaderEnd, frameLen + 2)
  /\ UNCHANGED <<sock, io>>

(* GetCmdDataLength returns 0: it may have closed the socket. The handler
   posts the zero-byte receive; that fails on a closed socket and may fail
   otherwise, and then the handler gives the connection up. *)
LoopEnds(close) ==
  /\ io = "loop" /\ sock = "open"
  /\ sock' = IF close THEN "closed" ELSE sock
  /\ io' \in (IF close THEN {"ended"} ELSE {"zero", "ended"})
  /\ UNCHANGED ring

(* Client_ZeroRecvCompletionSuccess: data is waiting, post the real receive. *)
ZeroRecvDone ==
  /\ io = "zero"
  /\ InitRLsize
  /\ io' \in {"recv", "ended"}
  /\ UNCHANGED sock

(* Completion with an error, or with 0 bytes for accept and recv. A receive
   into an empty pair of WSABUFs always completes with 0 bytes. *)
CompletionFailed ==
  /\ io \in {"accept", "zero", "recv"}
  /\ io' = "ended"
  /\ UNCHANGED <<ring, sock>>

RingNext ==
  \/ \E n \in 1..Bufsize : AcceptData(n) \/ RecvData(n)
  \/ \E frameLen \in 0..Bufsize : TakeFrame(frameLen)
  \/ \E close \in BOOLEAN : LoopEnds(close)
  \/ ZeroRecvDone
  \/ CompletionFailed

RingSpec == RingInit /\ [][RingNext]_ringVars

-----------------------------------------------------------------------------
(* Every variable of the ring has its type; positions never leave the buffer. *)
RingTypeOK ==
  /\ dwWritepos \in 0..Bufsize /\ dwReadpos \in 0..Bufsize
  /\ dwRightsize \in 0..Bufsize /\ dwLeftsize \in 0..Bufsize
  /\ bFull \in BOOLEAN /\ bEmpty \in BOOLEAN
  /\ sock \in {"open", "closed"}
  /\ io \in Stages

(* The buffer indices that hold unread bytes. *)
UnreadCells ==
  { i \in 0..(Bufsize - 1) :
      /\ ~bEmpty
      /\ IF dwWritepos > dwReadpos THEN dwReadpos <= i /\ i < dwWritepos
                                   ELSE dwReadpos <= i \/ i < dwWritepos }

(* The buffer indices handed to WSARecv by InitWSABUFS. *)
PostedCells ==
  { i \in 0..(Bufsize - 1) :
      \/ dwWritepos <= i /\ i < dwWritepos + dwRightsize
      \/ i < dwLeftsize }

(* The two flags tell the two meanings of equal positions apart: after
   InitWRpos and Read, equal positions mean empty exactly when bEmpty says so
   and full exactly when bFull says so. *)
FlagsAgree ==
  /\ bEmpty => dwWritepos = dwReadpos /\ ~bFull
  /\ bFull => dwWritepos = dwReadpos
  /\ (dwWritepos = dwReadpos /\ ~bEmpty) => bFull

(* While a receive is posted, the kernel may write only cells whose bytes
   have been read, and is offered all of them: a segment computed by
   InitRLsize never overlaps data the parser has not consumed, and no free
   cell is forgotten. *)
RecvNeverOverwrites ==
  io = "recv" => PostedCells = (0..(Bufsize - 1)) \ UnreadCells

(* The frame loop only consumes and a completion only adds: within one pass
   through the loop the unread count never grows, and taking a frame uses up
   its 6 header, data and 2 trailer bytes, never less than 8. *)
LoopConsumes ==
  [][(io = "loop" /\ io' = "loop") => Unread' <= Unread - 8]_ringVars
=============================================================================
