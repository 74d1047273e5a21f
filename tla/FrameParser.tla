---------------------------- MODULE FrameParser ----------------------------
(***************************************************************************)
(* The receive ring with its bytes: what AcceptEx and WSARecv write into   *)
(* it, what GetCmdDataLength (ms_data.h) decides about them, and what Read *)
(* copies out for the command layer.                                       *)
(*                                                                         *)
(* A frame on the wire is  0xfb 0xfc | INT length | data | sum | 0x0d.     *)
(* The peer's stream is chosen in the initial state and arrives in pieces  *)
(* of any size; a peer that pauses is a piece that ends early.  The base   *)
(* of a byte is a parameter, so that a small base makes short numbers.     *)
(***************************************************************************)
EXTENDS RecvRing, Sequences

CONSTANTS
  ByteBase,               \* 256 in the program
  MarkFB, MarkFC, Cr,     \* 0xfb, 0xfc, 0x0d
  GoodScripts,            \* the streams of frames a conforming client sends
  LastFrames,             \* frames that may follow: damaged, or too long
  StaleBytes              \* what a pooled buffer may be filled with

VARIABLES
  buf,       \* _recv_sock::buf
  frames,    \* the frames of the peer's stream
  wire,      \* the bytes of the stream the kernel has not delivered yet
  got        \* the data the loop has read out for the command layer

vars == <<ringVars, buf, frames, wire, got>>

Byte == 0..(ByteBase - 1)
FrameSet == [data : Seq(Byte), wrong : {"none", "mark", "sum", "tail"}]
Dword == ByteBase * ByteBase * ByteBase * ByteBase

ASSUME FrameAssumption ==
  /\ ByteBase \in Nat /\ {MarkFB, MarkFC, Cr} \subseteq Byte
  /\ StaleBytes \subseteq Byte
  /\ Bufsize + 8 < Dword

(* The frames of the streams are made of bytes, and their length is a DWORD. *)
ASSUME ScriptAssumption ==
  /\ \A g \in GoodScripts : g \in Seq(FrameSet)
  /\ LastFrames \subseteq FrameSet
  /\ \A g \in GoodScripts : \A i \in DOMAIN g : Len(g[i].data) < Dword
  /\ \A f \in LastFrames : Len(f.data) < Dword

-----------------------------------------------------------------------------
(* The wire format; a frame is a record of its data and of the byte the    *)
(* sender got wrong, "none" in a well-formed one.                          *)

SumBytes(s) ==
  LET sum[i \in 0..Len(s)] == IF i = 0 THEN 0 ELSE (sum[i - 1] + s[i]) % ByteBase
  IN  sum[Len(s)]

(* The four bytes of n, the lowest first. *)
LengthBytes(n) ==
  LET rest(m) == m \div ByteBase
      low(m) == m % ByteBase
  IN  <<low(n), low(rest(n)), low(rest(rest(n))), low(rest(rest(rest(n))))>>

(* What a client puts on the wire. *)
Encode(f) ==
  LET other(b) == (b + 1) % ByteBase IN
  <<MarkFB, IF f.wrong = "mark" THEN other(MarkFC) ELSE MarkFC>>
    \o LengthBytes(Len(f.data)) \o f.data
    \o <<IF f.wrong = "sum" THEN other(SumBytes(f.data)) ELSE SumBytes(f.data),
         IF f.wrong = "tail" THEN other(Cr) ELSE Cr>>

(* The bytes of the frames from number k on. *)
StreamFrom(fs, k) ==
  LET rest[i \in 1..(Len(fs) + 1)] ==
        IF i > Len(fs) THEN <<>> ELSE Encode(fs[i]) \o rest[i + 1]
  IN  rest[k]

Stream(fs) == StreamFrom(fs, 1)

WellFormed(f) == f.wrong = "none"
Fits(f) == Len(f.data) + 8 <= Bufsize

-----------------------------------------------------------------------------
(* GetCmdDataLength. Each of its three branches reads the header through
   one view of the buffer and data and trailer through another: head and body
   number bytes from the start of the frame and of its data, and body ends
   with the avail bytes that have been received. *)

Wait == [kind |-> "wait", len |-> 0]        \* returns 0
Close == [kind |-> "close", len |-> 0]      \* closesocket, returns 0
Frame(n) == [kind |-> "frame", len |-> n]   \* returns n > 0

(* dwFrameLen: the INT behind the marks. *)
FrameLen(head) ==
  head[2] + ByteBase * (head[3] + ByteBase * (head[4] + ByteBase * head[5]))

(* csum of the n data bytes. *)
csum(body, n) == SumBytes([k \in 1..n |-> body[k - 1]])

(* Variants of CheckFrame with a mistake: the checksum forgotten, ... *)
CheckFrameNoSum(head, body, avail) ==
  LET frameLen == FrameLen(head)
  IN  IF head[0] # MarkFB \/ head[1] # MarkFC THEN Close
      ELSE IF (frameLen + 8) % Dword > avail
           THEN IF bFull THEN Close ELSE Wait
      ELSE IF body[frameLen + 1] # Cr THEN Close ELSE Frame(frameLen + 2)

(* ... the two trailer bytes left unread, ... *)
CheckFrameNoTrailer(head, body, avail) ==
  LET frameLen == FrameLen(head)
  IN  IF head[0] # MarkFB \/ head[1] # MarkFC THEN Close
      ELSE IF (frameLen + 8) % Dword > avail
           THEN IF bFull THEN Close ELSE Wait
      ELSE Frame(frameLen + 1)

(* ... a frame that is just complete taken for incomplete, ... *)
CheckFrameOffByOne(head, body, avail) ==
  LET frameLen == FrameLen(head)
  IN  IF head[0] # MarkFB \/ head[1] # MarkFC THEN Close
      ELSE IF (frameLen + 8) % Dword >= avail THEN Wait ELSE Frame(frameLen + 2)

(* ... the trailer not counted, so that a frame is taken too early, ... *)
CheckFrameTooEarly(head, body, avail) ==
  LET frameLen == FrameLen(head)
  IN  IF head[0] # MarkFB \/ head[1] # MarkFC THEN Close
      ELSE IF (frameLen + 6) % Dword > avail
           THEN IF bFull THEN Close ELSE Wait
      ELSE Frame(frameLen + 2)

(* ... and a damaged frame waited on instead of closed. *)
CheckFrameNoClose(head, body, avail) ==
  LET frameLen == FrameLen(head)
  IN  IF \/ head[0] # MarkFB \/ head[1] # MarkFC
         \/ (frameLen + 8) % Dword > avail
         \/ body[frameLen] # csum(body, frameLen) \/ body[frameLen + 1] # Cr
      THEN Wait ELSE Frame(frameLen + 2)

(* The part the branches share: marks, length, checksum, end mark. For a length
   within 8 of the limit the sum of the third test wraps, and what the code
   then reads is no frame: it closes, or the process dies of the access or of
   the copy that follows. *)
CheckFrame(head, body, avail) ==
  LET frameLen == FrameLen(head)
  IN  IF head[0] # MarkFB \/ head[1] # MarkFC THEN Close
      ELSE IF (frameLen + 8) % Dword > avail
           THEN IF bFull THEN Close ELSE Wait
      ELSE IF frameLen + 8 >= Dword THEN Close
      ELSE IF body[frameLen] # csum(body, frameLen) \/ body[frameLen + 1] # Cr
           THEN Close
      ELSE Frame(frameLen + 2)

(* dwWritepos > dwReadpos: the unread bytes are in one piece. Here bFull is
   always false, which is why the code does not ask for it. *)
LinearFrame ==
  LET avail == dwWritepos - dwReadpos
      head == [k \in 0..5 |-> buf[dwReadpos + k]]
      body == [k \in 0..(avail - 7) |-> buf[dwReadpos + 6 + k]]
  IN  IF avail < 6 THEN Wait ELSE CheckFrame(head, body, avail)

(* The header put together from the dwLeft bytes at the right end and the first
   ones of the buffer, whether they have been received or not. *)
subchar ==
  LET dwLeft == Bufsize - dwReadpos
  IN  [k \in 0..5 |-> IF k < dwLeft THEN buf[dwReadpos + k] ELSE buf[k - dwLeft]]

(* A mistake in the branch below: the second memcpy starts too far right. *)
SplitHeaderMisplaced ==
  LET dwLeft == Bufsize - dwReadpos
      dwIndex == dwReadpos + 6 - Bufsize
      avail == dwLeft + dwWritepos
      head == [k \in 0..5 |-> IF k < dwLeft THEN buf[dwReadpos + k] ELSE buf[k]]
      body == [k \in 0..(avail - 7) |-> buf[dwIndex + k]]
  IN  CheckFrame(head, body, avail)

(* The header itself wraps. *)
SplitHeaderFrame ==
  LET dwLeft == Bufsize - dwReadpos
      dwIndex == dwReadpos + 6 - Bufsize
      avail == dwLeft + dwWritepos
      body == [k \in 0..(avail - 7) |-> buf[dwIndex + k]]
  IN  CheckFrame(subchar, body, avail)

(* The header is in one piece, data or trailer may wrap. *)
WrappedFrame ==
  LET dwLeft == Bufsize - dwReadpos
      avail == dwLeft + dwWritepos
      head == [k \in 0..5 |-> buf[dwReadpos + k]]
      body == [k \in 0..(avail - 7) |->
                 IF dwReadpos + 6 + k >= Bufsize
                 THEN buf[dwReadpos + 6 + k - Bufsize]
                 ELSE buf[dwReadpos + 6 + k]]
  IN  CheckFrame(head, body, avail)

(* The dispatch on the layout of the unread bytes. *)
GetCmdDataLength ==
  CASE bEmpty -> Wait
    [] ~bEmpty /\ dwWritepos > dwReadpos -> LinearFrame
    [] ~bEmpty /\ dwWritepos <= dwReadpos /\ Bufsize - dwReadpos < 6 -> SplitHeaderFrame
    [] ~bEmpty /\ dwWritepos <= dwReadpos /\ Bufsize - dwReadpos >= 6 -> WrappedFrame

(* The bytes Read copies: n from position r, continuing at 0 at the end. *)
CopiedBytes(r, n) ==
  [k \in 1..n |-> IF r < dwWritepos \/ r + k - 1 < Bufsize
                  THEN buf[r + k - 1]
                  ELSE buf[r + k - 1 - Bufsize]]

-----------------------------------------------------------------------------
Init ==
  /\ RingInit
  /\ frames \in GoodScripts \cup { Append(g, f) : g \in GoodScripts, f \in LastFrames }
  /\ \E b \in StaleBytes : buf = [i \in 0..(Bufsize - 1) |-> b]
  /\ wire = Stream(frames)
  /\ got = <<>>

(* The kernel writes the next n bytes of the stream: into the right segment
   until it is full, then into the left one. *)
Scatter(n, right) ==
  /\ n <= Len(wire)
  /\ wire' = SubSeq(wire, n + 1, Len(wire))
  /\ buf' = [i \in DOMAIN buf |->
               IF dwWritepos <= i /\ i < dwWritepos + n /\ i < dwWritepos + right
               THEN wire[1 + i - dwWritepos]
               ELSE IF i < n - right THEN wire[right + 1 + i]
               ELSE buf[i]]

(* AcceptEx completes with the first bytes of the connection. *)
AcceptSome(n) ==
  /\ AcceptData(n)
  /\ Scatter(n, Bufsize - AddrSpace)
  /\ UNCHANGED <<frames, got>>

RecvSome(n) ==
  /\ RecvData(n)
  /\ Scatter(n, dwRightsize)
  /\ UNCHANGED <<frames, got>>

(* One round of the frame loop: a complete frame goes to the command layer. *)
DeliverFrame ==
  /\ io = "loop" /\ sock = "open"
  /\ GetCmdDataLength.kind = "frame"
  /\ Read(HeaderEnd, GetCmdDataLength.len)
  /\ got' = Append(got, CopiedBytes(HeaderEnd, GetCmdDataLength.len - 2))
  /\ UNCHANGED <<sock, io, buf, frames, wire>>

(* GetCmdDataLength returns 0, with or without having closed the socket. *)
LoopDone ==
  /\ GetCmdDataLength.kind # "frame"
  /\ LoopEnds(GetCmdDataLength.kind = "close")
  /\ UNCHANGED <<buf, frames, wire, got>>

(* The zero-byte receive completes once data is there, or at the peer's end. *)
ZeroRecv ==
  /\ ZeroRecvDone
  /\ UNCHANGED <<buf, frames, wire, got>>

(* The WSABUFs that InitWSABUFS made have no room: 0 bytes are received. *)
RecvNoRoom ==
  /\ io = "recv" /\ dwRightsize + dwLeftsize = 0
  /\ CompletionFailed
  /\ UNCHANGED <<buf, frames, wire, got>>

(* The peer closes after its last byte, which is a receive of 0 bytes, or the
   connection breaks while an operation is posted. *)
ConnectionEnds ==
  /\ CompletionFailed
  /\ UNCHANGED <<buf, frames, wire, got>>

Next ==
  \/ \E n \in 1..Bufsize : AcceptSome(n) \/ RecvSome(n)
  \/ DeliverFrame
  \/ LoopDone
  \/ ZeroRecv
  \/ RecvNoRoom
  \/ ConnectionEnds

(* Workers keep taking packets from the completion port, and the network
   keeps delivering what the peer has sent. Nobody has to close. *)
Fairness ==
  /\ WF_vars(DeliverFrame) /\ WF_vars(LoopDone) /\ WF_vars(RecvNoRoom)
  /\ WF_vars(wire # <<>> /\ ZeroRecv)
  /\ WF_vars(\E n \in 1..Bufsize : AcceptSome(n) \/ RecvSome(n))

Spec == Init /\ [][Next]_vars
FairSpec == Spec /\ Fairness

-----------------------------------------------------------------------------
(* How many bytes the frames from number k on have. *)
BytesFrom(k) == Len(StreamFrom(frames, k))

Deliverable(f) == WellFormed(f) /\ Fits(f)
Conforming == \A i \in DOMAIN frames : Deliverable(frames[i])

(* The command layer gets exactly the data of the frames the client sent, in
   their order, whole and once, up to the first damaged or too long one:
   however the stream was cut into receives and wherever it wrapped,
   GetCmdDataLength and Read never deliver anything else. *)
FrameIntegrity ==
  /\ Len(got) <= Len(frames)
  /\ \A i \in DOMAIN got : Deliverable(frames[i]) /\ got[i] = frames[i].data

(* The parser and the ring agree on where the next frame starts: what is
   unread is what has arrived since the last delivered frame. *)
PositionsMatchStream ==
  sock = "open" => Unread = BytesFrom(Len(got) + 1) - Len(wire)

(* Before a worker waits for more bytes it has delivered every frame that is
   complete: the loop of the completion handler never leaves one behind for
   a receive that may not come. *)
NoFrameLeftBehind ==
  (io \in {"zero", "recv"} /\ Len(got) < Len(frames))
     => Len(wire) > BytesFrom(Len(got) + 2)

(* A client that only sends well-formed frames that fit is never cut off:
   what the comment on the mark test says is the reason to close.  The
   program does close when one byte arrives just past the end of the buffer. *)
WellFormedNotClosed == Conforming => sock = "open"

(* The only ways a conforming client is cut off: its header wraps and has not
   arrived whole, and the code judges it by cells nothing was received into.
   Either all the frames so far end exactly at the end of the buffer and one
   byte of the next has arrived, so that such a cell is its second mark byte;
   or such cells make up a length within 8 of the limit. *)
ClosedOnlyAtSeam ==
  (Conforming /\ sock = "closed") =>
    /\ dwWritepos <= dwReadpos /\ Unread < 6
    /\ \/ dwReadpos = Bufsize /\ dwWritepos = 1
       \/ FrameLen(subchar) + 8 >= Dword

(* A frame that is damaged, or longer than the whole buffer, ends the
   session: the ring never waits for ever, full, for its rest. *)
BadFrameEndsSession ==
  (Len(got) < Len(frames) /\ ~Deliverable(frames[Len(got) + 1])) ~> (io = "ended")

(* The bytes refine the positions: every step the parser takes on real bytes
   is a step module RecvRing allows, so what holds of the ring holds here. *)
RingRefined == RingSpec
=============================================================================
