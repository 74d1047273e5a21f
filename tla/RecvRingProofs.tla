--------------------------- MODULE RecvRingProofs ---------------------------
(***************************************************************************)
(* Proofs about the receive ring, for every buffer size and every frame    *)
(* length.  RingInv is the inductive invariant: the types, the meaning of  *)
(* the two flags, no bytes in the ring while AcceptEx is pending, and what *)
(* InitRLsize computed while a receive is pending.                         *)
(***************************************************************************)
EXTENDS RecvRing, TLAPS

(* Before the first receive the ring is as Init left it. *)
AcceptClean ==
  io = "accept" =>
    dwWritepos = 0 /\ dwReadpos = 0 /\ dwRightsize = 0 /\ bEmpty /\ ~bFull

(* While a receive is posted the segment sizes are those of InitRLsize. *)
SegmentsFresh ==
  io = "recv" =>
    /\ bFull => dwRightsize = 0 /\ dwLeftsize = 0
    /\ ~bFull /\ dwReadpos <= dwWritepos =>
         dwRightsize = Bufsize - dwWritepos /\ dwLeftsize = dwReadpos
    /\ ~bFull /\ dwReadpos > dwWritepos =>
         dwRightsize = dwReadpos - dwWritepos /\ dwLeftsize = 0

RingInv == RingTypeOK /\ FlagsAgree /\ AcceptClean /\ SegmentsFresh

(* The unread count is a natural number no larger than the buffer. *)
LEMMA UnreadBound ==
  ASSUME RingTypeOK, FlagsAgree
  PROVE  Unread \in 0..Bufsize
BY RingAssumption DEF RingTypeOK, FlagsAgree, Unread

(* The ring starts empty and clean. *)
LEMMA RingInitInv == RingInit => RingInv
<1> SUFFICES ASSUME RingInit PROVE RingInv
  OBVIOUS
<1>1. /\ bFull \in BOOLEAN /\ bEmpty \in BOOLEAN /\ ~bFull /\ bEmpty
      /\ sock \in {"open", "closed"} /\ io \in Stages /\ io # "recv"
  BY Zenon DEF RingInit, Stages
<1>2. dwWritepos = 0 /\ dwReadpos = 0 /\ dwRightsize = 0 /\ dwLeftsize = 0
  BY DEF RingInit
<1> QED
  BY <1>1, <1>2, RingAssumption
  DEF RingInv, RingTypeOK, FlagsAgree, AcceptClean, SegmentsFresh

(* The assignments to the flags, as equivalences. *)
LEMMA InitWRposFlags ==
  ASSUME NEW n, ~bFull, InitWRpos(n)
  PROVE  /\ bFull' \in BOOLEAN /\ (bFull' <=> dwWritepos' = dwReadpos)
         /\ bEmpty' \in BOOLEAN /\ ~bEmpty'
BY Zenon DEF InitWRpos

(* The same of Read: never full after it, and empty when it has caught up. *)
LEMMA ReadFlags ==
  ASSUME NEW r, NEW n, Read(r, n)
  PROVE  /\ bFull' \in BOOLEAN /\ ~bFull'
         /\ bEmpty' \in BOOLEAN /\ (bEmpty' <=> dwReadpos' = dwWritepos)
BY Zenon DEF Read

(* InitWRpos advances the write position inside the buffer and leaves the
   flags meaningful, if n does not exceed the free bytes. *)
LEMMA InitWRposInv ==
  ASSUME RingInv, NEW n \in Nat, n > 0, ~bFull, InitWRpos(n),
         \/ io = "accept" /\ n <= Bufsize
         \/ io = "recv" /\ n <= dwRightsize + dwLeftsize
  PROVE  /\ dwWritepos' \in 0..Bufsize /\ dwReadpos' \in 0..Bufsize
         /\ dwRightsize' \in 0..Bufsize /\ dwLeftsize' \in 0..Bufsize
         /\ FlagsAgree'
<1>1. /\ dwWritepos' = IF n > dwRightsize THEN n - dwRightsize ELSE dwWritepos + n
      /\ UNCHANGED <<dwReadpos, dwRightsize, dwLeftsize>>
  BY DEF InitWRpos
<1>2. CASE io = "accept"
  BY <1>1, <1>2, InitWRposFlags, RingAssumption
  DEF RingInv, RingTypeOK, FlagsAgree, AcceptClean
<1>3. CASE io = "recv"
  BY <1>1, <1>3, InitWRposFlags, RingAssumption
  DEF RingInv, RingTypeOK, FlagsAgree, SegmentsFresh
<1> QED BY <1>2, <1>3

(* A frame that is in the ring is read without leaving the buffer; the count
   of unread bytes drops by exactly its length. *)
LEMMA ReadFrame ==
  ASSUME RingTypeOK, FlagsAgree, NEW frameLen \in Nat,
         frameLen + 8 <= Unread, Read(HeaderEnd, frameLen + 2)
  PROVE  /\ dwReadpos' \in 0..Bufsize
         /\ FlagsAgree'
         /\ Unread' = Unread - (frameLen + 8)
<1> USE RingAssumption DEF RingTypeOK
<1>0. ~bEmpty /\ Bufsize \in Nat
  BY DEF Unread
<1>a. /\ dwReadpos' = ReadEnd(HeaderEnd, frameLen + 2)
      /\ UNCHANGED <<dwWritepos, dwRightsize, dwLeftsize>>
  BY DEF Read
<1>b. /\ bFull' \in BOOLEAN /\ ~bFull'
      /\ bEmpty' \in BOOLEAN /\ (bEmpty' <=> dwReadpos' = dwWritepos)
  BY ReadFlags
<1>1. CASE dwWritepos > dwReadpos
  <2>1. /\ HeaderEnd = dwReadpos + 6
        /\ frameLen + 8 <= dwWritepos - dwReadpos
    BY <1>0, <1>1 DEF HeaderEnd, Unread
  <2>2. dwReadpos' = dwReadpos + 8 + frameLen
    BY <2>1, <1>1, <1>a DEF ReadEnd
  <2>3. dwReadpos' \in 0..Bufsize /\ dwReadpos' <= dwWritepos
    BY <1>0, <1>1, <2>1, <2>2
  <2>4. FlagsAgree'
    BY <1>a, <1>b DEF FlagsAgree
  <2>5. Unread = dwWritepos - dwReadpos
    BY <1>0, <1>1 DEF Unread
  <2>6. Unread' = dwWritepos - dwReadpos'
    <3>1. CASE dwReadpos' = dwWritepos
      BY <1>a, <1>b, <3>1 DEF Unread
    <3>2. CASE dwReadpos' < dwWritepos
      BY <1>a, <1>b, <3>2 DEF Unread
    <3> QED BY <2>3, <3>1, <3>2
  <2> QED BY <2>1, <2>2, <2>3, <2>4, <2>5, <2>6
<1>2. CASE dwWritepos <= dwReadpos
  <2>1. frameLen + 8 <= (Bufsize - dwReadpos) + dwWritepos
    BY <1>0, <1>2 DEF Unread
  <2>2. CASE dwReadpos + 8 + frameLen < Bufsize
    <3>1. dwReadpos' = dwReadpos + 8 + frameLen
      BY <1>2, <1>a, <2>1, <2>2 DEF ReadEnd, HeaderEnd
    <3> QED BY <1>0, <1>2, <1>a, <1>b, <2>1, <2>2, <3>1 DEF FlagsAgree, Unread
  <2>3. CASE dwReadpos + 8 + frameLen >= Bufsize
    <3>1. CASE dwReadpos + 6 > Bufsize
      <4>1. HeaderEnd = dwReadpos + 6 - Bufsize
        BY <1>2, <3>1 DEF HeaderEnd
      <4>2. dwReadpos' = dwReadpos + 8 + frameLen - Bufsize
        BY <1>2, <1>a, <2>1, <3>1, <4>1 DEF ReadEnd
      <4> QED BY <1>0, <1>2, <1>a, <1>b, <2>1, <2>3, <4>2 DEF FlagsAgree, Unread
    <3>2. CASE dwReadpos + 6 <= Bufsize
      <4>1. HeaderEnd = dwReadpos + 6
        BY <1>2, <3>2 DEF HeaderEnd
      <4>2. dwReadpos' = dwReadpos + 8 + frameLen - Bufsize
        BY <1>2, <1>a, <2>1, <2>3, <3>2, <4>1 DEF ReadEnd
      <4> QED BY <1>0, <1>2, <1>a, <1>b, <2>1, <2>3, <4>2 DEF FlagsAgree, Unread
    <3> QED BY <3>1, <3>2
  <2> QED BY <2>2, <2>3
<1> QED BY <1>1, <1>2

(* The inductive step, action by action. *)
LEMMA RingStep == RingInv /\ [RingNext]_ringVars => RingInv'
<1> SUFFICES ASSUME RingInv, [RingNext]_ringVars PROVE RingInv'
  OBVIOUS
<1> USE RingAssumption
<1>0. RingTypeOK /\ FlagsAgree
  BY DEF RingInv
<1>1. ASSUME NEW n \in 1..Bufsize, AcceptData(n) PROVE RingInv'
  <2>1. n \in Nat /\ n > 0 /\ n <= Bufsize /\ io = "accept" /\ ~bFull /\ InitWRpos(n)
    BY <1>1 DEF AcceptData, RingInv, AcceptClean
  <2>2. io' = "loop" /\ sock' = sock
    BY <1>1 DEF AcceptData
  <2>3. /\ dwWritepos' \in 0..Bufsize /\ dwReadpos' \in 0..Bufsize
        /\ dwRightsize' \in 0..Bufsize /\ dwLeftsize' \in 0..Bufsize
        /\ FlagsAgree'
    BY <2>1, InitWRposInv
  <2>4. bFull' \in BOOLEAN /\ bEmpty' \in BOOLEAN
    BY <2>1, InitWRposFlags
  <2> QED
    BY <1>0, <2>2, <2>3, <2>4
    DEF RingInv, RingTypeOK, AcceptClean, SegmentsFresh, Stages
<1>2. ASSUME NEW n \in 1..Bufsize, RecvData(n) PROVE RingInv'
  <2>1. n \in Nat /\ n > 0 /\ io = "recv" /\ n <= dwRightsize + dwLeftsize /\ InitWRpos(n)
    BY <1>0, <1>2 DEF RecvData, RingTypeOK
  <2>2. io' = "loop" /\ sock' = sock
    BY <1>2 DEF RecvData
  <2>3. ~bFull
    BY <2>1 DEF RingInv, SegmentsFresh
  <2>4. /\ dwWritepos' \in 0..Bufsize /\ dwReadpos' \in 0..Bufsize
        /\ dwRightsize' \in 0..Bufsize /\ dwLeftsize' \in 0..Bufsize
        /\ FlagsAgree'
    BY <2>1, <2>3, InitWRposInv
  <2>5. bFull' \in BOOLEAN /\ bEmpty' \in BOOLEAN
    BY <2>1, <2>3, InitWRposFlags
  <2> QED
    BY <1>0, <2>2, <2>4, <2>5
    DEF RingInv, RingTypeOK, AcceptClean, SegmentsFresh, Stages
<1>3. ASSUME NEW frameLen \in 0..Bufsize, TakeFrame(frameLen) PROVE RingInv'
  <2>1. /\ frameLen \in Nat /\ frameLen + 8 <= Unread
        /\ Read(HeaderEnd, frameLen + 2) /\ io = "loop" /\ UNCHANGED <<sock, io>>
    BY <1>3 DEF TakeFrame
  <2>2. dwReadpos' \in 0..Bufsize /\ FlagsAgree'
    BY <1>0, <2>1, ReadFrame
  <2>3. bFull' \in BOOLEAN /\ bEmpty' \in BOOLEAN
    BY <2>1, ReadFlags
  <2>4. UNCHANGED <<dwWritepos, dwRightsize, dwLeftsize>>
    BY <2>1 DEF Read
  <2> QED
    BY <1>0, <2>1, <2>2, <2>3, <2>4
    DEF RingInv, RingTypeOK, AcceptClean, SegmentsFresh
<1>4. ASSUME NEW close \in BOOLEAN, LoopEnds(close) PROVE RingInv'
  <2>1. /\ io' \in {"zero", "ended"} /\ sock' \in {"open", "closed"}
        /\ UNCHANGED ring
    BY <1>4 DEF LoopEnds
  <2> QED
    BY <1>0, <2>1
    DEF ring, RingInv, RingTypeOK, FlagsAgree, AcceptClean, SegmentsFresh, Stages
<1>5. CASE ZeroRecvDone
  <2>1. /\ io' \in {"recv", "ended"} /\ sock' = sock
        /\ UNCHANGED <<dwWritepos, dwReadpos, bFull, bEmpty>>
    BY <1>5 DEF ZeroRecvDone, InitRLsize
  <2>2. /\ bFull => dwRightsize' = 0 /\ dwLeftsize' = 0
        /\ ~bFull /\ dwReadpos <= dwWritepos =>
             dwRightsize' = Bufsize - dwWritepos /\ dwLeftsize' = dwReadpos
        /\ ~bFull /\ dwReadpos > dwWritepos =>
             dwRightsize' = dwReadpos - dwWritepos /\ dwLeftsize' = 0
    BY <1>0, <1>5 DEF ZeroRecvDone, InitRLsize, RingTypeOK
  <2>3. dwRightsize' \in 0..Bufsize /\ dwLeftsize' \in 0..Bufsize
    BY <1>0, <2>2 DEF RingTypeOK
  <2>4. RingTypeOK'
    BY <1>0, <2>1, <2>3 DEF RingTypeOK, Stages
  <2>5. FlagsAgree'
    BY <1>0, <2>1 DEF FlagsAgree
  <2>6. SegmentsFresh'
    BY <2>1, <2>2 DEF SegmentsFresh
  <2>7. AcceptClean'
    BY <2>1 DEF AcceptClean
  <2> QED BY <2>4, <2>5, <2>6, <2>7 DEF RingInv
<1>6. CASE CompletionFailed
  BY <1>0, <1>6
  DEF CompletionFailed, ring, RingInv, RingTypeOK, FlagsAgree, AcceptClean,
      SegmentsFresh, Stages
<1>7. CASE UNCHANGED ringVars
  BY <1>7
  DEF ringVars, ring, RingInv, RingTypeOK, FlagsAgree, AcceptClean, SegmentsFresh
<1> QED
  BY <1>1, <1>2, <1>3, <1>4, <1>5, <1>6, <1>7 DEF RingNext

(* RingInv holds in every reachable state of the ring. *)
LEMMA RingInvariant == RingSpec => []RingInv
BY RingInitInv, RingStep, PTL DEF RingSpec

-----------------------------------------------------------------------------
(* For every buffer size the positions and segment sizes that InitWRpos,
   InitRLsize, GetCmdDataLength and Read compute stay inside the buffer. *)
THEOREM RingTypeCorrect == RingSpec => []RingTypeOK
<1>1. RingInv => RingTypeOK
  BY DEF RingInv
<1> QED BY <1>1, RingInvariant, PTL

(* bEmpty and bFull always tell an empty ring from a full one. *)
THEOREM RingFlagsAgree == RingSpec => []FlagsAgree
<1>1. RingInv => FlagsAgree
  BY DEF RingInv
<1> QED BY <1>1, RingInvariant, PTL

(* A posted receive writes no unread byte and is offered every free one. *)
THEOREM RingRecvNeverOverwrites == RingSpec => []RecvNeverOverwrites
<1>1. RingInv => RecvNeverOverwrites
  <2> SUFFICES ASSUME RingInv, io = "recv",
                      NEW i \in 0..(Bufsize - 1)
               PROVE  i \in PostedCells <=> ~(i \in UnreadCells)
    BY DEF RecvNeverOverwrites, PostedCells, UnreadCells
  <2> USE RingAssumption DEF RingInv, RingTypeOK, FlagsAgree, SegmentsFresh,
                             PostedCells, UnreadCells
  <2>1. CASE bFull
    BY <2>1
  <2>2. CASE ~bFull /\ dwReadpos <= dwWritepos
    BY <2>2
  <2>3. CASE ~bFull /\ dwReadpos > dwWritepos
    BY <2>3
  <2> QED BY <2>1, <2>2, <2>3
<1> QED BY <1>1, RingInvariant, PTL

(* Each round of the frame loop consumes a whole frame, so the loop ends. *)
THEOREM RingLoopConsumes == RingSpec => LoopConsumes
<1>1. RingInv /\ [RingNext]_ringVars
        => [(io = "loop" /\ io' = "loop") => Unread' <= Unread - 8]_ringVars
  <2> SUFFICES ASSUME RingInv, RingNext, io = "loop", io' = "loop"
               PROVE  Unread' <= Unread - 8
    OBVIOUS
  <2>1. PICK frameLen \in 0..Bufsize : TakeFrame(frameLen)
    BY DEF RingNext, AcceptData, RecvData, LoopEnds, ZeroRecvDone, CompletionFailed
  <2>2. frameLen \in Nat /\ frameLen + 8 <= Unread /\ Read(HeaderEnd, frameLen + 2)
    BY <2>1 DEF TakeFrame
  <2>3. Unread' = Unread - (frameLen + 8)
    BY <2>2, ReadFrame DEF RingInv
  <2>4. Unread \in 0..Bufsize
    BY UnreadBound DEF RingInv
  <2> QED BY <2>2, <2>3, <2>4, RingAssumption
<1> QED BY <1>1, RingInvariant, PTL DEF RingSpec, LoopConsumes
=============================================================================
