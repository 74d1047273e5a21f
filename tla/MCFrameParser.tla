--------------------------- MODULE MCFrameParser ---------------------------
(***************************************************************************)
(* A 16-byte ring, bytes of base 16, streams of up to MaxFrames frames.    *)
(***************************************************************************)
EXTENDS FrameParser

CONSTANT MaxFrames

Good(d) == [data |-> d, wrong |-> "none"]

\* Frames of 8, 13 and 16 bytes; the last is as long as the ring, and carries
\* the marks as data.
MCGoodFrames ==
  { Good(<<>>), Good(<<7, 3, 1, 2, 5>>), Good(<<MarkFB, MarkFC, Cr, 3, 1, 2, 3, 4>>) }

\* All streams of at most MaxFrames frames, one of empty frames, which end at
\* the end of the ring, and one whose data bytes are left where a header that
\* wraps is read as a length near the limit.
MCGoodScripts ==
  UNION { [1..n -> MCGoodFrames] : n \in 0..MaxFrames }
    \cup { [i \in 1..4 |-> Good(<<>>)],
           <<Good(<<1, 1, 1, 1>>), Good(<<8, 15, 15, 15>>), Good(<<>>), Good(<<>>)>> }

\* Damaged frames, and one that is longer than the ring.
MCLastFrames ==
  { [data |-> d, wrong |-> w] : d \in {<<1, 2>>}, w \in {"mark", "sum", "tail"} }
    \cup { Good(<<1, 2, 3, 4, 5, 6, 7, 8, 9>>) }
=============================================================================
