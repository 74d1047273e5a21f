---------------------------- MODULE MCNcSession ----------------------------
(***************************************************************************)
(* Requests of a few cells for BUFFER_OBJs of three.                       *)
(***************************************************************************)
EXTENDS NcSession

\* A conforming request that fills the buffer, and one that goes on after the
\* end its header announces, and does not fit: it is complete as long as two
\* of its cells have arrived, exceeds its length with the third, and has no
\* room for the fourth.
MCRequests ==
  { <<LenLine(1), EndLine, Text>>,
    <<LenLine(0), EndLine, Text, Text>> }

\* A command that leaves behind what CheckNCData looks for first.
MCCommands == { <<Text, EndLine>> }
=============================================================================
