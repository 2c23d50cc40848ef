--------------------------- MODULE MCLinkReceiver ---------------------------
(* Blocks of five octets.  Frames without user data, with one block as long  *)
(* as a header block, with exactly one full block, with two blocks, with      *)
(* sync octets as data; malformed ones whose length is too small or large;    *)
(* and frames whose last block is the image of a header: of one without user  *)
(* data, of one with more than the frame itself has, of one refused.          *)
EXTENDS LinkReceiver

MCOctet == {5, 64, 1, 2, 9}

F(data) == [length |-> MinLength + Len(data), data |-> data]

WellFormedFrames ==
  { F(<<>>), F(<<1, 5, 64, 2>>), F(<<1, 64, 1, 1, 5>>), F(<<1, 1, 1, 1, 1, 5>>) }

MalformedFrames ==
  { [length |-> MinLength - 1, data |-> <<>>],
    F(<<2, 2, 5, 64, 2, 2, 2>>) }

ImageFrames == { F(<<5, 64, 5, 1>>), F(<<5, 64, 9, 2>>), F(<<5, 64, 1, 1>>) }

MCFrame == WellFormedFrames \cup MalformedFrames \cup ImageFrames

\* A frame with an image of a header, one with as much data, and one without.
MistakenFrames == { F(<<5, 64, 5, 1>>), F(<<1, 5, 64, 2>>), F(<<>>) }
=============================================================================
