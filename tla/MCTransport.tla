---------------------------- MODULE MCTransport ----------------------------
(* Small instance of Transport for TLC: fragments of every length that      *)
(* matters (empty, one segment, exactly MaxFragment, above it), each made   *)
(* of bytes of its own, so that a mixture of two is never equal to either.  *)
EXTENDS Transport

Frag(tag, n) == [i \in 1 .. n |-> 10 * tag + i]

MCFragments == {Frag(0, 0), Frag(1, 1), Frag(3, 3), Frag(4, 4), Frag(5, 5)}

MCByte == UNION {{f[i] : i \in 1 .. Len(f)} : f \in MCFragments}
=============================================================================
