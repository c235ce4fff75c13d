-------------------------------- MODULE MCRx --------------------------------
(* Small instances of ZnpRx for TLC: bytes of two bits. *)
EXTENDS ZnpRx, Bitwise

MCBytes == 0 .. 3
MCXor(a, b) == a ^^ b
MCSof == 3

\* A frame without payload, one whose payload is an SOF, and one of the greatest
\* length.
MCFrames == {Frame(0, 2, 0, <<>>), Frame(1, 2, 1, <<3>>), Frame(2, 1, 2, <<0, 1>>)}
=============================================================================
