----------------------------- MODULE MCNPFCapture -----------------------------
(***************************************************************************)
(* Small instances of NPFCapture for TLC.  Sizes are bytes of a scaled     *)
(* down driver: what matters is how they compare, not their values.        *)
(***************************************************************************)
EXTENDS NPFCapture

\* 1 byte of header buffer and 1 of lookahead: all of it, so no transfer
ShortFrame == [hdr |-> 1, look |-> 1, total |-> 2]
\* the last byte needs NdisTransferData unless the filter truncates it
LongFrame == [hdr |-> 1, look |-> 1, total |-> 3]

MCShortFrames == {ShortFrame}
MCLongFrames == {LongFrame}
MCBothFrames == {ShortFrame, LongFrame}
===============================================================================
