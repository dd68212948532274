--------------------------- MODULE MCPassThrough ---------------------------
(* Four addresses of three bits.  The demultiplexer looks at two bits: two *)
(* addresses share an output, and one output is never used.  The window of *)
(* the remapper holds two of them, 2 and 3, and its target overlaps it:    *)
(* address 2 is moved to 3, which is in the window again.                  *)
EXTENDS PassThrough
=============================================================================
