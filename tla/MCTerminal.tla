----------------------------- MODULE MCTerminal -----------------------------
(* Instances of Terminal for TLC.                                          *)
EXTENDS Terminal

\* A one-byte read (do_common_intr waits for a key), one that the count may end
\* with bytes to copy, and one larger than the buffer (the shell and the programs
\* read 1023 bytes or more)
Sizes == {1, 2, BUFFER_SIZE + 1}
=============================================================================
