---------------------------- MODULE MCAesdDriver ----------------------------
(* Two threads, a buffer of two commands, and enough memory for a device    *)
(* that is full and has lost one block.                                    *)
EXTENDS AesdDriver, TLC

CONSTANTS a, nl

\* A piece of a command, the end of one, and an end with a byte after it.
MCChunk == {<<a>>, <<nl>>, <<nl, a>>}

\* The allocator does not care which block it hands out.
MCSymmetry == Permutations(Block) \cup Permutations(Thread)
=============================================================================
