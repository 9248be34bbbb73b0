------------------------ MODULE MCAesdCircularBuffer ------------------------
(* The buffer at its real size, ten slots, with commands of one and of two *)
(* bytes.                                                                  *)
EXTENDS AesdCircularBuffer

CONSTANTS short, long

MCEntry == {[buffptr |-> short, size |-> 1], [buffptr |-> long, size |-> 2]}
=============================================================================
