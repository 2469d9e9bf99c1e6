------------------------- MODULE MCTranspiledLoops -------------------------
(***************************************************************************)
(* TranspiledLoops over small families of nests.  Labels and query         *)
(* variables are interchangeable.                                          *)
(***************************************************************************)
EXTENDS TranspiledLoops, TLC

Symmetry == Permutations(Labels) \cup Permutations(Queries)

============================================================================
