---------------------------- MODULE MCN1qlRuntime -----------------------------
(***************************************************************************)
(* Instances of N1qlRuntime for TLC.  Identity hashes are the objects      *)
(* themselves (all different) or one value for all: V8 does not guarantee  *)
(* that identity hashes are unique.                                        *)
(***************************************************************************)
EXTENDS N1qlRuntime, TLC

Swaps == Permutations(Objects)

OwnIds == Objects
OwnIdHash == [o \in Objects |-> o]

OneId == {"h"}
OneIdHash == [o \in Objects |-> "h"]
===============================================================================
