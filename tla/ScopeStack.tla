------------------------------- MODULE ScopeStack -----------------------------
(***************************************************************************)
(* The private fields of the N1qlQuery objects that say which of an        *)
(* object's runs is the innermost (SetUniqueHash, GetUniqueHash,           *)
(* PushScopeStack, PopScopeStack and GetBaseHash of n1ql.cpp).             *)
(* The scope stack is a v8::Map from 0 .. n-1 to hashes, kept in a private *)
(* field whose name is the object's base hash; here it is a sequence, and  *)
(* hasBase says whether the private field "hash" is set.                   *)
(***************************************************************************)
EXTENDS HashedStack

CONSTANTS
  Objects,                 \* the N1qlQuery objects
  IdHash,                  \* IdHash[o] is o.GetIdentityHash()
  MaxScope                 \* bound: the largest scope stack explored

ASSUME IdHashAssumption == IdHash \in [Objects -> HashIds]
ASSUME MaxScopeAssumption == MaxScope \in Nat

VARIABLES hasBase, scope
scopeVars == <<hasBase, scope>>

ScopeTypeOK ==
  /\ hasBase \in [Objects -> BOOLEAN]
  /\ scope \in [Objects -> Seq(Hash)]

ScopeInit ==
  /\ hasBase = [o \in Objects |-> FALSE]
  /\ scope = [o \in Objects |-> <<>>]

PushScopeStack(o, hash) == scope' = [scope EXCEPT ![o] = Append(@, hash)]

\* Mutant: the oldest entry is deleted.
PopOldest(o) ==
  scope' = [scope EXCEPT ![o] = IF @ = <<>> THEN <<>> ELSE Tail(@)] /\ UNCHANGED hasBase

\* Map::Delete of key -1 changes nothing, so popping an empty stack is harmless.
PopScopeStack(o) ==
  /\ scope' = [scope EXCEPT ![o] = IF @ = <<>> THEN <<>>
                                   ELSE SubSeq(@, 1, Len(@) - 1)]
  /\ UNCHANGED hasBase

\* The hash that the next run of o gets.
UniqueHash(o) == AppendStackIndex(IdHash[o])

\* The first run also stores its hash as the base hash.
SetUniqueHash(o) ==
  /\ PushScopeStack(o, UniqueHash(o))
  /\ hasBase' = [hasBase EXCEPT ![o] = TRUE]

\* Mutant: the base hash is used in place of the innermost run's hash.
FrameOfBaseHash(o) == IF scope[o] = <<>> THEN Absent ELSE Get(scope[o][1])

\* The frame that GetUniqueHash leads to.  With an empty scope stack Map::Get
\* yields undefined, whose string "undefined" is no hash of a query.
FrameOfUniqueHash(o) ==
  IF scope[o] = <<>> THEN Absent ELSE Get(scope[o][Len(scope[o])])
===============================================================================
