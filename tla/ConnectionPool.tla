---------------------------- MODULE ConnectionPool ----------------------------
(***************************************************************************)
(* The pool of libcouchbase instances (class ConnectionPool, n1ql.h and    *)
(* n1ql.cpp).  Instances are created on demand up to Capacity, handed out  *)
(* in FIFO order and put back when the query that used them has ended.     *)
(* The n-th instance that AddResource creates is the number n.             *)
(*                                                                         *)
(* An instance whose lcb_connect or bootstrap failed is pushed all the     *)
(* same (the code only logs): the pool cannot tell it apart, and a query   *)
(* on it fails to be scheduled, which N1qlRuntime models, as it does an    *)
(* lcb_create that fails.                                                  *)
(***************************************************************************)
EXTENDS Naturals, Sequences

CONSTANT Capacity          \* the largest number of instances (6 in main.cpp)

ASSUME CapacityAssumption == Capacity \in Nat \ {0}

VARIABLES
  instances,               \* std::queue<lcb_t> instances: the idle instances
  inst_count               \* how many instances were created

poolVars == <<instances, inst_count>>

Instance == 1 .. Capacity

PoolTypeOK ==
  /\ instances \in Seq(Instance)
  /\ inst_count \in 0 .. Capacity

PoolInit ==
  /\ instances = <<>>
  /\ inst_count = 0

\* The condition under which GetResource throws "Maximum pool capacity reached".
Exhausted ==
  /\ instances = <<>>
  /\ inst_count >= Capacity

\* GetResource creates an instance.
NeedsResource == instances = <<>> /\ inst_count < Capacity

\* Create an instance; GetResource pops it from the queue at once.
AddResource(inst) ==
  /\ inst = inst_count + 1
  /\ inst_count' = inst_count + 1
  /\ instances' = <<>>

GetResource(inst) ==
  \/ NeedsResource /\ AddResource(inst)
  \/ /\ instances # <<>>
     /\ inst = Head(instances)
     /\ instances' = Tail(instances)
     /\ UNCHANGED inst_count

\* Mutant: the instance of a finished query is forgotten.
RestoreNothing(inst) == UNCHANGED poolVars

Restore(inst) ==
  /\ instances' = Append(instances, inst)
  /\ UNCHANGED inst_count

(***************************************************************************)
(* What the pool must keep true, given the sequence `held' of the          *)
(* instances that are out: nothing is lost and nothing is in two places.   *)
(***************************************************************************)
PoolAccounts(held) ==
  /\ Len(instances) + Len(held) = inst_count
  /\ \A i, j \in 1 .. Len(instances) : instances[i] = instances[j] => i = j
  /\ \A i, j \in 1 .. Len(held) : held[i] = held[j] => i = j
  /\ \A i \in 1 .. Len(instances), j \in 1 .. Len(held) : instances[i] # held[j]
  /\ \A i \in 1 .. Len(instances) : instances[i] <= inst_count
  /\ \A i \in 1 .. Len(held) : held[i] <= inst_count
===============================================================================
