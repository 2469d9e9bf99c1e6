-------------------------- MODULE N1qlRuntimeProofs ---------------------------
(***************************************************************************)
(* Proofs about N1qlRuntime, for any objects, identity hashes (colliding   *)
(* or not), capacity, codes and bounds.                                    *)
(*                                                                         *)
(* TypeOK is not inductive: a frame fits the bound of the hashed stack     *)
(* only because no more queries run than there are instances, and a row    *)
(* counter fits its bound only because it equals what the server has sent. *)
(* IInv joins the invariants that hold each other up.                      *)
(***************************************************************************)
EXTENDS N1qlRuntime, SequenceLemmas, FiniteSetTheorems

\* The unique hash of a run holds the depth at which it was started.
HashHoldsDepth ==
  \A i \in 1 .. Depth : calls[i].hash = <<IdHash[calls[i].obj], i - 1>>

IInv ==
  /\ TypeOK
  /\ PoolConserved
  /\ HashHoldsDepth
  /\ StackMirrorsCalls
  /\ CookiesPointToRuns
  /\ RowsReachTheirQuery
  /\ JsRunsInsideIterations

-------------------------------------------------------------------------------
(* Lemmas on the two operations on the call stack and the hashed stack.    *)

\* At any moment no more queries run than instances were created.
LEMMA DepthBound ==
  ASSUME IInv
  PROVE  /\ Depth \in Nat /\ Len(instances) \in Nat /\ inst_count \in Nat
         /\ Depth + Len(instances) = inst_count
         /\ inst_count <= Capacity /\ Capacity \in Nat /\ Capacity <= MaxDepth
         /\ MaxDepth \in Nat
<1>1. Depth \in Nat /\ Len(instances) \in Nat /\ inst_count \in 0 .. Capacity
  BY LenProperties DEF IInv, TypeOK, PoolTypeOK, Depth
<1>2. Len(Held) = Depth
  BY <1>1 DEF Held
<1>3. Len(instances) + Depth = inst_count
  BY <1>2 DEF IInv, PoolConserved, PoolAccounts
<1>4. QED
  BY <1>1, <1>3, CapacityAssumption, RuntimeAssumption, MaxDepthAssumption

\* The running queries hold instances of the pool.
LEMMA InstancesOfRuns ==
  ASSUME IInv
  PROVE  \A i \in 1 .. Depth : calls[i].inst \in Instance
<1>1. \A i \in 1 .. Depth : calls[i] \in Call
  BY ElementOfSeq DEF IInv, TypeOK, Depth
<1>2. QED
  BY <1>1 DEF Call

\* The pool's account, without the sequence of held instances.
LEMMA PoolFacts ==
  ASSUME IInv
  PROVE  /\ \A i, j \in 1 .. Depth : calls[i].inst = calls[j].inst => i = j
         /\ \A i, j \in 1 .. Len(instances) : instances[i] = instances[j] => i = j
         /\ \A i \in 1 .. Len(instances), j \in 1 .. Depth : instances[i] # calls[j].inst
         /\ \A i \in 1 .. Len(instances) : instances[i] \in 1 .. inst_count
         /\ \A i \in 1 .. Depth : calls[i].inst \in 1 .. inst_count
<1>1. Depth \in Nat /\ Len(Held) = Depth /\ \A i \in 1 .. Depth : Held[i] = calls[i].inst
  BY DepthBound DEF Held
<1>2. PoolAccounts(Held)
  BY DEF IInv, PoolConserved
<1>3. \A i \in 1 .. Len(instances) : instances[i] \in Instance
  BY ElementOfSeq DEF IInv, TypeOK, PoolTypeOK
<1>4. \A i \in 1 .. Depth : calls[i].inst \in Instance
  BY InstancesOfRuns
<1>5. inst_count \in Nat /\ Capacity \in Nat
  BY DepthBound
<1>6. QED
  BY <1>1, <1>2, <1>3, <1>4, <1>5 DEF PoolAccounts, Instance

\* The instance that GetResource hands out was idle or is new, the rest of the
\* queue stays idle, and there was room for one more query.
LEMMA GetResourceProperties ==
  ASSUME IInv, NEW inst \in Instance, GetResource(inst)
  PROVE  /\ Depth < Capacity
         /\ instances' \in Seq(Instance)
         /\ inst_count' \in 0 .. Capacity
         /\ Len(instances') + Depth + 1 = inst_count'
         /\ inst_count <= inst_count' /\ inst <= inst_count'
         /\ \A i \in 1 .. Depth : calls[i].inst # inst
         /\ \A i \in 1 .. Len(instances') :
              /\ instances'[i] # inst
              /\ instances'[i] <= inst_count'
              /\ \A j \in 1 .. Depth : instances'[i] # calls[j].inst
         /\ \A i, j \in 1 .. Len(instances') : instances'[i] = instances'[j] => i = j
<1>1. CASE instances = <<>> /\ inst_count < Capacity /\ AddResource(inst)
  <2>1. Len(instances) = 0 /\ instances' = <<>> /\ Len(instances') = 0
    BY <1>1, EmptySeq DEF AddResource
  <2>2. inst = inst_count + 1 /\ inst_count' = inst_count + 1
    BY <1>1 DEF AddResource
  <2>3. QED
    BY <1>1, <2>1, <2>2, DepthBound, PoolFacts
<1>2. CASE instances # <<>> /\ inst = Head(instances) /\ instances' = Tail(instances)
           /\ UNCHANGED inst_count
  <2>1. instances \in Seq(Instance)
    BY DEF IInv, TypeOK, PoolTypeOK
  <2>2. /\ inst = instances[1] /\ Len(instances) \in Nat \ {0}
        /\ instances' \in Seq(Instance) /\ Len(instances') = Len(instances) - 1
        /\ \A i \in 1 .. Len(instances') : instances'[i] = instances[i + 1]
    BY <1>2, <2>1, HeadTailProperties, EmptySeq
  <2>3. inst_count' = inst_count /\ inst_count \in 0 .. Capacity /\ Depth \in Nat
        /\ Len(instances) + Depth = inst_count /\ Capacity \in Nat
    BY <1>2, DepthBound
  <2>4. \A i \in 1 .. Len(instances') : i + 1 \in 1 .. Len(instances) /\ i + 1 # 1
    BY <2>2
  <2>5. 1 \in 1 .. Len(instances)
    BY <2>2
  <2>6. \A i \in 1 .. Depth : calls[i].inst # inst
    BY <2>2, <2>5, PoolFacts
  <2>7. \A i \in 1 .. Len(instances') :
           /\ instances'[i] # inst
           /\ instances'[i] <= inst_count'
           /\ \A j \in 1 .. Depth : instances'[i] # calls[j].inst
    <3>1. SUFFICES ASSUME NEW i \in 1 .. Len(instances')
                   PROVE  /\ instances'[i] # inst
                          /\ instances'[i] <= inst_count'
                          /\ \A j \in 1 .. Depth : instances'[i] # calls[j].inst
      OBVIOUS
    <3>2. instances'[i] = instances[i + 1]
      BY <2>2
    <3>3. i + 1 \in 1 .. Len(instances) /\ i + 1 # 1
      BY <2>4
    <3>4. instances[i + 1] # inst
      BY <2>2, <2>5, <3>3, PoolFacts
    <3>5. \A j \in 1 .. Depth : instances[i + 1] # calls[j].inst
      BY <3>3, PoolFacts
    <3>6. instances[i + 1] \in 1 .. inst_count
      BY <3>3, PoolFacts
    <3>7. instances[i + 1] <= inst_count'
      BY <2>3, <3>6
    <3>8. QED
      BY <3>2, <3>4, <3>5, <3>7
  <2>8. \A i, j \in 1 .. Len(instances') : instances'[i] = instances'[j] => i = j
    <3>1. SUFFICES ASSUME NEW i \in 1 .. Len(instances'), NEW j \in 1 .. Len(instances'),
                          instances'[i] = instances'[j]
                   PROVE  i = j
      OBVIOUS
    <3>2. i + 1 = j + 1
      BY <2>2, <2>4, <3>1, PoolFacts
    <3>3. QED
      BY <3>2
  <2>9. inst <= inst_count
    BY <2>2, <2>5, PoolFacts
  <2>10. Depth < Capacity /\ Len(instances') + Depth + 1 = inst_count'
    BY <2>2, <2>3
  <2>11. /\ instances' \in Seq(Instance) /\ inst_count' \in 0 .. Capacity
         /\ inst_count <= inst_count' /\ inst <= inst_count'
    BY <2>2, <2>3, <2>9
  <2>12. QED
    BY <2>6, <2>7, <2>8, <2>10, <2>11
<1>3. QED
  BY <1>1, <1>2 DEF GetResource, NeedsResource

-------------------------------------------------------------------------------
(* Each step preserves IInv.                                               *)

\* A query is started: one more frame, one instance less in the pool.
LEMMA StartPreservesIInv ==
  ASSUME IInv, NEW o \in Objects, NEW op \in {"iter", "exec"}, NEW inst \in Instance,
         ctl = "js", SetUniqueHash(o), StartQuery(o, op, inst), UNCHANGED jsVars
  PROVE  IInv'
<1> DEFINE h == UniqueHash(o)
<1> DEFINE c == [op |-> op, obj |-> o, hash |-> h, inst |-> inst, rows |-> 0,
                 meta |-> "none", exc |-> FALSE]
<1> DEFINE e == [hash |-> h, frame |-> Depth + 1]
<1>0. TypeOK
  BY DEF IInv
<1>1. GetResource(inst)
  BY DEF StartQuery
<1>2. Depth < Capacity /\ Depth + 1 \in Frame /\ Depth \in Nat /\ Depth + 1 <= Capacity
      /\ Capacity \in Nat /\ MaxDepth \in Nat
  BY <1>1, GetResourceProperties, DepthBound DEF Frame
<1>3. Size = Depth /\ qstack \in Seq(QueryHandler) /\ Len(qstack) = Depth
  BY <1>0 DEF IInv, StackMirrorsCalls, Size, TypeOK, HashedStackTypeOK
<1>4. h = <<IdHash[o], Depth>> /\ h \in Hash
  <2>1. h = <<IdHash[o], Depth>>
    BY <1>3 DEF UniqueHash, AppendStackIndex
  <2>2. IdHash[o] \in HashIds /\ Depth \in 0 .. MaxDepth
    BY <1>2, IdHashAssumption DEF Frame
  <2> HIDE DEF h
  <2>3. QED
    BY <2>1, <2>2 DEF Hash
<1>5. c \in Call /\ e \in QueryHandler
  BY <1>2, <1>4, RuntimeAssumption DEF Call, QueryHandler, Metadata
<1>6. calls' = Append(calls, c) /\ calls \in Seq(Call) /\ Depth = Len(calls)
  BY <1>0 DEF StartQuery, TypeOK, Depth
<1>7. qstack' = Append(qstack, e) /\ qmap' = [qmap EXCEPT ![h] = Depth + 1]
  BY DEF StartQuery, Push
<1> HIDE DEF c, e, h
<1>8. /\ calls' \in Seq(Call) /\ Depth' = Depth + 1
      /\ \A i \in 1 .. Depth : calls'[i] = calls[i]
      /\ calls'[Depth + 1] = c
  BY <1>5, <1>6, AppendProperties DEF Depth
<1>9. /\ qstack' \in Seq(QueryHandler) /\ Len(qstack') = Depth + 1
      /\ \A i \in 1 .. Depth : qstack'[i] = qstack[i]
      /\ qstack'[Depth + 1] = e
  BY <1>3, <1>5, <1>7, AppendProperties
<1>10. /\ c.inst = inst /\ c.hash = h /\ c.obj = o /\ c.rows = 0 /\ c.op = op
       /\ e.hash = h /\ e.frame = Depth + 1
  BY DEF c, e
<1>11. qmap \in [Hash -> Frame \cup {Absent}] /\ qmap' \in [Hash -> Frame \cup {Absent}]
  BY <1>0, <1>2, <1>4, <1>7 DEF TypeOK, HashedStackTypeOK
<1>20. TypeOK'
  <2>1. PoolTypeOK'
    BY <1>1, GetResourceProperties DEF PoolTypeOK
  <2>2. HashedStackTypeOK'
    BY <1>9, <1>11 DEF HashedStackTypeOK
  <2>3. ScopeTypeOK'
    <3>1. Append(scope[o], h) \in Seq(Hash)
      BY <1>0, <1>4, AppendProperties DEF TypeOK, ScopeTypeOK
    <3>2. QED
      BY <1>0, <3>1 DEF TypeOK, ScopeTypeOK, SetUniqueHash, PushScopeStack, h
  <2>4. /\ cookie' \in [Instance -> 0 .. MaxDepth]
        /\ req' \in [Instance -> {"idle", "active", "done", "cancelled"}]
        /\ sent' \in [Instance -> 0 .. MaxRows]
    <3>1. Depth + 1 \in 0 .. MaxDepth /\ 0 \in 0 .. MaxRows
      BY <1>2, RuntimeAssumption DEF Frame
    <3>2. /\ cookie' = [cookie EXCEPT ![inst] = Depth + 1]
          /\ \E state \in {"active", "done"} : req' = [req EXCEPT ![inst] = state]
          /\ sent' = [sent EXCEPT ![inst] = 0]
      BY DEF StartQuery
    <3>3. QED
      BY <1>0, <3>1, <3>2 DEF TypeOK
  <2>5. ctl' = "native" /\ raised' = raised /\ retval' = retval /\ metadata' = metadata
    BY DEF StartQuery, jsVars
  <2>6. QED
    BY <1>0, <1>8, <2>1, <2>2, <2>3, <2>4, <2>5 DEF TypeOK
<1>21. PoolConserved'
  <2>1. /\ Len(Held') = Depth + 1
        /\ \A i \in 1 .. Depth : Held'[i] = calls[i].inst
        /\ Held'[Depth + 1] = inst
    BY <1>2, <1>8, <1>10 DEF Held
  <2>2. \A i \in 1 .. Depth + 1 : i \in 1 .. Depth \/ i = Depth + 1
    BY <1>2
  <2>3. Len(instances') \in Nat /\ inst_count \in Nat /\ inst_count' \in Nat
    BY <1>1, GetResourceProperties, DepthBound, LenProperties
  <2>4. /\ \A i, j \in 1 .. Depth + 1 : Held'[i] = Held'[j] => i = j
        /\ \A i \in 1 .. Len(instances'), j \in 1 .. Depth + 1 : instances'[i] # Held'[j]
        /\ \A i \in 1 .. Depth + 1 : Held'[i] <= inst_count'
    BY <1>1, <2>1, <2>2, <2>3, GetResourceProperties, PoolFacts
  <2>5. Len(instances') + Len(Held') = inst_count'
    BY <1>1, <1>2, <2>1, <2>3, GetResourceProperties
  <2>6. /\ \A i, j \in 1 .. Len(instances') : instances'[i] = instances'[j] => i = j
        /\ \A i \in 1 .. Len(instances') : instances'[i] <= inst_count'
    BY <1>1, GetResourceProperties
  <2>7. /\ \A i, j \in 1 .. Len(Held') : Held'[i] = Held'[j] => i = j
        /\ \A i \in 1 .. Len(instances'), j \in 1 .. Len(Held') : instances'[i] # Held'[j]
        /\ \A i \in 1 .. Len(Held') : Held'[i] <= inst_count'
    BY <2>1, <2>4
  <2>8. QED
    BY <2>5, <2>6, <2>7 DEF PoolConserved, PoolAccounts
<1>22. HashHoldsDepth'
  <2>1. SUFFICES ASSUME NEW i \in 1 .. Depth'
                 PROVE  calls'[i].hash = <<IdHash[calls'[i].obj], i - 1>>
    BY DEF HashHoldsDepth
  <2>2. CASE i = Depth + 1
    <3>1. i - 1 = Depth /\ calls'[i].hash = h /\ calls'[i].obj = o
      BY <1>2, <1>8, <1>10, <2>2
    <3>2. QED
      BY <1>4, <3>1
  <2>3. CASE i # Depth + 1
    <3>1. i \in 1 .. Depth /\ calls'[i] = calls[i]
      BY <1>2, <1>8, <2>3
    <3>2. QED
      BY <3>1 DEF IInv, HashHoldsDepth
  <2>4. QED
    BY <2>2, <2>3
<1>23. StackMirrorsCalls'
  <2>1. \A i \in 1 .. Depth : qstack[i].hash = calls[i].hash /\ qstack[i].frame = i
    BY DEF IInv, StackMirrorsCalls
  <2>2. \A i \in 1 .. Depth' : qstack'[i].hash = calls'[i].hash /\ qstack'[i].frame = i
    <3>1. TAKE i \in 1 .. Depth'
    <3>2. CASE i = Depth + 1
      BY <1>8, <1>9, <1>10, <3>2
    <3>3. CASE i # Depth + 1
      BY <1>2, <1>8, <1>9, <2>1, <3>3
    <3>4. QED
      BY <3>2, <3>3
  <2>3. \A i \in 1 .. Depth : calls[i].hash = <<IdHash[calls[i].obj], i - 1>>
    BY DEF IInv, HashHoldsDepth
  <2>4. \A i \in 1 .. Depth : calls[i].hash # h
    BY <1>2, <1>4, <2>3
  <2>5. \A i \in 1 .. Depth : qstack[i].hash \in Hash
    <3>1. \A i \in 1 .. Depth : qstack[i] \in QueryHandler
      BY <1>3, ElementOfSeq
    <3>2. QED
      BY <3>1 DEF QueryHandler
  <2>6. \A i \in 1 .. Len(qstack) : qmap[qstack[i].hash] = qstack[i].frame
    BY DEF IInv, StackMirrorsCalls, ViewsAgree
  <2>7. \A i \in 1 .. Depth' : qmap'[qstack'[i].hash] = qstack'[i].frame
    <3>1. TAKE i \in 1 .. Depth'
    <3>2. CASE i = Depth + 1
      BY <1>4, <1>7, <1>9, <1>10, <1>11, <3>2
    <3>3. CASE i # Depth + 1
      <4>1. i \in 1 .. Depth
        BY <1>2, <1>8, <3>3
      <4>2. qstack'[i] = qstack[i] /\ qstack[i].hash # h /\ qstack[i].hash \in Hash
        BY <1>9, <2>1, <2>4, <2>5, <4>1
      <4>3. QED
        BY <1>3, <1>7, <1>11, <2>6, <4>1, <4>2
    <3>4. QED
      BY <3>2, <3>3
  <2>8. ASSUME NEW k \in Hash, qmap'[k] # Absent
        PROVE  \E i \in 1 .. Depth' : qstack'[i].hash = k
    <3>1. CASE k = h
      BY <1>2, <1>8, <1>9, <1>10, <3>1
    <3>2. CASE k # h
      <4>1. qmap[k] # Absent
        BY <1>7, <1>11, <2>8, <3>2
      <4>2. PICK i \in 1 .. Len(qstack) : qstack[i].hash = k
        BY <4>1 DEF IInv, StackMirrorsCalls, ViewsAgree
      <4>3. QED
        BY <1>2, <1>3, <1>8, <1>9, <4>2
    <3>3. QED
      BY <3>1, <3>2
  <2>9. QED
    BY <1>8, <1>9, <2>2, <2>7, <2>8 DEF StackMirrorsCalls, ViewsAgree
<1>24. CookiesPointToRuns'
  <2>1. /\ cookie'[inst] = Depth + 1 /\ req'[inst] # "idle"
        /\ \A k \in Instance \ {inst} : cookie'[k] = cookie[k] /\ req'[k] = req[k]
    BY <1>0 DEF StartQuery, TypeOK
  <2>2. \A k \in Instance : cookie[k] \in Nat
    BY <1>0, <1>2 DEF TypeOK
  <2>3. SUFFICES ASSUME NEW k \in Instance
                 PROVE  /\ cookie'[k] = 0 <=> req'[k] = "idle"
                        /\ cookie'[k] # 0 => cookie'[k] <= Depth' /\ calls'[cookie'[k]].inst = k
                        /\ cookie'[k] = 0 => \A i \in 1 .. Depth' : calls'[i].inst # k
    BY DEF CookiesPointToRuns
  <2>4. /\ cookie[k] = 0 <=> req[k] = "idle"
        /\ cookie[k] # 0 => cookie[k] <= Depth /\ calls[cookie[k]].inst = k
        /\ cookie[k] = 0 => \A i \in 1 .. Depth : calls[i].inst # k
    BY DEF IInv, CookiesPointToRuns
  <2>5. CASE k = inst
    BY <1>2, <1>8, <1>10, <2>1, <2>5
  <2>6. CASE k # inst
    <3>1. cookie'[k] = cookie[k] /\ req'[k] = req[k]
      BY <2>1, <2>6
    <3>2. cookie[k] # 0 => cookie[k] \in 1 .. Depth
      BY <1>2, <2>2, <2>4
    <3>3. \A i \in 1 .. Depth' : i \in 1 .. Depth \/ i = Depth + 1
      BY <1>2, <1>8
    <3>4. calls'[Depth + 1].inst # k
      BY <1>8, <1>10, <2>6
    <3>5. cookie'[k] = 0 => \A i \in 1 .. Depth' : calls'[i].inst # k
      BY <1>8, <2>4, <3>1, <3>3, <3>4
    <3>6. QED
      BY <1>2, <1>8, <2>4, <3>1, <3>2, <3>5
  <2>7. QED
    BY <2>5, <2>6
<1>25. RowsReachTheirQuery'
  <2>1. SUFFICES ASSUME NEW i \in 1 .. Depth'
                 PROVE  calls'[i].rows = sent'[calls'[i].inst]
    BY DEF RowsReachTheirQuery
  <2>2. sent' = [sent EXCEPT ![inst] = 0] /\ sent \in [Instance -> 0 .. MaxRows]
    BY <1>0 DEF StartQuery, TypeOK
  <2>3. CASE i = Depth + 1
    BY <1>8, <1>10, <2>2, <2>3
  <2>4. CASE i # Depth + 1
    <3>1. i \in 1 .. Depth /\ calls'[i] = calls[i]
      BY <1>2, <1>8, <2>4
    <3>2. calls[i].inst # inst
      BY <1>1, <3>1, GetResourceProperties
    <3>3. calls[i].inst \in Instance
      BY <1>2, <3>1, InstancesOfRuns
    <3>4. calls[i].rows = sent[calls[i].inst]
      BY <3>1 DEF IInv, RowsReachTheirQuery
    <3>5. QED
      BY <2>2, <3>1, <3>2, <3>3, <3>4
  <2>5. QED
    BY <2>3, <2>4
<1>26. JsRunsInsideIterations'
  <2>1. ctl' = "native" /\ ctl = "js" /\ req \in [Instance -> {"idle", "active", "done", "cancelled"}]
        /\ \E state \in {"active", "done"} : req' = [req EXCEPT ![inst] = state]
    BY <1>0 DEF StartQuery, TypeOK
  <2>2. calls' # <<>>
    BY <1>2, <1>8, EmptySeq DEF Depth
  <2>3. SUFFICES ASSUME NEW i \in 1 .. Depth'
                 PROVE  (i < Depth' \/ ctl' = "js") =>
                          /\ calls'[i].op = "iter"
                          /\ req'[calls'[i].inst] \in {"active", "cancelled"}
    BY <2>2 DEF JsRunsInsideIterations
  <2>4. CASE i = Depth + 1
    BY <1>2, <1>8, <2>1, <2>4
  <2>5. CASE i # Depth + 1
    <3>1. i \in 1 .. Depth /\ calls'[i] = calls[i]
      BY <1>2, <1>8, <2>5
    <3>2. calls[i].inst # inst
      BY <1>1, <3>1, GetResourceProperties
    <3>3. calls[i].inst \in Instance
      BY <1>2, <3>1, InstancesOfRuns
    <3>4. calls[i].op = "iter" /\ req[calls[i].inst] \in {"active", "cancelled"}
      BY <2>1, <3>1 DEF IInv, JsRunsInsideIterations
    <3>5. QED
      BY <2>1, <3>1, <3>2, <3>3, <3>4
  <2>6. QED
    BY <2>4, <2>5
<1>27. QED
  BY <1>20, <1>21, <1>22, <1>23, <1>24, <1>25, <1>26 DEF IInv

\* What depends only on which frames exist survives a change of their contents.
LEMMA SameFrames ==
  ASSUME IInv, calls' \in Seq(Call), Depth' = Depth,
         \A i \in 1 .. Depth : calls'[i].obj = calls[i].obj /\ calls'[i].hash = calls[i].hash
                               /\ calls'[i].inst = calls[i].inst,
         UNCHANGED <<poolVars, hashedStackVars>>
  PROVE  PoolConserved' /\ HashHoldsDepth' /\ StackMirrorsCalls'
<1>1. UNCHANGED <<instances, inst_count, qstack, qmap>>
  BY DEF poolVars, hashedStackVars
<1>2. Held' = Held
  <2>1. Held' = [i \in 1 .. Depth |-> calls'[i].inst]
    BY DEF Held
  <2>2. QED
    BY <2>1, Zenon DEF Held
<1>3. PoolConserved'
  BY <1>1, <1>2 DEF IInv, PoolConserved, PoolAccounts
<1>4. HashHoldsDepth'
  BY DEF IInv, HashHoldsDepth
<1>5. StackMirrorsCalls'
  BY <1>1 DEF IInv, StackMirrorsCalls, ViewsAgree
<1>6. QED
  BY <1>3, <1>4, <1>5

\* A refused query changes only the scope stack.
LEMMA RefusePreservesIInv ==
  ASSUME IInv, NEW o \in Objects, SetUniqueHash(o), RefuseQuery, UNCHANGED jsVars
  PROVE  IInv'
<1>0. TypeOK
  BY DEF IInv
<1>1. UniqueHash(o) \in Hash
  <2>1. Size = Depth /\ Depth \in 0 .. MaxDepth
    BY DepthBound DEF IInv, StackMirrorsCalls, Size
  <2>2. IdHash[o] \in HashIds
    BY IdHashAssumption
  <2>3. QED
    BY <2>1, <2>2 DEF UniqueHash, AppendStackIndex, Hash
<1>2. Append(scope[o], UniqueHash(o)) \in Seq(Hash)
  BY <1>0, <1>1, AppendProperties DEF TypeOK, ScopeTypeOK
<1>3. ScopeTypeOK'
  BY <1>0, <1>2 DEF TypeOK, ScopeTypeOK, SetUniqueHash, PushScopeStack
<1>4. UNCHANGED <<calls, ctl, cookie, req, sent, instances, inst_count, qstack, qmap,
                  retval, metadata>> /\ raised' = TRUE
  BY DEF RefuseQuery, poolVars, hashedStackVars, lcbVars, jsVars
<1>5. TypeOK'
  BY <1>0, <1>3, <1>4 DEF TypeOK, PoolTypeOK, HashedStackTypeOK
<1>6. PoolConserved' /\ HashHoldsDepth' /\ StackMirrorsCalls'
  <2>1. calls' \in Seq(Call) /\ Depth' = Depth /\ UNCHANGED <<poolVars, hashedStackVars>>
    BY <1>0, <1>4 DEF TypeOK, Depth, poolVars, hashedStackVars
  <2>2. QED
    BY <1>4, <2>1, SameFrames
<1>7. CookiesPointToRuns' /\ RowsReachTheirQuery' /\ JsRunsInsideIterations'
  BY <1>4 DEF IInv, CookiesPointToRuns, RowsReachTheirQuery, JsRunsInsideIterations, Depth
<1>8. QED
  BY <1>5, <1>6, <1>7 DEF IInv

\* The handler that a row callback finds is the one of the innermost frame.
LEMMA TopIsCurrent ==
  ASSUME IInv, calls # <<>>
  PROVE  /\ Depth \in Nat \ {0} /\ Top.frame = Depth /\ Top.hash = Current.hash
         /\ Current \in Call /\ Current.inst \in Instance
<1>1. calls \in Seq(Call)
  BY DEF IInv, TypeOK
<1>2. Depth \in Nat \ {0}
  BY <1>1, EmptySeq DEF Depth
<1>3. Current \in Call
  BY <1>1, <1>2, ElementOfSeq DEF Current, Depth
<1>4. Top.frame = Depth /\ Top.hash = Current.hash
  BY <1>2 DEF IInv, StackMirrorsCalls, Top, Current
<1>5. QED
  BY <1>2, <1>3, <1>4 DEF Call

\* A row: the counter of the query that the server sent it for goes up.
LEMMA RowPreservesIInv ==
  ASSUME IInv, NEW op \in {"iter", "exec"}, Row(op),
         \/ op = "iter" /\ ctl' = "js" /\ raised' = FALSE
         \/ op = "exec" /\ UNCHANGED <<ctl, raised>>
  PROVE  IInv'
<1>0. TypeOK
  BY DEF IInv
<1>1. calls # <<>> /\ ctl = "native" /\ Current.op = op
  BY DEF Row, IInv, JsRunsInsideIterations
<1>2. /\ Depth \in Nat \ {0} /\ Top.frame = Depth
      /\ Current \in Call /\ Current.inst \in Instance
  BY <1>1, TopIsCurrent
<1> DEFINE c == [Current EXCEPT !.rows = @ + 1]
<1>3. /\ calls \in Seq(Call) /\ Depth \in 1 .. Len(calls) /\ Depth = Len(calls)
      /\ Current = calls[Depth]
  BY <1>0, <1>2 DEF TypeOK, Depth, Current
<1>4. Current.rows = sent[Current.inst] /\ sent[Current.inst] \in 0 .. MaxRows
  BY <1>0, <1>2, <1>3 DEF IInv, RowsReachTheirQuery, TypeOK
<1>5. sent[Current.inst] < MaxRows /\ Current.rows + 1 \in 0 .. MaxRows
  BY <1>4, RuntimeAssumption DEF Row
<1>6. c \in Call
  BY <1>2, <1>5 DEF Call
<1>7. calls' = [calls EXCEPT ![Depth] = c]
  BY <1>2, <1>3 DEF Row
<1>8. /\ c.obj = Current.obj /\ c.hash = Current.hash /\ c.inst = Current.inst
      /\ c.op = Current.op /\ c.rows = Current.rows + 1
  BY <1>2 DEF Call
<1> HIDE DEF c
<1>9. /\ calls' \in Seq(Call) /\ Depth' = Depth
      /\ \A i \in 1 .. Depth : calls'[i] = IF i = Depth THEN c ELSE calls[i]
  BY <1>3, <1>6, <1>7, ExceptSeq DEF Depth
<1>10. \A i \in 1 .. Depth : calls'[i].obj = calls[i].obj /\ calls'[i].hash = calls[i].hash
                             /\ calls'[i].inst = calls[i].inst /\ calls'[i].op = calls[i].op
  BY <1>3, <1>8, <1>9
<1>11. UNCHANGED <<poolVars, hashedStackVars, cookie, req, scopeVars, jsVars>>
       /\ sent' = [sent EXCEPT ![Current.inst] = @ + 1]
  BY DEF Row
<1>12. PoolConserved' /\ HashHoldsDepth' /\ StackMirrorsCalls'
  BY <1>9, <1>10, <1>11, SameFrames
<1>13. TypeOK'
  <2>1. sent' \in [Instance -> 0 .. MaxRows]
    BY <1>0, <1>2, <1>4, <1>5, <1>11 DEF TypeOK
  <2>2. PoolTypeOK' /\ HashedStackTypeOK' /\ ScopeTypeOK'
    BY <1>0, <1>11 DEF TypeOK, PoolTypeOK, HashedStackTypeOK, ScopeTypeOK,
                       poolVars, hashedStackVars, scopeVars
  <2>3. QED
    BY <1>0, <1>9, <1>11, <2>1, <2>2 DEF TypeOK, jsVars
<1>14. CookiesPointToRuns'
  <2>1. \A k \in Instance : cookie[k] \in Nat
    BY <1>0, DepthBound DEF TypeOK
  <2>2. QED
    BY <1>9, <1>10, <1>11, <2>1, DepthBound DEF IInv, CookiesPointToRuns
<1>15. RowsReachTheirQuery'
  <2>1. SUFFICES ASSUME NEW i \in 1 .. Depth
                 PROVE  calls'[i].rows = sent'[calls[i].inst]
    BY <1>9, <1>10 DEF RowsReachTheirQuery
  <2>2. CASE i = Depth
    BY <1>0, <1>2, <1>3, <1>4, <1>8, <1>9, <1>11, <2>2 DEF TypeOK
  <2>3. CASE i # Depth
    <3>1. calls[i].inst # Current.inst /\ calls[i].inst \in Instance
      BY <1>2, <1>3, <2>3, PoolFacts, DepthBound DEF Instance
    <3>2. QED
      BY <1>0, <1>9, <1>11, <2>3, <3>1 DEF TypeOK, IInv, RowsReachTheirQuery
  <2>4. QED
    BY <2>2, <2>3
<1>16. JsRunsInsideIterations'
  <2>1. req[Current.inst] = "active"
    BY DEF Row
  <2>2. calls' # <<>>
    BY <1>2, <1>9, EmptySeq DEF Depth
  <2>3. QED
    BY <1>1, <1>2, <1>3, <1>9, <1>10, <1>11, <2>1, <2>2 DEF IInv, JsRunsInsideIterations
<1>17. QED
  BY <1>12, <1>13, <1>14, <1>15, <1>16 DEF IInv

\* The final row: the innermost frame gets its metadata and perhaps an exception.
LEMMA FinalRowPreservesIInv ==
  ASSUME IInv, NEW ok \in BOOLEAN, FinalRow(ok)
  PROVE  IInv'
<1>0. TypeOK
  BY DEF IInv
<1>1. calls # <<>> /\ ctl = "native"
  BY DEF FinalRow, IInv, JsRunsInsideIterations
<1>2. /\ Depth \in Nat \ {0} /\ Top.frame = Depth
      /\ Current \in Call /\ Current.inst \in Instance
  BY <1>1, TopIsCurrent
<1> DEFINE c == [Current EXCEPT !.meta = IF ok THEN "ok" ELSE "error", !.exc = ~ok]
<1>3. /\ calls \in Seq(Call) /\ Depth \in 1 .. Len(calls) /\ Depth = Len(calls)
      /\ Current = calls[Depth]
  BY <1>0, <1>2 DEF TypeOK, Depth, Current
<1>4. c \in Call
  <2>1. (IF ok THEN "ok" ELSE "error") \in Metadata /\ (~ok) \in BOOLEAN
    BY DEF Metadata
  <2>2. QED
    BY <1>2, <2>1 DEF Call
<1>5. calls' = [calls EXCEPT ![Depth] = c]
  BY <1>2, <1>3 DEF FinalRow
<1>6. /\ c.obj = Current.obj /\ c.hash = Current.hash /\ c.inst = Current.inst
      /\ c.op = Current.op /\ c.rows = Current.rows
  BY <1>2 DEF Call
<1> HIDE DEF c
<1>7. /\ calls' \in Seq(Call) /\ Depth' = Depth
      /\ \A i \in 1 .. Depth : calls'[i] = IF i = Depth THEN c ELSE calls[i]
  BY <1>3, <1>4, <1>5, ExceptSeq DEF Depth
<1>8. \A i \in 1 .. Depth : calls'[i].obj = calls[i].obj /\ calls'[i].hash = calls[i].hash
                            /\ calls'[i].inst = calls[i].inst /\ calls'[i].op = calls[i].op
                            /\ calls'[i].rows = calls[i].rows
  BY <1>3, <1>6, <1>7
<1>9. UNCHANGED <<poolVars, hashedStackVars, cookie, sent, scopeVars, jsVars, ctl, raised>>
      /\ req' = [req EXCEPT ![Current.inst] = "done"] /\ req[Current.inst] = "active"
  BY DEF FinalRow
<1>10. PoolConserved' /\ HashHoldsDepth' /\ StackMirrorsCalls'
  BY <1>7, <1>8, <1>9, SameFrames
<1>11. TypeOK'
  <2>1. PoolTypeOK' /\ HashedStackTypeOK' /\ ScopeTypeOK'
    BY <1>0, <1>9 DEF TypeOK, PoolTypeOK, HashedStackTypeOK, ScopeTypeOK,
                      poolVars, hashedStackVars, scopeVars
  <2>2. QED
    BY <1>0, <1>2, <1>7, <1>9, <2>1 DEF TypeOK, jsVars
<1>12. CookiesPointToRuns'
  <2>1. \A k \in Instance : /\ cookie[k] \in Nat
                            /\ req'[k] = "idle" <=> req[k] = "idle"
    BY <1>0, <1>2, <1>9, DepthBound DEF TypeOK
  <2>2. QED
    BY <1>7, <1>8, <1>9, <2>1, DepthBound DEF IInv, CookiesPointToRuns
<1>13. RowsReachTheirQuery'
  BY <1>7, <1>8, <1>9 DEF IInv, RowsReachTheirQuery
<1>14. JsRunsInsideIterations'
  <2>1. calls' # <<>>
    BY <1>2, <1>7, EmptySeq DEF Depth
  <2>2. \A i \in 1 .. Depth : i < Depth =>
          calls[i].inst # Current.inst /\ calls[i].inst \in Instance
    BY <1>2, <1>3, PoolFacts, DepthBound DEF Instance
  <2>3. \A i \in 1 .. Depth : i < Depth =>
          calls[i].op = "iter" /\ req[calls[i].inst] \in {"active", "cancelled"}
    BY DEF IInv, JsRunsInsideIterations
  <2>4. \A i \in 1 .. Depth : i < Depth => req'[calls[i].inst] = req[calls[i].inst]
    BY <1>0, <1>2, <1>9, <2>2 DEF TypeOK
  <2>5. ctl' = "native"
    BY <1>1, <1>9
  <2>6. QED
    BY <1>7, <1>8, <2>1, <2>3, <2>4, <2>5 DEF JsRunsInsideIterations
<1>15. QED
  BY <1>10, <1>11, <1>12, <1>13, <1>14 DEF IInv

\* Cancelling the query of a frame whose JavaScript runs, as stopIter and a
\* throwing callback do, keeps what is known of requests and cookies.
LEMMA CancelProperties ==
  ASSUME IInv, ctl = "js", NEW f \in 1 .. Depth, Cancel(calls[f].inst)
  PROVE  /\ calls[f].inst \in Instance
         /\ req' \in [Instance -> {"idle", "active", "done", "cancelled"}]
         /\ \A k \in Instance : req'[k] = "idle" <=> req[k] = "idle"
         /\ \A i \in 1 .. Depth : req'[calls[i].inst] \in {"active", "cancelled"}
<1>0. TypeOK
  BY DEF IInv
<1>1. \A i \in 1 .. Depth : calls[i].inst \in Instance
  BY PoolFacts, DepthBound DEF Instance
<1>2. \A i \in 1 .. Depth : req[calls[i].inst] \in {"active", "cancelled"}
  BY DEF IInv, JsRunsInsideIterations
<1>3. req' = [req EXCEPT ![calls[f].inst] = "cancelled"]
  BY DEF Cancel
<1>4. QED
  BY <1>0, <1>1, <1>2, <1>3 DEF TypeOK

\* The callback throws: the query is cancelled and the frame keeps the exception.
LEMMA CallbackThrowsPreservesIInv ==
  ASSUME IInv, CallbackThrows
  PROVE  IInv'
<1>0. TypeOK
  BY DEF IInv
<1>1. calls # <<>> /\ ctl = "js" /\ ctl' = "native"
  BY DEF CallbackThrows
<1>2. Depth \in Nat \ {0} /\ Current \in Call /\ Current.inst \in Instance
  BY <1>1, TopIsCurrent
<1> DEFINE c == [Current EXCEPT !.exc = TRUE]
<1>3. /\ calls \in Seq(Call) /\ Depth \in 1 .. Len(calls) /\ Depth = Len(calls)
      /\ Current = calls[Depth]
  BY <1>0, <1>2 DEF TypeOK, Depth, Current
<1>4. c \in Call /\ calls' = [calls EXCEPT ![Depth] = c]
  BY <1>2, <1>3 DEF Call, CallbackThrows
<1>5. /\ c.obj = Current.obj /\ c.hash = Current.hash /\ c.inst = Current.inst
      /\ c.op = Current.op /\ c.rows = Current.rows
  BY <1>2 DEF Call
<1> HIDE DEF c
<1>6. /\ calls' \in Seq(Call) /\ Depth' = Depth
      /\ \A i \in 1 .. Depth : calls'[i] = IF i = Depth THEN c ELSE calls[i]
  BY <1>3, <1>4, ExceptSeq DEF Depth
<1>7. \A i \in 1 .. Depth : calls'[i].obj = calls[i].obj /\ calls'[i].hash = calls[i].hash
                            /\ calls'[i].inst = calls[i].inst /\ calls'[i].op = calls[i].op
                            /\ calls'[i].rows = calls[i].rows
  BY <1>3, <1>5, <1>6
<1>8. UNCHANGED <<poolVars, hashedStackVars, cookie, sent, scopeVars, jsVars, raised>>
      /\ Cancel(calls[Depth].inst)
  BY <1>3 DEF CallbackThrows
<1>9. /\ req' \in [Instance -> {"idle", "active", "done", "cancelled"}]
      /\ \A k \in Instance : req'[k] = "idle" <=> req[k] = "idle"
      /\ \A i \in 1 .. Depth : req'[calls[i].inst] \in {"active", "cancelled"}
  BY <1>1, <1>3, <1>8, CancelProperties
<1>10. PoolConserved' /\ HashHoldsDepth' /\ StackMirrorsCalls'
  BY <1>6, <1>7, <1>8, SameFrames
<1>11. TypeOK'
  <2>1. PoolTypeOK' /\ HashedStackTypeOK' /\ ScopeTypeOK'
    BY <1>0, <1>8 DEF TypeOK, PoolTypeOK, HashedStackTypeOK, ScopeTypeOK,
                      poolVars, hashedStackVars, scopeVars
  <2>2. /\ cookie' = cookie /\ sent' = sent /\ raised' = raised
        /\ retval' = retval /\ metadata' = metadata
    BY <1>8 DEF jsVars
  <2>3. QED
    BY <1>0, <1>1, <1>6, <1>9, <2>1, <2>2 DEF TypeOK
<1>12. CookiesPointToRuns'
  <2>1. SUFFICES ASSUME NEW k \in Instance
                 PROVE  /\ cookie'[k] = 0 <=> req'[k] = "idle"
                        /\ cookie'[k] # 0 => cookie'[k] <= Depth' /\ calls'[cookie'[k]].inst = k
                        /\ cookie'[k] = 0 => \A i \in 1 .. Depth' : calls'[i].inst # k
    BY DEF CookiesPointToRuns
  <2>2. /\ cookie[k] = 0 <=> req[k] = "idle"
        /\ cookie[k] # 0 => cookie[k] <= Depth /\ calls[cookie[k]].inst = k
        /\ cookie[k] = 0 => \A i \in 1 .. Depth : calls[i].inst # k
        /\ cookie[k] \in Nat /\ cookie' = cookie
    BY <1>0, <1>8, DepthBound DEF IInv, CookiesPointToRuns, TypeOK
  <2>3. cookie[k] # 0 => cookie[k] \in 1 .. Depth
    BY <1>2, <2>2
  <2>4. QED
    BY <1>6, <1>7, <1>9, <2>2, <2>3
<1>13. RowsReachTheirQuery'
  BY <1>6, <1>7, <1>8 DEF IInv, RowsReachTheirQuery
<1>14. JsRunsInsideIterations'
  <2>1. calls' # <<>>
    BY <1>2, <1>6, EmptySeq DEF Depth
  <2>2. QED
    BY <1>1, <1>6, <1>7, <1>9, <2>1 DEF IInv, JsRunsInsideIterations
<1>15. QED
  BY <1>10, <1>11, <1>12, <1>13, <1>14 DEF IInv

\* A step that changes neither the frames nor the requests nor the pool.
LEMMA ControlPreservesIInv ==
  ASSUME IInv, UNCHANGED <<calls, poolVars, hashedStackVars, scopeVars, cookie, sent>>,
         raised' \in BOOLEAN, metadata' = metadata, retval' \in [Objects -> Codes \cup {NoValue}],
         ctl' \in {"js", "native", "crashed"}, ctl' = "native" => calls # <<>>,
         req' \in [Instance -> {"idle", "active", "done", "cancelled"}],
         \A k \in Instance : req'[k] = "idle" <=> req[k] = "idle",
         \A i \in 1 .. Depth : req[calls[i].inst] \in {"active", "cancelled"} =>
                                 req'[calls[i].inst] \in {"active", "cancelled"},
         ctl' = "js" => ctl = "js"
  PROVE  IInv'
<1>0. TypeOK
  BY DEF IInv
<1>1. Depth' = Depth /\ calls' \in Seq(Call)
  BY <1>0 DEF Depth, TypeOK
<1>2. PoolConserved' /\ HashHoldsDepth' /\ StackMirrorsCalls'
  BY <1>1, SameFrames
<1>3. TypeOK'
  BY <1>0 DEF TypeOK, PoolTypeOK, HashedStackTypeOK, ScopeTypeOK,
              poolVars, hashedStackVars, scopeVars
<1>4. CookiesPointToRuns' /\ RowsReachTheirQuery'
  BY <1>1 DEF IInv, CookiesPointToRuns, RowsReachTheirQuery
<1>5. JsRunsInsideIterations'
  BY <1>1 DEF IInv, JsRunsInsideIterations
<1>6. QED
  BY <1>2, <1>3, <1>4, <1>5 DEF IInv

\* The callback returns: control goes back to lcb_wait.
LEMMA CallbackReturnsPreservesIInv ==
  ASSUME IInv, CallbackReturns
  PROVE  IInv'
<1>1. TypeOK
  BY DEF IInv
<1>2. QED
  BY <1>1, ControlPreservesIInv DEF CallbackReturns, TypeOK, lcbVars, jsVars

\* The process goes down.
LEMMA CrashPreservesIInv ==
  ASSUME IInv, Crash
  PROVE  IInv'
<1>1. TypeOK
  BY DEF IInv
<1>2. QED
  BY <1>1, ControlPreservesIInv DEF Crash, TypeOK, lcbVars, jsVars

\* stopIter: an exception, a crash, or the cancellation of a running query.
LEMMA StopIterPreservesIInv ==
  ASSUME IInv, NEW o \in Objects, NEW code \in Codes, StopIterFunction(o, code)
  PROVE  IInv'
<1>0. TypeOK /\ ctl = "js"
  BY DEF IInv, StopIterFunction
<1>1. CASE /\ raised' = TRUE
           /\ UNCHANGED <<calls, ctl, lcbVars, poolVars, hashedStackVars, scopeVars, jsVars>>
  BY <1>0, <1>1, ControlPreservesIInv DEF TypeOK, lcbVars, jsVars
<1>2. CASE Crash
  BY <1>2, CrashPreservesIInv
<1>3. CASE /\ FrameOfUniqueHash(o) # Absent
           /\ Cancel(calls[FrameOfUniqueHash(o)].inst)
           /\ SetReturnValue(o, code)
           /\ raised' = FALSE
           /\ UNCHANGED <<calls, ctl, cookie, sent, poolVars, hashedStackVars,
                          scopeVars, metadata>>
  <2> DEFINE f == FrameOfUniqueHash(o)
  <2> DEFINE h == scope[o][Len(scope[o])]
  <2>1. scope[o] # <<>> /\ f = qmap[h] /\ qmap[h] # Absent
    BY <1>3 DEF FrameOfUniqueHash, Get
  <2>2. scope[o] \in Seq(Hash) /\ Len(scope[o]) \in 1 .. Len(scope[o])
    BY <1>0, <2>1, EmptySeq DEF TypeOK, ScopeTypeOK
  <2>3. h \in Hash
    BY <2>2, ElementOfSeq
  <2>4. PICK i \in 1 .. Len(qstack) : qstack[i].hash = h
    BY <2>1, <2>3 DEF IInv, StackMirrorsCalls, ViewsAgree
  <2>5. i \in 1 .. Depth /\ qmap[h] = i
    BY <2>4 DEF IInv, StackMirrorsCalls, ViewsAgree
  <2>6. f \in 1 .. Depth /\ Cancel(calls[f].inst)
    BY <1>3, <2>1, <2>5
  <2> HIDE DEF f, h
  <2>7. /\ req' \in [Instance -> {"idle", "active", "done", "cancelled"}]
        /\ \A k \in Instance : req'[k] = "idle" <=> req[k] = "idle"
        /\ \A k \in 1 .. Depth : req'[calls[k].inst] \in {"active", "cancelled"}
    BY <1>0, <2>6, CancelProperties
  <2>8. retval' \in [Objects -> Codes \cup {NoValue}]
    BY <1>0, <1>3 DEF TypeOK, SetReturnValue
  <2>9. QED
    BY <1>0, <1>3, <2>7, <2>8, ControlPreservesIInv DEF TypeOK
<1>4. QED
  BY <1>1, <1>2, <1>3 DEF StopIterFunction

\* getReturnValue may only crash.
LEMMA GetReturnValuePreservesIInv ==
  ASSUME IInv, NEW o \in Objects, GetReturnValueFunction(o)
  PROVE  IInv'
  BY CrashPreservesIInv DEF GetReturnValueFunction

\* lcb_wait has returned: the innermost frame goes, its instance becomes idle.
LEMMA FinishPreservesIInv ==
  ASSUME IInv, FinishQuery, hasBase' \in [Objects -> BOOLEAN],
         scope' \in [Objects -> Seq(Hash)], metadata' \in [Objects -> Metadata]
  PROVE  IInv'
<1>0. TypeOK
  BY DEF IInv
<1>1. calls # <<>> /\ ctl = "native" /\ ctl' = "js"
  BY DEF FinishQuery, IInv, JsRunsInsideIterations
<1> DEFINE inst == Current.inst
<1>2. /\ Depth \in Nat \ {0} /\ Top.hash = Current.hash
      /\ Current \in Call /\ inst \in Instance
  BY <1>1, TopIsCurrent
<1>3. calls \in Seq(Call) /\ Depth = Len(calls) /\ Current = calls[Depth]
  BY <1>0 DEF TypeOK, Depth, Current
<1>4. /\ calls' \in Seq(Call) /\ Depth' = Depth - 1
      /\ \A i \in 1 .. Depth - 1 : calls'[i] = calls[i]
  BY <1>1, <1>3, FrontProperties DEF FinishQuery, Depth
<1>5. qstack \in Seq(QueryHandler) /\ Len(qstack) = Depth
  BY <1>0 DEF IInv, StackMirrorsCalls, TypeOK, HashedStackTypeOK
<1>6. qstack # <<>>
  BY <1>2, <1>5, EmptySeq
<1>7. /\ qstack' \in Seq(QueryHandler) /\ Len(qstack') = Depth - 1
      /\ \A i \in 1 .. Depth - 1 : qstack'[i] = qstack[i]
  BY <1>5, <1>6, FrontProperties DEF FinishQuery, Pop
<1>8. instances' = Append(instances, inst) /\ inst_count' = inst_count
      /\ instances \in Seq(Instance)
  BY <1>0 DEF FinishQuery, Restore, TypeOK, PoolTypeOK
<1>9. /\ cookie' = [cookie EXCEPT ![inst] = 0]
      /\ req' = [req EXCEPT ![inst] = "idle"]
      /\ sent' = [sent EXCEPT ![inst] = 0]
      /\ raised' = Current.exc /\ retval' = retval
      /\ qmap' = [qmap EXCEPT ![Current.hash] = Absent]
  BY <1>2 DEF FinishQuery, ClearCookie, Pop
<1> HIDE DEF inst
<1>10. /\ instances' \in Seq(Instance) /\ Len(instances') = Len(instances) + 1
       /\ \A i \in 1 .. Len(instances) : instances'[i] = instances[i]
       /\ instances'[Len(instances) + 1] = inst
  BY <1>2, <1>8, AppendProperties
<1>11. \A i \in 1 .. Depth - 1 : calls[i].inst # inst /\ calls[i].inst \in Instance
  BY <1>2, <1>3, PoolFacts, DepthBound DEF Instance, inst
<1>20. TypeOK'
  <2>1. PoolTypeOK'
    BY <1>0, <1>8, <1>10 DEF TypeOK, PoolTypeOK
  <2>2. qmap' \in [Hash -> Frame \cup {Absent}]
    BY <1>0, <1>9 DEF TypeOK, HashedStackTypeOK
  <2>3. HashedStackTypeOK' /\ ScopeTypeOK'
    BY <1>7, <2>2 DEF HashedStackTypeOK, ScopeTypeOK
  <2>4. /\ cookie' \in [Instance -> 0 .. MaxDepth]
        /\ req' \in [Instance -> {"idle", "active", "done", "cancelled"}]
        /\ sent' \in [Instance -> 0 .. MaxRows]
    <3>1. 0 \in 0 .. MaxDepth /\ 0 \in 0 .. MaxRows
      BY RuntimeAssumption, DepthBound
    <3>2. QED
      BY <1>0, <1>9, <3>1 DEF TypeOK
  <2>5. raised' \in BOOLEAN
    BY <1>2, <1>9 DEF Call
  <2>6. QED
    BY <1>0, <1>1, <1>4, <1>9, <2>1, <2>3, <2>4, <2>5 DEF TypeOK
<1>21. PoolConserved'
  <2>1. /\ Len(Held') = Depth - 1
        /\ \A i \in 1 .. Depth - 1 : Held'[i] = calls[i].inst
    BY <1>2, <1>4 DEF Held
  <2>2. Len(instances) \in Nat /\ inst_count \in Nat
        /\ Depth + Len(instances) = inst_count
    BY DepthBound
  <2>3. \A i \in 1 .. Len(instances') : i \in 1 .. Len(instances) \/ i = Len(instances) + 1
    BY <1>10, <2>2
  <2>4. \A i \in 1 .. Len(instances) : instances[i] # inst
    BY <1>2, <1>3, PoolFacts DEF inst
  <2>5. inst <= inst_count
    BY <1>2, <1>3, <2>2, PoolFacts DEF inst
  <2>6. \A i, j \in 1 .. Len(instances') : instances'[i] = instances'[j] => i = j
    BY <1>10, <2>3, <2>4, PoolFacts
  <2>7. \A i \in 1 .. Len(instances') : instances'[i] <= inst_count
    BY <1>10, <2>2, <2>3, <2>5, PoolFacts
  <2>8. \A i \in 1 .. Depth - 1 : i \in 1 .. Depth
    BY <1>2
  <2>9. \A i \in 1 .. Len(instances'), j \in 1 .. Depth - 1 : instances'[i] # calls[j].inst
    BY <1>10, <1>11, <2>3, <2>8, PoolFacts
  <2>10. /\ \A i, j \in 1 .. Depth - 1 : calls[i].inst = calls[j].inst => i = j
         /\ \A i \in 1 .. Depth - 1 : calls[i].inst <= inst_count
    BY <2>2, <2>8, PoolFacts
  <2>11. Len(instances') + Len(Held') = inst_count'
    <3>1. Len(Held') = Depth - 1 /\ inst_count' = inst_count
          /\ Len(instances') = Len(instances) + 1
      BY <1>8, <1>10, <2>1
    <3>2. \A d, n : d \in Nat \ {0} /\ n \in Nat => n + 1 + (d - 1) = d + n
      OBVIOUS
    <3>3. Depth \in Nat \ {0}
      BY <1>2
    <3>4. Len(instances) + 1 + (Depth - 1) = inst_count
      BY <2>2, <3>2, <3>3
    <3>5. QED
      BY <3>1, <3>4
  <2>12. /\ \A i, j \in 1 .. Len(Held') : Held'[i] = Held'[j] => i = j
         /\ \A i \in 1 .. Len(instances'), j \in 1 .. Len(Held') : instances'[i] # Held'[j]
         /\ \A i \in 1 .. Len(Held') : Held'[i] <= inst_count
    BY <2>1, <2>9, <2>10
  <2>13. QED
    BY <1>8, <2>6, <2>7, <2>11, <2>12 DEF PoolConserved, PoolAccounts
<1>22. HashHoldsDepth'
  BY <1>2, <1>4 DEF IInv, HashHoldsDepth
<1>23. StackMirrorsCalls'
  <2>1. \A i \in 1 .. Depth : qstack[i].hash = calls[i].hash /\ qstack[i].frame = i
    BY DEF IInv, StackMirrorsCalls
  <2>2. \A i \in 1 .. Depth : qmap[qstack[i].hash] = i
    BY <1>5, <2>1 DEF IInv, StackMirrorsCalls, ViewsAgree
  <2>3. \A i \in 1 .. Depth - 1 : qstack[i].hash # Current.hash
    BY <1>2, <1>3, <2>1, <2>2
  <2>4. \A i \in 1 .. Depth - 1 : qstack[i].hash \in Hash
    <3>1. \A i \in 1 .. Depth - 1 : qstack[i] \in QueryHandler
      BY <1>2, <1>5, ElementOfSeq
    <3>2. QED
      BY <3>1 DEF QueryHandler
  <2>5. \A i \in 1 .. Depth - 1 : qmap'[qstack'[i].hash] = qstack'[i].frame
    BY <1>0, <1>2, <1>7, <1>9, <2>1, <2>2, <2>3, <2>4 DEF TypeOK, HashedStackTypeOK
  <2>6. ASSUME NEW k \in Hash, qmap'[k] # Absent
        PROVE  \E i \in 1 .. Depth - 1 : qstack'[i].hash = k
    <3>1. k # Current.hash /\ qmap[k] # Absent
      BY <1>0, <1>9, <2>6 DEF TypeOK, HashedStackTypeOK
    <3>2. PICK i \in 1 .. Depth : qstack[i].hash = k
      BY <1>5, <3>1 DEF IInv, StackMirrorsCalls, ViewsAgree
    <3>3. i # Depth
      BY <1>2, <1>3, <2>1, <3>1, <3>2
    <3>4. QED
      BY <1>2, <1>7, <3>2, <3>3
  <2>7. \A i \in 1 .. Depth - 1 :
          qstack'[i].hash = calls'[i].hash /\ qstack'[i].frame = i
    <3>1. TAKE i \in 1 .. Depth - 1
    <3>2. i \in 1 .. Depth /\ qstack'[i] = qstack[i] /\ calls'[i] = calls[i]
      BY <1>2, <1>4, <1>7
    <3>3. QED
      BY <2>1, <3>2
  <2>8. ViewsAgree'
    BY <1>7, <2>5, <2>6 DEF ViewsAgree
  <2>9. QED
    BY <1>4, <1>7, <2>7, <2>8 DEF StackMirrorsCalls
<1>24. CookiesPointToRuns'
  <2>1. SUFFICES ASSUME NEW k \in Instance
                 PROVE  /\ cookie'[k] = 0 <=> req'[k] = "idle"
                        /\ cookie'[k] # 0 => cookie'[k] <= Depth' /\ calls'[cookie'[k]].inst = k
                        /\ cookie'[k] = 0 => \A i \in 1 .. Depth' : calls'[i].inst # k
    BY DEF CookiesPointToRuns
  <2>2. /\ cookie[k] = 0 <=> req[k] = "idle"
        /\ cookie[k] # 0 => cookie[k] <= Depth /\ calls[cookie[k]].inst = k
        /\ cookie[k] = 0 => \A i \in 1 .. Depth : calls[i].inst # k
        /\ cookie[k] \in Nat
    BY <1>0, DepthBound DEF IInv, CookiesPointToRuns, TypeOK
  <2>3. CASE k = inst
    BY <1>0, <1>2, <1>4, <1>9, <1>11, <2>3 DEF TypeOK
  <2>4. CASE k # inst
    <3>1. cookie'[k] = cookie[k] /\ req'[k] = req[k]
      BY <1>0, <1>9, <2>4 DEF TypeOK
    <3>2. cookie[k] # Depth
      BY <1>2, <1>3, <2>2, <2>4 DEF inst
    <3>3. cookie[k] # 0 => cookie[k] \in 1 .. Depth - 1
      BY <1>2, <2>2, <3>2
    <3>4. \A i \in 1 .. Depth - 1 : i \in 1 .. Depth
      BY <1>2
    <3>5. cookie'[k] # 0 => cookie'[k] <= Depth' /\ calls'[cookie'[k]].inst = k
      BY <1>2, <1>4, <2>2, <3>1, <3>3
    <3>6. cookie'[k] = 0 => \A i \in 1 .. Depth' : calls'[i].inst # k
      BY <1>4, <2>2, <3>1, <3>4
    <3>7. QED
      BY <2>2, <3>1, <3>5, <3>6
  <2>5. QED
    BY <2>3, <2>4
<1>25. RowsReachTheirQuery'
  <2>1. \A i \in 1 .. Depth - 1 : calls[i].rows = sent[calls[i].inst]
    BY <1>2 DEF IInv, RowsReachTheirQuery
  <2>2. \A i \in 1 .. Depth - 1 : sent'[calls[i].inst] = sent[calls[i].inst]
    BY <1>0, <1>9, <1>11 DEF TypeOK
  <2>3. QED
    BY <1>4, <2>1, <2>2 DEF RowsReachTheirQuery
<1>26. JsRunsInsideIterations'
  <2>1. \A i \in 1 .. Depth - 1 :
          calls[i].op = "iter" /\ req[calls[i].inst] \in {"active", "cancelled"}
    BY <1>2 DEF IInv, JsRunsInsideIterations
  <2>2. \A i \in 1 .. Depth - 1 : req'[calls[i].inst] = req[calls[i].inst]
    BY <1>0, <1>9, <1>11 DEF TypeOK
  <2>3. QED
    BY <1>1, <1>4, <2>1, <2>2 DEF JsRunsInsideIterations
<1>27. QED
  BY <1>20, <1>21, <1>22, <1>23, <1>24, <1>25, <1>26 DEF IInv

\* The return of iter keeps the invariant: the frame is popped everywhere at once.
LEMMA IterReturnPreservesIInv ==
  ASSUME IInv, IterFunctionReturns
  PROVE  IInv'
<1>0. TypeOK
  BY DEF IInv
<1>1. calls # <<>>
  BY DEF IterFunctionReturns, IInv, JsRunsInsideIterations
<1>2. Current \in Call
  BY <1>1, TopIsCurrent
<1> DEFINE o == Current.obj
<1>3. o \in Objects /\ Current.meta \in Metadata
  BY <1>2 DEF Call
<1>4. metadata' \in [Objects -> Metadata]
  BY <1>0, <1>3 DEF TypeOK, IterFunctionReturns, AddQueryMetadata
<1>5. scope[o] # <<>> => SubSeq(scope[o], 1, Len(scope[o]) - 1) \in Seq(Hash)
  BY <1>0, <1>3, FrontProperties DEF TypeOK, ScopeTypeOK
<1>6. scope' \in [Objects -> Seq(Hash)] /\ hasBase' \in [Objects -> BOOLEAN]
  BY <1>0, <1>3, <1>5 DEF TypeOK, ScopeTypeOK, IterFunctionReturns, PopScopeStack
<1>7. QED
  BY <1>4, <1>6, FinishPreservesIInv DEF IterFunctionReturns

\* The return of execQuery keeps the invariant, although its scope stack keeps a hash.
LEMMA ExecQueryReturnPreservesIInv ==
  ASSUME IInv, ExecQueryFunctionReturns
  PROVE  IInv'
<1>1. TypeOK
  BY DEF IInv
<1>2. QED
  BY <1>1, FinishPreservesIInv
     DEF TypeOK, ScopeTypeOK, ExecQueryFunctionReturns, scopeVars

-------------------------------------------------------------------------------
(* The theorems.                                                           *)

\* The state before the first call of the handler satisfies the invariant.
LEMMA InitEstablishesIInv == Init => IInv
<1> SUFFICES ASSUME Init PROVE IInv
  OBVIOUS
<1>1. /\ calls = <<>> /\ instances = <<>> /\ qstack = <<>> /\ Len(calls) = 0
      /\ Len(instances) = 0 /\ Len(qstack) = 0 /\ inst_count = 0
  BY EmptySeq DEF Init, PoolInit, HashedStackInit
<1>2. /\ calls \in Seq(Call) /\ instances \in Seq(Instance) /\ qstack \in Seq(QueryHandler)
      /\ <<>> \in Seq(Hash)
  BY <1>1, EmptySeq
<1>3. TypeOK
  <2>1. PoolTypeOK /\ HashedStackTypeOK /\ ScopeTypeOK
    BY <1>1, <1>2, CapacityAssumption
       DEF PoolTypeOK, HashedStackTypeOK, ScopeTypeOK, Init, PoolInit, HashedStackInit, ScopeInit
  <2>2. 0 \in 0 .. MaxDepth /\ 0 \in 0 .. MaxRows /\ "none" \in Metadata
    BY RuntimeAssumption, MaxDepthAssumption DEF Metadata
  <2>3. QED
    BY <1>2, <2>1, <2>2 DEF TypeOK, Init
<1>4. Depth = 0 /\ Len(Held) = 0
  BY <1>1 DEF Depth, Held
<1>5. PoolConserved
  BY <1>1, <1>4 DEF PoolConserved, PoolAccounts
<1>6. HashHoldsDepth /\ RowsReachTheirQuery /\ JsRunsInsideIterations
  BY <1>4 DEF HashHoldsDepth, RowsReachTheirQuery, JsRunsInsideIterations, Init
<1>7. StackMirrorsCalls
  BY <1>1, <1>4 DEF StackMirrorsCalls, ViewsAgree, Init, HashedStackInit
<1>8. CookiesPointToRuns
  BY <1>4 DEF CookiesPointToRuns, Init
<1>9. QED
  BY <1>3, <1>5, <1>6, <1>7, <1>8 DEF IInv

\* Every call, callback and return keeps the invariant.
LEMMA NextPreservesIInv == IInv /\ [Next]_vars => IInv'
<1> SUFFICES ASSUME IInv, [Next]_vars PROVE IInv'
  OBVIOUS
<1>1. ASSUME NEW o \in Objects, NEW op \in {"iter", "exec"}, CallQuery(o, op)
      PROVE  IInv'
  <2>1. CASE SetUniqueHash(o) /\ UNCHANGED jsVars /\ \E inst \in Instance : StartQuery(o, op, inst)
    BY <1>1, <2>1, StartPreservesIInv DEF CallQuery
  <2>2. CASE SetUniqueHash(o) /\ UNCHANGED jsVars /\ RefuseQuery
    BY <1>1, <2>2, RefusePreservesIInv DEF CallQuery
  <2>3. CASE CreationCrashes
    BY <2>3, CrashPreservesIInv DEF CreationCrashes
  <2>4. QED
    BY <1>1, <2>1, <2>2, <2>3 DEF CallQuery
<1>2. ASSUME NEW o \in Objects, IterFunction(o) \/ ExecQueryFunction(o)
      PROVE  IInv'
  BY <1>1, <1>2 DEF IterFunction, ExecQueryFunction
<1>3. CASE IterRow
  BY <1>3, RowPreservesIInv DEF IterRow
<1>4. CASE BlockingRow
  BY <1>4, RowPreservesIInv DEF BlockingRow
<1>5. CASE \E ok \in BOOLEAN : FinalRow(ok)
  BY <1>5, FinalRowPreservesIInv
<1>a. CASE FinalRowCrashes
  BY <1>a, CrashPreservesIInv DEF FinalRowCrashes
<1>6. CASE CallbackReturns
  BY <1>6, CallbackReturnsPreservesIInv
<1>7. CASE CallbackThrows
  BY <1>7, CallbackThrowsPreservesIInv
<1>8. CASE IterFunctionReturns
  BY <1>8, IterReturnPreservesIInv
<1>9. CASE ExecQueryFunctionReturns
  BY <1>9, ExecQueryReturnPreservesIInv
<1>10. CASE \E o \in Objects, code \in Codes : StopIterFunction(o, code)
  BY <1>10, StopIterPreservesIInv
<1>11. CASE \E o \in Objects : GetReturnValueFunction(o)
  BY <1>11, GetReturnValuePreservesIInv
<1>12. CASE UNCHANGED vars
  <2>1. TypeOK /\ UNCHANGED <<calls, ctl, raised, poolVars, hashedStackVars, scopeVars,
                              cookie, req, sent, retval, metadata>>
    BY <1>12 DEF IInv, vars, lcbVars, jsVars
  <2>2. ctl = "native" => calls # <<>>
    BY DEF IInv, JsRunsInsideIterations
  <2>3. QED
    BY <2>1, <2>2, ControlPreservesIInv DEF TypeOK
<1>13. QED
  BY <1>2, <1>3, <1>4, <1>5, <1>a, <1>6, <1>7, <1>8, <1>9, <1>10, <1>11, <1>12 DEF Next

\* The inductive invariant of the native runtime (n1ql.cpp) holds for every capacity,
\* any number of objects, rows and depth of nesting, and identity hashes that collide.
THEOREM Invariance == Spec => []IInv
<1>1. Init => IInv
  BY InitEstablishesIInv
<1>2. IInv /\ [Next]_vars => IInv'
  BY NextPreservesIInv
<1>3. QED
  BY <1>1, <1>2, PTL DEF Spec

\* Every variable keeps its type; in particular no query runs at a depth that the
\* hashed stack has no frame for.
THEOREM TypeCorrectness == Spec => []TypeOK
<1>1. IInv => TypeOK
  BY DEF IInv
<1>2. QED
  BY <1>1, Invariance, PTL

\* ConnectionPool::GetResource and Restore: no instance is lost or handed out twice.
THEOREM PoolIsConserved == Spec => []PoolConserved
<1>1. IInv => PoolConserved
  BY DEF IInv
<1>2. QED
  BY <1>1, Invariance, PTL

\* HashedStack::Push and Pop: the hashed stack is the C++ stack of the running
\* queries, and their hashes are different even if V8's identity hashes collide.
THEOREM HashedStackIsFaithful == Spec => []StackMirrorsCalls
<1>1. IInv => StackMirrorsCalls
  BY DEF IInv
<1>2. QED
  BY <1>1, Invariance, PTL

\* RowCallback: a row reaches the query that the server sent it for.
THEOREM RowsAreRouted == Spec => []RowsReachTheirQuery
<1>1. IInv => RowsReachTheirQuery
  BY DEF IInv
<1>2. QED
  BY <1>1, Invariance, PTL

\* lcb_get_cookie in RowCallback and StopIterFunction: the cookie is never null
\* nor dangling while its query runs.
THEOREM CookiesAreValid == Spec => []CookiesPointToRuns
<1>1. IInv => CookiesPointToRuns
  BY DEF IInv
<1>2. QED
  BY <1>1, Invariance, PTL

\* StopIterFunction and the throwing callback cancel only queries that libcouchbase
\* still knows.
THEOREM JavaScriptRunsInsideIterations == Spec => []JsRunsInsideIterations
<1>1. IInv => JsRunsInsideIterations
  BY DEF IInv
<1>2. QED
  BY <1>1, Invariance, PTL

\* GetResource throws only if as many queries run as the pool may have instances.
THEOREM RefusalMeansFull == Spec => RefusedOnlyAtCapacity
<1> DEFINE A == (\E o \in Objects : Len(scope'[o]) > Len(scope[o])) /\ calls' = calls
                  => Depth = Capacity
<1>1. ASSUME IInv, Next
      PROVE  A
  <2>1. SUFFICES ASSUME NEW p \in Objects, Len(scope'[p]) > Len(scope[p]), calls' = calls
                 PROVE  Depth = Capacity
    OBVIOUS
  <2>2. Len(scope[p]) \in Nat /\ Depth \in Nat
    BY <1>1, DepthBound, LenProperties DEF IInv, TypeOK, ScopeTypeOK
  <2>3. scope' # scope
    BY <2>1, <2>2
  <2>4. ASSUME NEW o \in Objects, NEW op \in {"iter", "exec"}, CallQuery(o, op)
        PROVE  Depth = Capacity
    <3>1. ASSUME NEW inst \in Instance, StartQuery(o, op, inst)
          PROVE  FALSE
      <4> DEFINE c == [op |-> op, obj |-> o, hash |-> UniqueHash(o), inst |-> inst,
                       rows |-> 0, meta |-> "none", exc |-> FALSE]
      <4>1. calls' = Append(calls, c) /\ calls \in Seq(Call)
        BY <1>1, <3>1 DEF StartQuery, IInv, TypeOK
      <4> HIDE DEF c
      <4>2. Len(calls') = Len(calls) + 1 /\ Len(calls) \in Nat
        BY <4>1, LenProperties
      <4>3. QED
        BY <2>1, <4>2
    <3>2. RefuseQuery
      BY <2>3, <2>4, <3>1 DEF CallQuery, CreationCrashes, Crash, scopeVars
    <3>3. Len(instances) = 0 /\ inst_count >= Capacity
      BY <3>2, EmptySeq DEF RefuseQuery, Exhausted
    <3>4. QED
      BY <1>1, <3>3, DepthBound
  <2>5. ASSUME NEW o \in Objects, IterFunction(o) \/ ExecQueryFunction(o)
        PROVE  Depth = Capacity
    BY <2>4, <2>5 DEF IterFunction, ExecQueryFunction
  <2>6. ~FinishQuery
    <3>1. SUFFICES ASSUME FinishQuery PROVE FALSE
      OBVIOUS
    <3>2. calls # <<>> /\ calls \in Seq(Call)
      BY <1>1, <3>1 DEF FinishQuery, IInv, JsRunsInsideIterations, TypeOK
    <3>3. Len(calls') = Len(calls) - 1 /\ Len(calls) \in Nat
      BY <3>1, <3>2, FrontProperties, LenProperties DEF FinishQuery, Depth
    <3>4. QED
      BY <2>1, <3>3
  <2>7. UNCHANGED scope \/ \E o \in Objects : IterFunction(o) \/ ExecQueryFunction(o)
    BY <1>1, <2>6 DEF Next, IterRow, BlockingRow, Row, FinalRow, FinalRowCrashes, CallbackReturns, CallbackThrows,
                IterFunctionReturns, ExecQueryFunctionReturns, StopIterFunction,
                GetReturnValueFunction, Crash, scopeVars
  <2>8. QED
    BY <2>3, <2>5, <2>7
<1>2. IInv /\ [Next]_vars => [A]_vars
  BY <1>1
<1>3. QED
  BY <1>2, Invariance, PTL DEF Spec, RefusedOnlyAtCapacity

-------------------------------------------------------------------------------
(* The contract.  The scope stacks lead stopIter to the innermost          *)
(* iteration, and so the runtime implements QueryContract.                 *)
(*                                                                         *)
(* What the scope stack of an object holds is exact only while nothing has *)
(* leaked.  ScopeInv says what survives a leak: counted from the top, the  *)
(* entries from that of a run upwards are as deep as the run or deeper, so *)
(* that the top of the stack is the innermost run's hash or leads nowhere. *)

\* The position of the i-th run in the scope stack of its object, were it exact.
Position(o, i) == Len(scope[o]) - Cardinality(RunsAbove(o, i))

ScopeInv ==
  \A o \in Objects :
    /\ \A p \in 1 .. Len(scope[o]) : scope[o][p][1] = IdHash[o]
    /\ \A i \in RunsOf(o) :
         \A p \in Position(o, i) .. Len(scope[o]) : scope[o][p][2] >= i - 1

CInv == IInv /\ ScopeStackCoversRuns /\ ScopeInv

\* What ScopeStackCoversRuns and ScopeInv say of one object.
ScopeIsSound(o) ==
  /\ Len(scope[o]) >= Cardinality(RunsOf(o))
  /\ Len(scope[o]) = Cardinality(RunsOf(o)) =>
       \A i \in RunsOf(o) : scope[o][Position(o, i)] = calls[i].hash
  /\ \A p \in 1 .. Len(scope[o]) : scope[o][p][1] = IdHash[o]
  /\ \A i \in RunsOf(o) :
       \A p \in Position(o, i) .. Len(scope[o]) : scope[o][p][2] >= i - 1

-------------------------------------------------------------------------------
(* The running queries of an object.                                       *)

\* The runs of an object and those above one of them are finite sets, and the
\* position of a run lies in the scope stack.
LEMMA RunsAreFinite ==
  ASSUME CInv, NEW o \in Objects
  PROVE  /\ RunsOf(o) \subseteq 1 .. Depth /\ Depth \in Nat
         /\ IsFiniteSet(RunsOf(o)) /\ Cardinality(RunsOf(o)) \in Nat
         /\ scope[o] \in Seq(Hash) /\ Len(scope[o]) \in Nat
         /\ \A i \in RunsOf(o) :
              /\ IsFiniteSet(RunsAbove(o, i)) /\ Cardinality(RunsAbove(o, i)) \in Nat
              /\ Position(o, i) \in 1 .. Len(scope[o])
<1>1. Depth \in Nat /\ RunsOf(o) \subseteq 1 .. Depth
  BY DepthBound DEF CInv, RunsOf
<1>2. IsFiniteSet(RunsOf(o)) /\ Cardinality(RunsOf(o)) \in Nat
  <2>1. IsFiniteSet(1 .. Depth)
    BY <1>1, FS_Interval
  <2>2. RunsOf(o) \in SUBSET (1 .. Depth)
    BY <1>1
  <2> HIDE DEF RunsOf
  <2>3. IsFiniteSet(RunsOf(o))
    BY <2>1, <2>2, FS_Subset
  <2>4. QED
    BY <2>3, FS_CardinalityType
<1>3. scope[o] \in Seq(Hash) /\ Len(scope[o]) \in Nat
  BY LenProperties DEF CInv, IInv, TypeOK, ScopeTypeOK
<1>4. ASSUME NEW i \in RunsOf(o)
      PROVE  /\ IsFiniteSet(RunsAbove(o, i)) /\ Cardinality(RunsAbove(o, i)) \in Nat
             /\ Position(o, i) \in 1 .. Len(scope[o])
  <2>1. RunsAbove(o, i) \subseteq RunsOf(o) /\ i \notin RunsAbove(o, i)
    BY <1>1 DEF RunsAbove
  <2>2. /\ IsFiniteSet(RunsAbove(o, i)) /\ Cardinality(RunsAbove(o, i)) \in Nat
        /\ Cardinality(RunsAbove(o, i)) <= Cardinality(RunsOf(o))
        /\ Cardinality(RunsAbove(o, i)) # Cardinality(RunsOf(o))
    BY <1>2, <2>1, FS_Subset, FS_CardinalityType
  <2>3. Cardinality(RunsOf(o)) <= Len(scope[o])
    BY <1>2, <1>3 DEF CInv, ScopeStackCoversRuns
  <2>4. QED
    BY <1>2, <1>3, <2>2, <2>3 DEF Position
<1>5. QED
  BY <1>1, <1>2, <1>3, <1>4

\* Nothing changes for an object whose runs and scope stack stay as they are.
LEMMA SameScope ==
  ASSUME CInv, NEW o \in Objects, scope'[o] = scope[o], RunsOf(o)' = RunsOf(o),
         \A i \in RunsOf(o) : calls'[i].hash = calls[i].hash
  PROVE  ScopeIsSound(o)'
<1>1. \A i : RunsAbove(o, i)' = RunsAbove(o, i)
  BY DEF RunsAbove
<1>2. \A i : Position(o, i)' = Position(o, i)
  BY <1>1 DEF Position
<1>3. QED
  BY <1>2 DEF CInv, ScopeIsSound, ScopeStackCoversRuns, ScopeInv, Position

\* The two invariants of the scope stacks, one object at a time.
LEMMA OneObjectAtATime ==
  ASSUME \A o \in Objects : ScopeIsSound(o)'
  PROVE  ScopeStackCoversRuns' /\ ScopeInv'
BY DEF ScopeIsSound, ScopeStackCoversRuns, ScopeInv, Position

\* A step that keeps the frames and the scope stacks.
LEMMA SameFramesAndScopes ==
  ASSUME CInv, Depth' = Depth, scope' = scope,
         \A i \in 1 .. Depth : calls'[i].obj = calls[i].obj /\ calls'[i].hash = calls[i].hash
  PROVE  ScopeStackCoversRuns' /\ ScopeInv'
<1>1. \A o \in Objects : RunsOf(o)' = RunsOf(o)
  BY DEF RunsOf
<1>2. \A o \in Objects : \A i \in RunsOf(o) : calls'[i].hash = calls[i].hash
  BY DEF RunsOf
<1>3. QED
  BY <1>1, <1>2, SameScope, OneObjectAtATime

\* The hash that a run of o gets holds the present depth.
LEMMA UniqueHashIsDepth ==
  ASSUME IInv, NEW o \in Objects
  PROVE  UniqueHash(o) = <<IdHash[o], Depth>> /\ UniqueHash(o) \in Hash
<1>1. Size = Depth /\ Depth \in 0 .. MaxDepth
  BY DepthBound DEF IInv, StackMirrorsCalls, Size
<1>2. IdHash[o] \in HashIds
  BY IdHashAssumption
<1>3. QED
  BY <1>1, <1>2 DEF UniqueHash, AppendStackIndex, Hash

-------------------------------------------------------------------------------
(* The three changes of a scope stack.                                     *)

\* SetUniqueHash puts the hash of the present depth on top of the object's stack.
LEMMA PushedScope ==
  ASSUME IInv, NEW o \in Objects, SetUniqueHash(o)
  PROVE  /\ Len(scope[o]) \in Nat /\ Len(scope'[o]) = Len(scope[o]) + 1
         /\ \A p \in 1 .. Len(scope[o]) : scope'[o][p] = scope[o][p]
         /\ scope'[o][Len(scope[o]) + 1] = UniqueHash(o)
         /\ \A x \in Objects \ {o} : scope'[x] = scope[x]
<1>1. scope \in [Objects -> Seq(Hash)] /\ UniqueHash(o) \in Hash
  BY UniqueHashIsDepth DEF IInv, TypeOK, ScopeTypeOK
<1>2. scope' = [scope EXCEPT ![o] = Append(scope[o], UniqueHash(o))]
  BY DEF SetUniqueHash, PushScopeStack
<1> DEFINE h == UniqueHash(o)
<1> HIDE DEF h
<1>3. scope'[o] = Append(scope[o], h) /\ \A x \in Objects \ {o} : scope'[x] = scope[x]
  BY <1>1, <1>2 DEF h
<1>4. scope[o] \in Seq(Hash) /\ h \in Hash
  BY <1>1 DEF h
<1>5. QED
  BY <1>3, <1>4, AppendProperties, LenProperties DEF h

\* A refused call leaves a hash that is deeper than every run.
LEMMA RefuseKeepsScopes ==
  ASSUME CInv, NEW o \in Objects, SetUniqueHash(o), RefuseQuery
  PROVE  ScopeStackCoversRuns' /\ ScopeInv'
<1>1. calls' = calls /\ Depth' = Depth /\ IInv
  BY DEF RefuseQuery, Depth, CInv
<1>2. \A x \in Objects : RunsOf(x)' = RunsOf(x)
  BY <1>1 DEF RunsOf
<1>3. \A x \in Objects \ {o} : scope'[x] = scope[x]
  BY <1>1, PushedScope
<1> DEFINE n == Len(scope[o])
<1>4. /\ n \in Nat /\ Len(scope'[o]) = n + 1
      /\ \A p \in 1 .. n : scope'[o][p] = scope[o][p]
      /\ scope'[o][n + 1] = <<IdHash[o], Depth>>
  BY <1>1, PushedScope, UniqueHashIsDepth
<1>5. /\ Cardinality(RunsOf(o)) \in Nat /\ n >= Cardinality(RunsOf(o))
      /\ RunsOf(o) \subseteq 1 .. Depth /\ Depth \in Nat
      /\ \A i \in RunsOf(o) : Position(o, i) \in 1 .. n
  BY RunsAreFinite DEF CInv, ScopeStackCoversRuns
<1> HIDE DEF n
<1>6. \A i : Position(o, i)' = Len(scope'[o]) - Cardinality(RunsAbove(o, i))
  BY <1>2 DEF Position, RunsAbove
<1>7. \A i \in RunsOf(o) : Position(o, i)' = Position(o, i) + 1
  BY <1>4, <1>6, RunsAreFinite DEF Position, n
<1>8. ASSUME NEW i \in RunsOf(o), NEW p \in Position(o, i) + 1 .. n + 1
      PROVE  scope'[o][p][2] >= i - 1
  <2>1. CASE p = n + 1
    BY <1>4, <1>5, <2>1
  <2>2. CASE p # n + 1
    <3>1. p \in 1 .. n /\ p \in Position(o, i) .. n
      BY <1>4, <1>5, <2>2
    <3>2. scope[o][p][2] >= i - 1
      BY <3>1 DEF CInv, ScopeInv, n
    <3>3. QED
      BY <1>4, <3>1, <3>2
  <2>3. QED
    BY <2>1, <2>2
<1>9. \A p \in 1 .. n + 1 : scope'[o][p][1] = IdHash[o]
  <2>1. TAKE p \in 1 .. n + 1
  <2>2. CASE p = n + 1
    BY <1>4, <2>2
  <2>3. CASE p # n + 1
    BY <1>4, <2>3 DEF CInv, ScopeInv, n
  <2>4. QED
    BY <2>2, <2>3
<1>10. /\ Len(scope'[o]) > Cardinality(RunsOf(o)')
       /\ \A p \in 1 .. Len(scope'[o]) : scope'[o][p][1] = IdHash[o]
       /\ \A i \in RunsOf(o)' :
              \A p \in Position(o, i)' .. Len(scope'[o]) : scope'[o][p][2] >= i - 1
  BY <1>2, <1>4, <1>5, <1>7, <1>8, <1>9
<1>11. \A x \in Objects \ {o} : \A i \in RunsOf(x) : calls'[i].hash = calls[i].hash
  BY <1>1
<1>12. Len(scope'[o]) >= Cardinality(RunsOf(o)') /\ Len(scope'[o]) # Cardinality(RunsOf(o)')
  BY <1>2, <1>4, <1>5, <1>10
<1>13. ScopeIsSound(o)'
  BY <1>10, <1>12 DEF ScopeIsSound
<1>14. \A x \in Objects \ {o} : ScopeIsSound(x)'
  BY <1>2, <1>3, <1>11, SameScope
<1>15. QED
  BY <1>13, <1>14, OneObjectAtATime

\* A query that is started is the innermost run of its object, and its hash is on top.
LEMMA StartKeepsScopes ==
  ASSUME CInv, NEW o \in Objects, SetUniqueHash(o), Depth' = Depth + 1,
         \A i \in 1 .. Depth : calls'[i] = calls[i],
         calls'[Depth + 1].obj = o, calls'[Depth + 1].hash = UniqueHash(o)
  PROVE  ScopeStackCoversRuns' /\ ScopeInv'
<1> DEFINE n == Len(scope[o])
<1>1. IInv /\ Depth \in Nat
  BY DepthBound DEF CInv
<1>0. PICK d : d = Depth + 1
  OBVIOUS
<1>2. /\ n \in Nat /\ Len(scope'[o]) = n + 1
      /\ \A p \in 1 .. n : scope'[o][p] = scope[o][p]
      /\ scope'[o][n + 1] = <<IdHash[o], Depth>>
      /\ \A x \in Objects \ {o} : scope'[x] = scope[x]
  BY <1>1, PushedScope, UniqueHashIsDepth
<1>3. /\ RunsOf(o)' = RunsOf(o) \cup {d}
      /\ \A x \in Objects \ {o} : RunsOf(x)' = RunsOf(x)
  <2>1. 1 .. Depth' = (1 .. Depth) \cup {d}
    BY <1>0, <1>1
  <2> QED
    BY <1>0, <2>1 DEF RunsOf
<1>4. /\ IsFiniteSet(RunsOf(o)) /\ Cardinality(RunsOf(o)) \in Nat
      /\ RunsOf(o) \subseteq 1 .. Depth /\ n >= Cardinality(RunsOf(o))
      /\ \A i \in RunsOf(o) : Position(o, i) \in 1 .. n
  BY RunsAreFinite DEF CInv, ScopeStackCoversRuns
<1>5. d \notin RunsOf(o) /\ \A i \in RunsOf(o) : i < d /\ i \in Nat
  BY <1>0, <1>1, <1>4
<1>6. Cardinality(RunsOf(o)') = Cardinality(RunsOf(o)) + 1
  BY <1>3, <1>4, <1>5, FS_AddElement
<1> HIDE DEF n
<1>7. Position(o, d)' = n + 1
  <2>1. RunsAbove(o, d)' = {j \in RunsOf(o)' : j > d}
    BY DEF RunsAbove
  <2>2. RunsAbove(o, d)' = {}
    BY <1>0, <1>1, <1>3, <1>5, <2>1
  <2>3. Position(o, d)' = Len(scope'[o]) - Cardinality(RunsAbove(o, d)')
    BY DEF Position
  <2> QED
    BY <1>2, <2>2, <2>3, FS_EmptySet
<1>8. ASSUME NEW i \in RunsOf(o)
      PROVE  Position(o, i)' = Position(o, i)
  <2>1. RunsAbove(o, i)' = RunsAbove(o, i) \cup {d} /\ d \notin RunsAbove(o, i)
    BY <1>3, <1>5, <1>8 DEF RunsAbove
  <2>2. IsFiniteSet(RunsAbove(o, i)) /\ Cardinality(RunsAbove(o, i)) \in Nat
    BY <1>8, RunsAreFinite
  <2>3. Cardinality(RunsAbove(o, i)') = Cardinality(RunsAbove(o, i)) + 1
    BY <2>1, <2>2, FS_AddElement
  <2>4. Position(o, i)' = n + 1 - Cardinality(RunsAbove(o, i)')
    <3>1. Position(o, i)' = Len(scope'[o]) - Cardinality(RunsAbove(o, i)')
      BY DEF Position
    <3>2. Len(scope'[o]) = n + 1 /\ n \in Nat
      BY <1>2
    <3>3. Cardinality(RunsAbove(o, i)') \in Nat
      BY <2>2, <2>3
    <3> QED
      BY <3>1, <3>2, <3>3
  <2>5. Position(o, i) = n - Cardinality(RunsAbove(o, i))
    BY DEF Position, n
  <2> QED
    BY <1>2, <2>2, <2>3, <2>4, <2>5
<1>9. ASSUME NEW i \in RunsOf(o)', NEW p \in Position(o, i)' .. n + 1
      PROVE  scope'[o][p][2] >= i - 1
  <2>1. CASE p = n + 1
    BY <1>0, <1>1, <1>2, <1>3, <1>5, <2>1
  <2>2. CASE p # n + 1
    <3>1. i \in RunsOf(o) /\ p \in Position(o, i) .. n /\ p \in 1 .. n
      BY <1>2, <1>3, <1>4, <1>7, <1>8, <1>9, <2>2
    <3>2. scope[o][p][2] >= i - 1
      BY <3>1 DEF CInv, ScopeInv, n
    <3> QED
      BY <1>2, <3>1, <3>2
  <2> QED
    BY <2>1, <2>2
<1>10. \A p \in 1 .. n + 1 : scope'[o][p][1] = IdHash[o]
  <2>1. TAKE p \in 1 .. n + 1
  <2>2. CASE p = n + 1
    BY <1>2, <2>2
  <2>3. CASE p # n + 1
    BY <1>2, <2>3 DEF CInv, ScopeInv, n
  <2> QED
    BY <2>2, <2>3
<1>11. ASSUME n = Cardinality(RunsOf(o)), NEW i \in RunsOf(o)'
       PROVE  scope'[o][Position(o, i)'] = calls'[i].hash
  <2>1. CASE i = d
    BY <1>0, <1>1, <1>2, <1>7, <2>1, UniqueHashIsDepth
  <2>2. CASE i # d
    <3>1. i \in RunsOf(o) /\ calls'[i] = calls[i]
      BY <1>0, <1>1, <1>3, <1>4, <1>11, <2>2
    <3>2. scope[o][Position(o, i)] = calls[i].hash
      BY <1>11, <3>1 DEF CInv, ScopeStackCoversRuns, Position, n
    <3> QED
      BY <1>2, <1>4, <1>8, <3>1, <3>2
  <2> QED
    BY <2>1, <2>2
<1>12. Len(scope'[o]) = Cardinality(RunsOf(o)') => n = Cardinality(RunsOf(o))
  BY <1>2, <1>4, <1>6
<1>13. Len(scope'[o]) >= Cardinality(RunsOf(o)')
  BY <1>2, <1>4, <1>6
<1>14. ASSUME NEW x \in Objects \ {o}
       PROVE  \A i \in RunsOf(x) : calls'[i].hash = calls[i].hash
  BY <1>14 DEF RunsOf
<1>15. \A x \in Objects \ {o} : scope'[x] = scope[x] /\ RunsOf(x)' = RunsOf(x)
  BY <1>2, <1>3
<1>16. ScopeIsSound(o)'
  BY <1>2, <1>9, <1>10, <1>11, <1>12, <1>13 DEF ScopeIsSound
<1>17. \A x \in Objects \ {o} : ScopeIsSound(x)'
  BY <1>14, <1>15, SameScope
<1> QED
  BY <1>16, <1>17, OneObjectAtATime

\* The innermost run ends: those below it keep their distance from the bottom of the
\* stack if its hash is removed, and rise by one if it is left behind.
LEMMA ReturnKeepsScopes ==
  ASSUME CInv, Depth \in Nat \ {0}, NEW o \in Objects, Current.obj = o, Depth' = Depth - 1,
         \A i \in 1 .. Depth - 1 : calls'[i] = calls[i],
         scope' = scope \/ PopScopeStack(o)
  PROVE  ScopeStackCoversRuns' /\ ScopeInv'
<1> DEFINE n == Len(scope[o])
<1>1. /\ scope \in [Objects -> Seq(Hash)] /\ n \in Nat
      /\ IsFiniteSet(RunsOf(o)) /\ Cardinality(RunsOf(o)) \in Nat
      /\ RunsOf(o) \subseteq 1 .. Depth /\ n >= Cardinality(RunsOf(o))
      /\ \A i \in RunsOf(o) : Position(o, i) \in 1 .. n
  BY RunsAreFinite DEF CInv, IInv, TypeOK, ScopeTypeOK, ScopeStackCoversRuns
<1>2. Depth \in RunsOf(o)
  BY DEF RunsOf, Current
<1>3. /\ RunsOf(o)' = RunsOf(o) \ {Depth}
      /\ \A x \in Objects \ {o} : RunsOf(x)' = RunsOf(x)
  <2>1. 1 .. Depth' = (1 .. Depth) \ {Depth}
    OBVIOUS
  <2>2. \A i \in (1 .. Depth) \ {Depth} : calls'[i] = calls[i]
    OBVIOUS
  <2> QED
    BY <2>1, <2>2 DEF RunsOf, Current
<1>4. Cardinality(RunsOf(o)') = Cardinality(RunsOf(o)) - 1 /\ Cardinality(RunsOf(o)) >= 1
  <2>1. Cardinality(RunsOf(o) \ {Depth}) = Cardinality(RunsOf(o)) - 1
    BY <1>1, <1>2, FS_RemoveElement
  <2>2. Cardinality(RunsOf(o)) # 0
    BY <1>1, <1>2, FS_EmptySet
  <2> QED
    BY <1>1, <1>3, <2>1, <2>2
<1>5. n >= 1 /\ scope[o] # <<>>
  BY <1>1, <1>4, EmptySeq
<1> DEFINE m == Len(scope'[o])
<1>6. /\ m = n \/ m = n - 1
      /\ \A p \in 1 .. m : scope'[o][p] = scope[o][p]
      /\ \A x \in Objects \ {o} : scope'[x] = scope[x]
  <2>1. CASE scope' = scope
    BY <2>1
  <2>2. CASE PopScopeStack(o)
    <3>1. scope'[o] = SubSeq(scope[o], 1, n - 1) /\ \A x \in Objects \ {o} : scope'[x] = scope[x]
      BY <1>1, <1>5, <2>2 DEF PopScopeStack
    <3> QED
      BY <1>1, <1>5, <3>1, FrontProperties
  <2> QED
    BY <2>1, <2>2
<1> HIDE DEF n, m
<1>7. ASSUME NEW i \in RunsOf(o)'
      PROVE  i \in RunsOf(o) /\ Position(o, i)' = Position(o, i) + 1 + m - n
  <2>1. i \in RunsOf(o) /\ i < Depth
    BY <1>1, <1>3, <1>7
  <2>2. RunsAbove(o, i)' = RunsAbove(o, i) \ {Depth} /\ Depth \in RunsAbove(o, i)
    BY <1>2, <1>3, <2>1 DEF RunsAbove
  <2>3. IsFiniteSet(RunsAbove(o, i)) /\ Cardinality(RunsAbove(o, i)) \in Nat
    BY <2>1, RunsAreFinite
  <2>4. Cardinality(RunsAbove(o, i)') = Cardinality(RunsAbove(o, i)) - 1
    BY <2>2, <2>3, FS_RemoveElement
  <2>5. Position(o, i)' = m - Cardinality(RunsAbove(o, i)')
    BY DEF Position, m
  <2>6. Position(o, i) = n - Cardinality(RunsAbove(o, i))
    BY DEF Position, n
  <2> QED
    BY <1>1, <1>6, <2>1, <2>3, <2>4, <2>5, <2>6
<1>8. m \in Nat
  BY <1>1, <1>5, <1>6
<1>9. ASSUME NEW i \in RunsOf(o)', NEW p \in Position(o, i)' .. m
      PROVE  scope'[o][p][2] >= i - 1
  <2>1. i \in RunsOf(o) /\ Position(o, i) \in 1 .. n /\ Position(o, i)' = Position(o, i) + 1 + m - n
    BY <1>1, <1>7, <1>9
  <2>2. p \in Position(o, i) .. n /\ p \in 1 .. m
    BY <1>1, <1>6, <1>8, <1>9, <2>1
  <2>3. scope[o][p][2] >= i - 1
    BY <2>1, <2>2 DEF CInv, ScopeInv, n
  <2> QED
    BY <1>6, <2>2, <2>3
<1>10. \A p \in 1 .. m : scope'[o][p][1] = IdHash[o]
  <2>1. TAKE p \in 1 .. m
  <2>2. p \in 1 .. n
    BY <1>1, <1>6, <1>8
  <2> QED
    BY <1>6, <2>2 DEF CInv, ScopeInv, n
<1>11. ASSUME m = n - 1, n = Cardinality(RunsOf(o)), NEW i \in RunsOf(o)'
       PROVE  scope'[o][Position(o, i)'] = calls'[i].hash
  <2>1. i \in RunsOf(o) /\ Position(o, i) \in 1 .. n /\ Position(o, i)' = Position(o, i)
    BY <1>1, <1>7, <1>11
  <2>2. i \in 1 .. Depth - 1 /\ calls'[i] = calls[i]
    BY <1>1, <1>3, <1>11
  <2>3. scope[o][Position(o, i)] = calls[i].hash
    BY <1>11, <2>1 DEF CInv, ScopeStackCoversRuns, Position, n
  <2>4. Position(o, i) <= m
    <3>1. Position(o, i) = n - Cardinality(RunsAbove(o, i)) /\ Depth \in RunsAbove(o, i)
          /\ IsFiniteSet(RunsAbove(o, i)) /\ Cardinality(RunsAbove(o, i)) \in Nat
      BY <1>2, <2>1, <2>2, RunsAreFinite DEF Position, RunsAbove, n
    <3>2. Cardinality(RunsAbove(o, i)) # 0
      BY <3>1, FS_EmptySet
    <3> QED
      BY <1>1, <1>11, <3>1, <3>2
  <2> QED
    BY <1>6, <2>1, <2>2, <2>3, <2>4
<1>12. m = Cardinality(RunsOf(o)') => m = n - 1 /\ n = Cardinality(RunsOf(o))
  BY <1>1, <1>4, <1>6
<1>13. m >= Cardinality(RunsOf(o)')
  BY <1>1, <1>4, <1>6
<1>14. ASSUME NEW x \in Objects \ {o}
       PROVE  \A i \in RunsOf(x) : calls'[i].hash = calls[i].hash
  BY <1>3, <1>14 DEF RunsOf
<1>15. \A x \in Objects \ {o} : scope'[x] = scope[x] /\ RunsOf(x)' = RunsOf(x)
  BY <1>3, <1>6
<1>16. ScopeIsSound(o)'
  BY <1>9, <1>10, <1>11, <1>12, <1>13 DEF m, ScopeIsSound
<1>17. \A x \in Objects \ {o} : ScopeIsSound(x)'
  BY <1>14, <1>15, SameScope
<1> QED
  BY <1>16, <1>17, OneObjectAtATime

-------------------------------------------------------------------------------
(* What JavaScript can tell of the runs, step by step.                     *)

\* The runs as JavaScript sees them are the frames, one for one.
LEMMA RunningRuns ==
  ASSUME IInv
  PROVE  /\ Depth \in Nat /\ Len(Running) = Depth /\ Contract!Depth = Depth
         /\ \A i \in 1 .. Depth : Running[i] = Run(calls[i])
         /\ \A o : Contract!RunsOf(o) = RunsOf(o)
<1>1. Depth \in Nat /\ Len(Running) = Depth
  BY DepthBound DEF Running
<1>2. \A i \in 1 .. Depth : Running[i] = Run(calls[i])
  BY DEF Running
<1>3. \A i \in 1 .. Depth : Running[i].obj = calls[i].obj
  <2>1. \A i \in 1 .. Depth : Run(calls[i]).obj = calls[i].obj
    BY DEF Run
  <2> QED
    BY <1>2, <2>1
<1>4. Contract!Depth = Depth
  BY <1>1 DEF Contract!Depth
<1>5. \A o : Contract!RunsOf(o) = RunsOf(o)
  BY <1>3, <1>4 DEF Contract!RunsOf, RunsOf
<1> QED
  BY <1>1, <1>2, <1>4, <1>5

\* A step that changes one run at most.
LEMMA ChangedRun ==
  ASSUME Depth' = Depth, NEW k \in 1 .. Depth,
         \A i \in 1 .. Depth : i # k => Run(calls[i])' = Run(calls[i])
  PROVE  Running' = [Running EXCEPT ![k] = Run(calls[k])']
<1>0. PICK r : r = Run(calls[k])'
  OBVIOUS
<1>1. Running' = [i \in 1 .. Depth |-> Run(calls[i])']
  BY DEF Running
<1>2. Running = [i \in 1 .. Depth |-> Run(calls[i])]
  BY DEF Running
<1>3. [Running EXCEPT ![k] = r] = [i \in 1 .. Depth |-> IF i = k THEN r ELSE Run(calls[i])]
  BY <1>2
<1>4. \A i \in 1 .. Depth : Run(calls[i])' = IF i = k THEN r ELSE Run(calls[i])
  BY <1>0
<1> QED
  BY <1>0, <1>1, <1>3, <1>4

\* A frame that keeps what JavaScript can tell of it.
LEMMA SameRun ==
  ASSUME NEW i, calls'[i].op = calls[i].op, calls'[i].obj = calls[i].obj,
         calls'[i].rows = calls[i].rows, calls'[i].exc = calls[i].exc,
         calls'[i].inst = calls[i].inst, req'[calls[i].inst] = req[calls[i].inst]
  PROVE  Run(calls[i])' = Run(calls[i])
BY DEF Run, Status

\* A step that keeps the frames and the requests.
LEMMA SameRunning ==
  ASSUME UNCHANGED <<calls, req>>
  PROVE  Running' = Running
BY DEF Running, Run, Status, Depth

-------------------------------------------------------------------------------
(* Each step keeps the scope stacks right and is a step of the contract.   *)

Keeps == ScopeStackCoversRuns' /\ ScopeInv'

\* A query is started: a run begins.
LEMMA StartStep ==
  ASSUME CInv, NEW o \in Objects, NEW op \in {"iter", "exec"}, NEW inst \in Instance,
         ctl = "js", SetUniqueHash(o), StartQuery(o, op, inst)
  PROVE  Keeps /\ Contract!Next
<1> DEFINE c == [op |-> op, obj |-> o, hash |-> UniqueHash(o), inst |-> inst, rows |-> 0,
                 meta |-> "none", exc |-> FALSE]
<1>1. IInv /\ TypeOK
  BY DEF CInv, IInv
<1>2. calls' = Append(calls, c) /\ calls \in Seq(Call) /\ Depth = Len(calls) /\ Depth \in Nat
  BY <1>1, DepthBound DEF StartQuery, TypeOK, Depth
<1>3. c \in Call
  BY <1>1, UniqueHashIsDepth, RuntimeAssumption DEF Call, Metadata
<1>4. /\ c.op = op /\ c.obj = o /\ c.hash = UniqueHash(o) /\ c.inst = inst /\ c.rows = 0
      /\ c.exc = FALSE
  OBVIOUS
<1> HIDE DEF c
<1>5. /\ Depth' = Depth + 1 /\ calls'[Depth + 1] = c
      /\ \A i \in 1 .. Depth : calls'[i] = calls[i]
  BY <1>2, <1>3, AppendProperties DEF Depth
<1>6. Keeps
  BY <1>4, <1>5, StartKeepsScopes DEF Keeps
<1>7. PICK state \in {"active", "done"} : req' = [req EXCEPT ![inst] = state]
  BY DEF StartQuery
<1>8. Depth < Capacity /\ \A i \in 1 .. Depth : calls[i].inst # inst
  BY <1>1, GetResourceProperties DEF StartQuery
<1> DEFINE r == [op |-> op, obj |-> o, rows |-> 0, status |-> state, failed |-> FALSE]
<1>9. \A i \in 1 .. Depth : Run(calls[i])' = Run(calls[i])
  <2>1. TAKE i \in 1 .. Depth
  <2>2. calls'[i] = calls[i] /\ calls[i].inst \in Instance /\ calls[i].inst # inst
    BY <1>1, <1>5, <1>8, InstancesOfRuns
  <2>3. req'[calls[i].inst] = req[calls[i].inst]
    BY <1>1, <1>7, <2>2 DEF TypeOK
  <2> QED
    BY <2>2, <2>3, SameRun
<1>0. PICK d : d = Depth + 1
  OBVIOUS
<1>10. Run(calls[d])' = r
  <2>1. calls'[d] = c /\ req'[inst] = state
    BY <1>0, <1>1, <1>5, <1>7 DEF TypeOK
  <2> QED
    BY <1>4, <2>1 DEF Run, Status
<1>11. Running' = Append(Running, r)
  <2>1. Running' = [i \in 1 .. d |-> Run(calls[i])']
    BY <1>0, <1>5 DEF Running
  <2>2. \A i \in 1 .. d : Run(calls[i])' = IF i = d THEN r ELSE Run(calls[i])
    BY <1>0, <1>2, <1>9, <1>10
  <2>3. Running = [i \in 1 .. Depth |-> Run(calls[i])] /\ Len(Running) = Depth
    BY <1>2 DEF Running
  <2> HIDE DEF r
  <2>4. Append(Running, r) = [i \in 1 .. Depth + 1 |-> IF i = Depth + 1 THEN r ELSE Running[i]]
    BY <1>2, <2>3
  <2>5. Append(Running, r) = [i \in 1 .. d |-> IF i = d THEN r ELSE Run(calls[i])]
    BY <1>0, <1>2, <2>3, <2>4
  <2> QED
    BY <2>1, <2>2, <2>5
<1>12. Contract!Begin(o, op, state)
  BY <1>1, <1>8, <1>11, RunningRuns DEF Contract!Begin, StartQuery
<1> QED
  BY <1>6, <1>12 DEF Contract!Next

\* A call is refused.
LEMMA RefuseStep ==
  ASSUME CInv, NEW o \in Objects, ctl = "js", SetUniqueHash(o), RefuseQuery
  PROVE  Keeps /\ Contract!Next
<1>1. IInv /\ Depth \in Nat /\ Capacity \in Nat /\ Depth <= Capacity
  BY DepthBound DEF CInv
<1>2. Len(instances) = 0 /\ inst_count >= Capacity
  BY EmptySeq DEF RefuseQuery, Exhausted
<1>3. Depth = Capacity
  BY <1>1, <1>2, DepthBound
<1>4. UNCHANGED <<calls, req, ctl>> /\ raised' = TRUE
  BY DEF RefuseQuery, lcbVars
<1>5. Contract!Refuse
  BY <1>1, <1>3, <1>4, RunningRuns, SameRunning DEF Contract!Refuse
<1> QED
  BY <1>5, RefuseKeepsScopes DEF Keeps, Contract!Next

\* A step that changes the contents of one frame.
LEMMA ChangedFrame ==
  ASSUME CInv, NEW k \in 1 .. Depth, NEW c \in Call, calls' = [calls EXCEPT ![k] = c],
         c.obj = calls[k].obj, c.hash = calls[k].hash, scope' = scope,
         \A i \in 1 .. Depth : i # k => req'[calls[i].inst] = req[calls[i].inst]
  PROVE  /\ Keeps /\ calls'[k] = c
         /\ Running' = [Running EXCEPT ![k] = Run(calls[k])']
<1>1. calls \in Seq(Call) /\ Depth = Len(calls)
  BY DEF CInv, IInv, TypeOK, Depth
<1>2. /\ Depth' = Depth
      /\ \A i \in 1 .. Depth : calls'[i] = IF i = k THEN c ELSE calls[i]
  BY <1>1, ExceptSeq DEF Depth
<1>3. \A i \in 1 .. Depth : calls'[i].obj = calls[i].obj /\ calls'[i].hash = calls[i].hash
  BY <1>2
<1>4. \A i \in 1 .. Depth : i # k => Run(calls[i])' = Run(calls[i])
  BY <1>2, SameRun
<1> QED
  BY <1>2, <1>3, <1>4, ChangedRun, SameFramesAndScopes DEF Keeps

\* The frame of the innermost run, while control is below it.
LEMMA InnermostRun ==
  ASSUME CInv, calls # <<>>
  PROVE  /\ IInv /\ Depth \in 1 .. Depth /\ Top.frame = Depth
         /\ calls \in Seq(Call) /\ Len(calls) = Depth
         /\ Current \in Call /\ Current = calls[Depth]
         /\ req[Current.inst] \in {"active", "done", "cancelled"}
         /\ \A i \in 1 .. Depth : i # Depth =>
              calls[i].inst # Current.inst /\ calls[i].inst \in Instance
         /\ Contract!Innermost = Run(Current)
<1>1. IInv /\ calls \in Seq(Call) /\ Len(calls) = Depth /\ TypeOK
  BY DEF CInv, IInv, TypeOK, Depth
<1>2. Depth \in 1 .. Depth /\ Top.frame = Depth /\ Current \in Call /\ Current.inst \in Instance
      /\ Current = calls[Depth]
  BY <1>1, TopIsCurrent DEF Current
<1>3. \A i \in 1 .. Depth : i # Depth =>
        calls[i].inst # Current.inst /\ calls[i].inst \in Instance
  BY <1>1, <1>2, PoolFacts, InstancesOfRuns
<1>4. req[Current.inst] \in {"active", "done", "cancelled"}
  <2>1. cookie[Current.inst] # 0
    BY <1>1, <1>2 DEF IInv, CookiesPointToRuns
  <2> QED
    BY <1>1, <1>2, <2>1 DEF IInv, CookiesPointToRuns, TypeOK
<1>5. Contract!Innermost = Run(Current)
  BY <1>1, <1>2, RunningRuns DEF Contract!Innermost
<1> QED
  BY <1>1, <1>2, <1>3, <1>4, <1>5

\* A row is delivered to the innermost run.
LEMMA RowStep ==
  ASSUME CInv, NEW op \in {"iter", "exec"}, Row(op),
         \/ op = "iter" /\ ctl' = "js" /\ raised' = FALSE
         \/ op = "exec" /\ UNCHANGED <<ctl, raised>>
  PROVE  Keeps /\ Contract!Next
<1>1. calls # <<>> /\ ctl = "native" /\ Current.op = op /\ req[Current.inst] = "active"
  BY DEF Row, CInv, IInv, JsRunsInsideIterations
<1>2. PICK k : k = Depth
  OBVIOUS
<1>3. k \in 1 .. Depth /\ Top.frame = k /\ Current = calls[k] /\ Current \in Call
  BY <1>1, <1>2, InnermostRun
<1> DEFINE c == [calls[k] EXCEPT !.rows = @ + 1]
<1>4. UNCHANGED <<req, scope>> /\ calls' = [calls EXCEPT ![k] = c]
  BY <1>3 DEF Row, scopeVars
<1>5. /\ c.op = Current.op /\ c.obj = Current.obj /\ c.hash = Current.hash
      /\ c.inst = Current.inst /\ c.rows = Current.rows + 1 /\ c.exc = Current.exc
  BY <1>3 DEF Call
<1>6. c \in Call
  <2>1. Current.rows < MaxRows
    BY <1>1, <1>2, <1>3 DEF Row, CInv, IInv, RowsReachTheirQuery
  <2>2. Current.rows + 1 \in 0 .. MaxRows
    BY <1>3, <2>1, RuntimeAssumption DEF Call
  <2> QED
    BY <1>3, <2>2 DEF Call
<1> HIDE DEF c
<1>7. Keeps /\ calls'[k] = c /\ Running' = [Running EXCEPT ![k] = Run(calls[k])']
  <2>1. c.obj = calls[k].obj /\ c.hash = calls[k].hash
    BY <1>3, <1>5
  <2>2. \A i \in 1 .. Depth : i # k => req'[calls[i].inst] = req[calls[i].inst]
    BY <1>4
  <2> QED
    BY <1>3, <1>4, <1>6, <2>1, <2>2, ChangedFrame
<1>8. Running[k] = Run(Current) /\ Contract!Innermost = Run(Current) /\ Contract!Depth = k
      /\ k \in DOMAIN Running
  BY <1>1, <1>2, <1>3, InnermostRun, RunningRuns DEF Running
<1>9. Run(Current) = [op |-> Current.op, obj |-> Current.obj, rows |-> Current.rows,
                      status |-> "active", failed |-> Current.exc]
  BY <1>1 DEF Run, Status
<1>10. Run(calls[k])' = [op |-> Current.op, obj |-> Current.obj, rows |-> Current.rows + 1,
                         status |-> "active", failed |-> Current.exc]
  BY <1>1, <1>4, <1>5, <1>7 DEF Run, Status
<1>11. Running' = [Running EXCEPT ![k].rows = @ + 1]
  <2>1. Run(calls[k])' = [Running[k] EXCEPT !.rows = @ + 1]
    BY <1>8, <1>9, <1>10
  <2> QED
    BY <1>7, <2>1
<1>12. Contract!Deliver
  <2>1. Contract!Innermost.op = op /\ Contract!Innermost.status = "active"
    BY <1>1, <1>8, <1>9
  <2>2. ctl' = (IF op = "iter" THEN "js" ELSE "native")
    BY <1>1
  <2>3. raised' = IF op = "iter" THEN FALSE ELSE raised
    OBVIOUS
  <2> QED
    BY <1>1, <1>8, <1>11, <2>1, <2>2, <2>3 DEF Contract!Deliver
<1> QED
  BY <1>7, <1>12 DEF Contract!Next

WithRun(s, k, r) == [s EXCEPT ![k] = r]
WithEnd(s, k, status, failed) == [s EXCEPT ![k].status = status, ![k].failed = failed]

\* Changing two fields of a run is changing the run.
LEMMA TwoFields ==
  ASSUME NEW s, NEW k \in DOMAIN s, NEW a, NEW b, NEW c, NEW d, NEW e, NEW f, NEW g,
         s[k] = [op |-> a, obj |-> b, rows |-> c, status |-> d, failed |-> e]
  PROVE  WithEnd(s, k, f, g)
           = WithRun(s, k, [op |-> a, obj |-> b, rows |-> c, status |-> f, failed |-> g])
<1> DEFINE t == [s EXCEPT ![k].status = f]
<1>1. t = [s EXCEPT ![k] = [op |-> a, obj |-> b, rows |-> c, status |-> f, failed |-> e]]
  <2>1. [s[k] EXCEPT !.status = f] = [op |-> a, obj |-> b, rows |-> c, status |-> f, failed |-> e]
    OBVIOUS
  <2> QED
    BY <2>1
<1>2. t[k] = [op |-> a, obj |-> b, rows |-> c, status |-> f, failed |-> e]
      /\ DOMAIN t = DOMAIN s /\ \A x \in DOMAIN s : x # k => t[x] = s[x]
  BY <1>1
<1> HIDE DEF t
<1>3. [t[k] EXCEPT !.failed = g] = [op |-> a, obj |-> b, rows |-> c, status |-> f, failed |-> g]
  BY <1>2
<1>4. [t EXCEPT ![k].failed = g]
        = [t EXCEPT ![k] = [op |-> a, obj |-> b, rows |-> c, status |-> f, failed |-> g]]
  BY <1>3
<1>5. [s EXCEPT ![k].status = f, ![k].failed = g] = [t EXCEPT ![k].failed = g]
  BY DEF t
<1>6. [t EXCEPT ![k] = [op |-> a, obj |-> b, rows |-> c, status |-> f, failed |-> g]]
        = [s EXCEPT ![k] = [op |-> a, obj |-> b, rows |-> c, status |-> f, failed |-> g]]
  <2> DEFINE w == [op |-> a, obj |-> b, rows |-> c, status |-> f, failed |-> g]
  <2> HIDE DEF w
  <2>1. t = [s EXCEPT ![k] = [op |-> a, obj |-> b, rows |-> c, status |-> f, failed |-> e]]
    BY <1>1
  <2>2. [t EXCEPT ![k] = w] = [s EXCEPT ![k] = w]
    BY <1>2, <2>1
  <2> QED
    BY <2>2 DEF w
<1> QED
  BY <1>4, <1>5, <1>6 DEF WithEnd, WithRun

\* The server completes the innermost run, with or without an error.
LEMMA FinalRowStep ==
  ASSUME CInv, NEW ok \in BOOLEAN, FinalRow(ok)
  PROVE  Keeps /\ Contract!Next
<1>1. calls # <<>> /\ ctl = "native" /\ req[Current.inst] = "active"
  BY DEF FinalRow, CInv, IInv, JsRunsInsideIterations
<1>2. PICK k : k = Depth
  OBVIOUS
<1>3. k \in 1 .. Depth /\ Top.frame = k /\ Current = calls[k] /\ Current \in Call
  BY <1>1, <1>2, InnermostRun
<1> DEFINE c == [calls[k] EXCEPT !.meta = IF ok THEN "ok" ELSE "error", !.exc = ~ok]
<1>4. UNCHANGED <<scope, ctl, raised>> /\ calls' = [calls EXCEPT ![k] = c]
  BY <1>2, <1>3 DEF FinalRow, scopeVars
<1>5. /\ c.op = Current.op /\ c.obj = Current.obj /\ c.hash = Current.hash
      /\ c.inst = Current.inst /\ c.rows = Current.rows /\ c.exc = ~ok
  BY <1>3 DEF Call
<1>6. c \in Call
  <2>1. (IF ok THEN "ok" ELSE "error") \in Metadata /\ (~ok) \in BOOLEAN
    BY DEF Metadata
  <2> QED
    BY <1>3, <2>1 DEF Call
<1>70. /\ req'[Current.inst] = "done"
       /\ \A i \in 1 .. Depth : i # k => req'[calls[i].inst] = req[calls[i].inst]
  <2>1. req' = [req EXCEPT ![Current.inst] = "done"]
        /\ req \in [Instance -> {"idle", "active", "done", "cancelled"}]
        /\ Current.inst \in Instance
    BY <1>3 DEF FinalRow, CInv, IInv, TypeOK, Call
  <2> QED
    BY <1>1, <1>2, <2>1, InnermostRun
<1> HIDE DEF c
<1>7. Keeps /\ calls'[k] = c /\ Running' = [Running EXCEPT ![k] = Run(calls[k])']
  <2>1. c.obj = calls[k].obj /\ c.hash = calls[k].hash
    BY <1>3, <1>5
  <2> QED
    BY <1>3, <1>4, <1>6, <1>70, <2>1, ChangedFrame
<1>8. Running[k] = Run(Current) /\ Contract!Innermost = Run(Current) /\ Contract!Depth = k
      /\ k \in DOMAIN Running
  BY <1>1, <1>2, <1>3, InnermostRun, RunningRuns DEF Running
<1>9. Run(Current) = [op |-> Current.op, obj |-> Current.obj, rows |-> Current.rows,
                      status |-> "active", failed |-> Current.exc]
  BY <1>1 DEF Run, Status
<1>10. Run(calls[k])' = [op |-> Current.op, obj |-> Current.obj, rows |-> Current.rows,
                         status |-> "done", failed |-> ~ok]
  BY <1>5, <1>7, <1>70 DEF Run, Status
<1>11. Running' = [Running EXCEPT ![k].status = "done", ![k].failed = ~ok]
  <2>1. Running[k] = [op |-> Current.op, obj |-> Current.obj, rows |-> Current.rows,
                      status |-> "active", failed |-> Current.exc]
    BY <1>8, <1>9
  <2>2. k \in DOMAIN Running
    BY <1>8
  <2>3. WithEnd(Running, k, "done", ~ok)
          = WithRun(Running, k, [op |-> Current.op, obj |-> Current.obj,
                                 rows |-> Current.rows, status |-> "done", failed |-> ~ok])
    BY <2>1, <2>2, TwoFields
  <2>4. Running' = WithRun(Running, k, Run(calls[k])')
    BY <1>7 DEF WithRun
  <2>5. Running' = WithEnd(Running, k, "done", ~ok)
    BY <1>10, <2>3, <2>4
  <2> QED
    BY <2>5, Zenon DEF WithEnd
<1>12. Contract!Complete(~ok)
  <2>1. Contract!Innermost.status = "active"
    BY <1>8, <1>9
  <2> QED
    BY <1>1, <1>4, <1>8, <1>11, <2>1 DEF Contract!Complete
<1>13. (~ok) \in BOOLEAN
  OBVIOUS
<1> QED
  BY <1>7, <1>12, <1>13 DEF Contract!Next

\* The callback throws: its run is stopped and fails.
LEMMA CallbackThrowsStep ==
  ASSUME CInv, CallbackThrows
  PROVE  Keeps /\ Contract!Next
<1>1. calls # <<>> /\ ctl = "js" /\ ctl' = "native"
  BY DEF CallbackThrows
<1>2. PICK k : k = Depth
  OBVIOUS
<1>3. k \in 1 .. Depth /\ Current = calls[k] /\ Current \in Call
  BY <1>1, <1>2, InnermostRun
<1> DEFINE c == [calls[k] EXCEPT !.exc = TRUE]
<1>4. UNCHANGED <<scope, raised>> /\ calls' = [calls EXCEPT ![k] = c]
  BY <1>2, <1>3 DEF CallbackThrows, scopeVars
<1>5. /\ c.op = Current.op /\ c.obj = Current.obj /\ c.hash = Current.hash
      /\ c.inst = Current.inst /\ c.rows = Current.rows /\ c.exc = TRUE /\ c \in Call
  BY <1>3 DEF Call
<1>6. /\ req'[Current.inst] = "cancelled"
      /\ \A i \in 1 .. Depth : i # k => req'[calls[i].inst] = req[calls[i].inst]
  <2>1. req' = [req EXCEPT ![Current.inst] = "cancelled"]
        /\ req \in [Instance -> {"idle", "active", "done", "cancelled"}]
        /\ Current.inst \in Instance
    BY <1>3 DEF CallbackThrows, Cancel, CInv, IInv, TypeOK, Call
  <2> QED
    BY <1>1, <1>2, <2>1, InnermostRun
<1> HIDE DEF c
<1>7. Keeps /\ calls'[k] = c /\ Running' = [Running EXCEPT ![k] = Run(calls[k])']
  <2>1. c.obj = calls[k].obj /\ c.hash = calls[k].hash
    BY <1>3, <1>5
  <2> QED
    BY <1>3, <1>4, <1>5, <1>6, <2>1, ChangedFrame
<1>8. Running[k] = Run(Current) /\ Contract!Depth = k /\ k \in DOMAIN Running
  BY <1>1, <1>2, <1>3, InnermostRun, RunningRuns DEF Running
<1>9. Run(Current) = [op |-> Current.op, obj |-> Current.obj, rows |-> Current.rows,
                      status |-> Status(Current), failed |-> Current.exc]
  BY DEF Run
<1>10. Run(calls[k])' = [op |-> Current.op, obj |-> Current.obj, rows |-> Current.rows,
                         status |-> "stopped", failed |-> TRUE]
  BY <1>5, <1>6, <1>7 DEF Run, Status
<1>11. Running' = [Running EXCEPT ![k].status = "stopped", ![k].failed = TRUE]
  <2>1. Running[k] = [op |-> Current.op, obj |-> Current.obj, rows |-> Current.rows,
                      status |-> Status(Current), failed |-> Current.exc]
    BY <1>8, <1>9
  <2>2. k \in DOMAIN Running
    BY <1>8
  <2>0. PICK g : g = TRUE
    OBVIOUS
  <2>3. WithEnd(Running, k, "stopped", g)
          = WithRun(Running, k, [op |-> Current.op, obj |-> Current.obj,
                                 rows |-> Current.rows, status |-> "stopped", failed |-> g])
    BY <2>1, <2>2, TwoFields
  <2>4. Running' = WithRun(Running, k, Run(calls[k])')
    BY <1>7 DEF WithRun
  <2>5. Running' = WithEnd(Running, k, "stopped", TRUE)
    BY <1>10, <2>0, <2>3, <2>4
  <2> QED
    BY <2>5, Zenon DEF WithEnd
<1>12. Contract!CallbackThrows
  BY <1>1, <1>3, <1>4, <1>8, <1>11 DEF Contract!CallbackThrows
<1> QED
  BY <1>7, <1>12 DEF Contract!Next

\* The frame that the unique hash of an object leads to is its innermost run, if the
\* identity hashes tell the objects apart; in any case it is a run.
LEMMA UniqueHashLeadsToInnermost ==
  ASSUME CInv, NEW o \in Objects, FrameOfUniqueHash(o) # Absent,
         \A x, y \in Objects : IdHash[x] = IdHash[y] => x = y
  PROVE  /\ FrameOfUniqueHash(o) \in RunsOf(o)
         /\ \A i \in RunsOf(o) : i <= FrameOfUniqueHash(o)
<1> DEFINE n == Len(scope[o])
<1> DEFINE h == scope[o][n]
<1>1. IInv /\ scope[o] # <<>> /\ FrameOfUniqueHash(o) = qmap[h] /\ qmap[h] # Absent
  BY DEF FrameOfUniqueHash, Get, CInv
<1>2. scope[o] \in Seq(Hash) /\ n \in Nat /\ n \in 1 .. n /\ RunsOf(o) \subseteq 1 .. Depth
      /\ Depth \in Nat
  BY <1>1, RunsAreFinite, EmptySeq
<1>3. h \in Hash
  BY <1>2, ElementOfSeq
<1>4. h[1] = IdHash[o]
  BY <1>2 DEF CInv, ScopeInv
<1> HIDE DEF h, n
<1>5. PICK f \in 1 .. Depth : qstack[f].hash = h
  BY <1>1, <1>3 DEF IInv, StackMirrorsCalls, ViewsAgree
<1>6. qmap[h] = f /\ h = <<IdHash[calls[f].obj], f - 1>>
  <2>1. /\ Len(qstack) = Depth /\ qstack[f].hash = calls[f].hash /\ qstack[f].frame = f
        /\ \A i \in 1 .. Len(qstack) : qmap[qstack[i].hash] = qstack[i].frame
    BY <1>1 DEF IInv, StackMirrorsCalls, ViewsAgree
  <2>2. calls[f].hash = <<IdHash[calls[f].obj], f - 1>>
    BY <1>1 DEF IInv, HashHoldsDepth
  <2> QED
    BY <1>5, <2>1, <2>2
<1>7. calls[f].obj \in Objects
  <2>1. calls[f] \in Call
    BY <1>1, ElementOfSeq DEF IInv, TypeOK, Depth
  <2> QED
    BY <2>1 DEF Call
<1>8. calls[f].obj = o
  BY <1>4, <1>6, <1>7
<1>9. f \in RunsOf(o)
  BY <1>5, <1>8 DEF RunsOf
<1>10. ASSUME NEW i \in RunsOf(o)
       PROVE  i <= f
  <2>1. n \in Position(o, i) .. n
    BY <1>2, <1>10, RunsAreFinite DEF n
  <2>2. h[2] >= i - 1
    BY <1>10, <2>1 DEF CInv, ScopeInv, n, h
  <2> QED
    BY <1>2, <1>5, <1>6, <1>10, <2>2
<1> QED
  BY <1>1, <1>6, <1>9, <1>10

\* stopIter stops the innermost run of its object, raises an exception or aborts.
LEMMA StopStep ==
  ASSUME CInv, NEW o \in Objects, NEW code \in Codes, StopIterFunction(o, code)
  PROVE  /\ Keeps
         /\ (\A x, y \in Objects : IdHash[x] = IdHash[y] => x = y) => Contract!Next
<1>1. UNCHANGED <<calls, scope>> /\ ctl = "js" /\ Depth' = Depth
  BY DEF StopIterFunction, Crash, scopeVars, Depth
<1>2. Keeps
  BY <1>1, SameFramesAndScopes DEF Keeps
<1>3. SUFFICES ASSUME \A x, y \in Objects : IdHash[x] = IdHash[y] => x = y
               PROVE  Contract!Next
  BY <1>2
<1>4. CASE raised' = TRUE /\ UNCHANGED <<ctl, lcbVars>>
  BY <1>1, <1>4, SameRunning DEF lcbVars, Contract!RefuseStop, Contract!Next
<1>5. CASE Crash
  BY <1>1, <1>5, SameRunning DEF Crash, lcbVars, Contract!Abort, Contract!Next
<1>6. CASE FrameOfUniqueHash(o) # Absent /\ Cancel(calls[FrameOfUniqueHash(o)].inst)
           /\ raised' = FALSE /\ UNCHANGED ctl
  <2>1. PICK f : f = FrameOfUniqueHash(o)
    OBVIOUS
  <2>2. f \in RunsOf(o) /\ (\A i \in RunsOf(o) : i <= f) /\ RunsOf(o) \subseteq 1 .. Depth
        /\ f \in 1 .. Depth /\ Depth \in Nat /\ IInv
    BY <1>3, <1>6, <2>1, UniqueHashLeadsToInnermost, RunsAreFinite DEF CInv
  <2>3. Contract!RunsOf(o) = RunsOf(o)
    BY <2>2, RunningRuns
  <2>4. Contract!Max(RunsOf(o)) = f
    <3>1. \A i \in RunsOf(o) : f >= i
      BY <2>2
    <3>2. \A g \in RunsOf(o) : (\A i \in RunsOf(o) : g >= i) => g = f
      BY <2>2
    <3> QED
      BY <2>2, <3>1, <3>2 DEF Contract!Max
  <2>5. /\ req'[calls[f].inst] = "cancelled"
        /\ \A i \in 1 .. Depth : i # f => req'[calls[i].inst] = req[calls[i].inst]
    <3>1. req' = [req EXCEPT ![calls[f].inst] = "cancelled"]
          /\ req \in [Instance -> {"idle", "active", "done", "cancelled"}]
      BY <1>6, <2>1, <2>2 DEF Cancel, IInv, TypeOK
    <3>2. \A i \in 1 .. Depth : calls[i].inst \in Instance /\ (calls[i].inst = calls[f].inst => i = f)
      BY <2>2, InstancesOfRuns, PoolFacts
    <3> QED
      BY <2>2, <3>1, <3>2
  <2>6. \A i \in 1 .. Depth : i # f => Run(calls[i])' = Run(calls[i])
    BY <1>1, <2>5, SameRun
  <2>7. Running' = [Running EXCEPT ![f] = Run(calls[f])']
    BY <1>1, <2>2, <2>6, ChangedRun
  <2>8. Running[f] = Run(calls[f]) /\ f \in DOMAIN Running
    BY <2>2, RunningRuns DEF Running
  <2>9. Run(calls[f])' = [Running[f] EXCEPT !.status = "stopped"]
    BY <1>1, <2>5, <2>8 DEF Run, Status
  <2>10. Running' = [Running EXCEPT ![f].status = "stopped"]
    BY <2>7, <2>8, <2>9
  <2>11. Contract!Stop(o)
    BY <1>1, <1>6, <2>2, <2>3, <2>4, <2>10 DEF Contract!Stop
  <2> QED
    BY <2>11 DEF Contract!Next
<1> QED
  BY <1>4, <1>5, <1>6 DEF StopIterFunction

\* The innermost run ends.
LEMMA ReturnStep ==
  ASSUME CInv, ctl = "native", FinishQuery, scope' = scope \/ PopScopeStack(Current.obj)
  PROVE  Keeps /\ Contract!Next
<1>1. calls # <<>>
  BY DEF CInv, IInv, JsRunsInsideIterations
<1>2. /\ Depth \in Nat \ {0} /\ calls \in Seq(Call) /\ Len(calls) = Depth
      /\ Current = calls[Depth] /\ Current \in Call /\ Contract!Innermost = Run(Current) /\ IInv
      /\ req[Current.inst] \in {"active", "done", "cancelled"}
  BY <1>1, InnermostRun, RunningRuns
<1>3. /\ Depth' = Depth - 1 /\ \A i \in 1 .. Depth - 1 : calls'[i] = calls[i]
  BY <1>1, <1>2, FrontProperties DEF FinishQuery, Depth
<1>4. Current.obj \in Objects
  BY <1>2 DEF Call
<1>5. Keeps
  BY <1>2, <1>3, <1>4, ReturnKeepsScopes DEF Keeps
<1>6. /\ req' = [req EXCEPT ![Current.inst] = "idle"] /\ req[Current.inst] # "active"
      /\ ctl' = "js" /\ raised' = Current.exc
  BY DEF FinishQuery, WaitEnds
<1>7. \A i \in 1 .. Depth - 1 : Run(calls[i])' = Run(calls[i])
  <2>1. TAKE i \in 1 .. Depth - 1
  <2>2. calls[i].inst # Current.inst /\ calls[i].inst \in Instance /\ calls'[i] = calls[i]
    BY <1>1, <1>2, <1>3, InnermostRun
  <2>3. req'[calls[i].inst] = req[calls[i].inst]
    BY <1>2, <1>6, <2>2 DEF IInv, TypeOK
  <2> QED
    BY <2>2, <2>3, SameRun
<1>8. Running' = SubSeq(Running, 1, Depth - 1)
  <2> DEFINE S == {Run(calls[i]) : i \in 1 .. Depth}
  <2> DEFINE front == SubSeq(Running, 1, Depth - 1)
  <2>1. Running = [i \in 1 .. Depth |-> Run(calls[i])]
    BY DEF Running
  <2>2. Running \in Seq(S) /\ Len(Running) = Depth
    BY <1>2, <2>1, RunningRuns
  <2> HIDE DEF S
  <2>3. front \in Seq(S) /\ Len(front) = Depth - 1
        /\ \A i \in 1 .. Depth - 1 : front[i] = Running[i]
    BY <1>2, <2>2, FrontProperties, EmptySeq
  <2> HIDE DEF front
  <2>4. Running' = [i \in 1 .. Depth - 1 |-> Run(calls[i])']
    BY <1>3 DEF Running
  <2>5. \A i \in 1 .. Depth - 1 : Run(calls[i])' = front[i]
    <3>1. TAKE i \in 1 .. Depth - 1
    <3>2. i \in 1 .. Depth /\ front[i] = Running[i] /\ Run(calls[i])' = Run(calls[i])
      BY <1>2, <1>7, <2>3
    <3>3. Running[i] = Run(calls[i])
      BY <2>1, <3>2
    <3> QED
      BY <3>2, <3>3
  <2>6. front = [i \in 1 .. Depth - 1 |-> front[i]]
    BY <1>2, <2>3
  <2> QED
    BY <2>4, <2>5, <2>6 DEF front
<1>9. Contract!Innermost.status # "active" /\ Contract!Innermost.failed = Current.exc
  BY <1>2, <1>6 DEF Run, Status
<1>10. Contract!End
  BY <1>2, <1>6, <1>8, <1>9, RunningRuns DEF Contract!End
<1> QED
  BY <1>5, <1>10 DEF Contract!Next

-------------------------------------------------------------------------------
(* The theorems.                                                           *)

\* The process goes down in JavaScript or on the final row of an active query.
LEMMA CrashStep ==
  ASSUME CInv, Crash, ctl = "js" \/ (ctl = "native" /\ req[Current.inst] = "active")
  PROVE  Keeps /\ Contract!Next
<1>1. UNCHANGED <<calls, req, raised, scope>> /\ ctl' = "crashed"
  BY DEF Crash, lcbVars, scopeVars
<1>2. UNCHANGED Running
  BY <1>1, SameRunning
<1>3. ASSUME ctl = "native", req[Current.inst] = "active"
      PROVE  Contract!Innermost.status = "active"
  <2>1. calls # <<>> /\ IInv
    BY <1>3 DEF CInv, IInv, JsRunsInsideIterations
  <2>2. Contract!Innermost = Run(Current)
    BY <2>1, TopIsCurrent, RunningRuns DEF Contract!Innermost, Running, Current
  <2> QED
    BY <1>3, <2>2 DEF Run, Status
<1>4. Contract!Abort
  BY <1>1, <1>2, <1>3 DEF Contract!Abort
<1>5. Keeps
  BY <1>1, SameFramesAndScopes DEF Keeps, Depth
<1> QED
  BY <1>4, <1>5 DEF Contract!Next

HashesAreUnique == \A x, y \in Objects : IdHash[x] = IdHash[y] => x = y

\* Every step keeps the scope stacks right, whatever the identity hashes; with unique
\* ones it is a step of the contract.
LEMMA EveryStep ==
  ASSUME CInv, [Next]_vars
  PROVE  CInv' /\ (HashesAreUnique => [Contract!Next]_(Contract!vars))
<1>0. IInv /\ IInv'
  BY NextPreservesIInv DEF CInv
<1> DEFINE Goal == Keeps /\ (HashesAreUnique => [Contract!Next]_(Contract!vars))
<1> SUFFICES Goal
  BY <1>0 DEF CInv, Keeps
<1>1. ASSUME NEW o \in Objects, NEW op \in {"iter", "exec"}, CallQuery(o, op)
      PROVE  Goal
  <2>1. CASE SetUniqueHash(o) /\ UNCHANGED jsVars
             /\ ((\E inst \in Instance : StartQuery(o, op, inst)) \/ RefuseQuery)
    BY <1>1, <2>1, StartStep, RefuseStep DEF CallQuery
  <2>2. CASE CreationCrashes
    BY <1>1, <2>2, CrashStep DEF CallQuery, CreationCrashes
  <2> QED
    BY <1>1, <2>1, <2>2 DEF CallQuery
<1>2. ASSUME NEW o \in Objects, IterFunction(o) \/ ExecQueryFunction(o)
      PROVE  Goal
  BY <1>1, <1>2 DEF IterFunction, ExecQueryFunction
<1>3. CASE IterRow
  BY <1>3, RowStep DEF IterRow
<1>4. CASE BlockingRow
  BY <1>4, RowStep DEF BlockingRow
<1>5. CASE \E ok \in BOOLEAN : FinalRow(ok)
  BY <1>5, FinalRowStep
<1>a. CASE FinalRowCrashes
  <2>1. ctl = "native" /\ req[Current.inst] = "active" /\ Crash
    BY <1>a DEF FinalRowCrashes
  <2> QED
    BY <2>1, CrashStep
<1>6. CASE CallbackReturns
  <2>1. UNCHANGED <<calls, req, raised, scope>> /\ ctl = "js" /\ ctl' = "native" /\ calls # <<>>
    BY <1>6 DEF CallbackReturns, lcbVars, scopeVars
  <2>2. Contract!CallbackReturns
    BY <1>0, <2>1, SameRunning, RunningRuns, TopIsCurrent DEF Contract!CallbackReturns
  <2>3. Keeps
    BY <2>1, SameFramesAndScopes DEF Keeps, Depth
  <2> QED
    BY <2>2, <2>3 DEF Contract!Next
<1>7. CASE CallbackThrows
  BY <1>7, CallbackThrowsStep
<1>8. CASE IterFunctionReturns
  BY <1>8, ReturnStep DEF IterFunctionReturns
<1>9. CASE ExecQueryFunctionReturns
  BY <1>9, ReturnStep DEF ExecQueryFunctionReturns, scopeVars
<1>10. CASE \E o \in Objects, code \in Codes : StopIterFunction(o, code)
  BY <1>10, StopStep DEF HashesAreUnique
<1>11. CASE \E o \in Objects : GetReturnValueFunction(o)
  BY <1>11, CrashStep DEF GetReturnValueFunction
<1>12. CASE UNCHANGED vars
  <2>1. UNCHANGED <<calls, req, raised, scope, ctl>>
    BY <1>12 DEF vars, lcbVars, scopeVars
  <2>2. UNCHANGED Contract!vars
    BY <2>1, SameRunning DEF Contract!vars
  <2>3. Keeps
    BY <2>1, SameFramesAndScopes DEF Keeps, Depth
  <2> QED
    BY <2>2, <2>3
<1> QED
  BY <1>2, <1>3, <1>4, <1>5, <1>a, <1>6, <1>7, <1>8, <1>9, <1>10, <1>11, <1>12 DEF Next

\* No query runs and nothing has been pushed before the handler's first call.
LEMMA InitEstablishesCInv == Init => CInv /\ Contract!Init
<1> SUFFICES ASSUME Init PROVE CInv /\ Contract!Init
  OBVIOUS
<1>1. IInv
  BY InitEstablishesIInv
<1>2. Depth = 0 /\ \A o \in Objects : scope[o] = <<>> /\ Len(scope[o]) = 0
  BY EmptySeq DEF Init, ScopeInit, Depth
<1>3. \A o \in Objects : RunsOf(o) = {}
  BY <1>2 DEF RunsOf
<1>4. ScopeStackCoversRuns
  <2>1. \A o \in Objects : Cardinality(RunsOf(o)) = 0
    BY <1>3, FS_EmptySet
  <2> QED
    BY <1>2, <1>3, <2>1 DEF ScopeStackCoversRuns
<1>5. ScopeInv
  BY <1>2, <1>3 DEF ScopeInv
<1>6. Running = <<>>
  BY <1>2 DEF Running
<1>7. Contract!Init
  BY <1>6 DEF Init, Contract!Init
<1> QED
  BY <1>1, <1>4, <1>5, <1>7 DEF CInv

\* SetUniqueHash and PopScopeStack: whatever execQuery and refused calls leak, the scope
\* stack of an object holds a hash for each of its runs, and is exact while nothing has
\* leaked.  Nothing is assumed of identity hashes.
THEOREM ScopeStacksCoverRuns == Spec => []ScopeStackCoversRuns
<1>1. Init => CInv
  BY InitEstablishesCInv
<1>2. CInv /\ [Next]_vars => CInv'
  BY EveryStep
<1>3. CInv => ScopeStackCoversRuns
  BY DEF CInv
<1> QED
  BY <1>1, <1>2, <1>3, PTL DEF Spec

\* iter, execQuery, stopIter, row callbacks and exceptions (n1ql.cpp) keep the contract
\* with JavaScript for any capacity, number of objects, nesting and number of rows, if V8
\* gives the objects different identity hashes: then stopIter never reaches a query that
\* is not the innermost of its object, even through the hashes that execQuery leaked.
THEOREM RuntimeKeepsContract ==
  ASSUME HashesAreUnique
  PROVE  Spec => KeepsContract
<1>1. Init => CInv /\ Contract!Init
  BY InitEstablishesCInv
<1>2. CInv /\ [Next]_vars => CInv' /\ [Contract!Next]_(Contract!vars)
  BY EveryStep
<1> QED
  BY <1>1, <1>2, PTL DEF Spec, KeepsContract, Contract!Spec
===============================================================================
