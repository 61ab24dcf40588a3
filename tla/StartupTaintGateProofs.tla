----------------------- MODULE StartupTaintGateProofs -----------------------
(***************************************************************************)
(* The startup taint gate takes off the right taints at the right time,    *)
(* for any taints, gates and pods and any bounds.  The properties speak of *)
(* the patch a Reconcile is about to send; what makes them true is what    *)
(* the caches and the histories have to do with one another when the       *)
(* Reconcile reads them, so that is what the invariant carries.            *)
(***************************************************************************)
EXTENDS StartupTaintGate, FiniteSetTheorems, TLAPS

\* The gates in force and the cached ones are ones the operator chose, and a
\* cached Node that carries the server's version is the server's Node.
CacheInv ==
  /\ gates \in GateConfigs /\ gateCache \in GateConfigs
  /\ nodeSynced => nodeCache = node

\* What the Node reports was once reported; under the first Node of the name, a
\* pod that is Ready, or was when the cache last heard of it, was once Ready.
SeenReady(ps) == \A p \in Pods : IsPodReady(ps[p]) => p \in everReady
HistoryInv ==
  /\ node.condition => everHeld
  /\ node.incarnation = 0 => SeenReady(pods) /\ SeenReady(podCache)

\* The copy a patch would be applied to is the Node.
PatchInv == work.fresh => work.pc = "patch" /\ work.taints = node.taints

\* A patch that is bound to lose its race has a successor: the write that beat
\* it is still to be seen, or has put the Node in the queue.
StaleInv ==
  work.pc = "patch" /\ ~work.fresh => ~nodeSynced \/ queued \/ ~NodeEvent(node)

GateInv == /\ TypeOK /\ CacheInv /\ HistoryInv /\ PatchInv
           /\ GateNeverOpensEarly /\ StaleInv /\ PendingGateWatched

-----------------------------------------------------------------------------
(* Types.                                                                  *)

\* Spending a unit of a bound keeps the counters well typed.
LEMMA UseType ==
  ASSUME TypeOK, NEW b \in DOMAIN Bounds, Use(b)
  PROVE  used' \in [DOMAIN Bounds -> Nat]
BY DEF TypeOK, Use

\* A fresh Node is well typed.
LEMMA NewNodeType == \A n \in 0 .. MaxRejoins : NewNode(n) \in NodeObject
BY DEF NewNode, NodeObject, Taints

\* The state the controller starts in is well typed.
LEMMA InitType == Init => TypeOK
<1> SUFFICES ASSUME Init PROVE TypeOK  OBVIOUS
<1>1. node \in NodeObject /\ nodeCache \in NodeObject
  BY NewNodeType, GateBoundsAssumption DEF Init
<1>2. gates \in [TaintKeys -> GateKinds] /\ gateCache \in [TaintKeys -> GateKinds]
  BY GateConfigsAssumption DEF Init
<1>3. pods \in [Pods -> PodStates] /\ podCache \in [Pods -> PodStates]
  BY DEF Init, PodStates
<1>4. work \in [pc : {"idle", "patch"}, taints : SUBSET Taints,
                remove : SUBSET TaintKeys, pending : BOOLEAN, fresh : BOOLEAN]
      /\ (work.pc = "patch" <=> work.remove # {})
  BY DEF Init, Idle
<1> QED  BY <1>1, <1>2, <1>3, <1>4, Zenon DEF Init, TypeOK

\* What a patch writes is a list of the taints there are.
LEMMA WriteType ==
  ASSUME TypeOK, Write
  PROVE  node' \in NodeObject /\ nodeSynced' \in BOOLEAN
BY Zenon DEF TypeOK, Write, NodeObject

\* The patch a Reconcile prepares for the open gates.
Sent(open, pending) ==
  [pc |-> "patch", taints |-> nodeCache.taints, remove |-> open,
   pending |-> pending, fresh |-> nodeSynced]

\* All a Reconcile does is to prepare a patch, of gates that are on the cached
\* Node, are startup taints and evaluate to true.
LEMMA ReconcileEffect ==
  ASSUME TypeOK, Reconcile
  PROVE  /\ UNCHANGED <<api, caches, history, used>>
         /\ queued' \in BOOLEAN /\ recheck' \in BOOLEAN
         /\ \/ UNCHANGED work
            \/ \E open \in SUBSET Gated(nodeCache, gateCache), pending \in BOOLEAN :
                 /\ open # {}
                 /\ \A k \in open : Evaluate(gateCache[k], nodeCache, podCache)
                 /\ work' = Sent(open, pending)
<1>1. UNCHANGED <<api, caches, history, used>>
  BY DEF Reconcile
<1> DEFINE gated == IF NodeEvent(nodeCache) /\ ~nodeCache.deleting
                    THEN Gated(nodeCache, gateCache) ELSE {}
           open == {k \in gated : Evaluate(gateCache[k], nodeCache, podCache)}
           pending == gated \ open # {}
<1>2. \/ UNCHANGED <<queued, recheck, work>>
      \/ queued' = FALSE /\ Patches(open) /\ work' = Sent(open, pending) /\ UNCHANGED recheck
      \/ queued' = FALSE /\ recheck' = (recheck \/ Requeue(pending)) /\ UNCHANGED work
  BY Zenon DEF Reconcile, Sent
<1>3. open \in SUBSET Gated(nodeCache, gateCache)
      /\ \A k \in open : Evaluate(gateCache[k], nodeCache, podCache)
  OBVIOUS
<1>4. pending \in BOOLEAN
  OBVIOUS
<1> HIDE DEF open, pending
<1> QED  BY <1>1, <1>2, <1>3, <1>4, Zenon DEF TypeOK, Patches, Requeue

\* The steps of the controller keep the types.
LEMMA ControllerType == TypeOK /\ Controller => TypeOK'
<1> SUFFICES ASSUME TypeOK, Controller PROVE TypeOK'  OBVIOUS
<1>0. Idle \in [pc : {"idle", "patch"}, taints : SUBSET Taints,
                remove : SUBSET TaintKeys, pending : BOOLEAN, fresh : BOOLEAN]
      /\ Idle.pc = "idle" /\ Idle.remove = {}
  BY DEF Idle
<1>1. CASE Reconcile
  <2>1. /\ UNCHANGED <<api, caches, history, used>>
        /\ queued' \in BOOLEAN /\ recheck' \in BOOLEAN
    BY <1>1, ReconcileEffect
  <2>2. CASE UNCHANGED work
    BY <2>1, <2>2 DEF TypeOK, api, caches, history
  <2>3. ASSUME NEW open \in SUBSET Gated(nodeCache, gateCache),
               NEW pending \in BOOLEAN, open # {}, work' = Sent(open, pending)
        PROVE  TypeOK'
    <3>1. nodeCache.taints \in SUBSET Taints
      BY DEF TypeOK, NodeObject
    <3>2. work' \in [pc : {"idle", "patch"}, taints : SUBSET Taints,
                     remove : SUBSET TaintKeys, pending : BOOLEAN, fresh : BOOLEAN]
          /\ (work'.pc = "patch" <=> work'.remove # {})
      BY <2>3, <3>1 DEF TypeOK, Sent, Gated
    <3> QED  BY <2>1, <3>2 DEF TypeOK, api, caches, history
  <2> QED  BY <1>1, <2>2, <2>3, ReconcileEffect
<1>2. CASE RemoveTaints
  <2>1. node' \in NodeObject /\ nodeSynced' \in BOOLEAN
    BY <1>2, WriteType DEF RemoveTaints, TypeOK
  <2>2. recheck' \in BOOLEAN
    BY <1>2 DEF RemoveTaints, TypeOK, NodeObject, Requeue
  <2> QED  BY <1>0, <1>2, <2>1, <2>2 DEF RemoveTaints, TypeOK, history
<1>3. CASE PatchFails
  <2>1. node' \in NodeObject /\ nodeSynced' \in BOOLEAN
    BY <1>3, WriteType DEF PatchFails, TypeOK
  <2>2. used' \in [DOMAIN Bounds -> Nat]
    BY <1>3, UseType DEF PatchFails, Bounds
  <2> QED  BY <1>0, <1>3, <2>1, <2>2 DEF PatchFails, TypeOK, history
<1>4. CASE Recheck
  BY <1>4, Zenon DEF Recheck, TypeOK, api, caches, history
<1>5. CASE Restart
  <2>1. used' \in [DOMAIN Bounds -> Nat]
    BY <1>5, UseType DEF Restart, Bounds
  <2>2. queued' \in BOOLEAN
    BY <1>5 DEF Restart, NodeEvent, TypeOK, NodeObject
  <2> QED  BY <1>0, <1>5, <2>1, <2>2, Zenon DEF Restart, TypeOK, api, history
<1> QED  BY <1>1, <1>2, <1>3, <1>4, <1>5 DEF Controller

\* So do the watches.
LEMMA WatchType == TypeOK /\ Watches => TypeOK'
<1> SUFFICES ASSUME TypeOK, Watches PROVE TypeOK'  OBVIOUS
<1>1. CASE SyncNode
  BY <1>1 DEF SyncNode, NodeEvent, TypeOK, NodeObject, api, history
<1>2. ASSUME NEW p \in Pods, SyncPod(p) PROVE TypeOK'
  <2>1. used' \in [DOMAIN Bounds -> Nat]
    BY <1>2, UseType DEF SyncPod, Bounds, TypeOK
  <2>2. queued' \in BOOLEAN /\ podCache' \in [Pods -> PodStates]
    BY <1>2, Zenon DEF SyncPod, TypeOK, PodEvent
  <2> QED  BY <1>2, <2>1, <2>2 DEF SyncPod, TypeOK, api, history
<1>3. CASE SyncClass
  BY <1>3 DEF SyncClass, ClassEvent, TypeOK, api
<1>4. CASE SyncNodeName
  BY <1>4 DEF SyncNodeName, TypeOK, api, history
<1> QED  BY <1>1, <1>2, <1>3, <1>4 DEF Watches

\* A write to the Node keeps the types if the new Node is well typed.
LEMMA NodeWrittenType ==
  ASSUME TypeOK, NEW n \in NodeObject, NodeWritten(n)
  PROVE  /\ node' \in NodeObject /\ nodeSynced' \in BOOLEAN
         /\ work' \in [pc : {"idle", "patch"}, taints : SUBSET Taints,
                       remove : SUBSET TaintKeys, pending : BOOLEAN,
                       fresh : BOOLEAN]
         /\ work'.pc = work.pc /\ work'.remove = work.remove
         /\ work'.taints = work.taints /\ ~work'.fresh
BY Zenon DEF TypeOK, NodeWritten

\* So do the other writers of the cluster.
LEMMA ClusterType == TypeOK /\ Cluster => TypeOK'
<1> SUFFICES ASSUME TypeOK, Cluster PROVE TypeOK'  OBVIOUS
<1>1. CASE CoreRegisters
  <2>1. [node EXCEPT !.owned = TRUE, !.taints = @ \cup StartupTaints] \in NodeObject
    BY Zenon DEF TypeOK, NodeObject, Taints
  <2> QED  BY <1>1, <2>1, NodeWrittenType DEF CoreRegisters, TypeOK, history
<1>2. CASE NodeUpdated
  <2>1. PICK new \in NodeObject : NodeWritten(new) /\ everHeld' = (everHeld \/ new.condition)
    <3>1. /\ [node EXCEPT !.condition = ~@] \in NodeObject
          /\ [node EXCEPT !.deleting = TRUE] \in NodeObject
          /\ \A t \in OtherTaints : [node EXCEPT !.taints = @ \cup {t}] \in NodeObject
          /\ \A t \in Taints : [node EXCEPT !.taints = @ \ {t}] \in NodeObject
      BY Zenon DEF TypeOK, NodeObject, Taints
    <3> QED  BY <1>2, <3>1, Zenon DEF NodeUpdated
  <2>2. used' \in [DOMAIN Bounds -> Nat]
    BY <1>2, UseType DEF NodeUpdated, Bounds
  <2>3. everHeld' \in BOOLEAN
    BY <2>1 DEF TypeOK, NodeObject
  <2> QED  BY <1>2, <2>1, <2>2, <2>3, NodeWrittenType DEF NodeUpdated, TypeOK
<1>3. CASE GatesEdited
  <2>1. used' \in [DOMAIN Bounds -> Nat]
    BY <1>3, UseType DEF GatesEdited, Bounds
  <2> QED  BY <1>3, <2>1, GateConfigsAssumption DEF GatesEdited, TypeOK, caches, history
<1>4. CASE NodeRemoved
  <2>1. [node EXCEPT !.present = FALSE] \in NodeObject
    BY Zenon DEF TypeOK, NodeObject
  <2> QED  BY <1>4, <2>1, NodeWrittenType, Zenon DEF NodeRemoved, TypeOK, history
<1>5. CASE NodeRejoins
  <2>1. NewNode(node.incarnation + 1) \in NodeObject
    <3>1. node.incarnation + 1 \in 0 .. MaxRejoins
      BY <1>5, GateBoundsAssumption DEF NodeRejoins, TypeOK, NodeObject
    <3> QED  BY <3>1, NewNodeType
  <2> QED  BY <1>5, <2>1, NodeWrittenType, Zenon DEF NodeRejoins, TypeOK
<1>6. ASSUME NEW p \in Pods, PodChanged(p) PROVE TypeOK'
  <2>1. used' \in [DOMAIN Bounds -> Nat]
    BY <1>6, UseType DEF PodChanged, Bounds
  <2>2. pods' \in [Pods -> PodStates] /\ everReady' \subseteq Pods
    BY <1>6 DEF PodChanged, TypeOK
  <2> QED  BY <1>6, <2>1, <2>2 DEF PodChanged, TypeOK, caches
<1> QED  BY <1>1, <1>2, <1>3, <1>4, <1>5, <1>6 DEF Cluster

\* Every step keeps the types.
LEMMA TypeStep == TypeOK /\ [Next]_vars => TypeOK'
<1>1. TypeOK /\ UNCHANGED vars => TypeOK'
  BY DEF TypeOK, vars, api, caches, history
<1> QED  BY <1>1, ControllerType, WatchType, ClusterType DEF Next

\* TypeOK: every variable of the gate keeps its type, and no patch is sent
\* that removes nothing.
THEOREM TypeCorrect == Spec => []TypeOK
BY InitType, TypeStep, PTL DEF Spec

-----------------------------------------------------------------------------
(* Caches and histories.                                                   *)

\* CacheInv, HistoryInv and PatchInv hold at first.
LEMMA InitCaches == Init => CacheInv /\ HistoryInv /\ PatchInv
BY DEF Init, CacheInv, HistoryInv, PatchInv, SeenReady, IsPodReady, NewNode, Idle

\* CacheInv is kept: a write to the Node clears nodeSynced in the same step.
LEMMA CacheStep == TypeOK /\ CacheInv /\ [Next]_vars => CacheInv'
<1> SUFFICES ASSUME TypeOK, CacheInv, [Next]_vars PROVE CacheInv'  OBVIOUS
<1> USE DEF CacheInv
<1>1. CASE Controller
  BY <1>1 DEF Controller, Reconcile, RemoveTaints, PatchFails, Recheck, Restart,
              Write, api, caches
<1>2. CASE Watches
  BY <1>2 DEF Watches, SyncNode, SyncPod, SyncClass, SyncNodeName, api
<1>3. CASE Cluster
  BY <1>3 DEF Cluster, CoreRegisters, NodeUpdated, GatesEdited, NodeRemoved,
              NodeRejoins, PodChanged, NodeWritten, caches
<1>4. CASE UNCHANGED vars
  BY <1>4 DEF vars, api, caches
<1> QED  BY <1>1, <1>2, <1>3, <1>4 DEF Next

\* HistoryInv is kept: a pod becomes Ready, or starts to go away, only in a
\* step that records it, and a Node that registers again starts afresh.
LEMMA HistoryStep == TypeOK /\ HistoryInv /\ [Next]_vars => HistoryInv'
<1> SUFFICES ASSUME TypeOK, HistoryInv, [Next]_vars PROVE HistoryInv'  OBVIOUS
<1> USE DEF HistoryInv, SeenReady
<1>1. CASE Controller
  <2>1. CASE RemoveTaints \/ PatchFails
    <3>1. node'.condition = node.condition /\ node'.incarnation = node.incarnation
      BY <2>1 DEF RemoveTaints, PatchFails, Write, TypeOK, NodeObject
    <3> QED  BY <2>1, <3>1 DEF RemoveTaints, PatchFails, history
  <2>2. CASE Reconcile \/ Recheck \/ Restart
    BY <2>2, Zenon DEF Reconcile, Recheck, Restart, api, caches, history
  <2> QED  BY <1>1, <2>1, <2>2 DEF Controller
<1>2. CASE Watches
  <2>1. ASSUME NEW p \in Pods, SyncPod(p) PROVE HistoryInv'
    BY <2>1 DEF SyncPod, TypeOK, api, history
  <2>2. CASE SyncNode \/ SyncClass \/ SyncNodeName
    BY <2>2 DEF SyncNode, SyncClass, SyncNodeName, api, history
  <2> QED  BY <1>2, <2>1, <2>2 DEF Watches
<1>3. CASE Cluster
  <2>1. CASE NodeUpdated
    <3>1. PICK new : /\ NodeWritten(new) /\ everHeld' = (everHeld \/ new.condition)
                     /\ new.incarnation = node.incarnation
      BY <2>1 DEF NodeUpdated, TypeOK, NodeObject
    <3> QED  BY <2>1, <3>1, Zenon DEF NodeUpdated, NodeWritten
  <2>2. CASE NodeRejoins
    <3>1. ~node'.condition /\ node'.incarnation # 0
      BY <2>2 DEF NodeRejoins, NodeWritten, NewNode, TypeOK, NodeObject
    <3> QED  BY <3>1
  <2>3. CASE CoreRegisters \/ NodeRemoved
    <3>1. node'.condition = node.condition /\ node'.incarnation = node.incarnation
      BY <2>3, Zenon DEF CoreRegisters, NodeRemoved, NodeWritten, TypeOK, NodeObject
    <3> QED  BY <2>3, <3>1 DEF CoreRegisters, NodeRemoved, history
  <2>4. CASE GatesEdited
    BY <2>4 DEF GatesEdited, caches, history
  <2>5. ASSUME NEW p \in Pods, PodChanged(p) PROVE HistoryInv'
    <3>1. PICK s \in PodStates :
            /\ s = "deleting" => pods[p] = "ready"
            /\ pods' = [pods EXCEPT ![p] = s]
            /\ everReady' = IF s = "ready" THEN everReady \cup {p} ELSE everReady
      BY <2>5, Zenon DEF PodChanged
    <3>2. UNCHANGED <<node, podCache, everHeld>>
      BY <2>5 DEF PodChanged, caches
    <3>3. everReady \subseteq everReady'
      BY <3>1
    <3>4. SeenReady(pods) => SeenReady(pods)'
      BY <3>1, <3>3 DEF TypeOK, IsPodReady
    <3> QED  BY <3>2, <3>3, <3>4
  <2> QED  BY <1>3, <2>1, <2>2, <2>3, <2>4, <2>5 DEF Cluster
<1>4. CASE UNCHANGED vars
  BY <1>4 DEF vars, api, caches, history
<1> QED  BY <1>1, <1>2, <1>3, <1>4 DEF Next

\* PatchInv is kept: a Reconcile that finds the cache current copies the Node,
\* and every write to the Node makes the copy stale.
LEMMA PatchStep == TypeOK /\ CacheInv /\ PatchInv /\ [Next]_vars => PatchInv'
<1> SUFFICES ASSUME TypeOK, CacheInv, PatchInv, [Next]_vars PROVE PatchInv'  OBVIOUS
<1> USE DEF PatchInv
<1>1. CASE Reconcile
  <2>1. \/ UNCHANGED work
        \/ /\ work'.pc = "patch" /\ work'.taints = nodeCache.taints
           /\ work'.fresh = nodeSynced
    BY <1>1, ReconcileEffect DEF Sent
  <2> QED  BY <1>1, <2>1, ReconcileEffect, Zenon DEF CacheInv, api
<1>2. CASE RemoveTaints \/ PatchFails \/ Restart
  <2>1. work' = Idle
    BY <1>2, Zenon DEF RemoveTaints, PatchFails, Restart
  <2> QED  BY <2>1 DEF Idle
<1>3. CASE Recheck \/ Watches
  BY <1>3 DEF Recheck, Watches, SyncNode, SyncPod, SyncClass, SyncNodeName, api
<1>4. CASE Cluster
  <2>1. ASSUME NEW n, NodeWritten(n) PROVE ~work'.fresh
    BY <2>1 DEF NodeWritten, TypeOK
  <2> QED  BY <1>4, <2>1 DEF Cluster, CoreRegisters, NodeUpdated, GatesEdited,
                             NodeRemoved, NodeRejoins, PodChanged
<1>5. CASE UNCHANGED vars
  BY <1>5 DEF vars, api
<1> QED  BY <1>1, <1>2, <1>3, <1>4, <1>5 DEF Next, Controller

-----------------------------------------------------------------------------
(* What a patch removes, and when.                                         *)

\* A gate that evaluates to true on a current cache has once been met.
LEMMA OpenWasMet ==
  ASSUME TypeOK, CacheInv, HistoryInv, nodeSynced,
         NEW k \in Gated(nodeCache, gateCache),
         Evaluate(gateCache[k], nodeCache, podCache)
  PROVE  \/ OnceMet(k)
         \/ node.incarnation > 0 /\ \E gs \in GateConfigs : gs[k] = "podsReady"
<1>1. gateCache \in GateConfigs /\ nodeCache = node
  BY DEF CacheInv
<1>2. CASE gateCache[k] = "nodeCondition"
  BY <1>1, <1>2 DEF Evaluate, HistoryInv, OnceMet
<1>3. CASE gateCache[k] = "podsReady" /\ node.incarnation = 0
  <2> DEFINE counted == {p \in Pods : IsPodReady(podCache[p]) /\ podCache[p] # "deleting"}
  <2>1. Cardinality(counted) >= MinReady
    BY <1>3 DEF Evaluate, PodsReady, EnoughReady
  <2>2. counted \subseteq everReady
    BY <1>3 DEF HistoryInv, SeenReady
  <2>3. IsFiniteSet(everReady)
    BY PodsAssumption, FS_Subset DEF TypeOK
  <2> HIDE DEF counted
  <2>4. Cardinality(counted) <= Cardinality(everReady)
    BY <2>2, <2>3, FS_Subset
  <2>5. Cardinality(counted) \in Nat /\ Cardinality(everReady) \in Nat
    BY <2>2, <2>3, FS_Subset, FS_CardinalityType
  <2>6. Cardinality(everReady) >= MinReady
    BY <2>1, <2>4, <2>5, GateBoundsAssumption
  <2> QED  BY <1>1, <1>3, <2>6 DEF OnceMet
<1>4. CASE gateCache[k] = "podsReady" /\ node.incarnation # 0
  BY <1>1, <1>4 DEF TypeOK, NodeObject
<1> QED  BY <1>2, <1>3, <1>4 DEF Evaluate

\* What was once met stays so while the histories grow.
LEMMA MetStays ==
  ASSUME TypeOK', everReady \subseteq everReady', everHeld => everHeld', NEW k,
         OnceMet(k)
  PROVE  OnceMet(k)'
<1>1. IsFiniteSet(everReady')
  BY PodsAssumption, FS_Subset DEF TypeOK
<1>2. Cardinality(everReady) <= Cardinality(everReady')
  BY <1>1, FS_Subset
<1>3. Cardinality(everReady) \in Nat /\ Cardinality(everReady') \in Nat
  BY <1>1, FS_Subset, FS_CardinalityType
<1>4. Cardinality(everReady) >= MinReady => Cardinality(everReady') >= MinReady
  BY <1>2, <1>3, GateBoundsAssumption
<1> QED  BY <1>4 DEF OnceMet

\* A patch that can still be applied stays justified through every step that
\* neither prepares it nor writes to the Node.
LEMMA StaysJustified ==
  ASSUME TypeOK', GateNeverOpensEarly, UNCHANGED <<node, work>>,
         everReady \subseteq everReady', everHeld => everHeld'
  PROVE  GateNeverOpensEarly'
BY MetStays DEF GateNeverOpensEarly

\* GateNeverOpensEarly is kept.
LEMMA RemovalStep ==
  ASSUME GateInv, TypeOK', [Next]_vars
  PROVE  GateNeverOpensEarly'
<1> USE DEF GateInv
<1>1. CASE Reconcile
  <2>1. CASE UNCHANGED work
    BY <1>1, <2>1, ReconcileEffect, StaysJustified DEF api, history
  <2>2. ASSUME NEW open \in SUBSET Gated(nodeCache, gateCache), NEW pending,
               \A k \in open : Evaluate(gateCache[k], nodeCache, podCache),
               work' = Sent(open, pending)
        PROVE  GateNeverOpensEarly'
    <3>1. work'.remove = open /\ work'.fresh = nodeSynced
      BY <2>2 DEF Sent
    <3>3. ASSUME nodeSynced, NEW k \in open
          PROVE  \/ OnceMet(k)
                 \/ node.incarnation > 0 /\ \E gs \in GateConfigs : gs[k] = "podsReady"
      BY <2>2, <3>3, OpenWasMet
    <3>4. UNCHANGED <<node, everReady, everHeld>>
      BY <1>1, ReconcileEffect DEF api, history
    <3>5. \A k : OnceMet(k) => OnceMet(k)'
      BY <3>4 DEF OnceMet
    <3> QED  BY <3>1, <3>3, <3>4, <3>5 DEF GateNeverOpensEarly
  <2> QED  BY <1>1, <2>1, <2>2, ReconcileEffect
<1>2. CASE RemoveTaints \/ PatchFails \/ Restart
  BY <1>2 DEF RemoveTaints, PatchFails, Restart, Idle, GateNeverOpensEarly
<1>3. CASE Recheck \/ Watches
  <2>1. UNCHANGED <<node, work, everReady, everHeld>>
    BY <1>3, Zenon DEF Recheck, Watches, SyncNode, SyncPod, SyncClass, SyncNodeName,
                api, history
  <2> QED  BY <2>1, StaysJustified
<1>4. CASE Cluster
  <2>1. ASSUME NEW n, NodeWritten(n)
        PROVE  GateNeverOpensEarly'
    BY <2>1 DEF NodeWritten, TypeOK, GateNeverOpensEarly
  <2>2. CASE GatesEdited \/ \E p \in Pods : PodChanged(p)
    <3>1. UNCHANGED <<node, work, everHeld>> /\ everReady \subseteq everReady'
      BY <2>2 DEF GatesEdited, PodChanged, history
    <3> QED  BY <3>1, StaysJustified
  <2> QED  BY <1>4, <2>1, <2>2 DEF Cluster, CoreRegisters, NodeUpdated,
                                   NodeRemoved, NodeRejoins
<1>5. CASE UNCHANGED vars
  BY <1>5, StaysJustified, Zenon DEF vars, api, history
<1> QED  BY <1>1, <1>2, <1>3, <1>4, <1>5 DEF Next, Controller

-----------------------------------------------------------------------------
(* What wakes the reconciler.                                              *)

\* What a Reconcile leaves: itself in the queue, a patch, or a recheck unless
\* there is no gate to wait for.
LEMMA ReconcileLeaves ==
  ASSUME TypeOK, Reconcile, ~queued', work'.pc # "patch",
         NodeEvent(nodeCache), ~nodeCache.deleting, Gated(nodeCache, gateCache) # {}
  PROVE  recheck'
<1> DEFINE gated == IF NodeEvent(nodeCache) /\ ~nodeCache.deleting
                    THEN Gated(nodeCache, gateCache) ELSE {}
           open == {k \in gated : Evaluate(gateCache[k], nodeCache, podCache)}
           pending == gated \ open # {}
<1>1. gated # {}
  OBVIOUS
<1>2. \/ UNCHANGED queued
      \/ Patches(open) /\ work' = Sent(open, pending)
      \/ ~Patches(open) /\ recheck' = (recheck \/ Requeue(pending))
  BY Zenon DEF Reconcile, Sent
<1>3. queued
  BY DEF Reconcile
<1>4. Sent(open, pending).pc = "patch"
  BY DEF Sent
<1>5. open = {} => pending
  BY <1>1
<1> HIDE DEF open, pending
<1> QED  BY <1>2, <1>3, <1>4, <1>5, Zenon DEF Patches, Requeue

\* StaleInv is kept: a copy becomes stale by a write that is yet to be seen, and
\* to see it is to queue the Node.
LEMMA StaleStep ==
  ASSUME GateInv, [Next]_vars
  PROVE  StaleInv'
<1> USE DEF GateInv
<1>1. CASE Reconcile
  <2>1. UNCHANGED <<node, nodeSynced>> /\ work.pc = "idle"
    BY <1>1 DEF Reconcile, api, caches
  <2>2. work' = work \/ work'.fresh = nodeSynced
    BY <1>1, ReconcileEffect DEF Sent
  <2> QED  BY <2>1, <2>2, Zenon DEF StaleInv
<1>2. CASE RemoveTaints \/ PatchFails \/ Restart
  <2>1. work' = Idle
    BY <1>2, Zenon DEF RemoveTaints, PatchFails, Restart
  <2> QED  BY <2>1 DEF Idle, StaleInv
<1>3. CASE Recheck \/ SyncNode
  <2>1. queued' \/ ~NodeEvent(node)
    BY <1>3, Zenon DEF Recheck, SyncNode
  <2>2. UNCHANGED node
    BY <1>3 DEF Recheck, SyncNode, api
  <2> QED  BY <2>1, <2>2 DEF StaleInv, NodeEvent
<1>4. CASE (\E p \in Pods : SyncPod(p)) \/ SyncClass \/ SyncNodeName \/ UNCHANGED vars
           \/ GatesEdited \/ \E p \in Pods : PodChanged(p)
  <2>1. queued => queued'
    BY <1>4, Zenon DEF SyncPod, SyncClass, SyncNodeName, GatesEdited, PodChanged, vars
  <2>2. UNCHANGED <<node, nodeSynced, work>>
    BY <1>4, Zenon DEF SyncPod, SyncClass, SyncNodeName, GatesEdited, PodChanged, vars,
                       api, caches
  <2> QED  BY <2>1, <2>2, Zenon DEF StaleInv, NodeEvent
<1>5. CASE CoreRegisters \/ NodeUpdated \/ NodeRemoved \/ NodeRejoins
  <2>1. ~nodeSynced'
    BY <1>5, Zenon DEF CoreRegisters, NodeUpdated, NodeRemoved, NodeRejoins, NodeWritten
  <2> QED  BY <2>1 DEF StaleInv
<1> QED  BY <1>1, <1>2, <1>3, <1>4, <1>5 DEF Next, Controller, Watches, Cluster

\* PendingGateWatched is kept.
LEMMA WatchedStep ==
  ASSUME GateInv, [Next]_vars
  PROVE  PendingGateWatched'
<1> DEFINE Waiting == /\ NodeEvent(nodeCache) /\ ~nodeCache.deleting
                      /\ Gated(nodeCache, gateCache) # {}
           Watched == queued \/ recheck \/ work.pc = "patch"
<1>0. PendingGateWatched <=> (nodeSynced /\ ~unheard /\ Waiting => Watched)
  BY Zenon DEF PendingGateWatched
<1>00. PendingGateWatched' <=> (nodeSynced' /\ ~unheard' /\ Waiting' => Watched')
  BY Zenon DEF PendingGateWatched
<1>1. CASE Reconcile
  <2>1. UNCHANGED <<nodeCache, gateCache>>
    BY <1>1 DEF Reconcile, caches
  <2>2. Waiting' => Waiting
    BY <2>1 DEF NodeEvent, Gated
  <2> QED  BY <1>1, <1>00, <2>2, ReconcileLeaves, Zenon DEF GateInv
<1>2. CASE RemoveTaints
  <2>1. work.pc = "patch" /\ UNCHANGED <<nodeCache, gateCache, unheard, queued>>
    BY <1>2 DEF RemoveTaints, history
  <2>2. CASE LockHolds
    BY <1>2, <1>00, <2>2, Zenon DEF RemoveTaints, Write
  <2>3. CASE ~LockHolds
    <3>1. UNCHANGED <<node, nodeSynced>>
      BY <1>2, <2>3, Zenon DEF RemoveTaints
    <3>2. nodeSynced /\ NodeEvent(nodeCache) => queued
      BY <2>1, <2>3 DEF GateInv, StaleInv, CacheInv, LockHolds, NodeEvent
    <3>3. NodeEvent(nodeCache)' => NodeEvent(nodeCache)
      BY <2>1 DEF NodeEvent
    <3> QED  BY <1>00, <2>1, <3>1, <3>2, <3>3, Zenon
  <2> QED  BY <2>2, <2>3
<1>3. CASE PatchFails \/ Recheck
  BY <1>00, <1>3, Zenon DEF PatchFails, Recheck
<1>4. CASE Restart \/ SyncNode
  <2>1. nodeCache' = node /\ (NodeEvent(node) => queued')
    BY <1>4, Zenon DEF Restart, SyncNode
  <2>2. NodeEvent(nodeCache)' => queued'
    BY <2>1 DEF NodeEvent
  <2> QED  BY <1>00, <2>2, Zenon
<1>5. CASE SyncClass
  <2>1. /\ gateCache' = gates /\ queued' = (queued \/ ClassEvent(gates))
        /\ unheard' = (unheard \/ ~nodeName)
    BY <1>5 DEF SyncClass
  <2>2. Gated(nodeCache, gateCache)' # {} => \E k \in TaintKeys : gates[k] # "none"
    BY <2>1, Zenon DEF Gated
  <2> QED  BY <1>00, <2>1, <2>2, Zenon DEF ClassEvent
<1>6. CASE (\E p \in Pods : SyncPod(p)) \/ SyncNodeName \/ UNCHANGED vars
           \/ GatesEdited \/ \E p \in Pods : PodChanged(p)
  <2>1. queued => queued'
    BY <1>6, Zenon DEF SyncPod, SyncNodeName, GatesEdited, PodChanged, vars
  <2>2. UNCHANGED <<nodeCache, nodeSynced, gateCache, unheard, recheck, work>>
    BY <1>6, Zenon DEF SyncPod, SyncNodeName, GatesEdited, PodChanged, vars,
                       caches, history
  <2>3. Waiting' => Waiting
    BY <2>2 DEF NodeEvent, Gated
  <2> HIDE DEF Waiting
  <2> QED  BY <1>0, <1>00, <2>1, <2>2, <2>3 DEF GateInv
<1>7. CASE CoreRegisters \/ NodeUpdated \/ NodeRemoved \/ NodeRejoins
  <2>1. ~nodeSynced'
    BY <1>7, Zenon DEF CoreRegisters, NodeUpdated, NodeRemoved, NodeRejoins, NodeWritten
  <2> QED  BY <1>00, <2>1, Zenon
<1> QED  BY <1>1, <1>2, <1>3, <1>4, <1>5, <1>6, <1>7 DEF Next, Controller, Watches, Cluster

\* GateInv is an invariant.
LEMMA GateInvariant == Spec => []GateInv
<1>1. Init => GateInv
  <2> SUFFICES ASSUME Init PROVE GateInv  OBVIOUS
  <2>1. GateNeverOpensEarly /\ StaleInv
    BY DEF Init, Idle, GateNeverOpensEarly, StaleInv
  <2>2. PendingGateWatched
    BY DEF Init, NewNode, NodeEvent, PendingGateWatched
  <2> QED  BY <2>1, <2>2, InitType, InitCaches DEF GateInv
<1>2. GateInv /\ [Next]_vars => GateInv'
  BY TypeStep, CacheStep, HistoryStep, PatchStep, RemovalStep, StaleStep, WatchedStep
     DEF GateInv
<1> QED  BY <1>1, <1>2, PTL DEF Spec

\* While the caches show a gated taint on the current Node, a request, a recheck
\* or a patch is under way that will look at it again, for any number of lost
\* races, failed patches, edits and restarts (Reconcile, Register,
\* nodesForNodeClass).
THEOREM NoGateForgotten == Spec => []PendingGateWatched
<1>1. GateInv => PendingGateWatched  BY DEF GateInv
<1> QED  BY <1>1, GateInvariant, PTL

\* A patch that can still be applied removes only taints whose condition has
\* been met since the Node registered, however stale the caches are
\* (StartupTaintGateReconciler.evaluate, podsReady).
THEOREM GatesOpenOnTime == Spec => []GateNeverOpensEarly
<1>1. GateInv => GateNeverOpensEarly  BY DEF GateInv
<1> QED  BY <1>1, GateInvariant, PTL

\* A patch changes no taint but those it removes, although it writes back a
\* list read earlier (StartupTaintGateReconciler.removeTaints).
THEOREM OthersTaintsKept == Spec => OthersTaintsSurvive
<1> DEFINE A == work.pc = "patch" /\ work'.pc = "idle" =>
                  \A t \in Taints : t.key \notin work.remove =>
                     (t \in node.taints <=> t \in node'.taints)
<1>1. ASSUME GateInv, [Next]_vars PROVE [A]_vars
  <2> SUFFICES ASSUME Next, work.pc = "patch", work'.pc = "idle",
                      NEW t \in Taints, t.key \notin work.remove
               PROVE  t \in node.taints <=> t \in node'.taints
    BY <1>1
  <2>1. ASSUME LockHolds, Write PROVE t \in node.taints <=> t \in node'.taints
    BY <1>1, <2>1 DEF GateInv, PatchInv, LockHolds, Write, TypeOK, NodeObject
  <2>2. CASE RemoveTaints \/ PatchFails
    BY <2>1, <2>2 DEF RemoveTaints, PatchFails
  <2>3. CASE Reconcile \/ Recheck \/ Restart \/ Watches
    BY <2>3, Zenon DEF Reconcile, Recheck, Restart, Watches, SyncNode, SyncPod,
                SyncClass, SyncNodeName, api
  <2>4. CASE Cluster
    <3>1. ASSUME NEW n, NodeWritten(n) PROVE FALSE
      BY <1>1, <3>1 DEF NodeWritten, GateInv, TypeOK
    <3> QED  BY <2>4, <3>1 DEF Cluster, CoreRegisters, NodeUpdated, GatesEdited,
                               NodeRemoved, NodeRejoins, PodChanged
  <2> QED  BY <2>2, <2>3, <2>4 DEF Next, Controller
<1> QED  BY <1>1, GateInvariant, PTL DEF Spec, OthersTaintsSurvive

=============================================================================
