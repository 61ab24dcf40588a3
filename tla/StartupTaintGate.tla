-------------------------- MODULE StartupTaintGate --------------------------
(***************************************************************************)
(* The startup taint gate: the reconciler that takes a NodePool's startup  *)
(* taints off a registered Node once the condition its SSHNodeClass        *)
(* declares for the taint holds.  One Node, the pods scheduled to it and   *)
(* the gates of its class.                                                 *)
(*                                                                         *)
(* The reconciler sees the Node, the pods and the class through informer   *)
(* caches that trail the API server independently of one another, and is   *)
(* woken by the events that bring a cache up to date, as its watches and   *)
(* their predicates let them through.  nodeSynced says that the cached     *)
(* Node carries the server's resourceVersion, work.fresh that the copy a   *)
(* Reconcile is about to patch does.                                       *)
(***************************************************************************)
EXTENDS Naturals, FiniteSets

CONSTANTS
  StartupTaints,  \* NodeClaim.spec.startupTaints, records [key, effect]
  OtherTaints,    \* taints of the Node the pool did not declare as startup
  GateConfigs,    \* values of spec.startupTaintGates: functions on TaintKeys
  Pods,           \* the pods the podsReady selector matches
  MinReady,       \* podsReady.minReady
  MaxUpdates,     \* bound on writes to the Node by kubelet and controllers
  MaxFlips,       \* bound on changes of a pod
  MaxEdits,       \* bound on edits of the class's gates
  MaxFaults,      \* bound on failed patches, missed events and restarts
  MaxRejoins      \* how often a Node of the same name registers again

Taints    == StartupTaints \cup OtherTaints
Key(T)    == {t.key : t \in T}
TaintKeys == Key(Taints)

\* removeWhen of one gate; "none": the class has no gate for the key, "unset":
\* a gate without a condition, from before admission rejected it.
GateKinds == {"none", "podsReady", "nodeCondition", "unset"}

\* deleting: the kubelet has not yet withdrawn Ready, deletionTimestamp is set.
PodStates == {"absent", "unready", "ready", "deleting"}

ASSUME GateConfigsAssumption == GateConfigs \subseteq [TaintKeys -> GateKinds]
ASSUME PodsAssumption == IsFiniteSet(Pods)
ASSUME GateBoundsAssumption ==
  /\ MinReady \in Nat \ {0}
  /\ \A n \in {MaxUpdates, MaxFlips, MaxEdits, MaxFaults, MaxRejoins} : n \in Nat

VARIABLES
  node,        \* the Node on the API server
  nodeCache,   \* the reconciler's cached Node
  nodeSynced,  \* the cached Node is the current version
  pods,        \* the pods bound to the Node's name
  podCache,    \* the cached pods
  gates,       \* SSHNodeClass.spec.startupTaintGates
  gateCache,   \* the cached class
  nodeName,    \* the cached NodeClaim carries status.nodeName
  queued,      \* the Node's request is in the work queue
  recheck,     \* a RequeueAfter(gateRecheck) is running
  work,        \* the Reconcile in progress
  everReady,   \* history: pods that were Ready under this Node
  everHeld,    \* history: the gate condition of this Node was once met
  unheard,     \* history: a class event mapped to no Node
  used         \* how much of each bound is used up

api    == <<node, pods, gates>>
caches == <<nodeCache, nodeSynced, podCache, gateCache, nodeName>>
history == <<everReady, everHeld, unheard>>
vars == <<api, caches, queued, recheck, work, history, used>>

NodeObject == [present : BOOLEAN, incarnation : 0 .. MaxRejoins,
               deleting : BOOLEAN, owned : BOOLEAN,
               taints : SUBSET Taints, condition : BOOLEAN]

Idle == [pc |-> "idle", taints |-> {}, remove |-> {}, pending |-> FALSE,
         fresh |-> FALSE]

Bounds == [updates |-> MaxUpdates, flips |-> MaxFlips, edits |-> MaxEdits,
           faults |-> MaxFaults]

\* The types; and no patch is sent that removes nothing.
TypeOK ==
  /\ node \in NodeObject
  /\ nodeCache \in NodeObject
  /\ nodeSynced \in BOOLEAN
  /\ pods \in [Pods -> PodStates]
  /\ podCache \in [Pods -> PodStates]
  /\ gates \in [TaintKeys -> GateKinds]
  /\ gateCache \in [TaintKeys -> GateKinds]
  /\ nodeName \in BOOLEAN
  /\ queued \in BOOLEAN
  /\ recheck \in BOOLEAN
  /\ work \in [pc : {"idle", "patch"}, taints : SUBSET Taints,
               remove : SUBSET TaintKeys, pending : BOOLEAN, fresh : BOOLEAN]
  /\ everReady \subseteq Pods
  /\ everHeld \in BOOLEAN
  /\ unheard \in BOOLEAN
  /\ used \in [DOMAIN Bounds -> Nat]
  /\ work.pc = "patch" <=> work.remove # {}

\* The kubelet has just registered the Node; karpenter core has not seen it.
NewNode(n) ==
  [present |-> TRUE, incarnation |-> n, deleting |-> FALSE, owned |-> FALSE,
   taints |-> OtherTaints, condition |-> FALSE]

Init ==
  /\ node = NewNode(0)
  /\ nodeCache = node
  /\ nodeSynced = TRUE
  /\ pods = [p \in Pods |-> "absent"]
  /\ podCache = pods
  /\ gates \in GateConfigs
  /\ gateCache = gates
  /\ nodeName = FALSE
  /\ queued = FALSE
  /\ recheck = FALSE
  /\ work = Idle
  /\ everReady = {}
  /\ everHeld = FALSE
  /\ unheard = FALSE
  /\ used = [b \in DOMAIN Bounds |-> 0]

Use(b) == /\ used[b] < Bounds[b]
          /\ used' = [used EXCEPT ![b] = @ + 1]

-----------------------------------------------------------------------------
(* What the reconciler computes from its caches.                           *)

IsPodReady(s) == s \in {"ready", "deleting"}

\* Mutant: the count is not compared with minReady.
PodsReadyEver(count) == TRUE

\* The comparison that ends podsReady.
EnoughReady(count) == count >= MinReady

\* podsReady: Ready pods of the selector on the node that are not going away.
PodsReady(ps) ==
  EnoughReady(Cardinality({p \in Pods : IsPodReady(ps[p]) /\ ps[p] # "deleting"}))

\* evaluate, for the two conditions a gate may declare.
Evaluate(kind, n, ps) ==
  CASE kind = "podsReady"     -> PodsReady(ps)
    [] kind = "nodeCondition" -> n.condition
    [] OTHER                  -> FALSE

HasTaintKey(T, k) == k \in Key(T)

\* The gates a Reconcile evaluates: on the node, and a startup taint.
Gated(n, gs) ==
  {k \in TaintKeys : /\ gs[k] # "none"
                     /\ HasTaintKey(n.taints, k)
                     /\ HasTaintKey(StartupTaints, k)}

\* The Node predicate of Register: tainted, and owned by a NodeClaim.
NodeEvent(n) == n.present /\ n.owned /\ n.taints # {}

\* podReadyChanged: creates, deletes, and updates that flip Ready.
PodEvent(old, new) ==
  \/ (old = "absent") # (new = "absent")
  \/ IsPodReady(old) # IsPodReady(new)

\* Mutant: an edit of the class wakes no Node.
ClassEventIgnored(gs) == FALSE

\* nodesForNodeClass: a class without gates maps to nothing, and a NodeClaim
\* is mapped through its status.nodeName.
ClassEvent(gs) == nodeName /\ \E k \in TaintKeys : gs[k] # "none"

-----------------------------------------------------------------------------
(* The reconciler.                                                         *)

\* Mutant: a Reconcile with a closed gate asks for no recheck.
NeverRecheck(pending) == FALSE

\* What a finished Reconcile returns: RequeueAfter iff a gate is closed.
Requeue(pending) == pending

\* Mutant: the patch is sent whether or not a gate is open.
AlwaysPatches(open) == TRUE

\* Whether there is anything to remove.
Patches(open) == open # {}

\* Reconcile up to the patch: reads the caches and evaluates every gate.  A
\* gate that sets no condition fails the whole Reconcile, which is retried.
Reconcile ==
  /\ queued /\ work.pc = "idle"
  /\ LET gated   == IF NodeEvent(nodeCache) /\ ~nodeCache.deleting
                    THEN Gated(nodeCache, gateCache) ELSE {}
         open    == {k \in gated : Evaluate(gateCache[k], nodeCache, podCache)}
         pending == gated \ open # {}
     IN \/ /\ \E k \in gated : gateCache[k] = "unset"
           /\ UNCHANGED <<queued, recheck, work>>
        \/ /\ \A k \in gated : gateCache[k] # "unset"
           /\ queued' = FALSE
           /\ IF Patches(open)
              THEN /\ work' = [pc |-> "patch", taints |-> nodeCache.taints,
                               remove |-> open, pending |-> pending,
                               fresh |-> nodeSynced]
                   /\ UNCHANGED recheck
              ELSE /\ recheck' = (recheck \/ Requeue(pending))
                   /\ UNCHANGED work
  /\ UNCHANGED <<api, caches, history, used>>

\* Mutant: the patch carries no resourceVersion.
NoLock == node.present

\* The optimistic lock of the patch holds.
LockHolds == node.present /\ work.fresh

\* The Node the patch writes: the copy's list without the removed keys.  A
\* merge patch replaces the list as a whole.
Write == /\ node' = [node EXCEPT !.taints =
                       {t \in work.taints : t.key \notin work.remove}]
         /\ nodeSynced' = FALSE

\* removeTaints: one optimistic-lock patch.  A lost race is not an error, it
\* re-enters through the Node watch; a Node that is gone ends the Reconcile.
RemoveTaints ==
  /\ work.pc = "patch"
  /\ IF LockHolds THEN Write ELSE UNCHANGED <<node, nodeSynced>>
  /\ work' = Idle
  /\ recheck' = (recheck \/ (node.present /\ Requeue(work.pending)))
  /\ UNCHANGED <<pods, gates, nodeCache, podCache, gateCache, nodeName, queued,
                 history, used>>

\* The patch fails, with or without having been applied; Reconcile returns
\* the error and is retried.
PatchFails ==
  /\ work.pc = "patch"
  /\ Use("faults")
  /\ \/ LockHolds /\ Write
     \/ UNCHANGED <<node, nodeSynced>>
  /\ work' = Idle
  /\ queued' = TRUE
  /\ UNCHANGED <<pods, gates, nodeCache, podCache, gateCache, nodeName,
                 recheck, history>>

\* RequeueAfter(gateRecheck) expires.
Recheck ==
  /\ recheck
  /\ recheck' = FALSE
  /\ queued' = TRUE
  /\ UNCHANGED <<api, caches, work, history, used>>

\* The leader is lost and its successor lists everything anew.
Restart ==
  /\ Use("faults")
  /\ nodeCache' = node /\ nodeSynced' = TRUE
  /\ podCache' = pods
  /\ gateCache' = gates
  /\ work' = Idle
  /\ recheck' = FALSE
  /\ queued' = NodeEvent(node)
  /\ UNCHANGED <<api, nodeName, history>>

-----------------------------------------------------------------------------
(* The watches.                                                            *)

SyncNode ==
  /\ ~nodeSynced
  /\ nodeCache' = node /\ nodeSynced' = TRUE
  /\ queued' = (queued \/ NodeEvent(node))
  /\ UNCHANGED <<api, podCache, gateCache, nodeName, recheck, work, history,
                 used>>

SyncPod(p) ==
  /\ podCache[p] # pods[p]
  /\ podCache' = [podCache EXCEPT ![p] = pods[p]]
  /\ \/ queued' = (queued \/ PodEvent(podCache[p], pods[p])) /\ UNCHANGED used
     \/ Use("faults") /\ UNCHANGED queued  \* the event is missed
  /\ UNCHANGED <<api, nodeCache, nodeSynced, gateCache, nodeName, recheck,
                 work, history>>

SyncClass ==
  /\ gateCache # gates
  /\ gateCache' = gates
  /\ queued' = (queued \/ ClassEvent(gates))
  /\ unheard' = (unheard \/ ~nodeName)
  /\ UNCHANGED <<api, nodeCache, nodeSynced, podCache, nodeName, recheck, work,
                 everReady, everHeld, used>>

\* No watch on NodeClaims: the cached status changes silently.
SyncNodeName ==
  /\ node.present /\ node.owned /\ ~nodeName
  /\ nodeName' = TRUE
  /\ UNCHANGED <<api, nodeCache, nodeSynced, podCache, gateCache, queued,
                 recheck, work, history, used>>

-----------------------------------------------------------------------------
(* karpenter core, the kubelet, the DaemonSet and the operator.            *)

NodeWritten(n) ==
  /\ node' = n
  /\ nodeSynced' = FALSE
  /\ work' = [work EXCEPT !.fresh = FALSE]

\* Core registers the Node: one write sets the owner and the startup taints.
CoreRegisters ==
  /\ node.present /\ ~node.owned
  /\ NodeWritten([node EXCEPT !.owned = TRUE, !.taints = @ \cup StartupTaints])
  /\ UNCHANGED <<pods, gates, nodeCache, podCache, gateCache, nodeName, queued,
                 recheck, history, used>>

\* A status update, a taint put on or taken off by its own controller, or
\* the start of the Node's deletion.
NodeUpdated ==
  /\ node.present
  /\ Use("updates")
  /\ \E new \in {[node EXCEPT !.condition = ~@],
                 [node EXCEPT !.deleting = TRUE]}
           \cup {[node EXCEPT !.taints = @ \cup {t}] : t \in OtherTaints}
           \cup {[node EXCEPT !.taints = @ \ {t}] : t \in Taints} :
       /\ NodeWritten(new)
       /\ everHeld' = (everHeld \/ new.condition)
  /\ UNCHANGED <<pods, gates, nodeCache, podCache, gateCache, nodeName, queued,
                 recheck, everReady, unheard>>

\* The kubelet reports a pod, or the pod is deleted.
PodChanged(p) ==
  /\ Use("flips")
  /\ \E s \in PodStates \ {pods[p]} :
       /\ s \in {"ready", "unready"} => node.present
       /\ s = "deleting" => pods[p] = "ready"
       /\ s = "ready" => pods[p] = "unready"
       /\ s = "unready" => pods[p] # "deleting"
       /\ pods' = [pods EXCEPT ![p] = s]
       /\ everReady' = IF s = "ready" THEN everReady \cup {p} ELSE everReady
  /\ UNCHANGED <<node, gates, caches, queued, recheck, work, everHeld, unheard>>

GatesEdited ==
  /\ Use("edits")
  /\ gates' \in GateConfigs \ {gates}
  /\ UNCHANGED <<node, pods, caches, queued, recheck, work, history>>

\* The Node is removed; its pods stay until the pod garbage collector acts.
NodeRemoved ==
  /\ node.present /\ node.deleting
  /\ NodeWritten([node EXCEPT !.present = FALSE])
  /\ nodeName' = FALSE
  /\ UNCHANGED <<pods, gates, nodeCache, podCache, gateCache, queued, recheck,
                 history, used>>

\* A warm rejoin: the host registers a Node of the same name again, which
\* only happens with providerIDSource Adopt, where nodeadm names the Node.
NodeRejoins ==
  /\ ~node.present /\ node.incarnation < MaxRejoins
  /\ NodeWritten(NewNode(node.incarnation + 1))
  /\ everReady' = {}
  /\ everHeld' = FALSE
  /\ UNCHANGED <<pods, gates, nodeCache, podCache, gateCache, nodeName, queued,
                 recheck, unheard, used>>

Controller == Reconcile \/ RemoveTaints \/ PatchFails \/ Recheck \/ Restart
Watches == SyncNode \/ (\E p \in Pods : SyncPod(p)) \/ SyncClass \/ SyncNodeName
Cluster == \/ CoreRegisters \/ NodeUpdated \/ GatesEdited
           \/ NodeRemoved \/ NodeRejoins
           \/ \E p \in Pods : PodChanged(p)

Next == Controller \/ Watches \/ Cluster

Spec == Init /\ [][Next]_vars

\* Workers take requests, caches catch up, timers fire, core registers.
Fairness ==
  /\ WF_vars(Reconcile) /\ WF_vars(RemoveTaints) /\ WF_vars(Recheck)
  /\ WF_vars(SyncNode) /\ WF_vars(\E p \in Pods : SyncPod(p))
  /\ WF_vars(SyncClass) /\ WF_vars(SyncNodeName) /\ WF_vars(CoreRegisters)

FairSpec == Spec /\ Fairness

-----------------------------------------------------------------------------
(* Properties.                                                             *)

\* removeTaints writes back a whole list of taints it read earlier; still it
\* changes nothing but the keys it removes.  A taint another writer put on or
\* took off in between is neither lost nor resurrected
\* (startuptaintgate.go:193).
OthersTaintsSurvive ==
  [][work.pc = "patch" /\ work'.pc = "idle" =>
       \A t \in Taints : t.key \notin work.remove =>
          (t \in node.taints <=> t \in node'.taints)]_vars

\* No waiting gate is forgotten: as soon as the reconciler's caches show a gated
\* taint on the current Node, something will look at it again (a request in the
\* queue, a running recheck or a patch in flight), whatever raced with the
\* patch, was edited, failed or restarted (startuptaintgate.go:97-148).  The
\* exception is a class event that came before the NodeClaim showed its
\* nodeName (startuptaintgate.go:301).
PendingGateWatched ==
  /\ nodeSynced /\ ~unheard
  /\ NodeEvent(nodeCache) /\ ~nodeCache.deleting
  /\ Gated(nodeCache, gateCache) # {}
  => queued \/ recheck \/ work.pc = "patch"

\* The condition some gate declares for k has held under this Node.
OnceMet(k) ==
  \E gs \in GateConfigs :
     \/ gs[k] = "podsReady" /\ Cardinality(everReady) >= MinReady
     \/ gs[k] = "nodeCondition" /\ everHeld

\* A gate never opens early: when a patch is about to take a taint off, the
\* condition was reported, or minReady matching pods have each been Ready,
\* since this Node registered, however stale the caches and however often the
\* class was edited (startuptaintgate.go:163).  A podsReady gate promises it
\* for the first Node of a name only.
GateNeverOpensEarly ==
  work.pc = "patch" /\ work.fresh =>
     \A k \in work.remove :
        \/ OnceMet(k)
        \/ node.incarnation > 0 /\ \E gs \in GateConfigs : gs[k] = "podsReady"

\* A taint whose gate is open does not stay: unless the gate closes or the
\* Node goes away it is removed, through lost races, missed pod events, failed
\* patches and restarts.  The exception is a class event that came before the
\* NodeClaim showed its nodeName: only the next Node update repairs that
\* (startuptaintgate.go:301).
TaintDue(k) ==
  /\ node.present /\ node.owned /\ ~node.deleting
  /\ k \in Gated(node, gates)
  /\ Evaluate(gates[k], node, pods)
  /\ \A g \in TaintKeys : gates[g] # "unset"
OpenGateLiftsTaint ==
  \A k \in TaintKeys : []<>(~TaintDue(k) \/ unheard)

=============================================================================
