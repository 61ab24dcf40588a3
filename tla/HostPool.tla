------------------------------ MODULE HostPool ------------------------------
(***************************************************************************)
(* The SSH host pool: the launch path (Create), the termination path       *)
(* (Delete), the host probe with its zombie guard, karpenter core and the  *)
(* hosts themselves, all acting on the SSHHost objects of one namespace.   *)
(*                                                                         *)
(* Every controller works on a copy of the object it read from the         *)
(* informer cache, which trails the API server, and writes it back with an *)
(* optimistic lock.  fresh[h] is the set of actors whose copy of host h    *)
(* carries the server's current resourceVersion: a write by w succeeds iff *)
(* w \in fresh[h], and leaves fresh[h] = {w}.                              *)
(*                                                                         *)
(* Each step of a worker contains at most one call that another process    *)
(* can observe: an API write, an SSH phase, or a token Secret operation.   *)
(***************************************************************************)
EXTENDS SSHHost, Integers, FiniteSets

CONSTANTS
  NHosts,        \* number of hosts, in the order Available offers them
  ForeignHosts,  \* hosts that start with a kubelet of another cluster
  NoKubelet,     \* no kubelet process on the host
  ForeignKubelet,\* a kubelet this provider never started
  ForeignNode,   \* a Node of this cluster that no NodeClaim stands for
  NoNode,        \* the zombie guard found no Node for the host
  MaxFaults,     \* bound on crashes, API errors and operator interventions
  MaxFailures,   \* bound on failing SSH phases, probes and configuration,
                 \* and on exhausted conflict retries
  MaxProbes,     \* bound on hostprobe Reconciles, or Unbounded
  Unbounded

Hosts  == 1 .. NHosts
NoHost == 0

ASSUME NHostsAssumption == NHosts \in Nat
ASSUME ForeignAssumption == ForeignHosts \subseteq Hosts
ASSUME BoundsAssumption == /\ MaxFaults \in Nat /\ MaxFailures \in Nat
                           /\ MaxProbes \in Nat \/ MaxProbes = Unbounded
ASSUME NoClaimAssumption == NoClaim \notin NodeClaims
ASSUME NoTokenAssumption == NoToken \notin TokenIDs
\* Every NodeClaim of the model comes from the API server: it has a UID, and no
\* other NodeClaim has the same one.  Not modelled are the NodeClaims without a
\* UID that core's garbage collection makes from List (host.go:81) and deletes,
\* and claim references without one: ClaimHeldBy compares only their names.
ASSUME UIDAssumption ==
  /\ \A c \in NodeClaims : c.uid # NoUID
  /\ \A c, d \in NodeClaims : c.uid = d.uid => c = d

VARIABLES
  sshHost,   \* the SSHHost objects on the API server
  copy,      \* every actor's copy of every host
  fresh,     \* the actors whose copy has the current resourceVersion
  nodeClaim, \* karpenter's NodeClaims: lifecycle phase and recorded providerID
  create,    \* the Create call in progress for each NodeClaim
  delete,    \* the Delete call in progress for each NodeClaim
  probe,     \* the hostprobe Reconcile in progress for each host
  tokens,    \* bootstrap token Secrets in kube-system
  kubelet,   \* the kubelet running on each host
  nodes,     \* the Node objects that advertise each host's InternalIP
  faults,    \* disturbances so far
  failures,  \* failed phases, probes, configuration reads and retries so far
  probes     \* hostprobe Reconciles so far

objects == <<sshHost, copy, fresh>>
workers == <<create, delete, probe>>
cluster == <<tokens, kubelet, nodes>>
bounds  == <<faults, failures>>
vars    == <<objects, nodeClaim, workers, cluster, bounds, probes>>

Cache      == <<"cache">>
Creator(c) == <<"create", c>>
Deleter(c) == <<"delete", c>>
Prober(h)  == <<"probe", h>>
Actors == {Cache} \cup {Creator(c) : c \in NodeClaims}
                  \cup {Deleter(c) : c \in NodeClaims}
                  \cup {Prober(h) : h \in Hosts}

-----------------------------------------------------------------------------
(* The steps of the three workers.                                         *)

CreateIdle == [pc |-> "idle", host |-> NoHost, cands |-> {},
               token |-> NoToken, healthy |-> FALSE]
DeleteIdle == [pc |-> "idle", host |-> NoHost, leaveOK |-> FALSE]
ProbeIdle  == [pc |-> "idle", new |-> NewHost, node |-> NoNode, beat |-> FALSE]

CreatePCs ==
  {"idle", "claim", "prepare", "setInstalled", "mint", "record", "join",
   "setProviderID", "markInUse", "launched",            \* the launch
   "discard", "forget", "dropToken", "release", "failed", \* a failed join
   "exhausted"}                                 \* no host could be claimed
DeletePCs == {"idle", "leave", "dropToken", "release"}
ProbePCs  == {"idle", "ssh", "zombie", "leave", "deleteNode", "patch"}

\* finalizing: Delete has reported the instance gone, the Node is still there.
NodeClaimPhases == {"absent", "live", "deleting", "finalizing", "gone"}
Exists(c) == nodeClaim[c].phase \in {"live", "deleting", "finalizing"}

JoinedKubelet ==
  [claim : NodeClaims, token : TokenIDs \cup {NoToken}, cert : BOOLEAN]

NodeClaimStatus == [phase : NodeClaimPhases, host : Hosts \cup {NoHost}]
CreateCall == [pc : CreatePCs, host : Hosts \cup {NoHost}, cands : SUBSET Hosts,
               token : TokenIDs \cup {NoToken}, healthy : BOOLEAN]
DeleteCall == [pc : DeletePCs, host : Hosts \cup {NoHost}, leaveOK : BOOLEAN]
ProbeCall  == [pc : ProbePCs, new : HostObject,
               node : NodeClaims \cup {ForeignNode, NoNode}, beat : BOOLEAN]

TypeOK ==
  /\ sshHost \in [Hosts -> HostObject]
  /\ copy \in [Actors -> [Hosts -> HostObject]]
  /\ fresh \in [Hosts -> SUBSET Actors]
  /\ nodeClaim \in [NodeClaims -> NodeClaimStatus]
  /\ create \in [NodeClaims -> CreateCall]
  /\ delete \in [NodeClaims -> DeleteCall]
  /\ probe \in [Hosts -> ProbeCall]
  /\ tokens \subseteq TokenIDs
  /\ kubelet \in [Hosts -> JoinedKubelet \cup {NoKubelet, ForeignKubelet}]
  /\ nodes \in [Hosts -> SUBSET (NodeClaims \cup {ForeignNode})]
  /\ faults \in 0 .. MaxFaults
  /\ failures \in 0 .. MaxFailures
  /\ probes \in Nat

NoCopies == [h \in Hosts |-> NewHost]

Init ==
  /\ sshHost = [h \in Hosts |-> NewHost]
  /\ copy = [w \in Actors |-> NoCopies]
  /\ fresh = [h \in Hosts |-> {Cache}]
  /\ nodeClaim = [c \in NodeClaims |-> [phase |-> "absent", host |-> NoHost]]
  /\ create = [c \in NodeClaims |-> CreateIdle]
  /\ delete = [c \in NodeClaims |-> DeleteIdle]
  /\ probe = [h \in Hosts |-> ProbeIdle]
  /\ tokens = {}
  /\ kubelet = [h \in Hosts |-> IF h \in ForeignHosts THEN ForeignKubelet
                                                      ELSE NoKubelet]
  /\ \E members \in SUBSET ForeignHosts :  \* some are Nodes of this cluster
       nodes = [h \in Hosts |-> IF h \in members THEN {ForeignNode} ELSE {}]
  /\ faults = 0
  /\ failures = 0
  /\ probes = 0

-----------------------------------------------------------------------------
(* API server and client machinery.                                        *)

\* One of the disturbances the run allows: an API error, a crash, an operator.
Fault   == faults < MaxFaults /\ faults' = faults + 1 /\ UNCHANGED failures
NoFault == UNCHANGED bounds

\* The host or the configuration lets a phase or a probe down.
Failure == failures < MaxFailures /\ failures' = failures + 1 /\ UNCHANGED faults

\* w reads the hosts H from the cache; its other copies are dropped.
ReadCached(w, H) ==
  /\ copy' = [copy EXCEPT ![w] =
       [h \in Hosts |-> IF h \in H THEN copy[Cache][h] ELSE NewHost]]
  /\ fresh' = [h \in Hosts |-> IF h \in H /\ Cache \in fresh[h]
                               THEN fresh[h] \cup {w} ELSE fresh[h] \ {w}]
  /\ UNCHANGED sshHost

\* w returns: its copies go out of scope.
Forget(w) == ReadCached(w, {})

\* Mutant: other copies still pass for current, as without the optimistic lock.
WriteUnlocked(w, h, m) ==
  /\ sshHost' = [sshHost EXCEPT ![h] = m]
  /\ copy' = [copy EXCEPT ![w] = [NoCopies EXCEPT ![h] = m]]
  /\ fresh' = [fresh EXCEPT ![h] = @ \cup {w}]

\* A committed write of object m by w, which gets the server's response; the
\* copies w holds of other hosts are dropped.  Everyone else's copy is stale.
Write(w, h, m) ==
  /\ sshHost' = [sshHost EXCEPT ![h] = m]
  /\ copy' = [copy EXCEPT ![w] = [NoCopies EXCEPT ![h] = m]]
  /\ fresh' = [i \in Hosts |-> IF i = h THEN {w} ELSE fresh[i] \ {w}]

\* A write that commits and after which w returns.
WriteAndForget(w, h, m) ==
  /\ sshHost' = [sshHost EXCEPT ![h] = m]
  /\ copy' = [copy EXCEPT ![w] = NoCopies]
  /\ fresh' = [i \in Hosts |-> IF i = h THEN {} ELSE fresh[i] \ {w}]

\* The object a patch from w's copy to new leaves on the server.
Patched(w, h, new) == MergePatch(sshHost[h], copy[w][h], new)

\* w's patch gets an API error that is not a conflict: it was lost, or it was
\* committed and the response was.  w keeps its object as mutated.
PatchError(w, h, new) ==
  /\ Fault
  /\ copy' = [copy EXCEPT ![w][h] = new]
  /\ \/ UNCHANGED <<sshHost, fresh>>
     \/ /\ w \in fresh[h]
        /\ sshHost' = [sshHost EXCEPT ![h] = Patched(w, h, new)]
        /\ fresh' = [fresh EXCEPT ![h] = {}]

\* The informer delivers the current version of host h.
Sync(h) ==
  /\ Cache \notin fresh[h]
  /\ copy' = [copy EXCEPT ![Cache][h] = sshHost[h]]
  /\ fresh' = [fresh EXCEPT ![h] = @ \cup {Cache}]
  /\ UNCHANGED <<sshHost, nodeClaim, workers, cluster, bounds, probes>>

-----------------------------------------------------------------------------
(* Create: launch a NodeClaim.                                             *)

GotoCreate(c, pc) == create' = [create EXCEPT ![c].pc = pc]
CreateUnchanged   == UNCHANGED <<nodeClaim, delete, probe, probes>>

\* The hosts the cache shows held by c, and those it shows free.
ByClaim(c) == {h \in Hosts : ClaimHeldBy(copy[Cache][h], c)}
Available  == {h \in Hosts : Claimable(copy[Cache][h])}

\* Resume the host this claim already holds, else gather the candidates.
CreateBegin(c) ==
  /\ nodeClaim[c] = [phase |-> "live", host |-> NoHost]
  /\ create[c].pc = "idle" /\ delete[c].pc = "idle"
  /\ \/ \E h \in ByClaim(c) :
          /\ ReadCached(Creator(c), {h})
          /\ create' = [create EXCEPT ![c].pc = "prepare", ![c].host = h]
     \/ /\ ByClaim(c) = {} /\ Available # {}
        /\ ReadCached(Creator(c), Available)
        /\ create' = [create EXCEPT ![c].pc = "claim", ![c].cands = Available]
     \/ /\ ByClaim(c) = {} /\ Available = {}
        /\ GotoCreate(c, "exhausted")
        /\ UNCHANGED objects
  /\ CreateUnchanged /\ UNCHANGED <<cluster, bounds>>

\* Claim the next candidate; a conflict moves on to the one after it.
ClaimHost(c) ==
  LET w == Creator(c)
  IN \E h \in create[c].cands :
     LET mine == ClaimedBy(copy[w][h], c)
         rest == create[c].cands \ {h}
     IN /\ create[c].pc = "claim"
        /\ \A i \in rest : h < i
        /\ \/ /\ w \in fresh[h]
              /\ Write(w, h, mine)
              /\ create' = [create EXCEPT ![c].pc = "prepare", ![c].host = h,
                                          ![c].cands = {}]
              /\ NoFault
           \/ /\ w \notin fresh[h]
              /\ create' = [create EXCEPT ![c].cands = rest,
                              ![c].pc = IF rest = {} THEN "exhausted" ELSE "claim"]
              /\ UNCHANGED objects /\ NoFault
           \/ /\ Fault
              /\ GotoCreate(c, "failed")
              /\ \/ UNCHANGED objects
                 \/ /\ w \in fresh[h]
                    /\ sshHost' = [sshHost EXCEPT ![h] = mine]
                    /\ fresh' = [fresh EXCEPT ![h] = {}]
                    /\ UNCHANGED copy
        /\ CreateUnchanged /\ UNCHANGED cluster

\* The front half of join: read the configuration, run install if the host
\* lacks the current marker.  A configError blames no host, and is the only way
\* to fail when there is nothing to install.
Prepare(c) ==
  LET installed == copy[Creator(c)][create[c].host].installed
  IN /\ create[c].pc = "prepare"
     /\ \/ GotoCreate(c, IF installed THEN "mint" ELSE "setInstalled") /\ NoFault
        \/ /\ Failure
           /\ \E configError \in BOOLEAN :
                /\ installed => configError
                /\ create' = [create EXCEPT ![c].pc = "dropToken",
                                            ![c].healthy = configError]
     /\ CreateUnchanged /\ UNCHANGED <<objects, cluster>>

\* setStatus: patch new over c's copy, retrying a lost race on a cached read
\* as long as that read shows the same claim.  retry.DefaultBackoff bounds the
\* retries: giving up while the cache still lags counts as a failure.
SetStatus(c, new, ok, fail) ==
  LET w == Creator(c)
      h == create[c].host
      m == Patched(w, h, new)
  IN /\ \/ /\ w \in fresh[h]
           /\ IF m = sshHost[h]
              THEN copy' = [copy EXCEPT ![w][h] = m] /\ UNCHANGED <<sshHost, fresh>>
              ELSE Write(w, h, m)
           /\ GotoCreate(c, ok)
           /\ NoFault
        \/ /\ w \notin fresh[h]
           /\ copy[Cache][h].claim = copy[w][h].claim
           /\ ReadCached(w, {h})
           /\ \/ UNCHANGED create /\ NoFault
              \/ GotoCreate(c, fail) /\ Failure
        \/ /\ w \notin fresh[h]
           /\ copy[Cache][h].claim # copy[w][h].claim
           /\ copy' = [copy EXCEPT ![w][h] = new]
           /\ GotoCreate(c, fail)
           /\ UNCHANGED <<sshHost, fresh, bounds>>
        \/ /\ PatchError(w, h, new)
           /\ GotoCreate(c, fail)
     /\ CreateUnchanged /\ UNCHANGED cluster

Own(c) == copy[Creator(c)][create[c].host]

SetInstalled(c) ==
  /\ create[c].pc = "setInstalled"
  /\ SetStatus(c, [Own(c) EXCEPT !.installed = TRUE], "mint", "dropToken")

\* Token ids are random: a new one is equal to none still stored anywhere.
FreshTokens ==
  TokenIDs \ (tokens \cup {sshHost[h].token : h \in Hosts}
                     \cup {copy[w][h].token : w \in Actors, h \in Hosts}
                     \cup {create[c].token : c \in NodeClaims}
                     \cup {probe[h].new.token : h \in Hosts}
                     \cup {kubelet[h].token : h \in
                             {i \in Hosts : kubelet[i] \notin
                                {NoKubelet, ForeignKubelet}}})

CreateToken(c) ==
  /\ create[c].pc = "mint"
  /\ \/ /\ \E t \in FreshTokens :
             /\ tokens' = tokens \cup {t}
             /\ create' = [create EXCEPT ![c].pc = "record", ![c].token = t]
        /\ NoFault
     \/ /\ Fault
        /\ GotoCreate(c, "dropToken")
        /\ tokens' \in {tokens} \cup {tokens \cup {t} : t \in FreshTokens}
  /\ CreateUnchanged /\ UNCHANGED <<objects, kubelet, nodes>>

RecordToken(c) ==
  /\ create[c].pc = "record"
  /\ SetStatus(c, [Own(c) EXCEPT !.token = create[c].token], "join", "discard")

\* The join phase starts a kubelet with the minted token.  It may fail after
\* it has, and as a configError (nothing ran) it leaves the host healthy.
Join(c) ==
  LET h == create[c].host
      joined == [kubelet EXCEPT ![h] = [claim |-> c, token |-> create[c].token,
                                        cert |-> FALSE]]
  IN /\ create[c].pc = "join"
     /\ \/ /\ kubelet' = joined
           /\ GotoCreate(c, "setProviderID")
           /\ NoFault
        \/ /\ Failure
           /\ kubelet' \in {kubelet, joined}
           /\ GotoCreate(c, "discard")
        \/ /\ Failure
           /\ UNCHANGED kubelet
           /\ create' = [create EXCEPT ![c].pc = "discard", ![c].healthy = TRUE]
     /\ CreateUnchanged /\ UNCHANGED <<objects, tokens, nodes>>

\* A failing SetProviderID returns without releasing the host.
SetProviderID(c) ==
  /\ create[c].pc = "setProviderID"
  /\ SetStatus(c, [Own(c) EXCEPT !.pid = TRUE], "markInUse", "failed")

\* A failing MarkInUse is logged: the launch has succeeded.
MarkInUse(c) ==
  /\ create[c].pc = "markInUse"
  /\ SetStatus(c, [Own(c) EXCEPT !.state = "InUse"], "launched", "launched")

\* Mutant: the Secret is left alone.
DropTokenNot(t) == UNCHANGED tokens /\ NoFault

\* A token Secret is deleted; the failure is logged and ignored.
DropToken(t) ==
  \/ tokens' = tokens \ {t} /\ NoFault
  \/ t \in tokens /\ Fault /\ UNCHANGED tokens

\* deleteToken: delete the minted Secret, then clear the record if there is one.
DiscardToken(c) ==
  /\ create[c].pc = "discard"
  /\ DropToken(create[c].token)
  /\ create' = [create EXCEPT ![c].token = NoToken,
                  ![c].pc = IF Own(c).token = NoToken THEN "dropToken"
                                                      ELSE "forget"]
  /\ CreateUnchanged /\ UNCHANGED <<objects, kubelet, nodes>>

ForgetToken(c) ==
  /\ create[c].pc = "forget"
  /\ SetStatus(c, [Own(c) EXCEPT !.token = NoToken], "dropToken", "dropToken")

\* release: delete the recorded token, then Release with one CAS whose failure
\* is only logged.
ReleaseToken(c) ==
  /\ create[c].pc = "dropToken"
  /\ DropToken(Own(c).token)
  /\ GotoCreate(c, "release")
  /\ CreateUnchanged /\ UNCHANGED <<objects, kubelet, nodes>>

ReleaseHost(c) ==
  LET w   == Creator(c)
      h   == create[c].host
      new == Released(copy[w][h], create[c].healthy)
  IN /\ create[c].pc = "release"
     /\ GotoCreate(c, "failed")
     /\ \/ w \in fresh[h] /\ Write(w, h, Patched(w, h, new)) /\ NoFault
        \/ w \notin fresh[h] /\ UNCHANGED objects /\ NoFault
        \/ PatchError(w, h, new)
     /\ CreateUnchanged /\ UNCHANGED cluster

\* Create returns to karpenter core, which records the providerID of a
\* launched NodeClaim and deletes one that met insufficient capacity.
CreateReturn(c) ==
  LET pc == create[c].pc
  IN /\ pc \in {"launched", "failed", "exhausted"}
     /\ nodeClaim' =
          IF pc = "launched" /\ Exists(c)
          THEN [nodeClaim EXCEPT ![c].host = create[c].host]
          ELSE IF pc = "exhausted" /\ nodeClaim[c].phase = "live"
          THEN [nodeClaim EXCEPT ![c].phase = "deleting"]
          ELSE nodeClaim
     /\ create' = [create EXCEPT ![c] = CreateIdle]
     /\ Forget(Creator(c))
     /\ UNCHANGED <<delete, probe, cluster, bounds, probes>>

CreateStep(c) ==
  \/ CreateBegin(c)   \/ ClaimHost(c)     \/ Prepare(c)     \/ SetInstalled(c)
  \/ CreateToken(c)   \/ RecordToken(c)   \/ Join(c)        \/ SetProviderID(c)
  \/ MarkInUse(c)     \/ DiscardToken(c)  \/ ForgetToken(c) \/ ReleaseToken(c)
  \/ ReleaseHost(c)   \/ CreateReturn(c)

-----------------------------------------------------------------------------
(* Delete: terminate a NodeClaim.                                          *)

GotoDelete(c, pc) == delete' = [delete EXCEPT ![c].pc = pc]
DeleteUnchanged   == UNCHANGED <<nodeClaim, create, probe, probes>>

\* karpenter core calls Delete until it reports the claim gone.  The host is
\* resolved by the recorded providerID and fenced by the cached claim.
DeleteBegin(c) ==
  LET h == nodeClaim[c].host
      holds == h # NoHost /\ ClaimHeldBy(copy[Cache][h], c)
  IN /\ nodeClaim[c].phase = "deleting"
     /\ create[c].pc = "idle" /\ delete[c].pc = "idle"
     /\ \/ /\ ~holds
           /\ nodeClaim' = [nodeClaim EXCEPT ![c].phase = "finalizing"]
           /\ UNCHANGED <<objects, delete>>
        \/ /\ holds
           /\ ReadCached(Deleter(c), {h})
           /\ delete' = [delete EXCEPT ![c].pc = "leave", ![c].host = h]
           /\ UNCHANGED nodeClaim
     /\ UNCHANGED <<create, probe, cluster, bounds, probes>>

Stopped(h) == [kubelet EXCEPT ![h] = NoKubelet]

\* LeaveHost stops whichever kubelet runs on the host; a failure may come
\* after it has.  A host that was never installed cannot be left.
LeaveHost(h, obj, ok) ==
  \/ obj.installed /\ ok /\ kubelet' = Stopped(h) /\ NoFault
  \/ obj.installed /\ ~ok /\ kubelet' \in {kubelet, Stopped(h)} /\ Failure
  \/ ~obj.installed /\ ~ok /\ UNCHANGED kubelet /\ NoFault

Leave(c) ==
  LET h == delete[c].host
  IN /\ delete[c].pc = "leave"
     /\ \E ok \in BOOLEAN :
          /\ LeaveHost(h, copy[Deleter(c)][h], ok)
          /\ delete' = [delete EXCEPT ![c].pc = "dropToken", ![c].leaveOK = ok]
     /\ DeleteUnchanged /\ UNCHANGED <<objects, tokens, nodes>>

DeleteToken(c) ==
  /\ delete[c].pc = "dropToken"
  /\ DropToken(copy[Deleter(c)][delete[c].host].token)
  /\ GotoDelete(c, "release")
  /\ DeleteUnchanged /\ UNCHANGED <<objects, kubelet, nodes>>

\* Whatever becomes of the CAS, core calls Delete again.
DeleteRelease(c) ==
  LET w == Deleter(c)
      h == delete[c].host
      m == Patched(w, h, Released(copy[w][h], delete[c].leaveOK))
  IN /\ delete[c].pc = "release"
     /\ delete' = [delete EXCEPT ![c] = DeleteIdle]
     /\ \/ w \in fresh[h] /\ WriteAndForget(w, h, m) /\ NoFault
        \/ w \notin fresh[h] /\ Forget(w) /\ NoFault
        \/ w \in fresh[h] /\ Fault /\ Forget(w)
     /\ DeleteUnchanged /\ UNCHANGED cluster

DeleteStep(c) ==
  DeleteBegin(c) \/ Leave(c) \/ DeleteToken(c) \/ DeleteRelease(c)

-----------------------------------------------------------------------------
(* hostprobe: one Reconcile per host at a time.                            *)

GotoProbe(h, pc)   == probe' = [probe EXCEPT ![h].pc = pc]
ToPatch(h, new)    == probe' = [probe EXCEPT ![h].pc = "patch", ![h].new = new]
ProbeReturns(h)    == probe' = [probe EXCEPT ![h] = ProbeIdle]
ProbeUnchanged     == UNCHANGED <<nodeClaim, create, delete, probes>>

\* Mutant: only a reused name counts, not a NodeClaim that no longer exists.
StaleByUID(ref) ==
  \E c \in NodeClaims : Exists(c) /\ c.name = ref.name /\ c.uid # ref.uid

\* The NodeClaim behind the reference is gone, or its name now belongs to
\* another object.
StaleClaim(ref) ==
  ~ \E c \in NodeClaims :
       /\ Exists(c) /\ c.name = ref.name
       /\ ref.uid = NoUID \/ c.uid = NoUID \/ ref.uid = c.uid

\* Mutant: the token is kept until the state says InUse.
SpentInUse(h, obj) == obj.token # NoToken /\ obj.state = "InUse" /\ nodes[h] # {}

\* The launch is over (providerID is set) and the host's Node has registered:
\* the recorded token can be collected.
Spent(h, obj) == obj.token # NoToken /\ obj.pid /\ nodes[h] # {}

\* Reconcile reads the host from the cache and applies the maintenance switch.
\* A host under maintenance is only patched.
ProbeBegin(h) ==
  /\ probe[h].pc = "idle"
  /\ IF MaxProbes = Unbounded THEN UNCHANGED probes
     ELSE probes < MaxProbes /\ probes' = probes + 1
  /\ ReadCached(Prober(h), {h})
  /\ UNCHANGED <<nodeClaim, create, delete, kubelet, nodes>>

ProbeMaintenance(h) ==
  LET new == Maintained(copy[Cache][h])
  IN /\ ProbeBegin(h)
     /\ new.state = "Maintenance"
     /\ ToPatch(h, new)
     /\ UNCHANGED tokens /\ NoFault

\* A held host: release a stale claim, collect the token of a registered node.
ProbeHeld(h) ==
  LET new   == Maintained(copy[Cache][h])
      stale == new.claim # NoClaim /\ StaleClaim(new.claim)
      spent == ~stale /\ Spent(h, new)
  IN /\ ProbeBegin(h)
     /\ new.state \in HeldStates
     /\ \/ /\ stale
           /\ DropToken(new.token)
           /\ ToPatch(h, Abandoned(new))
        \/ /\ spent
           /\ tokens' = tokens \ {new.token}
           /\ ToPatch(h, [new EXCEPT !.token = NoToken])
           /\ NoFault
        \/ /\ ~stale /\ ~spent
           /\ ToPatch(h, new)
           /\ UNCHANGED tokens /\ NoFault

\* Any other host is probed over SSH.
ProbeFree(h) ==
  LET new == Maintained(copy[Cache][h])
  IN /\ ProbeBegin(h)
     /\ NeedsProbe(new)
     /\ probe' = [probe EXCEPT ![h].pc = "ssh", ![h].new = new]
     /\ UNCHANGED tokens /\ NoFault

\* Probe the host over SSH.  Every outcome stamps lastProbeTime; an active
\* kubelet sends the facts out at once and on to the zombie guard.
ProbeSSH(h) ==
  LET w == Prober(h)
      Observe(state) == probe' = [probe EXCEPT ![h].pc = "patch",
                          ![h].new.state = state, ![h].beat = TRUE]
      facts == Patched(w, h, probe[h].new)
  IN /\ probe[h].pc = "ssh"
     /\ \/ Failure /\ Observe("Unhealthy") /\ UNCHANGED objects
        \/ /\ kubelet[h] = NoKubelet /\ NoFault
           /\ Observe("Available") /\ UNCHANGED objects
        \/ /\ kubelet[h] # NoKubelet /\ w \in fresh[h] /\ NoFault
           /\ Write(w, h, facts)
           /\ probe' = [probe EXCEPT ![h].pc = "zombie", ![h].new = facts]
        \/ /\ kubelet[h] # NoKubelet /\ w \notin fresh[h] /\ NoFault
           /\ Forget(w) /\ ProbeReturns(h)
     /\ ProbeUnchanged /\ UNCHANGED cluster

\* Mutant: without a Node the kubelet is taken for another cluster's.
ForeignWithoutNode(h, obj) == nodes[h] = {}

\* No Node, and this provider never installed anything on the host.
Foreign(h, obj) == nodes[h] = {} /\ ~obj.installed

\* handleZombie up to the Leaving CAS: park a foreign kubelet, fence our own.
\* An error of the CAS that hides a commit leaves the host Leaving.  On a host
\* found Leaving the patch is empty and keeps the version; here the cache may
\* trail after that one too.
HandleZombie(h) ==
  LET w   == Prober(h)
      own == copy[w][h]
      foreign == Foreign(h, own)
      leaving == Patched(w, h, [own EXCEPT !.state = "Leaving"])
  IN /\ probe[h].pc = "zombie"
     /\ \/ /\ own.claim = NoClaim /\ foreign
           /\ ToPatch(h, [own EXCEPT !.state = "Unhealthy"])
           /\ UNCHANGED objects /\ NoFault
        \/ /\ own.claim = NoClaim /\ ~foreign /\ w \in fresh[h]
           /\ Write(w, h, leaving)
           /\ \E n \in IF nodes[h] = {} THEN {NoNode} ELSE nodes[h] :
                probe' = [probe EXCEPT ![h].pc = "leave", ![h].node = n,
                                       ![h].new = leaving]
           /\ NoFault
        \/ /\ own.claim = NoClaim /\ ~foreign /\ w \in fresh[h] /\ Fault
           /\ WriteAndForget(w, h, leaving) /\ ProbeReturns(h)
        \/ /\ own.claim # NoClaim \/ (~foreign /\ w \notin fresh[h])
           /\ Forget(w) /\ ProbeReturns(h) /\ NoFault
     /\ ProbeUnchanged /\ UNCHANGED cluster

\* The guard's leave.  beat is spent: the facts patch carried lastProbeTime.
ZombieLeave(h) ==
  LET own == copy[Prober(h)][h]
      Done(state) == ToPatch(h, [own EXCEPT !.state = state])
  IN /\ probe[h].pc = "leave"
     /\ \E ok \in BOOLEAN :
          /\ LeaveHost(h, own, ok)
          /\ IF ~ok THEN Done("Unhealthy")
             ELSE IF probe[h].node = NoNode THEN Done("Available")
             ELSE GotoProbe(h, "deleteNode")
     /\ ProbeUnchanged /\ UNCHANGED <<objects, tokens, nodes>>

\* The Node goes only after its kubelet is down.
ZombieDeleteNode(h) ==
  /\ probe[h].pc = "deleteNode"
  /\ nodes' = [nodes EXCEPT ![h] = @ \ {probe[h].node}]
  /\ ToPatch(h, [copy[Prober(h)][h] EXCEPT !.state = "Available"])
  /\ ProbeUnchanged /\ UNCHANGED <<objects, tokens, kubelet, bounds>>

\* Mutant: every recheck is written.
StatusAlwaysChanged(h) == TRUE

\* The status differs from the one read; a probe always moves lastProbeTime.
StatusChanged(h) ==
  probe[h].beat \/ WithReady(probe[h].new) # copy[Prober(h)][h]

\* patchStatus: derive Ready, skip an unchanged status, else one CAS.
PatchStatus(h) ==
  LET w   == Prober(h)
      new == WithReady(probe[h].new)
  IN /\ probe[h].pc = "patch"
     /\ ProbeReturns(h)
     /\ \/ /\ StatusChanged(h) /\ w \in fresh[h]
           /\ WriteAndForget(w, h, Patched(w, h, new))
        \/ /\ ~(StatusChanged(h) /\ w \in fresh[h])
           /\ Forget(w)
     /\ ProbeUnchanged /\ UNCHANGED <<cluster, bounds>>

\* Any other API error makes Reconcile return early, to be run again.
ProbeError(h) ==
  /\ probe[h].pc \in {"zombie", "deleteNode", "patch"}
  /\ Fault
  /\ Forget(Prober(h)) /\ ProbeReturns(h)
  /\ ProbeUnchanged /\ UNCHANGED cluster

ProbeStep(h) ==
  \/ ProbeMaintenance(h) \/ ProbeHeld(h)   \/ ProbeFree(h) \/ ProbeSSH(h)
  \/ HandleZombie(h)     \/ ZombieLeave(h) \/ ZombieDeleteNode(h)
  \/ PatchStatus(h)

-----------------------------------------------------------------------------
(* karpenter core, the hosts, the operator and the process.                *)

\* The name of a NodeClaim is unique among the existing ones.
CreateNodeClaim(c) ==
  /\ nodeClaim[c].phase = "absent"
  /\ \A d \in NodeClaims : d.name = c.name => ~Exists(d)
  /\ nodeClaim' = [nodeClaim EXCEPT ![c].phase = "live"]
  /\ UNCHANGED <<objects, workers, cluster, bounds, probes>>

DeleteNodeClaim(c) ==
  /\ nodeClaim[c].phase = "live"
  /\ nodeClaim' = [nodeClaim EXCEPT ![c].phase = "deleting"]
  /\ UNCHANGED <<objects, workers, cluster, bounds, probes>>

\* Core deletes the Node once the instance is gone, then lets the NodeClaim go.
FinalizeNodeClaim(c) ==
  /\ nodeClaim[c].phase = "finalizing"
  /\ nodeClaim' = [nodeClaim EXCEPT ![c] = [phase |-> "gone", host |-> NoHost]]
  /\ nodes' = [h \in Hosts |-> nodes[h] \ {c}]
  /\ UNCHANGED <<objects, workers, tokens, kubelet, bounds, probes>>

\* An operator strips the finalizer: the NodeClaim goes without a Delete.
ForceDeleteNodeClaim(c) ==
  /\ Exists(c) /\ Fault
  /\ nodeClaim' = [nodeClaim EXCEPT ![c] = [phase |-> "gone", host |-> NoHost]]
  /\ UNCHANGED <<objects, workers, cluster, probes>>

\* Core garbage-collects the Node of a NodeClaim that no longer exists.
CollectNode(h, c) ==
  /\ c \in nodes[h] /\ nodeClaim[c].phase = "gone"
  /\ nodes' = [nodes EXCEPT ![h] = @ \ {c}]
  /\ UNCHANGED <<objects, nodeClaim, workers, tokens, kubelet, bounds, probes>>

\* A kubelet with a live token or a certificate registers its Node.
Register(h) ==
  /\ kubelet[h] \notin {NoKubelet, ForeignKubelet}
  /\ kubelet[h].claim \notin nodes[h]
  /\ kubelet[h].cert \/ kubelet[h].token \in tokens
  /\ kubelet' = [kubelet EXCEPT ![h].cert = TRUE, ![h].token = NoToken]
  /\ nodes' = [nodes EXCEPT ![h] = @ \cup {kubelet[h].claim}]
  /\ UNCHANGED <<objects, nodeClaim, workers, tokens, bounds, probes>>

\* An operator takes a foreign kubelet, and its Node if any, off the host.
RemoveForeign(h) ==
  /\ kubelet[h] = ForeignKubelet
  /\ kubelet' = Stopped(h)
  /\ nodes' = [nodes EXCEPT ![h] = @ \ {ForeignNode}]
  /\ UNCHANGED <<objects, nodeClaim, workers, tokens, bounds, probes>>

\* An operator sets or clears the maintenance annotation.
Annotate(h) ==
  /\ Fault
  /\ sshHost' = [sshHost EXCEPT ![h].maint = ~@]
  /\ fresh' = [fresh EXCEPT ![h] = {}]
  /\ UNCHANGED <<copy, nodeClaim, workers, cluster, probes>>

\* The controller process restarts: every call is lost, the informer re-lists.
Crash ==
  /\ Fault
  /\ copy' = [w \in Actors |-> IF w = Cache THEN sshHost ELSE NoCopies]
  /\ fresh' = [h \in Hosts |-> {Cache}]
  /\ create' = [c \in NodeClaims |-> CreateIdle]
  /\ delete' = [c \in NodeClaims |-> DeleteIdle]
  /\ probe' = [h \in Hosts |-> ProbeIdle]
  /\ UNCHANGED <<sshHost, nodeClaim, cluster, probes>>

-----------------------------------------------------------------------------
CoreStep(c) ==
  \/ CreateNodeClaim(c) \/ DeleteNodeClaim(c) \/ FinalizeNodeClaim(c)
  \/ ForceDeleteNodeClaim(c)

Next ==
  \/ \E c \in NodeClaims : CreateStep(c) \/ DeleteStep(c) \/ CoreStep(c)
  \/ \E h \in Hosts : \/ ProbeStep(h) \/ ProbeError(h) \/ Sync(h)
                      \/ Register(h) \/ RemoveForeign(h) \/ Annotate(h)
                      \/ \E c \in NodeClaims : CollectNode(h, c)
  \/ Crash

Spec == Init /\ [][Next]_vars

\* Workers that have begun go on, karpenter retries Create and Delete, the
\* probe is requeued, and the informer and core's finalizer make progress.
\* Nothing is assumed of the operator, of faults, failures or registration.
Fairness ==
  /\ \A c \in NodeClaims : /\ WF_vars(CreateStep(c)) /\ WF_vars(DeleteStep(c))
                           /\ WF_vars(FinalizeNodeClaim(c))
  /\ \A h \in Hosts : WF_vars(ProbeStep(h)) /\ WF_vars(Sync(h))

FairSpec == Spec /\ Fairness

-----------------------------------------------------------------------------
(* Safety.                                                                 *)

\* The claim reference and the state never drift apart, although Claim,
\* Release, MarkInUse, the probe's patches and the zombie guard write them from
\* different, possibly stale, copies: a host carries a claim exactly when it is
\* Claimed or InUse.
ClaimMatchesState ==
  \A h \in Hosts : sshHost[h].claim # NoClaim <=> sshHost[h].state \in HeldStates

\* Create runs the join phase, and everything after it, only on a host that
\* carries its claim on the API server, however old the copy it began with:
\* the token record is written under the optimistic lock right before.
JoinOwnsHost ==
  \A c \in NodeClaims :
    create[c].pc \in {"join", "setProviderID", "markInUse"} /\ Exists(c)
      => sshHost[create[c].host].claim = c

\* A NodeClaim that core has recorded as launched keeps its host, and its
\* providerID on it, until core starts to delete it: neither the probe nor a
\* late step of any Create or Delete takes the host away.
LaunchedKeepsHost ==
  \A c \in NodeClaims :
    LET h == nodeClaim[c].host
    IN nodeClaim[c].phase = "live" /\ h # NoHost
         => sshHost[h].claim = c /\ sshHost[h].pid

\* While the zombie guard runs leave and deletes the Node, the host is Leaving
\* and unclaimed on the API server: the Leaving CAS keeps every launch out.
LeaveIsFenced ==
  \A h \in Hosts :
    probe[h].pc \in {"leave", "deleteNode"}
      => sshHost[h].state = "Leaving" /\ sshHost[h].claim = NoClaim

\* Release clears the claim, the providerID and the token record together, and
\* no later write of the same launch brings one of them back.
ReleasedHostIsClean ==
  \A h \in Hosts :
    sshHost[h].claim = NoClaim => ~sshHost[h].pid /\ sshHost[h].token = NoToken

\* A NodeClaim holds at most one host: a retried Create resumes its claim.
AtMostOneHostPerClaim ==
  \A c \in NodeClaims : Cardinality({h \in Hosts : sshHost[h].claim = c}) <= 1

\* The probe collects a token only when the kubelet it was minted for no longer
\* needs it: a launched node without a certificate still has its token.
JoinTokenUsable ==
  \A h \in Hosts : \A c \in NodeClaims :
    /\ kubelet[h] \notin {NoKubelet, ForeignKubelet} /\ kubelet[h].claim = c
    /\ nodeClaim[c] = [phase |-> "live", host |-> h]
    => kubelet[h].cert \/ kubelet[h].token \in tokens

-----------------------------------------------------------------------------
(* Action properties.                                                      *)

\* No claim ever lands on a host that is annotated for maintenance, however far
\* the cache the candidates came from trails the annotation.
NoClaimUnderMaintenance ==
  [][\A h \in Hosts : sshHost[h].claim = NoClaim /\ sshHost'[h].claim # NoClaim
                       => ~sshHost[h].maint]_vars

\* A host that goes back to the pool leaves no bootstrap token behind: when a
\* release commits, the Secret of the token recorded on the host is deleted.
ReleaseDeletesToken ==
  [][\A h \in Hosts : sshHost[h].claim # NoClaim /\ sshHost'[h].claim = NoClaim
                       => sshHost[h].token \notin tokens]_vars

\* The leave of a Delete never stops the kubelet of another NodeClaim.
SuccessorNodeSafe ==
  [][\A c \in NodeClaims : \A h \in Hosts :
       /\ delete[c].pc = "leave" /\ delete'[c].pc # "leave"
       /\ kubelet[h] # kubelet'[h] /\ kubelet[h] # ForeignKubelet
       => kubelet[h].claim = c]_vars

-----------------------------------------------------------------------------
(* The lease the pool implements.                                          *)

LeasePhase(c) ==
  CASE nodeClaim[c].phase = "live" /\ nodeClaim[c].host # NoHost -> "launched"
    [] nodeClaim[c].phase = "finalizing" -> "deleting"
    [] OTHER -> nodeClaim[c].phase

Lease == INSTANCE HostLease WITH
  holder <- [h \in Hosts |-> sshHost[h].claim],
  phase  <- [c \in NodeClaims |-> LeasePhase(c)]

\* Through all caches, conflicts, retries and crashes, the claim references on
\* the API server behave as the lease promises.
ImplementsLease == Lease!Spec

-----------------------------------------------------------------------------
(* Liveness, under Fairness.                                               *)

\* A host whose NodeClaim is gone is taken back.
StaleClaimReleased ==
  \A h \in Hosts : \A c \in NodeClaims :
    (sshHost[h].claim = c /\ nodeClaim[c].phase = "gone") ~> sshHost[h].claim # c

\* No host is stuck in Leaving.
LeavingResolves ==
  \A h \in Hosts : (sshHost[h].state = "Leaving") ~> (sshHost[h].state # "Leaving")

\* karpenter's Delete-until-gone ends.
DeletionCompletes ==
  \A c \in NodeClaims :
    (nodeClaim[c].phase = "deleting") ~> (nodeClaim[c].phase = "gone")

\* A launch ends: with a host, or with the NodeClaim on its way out.
LaunchSettles ==
  \A c \in NodeClaims :
    (nodeClaim[c] = [phase |-> "live", host |-> NoHost])
      ~> (nodeClaim[c] # [phase |-> "live", host |-> NoHost])

\* A token record does not outlive the join: it is collected once the node has
\* registered, or goes with the release.
TokensCollected ==
  \A h \in Hosts : \A t \in TokenIDs :
    (sshHost[h].token = t /\ sshHost[h].pid /\ nodes[h] # {})
      ~> (sshHost[h].token # t \/ nodes[h] = {})

\* A kubelet this provider started does not stay on an unclaimed host, unless
\* the host is withheld for maintenance.
ZombieDisconnected ==
  \A h \in Hosts :
    (sshHost[h].claim = NoClaim /\ kubelet[h] \notin {NoKubelet, ForeignKubelet})
      ~> (kubelet[h] = NoKubelet \/ sshHost[h].claim # NoClaim \/ sshHost[h].maint)

=============================================================================
