---------------------------- MODULE CloudProvider ----------------------------
(***************************************************************************)
(* The cloud provider interface between karpenter core and the pool, for   *)
(* the NodeClaims of one SSHNodeClass: Create with its readiness gate and  *)
(* the hash it stamps, Delete, and IsDrifted.  The life of a host is       *)
(* HostPool's subject; here a host is what its last join left on it.       *)
(*                                                                         *)
(* karpenter core is external: it creates NodeClaims while it believes the *)
(* class ready, calls Create until it succeeds or the error tells it to    *)
(* give up, and replaces NodeClaims reported drifted.                      *)
(***************************************************************************)
EXTENDS NodeClass

CONSTANTS
  Legacy,       \* NodeClaims launched by an earlier release
  NoHash,       \* the NodeClaim is not launched
  OldHash,      \* a hash of another algorithm version
  NoHost        \* no host stands behind the NodeClaim

ASSUME LegacyAssumption == Legacy \subseteq Claims

VARIABLES
  terminating,  \* NodeClaims with a deletionTimestamp
  hash,         \* the nodeclass-hash annotation of a launched NodeClaim
  host,         \* what the last join left on the NodeClaim's host
  create,       \* the Create call in progress for each NodeClaim
  poolReady,    \* core believes the class is ready and not being deleted
  drifted       \* NodeClaims IsDrifted has reported

providerVars == <<terminating, hash, host, create, poolReady, drifted>>
vars == <<classVars, providerVars>>

Hashes == 0 .. MaxEdits
Joined == [join : Hashes, installed : 0 .. MaxEdits]
CreateIdle == [pc |-> "idle", join |-> 0]

TypeOK ==
  /\ ClassTypeOK
  /\ terminating \subseteq claims /\ drifted \subseteq claims
  /\ hash \in [Claims -> Hashes \cup {NoHash, OldHash}]
  /\ host \in [Claims -> Joined \cup {NoHost}]
  /\ create \in [Claims -> [pc : {"idle", "join", "return"}, join : Hashes]]
  /\ poolReady \in BOOLEAN

\* The nodes of an earlier release were joined with the current spec.
Init ==
  /\ claims \in SUBSET Legacy
  /\ ClassInit
  /\ terminating = {} /\ drifted = {}
  /\ hash = [c \in Claims |-> IF c \in claims THEN OldHash ELSE NoHash]
  /\ host = [c \in Claims |-> IF c \in claims THEN [join |-> 0, installed |-> 0]
                              ELSE NoHost]
  /\ create = [c \in Claims |-> CreateIdle]
  /\ poolReady = FALSE

Launched(c) == c \in claims /\ hash[c] # NoHash

-----------------------------------------------------------------------------
(* Create.                                                                 *)

\* Mutant: a missing class is an ordinary error.
GateRetries(c) ==
  IF ~classCache.exists \/ classCache.ready # "True" THEN "CreateError"
  ELSE IF ~hostsCache THEN "InsufficientCapacity"
  ELSE "proceed"

\* What Create answers before it reaches for a host.
Gate(c) ==
  IF ~classCache.exists THEN "InsufficientCapacity"
  ELSE IF classCache.ready \in NotReady THEN "NodeClassNotReady"
  ELSE IF classCache.ready # "True" THEN "CreateError"
  ELSE IF ~classCache.selector THEN "ListError"    \* Ready is out of date
  ELSE IF ~hostsCache THEN "InsufficientCapacity"  \* no instance types
  ELSE "proceed"

\* Core deletes a NodeClaim for these errors and retries for all others.
GiveUp == {"InsufficientCapacity", "NodeClassNotReady"}

Create(c) ==
  /\ c \in claims \ terminating /\ hash[c] = NoHash /\ create[c].pc = "idle"
  /\ \/ /\ Gate(c) \in GiveUp
        /\ terminating' = terminating \cup {c}
        /\ UNCHANGED create
     \/ /\ Gate(c) = "proceed"
        /\ create' = [create EXCEPT ![c] = [pc |-> "join", join |-> classCache.join]]
        /\ UNCHANGED terminating
  /\ UNCHANGED <<classVars, hash, host, poolReady, drifted>>

\* The join, with the class as Create read it and the profile as it is now.  A
\* profile that is missing or does not render is a CreateError; so is a host
\* that fails.
Join(c) ==
  /\ create[c].pc = "join"
  /\ \/ /\ profileCache.exists /\ profileCache.valid
        /\ host' = [host EXCEPT ![c] = [join |-> create[c].join,
                                        installed |-> profileCache.version]]
        /\ create' = [create EXCEPT ![c].pc = "return"]
        /\ UNCHANGED faults
     \/ /\ ~(profileCache.exists /\ profileCache.valid)
        /\ create' = [create EXCEPT ![c] = CreateIdle]
        /\ UNCHANGED <<host, faults>>
     \/ /\ Fault
        /\ create' = [create EXCEPT ![c] = CreateIdle]
        /\ UNCHANGED host
  /\ UNCHANGED <<world, caches, claims, claimsCache, queued, work, edits,
                 terminating, hash, poolReady, drifted>>

\* Mutant: the stamp is taken from the class as it is when Create returns.
StampNow(c) == classCache.join

\* JoinHash of the class Create was called with.
Stamp(c) == create[c].join

\* Create returns and core records the launch and the annotations, or the
\* process dies before it does and Create is called again.
Return(c) ==
  /\ create[c].pc = "return"
  /\ create' = [create EXCEPT ![c] = CreateIdle]
  /\ \/ hash' = [hash EXCEPT ![c] = Stamp(c)] /\ UNCHANGED faults
     \/ Fault /\ UNCHANGED hash
  /\ UNCHANGED <<world, caches, claims, claimsCache, queued, work, edits,
                 terminating, host, poolReady, drifted>>

-----------------------------------------------------------------------------
(* Drift and deletion.                                                     *)

\* Mutant: a hash of another algorithm version is compared all the same.
HashComparable(h) == TRUE

\* The NodeClaim carries a hash of this algorithm version.
CurrentHash(h) == h # OldHash

\* IsDrifted: the install marker of the host against the profile, then the
\* stamp against the class.  It fails, and reports nothing, when the class or
\* the profile cannot be read.
Drift(c) ==
  /\ host[c] # NoHost
  /\ classCache.exists /\ profileCache.exists
  /\ \/ host[c].installed # profileCache.version
     \/ CurrentHash(hash[c]) /\ hash[c] # classCache.join

IsDrifted(c) ==
  /\ Launched(c) /\ c \notin drifted \cup terminating
  /\ Drift(c)
  /\ drifted' = drifted \cup {c}
  /\ UNCHANGED <<classVars, terminating, hash, host, create, poolReady>>

\* Core replaces a drifted NodeClaim, or the NodePool goes with its class.
Disrupt(c) ==
  /\ Launched(c) /\ c \notin terminating
  /\ c \in drifted \/ ~poolReady
  /\ terminating' = terminating \cup {c}
  /\ UNCHANGED <<classVars, hash, host, create, poolReady, drifted>>

\* Delete leaves and releases the host of a launched NodeClaim, by the host's
\* own marker and without the class; a Release that fails is returned as an
\* error.  Core calls it until it answers NotFound, which it does at once for a
\* NodeClaim without a providerID, and then removes the finalizer.
Delete(c) ==
  /\ c \in terminating /\ create[c].pc = "idle"
  /\ \/ /\ hash[c] # NoHash /\ host[c] # NoHost
        /\ \/ host' = [host EXCEPT ![c] = NoHost] /\ UNCHANGED faults
           \/ Fault /\ UNCHANGED host
        /\ UNCHANGED <<claims, terminating, drifted, hash>>
     \/ /\ hash[c] = NoHash \/ host[c] = NoHost
        /\ claims' = claims \ {c}
        /\ terminating' = terminating \ {c}
        /\ drifted' = drifted \ {c}
        /\ hash' = [hash EXCEPT ![c] = NoHash]
        /\ host' = [host EXCEPT ![c] = NoHost]
        /\ UNCHANGED faults
  /\ UNCHANGED <<world, caches, claimsCache, queued, work, edits, create,
                 poolReady>>

-----------------------------------------------------------------------------
(* karpenter core.                                                         *)

\* The NodePool's readiness follows the class.
ObserveClass ==
  /\ poolReady # (class.exists /\ ~class.deleting /\ class.ready = "True")
  /\ poolReady' = ~poolReady
  /\ UNCHANGED <<classVars, terminating, hash, host, create, drifted>>

Provision(c) ==
  /\ poolReady /\ c \notin claims
  /\ claims' = claims \cup {c}
  /\ UNCHANGED <<world, caches, claimsCache, queued, work, Bounds, providerVars>>

Call(c) == Create(c) \/ Join(c) \/ Return(c) \/ IsDrifted(c) \/ Delete(c)

Next ==
  \/ ClassNext /\ UNCHANGED providerVars
  \/ ObserveClass
  \/ \E c \in Claims : Call(c) \/ Disrupt(c) \/ Provision(c)

Spec == Init /\ [][Next]_vars

\* The reconciler and the caches keep up, core keeps calling, and a drifted
\* NodeClaim is eventually disrupted.  Nothing obliges core to provision, the
\* operator to edit, or anything to fail.
Fairness ==
  /\ WF_vars((Reconcile \/ AddFinalizer \/ RemoveFinalizer \/ PatchStatus)
             /\ UNCHANGED providerVars)
  /\ WF_vars(SyncClass /\ UNCHANGED providerVars)
  /\ WF_vars(SyncProfile /\ UNCHANGED providerVars)
  /\ WF_vars(SyncHosts /\ UNCHANGED providerVars)
  /\ WF_vars(SyncClaims /\ UNCHANGED providerVars)
  /\ WF_vars(ObserveClass)
  /\ \A c \in Claims :
       /\ WF_vars(Create(c)) /\ WF_vars(Join(c) \/ Return(c))
       /\ WF_vars(IsDrifted(c)) /\ WF_vars(Delete(c))
       /\ WF_vars(c \in drifted /\ Disrupt(c))

FairSpec == Spec /\ Fairness

-----------------------------------------------------------------------------
(* Properties.                                                             *)

\* Karpenter never replaces a node for nothing: a NodeClaim reported drifted
\* was joined with other join fields or another profile version than the class
\* and profile now have, never because only scheduling fields, the hash
\* algorithm or a retried Create differ (cloudprovider.go:192).  An edit that
\* restores an earlier value is not among the edits here: drift read from a
\* cache that has not seen it would be out of date.
DriftIsReal ==
  \A c \in drifted : host[c] # NoHost =>
     host[c].join # class.join \/ host[c].installed # profile.version

\* Readiness converges: once nobody edits, the Ready condition of a class that
\* is not being deleted is what its profile and hosts warrant, though the
\* status patch has no lock and is skipped when a stale copy already carries
\* the same status (nodeclass.go:132).
ReadySettles ==
  <>[](class.exists /\ ~class.deleting =>
         class.ready = Verdict(class, profile, hosts))

\* The finalizer lets go: a deleted class none of whose NodeClaims is left
\* does not stay (nodeclass.go:106).
ClassDeletionCompletes ==
  []<>~(class.exists /\ class.deleting /\ claims = {})

\* Every edit rolls out: once nobody edits, each launched node was joined with
\* the class's join fields and the profile's version, whatever Create calls
\* were under way or retried while the edits were made (cloudprovider.go:112).
\* A node stamped by another hash version follows profile versions only.
EditRollsOut ==
  <>[](class.exists /\ profile.exists =>
         \A c \in Claims : Launched(c) /\ host[c] # NoHost =>
            /\ host[c].installed = profile.version
            /\ hash[c] # OldHash => host[c].join = class.join)

\* No NodeClaim is stranded by its class: one that is not launched is launched
\* or given up, and one being deleted goes away although a Delete may fail, also
\* when the class went first because the finalizer missed it (nodeclass.go:124).
\* The finalizer is there because "removing the class first would strand their
\* Delete path" (nodeclass.go:104), but Delete never looks at the class.  The
\* exception is a class being deleted: its Ready condition is no longer updated,
\* and Create trusts it until core's launch timeout.
NoClaimStranded ==
  \A c \in Claims :
     /\ []<>~(c \in claims /\ hash[c] = NoHash /\ ~(class.exists /\ class.deleting))
     /\ []<>(c \notin terminating)

=============================================================================
