------------------------ MODULE CloudProviderProofs -------------------------
(***************************************************************************)
(* Types, and why a node reported drifted really is out of date, for any   *)
(* NodeClaims and any number of edits and failures.  Join fields and       *)
(* profile versions only go up, a cache only catches up, and what a host   *)
(* was joined with or a NodeClaim is stamped with was read from a cache:   *)
(* so a difference can only mean that the host is behind.                  *)
(***************************************************************************)
EXTENDS CloudProvider, TLAPS

WorkType == [pc : {"idle", "addFinalizer", "patch", "removeFinalizer"},
             copy : ClassObject, fresh : BOOLEAN, verdict : ReadyStatus]

\* A class whose Ready condition has been or is about to be set has the
\* finalizer for as long as it exists.
FinalizerOK ==
  \/ classCache.finalizer \/ work.pc = "patch" \/ class.ready # "Unknown"
  => class.finalizer \/ ~class.exists

\* An edit raises a value by one at most, and the caches lag behind.
VersionsOK ==
  /\ class.join <= edits /\ classCache.join <= class.join
  /\ profile.version <= edits /\ profileCache.version <= profile.version

ClassInv == ClassTypeOK /\ FinalizerOK /\ VersionsOK

\* What the steps of the reconciler, the caches and the operator may do to the
\* values a join is rendered from.
Advance ==
  /\ class.join <= class'.join /\ classCache.join <= classCache'.join
  /\ profile.version <= profile'.version
  /\ profileCache.version <= profileCache'.version

\* The NodeClaim c and its host: what it was joined with was in the caches, its
\* stamp is what it was joined with, and a drifted one is behind.
ClaimOK(c) ==
  /\ create[c].pc # "idle" => create[c].join <= classCache.join
  /\ hash[c] # NoHash => create[c].pc = "idle"
  /\ host[c] # NoHost => /\ host[c].join <= classCache.join
                         /\ host[c].installed <= profileCache.version
  /\ create[c].pc = "return" => host[c].join = create[c].join
  /\ hash[c] \notin {NoHash, OldHash} /\ host[c] # NoHost => host[c].join = hash[c]
  /\ c \in drifted => hash[c] # NoHash
  /\ c \in drifted /\ host[c] # NoHost => \/ host[c].join < class.join
                                         \/ host[c].installed < profile.version

ProviderTypeOK ==
  /\ terminating \subseteq claims /\ drifted \subseteq claims
  /\ hash \in [Claims -> Hashes \cup {NoHash, OldHash}]
  /\ host \in [Claims -> Joined \cup {NoHost}]
  /\ create \in [Claims -> [pc : {"idle", "join", "return"}, join : Hashes]]
  /\ poolReady \in BOOLEAN

ProviderInv == ClassInv /\ ProviderTypeOK /\ \A c \in Claims : ClaimOK(c)

-----------------------------------------------------------------------------
(* The class, its profile and their caches.                                *)

\* The conjuncts of ClassTypeOK that are plain types.
LEMMA ClassTypes ==
  ASSUME ClassInv
  PROVE  /\ class \in ClassObject /\ classCache \in ClassObject
         /\ profile \in ProfileObject /\ profileCache \in ProfileObject
         /\ work \in WorkType
         /\ claims \subseteq Claims /\ claimsCache \subseteq Claims
         /\ edits \in 0 .. MaxEdits /\ faults \in 0 .. MaxFaults
         /\ class.join \in Nat /\ classCache.join \in Nat
         /\ profile.version \in Nat /\ profileCache.version \in Nat
<1>1. class \in ClassObject /\ classCache \in ClassObject
  BY DEF ClassInv, ClassTypeOK
<1>2. profile \in ProfileObject /\ profileCache \in ProfileObject
  BY DEF ClassInv, ClassTypeOK
<1>3. class.join \in Nat /\ classCache.join \in Nat
  BY <1>1, NodeClassBounds DEF ClassObject
<1>4. profile.version \in Nat /\ profileCache.version \in Nat
  BY <1>2, NodeClassBounds DEF ProfileObject
<1> QED  BY <1>1, <1>2, <1>3, <1>4 DEF ClassInv, ClassTypeOK, WorkType

\* The flags.
LEMMA ClassFlags ==
  ASSUME ClassInv
  PROVE  /\ classSynced \in BOOLEAN /\ hosts \in BOOLEAN
         /\ hostsCache \in BOOLEAN /\ queued \in BOOLEAN
BY DEF ClassInv, ClassTypeOK

\* The values are compared as numbers.
LEMMA NoAdvance ==
  ASSUME ClassInv, class'.join = class.join, classCache'.join = classCache.join,
         profile' = profile, profileCache' = profileCache
  PROVE  Advance
BY ClassTypes DEF Advance

LEMMA IdleType == Idle \in WorkType /\ Idle.pc = "idle"
<1>1. NewClass \in ClassObject
  BY NodeClassBounds DEF NewClass, ClassObject, ReadyStatus
<1> QED  BY <1>1 DEF Idle, WorkType, ReadyStatus

\* Derive leaves the reconciler idle or about to patch.
LEMMA DeriveType ==
  ASSUME NEW c \in ClassObject, Derive(c)
  PROVE  work' \in WorkType /\ work'.pc \in {"idle", "patch"}
<1> DEFINE v == Verdict(c, profileCache, hostsCache)
<1>1. v \in ReadyStatus  BY DEF Verdict, ReadyStatus, NotReady
<1>2. work' = IF v = c.ready THEN Idle
              ELSE [Idle EXCEPT !.pc = "patch", !.copy = c, !.verdict = v]
  BY DEF Derive
<1> HIDE DEF v
<1> QED  BY <1>1, <1>2, IdleType, Zenon DEF WorkType

LEMMA ReconcileStep ==
  ASSUME ClassInv, Reconcile
  PROVE  ClassInv' /\ Advance
<1>1. /\ class' = class /\ profile' = profile /\ hosts' = hosts /\ classCache' = classCache
      /\ classSynced' = classSynced /\ profileCache' = profileCache
      /\ hostsCache' = hostsCache /\ claims' = claims /\ claimsCache' = claimsCache
      /\ edits' = edits /\ faults' = faults /\ queued' = FALSE
  BY DEF Reconcile, world, caches, Bounds
<1>2. /\ work' \in WorkType
      /\ work'.pc = "patch" => work.pc = "patch" \/ classCache.finalizer
  <2>1. CASE work' = work  BY <2>1, ClassTypes
  <2>2. CASE work' = IF Blocked THEN Idle
                     ELSE [Idle EXCEPT !.pc = "removeFinalizer",
                                       !.copy = classCache, !.fresh = classSynced]
    BY <2>2, ClassTypes, ClassFlags, IdleType, Zenon DEF WorkType
  <2>3. CASE work' = [Idle EXCEPT !.pc = "addFinalizer", !.copy = classCache,
                                  !.fresh = classSynced]
    BY <2>3, ClassTypes, ClassFlags, IdleType, Zenon DEF WorkType
  <2>4. CASE Protected(classCache) /\ Derive(classCache)
    BY <2>4, ClassTypes, DeriveType DEF Protected
  <2> QED  BY <2>1, <2>2, <2>3, <2>4 DEF Reconcile
<1>3. ClassTypeOK'
  BY <1>1, <1>2, Zenon DEF ClassInv, ClassTypeOK, WorkType
<1>4. FinalizerOK' /\ VersionsOK'
  BY <1>1, <1>2 DEF ClassInv, FinalizerOK, VersionsOK
<1> QED  BY <1>1, <1>3, <1>4, NoAdvance DEF ClassInv

\* The three writes: each changes the class but for its join fields.
LEMMA WriteStep ==
  ASSUME ClassInv, AddFinalizer \/ RemoveFinalizer \/ PatchStatus
  PROVE  ClassInv' /\ Advance
<1>1. /\ profile' = profile /\ hosts' = hosts /\ classCache' = classCache
      /\ profileCache' = profileCache /\ hostsCache' = hostsCache /\ claims' = claims
      /\ claimsCache' = claimsCache /\ edits' = edits /\ faults' = faults
  BY DEF AddFinalizer, RemoveFinalizer, PatchStatus, Bounds
<1>2. /\ classSynced' \in BOOLEAN /\ queued' \in BOOLEAN
  BY ClassFlags, Zenon DEF AddFinalizer, RemoveFinalizer, PatchStatus
<1>3. CASE AddFinalizer
  <2>1. /\ class' \in ClassObject /\ class'.join = class.join
        /\ class'.exists = class.exists /\ class'.ready = class.ready
        /\ class.finalizer => class'.finalizer
        /\ work'.pc = "patch" => class'.finalizer
    BY <1>3, ClassTypes, IdleType, Zenon DEF AddFinalizer, ClassObject
  <2>2. work' \in WorkType
    <3>1. CASE work.fresh
      BY <1>3, <2>1, <3>1, DeriveType DEF AddFinalizer
    <3>2. CASE ~work.fresh
      BY <1>3, <3>2, IdleType DEF AddFinalizer
    <3> QED  BY <3>1, <3>2
  <2>3. FinalizerOK'
    BY <1>1, <2>1 DEF ClassInv, FinalizerOK
  <2> QED  BY <1>1, <1>2, <2>1, <2>2, <2>3, NoAdvance
           DEF ClassInv, ClassTypeOK, FinalizerOK, VersionsOK, WorkType
<1>4. CASE RemoveFinalizer
  <2>1. /\ class' \in ClassObject /\ class'.join = class.join /\ work' = Idle
        /\ class' = class \/ ~class'.exists
    BY <1>4, ClassTypes, Zenon DEF RemoveFinalizer, ClassObject
  <2>2. FinalizerOK'
    BY <1>1, <2>1, IdleType DEF ClassInv, FinalizerOK
  <2> QED  BY <1>1, <1>2, <2>1, <2>2, IdleType, NoAdvance
           DEF ClassInv, ClassTypeOK, FinalizerOK, VersionsOK, WorkType
<1>5. CASE PatchStatus
  <2>1. work.pc = "patch" /\ work.verdict \in ReadyStatus /\ work' = Idle
    BY <1>5, ClassTypes DEF PatchStatus, WorkType
  <2>2. /\ class' \in ClassObject /\ class'.join = class.join
        /\ class'.exists = class.exists /\ class'.finalizer = class.finalizer
    BY <1>5, <2>1, ClassTypes DEF PatchStatus, ClassObject
  <2>3. FinalizerOK'
    BY <2>1, <2>2 DEF ClassInv, FinalizerOK
  <2> QED  BY <1>1, <1>2, <2>1, <2>2, <2>3, IdleType, NoAdvance
           DEF ClassInv, ClassTypeOK, FinalizerOK, VersionsOK, WorkType
<1> QED  BY <1>3, <1>4, <1>5

\* A failed write and a restart give up the work in progress; a restart reads
\* everything anew.
LEMMA FailStep ==
  ASSUME ClassInv, WriteFails \/ Restart
  PROVE  ClassInv' /\ Advance
<1>1. /\ class' = class /\ profile' = profile /\ hosts' = hosts /\ claims' = claims
      /\ edits' = edits /\ work' = Idle /\ faults' \in 0 .. MaxFaults
  BY ClassTypes, NodeClassBounds DEF WriteFails, Restart, Fault, world
<1>2. /\ queued' \in BOOLEAN /\ classSynced' \in BOOLEAN /\ hostsCache' \in BOOLEAN
  BY ClassTypes, ClassFlags, Zenon DEF WriteFails, Restart, caches, ClassObject
<1>3. /\ classCache' \in {class, classCache} /\ profileCache' \in {profile, profileCache}
      /\ claimsCache' \in {claims, claimsCache}
  BY DEF WriteFails, Restart, caches
<1>4. ClassTypeOK'
  BY <1>1, <1>2, <1>3, IdleType DEF ClassInv, ClassTypeOK, WorkType
<1>5. FinalizerOK'
  BY <1>1, <1>3, IdleType DEF ClassInv, FinalizerOK
<1>6. VersionsOK' /\ Advance
  BY <1>1, <1>3, ClassTypes DEF ClassInv, VersionsOK, Advance
<1> QED  BY <1>4, <1>5, <1>6 DEF ClassInv

\* A cache catches up.
LEMMA SyncStep ==
  ASSUME ClassInv, SyncClass \/ SyncProfile \/ SyncHosts \/ SyncClaims
  PROVE  ClassInv' /\ Advance
<1>1. /\ class' = class /\ profile' = profile /\ hosts' = hosts /\ claims' = claims
      /\ edits' = edits /\ work' = work /\ faults' = faults
  BY DEF SyncClass, SyncProfile, SyncHosts, SyncClaims, world, Bounds
<1>2. /\ queued' \in BOOLEAN /\ classSynced' \in BOOLEAN /\ hostsCache' \in BOOLEAN
  BY ClassFlags, Zenon DEF SyncClass, SyncProfile, SyncHosts, SyncClaims, caches
<1>3. /\ classCache' \in {class, classCache} /\ profileCache' \in {profile, profileCache}
      /\ claimsCache' \in {claims, claimsCache}
  BY DEF SyncClass, SyncProfile, SyncHosts, SyncClaims, caches
<1>4. ClassTypeOK'
  BY <1>1, <1>2, <1>3 DEF ClassInv, ClassTypeOK
<1>5. FinalizerOK'
  BY <1>1, <1>3 DEF ClassInv, FinalizerOK
<1>6. VersionsOK' /\ Advance
  BY <1>1, <1>3, ClassTypes DEF ClassInv, VersionsOK, Advance
<1> QED  BY <1>4, <1>5, <1>6 DEF ClassInv

\* An edit raises the join fields or the version by one at most.
LEMMA EditStep ==
  ASSUME ClassInv, OperatorEdits
  PROVE  ClassInv' /\ Advance
<1>1. /\ classCache' = classCache /\ profileCache' = profileCache
      /\ hostsCache' = hostsCache /\ claims' = claims /\ claimsCache' = claimsCache
      /\ queued' = queued /\ faults' = faults
      /\ edits' = edits + 1 /\ edits' \in 0 .. MaxEdits
  BY ClassTypes, NodeClassBounds DEF OperatorEdits
<1>2. /\ class' \in ClassObject /\ class.join <= class'.join /\ class'.join <= class.join + 1
      /\ class'.finalizer = class.finalizer /\ class'.ready = class.ready
      /\ class'.exists => class.exists
  <2>0. class \in ClassObject /\ class.join \in 0 .. MaxEdits /\ class.join + 1 \in 0 .. MaxEdits
    BY <1>1, ClassTypes, NodeClassBounds DEF ClassInv, VersionsOK
  <2>1. CASE class' = class  BY <2>0, <2>1, NodeClassBounds
  <2>2. CASE class' = [class EXCEPT !.join = @ + 1]
    BY <2>0, <2>2, NodeClassBounds DEF ClassObject
  <2>3. CASE class' = [class EXCEPT !.selector = ~@]
    <3>1. class' \in ClassObject  BY <2>0, <2>3, Zenon DEF ClassObject
    <3>2. /\ class'.join = class.join /\ class'.finalizer = class.finalizer
          /\ class'.ready = class.ready /\ class'.exists = class.exists
      BY <2>0, <2>3 DEF ClassObject
    <3> QED  BY <2>0, <3>1, <3>2, NodeClassBounds
  <2>4. CASE class' = [class EXCEPT !.deleting = TRUE, !.exists = class.finalizer]
             /\ class.exists
    <3>1. class' \in ClassObject  BY <2>0, <2>4, Zenon DEF ClassObject
    <3>2. /\ class'.join = class.join /\ class'.finalizer = class.finalizer
          /\ class'.ready = class.ready
      BY <2>0, <2>4 DEF ClassObject
    <3> QED  BY <2>0, <2>4, <3>1, <3>2, NodeClassBounds
  <2> QED  BY <2>1, <2>2, <2>3, <2>4 DEF OperatorEdits, Edited
<1>3. /\ profile' \in ProfileObject /\ profile.version <= profile'.version
      /\ profile'.version <= profile.version + 1
  <2>0. /\ profile \in ProfileObject /\ profile.version \in 0 .. MaxEdits
        /\ profile.version + 1 \in 0 .. MaxEdits
    BY <1>1, ClassTypes, NodeClassBounds DEF ClassInv, VersionsOK
  <2>1. CASE profile' = profile  BY <2>0, <2>1, NodeClassBounds
  <2>2. CASE profile' = [profile EXCEPT !.version = @ + 1, !.valid = TRUE]
    <3>1. profile' \in ProfileObject  BY <2>0, <2>2, Zenon DEF ProfileObject
    <3>2. profile'.version = profile.version + 1  BY <2>0, <2>2 DEF ProfileObject
    <3> QED  BY <2>0, <3>1, <3>2, NodeClassBounds
  <2>3. CASE profile' = [profile EXCEPT !.valid = ~@]
    <3>1. profile' \in ProfileObject  BY <2>0, <2>3, Zenon DEF ProfileObject
    <3>2. profile'.version = profile.version  BY <2>0, <2>3 DEF ProfileObject
    <3> QED  BY <2>0, <3>1, <3>2, NodeClassBounds
  <2>4. CASE profile' = [profile EXCEPT !.exists = ~@]
    <3>1. profile' \in ProfileObject  BY <2>0, <2>4, Zenon DEF ProfileObject
    <3>2. profile'.version = profile.version  BY <2>0, <2>4 DEF ProfileObject
    <3> QED  BY <2>0, <3>1, <3>2, NodeClassBounds
  <2> QED  BY <2>1, <2>2, <2>3, <2>4 DEF OperatorEdits, Edited
<1>4. /\ hosts' \in BOOLEAN /\ classSynced' \in BOOLEAN
  BY ClassFlags, Zenon DEF OperatorEdits, Edited
<1>5. work' \in WorkType /\ work'.pc = work.pc
  <2>1. CASE work' = work  BY <2>1, ClassTypes
  <2>2. CASE work' = [work EXCEPT !.fresh = FALSE]
    BY <2>2, ClassTypes, Zenon DEF WorkType
  <2> QED  BY <2>1, <2>2 DEF OperatorEdits, Edited
<1>6. FinalizerOK'
  BY <1>1, <1>2, <1>5 DEF ClassInv, FinalizerOK
<1>7. VersionsOK' /\ Advance
  <2>1. /\ class'.join \in Nat /\ profile'.version \in Nat
    BY <1>2, <1>3, NodeClassBounds DEF ClassObject, ProfileObject
  <2> QED  BY <1>1, <1>2, <1>3, <2>1, ClassTypes DEF ClassInv, VersionsOK, Advance
<1>8. ClassTypeOK'
  <2>1. class'.exists /\ class'.ready # "Unknown" => class'.finalizer
    BY <1>6 DEF FinalizerOK
  <2>2. {classSynced', hosts', hostsCache', queued'} \subseteq BOOLEAN
    BY <1>1, <1>4, ClassFlags
  <2> QED  BY <1>1, <1>2, <1>3, <1>5, <2>1, <2>2, ClassTypes DEF ClassTypeOK, WorkType
<1> QED  BY <1>6, <1>7, <1>8 DEF ClassInv

LEMMA ClassStep ==
  ASSUME ClassInv, ClassNext
  PROVE  ClassInv' /\ Advance
BY ReconcileStep, WriteStep, FailStep, SyncStep, EditStep DEF ClassNext

\* Steps that leave the class, the profile and the caches alone.
LEMMA OtherStep ==
  ASSUME ClassInv, UNCHANGED <<world, caches, claimsCache, queued, work, edits>>,
         claims' \subseteq Claims, faults' \in 0 .. MaxFaults
  PROVE  ClassInv' /\ Advance
<1>1. /\ class' = class /\ profile' = profile /\ hosts' = hosts /\ classCache' = classCache
      /\ classSynced' = classSynced /\ profileCache' = profileCache
      /\ hostsCache' = hostsCache /\ claimsCache' = claimsCache
      /\ queued' = queued /\ work' = work /\ edits' = edits
  BY DEF world, caches
<1>2. ClassTypeOK'  BY <1>1 DEF ClassInv, ClassTypeOK
<1>3. FinalizerOK' /\ VersionsOK'  BY <1>1 DEF ClassInv, FinalizerOK, VersionsOK
<1> QED  BY <1>1, <1>2, <1>3, NoAdvance DEF ClassInv

-----------------------------------------------------------------------------
(* NodeClaims and their hosts.                                             *)

\* The numbers of NodeClaim c.
LEMMA ClaimTypes ==
  ASSUME ProviderTypeOK, NEW c \in Claims
  PROVE  /\ create[c] \in [pc : {"idle", "join", "return"}, join : Hashes]
         /\ create[c].join \in Nat
         /\ host[c] # NoHost => /\ host[c] \in Joined
                                /\ host[c].join \in Nat /\ host[c].installed \in Nat
<1>1. create[c].join \in Nat
  BY NodeClassBounds DEF ProviderTypeOK, Hashes
<1>2. ASSUME host[c] # NoHost
      PROVE  host[c] \in Joined /\ host[c].join \in Nat /\ host[c].installed \in Nat
  BY <1>2, NodeClassBounds DEF ProviderTypeOK, Joined, Hashes
<1> QED  BY <1>1, <1>2 DEF ProviderTypeOK

\* A NodeClaim keeps its account while the versions advance.
LEMMA ClaimKept ==
  ASSUME ProviderInv, ClassInv', Advance, NEW c \in Claims,
         create'[c] = create[c], hash'[c] = hash[c], host'[c] = host[c],
         c \in drifted' => c \in drifted
  PROVE  ClaimOK(c)'
<1>1. /\ class.join \in Nat /\ classCache.join \in Nat
      /\ profile.version \in Nat /\ profileCache.version \in Nat
  BY ClassTypes DEF ProviderInv
<1>2. /\ class'.join \in Nat /\ classCache'.join \in Nat
      /\ profile'.version \in Nat /\ profileCache'.version \in Nat
  BY NodeClassBounds DEF ClassInv, ClassTypeOK, ClassObject, ProfileObject
<1>3. /\ create[c].join \in Nat
      /\ host[c] # NoHost => host[c].join \in Nat /\ host[c].installed \in Nat
  BY ClaimTypes, Zenon DEF ProviderInv
<1>4. ClaimOK(c)  BY DEF ProviderInv
<1> QED  BY <1>1, <1>2, <1>3, <1>4 DEF ClaimOK, Advance

LEMMA ProviderInit == Init => ProviderInv
<1> SUFFICES ASSUME Init PROVE ProviderInv  OBVIOUS
<1>1. ClassInv
  <2>1. class = NewClass /\ classCache = NewClass /\ NewClass \in ClassObject
    BY NodeClassBounds DEF Init, ClassInit, NewClass, ClassObject, ReadyStatus
  <2>2. /\ profile \in ProfileObject /\ profileCache = profile /\ profile.version = 0
    BY NodeClassBounds DEF Init, ClassInit, ProfileObject
  <2>3. class.ready = "Unknown" /\ class.join = 0 /\ ~class.finalizer
    BY <2>1 DEF NewClass
  <2>4. ClassTypeOK
    BY <2>1, <2>2, <2>3, IdleType, LegacyAssumption, NodeClassBounds
       DEF Init, ClassInit, ClassTypeOK, WorkType
  <2>5. FinalizerOK
    BY <2>1, <2>3, IdleType, Zenon DEF Init, ClassInit, FinalizerOK
  <2>6. VersionsOK
    BY <2>1, <2>2, <2>3 DEF Init, ClassInit, VersionsOK
  <2> QED  BY <2>4, <2>5, <2>6 DEF ClassInv
<1>2. ProviderTypeOK
  <2>1. CreateIdle \in [pc : {"idle", "join", "return"}, join : Hashes]
    BY NodeClassBounds DEF CreateIdle, Hashes
  <2>2. [join |-> 0, installed |-> 0] \in Joined
    BY NodeClassBounds DEF Joined, Hashes
  <2> QED  BY <2>1, <2>2, Zenon DEF Init, ProviderTypeOK
<1>3. ASSUME NEW c \in Claims
      PROVE  ClaimOK(c)
  <2>1. create[c].pc = "idle" /\ c \notin drifted /\ hash[c] \in {NoHash, OldHash}
    BY DEF Init, CreateIdle
  <2>2. host[c] # NoHost => host[c].join = 0 /\ host[c].installed = 0
    BY DEF Init
  <2>3. classCache.join = 0 /\ profileCache.version = 0
    BY Zenon DEF Init, ClassInit, NewClass
  <2> QED  BY <2>1, <2>2, <2>3 DEF ClaimOK
<1> QED  BY <1>1, <1>2, <1>3 DEF ProviderInv

\* Steps of the class, of core's view of it, and of NodeClaims that come or are
\* disrupted change nothing a NodeClaim's account is about.
LEMMA BackgroundStep ==
  ASSUME ProviderInv,
         \/ ClassNext /\ UNCHANGED providerVars
         \/ ObserveClass
         \/ \E c \in Claims : Disrupt(c) \/ Provision(c)
  PROVE  ProviderInv'
<1>0. ClassInv /\ ProviderTypeOK /\ claims \subseteq Claims /\ faults \in 0 .. MaxFaults
  BY ClassTypes DEF ProviderInv
<1>1. hash' = hash /\ host' = host /\ create' = create /\ drifted' = drifted
  BY DEF providerVars, ObserveClass, Disrupt, Provision
<1>2. ClassInv' /\ Advance /\ claims \subseteq claims'
  <2>1. CASE ClassNext
    <3>1. claims' = claims
      BY <2>1, Zenon DEF ClassNext, Reconcile, AddFinalizer, RemoveFinalizer, PatchStatus,
                  WriteFails, Restart, SyncClass, SyncProfile, SyncHosts, SyncClaims,
                  OperatorEdits
    <3> QED  BY <1>0, <2>1, <3>1, ClassStep
  <2>2. CASE ObserveClass
    BY <1>0, <2>2, OtherStep, Zenon DEF ObserveClass, classVars, Bounds
  <2>3. ASSUME NEW c \in Claims, Disrupt(c) \/ Provision(c)
        PROVE  ClassInv' /\ Advance /\ claims \subseteq claims'
    BY <1>0, <2>3, OtherStep, Zenon DEF Disrupt, Provision, classVars, Bounds
  <2> QED  BY <2>1, <2>2, <2>3
<1>3. terminating' \subseteq claims'
  BY <1>0, <1>2, Zenon DEF ProviderTypeOK, providerVars, ObserveClass, Disrupt, Provision, Launched
<1>4. poolReady' \in BOOLEAN
  BY <1>0, Zenon DEF ProviderTypeOK, providerVars, ObserveClass, Disrupt, Provision
<1>5. ProviderTypeOK'
  BY <1>0, <1>1, <1>2, <1>3, <1>4 DEF ProviderTypeOK
<1> QED  BY <1>1, <1>2, <1>5, ClaimKept, Zenon DEF ProviderInv

\* The calls for NodeClaim c touch the class not at all and no other NodeClaim.
LEMMA CallStep ==
  ASSUME ProviderInv, NEW c \in Claims, Call(c),
         ProviderTypeOK', ClaimOK(c)'
  PROVE  ProviderInv'
<1>0. ClassInv /\ ProviderTypeOK /\ claims \subseteq Claims /\ faults \in 0 .. MaxFaults
      /\ MaxFaults \in Nat
  BY ClassTypes, NodeClassBounds DEF ProviderInv
<1>1. claims' \subseteq Claims
  BY <1>0, Zenon DEF Call, Create, Join, Return, IsDrifted, Delete, classVars
<1>2. faults' \in 0 .. MaxFaults
  BY <1>0 DEF Call, Create, Join, Return, IsDrifted, Delete, classVars, Bounds, Fault
<1>3. UNCHANGED <<world, caches, claimsCache, queued, work, edits>>
  BY Zenon DEF Call, Create, Join, Return, IsDrifted, Delete, classVars, Bounds
<1>4. ClassInv' /\ Advance
  BY <1>0, <1>1, <1>2, <1>3, OtherStep
<1>5. ASSUME NEW d \in Claims, d # c
      PROVE  ClaimOK(d)'
  <2>1. create'[d] = create[d]
    BY <1>0, <1>5, Zenon DEF ProviderTypeOK, Call, Create, Join, Return, IsDrifted, Delete
  <2>2. hash'[d] = hash[d]
    BY <1>0, <1>5, Zenon DEF ProviderTypeOK, Call, Create, Join, Return, IsDrifted, Delete
  <2>3. host'[d] = host[d]
    BY <1>0, <1>5, Zenon DEF ProviderTypeOK, Call, Create, Join, Return, IsDrifted, Delete
  <2>4. d \in drifted' => d \in drifted
    BY <1>5 DEF Call, Create, Join, Return, IsDrifted, Delete
  <2> QED  BY <1>4, <2>1, <2>2, <2>3, <2>4, ClaimKept
<1> QED  BY <1>4, <1>5 DEF ProviderInv

LEMMA CreateStep ==
  ASSUME ProviderInv, NEW c \in Claims, Create(c)
  PROVE  ProviderInv'
<1>1. ProviderTypeOK /\ ClaimOK(c) /\ classCache.join \in Hashes
  BY ClassTypes DEF ProviderInv, ClassObject, Hashes
<1>2. /\ hash' = hash /\ host' = host /\ drifted' = drifted /\ claims' = claims
      /\ poolReady' = poolReady /\ classCache' = classCache /\ class' = class
      /\ profile' = profile /\ profileCache' = profileCache
  BY Zenon DEF Create, classVars, world, caches
<1>3. /\ terminating' \subseteq claims
      /\ create' \in [Claims -> [pc : {"idle", "join", "return"}, join : Hashes]]
  BY <1>1 DEF Create, ProviderTypeOK
<1>4. ProviderTypeOK'  BY <1>1, <1>2, <1>3, Zenon DEF ProviderTypeOK
<1>5. \/ create'[c] = create[c]
      \/ create'[c].pc = "join" /\ create'[c].join = classCache.join
  BY <1>1 DEF Create, ProviderTypeOK
<1>6. hash[c] = NoHash  BY Zenon DEF Create
<1>7. classCache.join <= classCache.join
  BY ClassTypes DEF ProviderInv
<1>8. ClaimOK(c)'
  BY <1>1, <1>2, <1>5, <1>6, <1>7, Zenon DEF ClaimOK
<1> QED  BY <1>4, <1>8, CallStep DEF Call

LEMMA JoinStep ==
  ASSUME ProviderInv, NEW c \in Claims, Join(c)
  PROVE  ProviderInv'
<1>1. ProviderTypeOK /\ ClaimOK(c) /\ profileCache.version \in 0 .. MaxEdits
  BY ClassTypes DEF ProviderInv, ProfileObject
<1>2. /\ hash' = hash /\ drifted' = drifted /\ claims' = claims
      /\ terminating' = terminating
      /\ poolReady' = poolReady /\ classCache' = classCache /\ class' = class
      /\ profile' = profile /\ profileCache' = profileCache
  BY DEF Join, world, caches
<1>3. create[c].pc = "join" /\ create[c].join \in Hashes
  BY <1>1 DEF Join, ProviderTypeOK
<1>4. \/ /\ host' = [host EXCEPT ![c] = [join |-> create[c].join,
                                         installed |-> profileCache.version]]
         /\ create' = [create EXCEPT ![c].pc = "return"]
      \/ host' = host /\ create' = [create EXCEPT ![c] = CreateIdle]
  BY DEF Join
<1>5. host' \in [Claims -> Joined \cup {NoHost}]
  BY <1>1, <1>3, <1>4 DEF ProviderTypeOK, Joined
<1>6. create' \in [Claims -> [pc : {"idle", "join", "return"}, join : Hashes]]
  BY <1>1, <1>4, NodeClassBounds DEF ProviderTypeOK, CreateIdle, Hashes
<1>7. ProviderTypeOK'  BY <1>1, <1>2, <1>5, <1>6 DEF ProviderTypeOK
<1>8. \/ /\ host'[c].join = create[c].join /\ host'[c].installed = profileCache.version
         /\ create'[c].pc = "return" /\ create'[c].join = create[c].join
      \/ host'[c] = host[c] /\ create'[c].pc = "idle"
  BY <1>1, <1>4 DEF ProviderTypeOK, CreateIdle
<1>9. hash[c] = NoHash /\ c \notin drifted
  BY <1>1, <1>3, Zenon DEF ClaimOK
<1>10. profileCache.version <= profileCache.version
  BY ClassTypes DEF ProviderInv
<1>11. ClaimOK(c)'
  BY <1>1, <1>2, <1>3, <1>8, <1>9, <1>10, Zenon DEF ClaimOK
<1> QED  BY <1>7, <1>11, CallStep DEF Call

LEMMA ReturnStep ==
  ASSUME ProviderInv, NEW c \in Claims, Return(c)
  PROVE  ProviderInv'
<1>1. ProviderTypeOK /\ ClaimOK(c)  BY DEF ProviderInv
<1>2. /\ host' = host /\ drifted' = drifted /\ claims' = claims
      /\ terminating' = terminating
      /\ poolReady' = poolReady /\ classCache' = classCache /\ class' = class
      /\ profile' = profile /\ profileCache' = profileCache
      /\ create' = [create EXCEPT ![c] = CreateIdle]
  BY DEF Return, world, caches
<1>3. create[c].pc = "return" /\ create[c].join \in Hashes
  BY <1>1 DEF Return, ProviderTypeOK
<1>4. hash' = [hash EXCEPT ![c] = create[c].join] \/ hash' = hash
  BY DEF Return, Stamp
<1>5. create' \in [Claims -> [pc : {"idle", "join", "return"}, join : Hashes]]
  BY <1>1, <1>2, NodeClassBounds DEF ProviderTypeOK, CreateIdle, Hashes
<1>6. hash' \in [Claims -> Hashes \cup {NoHash, OldHash}]
  BY <1>1, <1>3, <1>4 DEF ProviderTypeOK
<1>7. ProviderTypeOK'  BY <1>1, <1>2, <1>5, <1>6 DEF ProviderTypeOK
<1>8. create'[c].pc = "idle"
  BY <1>1, <1>2, Zenon DEF ProviderTypeOK, CreateIdle
<1>9. hash'[c] = create[c].join \/ hash'[c] = hash[c]
  BY <1>1, <1>4 DEF ProviderTypeOK
<1>10. hash[c] = NoHash /\ c \notin drifted /\ host[c].join = create[c].join
  BY <1>1, <1>3, Zenon DEF ClaimOK
<1>11. ClaimOK(c)'
  BY <1>1, <1>2, <1>8, <1>9, <1>10, Zenon DEF ClaimOK
<1> QED  BY <1>7, <1>11, CallStep DEF Call

\* A host was joined from values the caches have held, the caches from values
\* the objects have held: unequal is less.
LEMMA IsDriftedStep ==
  ASSUME ProviderInv, NEW c \in Claims, IsDrifted(c)
  PROVE  ProviderInv'
<1>1. ProviderTypeOK /\ ClaimOK(c) /\ ClassInv  BY DEF ProviderInv
<1>2. /\ hash' = hash /\ host' = host /\ create' = create /\ claims' = claims
      /\ terminating' = terminating
      /\ poolReady' = poolReady /\ classCache' = classCache /\ class' = class
      /\ profile' = profile /\ profileCache' = profileCache
      /\ drifted' = drifted \cup {c}
  BY DEF IsDrifted, classVars, world, caches
<1>3. c \in claims /\ hash[c] # NoHash /\ host[c] # NoHost
  BY Zenon DEF IsDrifted, Launched, Drift
<1>4. ProviderTypeOK'  BY <1>1, <1>2, <1>3, Zenon DEF ProviderTypeOK
<1>5. \/ host[c].installed # profileCache.version
      \/ hash[c] # OldHash /\ hash[c] # classCache.join
  BY Zenon DEF IsDrifted, Drift, CurrentHash
<1>6. /\ class.join \in Nat /\ classCache.join \in Nat /\ profile.version \in Nat
      /\ profileCache.version \in Nat /\ classCache.join <= class.join
      /\ profileCache.version <= profile.version
  BY <1>1, ClassTypes DEF ClassInv, VersionsOK
<1>7. host[c].join \in Nat /\ host[c].installed \in Nat
  BY <1>1, <1>3, ClaimTypes, Zenon
<1>8. host[c].join < class.join \/ host[c].installed < profile.version
  BY <1>1, <1>3, <1>5, <1>6, <1>7 DEF ClaimOK
<1>9. ClaimOK(c)'
  BY <1>1, <1>2, <1>3, <1>8, Zenon DEF ClaimOK
<1> QED  BY <1>4, <1>9, CallStep DEF Call

LEMMA DeleteStep ==
  ASSUME ProviderInv, NEW c \in Claims, Delete(c)
  PROVE  ProviderInv'
<1>1. ProviderTypeOK /\ ClaimOK(c)  BY DEF ProviderInv
<1>2. /\ create' = create /\ poolReady' = poolReady /\ classCache' = classCache
      /\ class' = class /\ profile' = profile /\ profileCache' = profileCache
      /\ create[c].pc = "idle"
  BY DEF Delete, world, caches
<1>3. CASE host' \in {host, [host EXCEPT ![c] = NoHost]}
           /\ UNCHANGED <<claims, terminating, drifted, hash>>
  <2>1. ProviderTypeOK'  BY <1>1, <1>2, <1>3 DEF ProviderTypeOK
  <2>2. host'[c] \in {host[c], NoHost}
    BY <1>1, <1>3 DEF ProviderTypeOK
  <2>3. ClaimOK(c)'  BY <1>1, <1>2, <1>3, <2>2, Zenon DEF ClaimOK
  <2> QED  BY <2>1, <2>3, CallStep DEF Call
<1>4. CASE /\ claims' = claims \ {c} /\ terminating' = terminating \ {c}
           /\ drifted' = drifted \ {c}
           /\ hash' = [hash EXCEPT ![c] = NoHash] /\ host' = [host EXCEPT ![c] = NoHost]
  <2>1. ProviderTypeOK'  BY <1>1, <1>2, <1>4 DEF ProviderTypeOK
  <2>2. hash'[c] = NoHash /\ host'[c] = NoHost
    BY <1>1, <1>4 DEF ProviderTypeOK
  <2>3. ClaimOK(c)'  BY <1>2, <1>4, <2>2, Zenon DEF ClaimOK
  <2> QED  BY <2>1, <2>3, CallStep DEF Call
<1> QED  BY <1>3, <1>4, Zenon DEF Delete

-----------------------------------------------------------------------------

LEMMA ProviderInvariance == Spec => []ProviderInv
<1>1. Init => ProviderInv  BY ProviderInit
<1>2. ProviderInv /\ [Next]_vars => ProviderInv'
  <2> SUFFICES ASSUME ProviderInv, [Next]_vars PROVE ProviderInv'  OBVIOUS
  <2>1. CASE UNCHANGED vars
    <3>1. /\ UNCHANGED providerVars /\ UNCHANGED classVars
      BY <2>1 DEF vars
    <3>2. claims' \subseteq Claims /\ faults' \in 0 .. MaxFaults
          /\ claims' = claims
          /\ UNCHANGED <<world, caches, claimsCache, queued, work, edits>>
      BY <3>1, ClassTypes DEF ProviderInv, classVars, Bounds
    <3>3. ClassInv' /\ Advance
      BY <3>2, OtherStep DEF ProviderInv
    <3>4. ProviderTypeOK'
      BY <3>1, <3>2, Zenon DEF ProviderInv, ProviderTypeOK, providerVars
    <3> QED  BY <3>1, <3>3, <3>4, ClaimKept, Zenon DEF ProviderInv, providerVars
  <2>2. ASSUME NEW c \in Claims, Call(c) PROVE ProviderInv'
    BY <2>2, CreateStep, JoinStep, ReturnStep, IsDriftedStep, DeleteStep DEF Call
  <2> QED  BY <2>1, <2>2, BackgroundStep DEF Next
<1> QED  BY <1>1, <1>2, PTL DEF Spec

\* The objects, caches, NodeClaims and Create calls have the types the model
\* gives them, and a class whose Ready condition has been set carries the
\* finalizer for as long as it exists: Reconcile writes the finalizer before it
\* derives the condition, and only the deletion of the class takes it away
\* (nodeclass.go:57).
THEOREM ProviderTypes == Spec => []TypeOK
<1>1. ProviderInv => TypeOK
  BY DEF ProviderInv, ClassInv, ProviderTypeOK, TypeOK
<1> QED  BY <1>1, ProviderInvariance, PTL

\* IsDrifted reports no node whose host was joined with the join fields and
\* the profile version that the class and the profile have now, for any number
\* of edits, failures, retried Creates and stale reads (cloudprovider.go:192).
THEOREM DriftedIsBehind == Spec => []DriftIsReal
<1>1. ASSUME ProviderInv PROVE DriftIsReal
  <2> SUFFICES ASSUME NEW c \in drifted, host[c] # NoHost
               PROVE  host[c].join # class.join \/ host[c].installed # profile.version
    BY Zenon DEF DriftIsReal
  <2>1. c \in Claims /\ ClaimOK(c)
    BY <1>1, ClassTypes DEF ProviderInv, ProviderTypeOK
  <2>2. host[c].join \in Nat /\ host[c].installed \in Nat
    BY <1>1, <2>1, ClaimTypes, Zenon DEF ProviderInv, ClaimOK
  <2>3. class.join \in Nat /\ profile.version \in Nat
    BY <1>1, ClassTypes DEF ProviderInv
  <2> QED  BY <2>1, <2>2, <2>3 DEF ClaimOK
<1> QED  BY <1>1, ProviderInvariance, PTL

=============================================================================
