--------------------------- MODULE HostPoolProofs ---------------------------
(***************************************************************************)
(* Type correctness of HostPool, for any number of hosts, NodeClaims and   *)
(* tokens and any bounds.  TypeOK is not inductive: Create and Delete      *)
(* write to the host they remember, so the proof also carries that they    *)
(* remember one while they work on it.                                     *)
(***************************************************************************)
EXTENDS HostPool, TLAPS

\* The launch steps at which Create believes it holds create[c].host.
HoldingPCs == {"prepare", "setInstalled", "mint", "record", "join",
               "setProviderID", "markInUse", "discard", "forget", "dropToken",
               "release"}

-----------------------------------------------------------------------------
(* Types.                                                                  *)

\* The three variables that hold SSHHost objects are well typed.
ObjectTypes ==
  /\ sshHost \in [Hosts -> HostObject]
  /\ copy \in [Actors -> [Hosts -> HostObject]]
  /\ fresh \in [Hosts -> SUBSET Actors]

\* The actors: the cache, one Create and one Delete per NodeClaim, one probe
\* per host, all distinct.
LEMMA ActorFacts ==
  /\ Cache \in Actors
  /\ \A c \in NodeClaims : Creator(c) \in Actors /\ Deleter(c) \in Actors
  /\ \A h \in Hosts : Prober(h) \in Actors
  /\ \A c, d : Creator(c) # Deleter(d) /\ Creator(c) # Prober(d)
              /\ Deleter(c) # Prober(d) /\ Creator(c) # Cache
              /\ Deleter(c) # Cache /\ Prober(c) # Cache
  /\ \A c, d : /\ Creator(c) = Creator(d) => c = d
               /\ Deleter(c) = Deleter(d) => c = d
               /\ Prober(c) = Prober(d) => c = d
BY DEF Actors, Cache, Creator, Deleter, Prober

\* The transitions of SSHHost keep the object well typed.
LEMMA ObjectFacts ==
  /\ NewHost \in HostObject
  /\ \A o \in HostObject : /\ Maintained(o) \in HostObject
                            /\ WithReady(o) \in HostObject
                            /\ Abandoned(o) \in HostObject
  /\ \A o \in HostObject : \A c \in NodeClaims : ClaimedBy(o, c) \in HostObject
  /\ \A o \in HostObject : \A b \in BOOLEAN : Released(o, b) \in HostObject
<1>1. NewHost \in HostObject
  BY DEF HostObject, HostStates, NewHost
<1>2. \A o \in HostObject : Maintained(o) \in HostObject
  BY DEF HostObject, HostStates, Maintained
<1>3. \A o \in HostObject : WithReady(o) \in HostObject
  BY DEF HostObject, WithReady
<1>4. \A o \in HostObject : Abandoned(o) \in HostObject
  BY ZenonT(30) DEF HostObject, HostStates, Abandoned
<1>5. \A o \in HostObject : \A c \in NodeClaims : ClaimedBy(o, c) \in HostObject
  BY Zenon DEF HostObject, HostStates, ClaimedBy
<1>6. ASSUME NEW o \in HostObject, NEW b \in BOOLEAN
      PROVE  Released(o, b) \in HostObject
  <2> DEFINE s == IF b THEN "Available" ELSE "Unhealthy"
  <2>1. s \in HostStates
    BY DEF HostStates
  <2> HIDE DEF s
  <2>2. [o EXCEPT !.claim = NoClaim, !.pid = FALSE, !.token = NoToken, !.state = s]
          \in HostObject
    BY <2>1, Zenon DEF HostObject
  <2> QED  BY <2>2 DEF Released, s
<1> QED  BY <1>1, <1>2, <1>3, <1>4, <1>5, <1>6

\* A merge patch of well-typed objects is well typed.
LEMMA MergeType ==
  ASSUME NEW s \in HostObject, NEW o \in HostObject, NEW n \in HostObject
  PROVE  MergePatch(s, o, n) \in HostObject
BY DEF HostObject, MergePatch, Merge

\* Reading the cache keeps the types.
LEMMA ReadCachedType ==
  ASSUME ObjectTypes, NEW w \in Actors, NEW H, ReadCached(w, H)
  PROVE  ObjectTypes'
BY ActorFacts, ObjectFacts DEF ObjectTypes, ReadCached

\* A committed write keeps the types.
LEMMA WriteType ==
  ASSUME ObjectTypes, NEW w \in Actors, NEW h \in Hosts, NEW m \in HostObject,
         Write(w, h, m) \/ WriteAndForget(w, h, m)
  PROVE  ObjectTypes'
<1> USE DEF ObjectTypes
<1>1. NoCopies \in [Hosts -> HostObject]
  BY ObjectFacts DEF NoCopies
<1>2. [NoCopies EXCEPT ![h] = m] \in [Hosts -> HostObject]
  BY <1>1
<1>3. CASE Write(w, h, m)
  <2>1. sshHost' \in [Hosts -> HostObject]
    BY <1>3 DEF Write
  <2>2. copy' \in [Actors -> [Hosts -> HostObject]]
    BY <1>2, <1>3 DEF Write
  <2>3. fresh' \in [Hosts -> SUBSET Actors]
    BY <1>3 DEF Write
  <2> QED  BY <2>1, <2>2, <2>3
<1>4. CASE WriteAndForget(w, h, m)
  <2>1. sshHost' \in [Hosts -> HostObject]
    BY <1>4 DEF WriteAndForget
  <2>2. copy' \in [Actors -> [Hosts -> HostObject]]
    BY <1>1, <1>4 DEF WriteAndForget
  <2>3. fresh' \in [Hosts -> SUBSET Actors]
    BY <1>4 DEF WriteAndForget
  <2> QED  BY <2>1, <2>2, <2>3
<1> QED  BY <1>3, <1>4

\* So does a patch that ends in an error.
LEMMA PatchErrorType ==
  ASSUME ObjectTypes, NEW w \in Actors, NEW h \in Hosts, NEW n \in HostObject,
         PatchError(w, h, n)
  PROVE  ObjectTypes'
<1>1. Patched(w, h, n) \in HostObject
  BY MergeType DEF ObjectTypes, Patched
<1> QED  BY <1>1, Zenon DEF ObjectTypes, PatchError

\* The workers are well typed, and know their host while they work on it.
CreateTypes ==
  /\ create \in [NodeClaims -> CreateCall]
  /\ \A c \in NodeClaims :
       create[c].pc \in HoldingPCs \cup {"launched"} => create[c].host \in Hosts
DeleteTypes ==
  /\ delete \in [NodeClaims -> DeleteCall]
  /\ \A c \in NodeClaims : delete[c].pc # "idle" => delete[c].host \in Hosts
ProbeTypes == probe \in [Hosts -> ProbeCall]
ClaimTypes == nodeClaim \in [NodeClaims -> NodeClaimStatus]

\* So are the cluster and the counters.
ClusterTypes ==
  /\ tokens \subseteq TokenIDs
  /\ kubelet \in [Hosts -> JoinedKubelet \cup {NoKubelet, ForeignKubelet}]
  /\ nodes \in [Hosts -> SUBSET (NodeClaims \cup {ForeignNode})]
BoundTypes ==
  faults \in 0 .. MaxFaults /\ failures \in 0 .. MaxFailures /\ probes \in Nat

Typed == /\ ObjectTypes /\ ClaimTypes /\ CreateTypes /\ DeleteTypes
         /\ ProbeTypes /\ ClusterTypes /\ BoundTypes

\* Typed is TypeOK strengthened by the hosts the workers know.
LEMMA TypedImpliesTypeOK == Typed => TypeOK
BY DEF Typed, TypeOK, ObjectTypes, ClaimTypes, CreateTypes, DeleteTypes,
       ProbeTypes, ClusterTypes, BoundTypes

\* Whatever a disturbance or a failure does, the counters stay in range.
LEMMA BoundFacts ==
  ASSUME BoundTypes, Fault \/ Failure \/ NoFault, UNCHANGED probes
  PROVE  BoundTypes'
BY BoundsAssumption DEF BoundTypes, Fault, Failure, NoFault, bounds

\* The initial state is well typed.
LEMMA InitTyped == Init => Typed
<1> SUFFICES ASSUME Init PROVE Typed  OBVIOUS
<1>1. ObjectTypes
  BY ActorFacts, ObjectFacts DEF Init, ObjectTypes, NoCopies
<1>2. ClaimTypes
  BY DEF Init, ClaimTypes, NodeClaimStatus, NodeClaimPhases
<1>3. CreateTypes
  BY DEF Init, CreateTypes, CreateCall, CreateIdle, CreatePCs, HoldingPCs
<1>4. DeleteTypes
  BY DEF Init, DeleteTypes, DeleteCall, DeleteIdle, DeletePCs
<1>5. ProbeTypes
  BY ObjectFacts DEF Init, ProbeTypes, ProbeCall, ProbeIdle, ProbePCs
<1>6. ClusterTypes
  BY DEF Init, ClusterTypes
<1>7. BoundTypes
  BY BoundsAssumption DEF Init, BoundTypes
<1> QED  BY <1>1, <1>2, <1>3, <1>4, <1>5, <1>6, <1>7 DEF Typed

\* A Create's record is replaced by another well-typed one.
LEMMA CreateRecordType ==
  ASSUME CreateTypes, NEW c \in NodeClaims, NEW r \in CreateCall,
         r.pc \in HoldingPCs \cup {"launched"} => r.host \in Hosts,
         create' = [create EXCEPT ![c] = r]
  PROVE  CreateTypes'
BY DEF CreateTypes

\* A Create that only moves on keeps its host.
LEMMA GotoCreateType ==
  ASSUME CreateTypes, NEW c \in NodeClaims, NEW pc \in CreatePCs,
         create[c].pc \in HoldingPCs \cup {"launched"}
           \/ pc \notin HoldingPCs \cup {"launched"},
         GotoCreate(c, pc)
  PROVE  CreateTypes'
<1>1. create' \in [NodeClaims -> CreateCall]
  BY DEF CreateTypes, CreateCall, GotoCreate
<1>2. \A d \in NodeClaims : /\ create'[d].host = create[d].host
                           /\ create'[d].pc = IF d = c THEN pc ELSE create[d].pc
  BY DEF CreateTypes, CreateCall, GotoCreate
<1> QED  BY <1>1, <1>2 DEF CreateTypes

\* The shared part of every status write of a Create.
LEMMA SetStatusType ==
  ASSUME Typed, NEW c \in NodeClaims, create[c].pc \in HoldingPCs,
         NEW n \in HostObject, NEW ok \in CreatePCs, NEW fail \in CreatePCs,
         SetStatus(c, n, ok, fail)
  PROVE  Typed'
<1> DEFINE w == Creator(c)
           h == create[c].host
           m == Patched(w, h, n)
<1> USE DEF Typed
<1>1. w \in Actors /\ h \in Hosts
  BY ActorFacts DEF CreateTypes
<1>2. m \in HostObject
  BY <1>1, MergeType DEF ObjectTypes, Patched
<1>3. ObjectTypes'
  <2> HIDE DEF w, h, m
  <2>1. \/ copy' = [copy EXCEPT ![w][h] = m] /\ UNCHANGED <<sshHost, fresh>>
        \/ Write(w, h, m)
        \/ ReadCached(w, {h})
        \/ copy' = [copy EXCEPT ![w][h] = n] /\ UNCHANGED <<sshHost, fresh>>
        \/ PatchError(w, h, n)
    BY DEF SetStatus, w, h, m
  <2>2. CASE \E x \in {m, n} : /\ copy' = [copy EXCEPT ![w][h] = x]
                              /\ UNCHANGED <<sshHost, fresh>>
    BY <1>1, <1>2, <2>2 DEF ObjectTypes
  <2>3. CASE Write(w, h, m)
    BY <1>1, <1>2, <2>3, WriteType
  <2>4. CASE ReadCached(w, {h})
    BY <1>1, <2>4, ReadCachedType
  <2>5. CASE PatchError(w, h, n)
    BY <1>1, <2>5, PatchErrorType
  <2> QED  BY <2>1, <2>2, <2>3, <2>4, <2>5
<1>4. CreateTypes'
  <2>1. UNCHANGED create \/ GotoCreate(c, ok) \/ GotoCreate(c, fail)
    BY DEF SetStatus
  <2>2. CASE UNCHANGED create
    BY <2>2 DEF CreateTypes
  <2> QED  BY <2>1, <2>2, GotoCreateType
<1>5. ClaimTypes' /\ DeleteTypes' /\ ProbeTypes' /\ ClusterTypes'
  BY DEF SetStatus, CreateUnchanged, cluster, ClaimTypes, DeleteTypes, ProbeTypes,
         ClusterTypes
<1>6. BoundTypes'
  BY BoundFacts, Zenon DEF SetStatus, PatchError, CreateUnchanged, NoFault, bounds
<1> QED  BY <1>3, <1>4, <1>5, <1>6

\* The object a Create holds is well typed.
LEMMA OwnType ==
  ASSUME Typed, NEW c \in NodeClaims, create[c].pc \in HoldingPCs
  PROVE  Own(c) \in HostObject /\ create[c] \in CreateCall
BY ActorFacts DEF Typed, ObjectTypes, CreateTypes, Own

\* Every step of a Create keeps the types.
LEMMA CreateTyped ==
  ASSUME Typed, NEW c \in NodeClaims, CreateStep(c)
  PROVE  Typed'
<1> USE DEF Typed
<1>0. /\ Creator(c) \in Actors /\ create[c] \in CreateCall
      /\ "launched" \notin HoldingPCs /\ HoldingPCs \subseteq CreatePCs
      /\ {"launched", "failed", "exhausted", "claim", "idle"} \subseteq CreatePCs
  BY ActorFacts DEF CreateTypes, HoldingPCs, CreatePCs
<1>1. CASE CreateBegin(c)
  <2>1. ObjectTypes'
    <3>1. UNCHANGED objects \/ \E H : ReadCached(Creator(c), H)
      BY <1>1, Zenon DEF CreateBegin
    <3> QED  BY <1>0, <3>1, ReadCachedType DEF objects, ObjectTypes
  <2>2. CreateTypes'
    <3>1. CASE \E h \in Hosts :
                 create' = [create EXCEPT ![c].pc = "prepare", ![c].host = h]
      <4> PICK h \in Hosts :
             create' = [create EXCEPT ![c].pc = "prepare", ![c].host = h]
        BY <3>1, Zenon
      <4> DEFINE r == [create[c] EXCEPT !.pc = "prepare", !.host = h]
      <4>1. r \in CreateCall /\ r.host \in Hosts
        BY <1>0, Zenon DEF CreateCall, HoldingPCs
      <4>2. create' = [create EXCEPT ![c] = r]
        BY Zenon DEF CreateTypes
      <4> QED  BY <4>1, <4>2, CreateRecordType, Zenon
    <3>2. CASE \E H \in SUBSET Hosts :
                 create' = [create EXCEPT ![c].pc = "claim", ![c].cands = H]
      <4> PICK H \in SUBSET Hosts :
             create' = [create EXCEPT ![c].pc = "claim", ![c].cands = H]
        BY <3>2, Zenon
      <4> DEFINE r == [create[c] EXCEPT !.pc = "claim", !.cands = H]
      <4>1. r \in CreateCall /\ r.pc \notin HoldingPCs \cup {"launched"}
        BY <1>0, Zenon DEF CreateCall, HoldingPCs
      <4>2. create' = [create EXCEPT ![c] = r]
        BY Zenon DEF CreateTypes
      <4> QED  BY <4>1, <4>2, CreateRecordType, Zenon
    <3>3. CASE GotoCreate(c, "exhausted")
      BY <1>0, <3>3, GotoCreateType DEF HoldingPCs
    <3> QED  BY <1>1, <3>1, <3>2, <3>3, Zenon DEF CreateBegin, ByClaim, Available
  <2> QED  BY <1>1, <2>1, <2>2 DEF CreateBegin, CreateUnchanged, cluster, bounds,
             ClaimTypes, DeleteTypes, ProbeTypes, ClusterTypes, BoundTypes
<1>2. CASE ClaimHost(c)
  <2> DEFINE w == Creator(c)
             mine(h) == ClaimedBy(copy[w][h], c)
  <2>1. \A h \in create[c].cands : h \in Hosts /\ mine(h) \in HostObject
    BY <1>0, ObjectFacts DEF CreateCall, ObjectTypes
  <2>2. ObjectTypes'
    <3>1. \/ UNCHANGED objects
          \/ \E h \in create[c].cands :
               \/ Write(w, h, mine(h))
               \/ /\ sshHost' = [sshHost EXCEPT ![h] = mine(h)]
                  /\ fresh' = [fresh EXCEPT ![h] = {}]
                  /\ UNCHANGED copy
      BY <1>2 DEF ClaimHost
    <3> HIDE DEF mine, w
    <3>2. ASSUME NEW h \in create[c].cands, Write(w, h, mine(h)) PROVE ObjectTypes'
      BY <1>0, <2>1, <3>2, WriteType DEF w
    <3> QED  BY <2>1, <3>1, <3>2 DEF objects, ObjectTypes
  <2>3. CreateTypes'
    <3>1. CASE \E h \in create[c].cands :
                 create' = [create EXCEPT ![c].pc = "prepare", ![c].host = h,
                                          ![c].cands = {}]
      BY <1>0, <2>1, <3>1 DEF CreateTypes, CreateCall, HoldingPCs
    <3>2. CASE \E rest \in SUBSET Hosts : \E pc \in {"exhausted", "claim"} :
                 create' = [create EXCEPT ![c].cands = rest, ![c].pc = pc]
      <4> PICK rest \in SUBSET Hosts, pc \in {"exhausted", "claim"} :
             create' = [create EXCEPT ![c].cands = rest, ![c].pc = pc]
        BY <3>2, Zenon
      <4> DEFINE r == [create[c] EXCEPT !.cands = rest, !.pc = pc]
      <4>1. r \in CreateCall /\ r.pc \notin HoldingPCs \cup {"launched"}
        BY <1>0, Zenon DEF CreateCall, HoldingPCs
      <4>2. create' = [create EXCEPT ![c] = r]
        BY Zenon DEF CreateTypes
      <4> QED  BY <4>1, <4>2, CreateRecordType, Zenon
    <3>3. CASE GotoCreate(c, "failed")
      BY <1>0, <3>3, GotoCreateType DEF HoldingPCs
    <3>4. create[c].cands \subseteq Hosts
      BY <2>1
    <3> QED  BY <1>2, <3>1, <3>2, <3>3, <3>4, Zenon DEF ClaimHost
  <2>4. ClaimTypes' /\ DeleteTypes' /\ ProbeTypes' /\ ClusterTypes'
    BY <1>2 DEF ClaimHost, CreateUnchanged, cluster, ClaimTypes, DeleteTypes,
                ProbeTypes, ClusterTypes
  <2>5. BoundTypes'
    BY <1>2, BoundFacts DEF ClaimHost, CreateUnchanged
  <2> QED  BY <2>2, <2>3, <2>4, <2>5
<1>3. CASE Prepare(c)
  <2>1. CreateTypes'
    <3>1. CASE \E pc \in {"mint", "setInstalled"} : GotoCreate(c, pc)
      BY <1>0, <1>3, <3>1, GotoCreateType DEF Prepare, HoldingPCs
    <3>2. CASE \E b \in BOOLEAN :
                 create' = [create EXCEPT ![c].pc = "dropToken", ![c].healthy = b]
      <4> PICK b \in BOOLEAN :
             create' = [create EXCEPT ![c].pc = "dropToken", ![c].healthy = b]
        BY <3>2, Zenon
      <4> DEFINE r == [create[c] EXCEPT !.pc = "dropToken", !.healthy = b]
      <4>1. r \in CreateCall /\ r.host \in Hosts
        BY <1>0, <1>3, Zenon DEF Prepare, CreateTypes, CreateCall, HoldingPCs
      <4>2. create' = [create EXCEPT ![c] = r]
        BY Zenon DEF CreateTypes
      <4> QED  BY <4>1, <4>2, CreateRecordType, Zenon
    <3> QED  BY <1>3, <3>1, <3>2 DEF Prepare
  <2>2. BoundTypes'
    BY <1>3, BoundFacts DEF Prepare, CreateUnchanged
  <2> QED  BY <1>3, <2>1, <2>2 DEF Prepare, CreateUnchanged, objects, cluster,
             ObjectTypes, ClaimTypes, DeleteTypes, ProbeTypes, ClusterTypes
<1>4. CASE SetInstalled(c)
  <2>1. create[c].pc \in HoldingPCs
    BY <1>4 DEF SetInstalled, HoldingPCs
  <2>2. [Own(c) EXCEPT !.installed = TRUE] \in HostObject
    BY <2>1, OwnType, Zenon DEF HostObject
  <2> QED  BY <1>4, <2>1, <2>2, SetStatusType DEF SetInstalled, CreatePCs
<1>5. CASE CreateToken(c)
  <2>1. FreshTokens \subseteq TokenIDs
    BY DEF FreshTokens
  <2>2. CreateTypes'
    <3>1. CASE \E t \in TokenIDs :
                 create' = [create EXCEPT ![c].pc = "record", ![c].token = t]
      <4> PICK t \in TokenIDs :
             create' = [create EXCEPT ![c].pc = "record", ![c].token = t]
        BY <3>1, Zenon
      <4> DEFINE r == [create[c] EXCEPT !.pc = "record", !.token = t]
      <4>1. r \in CreateCall /\ r.host \in Hosts
        BY <1>0, <1>5, Zenon DEF CreateToken, CreateTypes, CreateCall, HoldingPCs
      <4>2. create' = [create EXCEPT ![c] = r]
        BY Zenon DEF CreateTypes
      <4> QED  BY <4>1, <4>2, CreateRecordType, Zenon
    <3>2. CASE GotoCreate(c, "dropToken")
      BY <1>0, <1>5, <3>2, GotoCreateType DEF CreateToken, HoldingPCs
    <3> QED  BY <1>5, <2>1, <3>1, <3>2 DEF CreateToken
  <2>3. ClusterTypes'
    BY <1>5, <2>1 DEF CreateToken, ClusterTypes
  <2>4. BoundTypes'
    BY <1>5, BoundFacts DEF CreateToken, CreateUnchanged
  <2> QED  BY <1>5, <2>2, <2>3, <2>4 DEF CreateToken, CreateUnchanged, objects,
             ObjectTypes, ClaimTypes, DeleteTypes, ProbeTypes
<1>6. CASE RecordToken(c)
  <2>1. create[c].pc \in HoldingPCs
    BY <1>6 DEF RecordToken, HoldingPCs
  <2>2. [Own(c) EXCEPT !.token = create[c].token] \in HostObject
    BY <2>1, OwnType DEF HostObject, CreateCall
  <2> QED  BY <1>6, <2>1, <2>2, SetStatusType DEF RecordToken, CreatePCs
<1>7. CASE Join(c)
  <2>1. CreateTypes'
    <3>1. CASE \E pc \in {"setProviderID", "discard"} : GotoCreate(c, pc)
      BY <1>0, <1>7, <3>1, GotoCreateType DEF Join, HoldingPCs
    <3>2. CASE create' = [create EXCEPT ![c].pc = "discard", ![c].healthy = TRUE]
      BY <1>0, <1>7, <3>2, Zenon DEF Join, CreateTypes, CreateCall, HoldingPCs
    <3> QED  BY <1>7, <3>1, <3>2 DEF Join
  <2>2. ClusterTypes'
    <3> DEFINE k == [claim |-> c, token |-> create[c].token, cert |-> FALSE]
    <3>1. k \in JoinedKubelet
      BY <1>0 DEF JoinedKubelet, CreateCall
    <3>2. kubelet' \in {kubelet, [kubelet EXCEPT ![create[c].host] = k]}
      BY <1>7 DEF Join
    <3> HIDE DEF k
    <3> QED  BY <1>7, <3>1, <3>2 DEF Join, ClusterTypes
  <2>3. BoundTypes'
    BY <1>7, BoundFacts DEF Join, CreateUnchanged
  <2> QED  BY <1>7, <2>1, <2>2, <2>3 DEF Join, CreateUnchanged, objects,
             ObjectTypes, ClaimTypes, DeleteTypes, ProbeTypes
<1>8. CASE SetProviderID(c)
  <2>1. create[c].pc \in HoldingPCs
    BY <1>8 DEF SetProviderID, HoldingPCs
  <2>2. [Own(c) EXCEPT !.pid = TRUE] \in HostObject
    BY <2>1, OwnType, Zenon DEF HostObject
  <2> QED  BY <1>8, <2>1, <2>2, SetStatusType DEF SetProviderID, CreatePCs
<1>9. CASE MarkInUse(c)
  <2>1. create[c].pc \in HoldingPCs
    BY <1>9 DEF MarkInUse, HoldingPCs
  <2>2. [Own(c) EXCEPT !.state = "InUse"] \in HostObject
    BY <2>1, OwnType DEF HostObject, HostStates
  <2> QED  BY <1>9, <2>1, <2>2, SetStatusType DEF MarkInUse, CreatePCs
<1>10. CASE DiscardToken(c)
  <2>1. CreateTypes'
    <3>1. \E pc \in {"dropToken", "forget"} :
            create' = [create EXCEPT ![c].token = NoToken, ![c].pc = pc]
      BY <1>10, Zenon DEF DiscardToken
    <3> QED  BY <1>0, <1>10, <3>1 DEF DiscardToken, CreateTypes, CreateCall, HoldingPCs
  <2>2. ClusterTypes' /\ BoundTypes'
    BY <1>10, BoundFacts DEF DiscardToken, DropToken, CreateUnchanged, ClusterTypes
  <2> QED  BY <1>10, <2>1, <2>2 DEF DiscardToken, CreateUnchanged, objects,
             ObjectTypes, ClaimTypes, DeleteTypes, ProbeTypes
<1>11. CASE ForgetToken(c)
  <2>1. create[c].pc \in HoldingPCs
    BY <1>11 DEF ForgetToken, HoldingPCs
  <2>2. [Own(c) EXCEPT !.token = NoToken] \in HostObject
    BY <2>1, OwnType DEF HostObject
  <2> QED  BY <1>11, <2>1, <2>2, SetStatusType DEF ForgetToken, CreatePCs
<1>12. CASE ReleaseToken(c)
  <2>1. CreateTypes'
    BY <1>0, <1>12, GotoCreateType DEF ReleaseToken, HoldingPCs
  <2>2. ClusterTypes' /\ BoundTypes'
    BY <1>12, BoundFacts DEF ReleaseToken, DropToken, CreateUnchanged, ClusterTypes
  <2> QED  BY <1>12, <2>1, <2>2 DEF ReleaseToken, CreateUnchanged, objects,
             ObjectTypes, ClaimTypes, DeleteTypes, ProbeTypes
<1>13. CASE ReleaseHost(c)
  <2> DEFINE w == Creator(c)
             h == create[c].host
             new == Released(copy[w][h], create[c].healthy)
  <2>1. h \in Hosts
    BY <1>13 DEF ReleaseHost, CreateTypes, HoldingPCs
  <2>2. new \in HostObject
    BY <1>0, <2>1, ObjectFacts DEF ObjectTypes, CreateCall
  <2>3. Patched(w, h, new) \in HostObject
    BY <1>0, <2>1, <2>2, MergeType DEF ObjectTypes, Patched
  <2>4. ObjectTypes'
    <3>1. UNCHANGED objects \/ Write(w, h, Patched(w, h, new)) \/ PatchError(w, h, new)
      BY <1>13 DEF ReleaseHost
    <3> HIDE DEF new, h, w
    <3>2. CASE Write(w, h, Patched(w, h, new))
      BY <1>0, <2>1, <2>3, <3>2, WriteType DEF w
    <3>3. CASE PatchError(w, h, new)
      BY <1>0, <2>1, <2>2, <3>3, PatchErrorType DEF w
    <3> QED  BY <3>1, <3>2, <3>3 DEF objects, ObjectTypes
  <2>5. CreateTypes'
    BY <1>0, <1>13, GotoCreateType DEF ReleaseHost, HoldingPCs
  <2>6. BoundTypes'
    BY <1>13, BoundFacts DEF ReleaseHost, PatchError, CreateUnchanged
  <2> QED  BY <1>13, <2>4, <2>5, <2>6, Zenon DEF ReleaseHost, CreateUnchanged, cluster,
             ClaimTypes, DeleteTypes, ProbeTypes, ClusterTypes
<1>14. CASE CreateReturn(c)
  <2>1. ObjectTypes'
    BY <1>0, <1>14, ReadCachedType DEF CreateReturn, Forget
  <2>2. CreateTypes'
    <3>1. CreateIdle \in CreateCall /\ CreateIdle.pc \notin HoldingPCs \cup {"launched"}
      BY DEF CreateIdle, CreateCall, CreatePCs, HoldingPCs
    <3> QED  BY <1>14, <3>1 DEF CreateReturn, CreateTypes
  <2>3. ClaimTypes'
    BY <1>0, <1>14 DEF CreateReturn, ClaimTypes, CreateCall, NodeClaimStatus,
                       NodeClaimPhases
  <2> QED  BY <1>14, <2>1, <2>2, <2>3 DEF CreateReturn, cluster, bounds,
             DeleteTypes, ProbeTypes, ClusterTypes, BoundTypes
<1> QED  BY <1>1, <1>2, <1>3, <1>4, <1>5, <1>6, <1>7, <1>8, <1>9, <1>10, <1>11,
            <1>12, <1>13, <1>14 DEF CreateStep

\* Every step of a Delete keeps the types.
LEMMA DeleteTyped ==
  ASSUME Typed, NEW c \in NodeClaims, DeleteStep(c)
  PROVE  Typed'
<1> USE DEF Typed
<1>0. /\ Deleter(c) \in Actors /\ delete[c] \in DeleteCall
      /\ nodeClaim[c] \in NodeClaimStatus
      /\ delete[c].pc # "idle" => delete[c].host \in Hosts
  BY ActorFacts DEF DeleteTypes, ClaimTypes
<1>1. CASE DeleteBegin(c)
  <2> DEFINE h == nodeClaim[c].host
  <2>1. ObjectTypes'
    <3>1. UNCHANGED objects \/ ReadCached(Deleter(c), {h})
      BY <1>1 DEF DeleteBegin
    <3> QED  BY <1>0, <3>1, ReadCachedType DEF objects, ObjectTypes
  <2>2. DeleteTypes'
    <3>1. \/ UNCHANGED delete
          \/ h \in Hosts /\ delete' = [delete EXCEPT ![c].pc = "leave", ![c].host = h]
      BY <1>0, <1>1 DEF DeleteBegin, NodeClaimStatus
    <3>2. CASE h \in Hosts /\ delete' = [delete EXCEPT ![c].pc = "leave", ![c].host = h]
      <4> DEFINE r == [delete[c] EXCEPT !.pc = "leave", !.host = h]
      <4>1. r \in DeleteCall /\ r.host \in Hosts
        BY <1>0, <3>2, Zenon DEF DeleteCall, DeletePCs
      <4>2. delete' = [delete EXCEPT ![c] = r]
        BY <3>2, Zenon DEF DeleteTypes
      <4> QED  BY <4>1, <4>2 DEF DeleteTypes
    <3> QED  BY <3>1, <3>2 DEF DeleteTypes
  <2>3. ClaimTypes'
    BY <1>1 DEF DeleteBegin, ClaimTypes, NodeClaimStatus, NodeClaimPhases
  <2> QED  BY <1>1, <2>1, <2>2, <2>3 DEF DeleteBegin, cluster, bounds, CreateTypes,
             ProbeTypes, ClusterTypes, BoundTypes
<1>2. CASE Leave(c)
  <2> PICK ok \in BOOLEAN :
        /\ LeaveHost(delete[c].host, copy[Deleter(c)][delete[c].host], ok)
        /\ delete' = [delete EXCEPT ![c].pc = "dropToken", ![c].leaveOK = ok]
    BY <1>2, Zenon DEF Leave
  <2>1. DeleteTypes'
    <3> DEFINE r == [delete[c] EXCEPT !.pc = "dropToken", !.leaveOK = ok]
    <3>1. r \in DeleteCall /\ r.host \in Hosts
      BY <1>0, <1>2, Zenon DEF Leave, DeleteCall, DeletePCs
    <3>2. delete' = [delete EXCEPT ![c] = r]
      BY Zenon DEF DeleteTypes
    <3> QED  BY <3>1, <3>2 DEF DeleteTypes
  <2>2. ClusterTypes'
    <3>1. kubelet' \in {kubelet, [kubelet EXCEPT ![delete[c].host] = NoKubelet]}
      BY DEF LeaveHost, Stopped
    <3> QED  BY <1>2, <3>1 DEF Leave, ClusterTypes
  <2>3. BoundTypes'
    BY <1>2, BoundFacts DEF Leave, LeaveHost, DeleteUnchanged
  <2> QED  BY <1>2, <2>1, <2>2, <2>3 DEF Leave, DeleteUnchanged, objects,
             ObjectTypes, ClaimTypes, CreateTypes, ProbeTypes
<1>3. CASE DeleteToken(c)
  <2>1. DeleteTypes'
    BY <1>0, <1>3 DEF DeleteToken, GotoDelete, DeleteTypes, DeleteCall, DeletePCs
  <2>2. ClusterTypes' /\ BoundTypes'
    BY <1>3, BoundFacts DEF DeleteToken, DropToken, DeleteUnchanged, ClusterTypes
  <2> QED  BY <1>3, <2>1, <2>2 DEF DeleteToken, DeleteUnchanged, objects,
             ObjectTypes, ClaimTypes, CreateTypes, ProbeTypes
<1>4. CASE DeleteRelease(c)
  <2> DEFINE w == Deleter(c)
             h == delete[c].host
             new == Released(copy[w][h], delete[c].leaveOK)
  <2>1. h \in Hosts
    BY <1>0, <1>4 DEF DeleteRelease
  <2>2. new \in HostObject
    BY <1>0, <2>1, ObjectFacts DEF ObjectTypes, DeleteCall
  <2>3. Patched(w, h, new) \in HostObject
    BY <1>0, <2>1, <2>2, MergeType DEF ObjectTypes, Patched
  <2>4. ObjectTypes'
    <3>1. WriteAndForget(w, h, Patched(w, h, new)) \/ ReadCached(w, {})
      BY <1>4 DEF DeleteRelease, Forget
    <3> HIDE DEF new, h, w
    <3>2. CASE WriteAndForget(w, h, Patched(w, h, new))
      BY <1>0, <2>1, <2>3, <3>2, WriteType DEF w
    <3>3. CASE ReadCached(w, {})
      BY <1>0, <3>3, ReadCachedType DEF w
    <3> QED  BY <3>1, <3>2, <3>3
  <2>5. DeleteTypes'
    <3>1. DeleteIdle \in DeleteCall /\ DeleteIdle.pc = "idle"
      BY DEF DeleteIdle, DeleteCall, DeletePCs
    <3> QED  BY <1>4, <3>1 DEF DeleteRelease, DeleteTypes
  <2>6. BoundTypes'
    BY <1>4, BoundFacts DEF DeleteRelease, DeleteUnchanged
  <2> QED  BY <1>4, <2>4, <2>5, <2>6, Zenon DEF DeleteRelease, DeleteUnchanged, cluster,
             ClaimTypes, CreateTypes, ProbeTypes, ClusterTypes
<1> QED  BY <1>1, <1>2, <1>3, <1>4 DEF DeleteStep

\* The ways a Reconcile moves on keep its record well typed.
LEMMA ProbeRecordType ==
  ASSUME ProbeTypes, NEW h \in Hosts, NEW o \in HostObject,
         \/ ToPatch(h, o) \/ ProbeReturns(h) \/ GotoProbe(h, "deleteNode")
         \/ \E pc \in ProbePCs : probe' = [probe EXCEPT ![h].pc = pc, ![h].new = o]
  PROVE  ProbeTypes'
<1> DEFINE R(pc) == [probe[h] EXCEPT !.pc = pc, !.new = o]
           G == [probe[h] EXCEPT !.pc = "deleteNode"]
<1>0. probe[h] \in ProbeCall /\ {"patch", "deleteNode"} \subseteq ProbePCs
  BY DEF ProbeTypes, ProbePCs
<1>r. ASSUME NEW pc \in ProbePCs PROVE R(pc) \in ProbeCall
  BY <1>0, Zenon DEF ProbeCall
<1>g. G \in ProbeCall
  BY <1>0, Zenon DEF ProbeCall
<1>1. /\ \A pc \in ProbePCs : R(pc) \in ProbeCall
      /\ G \in ProbeCall /\ "patch" \in ProbePCs
  BY <1>0, <1>r, <1>g, Zenon
<1>2. ProbeIdle \in ProbeCall
  BY ObjectFacts DEF ProbeIdle, ProbeCall, ProbePCs
<1>3. \/ \E pc \in ProbePCs : probe' = [probe EXCEPT ![h] = R(pc)]
      \/ probe' = [probe EXCEPT ![h] = G]
      \/ probe' = [probe EXCEPT ![h] = ProbeIdle]
  BY <1>1, Zenon DEF ToPatch, ProbeReturns, GotoProbe, ProbeTypes
<1> HIDE DEF R, G
<1> QED  BY <1>1, <1>2, <1>3 DEF ProbeTypes

\* Every step of a Reconcile keeps the types.
LEMMA ProbeTyped ==
  ASSUME Typed, NEW h \in Hosts, ProbeStep(h) \/ ProbeError(h)
  PROVE  Typed'
<1> USE DEF Typed
<1> DEFINE w == Prober(h)
           own == copy[w][h]
           cached == copy[Cache][h]
<1>0. /\ w \in Actors /\ own \in HostObject /\ cached \in HostObject
      /\ probe[h] \in ProbeCall /\ probe[h].new \in HostObject
  BY ActorFacts DEF ObjectTypes, ProbeTypes, ProbeCall
<1>1. ASSUME ProbeBegin(h)
      PROVE  /\ ObjectTypes' /\ ClaimTypes' /\ CreateTypes' /\ DeleteTypes'
             /\ probes' \in Nat /\ UNCHANGED <<kubelet, nodes>>
  <2>1. ObjectTypes'
    BY <1>0, <1>1, ReadCachedType, Zenon DEF ProbeBegin
  <2>2. probes' \in Nat
    BY <1>1 DEF ProbeBegin, BoundTypes
  <2> QED  BY <1>1, <2>1, <2>2, Zenon DEF ProbeBegin, ClaimTypes, CreateTypes, DeleteTypes
<1>2. ASSUME NoFault \/ Fault, probes' \in Nat PROVE BoundTypes'
  BY <1>2, BoundsAssumption DEF NoFault, Fault, bounds, BoundTypes
<1>3. ASSUME ProbeUnchanged, NoFault \/ Fault \/ Failure
      PROVE  ClaimTypes' /\ CreateTypes' /\ DeleteTypes' /\ BoundTypes'
  BY <1>3, BoundFacts DEF ProbeUnchanged, ClaimTypes, CreateTypes, DeleteTypes
<1>4. CASE ProbeMaintenance(h)
  <2>1. ProbeTypes'
    BY <1>0, <1>4, ObjectFacts, ProbeRecordType DEF ProbeMaintenance
  <2>2. ClusterTypes' /\ BoundTypes'
    BY <1>1, <1>2, <1>4 DEF ProbeMaintenance, ClusterTypes
  <2> QED  BY <1>1, <1>4, <2>1, <2>2 DEF ProbeMaintenance
<1>5. CASE ProbeHeld(h)
  <2> DEFINE new == Maintained(cached)
  <2>1. new \in HostObject /\ Abandoned(new) \in HostObject
    BY <1>0, ObjectFacts
  <2>2. [new EXCEPT !.token = NoToken] \in HostObject
    BY <2>1 DEF HostObject
  <2>3. ProbeTypes'
    <3>1. \E o \in {new, Abandoned(new), [new EXCEPT !.token = NoToken]} : ToPatch(h, o)
      BY <1>5 DEF ProbeHeld
    <3> HIDE DEF new
    <3> QED  BY <2>1, <2>2, <3>1, ProbeRecordType
  <2>4. tokens' \subseteq tokens /\ (NoFault \/ Fault)
    BY <1>5 DEF ProbeHeld, DropToken
  <2>5. ClusterTypes' /\ BoundTypes'
    BY <1>1, <1>2, <1>5, <2>4 DEF ProbeHeld, ClusterTypes
  <2> QED  BY <1>1, <1>5, <2>3, <2>5 DEF ProbeHeld
<1>6. CASE ProbeFree(h)
  <2>1. ProbeTypes'
    <3>1. Maintained(cached) \in HostObject /\ "ssh" \in ProbePCs
      BY <1>0, ObjectFacts DEF ProbePCs
    <3> QED  BY <1>6, <3>1, ProbeRecordType, Zenon DEF ProbeFree
  <2>2. ClusterTypes' /\ BoundTypes'
    BY <1>1, <1>2, <1>6 DEF ProbeFree, ClusterTypes
  <2> QED  BY <1>1, <1>6, <2>1, <2>2 DEF ProbeFree
<1>7. CASE ProbeSSH(h)
  <2> DEFINE facts == Patched(w, h, probe[h].new)
  <2>1. facts \in HostObject
    BY <1>0, MergeType DEF ObjectTypes, Patched
  <2>2. ObjectTypes'
    <3>1. UNCHANGED objects \/ Write(w, h, facts) \/ ReadCached(w, {})
      BY <1>7 DEF ProbeSSH, Forget
    <3> HIDE DEF facts, w
    <3>2. CASE Write(w, h, facts)
      BY <1>0, <2>1, <3>2, WriteType
    <3>3. CASE ReadCached(w, {})
      BY <1>0, <3>3, ReadCachedType
    <3> QED  BY <3>1, <3>2, <3>3 DEF objects, ObjectTypes
  <2>3. ProbeTypes'
    <3>1. CASE \E s \in {"Unhealthy", "Available"} :
                 probe' = [probe EXCEPT ![h].pc = "patch", ![h].new.state = s,
                                        ![h].beat = TRUE]
      <4> PICK s \in {"Unhealthy", "Available"} :
             probe' = [probe EXCEPT ![h].pc = "patch", ![h].new.state = s,
                                    ![h].beat = TRUE]
        BY <3>1, Zenon
      <4> DEFINE o == [probe[h].new EXCEPT !.state = s]
                 r == [probe[h] EXCEPT !.pc = "patch", !.new = o, !.beat = TRUE]
      <4>1. o \in HostObject
        BY <1>0 DEF HostObject, HostStates
      <4>2. r \in ProbeCall
        BY <1>0, <4>1, Zenon DEF ProbeCall, ProbePCs
      <4>3. probe' = [probe EXCEPT ![h] = r]
        BY Zenon DEF ProbeTypes
      <4> QED  BY <4>2, <4>3 DEF ProbeTypes
    <3>2. CASE probe' = [probe EXCEPT ![h].pc = "zombie", ![h].new = facts]
      BY <2>1, <3>2, ProbeRecordType, Zenon DEF ProbePCs
    <3>3. CASE ProbeReturns(h)
      BY <2>1, <3>3, ProbeRecordType
    <3> QED  BY <1>7, <3>1, <3>2, <3>3 DEF ProbeSSH
  <2>4. ClusterTypes' /\ ProbeUnchanged /\ (NoFault \/ Failure)
    BY <1>7 DEF ProbeSSH, ClusterTypes, cluster
  <2> QED  BY <1>3, <2>2, <2>3, <2>4
<1>8. CASE HandleZombie(h)
  <2> DEFINE leaving == Patched(w, h, [own EXCEPT !.state = "Leaving"])
             parked == [own EXCEPT !.state = "Unhealthy"]
  <2>1. leaving \in HostObject /\ parked \in HostObject
    <3>1. [own EXCEPT !.state = "Leaving"] \in HostObject /\ parked \in HostObject
      BY <1>0 DEF HostObject, HostStates
    <3> QED  BY <1>0, <3>1, MergeType DEF ObjectTypes, Patched
  <2>2. ObjectTypes'
    <3>1. \/ UNCHANGED objects \/ Write(w, h, leaving)
          \/ WriteAndForget(w, h, leaving) \/ ReadCached(w, {})
      BY <1>8, Zenon DEF HandleZombie, Forget
    <3> HIDE DEF leaving, w
    <3>2. CASE Write(w, h, leaving) \/ WriteAndForget(w, h, leaving)
      BY <1>0, <2>1, <3>2, WriteType
    <3>3. CASE ReadCached(w, {})
      BY <1>0, <3>3, ReadCachedType
    <3> QED  BY <3>1, <3>2, <3>3 DEF objects, ObjectTypes
  <2>3. ProbeTypes'
    <3>1. CASE \E n \in NodeClaims \cup {ForeignNode, NoNode} :
                 probe' = [probe EXCEPT ![h].pc = "leave", ![h].node = n,
                                        ![h].new = leaving]
      <4> PICK n \in NodeClaims \cup {ForeignNode, NoNode} :
             probe' = [probe EXCEPT ![h].pc = "leave", ![h].node = n,
                                    ![h].new = leaving]
        BY <3>1, Zenon
      <4> HIDE DEF leaving
      <4> DEFINE r == [probe[h] EXCEPT !.pc = "leave", !.node = n, !.new = leaving]
      <4>1. r \in ProbeCall
        BY <1>0, <2>1, Zenon DEF ProbeCall, ProbePCs
      <4>2. probe' = [probe EXCEPT ![h] = r]
        BY Zenon DEF ProbeTypes
      <4> QED  BY <4>1, <4>2 DEF ProbeTypes
    <3>2. CASE ToPatch(h, parked) \/ ProbeReturns(h)
      BY <2>1, <3>2, ProbeRecordType
    <3>3. nodes[h] \subseteq NodeClaims \cup {ForeignNode}
      BY DEF ClusterTypes
    <3> QED  BY <1>8, <3>1, <3>2, <3>3, Zenon DEF HandleZombie
  <2>4. ClusterTypes' /\ ProbeUnchanged /\ (NoFault \/ Fault)
    BY <1>8, Zenon DEF HandleZombie, ClusterTypes, cluster
  <2> QED  BY <1>3, <2>2, <2>3, <2>4
<1>9. CASE ZombieLeave(h)
  <2>1. \A s \in HostStates : [own EXCEPT !.state = s] \in HostObject
    BY <1>0 DEF HostObject
  <2>2. ProbeTypes'
    <3>1. \/ GotoProbe(h, "deleteNode")
          \/ ToPatch(h, [own EXCEPT !.state = "Available"])
          \/ ToPatch(h, [own EXCEPT !.state = "Unhealthy"])
      BY <1>9 DEF ZombieLeave
    <3> QED  BY <1>0, <2>1, <3>1, ProbeRecordType DEF HostStates
  <2>3. ClusterTypes'
    <3>1. kubelet' \in {kubelet, [kubelet EXCEPT ![h] = NoKubelet]}
      BY <1>9 DEF ZombieLeave, LeaveHost, Stopped
    <3> QED  BY <1>9, <3>1 DEF ZombieLeave, ClusterTypes
  <2>4. ObjectTypes' /\ ProbeUnchanged /\ (NoFault \/ Failure)
    BY <1>9 DEF ZombieLeave, LeaveHost, ObjectTypes, objects
  <2> QED  BY <1>3, <2>2, <2>3, <2>4
<1>10. CASE ZombieDeleteNode(h)
  <2>1. [own EXCEPT !.state = "Available"] \in HostObject
    BY <1>0 DEF HostObject, HostStates
  <2>2. ProbeTypes'
    BY <1>10, <2>1, ProbeRecordType DEF ZombieDeleteNode
  <2>3. ClusterTypes'
    BY <1>10 DEF ZombieDeleteNode, ClusterTypes
  <2>4. ObjectTypes' /\ ProbeUnchanged /\ NoFault
    BY <1>10 DEF ZombieDeleteNode, ObjectTypes, objects, NoFault
  <2> QED  BY <1>3, <2>2, <2>3, <2>4
<1>11. CASE PatchStatus(h)
  <2> DEFINE m == Patched(w, h, WithReady(probe[h].new))
  <2>1. m \in HostObject
    BY <1>0, ObjectFacts, MergeType DEF ObjectTypes, Patched
  <2>2. ObjectTypes'
    <3>1. WriteAndForget(w, h, m) \/ ReadCached(w, {})
      BY <1>11 DEF PatchStatus, Forget
    <3> HIDE DEF m, w
    <3> QED  BY <1>0, <2>1, <3>1, WriteType, ReadCachedType
  <2>3. ProbeTypes'
    BY <1>0, <1>11, ProbeRecordType DEF PatchStatus
  <2>4. ClusterTypes' /\ ProbeUnchanged /\ NoFault
    BY <1>11 DEF PatchStatus, ClusterTypes, cluster, NoFault
  <2> QED  BY <1>3, <2>2, <2>3, <2>4
<1>12. CASE ProbeError(h)
  <2>1. ObjectTypes'
    BY <1>0, <1>12, ReadCachedType DEF ProbeError, Forget
  <2>2. ProbeTypes'
    BY <1>0, <1>12, ProbeRecordType DEF ProbeError
  <2>3. ClusterTypes' /\ ProbeUnchanged /\ Fault
    BY <1>12 DEF ProbeError, ClusterTypes, cluster
  <2> QED  BY <1>3, <2>1, <2>2, <2>3
<1> QED  BY <1>4, <1>5, <1>6, <1>7, <1>8, <1>9, <1>10, <1>11, <1>12 DEF ProbeStep

\* So does every step of karpenter core.
LEMMA CoreTyped ==
  ASSUME Typed, NEW c \in NodeClaims, CoreStep(c)
  PROVE  Typed'
<1> USE DEF Typed
<1>1. CASE CreateNodeClaim(c) \/ DeleteNodeClaim(c)
  <2>1. \E ph \in NodeClaimPhases : nodeClaim' = [nodeClaim EXCEPT ![c].phase = ph]
    BY <1>1 DEF CreateNodeClaim, DeleteNodeClaim, NodeClaimPhases
  <2>2. ClaimTypes'
    BY <2>1 DEF ClaimTypes, NodeClaimStatus
  <2> QED  BY <1>1, <2>2 DEF CreateNodeClaim, DeleteNodeClaim, objects, workers,
             cluster, bounds, ObjectTypes, CreateTypes, DeleteTypes, ProbeTypes,
             ClusterTypes, BoundTypes
<1>2. CASE FinalizeNodeClaim(c) \/ ForceDeleteNodeClaim(c)
  <2>1. ClaimTypes'
    <3>1. nodeClaim' = [nodeClaim EXCEPT ![c] = [phase |-> "gone", host |-> NoHost]]
      BY <1>2, Zenon DEF FinalizeNodeClaim, ForceDeleteNodeClaim
    <3>2. [phase |-> "gone", host |-> NoHost] \in NodeClaimStatus
      BY DEF NodeClaimStatus, NodeClaimPhases
    <3> QED  BY <3>1, <3>2, Zenon DEF ClaimTypes
  <2>2. ClusterTypes'
    <3>1. nodes' \in {nodes, [i \in Hosts |-> nodes[i] \ {c}]}
      BY <1>2 DEF FinalizeNodeClaim, ForceDeleteNodeClaim, cluster
    <3> QED  BY <1>2, <3>1 DEF FinalizeNodeClaim, ForceDeleteNodeClaim, cluster,
               ClusterTypes
  <2>3. BoundTypes'
    BY <1>2, BoundFacts DEF FinalizeNodeClaim, ForceDeleteNodeClaim, NoFault
  <2> QED  BY <1>2, <2>1, <2>2, <2>3 DEF FinalizeNodeClaim, ForceDeleteNodeClaim,
             objects, workers, ObjectTypes, CreateTypes, DeleteTypes, ProbeTypes
<1> QED  BY <1>1, <1>2 DEF CoreStep

\* So does every step of the informer, the hosts and the operator.
LEMMA HostTyped ==
  ASSUME Typed, NEW h \in Hosts,
         \/ Sync(h) \/ Register(h) \/ RemoveForeign(h) \/ Annotate(h)
         \/ \E c \in NodeClaims : CollectNode(h, c)
  PROVE  Typed'
<1> USE DEF Typed
<1>1. CASE Sync(h)
  <2>1. ObjectTypes'
    BY <1>1, ActorFacts DEF Sync, ObjectTypes
  <2> QED  BY <1>1, <2>1 DEF Sync, workers, cluster, bounds, ClaimTypes,
             CreateTypes, DeleteTypes, ProbeTypes, ClusterTypes, BoundTypes
<1>2. CASE Register(h)
  <2>1. kubelet[h] \in JoinedKubelet
    BY <1>2 DEF Register, ClusterTypes
  <2>2. ClusterTypes'
    <3> DEFINE k == [kubelet[h] EXCEPT !.cert = TRUE, !.token = NoToken]
    <3>1. k \in JoinedKubelet /\ kubelet[h].claim \in NodeClaims
      BY <2>1, Zenon DEF JoinedKubelet
    <3>2. kubelet' = [kubelet EXCEPT ![h] = k]
      BY <1>2, Zenon DEF Register, ClusterTypes
    <3> HIDE DEF k
    <3> QED  BY <1>2, <3>1, <3>2, ZenonT(30) DEF Register, ClusterTypes
  <2> QED  BY <1>2, <2>2 DEF Register, objects, workers, bounds, ObjectTypes,
             ClaimTypes, CreateTypes, DeleteTypes, ProbeTypes, BoundTypes
<1>3. CASE RemoveForeign(h) \/ \E c \in NodeClaims : CollectNode(h, c)
  <2>1. ClusterTypes'
    BY <1>3, Zenon DEF RemoveForeign, CollectNode, Stopped, ClusterTypes
  <2> QED  BY <1>3, <2>1, Zenon DEF RemoveForeign, CollectNode, objects, workers, bounds,
             ObjectTypes, ClaimTypes, CreateTypes, DeleteTypes, ProbeTypes, BoundTypes
<1>4. CASE Annotate(h)
  <2>1. ObjectTypes'
    <3> DEFINE b == ~sshHost[h].maint
               o == [sshHost[h] EXCEPT !.maint = b]
    <3>0. sshHost[h] \in HostObject /\ b \in BOOLEAN
      BY Zenon DEF ObjectTypes, HostObject
    <3> HIDE DEF b
    <3>1. o \in HostObject
      BY <3>0, Zenon DEF HostObject
    <3>2. sshHost' = [sshHost EXCEPT ![h] = o]
      BY <1>4 DEF Annotate, ObjectTypes, b
    <3> HIDE DEF o
    <3> QED  BY <1>4, <3>1, <3>2, Zenon DEF Annotate, ObjectTypes
  <2>2. BoundTypes'
    BY <1>4, BoundFacts DEF Annotate
  <2> QED  BY <1>4, <2>1, <2>2 DEF Annotate, workers, cluster, ClaimTypes,
             CreateTypes, DeleteTypes, ProbeTypes, ClusterTypes
<1> QED  BY <1>1, <1>2, <1>3, <1>4

\* A restart keeps the types.
LEMMA CrashTyped ==
  ASSUME Typed, Crash
  PROVE  Typed'
<1> USE DEF Typed
<1>1. ObjectTypes'
  BY ActorFacts, ObjectFacts DEF Crash, ObjectTypes, NoCopies
<1>2. CreateTypes'
  BY DEF Crash, CreateTypes, CreateCall, CreateIdle, CreatePCs, HoldingPCs
<1>3. DeleteTypes'
  BY DEF Crash, DeleteTypes, DeleteCall, DeleteIdle, DeletePCs
<1>4. ProbeTypes'
  BY ObjectFacts DEF Crash, ProbeTypes, ProbeCall, ProbeIdle, ProbePCs
<1>5. BoundTypes'
  BY BoundFacts DEF Crash
<1> QED  BY <1>1, <1>2, <1>3, <1>4, <1>5 DEF Crash, ClaimTypes, cluster, ClusterTypes

\* Every step keeps the types.
LEMMA NextTyped == Typed /\ [Next]_vars => Typed'
<1> SUFFICES ASSUME Typed, [Next]_vars PROVE Typed'  OBVIOUS
<1>1. ASSUME NEW c \in NodeClaims, CreateStep(c) PROVE Typed'
  BY <1>1, CreateTyped
<1>2. ASSUME NEW c \in NodeClaims, DeleteStep(c) PROVE Typed'
  BY <1>2, DeleteTyped
<1>3. ASSUME NEW h \in Hosts, ProbeStep(h) \/ ProbeError(h) PROVE Typed'
  BY <1>3, ProbeTyped
<1>4. ASSUME NEW c \in NodeClaims, CoreStep(c) PROVE Typed'
  BY <1>4, CoreTyped
<1>5. CASE Crash
  BY <1>5, CrashTyped
<1>6. CASE UNCHANGED vars
  BY <1>6, Zenon DEF vars, objects, workers, cluster, bounds, Typed, ObjectTypes,
     ClaimTypes, CreateTypes, DeleteTypes, ProbeTypes, ClusterTypes, BoundTypes
<1> QED  BY <1>1, <1>2, <1>3, <1>4, <1>5, <1>6, HostTyped DEF Next

\* Type correctness: every object, every call in progress and the whole
\* cluster state stay well formed, whatever the number of hosts, NodeClaims and
\* tokens and however many disturbances there are.
THEOREM TypeCorrect == Spec => []TypeOK
<1>1. Spec => []Typed
  BY InitTyped, NextTyped, PTL DEF Spec
<1> QED  BY <1>1, TypedImpliesTypeOK, PTL

=============================================================================
