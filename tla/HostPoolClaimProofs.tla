------------------------ MODULE HostPoolClaimProofs -------------------------
(***************************************************************************)
(* The claim on a host and the copies of it, for any number of hosts,      *)
(* NodeClaims and tokens and any bounds: claim and state always agree, and *)
(* nothing but the zombie guard touches a host while it is Leaving.        *)
(*                                                                         *)
(* The inductive invariant ClaimInv says of every worker what its copy may *)
(* differ in from the object on the server: nothing the next write is      *)
(* based on, as long as the copy is fresh.  First how steps leave the      *)
(* bystanders' part of it alone, then one lemma per worker.                *)
(***************************************************************************)
EXTENDS HostPoolProofs

\* A claim is held exactly in the states that say so.
Consistent(o) == o.claim # NoClaim <=> o.state \in HeldStates

\* The server's objects.
HostsConsistent == \A h \in Hosts : Consistent(sshHost[h])

\* The informer cache holds objects that once were on the server.
CacheOK ==
  \A h \in Hosts : /\ Consistent(copy[Cache][h])
                   /\ Cache \in fresh[h] => copy[Cache][h] = sshHost[h]

\* A Create that will still write: its copies show its own claim or candidates.
\* After an error its copy may carry changes the server lacks, never in the
\* claim, the state or the providerID.
CreatorOK(c) ==
  create[c].pc \in HoldingPCs \cup {"claim"} =>
    /\ \A h \in Hosts :
         /\ Consistent(copy[Creator(c)][h])
         /\ Creator(c) \in fresh[h] =>
              /\ copy[Creator(c)][h].state = sshHost[h].state
              /\ copy[Creator(c)][h].claim = sshHost[h].claim
              /\ copy[Creator(c)][h].pid = sshHost[h].pid
    /\ create[c].pc \in HoldingPCs => copy[Creator(c)][create[c].host].claim = c
    /\ create[c].pc = "claim" =>
         \A h \in create[c].cands :
           /\ Claimable(copy[Creator(c)][h])
           /\ Creator(c) \in fresh[h] => copy[Creator(c)][h] = sshHost[h]

\* A Delete in progress works on a copy with its own claim.
DeleterOK(c) ==
  delete[c].pc # "idle" =>
    /\ copy[Deleter(c)][delete[c].host].claim = c
    /\ Deleter(c) \in fresh[delete[c].host] =>
         copy[Deleter(c)][delete[c].host] = sshHost[delete[c].host]

\* A Reconcile in progress: what it is about to write is consistent, and
\* unless that is all it has left to do the host is free.
ProberOK(h) ==
  probe[h].pc # "idle" =>
    /\ Prober(h) \in fresh[h] => copy[Prober(h)][h] = sshHost[h]
    /\ Consistent(probe[h].new)
    /\ probe[h].pc # "patch" => /\ probe[h].new.claim = NoClaim
                                /\ copy[Prober(h)][h].claim = NoClaim

\* The Leaving fence.
Fenced(h) ==
  probe[h].pc \in {"leave", "deleteNode"} =>
    sshHost[h].state = "Leaving" /\ sshHost[h].claim = NoClaim

ClaimInv ==
  /\ Typed
  /\ HostsConsistent /\ CacheOK
  /\ \A c \in NodeClaims : CreatorOK(c) /\ DeleterOK(c)
  /\ \A h \in Hosts : ProberOK(h) /\ Fenced(h)

-----------------------------------------------------------------------------
(* Steps on objects, seen by everyone but the actor.                       *)

\* v's copies stay, and none becomes fresh or outlives a write.
Undisturbed(v) ==
  /\ copy'[v] = copy[v]
  /\ \A h \in Hosts : v \in fresh'[h] => v \in fresh[h] /\ sshHost'[h] = sshHost[h]

\* No host leaves the Leaving state.
LeavingStays ==
  \A h \in Hosts :
    sshHost[h].state = "Leaving" /\ sshHost[h].claim = NoClaim =>
      sshHost'[h].state = "Leaving" /\ sshHost'[h].claim = NoClaim

\* Reading the cache, patching and mutating one's own copy disturb no one else.
LEMMA OthersUndisturbed ==
  ASSUME ObjectTypes, NEW w \in Actors, NEW h \in Hosts, NEW H, NEW m, NEW n,
         \/ ReadCached(w, H) \/ Write(w, h, m) \/ WriteAndForget(w, h, m)
         \/ PatchError(w, h, n) \/ UNCHANGED objects
         \/ copy' = [copy EXCEPT ![w][h] = m] /\ UNCHANGED <<sshHost, fresh>>
         \/ /\ sshHost' = [sshHost EXCEPT ![h] = m]
            /\ fresh' = [fresh EXCEPT ![h] = {}] /\ UNCHANGED copy,
         NEW v \in Actors, v # w
  PROVE  Undisturbed(v)
<1>1. CASE ReadCached(w, H)
  BY <1>1 DEF ReadCached, ObjectTypes, Undisturbed
<1>2. CASE Write(w, h, m)
  BY <1>2 DEF Write, ObjectTypes, Undisturbed
<1>3. CASE WriteAndForget(w, h, m)
  BY <1>3 DEF WriteAndForget, ObjectTypes, Undisturbed
<1>4. CASE PatchError(w, h, n)
  BY <1>4 DEF PatchError, ObjectTypes, Undisturbed
<1>5. CASE UNCHANGED objects
  BY <1>5 DEF objects, ObjectTypes, Undisturbed
<1>6. CASE copy' = [copy EXCEPT ![w][h] = m] /\ UNCHANGED <<sshHost, fresh>>
  BY <1>6 DEF ObjectTypes, Undisturbed
<1>7. CASE /\ sshHost' = [sshHost EXCEPT ![h] = m]
           /\ fresh' = [fresh EXCEPT ![h] = {}] /\ UNCHANGED copy
  BY <1>7 DEF ObjectTypes, Undisturbed
<1> QED  BY <1>1, <1>2, <1>3, <1>4, <1>5, <1>6, <1>7

\* What the invariant says of the cache survives the steps of the others ...
LEMMA BystanderCache ==
  ASSUME CacheOK, Undisturbed(Cache) PROVE CacheOK'
BY DEF CacheOK, Undisturbed, Consistent
\* ... of a Create ...
LEMMA BystanderCreator ==
  ASSUME NEW c \in NodeClaims, CreateTypes, CreatorOK(c), Undisturbed(Creator(c)),
         create'[c] = create[c]
  PROVE  CreatorOK(c)'
<1>1. create[c].cands \subseteq Hosts
  BY DEF CreateTypes, CreateCall
<1> QED  BY <1>1 DEF CreatorOK, Undisturbed, Consistent, Claimable
\* ... of a Delete ...
LEMMA BystanderDeleter ==
  ASSUME NEW c \in NodeClaims, DeleteTypes, DeleterOK(c), Undisturbed(Deleter(c)),
         delete'[c] = delete[c]
  PROVE  DeleterOK(c)'
BY DEF DeleterOK, Undisturbed, DeleteTypes
\* ... of a Reconcile ...
LEMMA BystanderProber ==
  ASSUME NEW h \in Hosts, ProberOK(h), Undisturbed(Prober(h)), probe'[h] = probe[h]
  PROVE  ProberOK(h)'
BY DEF ProberOK, Undisturbed, Consistent
\* ... and of the fence, if they take no host out of Leaving.
LEMMA BystanderFence ==
  ASSUME NEW h \in Hosts, Fenced(h), LeavingStays, probe'[h] = probe[h]
  PROVE  Fenced(h)'
BY DEF Fenced, LeavingStays

\* A patch whose writer saw the server's claim and state leaves the claim and
\* the state it asked for; one that saw the whole object leaves all it asked for.
LEMMA PatchFacts ==
  ASSUME NEW s \in HostObject, NEW o \in HostObject, NEW n \in HostObject
  PROVE  LET m == MergePatch(s, o, n) IN
         /\ s.state = o.state => m.state = n.state
         /\ s.claim = o.claim => m.claim = n.claim
         /\ s.pid = o.pid => m.pid = n.pid
BY DEF HostObject, MergePatch, Merge

\* The same of the object that a patch by w leaves on host h.
LEMMA PatchedFacts ==
  ASSUME ObjectTypes, NEW w \in Actors, NEW h \in Hosts, NEW n \in HostObject
  PROVE  /\ Patched(w, h, n) \in HostObject
         /\ sshHost[h].state = copy[w][h].state => Patched(w, h, n).state = n.state
         /\ sshHost[h].claim = copy[w][h].claim => Patched(w, h, n).claim = n.claim
         /\ sshHost[h].pid = copy[w][h].pid => Patched(w, h, n).pid = n.pid
<1> DEFINE s == sshHost[h]
           o == copy[w][h]
<1>1. s \in HostObject /\ o \in HostObject
  BY DEF ObjectTypes
<1>2. Patched(w, h, n) = MergePatch(s, o, n)
  BY DEF Patched
<1> HIDE DEF s, o
<1>3. /\ MergePatch(s, o, n) \in HostObject
      /\ s.state = o.state => MergePatch(s, o, n).state = n.state
      /\ s.claim = o.claim => MergePatch(s, o, n).claim = n.claim
      /\ s.pid = o.pid => MergePatch(s, o, n).pid = n.pid
  BY <1>1, MergeType, PatchFacts
<1> QED  BY <1>2, <1>3 DEF s, o

\* A step of one Create preserves the invariant if it does so for the server's
\* objects and for itself.
LEMMA CreateFrame ==
  ASSUME ClaimInv, NEW c \in NodeClaims, Typed',
         \A v \in Actors \ {Creator(c)} : Undisturbed(v),
         \A d \in NodeClaims \ {c} : create'[d] = create[d],
         UNCHANGED <<delete, probe>>,
         LeavingStays, HostsConsistent', CreatorOK(c)'
  PROVE  ClaimInv'
<1> USE DEF ClaimInv
<1>1. CacheOK'
  BY ActorFacts, BystanderCache
<1>2. ASSUME NEW d \in NodeClaims PROVE CreatorOK(d)'
  BY ActorFacts, BystanderCreator DEF Typed
<1>3. ASSUME NEW d \in NodeClaims PROVE DeleterOK(d)'
  BY ActorFacts, BystanderDeleter DEF Typed
<1>4. ASSUME NEW h \in Hosts PROVE ProberOK(h)' /\ Fenced(h)'
  BY ActorFacts, BystanderProber, BystanderFence
<1> QED  BY <1>1, <1>2, <1>3, <1>4

\* The same for a step of one Delete ...
LEMMA DeleteFrame ==
  ASSUME ClaimInv, NEW c \in NodeClaims, Typed',
         \A v \in Actors \ {Deleter(c)} : Undisturbed(v),
         \A d \in NodeClaims \ {c} : delete'[d] = delete[d],
         UNCHANGED <<create, probe>>,
         LeavingStays, HostsConsistent', DeleterOK(c)'
  PROVE  ClaimInv'
<1> USE DEF ClaimInv
<1>1. CacheOK'
  BY ActorFacts, BystanderCache
<1>2. ASSUME NEW d \in NodeClaims PROVE CreatorOK(d)'
  BY ActorFacts, BystanderCreator DEF Typed
<1>3. ASSUME NEW d \in NodeClaims PROVE DeleterOK(d)'
  BY ActorFacts, BystanderDeleter DEF Typed
<1>4. ASSUME NEW h \in Hosts PROVE ProberOK(h)' /\ Fenced(h)'
  BY ActorFacts, BystanderProber, BystanderFence, Zenon
<1> QED  BY <1>1, <1>2, <1>3, <1>4

\* ... and of one Reconcile, which may take its own host out of Leaving.
LEMMA ProbeFrame ==
  ASSUME ClaimInv, NEW h \in Hosts, Typed',
         \A v \in Actors \ {Prober(h)} : Undisturbed(v),
         \A i \in Hosts \ {h} : probe'[i] = probe[i] /\ sshHost'[i] = sshHost[i],
         UNCHANGED <<create, delete>>,
         HostsConsistent', ProberOK(h)', Fenced(h)'
  PROVE  ClaimInv'
<1> USE DEF ClaimInv
<1>1. CacheOK'
  BY ActorFacts, BystanderCache
<1>2. ASSUME NEW d \in NodeClaims PROVE CreatorOK(d)' /\ DeleterOK(d)'
  BY ActorFacts, BystanderCreator, BystanderDeleter, Zenon DEF Typed
<1>3. ASSUME NEW i \in Hosts PROVE ProberOK(i)' /\ Fenced(i)'
  <2>1. CASE i = h
    BY <2>1
  <2>2. CASE i # h
    BY <2>2, ActorFacts, BystanderProber, Zenon DEF Fenced
  <2> QED  BY <2>1, <2>2
<1> QED  BY <1>1, <1>2, <1>3

\* The shared part of every status write of a Create: it keeps the claim, and
\* if the launch goes on after a failure the state and the providerID too.
LEMMA SetStatusClaim ==
  ASSUME ClaimInv, NEW c \in NodeClaims, create[c].pc \in HoldingPCs,
         NEW n \in HostObject, NEW ok \in CreatePCs, NEW fail \in CreatePCs,
         ok # "claim", fail # "claim", n.claim = Own(c).claim,
         n.state = Own(c).state \/ n.state \in HeldStates,
         fail \in HoldingPCs => n.state = Own(c).state /\ n.pid = Own(c).pid,
         SetStatus(c, n, ok, fail)
  PROVE  ClaimInv'
<1> DEFINE w == Creator(c)
           h == create[c].host
           m == Patched(w, h, n)
<1> USE DEF ClaimInv
<1>1. Typed'
  BY SetStatusType
<1>2. w \in Actors /\ h \in Hosts /\ c # NoClaim /\ "claim" \notin HoldingPCs
  BY ActorFacts, NoClaimAssumption DEF Typed, CreateTypes, HoldingPCs
<1>3. /\ copy[w][h].claim = c /\ Consistent(copy[w][h])
      /\ w \in fresh[h] => /\ copy[w][h].state = sshHost[h].state
                          /\ copy[w][h].claim = sshHost[h].claim
                          /\ copy[w][h].pid = sshHost[h].pid
  BY <1>2 DEF CreatorOK
<1>4. n.claim = c /\ Consistent(n)
  BY <1>2, <1>3 DEF Own, Consistent
<1>5. w \in fresh[h] =>
        /\ sshHost[h].claim = c /\ m.claim = c /\ m.state = n.state /\ Consistent(m)
  <2> HIDE DEF w, h
  <2>1. w \in fresh[h] => m.claim = n.claim /\ m.state = n.state
    BY <1>2, <1>3, PatchedFacts DEF Typed
  <2> HIDE DEF m
  <2> QED  BY <1>3, <1>4, <2>1 DEF Consistent
<1>6. \/ /\ w \in fresh[h] /\ m = sshHost[h]
         /\ copy' = [copy EXCEPT ![w][h] = m] /\ UNCHANGED <<sshHost, fresh>>
         /\ GotoCreate(c, ok)
      \/ w \in fresh[h] /\ Write(w, h, m) /\ GotoCreate(c, ok)
      \/ /\ w \notin fresh[h] /\ copy[Cache][h].claim = copy[w][h].claim
         /\ ReadCached(w, {h})
         /\ UNCHANGED create \/ GotoCreate(c, fail)
      \/ /\ w \notin fresh[h]
         /\ copy' = [copy EXCEPT ![w][h] = n] /\ UNCHANGED <<sshHost, fresh>>
         /\ GotoCreate(c, fail)
      \/ PatchError(w, h, n) /\ GotoCreate(c, fail)
  BY DEF SetStatus
<1>7. UNCHANGED <<delete, probe>>
  BY DEF SetStatus, CreateUnchanged
<1>8. /\ \A d \in NodeClaims \ {c} : create'[d] = create[d]
      /\ create'[c].host = h /\ create'[c].pc \in {create[c].pc, ok, fail}
      /\ GotoCreate(c, ok) => create'[c].pc = ok
      /\ GotoCreate(c, fail) => create'[c].pc = fail
  <2>1. UNCHANGED create \/ GotoCreate(c, ok) \/ GotoCreate(c, fail)
    BY <1>6
  <2> QED  BY <2>1 DEF GotoCreate, Typed, CreateTypes, CreateCall
<1>9. NewHost.claim = NoClaim /\ Consistent(NewHost)
  BY DEF NewHost, Consistent, HeldStates
<1> HIDE DEF w, h, m
<1>10. \A v \in Actors \ {w} : Undisturbed(v)
  BY <1>2, <1>6, OthersUndisturbed DEF Typed
<1>11. HostsConsistent' /\ LeavingStays
  <2>1. \/ sshHost' = sshHost
        \/ w \in fresh[h] /\ sshHost' = [sshHost EXCEPT ![h] = m]
    BY <1>6 DEF Write, ReadCached, PatchError, m
  <2> QED  BY <1>2, <1>5, <2>1 DEF HostsConsistent, LeavingStays, Typed, ObjectTypes,
             Consistent
<1>12. CreatorOK(c)'
  <2> DEFINE OK(i) == /\ Consistent(copy'[w][i])
                      /\ w \in fresh'[i] => /\ copy'[w][i].state = sshHost'[i].state
                                           /\ copy'[w][i].claim = sshHost'[i].claim
                                           /\ copy'[w][i].pid = sshHost'[i].pid
  <2>1. SUFFICES ASSUME create'[c].pc \in HoldingPCs
                 PROVE  (\A i \in Hosts : OK(i)) /\ copy'[w][h].claim = c
    BY <1>2, <1>8, Zenon DEF CreatorOK, Consistent, w, HoldingPCs
  <2>2. \A i \in Hosts : /\ Consistent(copy[w][i])
                         /\ w \in fresh[i] => /\ copy[w][i].state = sshHost[i].state
                                             /\ copy[w][i].claim = sshHost[i].claim
                                             /\ copy[w][i].pid = sshHost[i].pid
    BY DEF CreatorOK, w
  <2>3. \A i \in Hosts : /\ Consistent(copy[Cache][i])
                         /\ Cache \in fresh[i] => copy[Cache][i] = sshHost[i]
    BY DEF CacheOK
  <2>4. GotoCreate(c, fail) => n.state = copy[w][h].state /\ n.pid = copy[w][h].pid
    BY <1>8, <2>1 DEF Own, w, h
  <2>5. CASE /\ w \in fresh[h] /\ m = sshHost[h]
             /\ copy' = [copy EXCEPT ![w][h] = m] /\ UNCHANGED <<sshHost, fresh>>
    BY <1>2, <1>5, <2>2, <2>5 DEF Typed, ObjectTypes, Consistent
  <2>6. CASE w \in fresh[h] /\ Write(w, h, m)
    <3>1. /\ copy'[w][h] = m /\ sshHost'[h] = m
          /\ \A i \in Hosts \ {h} : copy'[w][i] = NewHost /\ w \notin fresh'[i]
      BY <1>2, <2>6 DEF Write, NoCopies, Typed, ObjectTypes
    <3> QED  BY <1>2, <1>5, <1>9, <2>6, <3>1 DEF Consistent
  <2>7. CASE ReadCached(w, {h}) /\ copy[Cache][h].claim = copy[w][h].claim
    <3>1. /\ copy'[w][h] = copy[Cache][h] /\ sshHost' = sshHost
          /\ w \in fresh'[h] => Cache \in fresh[h]
          /\ \A i \in Hosts \ {h} : copy'[w][i] = NewHost /\ w \notin fresh'[i]
      BY <1>2, <2>7 DEF ReadCached, Typed, ObjectTypes
    <3> QED  BY <1>2, <1>3, <1>9, <2>3, <2>7, <3>1 DEF Consistent
  <2>8. CASE /\ w \notin fresh[h] /\ GotoCreate(c, fail)
             /\ copy' = [copy EXCEPT ![w][h] = n] /\ UNCHANGED <<sshHost, fresh>>
    BY <1>2, <1>4, <2>2, <2>8 DEF Typed, ObjectTypes, Consistent
  <2>9. CASE PatchError(w, h, n) /\ GotoCreate(c, fail)
    <3>1. /\ copy'[w][h] = n
          /\ \A i \in Hosts \ {h} : /\ copy'[w][i] = copy[w][i]
                                    /\ sshHost'[i] = sshHost[i] /\ fresh'[i] = fresh[i]
          /\ w \in fresh'[h] => w \in fresh[h] /\ sshHost'[h] = sshHost[h]
      BY <1>2, <2>9 DEF PatchError, Typed, ObjectTypes
    <3> QED  BY <1>3, <1>4, <2>2, <2>4, <2>9, <3>1 DEF Consistent
  <2> QED  BY <1>6, <2>5, <2>6, <2>7, <2>8, <2>9
<1> QED  BY <1>1, <1>7, <1>8, <1>10, <1>11, <1>12, CreateFrame DEF w

\* A step of a Create that touches no object and either keeps its host or is
\* done writing.
LEMMA CreateLocal ==
  ASSUME ClaimInv, Typed', NEW c \in NodeClaims, UNCHANGED <<objects, delete, probe>>,
         \A d \in NodeClaims \ {c} : create'[d] = create[d],
         \/ create'[c].pc \notin HoldingPCs \cup {"claim"}
         \/ /\ create[c].pc \in HoldingPCs /\ create'[c].pc \in HoldingPCs
            /\ create'[c].host = create[c].host
         \/ /\ create[c].pc = "claim" /\ create'[c].pc = "claim"
            /\ create'[c].cands \subseteq create[c].cands
  PROVE  ClaimInv'
<1> USE DEF ClaimInv
<1>1. UNCHANGED <<sshHost, copy, fresh>>
  BY DEF objects
<1>2. CreatorOK(c)'
  BY <1>1, Zenon DEF CreatorOK, Consistent, Claimable, HoldingPCs
<1>3. HostsConsistent' /\ LeavingStays /\ \A v \in Actors : Undisturbed(v)
  BY <1>1 DEF HostsConsistent, Consistent, LeavingStays, Undisturbed
<1> QED  BY <1>2, <1>3, CreateFrame

\* A host found held by c in the cache carries exactly c's claim: every
\* NodeClaim has a UID of its own.
LEMMA HeldIsMine ==
  ASSUME NEW o \in HostObject, NEW c \in NodeClaims, ClaimHeldBy(o, c)
  PROVE  o.claim = c
BY UIDAssumption DEF HostObject, ClaimHeldBy

\* Every step of a Create preserves the invariant.
LEMMA CreateClaim ==
  ASSUME ClaimInv, NEW c \in NodeClaims, CreateStep(c)
  PROVE  ClaimInv'
<1> DEFINE w == Creator(c)
<1> USE DEF ClaimInv
<1>0. /\ w \in Actors /\ w # Cache /\ create[c] \in CreateCall /\ c # NoClaim
      /\ "claim" \notin HoldingPCs /\ NewHost.claim = NoClaim /\ Consistent(NewHost)
  BY ActorFacts, NoClaimAssumption
     DEF Typed, CreateTypes, HoldingPCs, NewHost, Consistent, HeldStates
<1>t. Typed'
  BY CreateTyped
<1>1. CASE CreateBegin(c)
  <2> DEFINE held == {h \in Hosts : ClaimHeldBy(copy[Cache][h], c)}
             cands == {h \in Hosts : Claimable(copy[Cache][h])}
  <2>1. CASE UNCHANGED objects /\ GotoCreate(c, "exhausted")
    <3>1. /\ create'[c].pc \notin HoldingPCs \cup {"claim"}
          /\ \A d \in NodeClaims \ {c} : create'[d] = create[d]
      BY <2>1 DEF HoldingPCs, GotoCreate, Typed, CreateTypes, CreateCall
    <3>2. UNCHANGED <<objects, delete, probe>>
      BY <1>1, <2>1 DEF CreateBegin, CreateUnchanged
    <3> QED  BY <1>t, <3>1, <3>2, CreateLocal
  <2>2. ASSUME NEW H \in SUBSET Hosts, ReadCached(w, H),
               \A d \in NodeClaims \ {c} : create'[d] = create[d],
               \/ create'[c].pc = "prepare" /\ create'[c].host \in H \cap held
               \/ create'[c].pc = "claim" /\ create'[c].cands = H /\ H = cands
        PROVE  ClaimInv'
    <3>1. /\ sshHost' = sshHost
          /\ \A h \in Hosts :
               /\ copy'[w][h] = IF h \in H THEN copy[Cache][h] ELSE NewHost
               /\ w \in fresh'[h] => h \in H /\ Cache \in fresh[h]
      BY <1>0, <2>2 DEF ReadCached, Typed, ObjectTypes
    <3>2. \A h \in Hosts : /\ copy[Cache][h] \in HostObject
                           /\ Consistent(copy[Cache][h])
                           /\ Cache \in fresh[h] => copy[Cache][h] = sshHost[h]
      BY ActorFacts DEF Typed, ObjectTypes, CacheOK
    <3>3. \A h \in held : copy[Cache][h].claim = c
      BY <3>2, HeldIsMine
    <3>4. CreatorOK(c)'
      <4>1. \A h \in Hosts :
              /\ Consistent(copy'[w][h])
              /\ w \in fresh'[h] => copy'[w][h] = sshHost'[h]
        BY <1>0, <3>1, <3>2 DEF Consistent
      <4>2. create'[c].pc \in HoldingPCs => copy'[w][create'[c].host].claim = c
        BY <1>0, <2>2, <3>1, <3>3
      <4>3. create'[c].pc = "claim" =>
              create'[c].cands \subseteq Hosts
                /\ \A h \in create'[c].cands : Claimable(copy'[w][h])
        BY <2>2, <3>1 DEF Claimable
      <4> QED  BY <4>1, <4>2, <4>3 DEF CreatorOK, Consistent, Claimable
    <3>5. HostsConsistent' /\ LeavingStays
      BY <3>1 DEF HostsConsistent, Consistent, LeavingStays
    <3>6. \A v \in Actors \ {w} : Undisturbed(v)
      BY <1>0, <2>2 DEF Typed, ObjectTypes, ReadCached, Undisturbed
    <3>7. UNCHANGED <<delete, probe>>
      BY <1>1 DEF CreateBegin, CreateUnchanged
    <3> QED  BY <1>t, <2>2, <3>4, <3>5, <3>6, <3>7, CreateFrame
  <2>3. ASSUME NEW h \in held, ReadCached(w, {h}),
               create' = [create EXCEPT ![c].pc = "prepare", ![c].host = h]
        PROVE  ClaimInv'
    <3>1. /\ \A d \in NodeClaims \ {c} : create'[d] = create[d]
          /\ create'[c].pc = "prepare" /\ create'[c].host = h
      BY <2>3 DEF Typed, CreateTypes, CreateCall
    <3> QED  BY <2>2, <2>3, <3>1, Zenon
  <2>4. CASE /\ ReadCached(w, cands)
             /\ create' = [create EXCEPT ![c].pc = "claim", ![c].cands = cands]
    <3>1. /\ \A d \in NodeClaims \ {c} : create'[d] = create[d]
          /\ create'[c].pc = "claim" /\ create'[c].cands = cands
      BY <2>4 DEF Typed, CreateTypes, CreateCall
    <3> QED  BY <2>2, <2>4, <3>1, Zenon
  <2> QED  BY <1>1, <2>1, <2>3, <2>4, Zenon DEF CreateBegin, ByClaim, Available
<1>2. CASE ClaimHost(c)
  <2> DEFINE mine(h) == ClaimedBy(copy[w][h], c)
  <2>1. /\ create[c].pc = "claim" /\ UNCHANGED <<delete, probe>>
        /\ create[c].cands \subseteq Hosts
    BY <1>0, <1>2 DEF ClaimHost, CreateUnchanged, CreateCall
  <2>2. ASSUME NEW h \in create[c].cands, w \in fresh[h]
        PROVE  /\ sshHost[h].state = "Available"
               /\ mine(h).claim = c /\ Consistent(mine(h))
    <3>1. copy[w][h] \in HostObject
      BY <1>0, <2>1 DEF Typed, ObjectTypes
    <3>2. sshHost[h].state = "Available"
      BY <2>1, <2>2 DEF CreatorOK, Claimable
    <3> QED  BY <1>0, <3>1, <3>2 DEF HostObject, ClaimedBy, Consistent, HeldStates
  <2>3. ASSUME NEW h \in create[c].cands, w \in fresh[h], Write(w, h, mine(h)),
               create' = [create EXCEPT ![c].pc = "prepare", ![c].host = h,
                                        ![c].cands = {}]
        PROVE  ClaimInv'
    <3>1. /\ \A d \in NodeClaims \ {c} : create'[d] = create[d]
          /\ create'[c].pc = "prepare" /\ create'[c].host = h
      BY <2>3 DEF Typed, CreateTypes, CreateCall
    <3> HIDE DEF mine
    <3>2. /\ copy'[w][h] = mine(h) /\ sshHost'[h] = mine(h)
          /\ \A i \in Hosts \ {h} : /\ copy'[w][i] = NewHost /\ w \notin fresh'[i]
                                    /\ sshHost'[i] = sshHost[i]
      BY <1>0, <2>1, <2>3 DEF Write, NoCopies, Typed, ObjectTypes
    <3>3. CreatorOK(c)'
      BY <1>0, <2>2, <2>3, <3>1, <3>2 DEF CreatorOK, Consistent
    <3>4. HostsConsistent' /\ LeavingStays
      BY <2>2, <2>3, <3>2 DEF HostsConsistent, Consistent, LeavingStays
    <3>5. \A v \in Actors \ {w} : Undisturbed(v)
      BY <1>0, <2>1, <2>3 DEF Typed, ObjectTypes, Write, Undisturbed
    <3> QED  BY <1>t, <2>1, <3>1, <3>3, <3>4, <3>5, CreateFrame
  <2>4. ASSUME NEW h \in create[c].cands, UNCHANGED objects,
               create' = [create EXCEPT ![c].cands = create[c].cands \ {h},
                 ![c].pc = IF create[c].cands \ {h} = {} THEN "exhausted" ELSE "claim"]
        PROVE  ClaimInv'
    <3>1. /\ \A d \in NodeClaims \ {c} : create'[d] = create[d]
          /\ create'[c].pc \in {"exhausted", "claim"}
          /\ create'[c].cands = create[c].cands \ {h}
      BY <2>4 DEF Typed, CreateTypes, CreateCall
    <3> QED  BY <1>t, <2>1, <2>4, <3>1, CreateLocal, Zenon DEF HoldingPCs
  <2>5. ASSUME NEW h \in create[c].cands, GotoCreate(c, "failed"),
               \/ UNCHANGED objects
               \/ /\ w \in fresh[h]
                  /\ sshHost' = [sshHost EXCEPT ![h] = mine(h)]
                  /\ fresh' = [fresh EXCEPT ![h] = {}]
                  /\ UNCHANGED copy
        PROVE  ClaimInv'
    <3>1. /\ \A d \in NodeClaims \ {c} : create'[d] = create[d]
          /\ create'[c].pc \notin HoldingPCs \cup {"claim"}
      BY <2>5 DEF GotoCreate, Typed, CreateTypes, CreateCall, HoldingPCs
    <3>2. CreatorOK(c)'
      BY <3>1, Zenon DEF CreatorOK
    <3> HIDE DEF mine
    <3>3. HostsConsistent' /\ LeavingStays
      BY <2>1, <2>2, <2>5, Zenon DEF HostsConsistent, Consistent, LeavingStays, objects,
         Typed, ObjectTypes
    <3>4. \A v \in Actors : Undisturbed(v)
      BY <2>1, <2>5 DEF Undisturbed, objects, Typed, ObjectTypes
    <3> QED  BY <1>t, <2>1, <3>1, <3>2, <3>3, <3>4, CreateFrame
  <2> QED  BY <1>2, <2>3, <2>4, <2>5, Zenon DEF ClaimHost
<1>3. CASE Prepare(c) \/ CreateToken(c) \/ Join(c) \/ DiscardToken(c) \/ ReleaseToken(c)
  <2>1. UNCHANGED <<objects, delete, probe>> /\ create[c].pc \in HoldingPCs
    BY <1>3 DEF Prepare, CreateToken, Join, DiscardToken, ReleaseToken,
                CreateUnchanged, HoldingPCs
  <2>2. /\ create'[c].pc \in HoldingPCs /\ create'[c].host = create[c].host
        /\ \A d \in NodeClaims \ {c} : create'[d] = create[d]
    <3> USE DEF Typed, CreateTypes, CreateCall, CreateUnchanged, HoldingPCs, GotoCreate
    <3>1. CASE Prepare(c)
      BY <3>1 DEF Prepare
    <3>2. CASE CreateToken(c)
      BY <3>2 DEF CreateToken
    <3>3. CASE Join(c)
      BY <3>3 DEF Join
    <3>4. CASE DiscardToken(c)
      BY <3>4 DEF DiscardToken
    <3>5. CASE ReleaseToken(c)
      BY <3>5 DEF ReleaseToken
    <3> QED  BY <1>3, <3>1, <3>2, <3>3, <3>4, <3>5, Zenon
  <2> QED  BY <1>t, <2>1, <2>2, CreateLocal
<1>4. CASE \/ SetInstalled(c) \/ RecordToken(c) \/ SetProviderID(c) \/ MarkInUse(c)
           \/ ForgetToken(c)
  <2>1. create[c].pc \in HoldingPCs
    BY <1>4 DEF SetInstalled, RecordToken, SetProviderID, MarkInUse, ForgetToken,
                HoldingPCs
  <2>2. Own(c) \in HostObject /\ create[c].token \in TokenIDs \cup {NoToken}
    BY <2>1, OwnType DEF CreateCall
  <2>p. /\ {"mint", "dropToken", "join", "discard", "markInUse", "failed", "launched"}
             \subseteq CreatePCs \ {"claim"}
        /\ "failed" \notin HoldingPCs /\ "launched" \notin HoldingPCs
    BY DEF CreatePCs, HoldingPCs
  <2>3. CASE SetInstalled(c)
    <3> DEFINE n == [Own(c) EXCEPT !.installed = TRUE]
    <3>1. n \in HostObject /\ n.claim = Own(c).claim
          /\ n.state = Own(c).state /\ n.pid = Own(c).pid
      BY <2>2, Zenon DEF HostObject, HostStates
    <3>2. SetStatus(c, n, "mint", "dropToken")
      BY <2>3 DEF SetInstalled
    <3> HIDE DEF n
    <3> QED  BY <2>1, <3>1, <3>2, SetStatusClaim, Zenon DEF CreatePCs
  <2>4. CASE RecordToken(c)
    <3> DEFINE n == [Own(c) EXCEPT !.token = create[c].token]
    <3>1. n \in HostObject /\ n.claim = Own(c).claim
          /\ n.state = Own(c).state /\ n.pid = Own(c).pid
      BY <2>2 DEF HostObject, HostStates
    <3>2. SetStatus(c, n, "join", "discard")
      BY <2>4 DEF RecordToken
    <3> HIDE DEF n
    <3> QED  BY <2>1, <3>1, <3>2, SetStatusClaim, Zenon DEF CreatePCs
  <2>5. CASE SetProviderID(c)
    <3> DEFINE n == [Own(c) EXCEPT !.pid = TRUE]
    <3>1. n \in HostObject /\ n.claim = Own(c).claim
          /\ n.state = Own(c).state
      BY <2>2, Zenon DEF HostObject, HostStates
    <3>2. SetStatus(c, n, "markInUse", "failed")
      BY <2>5 DEF SetProviderID
    <3> HIDE DEF n
    <3> QED  BY <2>1, <2>p, <3>1, <3>2, SetStatusClaim
  <2>6. CASE MarkInUse(c)
    <3> DEFINE n == [Own(c) EXCEPT !.state = "InUse"]
    <3>1. n \in HostObject /\ n.claim = Own(c).claim /\ n.state \in HeldStates
      BY <2>2 DEF HostObject, HostStates, HeldStates
    <3>2. SetStatus(c, n, "launched", "launched")
      BY <2>6 DEF MarkInUse
    <3> HIDE DEF n
    <3> QED  BY <2>1, <2>p, <3>1, <3>2, SetStatusClaim
  <2>7. CASE ForgetToken(c)
    <3> DEFINE n == [Own(c) EXCEPT !.token = NoToken]
    <3>1. n \in HostObject /\ n.claim = Own(c).claim
          /\ n.state = Own(c).state /\ n.pid = Own(c).pid
      BY <2>2 DEF HostObject, HostStates
    <3>2. SetStatus(c, n, "dropToken", "dropToken")
      BY <2>7 DEF ForgetToken
    <3> HIDE DEF n
    <3> QED  BY <2>1, <3>1, <3>2, SetStatusClaim, Zenon DEF CreatePCs
  <2> QED  BY <1>4, <2>3, <2>4, <2>5, <2>6, <2>7
<1>5. CASE ReleaseHost(c)
  <2> DEFINE h == create[c].host
             new == Released(copy[w][h], create[c].healthy)
             m == Patched(w, h, new)
  <2>1. h \in Hosts /\ create[c].pc \in HoldingPCs /\ UNCHANGED <<delete, probe>>
    BY <1>5, Zenon DEF ReleaseHost, CreateUnchanged, HoldingPCs, Typed, CreateTypes
  <2>2. /\ create'[c].pc \notin HoldingPCs \cup {"claim"}
        /\ \A d \in NodeClaims \ {c} : create'[d] = create[d]
    BY <1>5 DEF ReleaseHost, GotoCreate, Typed, CreateTypes, CreateCall, HoldingPCs
  <2>3. w \in fresh[h] => sshHost[h].claim = c /\ Consistent(m)
    <3>1. copy[w][h] \in HostObject /\ new \in HostObject
      <4>1. copy[w][h] \in HostObject
        BY <1>0, <2>1 DEF Typed, ObjectTypes
      <4>2. create[c].healthy \in BOOLEAN
        BY <1>0 DEF CreateCall
      <4> QED  BY <4>1, <4>2, ObjectFacts
    <3>2. w \in fresh[h] => /\ sshHost[h].claim = c /\ copy[w][h].claim = c
                           /\ sshHost[h].state = copy[w][h].state
      BY <2>1, Zenon DEF CreatorOK
    <3>3. Consistent(new)
      BY <3>1 DEF Released, HostObject, Consistent, HeldStates
    <3> HIDE DEF new, h, w
    <3>4. w \in fresh[h] => m.claim = new.claim /\ m.state = new.state
      BY <1>0, <2>1, <3>1, <3>2, PatchedFacts DEF Typed
    <3> HIDE DEF m
    <3> QED  BY <3>2, <3>3, <3>4 DEF Consistent
  <2>4. UNCHANGED objects \/ (w \in fresh[h] /\ Write(w, h, m)) \/ PatchError(w, h, new)
    BY <1>5, Zenon DEF ReleaseHost
  <2>5. CreatorOK(c)'
    BY <2>2, Zenon DEF CreatorOK
  <2> HIDE DEF h, new, w
  <2>6. HostsConsistent' /\ LeavingStays
    BY <1>0, <2>1, <2>3, <2>4, Zenon DEF HostsConsistent, Consistent, LeavingStays,
       objects, Write, PatchError, Typed, ObjectTypes
  <2>7. \A v \in Actors \ {w} : Undisturbed(v)
    BY <1>0, <2>1, <2>4, OthersUndisturbed DEF Typed
  <2> QED  BY <1>t, <2>1, <2>2, <2>5, <2>6, <2>7, CreateFrame DEF w
<1>6. CASE CreateReturn(c)
  <2>1. /\ create'[c].pc = "idle" /\ UNCHANGED <<delete, probe>>
        /\ \A d \in NodeClaims \ {c} : create'[d] = create[d]
    BY <1>6 DEF CreateReturn, CreateIdle, Typed, CreateTypes
  <2>2. CreatorOK(c)'
    BY <2>1, Zenon DEF CreatorOK, HoldingPCs
  <2>3. HostsConsistent' /\ LeavingStays
    BY <1>6 DEF CreateReturn, Forget, ReadCached, HostsConsistent, Consistent,
       LeavingStays
  <2>4. \A v \in Actors \ {w} : Undisturbed(v)
    BY <1>0, <1>6 DEF CreateReturn, Forget, ReadCached, Undisturbed, Typed, ObjectTypes
  <2> QED  BY <1>t, <2>1, <2>2, <2>3, <2>4, CreateFrame, Zenon
<1> QED  BY <1>1, <1>2, <1>3, <1>4, <1>5, <1>6 DEF CreateStep

\* Every step of a Delete preserves the invariant.
LEMMA DeleteClaim ==
  ASSUME ClaimInv, NEW c \in NodeClaims, DeleteStep(c)
  PROVE  ClaimInv'
<1> DEFINE w == Deleter(c)
<1> USE DEF ClaimInv
<1>0. w \in Actors /\ w # Cache /\ delete[c] \in DeleteCall /\ c # NoClaim
  BY ActorFacts, NoClaimAssumption DEF Typed, DeleteTypes
<1>t. Typed'
  BY DeleteTyped
<1>1. CASE DeleteBegin(c)
  <2> DEFINE h == nodeClaim[c].host
  <2>1. UNCHANGED <<create, probe>>
    BY <1>1 DEF DeleteBegin
  <2>2. CASE UNCHANGED <<objects, delete>>
    <3>1. HostsConsistent' /\ LeavingStays /\ \A v \in Actors : Undisturbed(v)
      BY <2>2 DEF objects, HostsConsistent, Consistent, LeavingStays, Undisturbed
    <3>2. DeleterOK(c)'
      BY <2>2 DEF objects, DeleterOK
    <3> QED  BY <1>t, <2>1, <2>2, <3>1, <3>2, DeleteFrame
  <2>3. CASE /\ h # NoHost /\ ClaimHeldBy(copy[Cache][h], c) /\ ReadCached(w, {h})
             /\ delete' = [delete EXCEPT ![c].pc = "leave", ![c].host = h]
    <3>1. h \in Hosts
      BY <2>3 DEF Typed, ClaimTypes, NodeClaimStatus
    <3>2. /\ delete'[c].pc = "leave" /\ delete'[c].host = h
          /\ \A d \in NodeClaims \ {c} : delete'[d] = delete[d]
      BY <2>3 DEF Typed, DeleteTypes, DeleteCall
    <3>3. /\ copy'[w][h] = copy[Cache][h] /\ sshHost' = sshHost
          /\ w \in fresh'[h] => Cache \in fresh[h]
      BY <1>0, <2>3, <3>1 DEF ReadCached, Typed, ObjectTypes
    <3>4. copy[Cache][h].claim = c
      BY <2>3, <3>1, ActorFacts, HeldIsMine DEF Typed, ObjectTypes
    <3>5. DeleterOK(c)'
      BY <3>1, <3>2, <3>3, <3>4, Zenon DEF DeleterOK, CacheOK
    <3>6. HostsConsistent' /\ LeavingStays
      BY <3>3 DEF HostsConsistent, Consistent, LeavingStays
    <3>7. \A v \in Actors \ {w} : Undisturbed(v)
      BY <1>0, <2>3 DEF Typed, ObjectTypes, ReadCached, Undisturbed
    <3> QED  BY <1>t, <2>1, <3>2, <3>5, <3>6, <3>7, DeleteFrame
  <2> QED  BY <1>1, <2>2, <2>3 DEF DeleteBegin
<1>2. CASE Leave(c) \/ DeleteToken(c)
  <2>1. UNCHANGED <<objects, create, probe>> /\ delete[c].pc # "idle"
    BY <1>2 DEF Leave, DeleteToken, DeleteUnchanged
  <2>2. /\ delete'[c].host = delete[c].host
        /\ \A d \in NodeClaims \ {c} : delete'[d] = delete[d]
    BY <1>2 DEF Leave, DeleteToken, GotoDelete, Typed, DeleteTypes, DeleteCall
  <2>3. DeleterOK(c)'
    BY <2>1, <2>2, Zenon DEF objects, DeleterOK
  <2>4. HostsConsistent' /\ LeavingStays /\ \A v \in Actors : Undisturbed(v)
    BY <2>1 DEF objects, HostsConsistent, Consistent, LeavingStays, Undisturbed
  <2> QED  BY <1>t, <2>1, <2>2, <2>3, <2>4, DeleteFrame, Zenon
<1>3. CASE DeleteRelease(c)
  <2> DEFINE h == delete[c].host
             new == Released(copy[w][h], delete[c].leaveOK)
             m == Patched(w, h, new)
  <2>1. h \in Hosts /\ delete[c].pc # "idle" /\ UNCHANGED <<create, probe>>
    BY <1>3, Zenon DEF DeleteRelease, DeleteUnchanged, Typed, DeleteTypes
  <2>2. /\ delete'[c].pc = "idle"
        /\ \A d \in NodeClaims \ {c} : delete'[d] = delete[d]
    BY <1>3, Zenon DEF DeleteRelease, DeleteIdle, Typed, DeleteTypes
  <2>3. w \in fresh[h] => sshHost[h].claim = c /\ Consistent(m)
    <3>1. copy[w][h] \in HostObject /\ new \in HostObject
      <4>1. copy[w][h] \in HostObject
        BY <1>0, <2>1, Zenon DEF Typed, ObjectTypes
      <4>2. delete[c].leaveOK \in BOOLEAN
        BY <1>0, Zenon DEF DeleteCall
      <4> QED  BY <4>1, <4>2, ObjectFacts, Zenon
    <3>2. w \in fresh[h] => sshHost[h].claim = c /\ sshHost[h] = copy[w][h]
      BY <2>1, Zenon DEF DeleterOK
    <3>3. Consistent(new)
      BY <3>1 DEF Released, HostObject, Consistent, HeldStates
    <3> HIDE DEF new, h, w
    <3>4. w \in fresh[h] => m.claim = new.claim /\ m.state = new.state
      BY <1>0, <2>1, <3>1, <3>2, PatchedFacts DEF Typed
    <3> HIDE DEF m
    <3> QED  BY <3>2, <3>3, <3>4 DEF Consistent
  <2>4. ReadCached(w, {}) \/ (w \in fresh[h] /\ WriteAndForget(w, h, m))
    BY <1>3, Zenon DEF DeleteRelease, Forget
  <2>5. DeleterOK(c)'
    BY <2>2, Zenon DEF DeleterOK
  <2> HIDE DEF h, m, w
  <2>6. HostsConsistent' /\ LeavingStays
    BY <1>0, <2>1, <2>3, <2>4, Zenon DEF HostsConsistent, Consistent, LeavingStays,
       WriteAndForget, ReadCached, Typed, ObjectTypes
  <2>7. \A v \in Actors \ {w} : Undisturbed(v)
    BY <1>0, <2>1, <2>4, OthersUndisturbed, Zenon DEF Typed
  <2> QED  BY <1>t, <2>1, <2>2, <2>5, <2>6, <2>7, DeleteFrame, Zenon DEF w
<1> QED  BY <1>1, <1>2, <1>3 DEF DeleteStep

\* The pure transitions the probe computes from the cached object.
LEMMA ProbeObjects ==
  ASSUME NEW o \in HostObject, Consistent(o)
  PROVE  LET new == Maintained(o) IN
         /\ new \in HostObject /\ new.claim = o.claim /\ Consistent(new)
         /\ new.state = "Maintenance" \/ NeedsProbe(new) => new.claim = NoClaim
         /\ Consistent(Abandoned(new)) /\ Abandoned(new).claim = NoClaim
         /\ Consistent([new EXCEPT !.token = NoToken])
<1> DEFINE new == Maintained(o)
<1>1. /\ new \in HostObject /\ new.claim = o.claim /\ Consistent(new)
      /\ new.state = "Maintenance" \/ NeedsProbe(new) => new.claim = NoClaim
  BY DEF Maintained, HostObject, HostStates, Consistent, HeldStates, NeedsProbe
<1> HIDE DEF new
<1>2. /\ Consistent(Abandoned(new)) /\ Abandoned(new).claim = NoClaim
      /\ Consistent([new EXCEPT !.token = NoToken])
  BY <1>1 DEF HostObject, Abandoned, Consistent, HeldStates
<1> QED  BY <1>1, <1>2 DEF new

\* A Reconcile that returns preserves the invariant, whether it gives up or
\* ends in a write of a consistent object over the one it saw.
LEMMA ProbeReturnClaim ==
  ASSUME ClaimInv, Typed', NEW h \in Hosts, ProbeReturns(h),
         UNCHANGED <<create, delete>>,
         NEW m, Consistent(m),
         ReadCached(Prober(h), {}) \/ WriteAndForget(Prober(h), h, m)
  PROVE  ClaimInv'
<1> DEFINE w == Prober(h)
<1> USE DEF ClaimInv
<1>1. w \in Actors
  BY ActorFacts
<1>2. /\ probe'[h].pc = "idle"
      /\ \A i \in Hosts \ {h} : probe'[i] = probe[i]
  BY Zenon DEF ProbeReturns, ProbeIdle, Typed, ProbeTypes
<1>3. ProberOK(h)' /\ Fenced(h)'
  BY <1>2 DEF ProberOK, Fenced
<1>4. HostsConsistent' /\ \A i \in Hosts \ {h} : sshHost'[i] = sshHost[i]
  BY DEF HostsConsistent, Consistent, ReadCached, WriteAndForget, Typed, ObjectTypes
<1>5. \A v \in Actors \ {w} : Undisturbed(v)
  BY <1>1, OthersUndisturbed DEF Typed
<1> QED  BY <1>2, <1>3, <1>4, <1>5, ProbeFrame, Zenon

\* A Reconcile that begins preserves the invariant, if it goes on from the
\* cached object as it should.
LEMMA ProbeBeginClaim ==
  ASSUME ClaimInv, Typed', NEW h \in Hosts, ProbeBegin(h),
         \A i \in Hosts \ {h} : probe'[i] = probe[i],
         Consistent(probe'[h].new),
         \/ probe'[h].pc = "patch"
         \/ /\ probe'[h].pc = "ssh" /\ probe'[h].new.claim = NoClaim
            /\ copy[Cache][h].claim = NoClaim
  PROVE  ClaimInv'
<1> DEFINE w == Prober(h)
<1> USE DEF ClaimInv
<1>1. w \in Actors /\ ReadCached(w, {h}) /\ UNCHANGED <<create, delete>>
  BY ActorFacts DEF ProbeBegin
<1>2. /\ copy'[w][h] = copy[Cache][h] /\ sshHost' = sshHost
      /\ w \in fresh'[h] => Cache \in fresh[h]
  BY <1>1, Zenon DEF ReadCached, Typed, ObjectTypes
<1>3. ProberOK(h)'
  BY <1>2, Zenon DEF ProberOK, CacheOK, Consistent
<1>4. Fenced(h)' /\ HostsConsistent'
  BY <1>2, Zenon DEF Fenced, HostsConsistent, Consistent
<1>5. \A v \in Actors \ {w} : Undisturbed(v)
  BY <1>1, OthersUndisturbed DEF Typed
<1> QED  BY <1>1, <1>2, <1>3, <1>4, <1>5, ProbeFrame, Zenon

\* A Reconcile that only moves on preserves the invariant.
LEMMA ProbeLocalClaim ==
  ASSUME ClaimInv, Typed', NEW h \in Hosts, UNCHANGED <<objects, create, delete>>,
         probe[h].pc # "idle",
         \A i \in Hosts \ {h} : probe'[i] = probe[i],
         Consistent(probe'[h].new),
         \/ probe'[h].pc = "patch"
         \/ /\ probe[h].pc = "leave" /\ probe'[h].pc = "deleteNode"
            /\ probe'[h].new = probe[h].new
  PROVE  ClaimInv'
<1> USE DEF ClaimInv
<1>1. UNCHANGED <<sshHost, copy, fresh>>
  BY Zenon DEF objects
<1>2. ProberOK(h)' /\ Fenced(h)'
  BY <1>1, Zenon DEF ProberOK, Fenced, Consistent
<1>3. HostsConsistent' /\ \A v \in Actors : Undisturbed(v)
  BY <1>1 DEF HostsConsistent, Consistent, Undisturbed
<1> QED  BY <1>1, <1>2, <1>3, ProbeFrame, Zenon

\* A Reconcile that goes on with the object it has just written preserves the
\* invariant.
LEMMA ProbeWriteClaim ==
  ASSUME ClaimInv, Typed', NEW h \in Hosts, UNCHANGED <<create, delete>>,
         NEW m \in HostObject, Write(Prober(h), h, m), m.claim = NoClaim, Consistent(m),
         \A i \in Hosts \ {h} : probe'[i] = probe[i],
         probe'[h].new = m,
         probe'[h].pc = "zombie" \/ (probe'[h].pc = "leave" /\ m.state = "Leaving")
  PROVE  ClaimInv'
<1> DEFINE w == Prober(h)
<1> USE DEF ClaimInv
<1>1. w \in Actors
  BY ActorFacts, Zenon
<1>2. /\ copy'[w][h] = m /\ sshHost'[h] = m
      /\ \A i \in Hosts \ {h} : sshHost'[i] = sshHost[i]
  BY <1>1, Zenon DEF Write, NoCopies, Typed, ObjectTypes
<1>3. ProberOK(h)' /\ Fenced(h)'
  BY <1>2, Zenon DEF ProberOK, Fenced, Consistent
<1>4. HostsConsistent'
  <2>1. \A i \in Hosts \ {h} : Consistent(sshHost'[i])
    BY <1>2, Zenon DEF HostsConsistent
  <2>2. Consistent(sshHost'[h])
    BY <1>2
  <2> HIDE DEF ClaimInv, w
  <2> QED  BY <2>1, <2>2, Zenon DEF HostsConsistent, Consistent
<1>5. \A v \in Actors \ {w} : Undisturbed(v)
  BY <1>1, OthersUndisturbed DEF Typed
<1> QED  BY <1>2, <1>3, <1>4, <1>5, ProbeFrame, Zenon

\* Every step of a Reconcile preserves the invariant.
LEMMA ProbeClaim ==
  ASSUME ClaimInv, NEW h \in Hosts, ProbeStep(h) \/ ProbeError(h)
  PROVE  ClaimInv'
<1> DEFINE w == Prober(h)
           own == copy[w][h]
           cached == copy[Cache][h]
<1> USE DEF ClaimInv
<1>0. /\ w \in Actors /\ own \in HostObject /\ cached \in HostObject
      /\ Consistent(cached) /\ sshHost[h] \in HostObject
      /\ probe[h] \in ProbeCall /\ probe[h].new \in HostObject
  BY ActorFacts DEF Typed, ObjectTypes, ProbeTypes, ProbeCall, CacheOK
<1>t. Typed'
  BY ProbeTyped
<1>1. ASSUME NEW o, ToPatch(h, o)
      PROVE  /\ probe'[h].pc = "patch" /\ probe'[h].new = o
             /\ \A i \in Hosts \ {h} : probe'[i] = probe[i]
  BY <1>1 DEF ToPatch, Typed, ProbeTypes, ProbeCall
<1>2. /\ w \in fresh[h] /\ probe[h].pc # "idle" => own = sshHost[h]
      /\ probe[h].pc # "idle" => Consistent(probe[h].new)
      /\ probe[h].pc \notin {"idle", "patch"} =>
           probe[h].new.claim = NoClaim /\ own.claim = NoClaim
  BY Zenon DEF ProberOK
<1>3. \A s \in HostStates \ HeldStates : \A o \in HostObject : o.claim = NoClaim =>
        LET n == [o EXCEPT !.state = s] IN
        n \in HostObject /\ n.claim = NoClaim /\ n.state = s /\ Consistent(n)
  BY DEF HostObject, Consistent
<1>4. CASE ProbeMaintenance(h)
  <2> DEFINE new == Maintained(cached)
  <2>1. ProbeBegin(h) /\ ToPatch(h, new)
    BY <1>4 DEF ProbeMaintenance
  <2>2. Consistent(new)
    BY <1>0, ProbeObjects, Zenon
  <2> HIDE DEF new
  <2> QED  BY <1>t, <1>1, <2>1, <2>2, ProbeBeginClaim, Zenon
<1>5. CASE ProbeHeld(h)
  <2> DEFINE new == Maintained(cached)
  <2>1. /\ ProbeBegin(h)
        /\ \E o \in {new, Abandoned(new), [new EXCEPT !.token = NoToken]} : ToPatch(h, o)
    BY <1>5 DEF ProbeHeld
  <2>2. /\ Consistent(new) /\ Consistent(Abandoned(new))
        /\ Consistent([new EXCEPT !.token = NoToken])
    BY <1>0, ProbeObjects
  <2> HIDE DEF new
  <2> QED  BY <1>t, <1>1, <2>1, <2>2, ProbeBeginClaim
<1>6. CASE ProbeFree(h)
  <2> DEFINE new == Maintained(cached)
  <2>1. /\ probe'[h].pc = "ssh" /\ probe'[h].new = new
        /\ \A i \in Hosts \ {h} : probe'[i] = probe[i]
    BY <1>6 DEF ProbeFree, Typed, ProbeTypes, ProbeCall
  <2>2. Consistent(new) /\ new.claim = NoClaim /\ cached.claim = NoClaim
    BY <1>0, <1>6, ProbeObjects, Zenon DEF ProbeFree
  <2> HIDE DEF new
  <2> QED  BY <1>t, <1>6, <2>1, <2>2, ProbeBeginClaim, Zenon DEF ProbeFree
<1>7. CASE ProbeSSH(h)
  <2> DEFINE facts == Patched(w, h, probe[h].new)
  <2>1. probe[h].pc = "ssh" /\ UNCHANGED <<create, delete>>
    BY <1>7 DEF ProbeSSH, ProbeUnchanged
  <2>2. CASE \E s \in {"Unhealthy", "Available"} :
               /\ probe' = [probe EXCEPT ![h].pc = "patch", ![h].new.state = s,
                                         ![h].beat = TRUE]
               /\ UNCHANGED objects
    <3>1. PICK s \in {"Unhealthy", "Available"} :
            probe' = [probe EXCEPT ![h].pc = "patch", ![h].new.state = s,
                                   ![h].beat = TRUE]
      BY <2>2, Zenon
    <3>2. /\ probe'[h].pc = "patch"
          /\ probe'[h].new = [probe[h].new EXCEPT !.state = s]
          /\ \A i \in Hosts \ {h} : probe'[i] = probe[i]
      BY <3>1 DEF Typed, ProbeTypes, ProbeCall
    <3>3. Consistent(probe'[h].new)
      BY <1>0, <1>2, <1>3, <2>1, <3>2 DEF HostStates, HeldStates
    <3> QED  BY <1>t, <2>1, <2>2, <3>2, <3>3, ProbeLocalClaim, Zenon
  <2>3. CASE /\ w \in fresh[h] /\ Write(w, h, facts)
             /\ probe' = [probe EXCEPT ![h].pc = "zombie", ![h].new = facts]
    <3>1. /\ facts \in HostObject /\ facts.claim = NoClaim
          /\ facts.state = probe[h].new.state
      BY <1>0, <1>2, <2>1, <2>3, PatchedFacts DEF Typed
    <3>2. Consistent(facts)
      BY <1>2, <2>1, <3>1, Zenon DEF Consistent
    <3> HIDE DEF facts
    <3>3. /\ probe'[h].pc = "zombie" /\ probe'[h].new = facts
          /\ \A i \in Hosts \ {h} : probe'[i] = probe[i]
      BY <2>3 DEF Typed, ProbeTypes, ProbeCall
    <3> QED  BY <1>t, <2>1, <2>3, <3>1, <3>2, <3>3, ProbeWriteClaim, Zenon
  <2>4. CASE Forget(w) /\ ProbeReturns(h)
    BY <1>0, <1>t, <2>1, <2>4, ProbeReturnClaim, Zenon DEF Forget
  <2> QED  BY <1>7, <2>2, <2>3, <2>4 DEF ProbeSSH
<1>8. CASE HandleZombie(h)
  <2> DEFINE left == [own EXCEPT !.state = "Leaving"]
             leaving == Patched(w, h, left)
  <2>1. probe[h].pc = "zombie" /\ UNCHANGED <<create, delete>>
    BY <1>8, Zenon DEF HandleZombie, ProbeUnchanged
  <2>2. left \in HostObject /\ left.claim = NoClaim /\ left.state = "Leaving"
    BY <1>0, <1>2, <1>3, <2>1 DEF HostStates, HeldStates
  <2>3. w \in fresh[h] => /\ leaving \in HostObject /\ leaving.claim = NoClaim
                         /\ leaving.state = "Leaving" /\ Consistent(leaving)
    <3> HIDE DEF left
    <3>1. leaving \in HostObject
      BY <1>0, <2>2, PatchedFacts DEF Typed
    <3>2. w \in fresh[h] => leaving.claim = NoClaim /\ leaving.state = "Leaving"
      BY <1>0, <1>2, <2>1, <2>2, PatchedFacts, Zenon DEF Typed
    <3> QED  BY <3>1, <3>2 DEF Consistent, HeldStates
  <2>4. CASE ToPatch(h, [own EXCEPT !.state = "Unhealthy"]) /\ UNCHANGED objects
    <3>1. Consistent([own EXCEPT !.state = "Unhealthy"])
      BY <1>0, <1>2, <1>3, <2>1 DEF HostStates, HeldStates
    <3> QED  BY <1>t, <1>1, <2>1, <2>4, <3>1, ProbeLocalClaim
  <2>5. CASE /\ w \in fresh[h] /\ Write(w, h, leaving)
             /\ \E n : probe' = [probe EXCEPT ![h].pc = "leave", ![h].node = n,
                                             ![h].new = leaving]
    <3> HIDE DEF leaving
    <3>1. /\ probe'[h].pc = "leave" /\ probe'[h].new = leaving
          /\ \A i \in Hosts \ {h} : probe'[i] = probe[i]
      BY <2>5 DEF Typed, ProbeTypes, ProbeCall
    <3> QED  BY <1>t, <2>1, <2>3, <2>5, <3>1, ProbeWriteClaim, Zenon
  <2>6. CASE w \in fresh[h] /\ WriteAndForget(w, h, leaving) /\ ProbeReturns(h)
    BY <1>t, <2>1, <2>3, <2>6, ProbeReturnClaim
  <2>7. CASE Forget(w) /\ ProbeReturns(h)
    BY <1>0, <1>t, <2>1, <2>7, ProbeReturnClaim, Zenon DEF Forget
  <2> QED  BY <1>8, <2>4, <2>5, <2>6, <2>7, Zenon DEF HandleZombie
<1>9. CASE ZombieLeave(h) \/ ZombieDeleteNode(h)
  <2>1. /\ probe[h].pc \in {"leave", "deleteNode"} /\ UNCHANGED <<objects, create, delete>>
        /\ \/ probe[h].pc = "leave" /\ GotoProbe(h, "deleteNode")
           \/ \E s \in {"Available", "Unhealthy"} : ToPatch(h, [own EXCEPT !.state = s])
    BY <1>9 DEF ZombieLeave, ZombieDeleteNode, ProbeUnchanged
  <2>2. CASE probe[h].pc = "leave" /\ GotoProbe(h, "deleteNode")
    <3>1. /\ probe'[h].pc = "deleteNode" /\ probe'[h].new = probe[h].new
          /\ \A i \in Hosts \ {h} : probe'[i] = probe[i]
      BY <2>2 DEF GotoProbe, Typed, ProbeTypes, ProbeCall
    <3> QED  BY <1>t, <1>2, <2>1, <2>2, <3>1, ProbeLocalClaim
  <2>3. ASSUME NEW s \in {"Available", "Unhealthy"},
               ToPatch(h, [own EXCEPT !.state = s])
        PROVE  ClaimInv'
    <3>1. Consistent([own EXCEPT !.state = s])
      BY <1>0, <1>2, <1>3, <2>1 DEF HostStates, HeldStates
    <3> QED  BY <1>t, <1>1, <2>1, <2>3, <3>1, ProbeLocalClaim
  <2> QED  BY <2>1, <2>2, <2>3
<1>10. CASE PatchStatus(h)
  <2> DEFINE new == WithReady(probe[h].new)
             m == Patched(w, h, new)
  <2>1. probe[h].pc = "patch" /\ UNCHANGED <<create, delete>> /\ ProbeReturns(h)
    BY <1>10, Zenon DEF PatchStatus, ProbeUnchanged
  <2>2. new \in HostObject /\ Consistent(new)
    BY <1>0, <1>2, <2>1 DEF WithReady, HostObject, Consistent
  <2>3. w \in fresh[h] => Consistent(m)
    <3> HIDE DEF new
    <3>1. w \in fresh[h] => m.claim = new.claim /\ m.state = new.state
      BY <1>0, <1>2, <2>1, <2>2, PatchedFacts, Zenon DEF Typed
    <3> HIDE DEF m
    <3> QED  BY <2>2, <3>1 DEF Consistent
  <2>4. ReadCached(w, {}) \/ (w \in fresh[h] /\ WriteAndForget(w, h, m))
    BY <1>10, Zenon DEF PatchStatus, Forget
  <2> HIDE DEF m, new
  <2>5. CASE ReadCached(w, {})
    BY <1>0, <1>t, <2>1, <2>5, ProbeReturnClaim, Zenon
  <2>6. CASE w \in fresh[h] /\ WriteAndForget(w, h, m)
    BY <1>t, <2>1, <2>3, <2>6, ProbeReturnClaim, Zenon
  <2> QED  BY <2>4, <2>5, <2>6
<1>11. CASE ProbeError(h)
  BY <1>0, <1>t, <1>11, ProbeReturnClaim, Zenon DEF ProbeError, ProbeUnchanged, Forget
<1> QED  BY <1>4, <1>5, <1>6, <1>7, <1>8, <1>9, <1>10, <1>11 DEF ProbeStep

\* karpenter core, the hosts, the operator and the informer preserve it.
LEMMA EnvironmentClaim ==
  ASSUME ClaimInv, Typed',
         \/ \E c \in NodeClaims : CoreStep(c)
         \/ \E h \in Hosts : \/ Sync(h) \/ Register(h) \/ RemoveForeign(h)
                             \/ Annotate(h) \/ \E c \in NodeClaims : CollectNode(h, c)
         \/ UNCHANGED vars
  PROVE  ClaimInv'
<1> USE DEF ClaimInv
<1>1. UNCHANGED workers
  BY Zenon DEF CoreStep, CreateNodeClaim, DeleteNodeClaim, FinalizeNodeClaim,
     ForceDeleteNodeClaim, Sync, Register, RemoveForeign, Annotate, CollectNode, vars
<1>2. \/ UNCHANGED objects
      \/ \E h \in Hosts : Sync(h) \/ Annotate(h)
  BY Zenon DEF CoreStep, CreateNodeClaim, DeleteNodeClaim, FinalizeNodeClaim,
     ForceDeleteNodeClaim, Register, RemoveForeign, CollectNode, vars
<1>3. ASSUME \A v \in Actors \ {Cache} : Undisturbed(v), LeavingStays,
             HostsConsistent', CacheOK'
      PROVE  ClaimInv'
  <2>1. ASSUME NEW c \in NodeClaims PROVE CreatorOK(c)' /\ DeleterOK(c)'
    BY <1>1, <1>3, ActorFacts, BystanderCreator, BystanderDeleter, Zenon DEF workers, Typed
  <2>2. ASSUME NEW h \in Hosts PROVE ProberOK(h)' /\ Fenced(h)'
    BY <1>1, <1>3, ActorFacts, BystanderProber, BystanderFence DEF workers
  <2> QED  BY <1>3, <2>1, <2>2
<1>4. CASE UNCHANGED objects
  <2>1. /\ LeavingStays /\ HostsConsistent' /\ CacheOK'
        /\ \A v \in Actors : Undisturbed(v)
    BY <1>4, Zenon DEF objects, LeavingStays, HostsConsistent, CacheOK, Consistent, Undisturbed
  <2> QED  BY <1>3, <2>1
<1>5. ASSUME NEW h \in Hosts, Sync(h) PROVE ClaimInv'
  <2>1. /\ sshHost' = sshHost
        /\ \A i \in Hosts : copy'[Cache][i] = IF i = h THEN sshHost[i] ELSE copy[Cache][i]
        /\ \A i \in Hosts \ {h} : fresh'[i] = fresh[i]
    BY <1>5, ActorFacts DEF Sync, Typed, ObjectTypes
  <2>2. LeavingStays /\ HostsConsistent' /\ CacheOK'
    BY <2>1, Zenon DEF LeavingStays, HostsConsistent, CacheOK, Consistent
  <2>3. \A v \in Actors \ {Cache} : Undisturbed(v)
    BY <1>5 DEF Sync, Typed, ObjectTypes, Undisturbed
  <2> QED  BY <1>3, <2>2, <2>3
<1>6. ASSUME NEW h \in Hosts, Annotate(h) PROVE ClaimInv'
  <2>1. /\ sshHost'[h].state = sshHost[h].state /\ sshHost'[h].claim = sshHost[h].claim
        /\ \A i \in Hosts \ {h} : sshHost'[i] = sshHost[i] /\ fresh'[i] = fresh[i]
        /\ fresh'[h] = {} /\ copy' = copy
    BY <1>6 DEF Annotate, Typed, ObjectTypes, HostObject
  <2>2. LeavingStays /\ HostsConsistent'
    BY <2>1, Zenon DEF LeavingStays, HostsConsistent, Consistent
  <2>3. CacheOK' /\ \A v \in Actors : Undisturbed(v)
    BY <2>1, Zenon DEF CacheOK, Consistent, Undisturbed
  <2> QED  BY <1>3, <2>2, <2>3
<1> QED  BY <1>2, <1>4, <1>5, <1>6

\* A restart preserves it: the calls are gone and the cache is the server.
LEMMA CrashClaim ==
  ASSUME ClaimInv, Crash
  PROVE  ClaimInv'
<1> USE DEF ClaimInv
<1>1. /\ \A c \in NodeClaims : create'[c].pc = "idle" /\ delete'[c].pc = "idle"
      /\ \A h \in Hosts : probe'[h].pc = "idle"
  BY DEF Crash, CreateIdle, DeleteIdle, ProbeIdle
<1>2. /\ \A c \in NodeClaims : CreatorOK(c)' /\ DeleterOK(c)'
      /\ \A h \in Hosts : ProberOK(h)' /\ Fenced(h)'
  BY <1>1, Zenon DEF CreatorOK, DeleterOK, ProberOK, Fenced, HoldingPCs
<1>3. sshHost' = sshHost /\ copy'[Cache] = sshHost
  BY ActorFacts DEF Crash
<1>4. HostsConsistent' /\ CacheOK'
  BY <1>3, Zenon DEF HostsConsistent, CacheOK, Consistent
<1> QED  BY <1>2, <1>4, CrashTyped

\* The invariant holds initially ...
LEMMA InitClaim == Init => ClaimInv
<1> SUFFICES ASSUME Init PROVE ClaimInv  OBVIOUS
<1>1. Consistent(NewHost)
  BY DEF Consistent, NewHost, HeldStates
<1>2. HostsConsistent /\ CacheOK
  BY <1>1, ActorFacts DEF Init, HostsConsistent, CacheOK, NoCopies, Consistent
<1>3. /\ \A c \in NodeClaims : CreatorOK(c) /\ DeleterOK(c)
      /\ \A h \in Hosts : ProberOK(h) /\ Fenced(h)
  BY Zenon DEF Init, CreatorOK, DeleterOK, ProberOK, Fenced, CreateIdle, DeleteIdle,
         ProbeIdle, HoldingPCs
<1> QED  BY <1>2, <1>3, InitTyped DEF ClaimInv

\* ... and every step preserves it.
LEMMA NextClaim == ClaimInv /\ [Next]_vars => ClaimInv'
<1> SUFFICES ASSUME ClaimInv, [Next]_vars PROVE ClaimInv'  OBVIOUS
<1>1. Typed'
  BY NextTyped DEF ClaimInv
<1> QED  BY <1>1, CreateClaim, DeleteClaim, ProbeClaim, EnvironmentClaim, CrashClaim
         DEF Next

\* The invariant holds in every reachable state.
LEMMA ClaimInvariant == Spec => []ClaimInv
BY InitClaim, NextClaim, PTL DEF Spec

\* A host carries a claim exactly when it is Claimed or InUse, although Claim,
\* Release, MarkInUse, the probe and the zombie guard write the two from
\* different copies.
THEOREM ClaimAndStateAgree == Spec => []ClaimMatchesState
<1>1. ClaimInv => ClaimMatchesState
  BY DEF ClaimInv, HostsConsistent, Consistent, ClaimMatchesState
<1> QED  BY <1>1, ClaimInvariant, PTL

\* While the zombie guard runs leave and deletes the Node, the host is Leaving
\* and unclaimed: no launch can get in.
THEOREM LeavingKeepsLaunchesOut == Spec => []LeaveIsFenced
<1>1. ClaimInv => LeaveIsFenced
  BY DEF ClaimInv, Fenced, LeaveIsFenced
<1> QED  BY <1>1, ClaimInvariant, PTL

=============================================================================
