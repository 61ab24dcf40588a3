------------------------ MODULE HostPoolLeaseProofs -------------------------
(***************************************************************************)
(* The lease on a host, for any number of hosts, NodeClaims and tokens and *)
(* any bounds: a launch works on a host it owns, a launched NodeClaim keeps *)
(* its host, no claim lands on a host under maintenance, and the claims on *)
(* the API server implement HostLease.                                     *)
(*                                                                         *)
(* The inductive invariant LaunchInv relates the claims on the API server  *)
(* to the calls in progress and to the NodeClaims' lifecycle.  The proof   *)
(* has two halves.  Evolves summarises what a step may do to a claim;      *)
(* LaunchInv survives every such step.  Then every action is shown to be   *)
(* one.                                                                    *)
(***************************************************************************)
EXTENDS HostPoolClaimProofs

\* The launch steps at which the host carries the claim on the server.
OwningPCs == {"join", "setProviderID", "markInUse", "launched"}

\* A Create runs for a NodeClaim that was there, and from the token record on
\* owns its host unless an operator made the NodeClaim vanish.
Launching(c) ==
  /\ create[c].pc # "idle" => nodeClaim[c].phase # "absent"
  /\ create[c].pc \in OwningPCs /\ Exists(c) => sshHost[create[c].host].claim = c
  /\ create[c].pc \in {"markInUse", "launched"} /\ Exists(c)
       => sshHost[create[c].host].pid

\* A Delete runs alone, for a NodeClaim that is being deleted.
Terminating(c) ==
  delete[c].pc # "idle" =>
    create[c].pc = "idle" /\ nodeClaim[c].phase \notin {"absent", "live"}

\* A launched NodeClaim has its host, and no Create is left to give it back.
Launched(c) ==
  /\ nodeClaim[c].phase = "absent" => nodeClaim[c].host = NoHost
  /\ nodeClaim[c].phase = "live" /\ nodeClaim[c].host # NoHost =>
       /\ create[c].pc = "idle"
       /\ sshHost[nodeClaim[c].host].claim = c
       /\ sshHost[nodeClaim[c].host].pid

\* The claims on the server and in the cache are those of NodeClaims that once
\* were there: one that no longer exists is gone for good.
Known(o) == o.claim # NoClaim => nodeClaim[o.claim].phase # "absent"
KnownClaims == \A h \in Hosts : Known(sshHost[h]) /\ Known(copy[Cache][h])

\* The object n drops the claim of o, whose NodeClaim is gone.
GivesUp(o, n) ==
  n.claim = NoClaim /\ o.claim # NoClaim /\ nodeClaim[o.claim].phase = "gone"

\* A Reconcile keeps the claim and the providerID it read, or gives up a claim.
Abandons(h) ==
  probe[h].pc # "idle" =>
    \/ /\ probe[h].new.claim = copy[Prober(h)][h].claim
       /\ probe[h].new.pid = copy[Prober(h)][h].pid
    \/ GivesUp(copy[Prober(h)][h], probe[h].new)

LaunchInv ==
  /\ ClaimInv /\ KnownClaims
  /\ \A c \in NodeClaims : Launching(c) /\ Terminating(c) /\ Launched(c)
  /\ \A h \in Hosts : Abandons(h)

-----------------------------------------------------------------------------
(* What a step may do to claims.                                           *)

\* A host keeps its claim; a Create takes it from the free pool; or its claim
\* goes, by the NodeClaim's own release or because the NodeClaim is gone.
Keeps(h) ==
  sshHost'[h].claim = sshHost[h].claim /\ (sshHost[h].pid => sshHost'[h].pid)
Takes(h, c) ==
  /\ sshHost[h].claim = NoClaim /\ sshHost'[h].claim = c
  /\ ~sshHost[h].maint /\ create[c].pc = "claim"
Drops(h, c) ==
  /\ sshHost[h].claim = c /\ sshHost'[h].claim = NoClaim
  /\ \/ create[c].pc = "release" \/ delete[c].pc = "release"
     \/ nodeClaim[c].phase = "gone"
HostStep(h) == Keeps(h) \/ \E c \in NodeClaims : Takes(h, c) \/ Drops(h, c)
ServerStep ==
  \/ UNCHANGED sshHost
  \/ \E h \in Hosts : HostStep(h) /\ \A i \in Hosts \ {h} : sshHost'[i] = sshHost[i]

\* The cache only ever shows what is on the server.
CacheStep == \A h \in Hosts : copy'[Cache][h] \in {copy[Cache][h], sshHost[h]}

\* The lifecycle of a NodeClaim, and the host a launch records in it.
Records(c) ==
  /\ create[c].pc = "launched" /\ create'[c].pc = "idle" /\ Exists(c)
  /\ nodeClaim' = [nodeClaim EXCEPT ![c].host = create[c].host]
Moves(c, from, to) ==
  nodeClaim[c].phase = from /\ nodeClaim' = [nodeClaim EXCEPT ![c].phase = to]
Vanishes(c) ==
  /\ Exists(c)
  /\ nodeClaim' = [nodeClaim EXCEPT ![c] = [phase |-> "gone", host |-> NoHost]]
ClaimStep(c) ==
  \/ Records(c) \/ Vanishes(c) \/ Moves(c, "absent", "live")
  \/ Moves(c, "live", "deleting") \/ Moves(c, "deleting", "finalizing")
PhaseStep ==
  UNCHANGED nodeClaim \/ (UNCHANGED sshHost /\ \E c \in NodeClaims : ClaimStep(c))

\* The course of a launch.
Begins(c) ==
  /\ create[c].pc = "idle" /\ delete[c].pc = "idle"
  /\ nodeClaim[c] = [phase |-> "live", host |-> NoHost]
  /\ create'[c].pc \notin OwningPCs /\ UNCHANGED <<nodeClaim, delete>>
Advances(c) ==
  /\ create'[c].host = create[c].host
  /\ LET h == create[c].host IN
     \/ create[c].pc = "record" /\ create'[c].pc = "join" /\ sshHost'[h].claim = c
     \/ create[c].pc = "join" /\ create'[c].pc = "setProviderID"
     \/ create[c].pc = "setProviderID" /\ create'[c].pc = "markInUse" /\ sshHost'[h].pid
     \/ create[c].pc = "markInUse" /\ create'[c].pc = "launched"
LaunchStep(c) ==
  \/ create'[c].pc = "idle" \/ (create[c].pc # "idle" /\ create'[c].pc \notin OwningPCs)
  \/ create'[c].pc = create[c].pc /\ create'[c].host = create[c].host
  \/ Begins(c) \/ Advances(c)

\* A Delete ends, goes on, or begins.
TerminationStep(c) ==
  \/ delete'[c].pc = "idle" \/ delete[c].pc # "idle"
  \/ /\ create[c].pc = "idle" /\ create'[c].pc = "idle"
     /\ nodeClaim[c].phase = "deleting" /\ UNCHANGED nodeClaim

\* A Reconcile ends, waits, or goes on with an object it may write.
ReconcileStep(h) ==
  \/ probe'[h].pc = "idle"
  \/ /\ probe[h].pc # "idle" /\ probe'[h].new = probe[h].new
     /\ copy'[Prober(h)] = copy[Prober(h)]
  \/ /\ probe'[h].new.claim = copy'[Prober(h)][h].claim
     /\ probe'[h].new.pid = copy'[Prober(h)][h].pid
  \/ GivesUp(copy'[Prober(h)][h], probe'[h].new)

Evolves ==
  /\ ServerStep /\ CacheStep /\ PhaseStep
  /\ \A c \in NodeClaims : LaunchStep(c) /\ TerminationStep(c)
  /\ \A h \in Hosts : ReconcileStep(h)

-----------------------------------------------------------------------------
(* The invariant survives every such step.                                 *)

\* A NodeClaim never becomes absent again, a gone one stays gone, and one that
\* exists after a step in which it was not absent existed before it.
LEMMA PhaseFacts ==
  ASSUME ClaimTypes, PhaseStep, NEW c \in NodeClaims
  PROVE  /\ nodeClaim[c].phase # "absent" => nodeClaim'[c].phase # "absent"
         /\ nodeClaim[c].phase = "gone" => nodeClaim'[c].phase = "gone"
         /\ nodeClaim[c].phase \notin {"absent", "live"} =>
              nodeClaim'[c].phase \notin {"absent", "live"}
         /\ nodeClaim[c].phase # "absent" /\ Exists(c)' => Exists(c)
         /\ nodeClaim'[c].phase = "live" => nodeClaim[c].phase \in {"absent", "live"}
         /\ nodeClaim'[c].phase = "absent" => nodeClaim'[c] = nodeClaim[c]
<1>1. nodeClaim \in [NodeClaims -> NodeClaimStatus]
  BY DEF ClaimTypes
<1>2. CASE UNCHANGED nodeClaim
  BY <1>2 DEF Exists
<1>3. ASSUME NEW d \in NodeClaims, ClaimStep(d)
      PROVE  \/ nodeClaim'[c] = nodeClaim[c]
             \/ Exists(c) /\ nodeClaim'[c].phase = nodeClaim[c].phase
             \/ Exists(c) /\ nodeClaim'[c].phase = "gone"
             \/ nodeClaim[c].phase = "absent" /\ nodeClaim'[c].phase = "live"
             \/ nodeClaim[c].phase = "live" /\ nodeClaim'[c].phase = "deleting"
             \/ nodeClaim[c].phase = "deleting" /\ nodeClaim'[c].phase = "finalizing"
  BY <1>1, <1>3 DEF ClaimStep, Records, Vanishes, Moves, Exists, NodeClaimStatus
<1> QED  BY <1>1, <1>2, <1>3 DEF PhaseStep, Exists, NodeClaimStatus, NodeClaimPhases

\* A host keeps the claim of a NodeClaim that exists and is neither launching
\* towards a release nor being terminated.
LEMMA ClaimStays ==
  ASSUME ServerStep, NEW h \in Hosts, NEW c \in NodeClaims, sshHost[h].claim = c,
         create[c].pc # "release", delete[c].pc = "idle", Exists(c)
  PROVE  Keeps(h)
<1>1. c # NoClaim
  BY NoClaimAssumption
<1>2. CASE UNCHANGED sshHost
  BY <1>2 DEF Keeps
<1>3. ASSUME NEW i \in Hosts, HostStep(i),
             \A j \in Hosts \ {i} : sshHost'[j] = sshHost[j]
      PROVE  Keeps(h)
  BY <1>1, <1>3 DEF HostStep, Keeps, Takes, Drops, Exists
<1> QED  BY <1>2, <1>3 DEF ServerStep

\* Create: what it knows of its host survives.
LEMMA LaunchingStays ==
  ASSUME LaunchInv, Evolves, NEW c \in NodeClaims
  PROVE  Launching(c)'
<1>1. Launching(c) /\ Terminating(c) /\ ServerStep /\ PhaseStep /\ LaunchStep(c)
      /\ ClaimTypes /\ CreateTypes
  BY DEF LaunchInv, Evolves, ClaimInv, Typed
<1>2. /\ nodeClaim[c].phase # "absent" => nodeClaim'[c].phase # "absent"
      /\ nodeClaim[c].phase # "absent" /\ Exists(c)' => Exists(c)
  BY <1>1, PhaseFacts
<1>3. ASSUME create'[c].pc # "idle" PROVE nodeClaim'[c].phase # "absent"
  BY <1>1, <1>2, <1>3 DEF Launching, LaunchStep, Begins, Advances
<1>4. ASSUME create'[c].pc \in OwningPCs, Exists(c)'
      PROVE  /\ sshHost'[create'[c].host].claim = c
             /\ create'[c].pc \in {"markInUse", "launched"} =>
                  sshHost'[create'[c].host].pid
  <2> DEFINE h == create[c].host
  <2>1. /\ create'[c].host = h
        /\ create'[c].pc = create[c].pc \/ Advances(c)
    BY <1>1, <1>4 DEF LaunchStep, Begins, Advances, OwningPCs
  <2>2. create[c].pc \in OwningPCs \cup {"record"}
    BY <1>4, <2>1 DEF Advances, OwningPCs
  <2>3. Exists(c) /\ delete[c].pc = "idle" /\ create[c].pc \notin {"idle", "release"}
    BY <1>1, <1>2, <1>4, <2>2 DEF Launching, Terminating, OwningPCs
  <2>4. CASE create[c].pc \in OwningPCs
    <3>1. h \in Hosts /\ sshHost[h].claim = c
      BY <1>1, <2>3, <2>4 DEF Launching, CreateTypes, OwningPCs, HoldingPCs
    <3>2. Keeps(h)
      BY <1>1, <2>3, <3>1, ClaimStays
    <3> QED  BY <1>1, <2>1, <2>3, <2>4, <3>1, <3>2 DEF Keeps, Launching, Advances, OwningPCs
  <2>5. CASE create[c].pc = "record"
    BY <1>4, <2>1, <2>5 DEF Advances, OwningPCs
  <2> QED  BY <2>2, <2>4, <2>5
<1> QED  BY <1>3, <1>4 DEF Launching, OwningPCs

\* Delete: it stays alone.
LEMMA TerminatingStays ==
  ASSUME LaunchInv, Evolves, NEW c \in NodeClaims
  PROVE  Terminating(c)'
<1>1. Terminating(c) /\ LaunchStep(c) /\ TerminationStep(c) /\ PhaseStep /\ ClaimTypes
  BY DEF LaunchInv, Evolves, ClaimInv, Typed
<1>2. nodeClaim[c].phase \notin {"absent", "live"} =>
        nodeClaim'[c].phase \notin {"absent", "live"}
  BY <1>1, PhaseFacts
<1> QED  BY <1>1, <1>2 DEF Terminating, TerminationStep, LaunchStep, Begins, Advances

\* A launched NodeClaim keeps what it has.
LEMMA LaunchedStays ==
  ASSUME LaunchInv, Evolves, NEW c \in NodeClaims
  PROVE  Launched(c)'
<1>1. /\ Launching(c) /\ Terminating(c) /\ Launched(c) /\ ServerStep /\ PhaseStep
      /\ LaunchStep(c) /\ ClaimTypes /\ CreateTypes
  BY DEF LaunchInv, Evolves, ClaimInv, Typed
<1>2. nodeClaim'[c].phase = "absent" => nodeClaim'[c].host = NoHost
  BY <1>1, PhaseFacts DEF Launched
<1>3. ASSUME nodeClaim'[c].phase = "live", nodeClaim'[c].host # NoHost
      PROVE  /\ create'[c].pc = "idle"
             /\ sshHost'[nodeClaim'[c].host].claim = c
             /\ sshHost'[nodeClaim'[c].host].pid
  <2>1. \/ nodeClaim'[c] = nodeClaim[c]
        \/ /\ create[c].pc = "launched" /\ create'[c].pc = "idle" /\ Exists(c)
           /\ nodeClaim'[c].host = create[c].host /\ UNCHANGED sshHost
    <3>1. CASE UNCHANGED nodeClaim
      BY <3>1
    <3>2. ASSUME NEW d \in NodeClaims, ClaimStep(d), UNCHANGED sshHost
          PROVE  \/ nodeClaim'[c] = nodeClaim[c]
                 \/ /\ create[c].pc = "launched" /\ create'[c].pc = "idle" /\ Exists(c)
                    /\ nodeClaim'[c].host = create[c].host
      BY <1>1, <1>3, <3>2 DEF ClaimStep, Records, Vanishes, Moves, Exists, ClaimTypes,
         NodeClaimStatus, Launched
    <3> QED  BY <1>1, <3>1, <3>2 DEF PhaseStep
  <2>2. CASE nodeClaim'[c] = nodeClaim[c]
    <3> DEFINE h == nodeClaim[c].host
    <3>1. /\ h \in Hosts /\ Exists(c) /\ create[c].pc = "idle" /\ delete[c].pc = "idle"
          /\ sshHost[h].claim = c /\ sshHost[h].pid
      BY <1>1, <1>3, <2>2 DEF Launched, Terminating, ClaimTypes, NodeClaimStatus, Exists
    <3>2. Keeps(h)
      BY <1>1, <3>1, ClaimStays
    <3>3. create'[c].pc = "idle"
      BY <1>1, <1>3, <2>2, <3>1 DEF LaunchStep, Begins, Advances
    <3> QED  BY <2>2, <3>1, <3>2, <3>3 DEF Keeps
  <2>3. CASE /\ create[c].pc = "launched" /\ create'[c].pc = "idle" /\ Exists(c)
             /\ nodeClaim'[c].host = create[c].host /\ UNCHANGED sshHost
    BY <1>1, <2>3 DEF Launching, OwningPCs
  <2> QED  BY <2>1, <2>2, <2>3
<1> QED  BY <1>2, <1>3 DEF Launched

\* The claims stay known ones.
LEMMA KnownStays ==
  ASSUME LaunchInv, Evolves
  PROVE  KnownClaims'
<1>1. /\ ObjectTypes /\ ClaimTypes /\ KnownClaims /\ ServerStep /\ CacheStep /\ PhaseStep
      /\ \A c \in NodeClaims : Launching(c)
  BY DEF LaunchInv, Evolves, ClaimInv, Typed
<1>2. ASSUME NEW o \in HostObject, Known(o)
      PROVE  o.claim # NoClaim => nodeClaim'[o.claim].phase # "absent"
  BY <1>1, <1>2, PhaseFacts DEF Known, HostObject
<1>3. ASSUME NEW h \in Hosts PROVE Known(sshHost[h])'
  <2>1. CASE sshHost'[h].claim = sshHost[h].claim
    BY <1>1, <1>2, <2>1 DEF Known, KnownClaims, ObjectTypes
  <2>2. ASSUME NEW c \in NodeClaims, Takes(h, c) PROVE Known(sshHost[h])'
    BY <1>1, <2>2, PhaseFacts DEF Takes, Known, Launching
  <2>3. CASE sshHost'[h].claim = NoClaim
    BY <2>3 DEF Known
  <2>4. \/ sshHost'[h].claim \in {sshHost[h].claim, NoClaim}
        \/ \E c \in NodeClaims : Takes(h, c)
    BY <1>1 DEF ServerStep, HostStep, Keeps, Drops
  <2> QED  BY <2>1, <2>2, <2>3, <2>4
<1>4. ASSUME NEW h \in Hosts PROVE Known(copy[Cache][h])'
  BY <1>1, <1>2, ActorFacts DEF CacheStep, Known, KnownClaims, ObjectTypes
<1> QED  BY <1>3, <1>4 DEF KnownClaims

\* A Reconcile still writes what it may.
LEMMA AbandonsStays ==
  ASSUME LaunchInv, ClaimInv', Evolves, NEW h \in Hosts
  PROVE  Abandons(h)'
<1> DEFINE o == copy'[Prober(h)][h]
           n == probe'[h].new
<1>1. Abandons(h) /\ ReconcileStep(h) /\ PhaseStep /\ ClaimTypes
  BY DEF LaunchInv, Evolves, ClaimInv, Typed
<1>2. o.claim \in NodeClaims \cup {NoClaim}
  BY ActorFacts DEF ClaimInv, Typed, ObjectTypes, HostObject
<1>3. ASSUME GivesUp(o, n) PROVE GivesUp(copy[Prober(h)][h], probe[h].new)'
  BY <1>1, <1>2, <1>3, PhaseFacts DEF GivesUp
<1>4. ASSUME probe'[h].pc # "idle"
      PROVE  (n.claim = o.claim /\ n.pid = o.pid) \/ GivesUp(o, n)
  BY <1>1, <1>4 DEF Abandons, ReconcileStep
<1> QED  BY <1>3, <1>4 DEF Abandons

\* So the whole invariant does.
LEMMA EvolvesLaunch ==
  ASSUME LaunchInv, ClaimInv', Evolves
  PROVE  LaunchInv'
BY KnownStays, LaunchingStays, TerminatingStays, LaunchedStays, AbandonsStays
   DEF LaunchInv

-----------------------------------------------------------------------------
(* Every action is such a step.                                            *)

\* The calls a step leaves alone.
LEMMA Bystanders ==
  /\ \A c \in NodeClaims : create'[c] = create[c] => LaunchStep(c)
  /\ \A c \in NodeClaims : delete'[c] = delete[c] => TerminationStep(c)
  /\ \A h \in Hosts : probe'[h] = probe[h] /\ copy'[Prober(h)] = copy[Prober(h)]
                        => ReconcileStep(h)
BY DEF LaunchStep, TerminationStep, ReconcileStep

\* A step of one Create.
LEMMA CreateEvolves ==
  ASSUME NEW c \in NodeClaims,
         \A v \in Actors \ {Creator(c)} : copy'[v] = copy[v],
         \A d \in NodeClaims \ {c} : create'[d] = create[d],
         UNCHANGED <<delete, probe>>,
         ServerStep, PhaseStep, LaunchStep(c)
  PROVE  Evolves
<1>1. CacheStep /\ \A h \in Hosts : copy'[Prober(h)] = copy[Prober(h)]
  BY ActorFacts DEF CacheStep
<1> QED  BY <1>1, Bystanders DEF Evolves

\* The shared part of every status write of a Create.
LEMMA SetStatusEvolves ==
  ASSUME ClaimInv, NEW c \in NodeClaims, create[c].pc \in HoldingPCs,
         NEW n \in HostObject, NEW ok \in CreatePCs, NEW fail \in CreatePCs,
         n.claim = Own(c).claim, Own(c).pid => n.pid,
         SetStatus(c, n, ok, fail),
         \/ create'[c].pc = create[c].pc /\ create'[c].host = create[c].host
         \/ create'[c].pc = fail /\ create'[c].host = create[c].host
         \/ /\ create'[c].pc = ok /\ create'[c].host = create[c].host
            /\ sshHost'[create[c].host].claim = c
            /\ n.pid => sshHost'[create[c].host].pid
         => LaunchStep(c)
  PROVE  Evolves
<1> DEFINE w == Creator(c)
           h == create[c].host
           m == Patched(w, h, n)
<1>1. w \in Actors /\ h \in Hosts /\ "claim" \notin HoldingPCs /\ Typed
  BY ActorFacts DEF ClaimInv, Typed, CreateTypes, HoldingPCs
<1>2. /\ n.claim = c
      /\ w \in fresh[h] => sshHost[h].claim = c /\ copy[w][h].claim = c
                             /\ copy[w][h].pid = sshHost[h].pid
  BY <1>1, Zenon DEF ClaimInv, CreatorOK, Own
<1>3. w \in fresh[h] => m.claim = c /\ m.pid = n.pid
  BY <1>1, <1>2, PatchedFacts DEF Typed
<1>4. w \in fresh[h] => (sshHost[h].pid => m.pid)
  BY <1>2, <1>3, Zenon DEF Own
<1>5. \/ /\ w \in fresh[h] /\ m = sshHost[h]
         /\ copy' = [copy EXCEPT ![w][h] = m] /\ UNCHANGED <<sshHost, fresh>>
         /\ GotoCreate(c, ok)
      \/ w \in fresh[h] /\ Write(w, h, m) /\ GotoCreate(c, ok)
      \/ ReadCached(w, {h}) /\ (UNCHANGED create \/ GotoCreate(c, fail))
      \/ /\ copy' = [copy EXCEPT ![w][h] = n] /\ UNCHANGED <<sshHost, fresh>>
         /\ GotoCreate(c, fail)
      \/ PatchError(w, h, n) /\ GotoCreate(c, fail)
  BY DEF SetStatus
<1>6. UNCHANGED <<nodeClaim, delete, probe>>
  BY DEF SetStatus, CreateUnchanged
<1>7. /\ \A d \in NodeClaims \ {c} : create'[d] = create[d]
      /\ create'[c].host = h
      /\ GotoCreate(c, ok) => create'[c].pc = ok
      /\ GotoCreate(c, fail) => create'[c].pc = fail
      /\ UNCHANGED create => create'[c].pc = create[c].pc
  <2>1. UNCHANGED create \/ GotoCreate(c, ok) \/ GotoCreate(c, fail)
    BY <1>5
  <2> QED  BY <1>1, <2>1 DEF GotoCreate, Typed, CreateTypes, CreateCall
<1> HIDE DEF w, h, m
<1>8. \A v \in Actors \ {w} : copy'[v] = copy[v]
  BY <1>1, <1>5, OthersUndisturbed DEF Typed, Undisturbed
<1>9. \/ sshHost' = sshHost
      \/ w \in fresh[h] /\ sshHost' = [sshHost EXCEPT ![h] = m]
  BY <1>5 DEF Write, ReadCached, PatchError, m
<1>10. ServerStep
  <2>1. CASE w \in fresh[h] /\ sshHost' = [sshHost EXCEPT ![h] = m]
    <3>1. sshHost'[h] = m /\ \A i \in Hosts \ {h} : sshHost'[i] = sshHost[i]
      BY <1>1, <2>1 DEF Typed, ObjectTypes
    <3>2. Keeps(h)
      BY <1>2, <1>3, <1>4, <2>1, <3>1 DEF Keeps
    <3> QED  BY <1>1, <3>1, <3>2 DEF ServerStep, HostStep
  <2> QED  BY <1>9, <2>1 DEF ServerStep
<1>11. \/ create'[c].pc \in {create[c].pc, fail}
       \/ create'[c].pc = ok /\ sshHost'[h].claim = c /\ (n.pid => sshHost'[h].pid)
  <2>1. CASE w \in fresh[h] /\ m = sshHost[h] /\ sshHost' = sshHost /\ GotoCreate(c, ok)
    BY <1>3, <1>7, <2>1
  <2>2. CASE w \in fresh[h] /\ Write(w, h, m) /\ GotoCreate(c, ok)
    <3>1. sshHost'[h] = m
      BY <1>1, <2>2 DEF Write, Typed, ObjectTypes
    <3> QED  BY <1>3, <1>7, <2>2, <3>1
  <2> QED  BY <1>5, <1>7, <2>1, <2>2
<1>12. LaunchStep(c)
  BY <1>7, <1>11 DEF h
<1> QED  BY <1>6, <1>7, <1>8, <1>10, <1>12, CreateEvolves DEF PhaseStep, w

\* Every step of a Create.
LEMMA CreateLaunch ==
  ASSUME ClaimInv, NEW c \in NodeClaims, CreateStep(c)
  PROVE  Evolves
<1> DEFINE w == Creator(c)
<1>0. /\ w \in Actors /\ create[c] \in CreateCall /\ create \in [NodeClaims -> CreateCall]
      /\ Typed /\ c # NoClaim /\ "claim" \notin HoldingPCs
  BY ActorFacts, NoClaimAssumption DEF ClaimInv, Typed, CreateTypes, HoldingPCs
<1>1. CASE CreateBegin(c)
  <2>1. /\ \A d \in NodeClaims \ {c} : create'[d] = create[d]
        /\ create'[c].pc \in {"prepare", "claim", "exhausted"}
    <3>1. CASE \E h : create' = [create EXCEPT ![c].pc = "prepare", ![c].host = h]
      <4>1. PICK h : create' = [create EXCEPT ![c].pc = "prepare", ![c].host = h]
        BY <3>1, Zenon
      <4> QED  BY <1>0, <4>1 DEF CreateCall
    <3>2. CASE create' = [create EXCEPT ![c].pc = "claim", ![c].cands = Available]
      BY <1>0, <3>2 DEF CreateCall
    <3>3. CASE GotoCreate(c, "exhausted")
      BY <1>0, <3>3 DEF GotoCreate, CreateCall
    <3>4. \/ \E h : create' = [create EXCEPT ![c].pc = "prepare", ![c].host = h]
          \/ create' = [create EXCEPT ![c].pc = "claim", ![c].cands = Available]
          \/ GotoCreate(c, "exhausted")
      BY <1>1, Zenon DEF CreateBegin
    <3> QED  BY <3>1, <3>2, <3>3, <3>4
  <2>2. UNCHANGED <<nodeClaim, delete, probe>> /\ Begins(c)
    BY <1>1, <2>1 DEF CreateBegin, CreateUnchanged, Begins, OwningPCs
  <2>3. /\ UNCHANGED sshHost
        /\ \A v \in Actors \ {w} : copy'[v] = copy[v]
    BY <1>0, <1>1 DEF CreateBegin, ReadCached, objects, Typed, ObjectTypes
  <2> QED  BY <2>1, <2>2, <2>3, CreateEvolves DEF ServerStep, PhaseStep, LaunchStep
<1>2. CASE ClaimHost(c)
  <2>1. PICK h \in create[c].cands :
          LET mine == ClaimedBy(copy[w][h], c) IN
          \/ /\ w \in fresh[h] /\ Write(w, h, mine)
             /\ create' = [create EXCEPT ![c].pc = "prepare", ![c].host = h,
                                         ![c].cands = {}]
          \/ /\ UNCHANGED objects
             /\ create' = [create EXCEPT ![c].cands = create[c].cands \ {h},
                  ![c].pc = IF create[c].cands \ {h} = {} THEN "exhausted" ELSE "claim"]
          \/ /\ GotoCreate(c, "failed")
             /\ \/ UNCHANGED objects
                \/ /\ w \in fresh[h]
                   /\ sshHost' = [sshHost EXCEPT ![h] = mine]
                   /\ fresh' = [fresh EXCEPT ![h] = {}]
                   /\ UNCHANGED copy
    BY <1>2, Zenon DEF ClaimHost
  <2>2. /\ create[c].pc = "claim" /\ UNCHANGED <<nodeClaim, delete, probe>> /\ h \in Hosts
    BY <1>0, <1>2, <2>1 DEF ClaimHost, CreateUnchanged, CreateCall
  <2> DEFINE mine == ClaimedBy(copy[w][h], c)
  <2>3. w \in fresh[h] => /\ sshHost[h].claim = NoClaim /\ ~sshHost[h].maint
                         /\ mine.claim = c
    <3>1. copy[w][h] \in HostObject
      BY <1>0, <2>2 DEF Typed, ObjectTypes
    <3>2. w \in fresh[h] => Claimable(copy[w][h]) /\ copy[w][h] = sshHost[h]
      BY <2>1, <2>2 DEF ClaimInv, CreatorOK
    <3> QED  BY <3>1, <3>2 DEF HostObject, ClaimedBy, Claimable
  <2>4. /\ \A d \in NodeClaims \ {c} : create'[d] = create[d]
        /\ create'[c].pc \in {"prepare", "claim", "exhausted", "failed"}
    <3>1. CASE create' = [create EXCEPT ![c].pc = "prepare", ![c].host = h, ![c].cands = {}]
      BY <1>0, <3>1 DEF CreateCall
    <3>2. CASE create' = [create EXCEPT ![c].cands = create[c].cands \ {h},
                 ![c].pc = IF create[c].cands \ {h} = {} THEN "exhausted" ELSE "claim"]
      BY <1>0, <3>2 DEF CreateCall
    <3>3. CASE GotoCreate(c, "failed")
      BY <1>0, <3>3 DEF GotoCreate, CreateCall
    <3> QED  BY <2>1, <3>1, <3>2, <3>3
  <2> HIDE DEF mine
  <2>5. \/ UNCHANGED sshHost
        \/ w \in fresh[h] /\ sshHost' = [sshHost EXCEPT ![h] = mine]
    BY <2>1 DEF Write, objects, mine
  <2>6. \A v \in Actors \ {w} : copy'[v] = copy[v]
    BY <1>0, <2>1 DEF Write, objects, Typed, ObjectTypes
  <2>7. ServerStep
    <3>1. CASE w \in fresh[h] /\ sshHost' = [sshHost EXCEPT ![h] = mine]
      <4>1. sshHost'[h] = mine /\ \A i \in Hosts \ {h} : sshHost'[i] = sshHost[i]
        BY <2>2, <3>1 DEF Typed, ObjectTypes, ClaimInv
      <4>2. Takes(h, c)
        BY <2>2, <2>3, <3>1, <4>1 DEF Takes
      <4> QED  BY <2>2, <4>1, <4>2 DEF ServerStep, HostStep
    <3> QED  BY <2>5, <3>1 DEF ServerStep
  <2>8. LaunchStep(c)
    BY <2>2, <2>4 DEF LaunchStep, OwningPCs
  <2> QED  BY <2>2, <2>4, <2>6, <2>7, <2>8, CreateEvolves DEF PhaseStep
<1>3. CASE Prepare(c) \/ CreateToken(c) \/ Join(c) \/ DiscardToken(c) \/ ReleaseToken(c)
  <2>1. UNCHANGED <<objects, nodeClaim, delete, probe>>
    BY <1>3 DEF Prepare, CreateToken, Join, DiscardToken, ReleaseToken, CreateUnchanged
  <2>2. /\ create'[c].host = create[c].host
        /\ \A d \in NodeClaims \ {c} : create'[d] = create[d]
        /\ \/ create[c].pc # "idle" /\ create'[c].pc \notin OwningPCs
           \/ create[c].pc = "join" /\ create'[c].pc = "setProviderID"
    <3> USE <1>0 DEF CreateCall, GotoCreate, OwningPCs
    <3>1. CASE Prepare(c)
      BY <3>1 DEF Prepare
    <3>2. CASE CreateToken(c)
      BY <3>2 DEF CreateToken
    <3>3. CASE Join(c)
      BY <3>3 DEF Join
    <3>4. CASE DiscardToken(c)
      BY <3>4 DEF DiscardToken
    <3>5. CASE ReleaseToken(c)
      BY <3>5 DEF ReleaseToken
    <3> QED  BY <1>3, <3>1, <3>2, <3>3, <3>4, <3>5
  <2>3. LaunchStep(c)
    BY <2>2 DEF LaunchStep, Advances
  <2> QED  BY <2>1, <2>2, <2>3, CreateEvolves DEF objects, ServerStep, PhaseStep
<1>4. CASE \/ SetInstalled(c) \/ RecordToken(c) \/ SetProviderID(c) \/ MarkInUse(c)
           \/ ForgetToken(c)
  <2>1. create[c].pc \in HoldingPCs /\ create[c].pc # "idle"
    BY <1>4 DEF SetInstalled, RecordToken, SetProviderID, MarkInUse, ForgetToken,
                HoldingPCs
  <2>2. Own(c) \in HostObject /\ create[c].token \in TokenIDs \cup {NoToken}
    BY <1>0, <2>1, OwnType DEF CreateCall
  <2>3. {"mint", "dropToken", "join", "discard", "markInUse", "failed", "launched"}
          \subseteq CreatePCs
    BY DEF CreatePCs
  <2>4. CASE SetInstalled(c)
    <3> DEFINE n == [Own(c) EXCEPT !.installed = TRUE]
    <3>1. n \in HostObject /\ n.claim = Own(c).claim /\ n.pid = Own(c).pid
      BY <2>2, Zenon DEF HostObject, HostStates
    <3>2. SetStatus(c, n, "mint", "dropToken")
      BY <2>4 DEF SetInstalled
    <3> HIDE DEF n
    <3> QED  BY <2>1, <2>3, <3>1, <3>2, SetStatusEvolves DEF LaunchStep, OwningPCs
  <2>5. CASE RecordToken(c)
    <3> DEFINE n == [Own(c) EXCEPT !.token = create[c].token]
    <3>1. n \in HostObject /\ n.claim = Own(c).claim /\ n.pid = Own(c).pid
      BY <2>2 DEF HostObject, HostStates
    <3>2. SetStatus(c, n, "join", "discard") /\ create[c].pc = "record"
      BY <2>5 DEF RecordToken
    <3> HIDE DEF n
    <3> QED  BY <2>1, <2>3, <3>1, <3>2, SetStatusEvolves
             DEF LaunchStep, Advances, OwningPCs
  <2>6. CASE SetProviderID(c)
    <3> DEFINE n == [Own(c) EXCEPT !.pid = TRUE]
    <3>1. n \in HostObject /\ n.claim = Own(c).claim /\ n.pid
      BY <2>2, Zenon DEF HostObject, HostStates
    <3>2. SetStatus(c, n, "markInUse", "failed") /\ create[c].pc = "setProviderID"
      BY <2>6 DEF SetProviderID
    <3> HIDE DEF n
    <3> QED  BY <2>1, <2>3, <3>1, <3>2, SetStatusEvolves
             DEF LaunchStep, Advances, OwningPCs
  <2>7. CASE MarkInUse(c)
    <3> DEFINE n == [Own(c) EXCEPT !.state = "InUse"]
    <3>1. n \in HostObject /\ n.claim = Own(c).claim /\ n.pid = Own(c).pid
      BY <2>2 DEF HostObject, HostStates
    <3>2. SetStatus(c, n, "launched", "launched") /\ create[c].pc = "markInUse"
      BY <2>7 DEF MarkInUse
    <3> HIDE DEF n
    <3> QED  BY <2>1, <2>3, <3>1, <3>2, SetStatusEvolves
             DEF LaunchStep, Advances, OwningPCs
  <2>8. CASE ForgetToken(c)
    <3> DEFINE n == [Own(c) EXCEPT !.token = NoToken]
    <3>1. n \in HostObject /\ n.claim = Own(c).claim /\ n.pid = Own(c).pid
      BY <2>2 DEF HostObject, HostStates
    <3>2. SetStatus(c, n, "dropToken", "dropToken")
      BY <2>8 DEF ForgetToken
    <3> HIDE DEF n
    <3> QED  BY <2>1, <2>3, <3>1, <3>2, SetStatusEvolves DEF LaunchStep, OwningPCs
  <2> QED  BY <1>4, <2>4, <2>5, <2>6, <2>7, <2>8
<1>5. CASE ReleaseHost(c)
  <2> DEFINE h == create[c].host
             new == Released(copy[w][h], create[c].healthy)
             m == Patched(w, h, new)
  <2>1. /\ create[c].pc = "release" /\ GotoCreate(c, "failed")
        /\ UNCHANGED <<nodeClaim, delete, probe>>
        /\ UNCHANGED objects \/ (w \in fresh[h] /\ Write(w, h, m)) \/ PatchError(w, h, new)
    BY <1>5 DEF ReleaseHost, CreateUnchanged
  <2>2. h \in Hosts /\ create[c].pc \in HoldingPCs
    BY <1>0, <2>1 DEF HoldingPCs, Typed, CreateTypes
  <2>3. w \in fresh[h] => sshHost[h].claim = c /\ m.claim = NoClaim
    <3>1. copy[w][h] \in HostObject /\ new \in HostObject
      BY <1>0, <2>2, ObjectFacts DEF Typed, ObjectTypes, CreateCall
    <3>2. w \in fresh[h] => sshHost[h].claim = c /\ copy[w][h].claim = c
      BY <2>2 DEF ClaimInv, CreatorOK
    <3>3. new.claim = NoClaim
      BY <3>1 DEF Released, HostObject
    <3> HIDE DEF new, h, w
    <3> QED  BY <1>0, <2>2, <3>1, <3>2, <3>3, PatchedFacts DEF Typed
  <2>4. /\ \A d \in NodeClaims \ {c} : create'[d] = create[d]
        /\ create'[c].pc = "failed"
    BY <1>0, <2>1 DEF GotoCreate, CreateCall
  <2> HIDE DEF h, new, w, m
  <2>5. sshHost' = sshHost \/ (w \in fresh[h] /\ sshHost' = [sshHost EXCEPT ![h] = m])
    BY <2>1 DEF Write, PatchError, objects, m
  <2>6. \A v \in Actors \ {w} : copy'[v] = copy[v]
    BY <1>0, <2>1, <2>2, OthersUndisturbed DEF Typed, Undisturbed
  <2>7. ServerStep
    <3>1. CASE w \in fresh[h] /\ sshHost' = [sshHost EXCEPT ![h] = m]
      <4>1. sshHost'[h] = m /\ \A i \in Hosts \ {h} : sshHost'[i] = sshHost[i]
        BY <1>0, <2>2, <3>1 DEF Typed, ObjectTypes
      <4>2. Drops(h, c)
        BY <2>1, <2>3, <3>1, <4>1 DEF Drops
      <4> QED  BY <2>2, <4>1, <4>2 DEF ServerStep, HostStep
    <3> QED  BY <2>5, <3>1 DEF ServerStep
  <2>8. LaunchStep(c)
    BY <2>1, <2>4 DEF LaunchStep, OwningPCs
  <2> QED  BY <2>1, <2>4, <2>6, <2>7, <2>8, CreateEvolves DEF PhaseStep, w
<1>6. CASE CreateReturn(c)
  <2>1. /\ create'[c].pc = "idle" /\ UNCHANGED <<sshHost, delete, probe>>
        /\ \A d \in NodeClaims \ {c} : create'[d] = create[d]
    BY <1>0, <1>6 DEF CreateReturn, CreateIdle, Forget, ReadCached
  <2>2. \A v \in Actors \ {w} : copy'[v] = copy[v]
    BY <1>0, <1>6 DEF CreateReturn, Forget, ReadCached, Typed, ObjectTypes
  <2>3. PhaseStep
    BY <1>6, <2>1, Zenon DEF CreateReturn, PhaseStep, ClaimStep, Records, Moves
  <2> QED  BY <2>1, <2>2, <2>3, CreateEvolves DEF ServerStep, LaunchStep
<1> QED  BY <1>1, <1>2, <1>3, <1>4, <1>5, <1>6 DEF CreateStep

\* Every step of a Delete.
LEMMA DeleteLaunch ==
  ASSUME ClaimInv, NEW c \in NodeClaims, DeleteStep(c)
  PROVE  Evolves
<1> DEFINE w == Deleter(c)
<1>0. w \in Actors /\ w # Cache /\ Typed /\ delete \in [NodeClaims -> DeleteCall]
  BY ActorFacts DEF ClaimInv, Typed, DeleteTypes
<1>1. ASSUME \A v \in Actors \ {w} : copy'[v] = copy[v], UNCHANGED <<create, probe>>,
             \A d \in NodeClaims \ {c} : delete'[d] = delete[d],
             ServerStep, PhaseStep, TerminationStep(c)
      PROVE  Evolves
  <2>1. CacheStep /\ \A h \in Hosts : copy'[Prober(h)] = copy[Prober(h)]
    BY <1>1, ActorFacts, Zenon DEF CacheStep
  <2> QED  BY <1>1, <2>1, Bystanders DEF Evolves
<1>2. CASE DeleteBegin(c)
  <2>1. /\ nodeClaim[c].phase = "deleting" /\ create[c].pc = "idle"
        /\ UNCHANGED <<sshHost, create, probe>>
        /\ \/ /\ nodeClaim' = [nodeClaim EXCEPT ![c].phase = "finalizing"]
              /\ UNCHANGED <<objects, delete>>
           \/ /\ ReadCached(w, {nodeClaim[c].host}) /\ UNCHANGED nodeClaim
              /\ delete' = [delete EXCEPT ![c].pc = "leave", ![c].host = nodeClaim[c].host]
    BY <1>2 DEF DeleteBegin, ReadCached, objects
  <2>2. /\ \A v \in Actors \ {w} : copy'[v] = copy[v]
        /\ \A d \in NodeClaims \ {c} : delete'[d] = delete[d]
    BY <1>0, <2>1 DEF ReadCached, objects, Typed, ObjectTypes
  <2>3. PhaseStep
    BY <2>1 DEF PhaseStep, ClaimStep, Moves
  <2>4. TerminationStep(c)
    BY <2>1 DEF TerminationStep
  <2> QED  BY <1>1, <2>1, <2>2, <2>3, <2>4 DEF ServerStep
<1>3. CASE Leave(c) \/ DeleteToken(c)
  <2>1. UNCHANGED <<objects, nodeClaim, create, probe>> /\ delete[c].pc # "idle"
    BY <1>3 DEF Leave, DeleteToken, DeleteUnchanged
  <2>2. \A d \in NodeClaims \ {c} : delete'[d] = delete[d]
    BY <1>0, <1>3 DEF Leave, DeleteToken, GotoDelete
  <2> QED  BY <1>1, <2>1, <2>2 DEF objects, ServerStep, PhaseStep, TerminationStep
<1>4. CASE DeleteRelease(c)
  <2> DEFINE h == delete[c].host
             new == Released(copy[w][h], delete[c].leaveOK)
             m == Patched(w, h, new)
  <2>1. /\ delete[c].pc = "release" /\ UNCHANGED <<nodeClaim, create, probe>>
        /\ delete' = [delete EXCEPT ![c] = DeleteIdle]
        /\ ReadCached(w, {}) \/ (w \in fresh[h] /\ WriteAndForget(w, h, m))
    BY <1>4 DEF DeleteRelease, DeleteUnchanged, Forget
  <2>2. h \in Hosts /\ delete[c].pc # "idle"
    BY <1>0, <2>1 DEF Typed, DeleteTypes
  <2>3. w \in fresh[h] => sshHost[h].claim = c /\ m.claim = NoClaim
    <3>1. copy[w][h] \in HostObject /\ new \in HostObject
      BY <1>0, <2>2, ObjectFacts DEF Typed, ObjectTypes, DeleteCall
    <3>2. w \in fresh[h] => sshHost[h].claim = c /\ copy[w][h].claim = c
      BY <2>2 DEF ClaimInv, DeleterOK
    <3>3. new.claim = NoClaim
      BY <3>1 DEF Released, HostObject
    <3> HIDE DEF new, h, w
    <3> QED  BY <1>0, <2>2, <3>1, <3>2, <3>3, PatchedFacts DEF Typed
  <2>4. \A d \in NodeClaims \ {c} : delete'[d] = delete[d]
    BY <1>0, <2>1
  <2> HIDE DEF h, m, w
  <2>5. sshHost' = sshHost \/ (w \in fresh[h] /\ sshHost' = [sshHost EXCEPT ![h] = m])
    BY <2>1 DEF WriteAndForget, ReadCached
  <2>6. \A v \in Actors \ {w} : copy'[v] = copy[v]
    BY <1>0, <2>1, <2>2, OthersUndisturbed DEF Typed, Undisturbed
  <2>7. ServerStep
    <3>1. CASE w \in fresh[h] /\ sshHost' = [sshHost EXCEPT ![h] = m]
      <4>1. sshHost'[h] = m /\ \A i \in Hosts \ {h} : sshHost'[i] = sshHost[i]
        BY <1>0, <2>2, <3>1 DEF Typed, ObjectTypes
      <4>2. Drops(h, c)
        BY <2>1, <2>3, <3>1, <4>1 DEF Drops
      <4> QED  BY <2>2, <4>1, <4>2 DEF ServerStep, HostStep
    <3> QED  BY <2>5, <3>1 DEF ServerStep
  <2> QED  BY <1>1, <2>1, <2>2, <2>4, <2>6, <2>7 DEF PhaseStep, TerminationStep
<1> QED  BY <1>2, <1>3, <1>4 DEF DeleteStep

\* A stale claim is one of a NodeClaim that does not exist.
LEMMA StaleIsGone ==
  ASSUME ClaimTypes, NEW c \in NodeClaims, StaleClaim(c), nodeClaim[c].phase # "absent"
  PROVE  nodeClaim[c].phase = "gone"
BY DEF StaleClaim, Exists, ClaimTypes, NodeClaimStatus, NodeClaimPhases

\* A step of one Reconcile that leaves the host's claim alone or gives it up.
LEMMA ProbeEvolves ==
  ASSUME Typed, NEW h \in Hosts,
         \A v \in Actors \ {Prober(h)} : copy'[v] = copy[v],
         \A i \in Hosts \ {h} : probe'[i] = probe[i] /\ sshHost'[i] = sshHost[i],
         UNCHANGED <<nodeClaim, create, delete>>, HostStep(h), ReconcileStep(h)
  PROVE  Evolves
<1>1. CacheStep /\ \A i \in Hosts \ {h} : copy'[Prober(i)] = copy[Prober(i)]
  BY ActorFacts DEF CacheStep
<1>2. \A i \in Hosts : ReconcileStep(i)
  BY <1>1, Bystanders
<1>3. \A c \in NodeClaims : LaunchStep(c) /\ TerminationStep(c)
  BY Bystanders
<1>4. ServerStep /\ PhaseStep
  BY DEF ServerStep, PhaseStep
<1> QED  BY <1>1, <1>2, <1>3, <1>4 DEF Evolves

\* The claim and the providerID of the objects a Reconcile computes.
LEMMA ComputedObjects ==
  ASSUME NEW o \in HostObject
  PROVE  /\ Maintained(o).claim = o.claim /\ Maintained(o).pid = o.pid
         /\ Abandoned(o).claim = NoClaim
         /\ [o EXCEPT !.token = NoToken].claim = o.claim
         /\ [o EXCEPT !.token = NoToken].pid = o.pid
         /\ WithReady(o).claim = o.claim /\ WithReady(o).pid = o.pid
BY DEF HostObject, Maintained, Abandoned, WithReady

\* A new state leaves them alone.
LEMMA WithState ==
  ASSUME NEW o \in HostObject, NEW s \in HostStates
  PROVE  /\ [o EXCEPT !.state = s] \in HostObject
         /\ [o EXCEPT !.state = s].claim = o.claim
         /\ [o EXCEPT !.state = s].pid = o.pid
BY DEF HostObject

\* A Reconcile's write over the object it saw keeps claim and providerID if the
\* object it wants to write has them.
LEMMA ProbeWriteKeeps ==
  ASSUME Typed, NEW h \in Hosts, copy[Prober(h)][h] = sshHost[h], NEW n \in HostObject,
         n.claim = copy[Prober(h)][h].claim, n.pid = copy[Prober(h)][h].pid,
         \/ Write(Prober(h), h, Patched(Prober(h), h, n))
         \/ WriteAndForget(Prober(h), h, Patched(Prober(h), h, n))
  PROVE  HostStep(h) /\ \A i \in Hosts \ {h} : sshHost'[i] = sshHost[i]
<1> DEFINE w == Prober(h)
           m == Patched(w, h, n)
<1>1. w \in Actors
  BY ActorFacts
<1>2. m.claim = sshHost[h].claim /\ m.pid = sshHost[h].pid
  BY <1>1, PatchedFacts DEF Typed
<1> HIDE DEF m
<1>3. sshHost'[h] = m /\ \A i \in Hosts \ {h} : sshHost'[i] = sshHost[i]
  BY DEF Write, WriteAndForget, Typed, ObjectTypes, m
<1> QED  BY <1>2, <1>3 DEF HostStep, Keeps

\* Every step of a Reconcile.
LEMMA ProbeLaunch ==
  ASSUME LaunchInv, NEW h \in Hosts, ProbeStep(h) \/ ProbeError(h)
  PROVE  Evolves
<1> DEFINE w == Prober(h)
           own == copy[w][h]
           cached == copy[Cache][h]
           new == Maintained(cached)
<1>0. /\ w \in Actors /\ Typed /\ own \in HostObject /\ cached \in HostObject
      /\ sshHost[h] \in HostObject /\ probe[h].new \in HostObject
      /\ probe \in [Hosts -> ProbeCall] /\ new \in HostObject
  BY ActorFacts, ObjectFacts DEF LaunchInv, ClaimInv, Typed, ObjectTypes, ProbeTypes,
     ProbeCall
<1>1. /\ probe[h].pc # "idle" /\ w \in fresh[h] => own = sshHost[h]
      /\ probe[h].pc \notin {"idle", "patch"} =>
           /\ own.claim = NoClaim /\ probe[h].new.claim = own.claim
           /\ probe[h].new.pid = own.pid
  BY Zenon DEF LaunchInv, ClaimInv, ProberOK, Abandons, GivesUp
<1>2. UNCHANGED <<nodeClaim, create, delete>>
  BY Zenon DEF ProbeStep, ProbeError, ProbeMaintenance, ProbeHeld, ProbeFree, ProbeBegin,
     ProbeSSH, HandleZombie, ZombieLeave, ZombieDeleteNode, PatchStatus, ProbeUnchanged
<1>3. ASSUME NEW s \in {"Unhealthy", "Available", "Leaving"}, NEW o \in HostObject
      PROVE  /\ [o EXCEPT !.state = s] \in HostObject
             /\ [o EXCEPT !.state = s].claim = o.claim
             /\ [o EXCEPT !.state = s].pid = o.pid
  <2>1. s \in HostStates
    BY DEF HostStates
  <2> QED  BY <2>1, WithState
\* Begin: the copy is the cached object.
<1>4. ASSUME NEW o, ProbeBegin(h), probe'[h].new = o,
             \A i \in Hosts \ {h} : probe'[i] = probe[i],
             (o.claim = cached.claim /\ o.pid = cached.pid) \/ GivesUp(cached, o)
      PROVE  Evolves
  <2>1. ReadCached(w, {h})
    BY <1>4, Zenon DEF ProbeBegin
  <2>2. /\ copy'[w][h] = cached /\ sshHost' = sshHost
        /\ \A v \in Actors \ {w} : copy'[v] = copy[v]
    BY <1>0, <2>1 DEF ReadCached, Typed, ObjectTypes
  <2>3. ReconcileStep(h)
    BY <1>4, <2>2 DEF ReconcileStep
  <2> QED  BY <1>0, <1>2, <1>4, <2>2, <2>3, ProbeEvolves, Zenon DEF HostStep, Keeps
\* Move on: only the object to write changes.
<1>5. ASSUME probe[h].pc # "idle", UNCHANGED objects,
             \A i \in Hosts \ {h} : probe'[i] = probe[i],
             \/ probe'[h].new = probe[h].new
             \/ probe'[h].new.claim = own.claim /\ probe'[h].new.pid = own.pid
      PROVE  Evolves
  <2>1. ReconcileStep(h)
    BY <1>5 DEF ReconcileStep, objects
  <2> QED  BY <1>0, <1>2, <1>5, <2>1, ProbeEvolves DEF objects, HostStep, Keeps
\* Return, with or without a last write.
<1>6. ASSUME NEW m, ReadCached(w, {}) \/ WriteAndForget(w, h, m), ProbeReturns(h),
             ReadCached(w, {}) \/ HostStep(h)
      PROVE  Evolves
  <2>1. probe'[h].pc = "idle" /\ \A i \in Hosts \ {h} : probe'[i] = probe[i]
    BY <1>0, <1>6 DEF ProbeReturns, ProbeIdle
  <2>2. /\ \A v \in Actors \ {w} : copy'[v] = copy[v]
        /\ \A i \in Hosts \ {h} : sshHost'[i] = sshHost[i]
        /\ ReadCached(w, {}) => sshHost' = sshHost
    BY <1>0, <1>6 DEF ReadCached, WriteAndForget, Typed, ObjectTypes
  <2>3. HostStep(h) /\ ReconcileStep(h)
    BY <1>6, <2>1, <2>2, Zenon DEF HostStep, Keeps, ReconcileStep
  <2> QED  BY <1>0, <1>2, <2>1, <2>2, <2>3, ProbeEvolves
\* Write the object n and go on with it.
<1>7. ASSUME probe[h].pc \notin {"idle", "patch"}, w \in fresh[h], NEW n \in HostObject,
             n.claim = own.claim, n.pid = own.pid, Write(w, h, Patched(w, h, n)),
             probe'[h].new = Patched(w, h, n),
             \A i \in Hosts \ {h} : probe'[i] = probe[i]
      PROVE  Evolves
  <2>1. HostStep(h) /\ \A i \in Hosts \ {h} : sshHost'[i] = sshHost[i]
    BY <1>0, <1>1, <1>7, ProbeWriteKeeps, Zenon
  <2>2. /\ copy'[w][h] = Patched(w, h, n)
        /\ \A v \in Actors \ {w} : copy'[v] = copy[v]
    BY <1>0, <1>7 DEF Write, NoCopies, Typed, ObjectTypes
  <2>3. ReconcileStep(h)
    BY <1>7, <2>2, Zenon DEF ReconcileStep
  <2> QED  BY <1>0, <1>2, <1>7, <2>1, <2>2, <2>3, ProbeEvolves, Zenon
<1>8. ASSUME NEW o, ToPatch(h, o)
      PROVE  probe'[h].new = o /\ \A i \in Hosts \ {h} : probe'[i] = probe[i]
  BY <1>0, <1>8 DEF ToPatch, ProbeCall
<1>9. new.claim = cached.claim /\ new.pid = cached.pid
  BY <1>0, ComputedObjects
<1> HIDE DEF new
<1>10. CASE ProbeMaintenance(h) \/ ProbeFree(h)
  <2>1. ProbeBegin(h) /\ probe'[h].new = new /\ \A i \in Hosts \ {h} : probe'[i] = probe[i]
    BY <1>0, <1>8, <1>10 DEF ProbeMaintenance, ProbeFree, ProbeCall, new
  <2> QED  BY <1>4, <1>9, <2>1
<1>11. CASE ProbeHeld(h)
  <2>1. /\ ProbeBegin(h)
        /\ \/ new.claim # NoClaim /\ StaleClaim(new.claim) /\ ToPatch(h, Abandoned(new))
           \/ \E o \in {new, [new EXCEPT !.token = NoToken]} : ToPatch(h, o)
    BY <1>11 DEF ProbeHeld, new
  <2>2. CASE /\ new.claim # NoClaim /\ StaleClaim(new.claim)
             /\ ToPatch(h, Abandoned(new))
    <3>1. cached.claim \in NodeClaims /\ nodeClaim[cached.claim].phase # "absent"
      BY <1>0, <1>9, <2>2, Zenon DEF LaunchInv, KnownClaims, Known, HostObject
    <3>2. nodeClaim[cached.claim].phase = "gone"
      BY <1>0, <1>9, <2>2, <3>1, StaleIsGone DEF Typed
    <3>3. GivesUp(cached, Abandoned(new))
      BY <1>0, <1>9, <2>2, <3>2, ComputedObjects DEF GivesUp
    <3> QED  BY <1>4, <1>8, <2>1, <2>2, <3>3
  <2>3. ASSUME NEW o \in {new, [new EXCEPT !.token = NoToken]}, ToPatch(h, o)
        PROVE  Evolves
    <3>1. o.claim = cached.claim /\ o.pid = cached.pid
      BY <1>0, <1>9, <2>3, ComputedObjects, Zenon
    <3> QED  BY <1>4, <1>8, <2>1, <2>3, <3>1
  <2> QED  BY <2>1, <2>2, <2>3
<1>12. CASE ProbeSSH(h)
  <2>1. probe[h].pc = "ssh"
    BY <1>12 DEF ProbeSSH
  <2>2. CASE \E s \in {"Unhealthy", "Available"} :
               /\ probe' = [probe EXCEPT ![h].pc = "patch", ![h].new.state = s,
                                         ![h].beat = TRUE]
               /\ UNCHANGED objects
    <3>1. PICK s \in {"Unhealthy", "Available"} :
            probe' = [probe EXCEPT ![h].pc = "patch", ![h].new.state = s,
                                   ![h].beat = TRUE]
      BY <2>2, Zenon
    <3>2. /\ probe'[h].new = [probe[h].new EXCEPT !.state = s]
          /\ \A i \in Hosts \ {h} : probe'[i] = probe[i]
      BY <1>0, <3>1 DEF ProbeCall
    <3>3. probe'[h].new.claim = own.claim /\ probe'[h].new.pid = own.pid
      BY <1>0, <1>1, <1>3, <2>1, <3>2
    <3> QED  BY <1>5, <2>1, <2>2, <3>2, <3>3, Zenon
  <2>3. CASE /\ w \in fresh[h] /\ Write(w, h, Patched(w, h, probe[h].new))
             /\ probe' = [probe EXCEPT ![h].pc = "zombie",
                                       ![h].new = Patched(w, h, probe[h].new)]
    <3>1. /\ probe'[h].new = Patched(w, h, probe[h].new)
          /\ \A i \in Hosts \ {h} : probe'[i] = probe[i]
      BY <1>0, <2>3 DEF ProbeCall
    <3> QED  BY <1>0, <1>1, <1>7, <2>1, <2>3, <3>1
  <2>4. CASE Forget(w) /\ ProbeReturns(h)
    BY <1>6, <2>4 DEF Forget
  <2> QED  BY <1>12, <2>2, <2>3, <2>4 DEF ProbeSSH
<1>13. CASE HandleZombie(h)
  <2> DEFINE left == [own EXCEPT !.state = "Leaving"]
             leaving == Patched(w, h, left)
  <2>1. probe[h].pc = "zombie"
    BY <1>13, Zenon DEF HandleZombie
  <2>2. left \in HostObject /\ left.claim = own.claim /\ left.pid = own.pid
    BY <1>0, <1>3
  <2> HIDE DEF left
  <2>3. CASE ToPatch(h, [own EXCEPT !.state = "Unhealthy"]) /\ UNCHANGED objects
    <3>1. /\ probe'[h].new = [own EXCEPT !.state = "Unhealthy"]
          /\ \A i \in Hosts \ {h} : probe'[i] = probe[i]
      BY <1>8, <2>3
    <3>2. probe'[h].new.claim = own.claim /\ probe'[h].new.pid = own.pid
      BY <1>0, <1>3, <3>1
    <3> QED  BY <1>5, <2>1, <2>3, <3>1, <3>2
  <2>4. CASE /\ w \in fresh[h] /\ Write(w, h, leaving)
             /\ \E n : probe' = [probe EXCEPT ![h].pc = "leave", ![h].node = n,
                                             ![h].new = leaving]
    <3>1. probe'[h].new = leaving /\ \A i \in Hosts \ {h} : probe'[i] = probe[i]
      <4> HIDE DEF leaving
      <4> QED  BY <1>0, <2>4 DEF ProbeCall
    <3> QED  BY <1>7, <2>1, <2>2, <2>4, <3>1, Zenon
  <2>5. CASE w \in fresh[h] /\ WriteAndForget(w, h, leaving) /\ ProbeReturns(h)
    <3>1. HostStep(h)
      BY <1>0, <1>1, <2>1, <2>2, <2>5, ProbeWriteKeeps, Zenon
    <3> QED  BY <1>6, <2>5, <3>1
  <2>6. CASE Forget(w) /\ ProbeReturns(h)
    BY <1>6, <2>6 DEF Forget
  <2> QED  BY <1>13, <2>3, <2>4, <2>5, <2>6, Zenon DEF HandleZombie, left
<1>14. CASE ZombieLeave(h) \/ ZombieDeleteNode(h)
  <2>1. /\ probe[h].pc \in {"leave", "deleteNode"} /\ UNCHANGED objects
        /\ \/ GotoProbe(h, "deleteNode")
           \/ \E s \in {"Available", "Unhealthy"} : ToPatch(h, [own EXCEPT !.state = s])
    BY <1>14 DEF ZombieLeave, ZombieDeleteNode
  <2>2. CASE GotoProbe(h, "deleteNode")
    <3>1. probe'[h].new = probe[h].new /\ \A i \in Hosts \ {h} : probe'[i] = probe[i]
      BY <1>0, <2>2 DEF GotoProbe, ProbeCall
    <3> QED  BY <1>5, <2>1, <3>1
  <2>3. ASSUME NEW s \in {"Available", "Unhealthy"}, ToPatch(h, [own EXCEPT !.state = s])
        PROVE  Evolves
    <3>1. /\ probe'[h].new = [own EXCEPT !.state = s]
          /\ \A i \in Hosts \ {h} : probe'[i] = probe[i]
      BY <1>8, <2>3
    <3>2. probe'[h].new.claim = own.claim /\ probe'[h].new.pid = own.pid
      BY <1>0, <1>3, <3>1
    <3> QED  BY <1>5, <2>1, <3>1, <3>2
  <2> QED  BY <2>1, <2>2, <2>3
<1>15. CASE PatchStatus(h)
  <2> DEFINE n == WithReady(probe[h].new)
             m == Patched(w, h, n)
  <2>1. /\ probe[h].pc = "patch" /\ ProbeReturns(h)
        /\ ReadCached(w, {}) \/ (w \in fresh[h] /\ WriteAndForget(w, h, m))
    BY <1>15 DEF PatchStatus, Forget
  <2>2. n \in HostObject /\ n.claim = probe[h].new.claim /\ n.pid = probe[h].new.pid
    BY <1>0, ObjectFacts, ComputedObjects, Zenon
  <2> HIDE DEF n
  <2>3. CASE ReadCached(w, {})
    BY <1>6, <2>1, <2>3
  <2>4. CASE w \in fresh[h] /\ WriteAndForget(w, h, m)
    <3>1. CASE probe[h].new.claim = own.claim /\ probe[h].new.pid = own.pid
      <4>1. HostStep(h)
        BY <1>0, <1>1, <2>1, <2>2, <2>4, <3>1, ProbeWriteKeeps, Zenon
      <4> QED  BY <1>6, <2>1, <2>4, <4>1
    <3>2. CASE GivesUp(own, probe[h].new)
      <4>1. own.claim \in NodeClaims /\ own = sshHost[h]
        BY <1>0, <1>1, <2>1, <2>4, <3>2, Zenon DEF GivesUp, HostObject
      <4>2. m.claim = NoClaim
        BY <1>0, <2>2, <3>2, <4>1, PatchedFacts, Zenon DEF GivesUp, Typed
      <4> HIDE DEF m
      <4>3. sshHost'[h] = m
        BY <1>0, <2>4 DEF WriteAndForget, Typed, ObjectTypes
      <4>4. Drops(h, own.claim)
        BY <3>2, <4>1, <4>2, <4>3 DEF Drops, GivesUp
      <4>5. HostStep(h)
        BY <4>1, <4>4 DEF HostStep
      <4> QED  BY <1>6, <2>1, <2>4, <4>5, Zenon
    <3> QED  BY <2>1, <3>1, <3>2, Zenon DEF LaunchInv, Abandons
  <2> QED  BY <2>1, <2>3, <2>4, Zenon
<1>16. CASE ProbeError(h)
  BY <1>6, <1>16 DEF ProbeError, Forget
<1> QED  BY <1>10, <1>11, <1>12, <1>13, <1>14, <1>15, <1>16 DEF ProbeStep

\* karpenter core, the hosts, the operator, the informer and a restart.
LEMMA EnvironmentLaunch ==
  ASSUME ClaimInv,
         \/ \E c \in NodeClaims : CoreStep(c)
         \/ \E h \in Hosts : \/ Sync(h) \/ Register(h) \/ RemoveForeign(h)
                             \/ Annotate(h) \/ \E c \in NodeClaims : CollectNode(h, c)
         \/ Crash \/ UNCHANGED vars
  PROVE  Evolves
<1>0. ObjectTypes
  BY DEF ClaimInv, Typed
<1>1. ASSUME UNCHANGED <<copy, workers>>, ServerStep, PhaseStep
      PROVE  Evolves
  BY <1>1, Bystanders DEF Evolves, CacheStep, workers
<1>2. ASSUME NEW c \in NodeClaims, CoreStep(c) PROVE Evolves
  <2>1. UNCHANGED <<objects, workers>> /\ ClaimStep(c)
    BY <1>2, Zenon DEF CoreStep, CreateNodeClaim, DeleteNodeClaim, FinalizeNodeClaim,
       ForceDeleteNodeClaim, ClaimStep, Moves, Vanishes, Exists
  <2> QED  BY <1>1, <2>1 DEF objects, ServerStep, PhaseStep
<1>3. ASSUME NEW h \in Hosts, Sync(h) PROVE Evolves
  <2>1. /\ UNCHANGED <<sshHost, nodeClaim, create, delete, probe>>
        /\ \A i \in Hosts : copy'[Cache][i] \in {copy[Cache][i], sshHost[i]}
        /\ \A i \in Hosts : copy'[Prober(i)] = copy[Prober(i)]
    BY <1>0, <1>3, ActorFacts, Zenon DEF Sync, workers, ObjectTypes
  <2> QED  BY <2>1, Bystanders, Zenon DEF Evolves, CacheStep, ServerStep, PhaseStep
<1>4. ASSUME NEW h \in Hosts, Annotate(h) PROVE Evolves
  <2>1. /\ sshHost'[h].claim = sshHost[h].claim /\ sshHost'[h].pid = sshHost[h].pid
        /\ \A i \in Hosts \ {h} : sshHost'[i] = sshHost[i]
        /\ UNCHANGED <<copy, nodeClaim, workers>>
    BY <1>0, <1>4 DEF Annotate, ObjectTypes, HostObject
  <2>2. ServerStep
    BY <2>1 DEF ServerStep, HostStep, Keeps
  <2> QED  BY <1>1, <2>1, <2>2 DEF PhaseStep
<1>5. CASE Crash
  <2>1. /\ UNCHANGED <<sshHost, nodeClaim>> /\ copy'[Cache] = sshHost
        /\ \A c \in NodeClaims : create'[c].pc = "idle" /\ delete'[c].pc = "idle"
        /\ \A h \in Hosts : probe'[h].pc = "idle"
    BY <1>5, ActorFacts, Zenon DEF Crash, CreateIdle, DeleteIdle, ProbeIdle
  <2> QED  BY <2>1, Zenon DEF Evolves, ServerStep, CacheStep, PhaseStep, LaunchStep,
             TerminationStep, ReconcileStep
<1>6. CASE \/ UNCHANGED vars
           \/ \E h \in Hosts : \/ Register(h) \/ RemoveForeign(h)
                               \/ \E c \in NodeClaims : CollectNode(h, c)
  <2>1. UNCHANGED <<objects, nodeClaim, workers>>
    BY <1>6, Zenon DEF vars, Register, RemoveForeign, CollectNode
  <2> QED  BY <1>1, <2>1 DEF objects, ServerStep, PhaseStep
<1> QED  BY <1>2, <1>3, <1>4, <1>5, <1>6

-----------------------------------------------------------------------------
(* The invariant and what follows from it.                                 *)

\* The invariant holds initially ...
LEMMA InitLaunch == Init => LaunchInv
<1> SUFFICES ASSUME Init PROVE LaunchInv  OBVIOUS
<1>1. KnownClaims /\ \A c \in NodeClaims : Launching(c) /\ Terminating(c) /\ Launched(c)
  BY ActorFacts, Zenon DEF Init, KnownClaims, Known, Launching, Terminating, Launched, Exists,
     NoCopies, NewHost, CreateIdle, DeleteIdle, OwningPCs
<1>2. \A h \in Hosts : Abandons(h)
  BY DEF Init, Abandons, ProbeIdle
<1> QED  BY <1>1, <1>2, InitClaim DEF LaunchInv

\* Every step of the pool is a step of the summary.
LEMMA NextEvolves == LaunchInv /\ [Next]_vars => Evolves
<1> SUFFICES ASSUME LaunchInv, [Next]_vars PROVE Evolves  OBVIOUS
<1>1. ClaimInv
  BY DEF LaunchInv
<1> QED  BY <1>1, CreateLaunch, DeleteLaunch, ProbeLaunch, EnvironmentLaunch DEF Next

\* ... every such step preserves it ...
LEMMA NextLaunch == LaunchInv /\ [Next]_vars => LaunchInv'
<1> SUFFICES ASSUME LaunchInv, [Next]_vars PROVE LaunchInv'  OBVIOUS
<1>1. ClaimInv'
  BY NextClaim DEF LaunchInv
<1> QED  BY <1>1, NextEvolves, EvolvesLaunch

\* ... and so it holds in every reachable state.
LEMMA LaunchInvariant == Spec => []LaunchInv
BY InitLaunch, NextLaunch, PTL DEF Spec

\* Create runs the join phase, and everything after it, only on a host that
\* carries its claim on the API server.
THEOREM JoinOnlyOwnHosts == Spec => []JoinOwnsHost
<1>1. LaunchInv => JoinOwnsHost
  BY DEF LaunchInv, Launching, JoinOwnsHost, OwningPCs
<1> QED  BY <1>1, LaunchInvariant, PTL

\* A launched NodeClaim keeps its host and its providerID until it is deleted.
THEOREM LaunchedKeepHosts == Spec => []LaunchedKeepsHost
<1>1. LaunchInv => LaunchedKeepsHost
  BY DEF LaunchInv, Launched, LaunchedKeepsHost
<1> QED  BY <1>1, LaunchInvariant, PTL

\* No claim ever lands on a host that is annotated for maintenance.
THEOREM MaintenanceKeepsClaimsOut == Spec => NoClaimUnderMaintenance
<1> DEFINE A == \A h \in Hosts : sshHost[h].claim = NoClaim /\ sshHost'[h].claim # NoClaim
                                   => ~sshHost[h].maint
<1>1. LaunchInv /\ [Next]_vars => [A]_vars
  <2> SUFFICES ASSUME LaunchInv, [Next]_vars PROVE A  OBVIOUS
  <2>1. ServerStep
    BY NextEvolves DEF Evolves
  <2> QED  BY <2>1 DEF ServerStep, HostStep, Keeps, Takes, Drops
<1> HIDE DEF A
<1>2. Spec => [][A]_vars
  BY <1>1, LaunchInvariant, PTL DEF Spec
<1> QED  BY <1>2 DEF NoClaimUnderMaintenance, A

\* The lease sees a NodeClaim change only when it does.
LEMMA LeasePhaseStays ==
  \A c \in NodeClaims : nodeClaim'[c] = nodeClaim[c] => LeasePhase(c)' = LeasePhase(c)
BY DEF LeasePhase

\* When the lease sees a NodeClaim as absent, and when as launched.
LEMMA LeasePhases ==
  ASSUME ClaimTypes, NEW c \in NodeClaims
  PROVE  /\ LeasePhase(c) = "absent" => nodeClaim[c].phase = "absent"
         /\ LeasePhase(c) = "launched" =>
              nodeClaim[c].phase = "live" /\ nodeClaim[c].host # NoHost
BY DEF LeasePhase, ClaimTypes, NodeClaimStatus, NodeClaimPhases

\* A step that changes the claim on a host takes or ends a lease.
LEMMA ServerLease ==
  ASSUME LaunchInv, ServerStep, UNCHANGED nodeClaim
  PROVE  [Lease!Next]_(Lease!vars)
<1> DEFINE holder == [h \in Hosts |-> sshHost[h].claim]
           phase == [c \in NodeClaims |-> LeasePhase(c)]
<1>0. ClaimTypes
  BY DEF LaunchInv, ClaimInv, Typed
<1>1. phase' = phase
  BY LeasePhaseStays
<1>2. CASE UNCHANGED sshHost
  BY <1>1, <1>2 DEF Lease!vars
<1>3. ASSUME NEW h \in Hosts, HostStep(h),
             \A i \in Hosts \ {h} : sshHost'[i] = sshHost[i]
      PROVE  [Lease!Next]_(Lease!vars)
  <2>1. holder' = [holder EXCEPT ![h] = sshHost'[h].claim]
    BY <1>3, Zenon
  <2>2. CASE Keeps(h)
    <3>1. holder' = holder
      BY <2>1, <2>2, Zenon DEF Keeps
    <3> QED  BY <1>1, <3>1 DEF Lease!vars
  <2>3. ASSUME NEW c \in NodeClaims, Takes(h, c) PROVE Lease!Acquire(h, c)
    <3>1. LeasePhase(c) \notin {"absent", "launched"}
      BY <1>0, <2>3, LeasePhases DEF Takes, LaunchInv, Launching, Launched
    <3> QED  BY <1>1, <2>1, <2>3, <3>1 DEF Lease!Acquire, Takes
  <2>4. ASSUME NEW c \in NodeClaims, Drops(h, c) PROVE Lease!Surrender(h)
    <3>1. LeasePhase(c) # "launched" /\ c # NoClaim
      BY <1>0, <2>4, LeasePhases, NoClaimAssumption
         DEF Drops, LaunchInv, Launched, Terminating
    <3> QED  BY <1>1, <2>1, <2>4, <3>1 DEF Lease!Surrender, Drops
  <2> QED  BY <1>3, <2>2, <2>3, <2>4 DEF HostStep, Lease!Next
<1> QED  BY <1>2, <1>3 DEF ServerStep

\* A step of a NodeClaim's lifecycle is one of the lease's.
LEMMA ClaimLease ==
  ASSUME LaunchInv, UNCHANGED sshHost, NEW c \in NodeClaims, ClaimStep(c)
  PROVE  [Lease!Next]_(Lease!vars)
<1> DEFINE holder == [h \in Hosts |-> sshHost[h].claim]
           phase == [d \in NodeClaims |-> LeasePhase(d)]
<1>1. holder' = holder
  OBVIOUS
<1>2. nodeClaim[c] \in NodeClaimStatus /\ nodeClaim \in [NodeClaims -> NodeClaimStatus]
  BY DEF LaunchInv, ClaimInv, Typed, ClaimTypes
<1>3. phase' = [phase EXCEPT ![c] = LeasePhase(c)']
  <2>1. \A d \in NodeClaims \ {c} : nodeClaim'[d] = nodeClaim[d]
    BY <1>2 DEF ClaimStep, Records, Vanishes, Moves
  <2> QED  BY <2>1, LeasePhaseStays, Zenon
<1>4. CASE Records(c)
  <2>1. /\ nodeClaim'[c].phase = nodeClaim[c].phase /\ nodeClaim'[c].host = create[c].host
        /\ create[c].host \in Hosts /\ create[c].host # NoHost
        /\ sshHost[create[c].host].claim = c /\ create[c].pc = "launched"
    BY <1>2, <1>4, NHostsAssumption DEF Records, NodeClaimStatus, LaunchInv, Launching,
       OwningPCs, ClaimInv, Typed, CreateTypes, Hosts, NoHost
  <2>2. CASE nodeClaim[c].phase = "live"
    <3>1. LeasePhase(c) = "live" /\ LeasePhase(c)' = "launched"
      BY <2>1, <2>2 DEF LeasePhase, LaunchInv, Launched
    <3>2. Lease!Launch(c)
      BY <1>1, <1>3, <2>1, <3>1 DEF Lease!Launch
    <3> QED  BY <3>2 DEF Lease!Next
  <2>3. CASE nodeClaim[c].phase # "live"
    <3>1. LeasePhase(c)' = LeasePhase(c)
      BY <2>1, <2>3 DEF LeasePhase
    <3>2. phase' = phase
      BY <1>3, <3>1, Zenon
    <3> QED  BY <1>1, <3>2 DEF Lease!vars
  <2> QED  BY <2>2, <2>3
<1>5. CASE Vanishes(c)
  <2>1. LeasePhase(c) \in {"live", "launched", "deleting"} /\ LeasePhase(c)' = "gone"
    BY <1>2, <1>5 DEF Vanishes, Exists, LeasePhase
  <2>2. Lease!Vanish(c)
    BY <1>1, <1>3, <2>1 DEF Lease!Vanish
  <2> QED  BY <2>2 DEF Lease!Next
<1>6. CASE Moves(c, "absent", "live")
  <2>1. nodeClaim'[c].phase = "live" /\ nodeClaim'[c].host = NoHost
    BY <1>2, <1>6 DEF Moves, NodeClaimStatus, LaunchInv, Launched
  <2>2. LeasePhase(c) = "absent" /\ LeasePhase(c)' = "live"
    BY <1>6, <2>1 DEF Moves, LeasePhase
  <2>3. Lease!Appear(c)
    BY <1>1, <1>3, <2>2 DEF Lease!Appear
  <2> QED  BY <2>3 DEF Lease!Next
<1>7. CASE Moves(c, "live", "deleting")
  <2>1. nodeClaim'[c].phase = "deleting"
    BY <1>2, <1>7 DEF Moves, NodeClaimStatus
  <2>2. LeasePhase(c) \in {"live", "launched"} /\ LeasePhase(c)' = "deleting"
    BY <1>7, <2>1 DEF Moves, LeasePhase
  <2>3. Lease!Retire(c)
    BY <1>1, <1>3, <2>2 DEF Lease!Retire
  <2> QED  BY <2>3 DEF Lease!Next
<1>8. CASE Moves(c, "deleting", "finalizing")
  <2>1. nodeClaim'[c].phase = "finalizing"
    BY <1>2, <1>8 DEF Moves, NodeClaimStatus
  <2>2. LeasePhase(c)' = LeasePhase(c)
    BY <1>8, <2>1 DEF Moves, LeasePhase
  <2>3. phase' = phase
    BY <1>3, <2>2, Zenon
  <2> QED  BY <1>1, <2>3 DEF Lease!vars
<1> QED  BY <1>4, <1>5, <1>6, <1>7, <1>8 DEF ClaimStep

\* Through all caches, conflicts, retries and crashes, the claim references on
\* the API server behave as the lease promises.
THEOREM PoolImplementsLease == Spec => ImplementsLease
<1>1. Init => Lease!Init
  BY DEF Init, Lease!Init, LeasePhase, NewHost
<1>2. LaunchInv /\ [Next]_vars => [Lease!Next]_(Lease!vars)
  <2> SUFFICES ASSUME LaunchInv, [Next]_vars PROVE [Lease!Next]_(Lease!vars)  OBVIOUS
  <2>1. ServerStep /\ PhaseStep
    BY NextEvolves DEF Evolves
  <2> QED  BY <2>1, ServerLease, ClaimLease DEF PhaseStep
<1> QED  BY <1>1, <1>2, LaunchInvariant, PTL DEF Spec, ImplementsLease, Lease!Spec

=============================================================================
