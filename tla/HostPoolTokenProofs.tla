------------------------ MODULE HostPoolTokenProofs -------------------------
(***************************************************************************)
(* Released hosts and their bootstrap tokens, for any number of hosts,     *)
(* NodeClaims and tokens and any number of failing phases, as long as no   *)
(* API call fails, the process stays up and no operator annotates a host   *)
(* or strips a finalizer.  Then a fresh copy is the object itself, so that *)
(* a release clears all it means to clear, and whoever releases a host has *)
(* deleted the recorded token.                                             *)
(*                                                                         *)
(* With such faults neither holds: a failed write that clears the token    *)
(* record leaves a copy without it, and the patch of the release that      *)
(* follows is computed from that copy.                                     *)
(***************************************************************************)
EXTENDS HostPoolClaimProofs

\* A host without a claim carries nothing of a launch.
Clean(o) == o.claim = NoClaim => ~o.pid /\ o.token = NoToken

\* A fresh copy is the object.
Exact(w) == \A h \in Hosts : w \in fresh[h] => copy[w][h] = sshHost[h]

\* Whoever is about to release a host has deleted the token recorded on its copy.
CreateSpent(c) ==
  create[c].pc = "release" => copy[Creator(c)][create[c].host].token \notin tokens
DeleteSpent(c) ==
  delete[c].pc = "release" => copy[Deleter(c)][delete[c].host].token \notin tokens
ProbeSpent(h) ==
  /\ Clean(probe[h].new)
  /\ probe[h].pc = "patch" /\ probe[h].new.claim = NoClaim
       => copy[Prober(h)][h].token \notin tokens

TokenInv ==
  /\ \A w \in Actors : Exact(w) /\ (\A h \in Hosts : Clean(copy[w][h]))
  /\ \A h \in Hosts : Clean(sshHost[h]) /\ ProbeSpent(h)
  /\ \A c \in NodeClaims : CreateSpent(c) /\ DeleteSpent(c)

-----------------------------------------------------------------------------

\* No token recorded on a copy is minted again.
NoReuse ==
  \A w \in Actors : \A h \in Hosts :
    copy[w][h].token \notin tokens => copy[w][h].token \notin tokens'

\* A release that commits finds the recorded token deleted.
ReleaseSpent(h) ==
  sshHost[h].claim # NoClaim /\ sshHost'[h].claim = NoClaim
    => sshHost[h].token \notin tokens

\* What a step of w may do to the objects.
ObjectStep(w) ==
  /\ \A v \in Actors \ {w} : Undisturbed(v)
  /\ \A h \in Hosts : w \in fresh'[h] => copy'[w][h] = sshHost'[h]
  /\ \A h \in Hosts : Clean(copy'[w][h])
  /\ \A h \in Hosts :
       \/ sshHost'[h] = sshHost[h]
       \/ Clean(sshHost'[h]) /\ ReleaseSpent(h)

\* Such a step keeps copies exact and objects clean, and releases in order.
LEMMA ObjectStepFacts ==
  ASSUME TokenInv, NEW w \in Actors, ObjectStep(w)
  PROVE  /\ \A v \in Actors : Exact(v)'
         /\ \A v \in Actors : \A h \in Hosts : Clean(copy'[v][h])
         /\ \A h \in Hosts : Clean(sshHost'[h]) /\ ReleaseSpent(h)
<1>1. ASSUME NEW v \in Actors PROVE Exact(v)'
  BY DEF TokenInv, ObjectStep, Undisturbed, Exact
<1>2. ASSUME NEW v \in Actors, NEW h \in Hosts PROVE Clean(copy'[v][h])
  <2>1. CASE v = w  BY <2>1 DEF ObjectStep
  <2>2. CASE v # w
    BY <1>2, <2>2 DEF TokenInv, ObjectStep, Undisturbed
  <2> QED  BY <2>1, <2>2
<1>3. ASSUME NEW h \in Hosts PROVE Clean(sshHost'[h]) /\ ReleaseSpent(h)
  BY <1>3 DEF TokenInv, ObjectStep, ReleaseSpent
<1> QED  BY <1>1, <1>2, <1>3

LEMMA NewHostClean == Clean(NewHost)
BY DEF Clean, NewHost

LEMMA ReadStep ==
  ASSUME Typed, TokenInv, NEW w \in Actors, w # Cache,
         \/ UNCHANGED objects
         \/ \E H : ReadCached(w, H)
  PROVE  ObjectStep(w)
<1>1. CASE UNCHANGED objects
  BY <1>1 DEF objects, ObjectStep, Undisturbed, TokenInv, Exact
<1>2. ASSUME NEW H, ReadCached(w, H)
      PROVE  ObjectStep(w)
  <2>1. \A h \in Hosts :
          /\ copy'[w][h] = IF h \in H THEN copy[Cache][h] ELSE NewHost
          /\ w \in fresh'[h] => h \in H /\ Cache \in fresh[h]
          /\ sshHost'[h] = sshHost[h]
    BY <1>2 DEF ReadCached, Typed, ObjectTypes
  <2>2. \A v \in Actors \ {w} : Undisturbed(v)
    BY <1>2 DEF ReadCached, Typed, ObjectTypes, Undisturbed
  <2>3. \A h \in Hosts : Clean(copy'[w][h])
    BY <2>1, ActorFacts, NewHostClean DEF TokenInv
  <2>4. \A h \in Hosts : w \in fresh'[h] => copy'[w][h] = sshHost'[h]
    BY <2>1, ActorFacts DEF TokenInv, Exact
  <2> QED  BY <2>1, <2>2, <2>3, <2>4 DEF ObjectStep
<1> QED  BY <1>1, <1>2

LEMMA WriteStep ==
  ASSUME Typed, TokenInv, NEW w \in Actors, NEW h \in Hosts, NEW m,
         Write(w, h, m) \/ WriteAndForget(w, h, m), Clean(m),
         \/ m.claim # NoClaim \/ sshHost[h].claim = NoClaim
         \/ sshHost[h].token \notin tokens
  PROVE  ObjectStep(w)
<1>1. /\ sshHost'[h] = m /\ \A i \in Hosts \ {h} : sshHost'[i] = sshHost[i]
      /\ copy'[w][h] = m \/ (copy'[w][h] = NewHost /\ w \notin fresh'[h])
      /\ \A i \in Hosts \ {h} : copy'[w][i] = NewHost /\ w \notin fresh'[i]
  BY DEF Write, WriteAndForget, NoCopies, Typed, ObjectTypes
<1>2. \A v \in Actors \ {w} : Undisturbed(v)
  BY OthersUndisturbed DEF Typed
<1>3. \A i \in Hosts : Clean(copy'[w][i])
  BY <1>1, NewHostClean
<1>4. ReleaseSpent(h) /\ Clean(sshHost'[h])
  BY <1>1 DEF ReleaseSpent
<1> QED  BY <1>1, <1>2, <1>3, <1>4 DEF ObjectStep

\* A patch over an exact copy writes the claim, providerID and token it asks for.
LEMMA ExactPatch ==
  ASSUME ObjectTypes, NEW w \in Actors, NEW h \in Hosts, NEW n \in HostObject,
         copy[w][h] = sshHost[h]
  PROVE  /\ Patched(w, h, n).claim = n.claim
         /\ Clean(n) => Clean(Patched(w, h, n))
<1> DEFINE s == sshHost[h]
<1>1. s \in HostObject /\ Patched(w, h, n) = MergePatch(s, s, n)
  BY DEF ObjectTypes, Patched
<1> HIDE DEF s
<1>2. /\ MergePatch(s, s, n).claim = n.claim /\ MergePatch(s, s, n).pid = n.pid
      /\ MergePatch(s, s, n).token = n.token
  BY <1>1 DEF MergePatch, Merge, HostObject
<1> QED  BY <1>1, <1>2 DEF Clean

\* The calls a step leaves alone.
LEMMA CallsSpent ==
  ASSUME Typed, TokenInv, NoReuse
  PROVE  /\ \A c \in NodeClaims :
               create'[c] = create[c] /\ copy'[Creator(c)] = copy[Creator(c)]
                 => CreateSpent(c)'
         /\ \A c \in NodeClaims :
               delete'[c] = delete[c] /\ copy'[Deleter(c)] = copy[Deleter(c)]
                 => DeleteSpent(c)'
         /\ \A h \in Hosts :
               probe'[h] = probe[h] /\ copy'[Prober(h)] = copy[Prober(h)]
                 => ProbeSpent(h)'
<1>1. ASSUME NEW c \in NodeClaims, create'[c] = create[c],
             copy'[Creator(c)] = copy[Creator(c)]
      PROVE  CreateSpent(c)'
  <2>1. create[c].pc = "release" => create[c].host \in Hosts
    BY DEF Typed, CreateTypes, HoldingPCs
  <2> QED  BY <1>1, <2>1, ActorFacts DEF TokenInv, CreateSpent, NoReuse
<1>2. ASSUME NEW c \in NodeClaims, delete'[c] = delete[c],
             copy'[Deleter(c)] = copy[Deleter(c)]
      PROVE  DeleteSpent(c)'
  <2>1. delete[c].pc = "release" => delete[c].host \in Hosts
    BY DEF Typed, DeleteTypes
  <2> QED  BY <1>2, <2>1, ActorFacts DEF TokenInv, DeleteSpent, NoReuse
<1>3. ASSUME NEW h \in Hosts, probe'[h] = probe[h],
             copy'[Prober(h)] = copy[Prober(h)]
      PROVE  ProbeSpent(h)'
  BY <1>3, ActorFacts DEF TokenInv, ProbeSpent, NoReuse, Clean
<1> QED  BY <1>1, <1>2, <1>3

\* Minting takes an id that no copy records; nothing else adds a Secret.
LEMMA TokensNew ==
  ASSUME tokens' \subseteq tokens \cup FreshTokens
  PROVE  NoReuse
BY DEF NoReuse, FreshTokens

\* A step of one call keeps the invariant if it does so for the objects and
\* for that call.
LEMMA CreateTokenFrame ==
  ASSUME Typed, TokenInv, NEW c \in NodeClaims, NoReuse, ObjectStep(Creator(c)),
         \A d \in NodeClaims \ {c} : create'[d] = create[d],
         UNCHANGED <<delete, probe>>, CreateSpent(c)'
  PROVE  TokenInv' /\ \A h \in Hosts : ReleaseSpent(h)
<1>1. \A v \in Actors \ {Creator(c)} : copy'[v] = copy[v]
  BY DEF ObjectStep, Undisturbed
<1>2. \A d \in NodeClaims : CreateSpent(d)' /\ DeleteSpent(d)'
  BY <1>1, CallsSpent, ActorFacts
<1>3. \A h \in Hosts : ProbeSpent(h)'
  BY <1>1, CallsSpent, ActorFacts
<1> QED  BY <1>2, <1>3, ObjectStepFacts, ActorFacts DEF TokenInv

LEMMA DeleteTokenFrame ==
  ASSUME Typed, TokenInv, NEW c \in NodeClaims, NoReuse, ObjectStep(Deleter(c)),
         \A d \in NodeClaims \ {c} : delete'[d] = delete[d],
         UNCHANGED <<create, probe>>, DeleteSpent(c)'
  PROVE  TokenInv' /\ \A h \in Hosts : ReleaseSpent(h)
<1>1. \A v \in Actors \ {Deleter(c)} : copy'[v] = copy[v]
  BY DEF ObjectStep, Undisturbed
<1>2. \A d \in NodeClaims : CreateSpent(d)' /\ DeleteSpent(d)'
  BY <1>1, CallsSpent, ActorFacts
<1>3. \A h \in Hosts : ProbeSpent(h)'
  BY <1>1, CallsSpent, ActorFacts, Zenon
<1> QED  BY <1>2, <1>3, ObjectStepFacts, ActorFacts DEF TokenInv

LEMMA ProbeTokenFrame ==
  ASSUME Typed, TokenInv, NEW h \in Hosts, NoReuse, ObjectStep(Prober(h)),
         \A i \in Hosts \ {h} : probe'[i] = probe[i],
         UNCHANGED <<create, delete>>, ProbeSpent(h)'
  PROVE  TokenInv' /\ \A i \in Hosts : ReleaseSpent(i)
<1>1. \A v \in Actors \ {Prober(h)} : copy'[v] = copy[v]
  BY DEF ObjectStep, Undisturbed
<1>2. \A d \in NodeClaims : CreateSpent(d)' /\ DeleteSpent(d)'
  BY <1>1, CallsSpent, ActorFacts
<1>3. \A i \in Hosts : ProbeSpent(i)'
  BY <1>1, CallsSpent, ActorFacts, Zenon
<1> QED  BY <1>2, <1>3, ObjectStepFacts, ActorFacts DEF TokenInv

\* setStatus writes an object with the claim of its own launch.
LEMMA SetStatusTokens ==
  ASSUME ClaimInv, TokenInv, NEW c \in NodeClaims, create[c].pc \in HoldingPCs,
         create[c].pc # "release",
         NEW n \in HostObject, n.claim = Own(c).claim,
         NEW ok \in CreatePCs \ {"release"}, NEW fail \in CreatePCs \ {"release"},
         SetStatus(c, n, ok, fail), ~Fault
  PROVE  TokenInv' /\ \A h \in Hosts : ReleaseSpent(h)
<1> DEFINE w == Creator(c)
           h == create[c].host
           m == Patched(w, h, n)
<1>1. /\ w \in Actors /\ w # Cache /\ h \in Hosts /\ Typed /\ c # NoClaim
      /\ copy[w][h].claim = c /\ n.claim = c
      /\ w \in fresh[h] => copy[w][h] = sshHost[h]
  BY ActorFacts, NoClaimAssumption, Zenon
     DEF ClaimInv, CreatorOK, Own, TokenInv, Exact, Typed, CreateTypes
<1>2. /\ \A d \in NodeClaims \ {c} : create'[d] = create[d]
      /\ create'[c].pc # "release" /\ UNCHANGED <<delete, probe>>
  BY <1>1 DEF SetStatus, GotoCreate, CreateUnchanged, Typed, CreateTypes, CreateCall
<1>3. NoReuse /\ CreateSpent(c)'
  BY <1>2, TokensNew, Zenon DEF CreateSpent, SetStatus, cluster
<1>4. w \in fresh[h] => m.claim = c /\ m \in HostObject
  BY <1>1, ExactPatch, PatchedFacts DEF Typed
<1>5. \/ w \in fresh[h] /\ Write(w, h, m)
      \/ ReadCached(w, {h})
      \/ /\ UNCHANGED <<sshHost, fresh>>
         /\ \/ w \in fresh[h] /\ m = sshHost[h] /\ copy' = [copy EXCEPT ![w][h] = m]
            \/ w \notin fresh[h] /\ copy' = [copy EXCEPT ![w][h] = n]
  BY Zenon DEF SetStatus, PatchError
<1> HIDE DEF w, h, m
<1>6. CASE w \in fresh[h] /\ Write(w, h, m)
  <2>1. Clean(m)  BY <1>1, <1>4, <1>6 DEF Clean
  <2>2. ObjectStep(w)  BY <1>1, <1>4, <1>6, <2>1, WriteStep, Zenon
  <2> QED  BY <1>1, <1>2, <1>3, <2>2, CreateTokenFrame, Zenon DEF w
<1>7. CASE ReadCached(w, {h})
  <2>1. ObjectStep(w)  BY <1>1, <1>7, ReadStep
  <2> QED  BY <1>1, <1>2, <1>3, <2>1, CreateTokenFrame DEF w
<1>8. ASSUME NEW o \in {m, n}, UNCHANGED <<sshHost, fresh>>,
             copy' = [copy EXCEPT ![w][h] = o],
             w \in fresh[h] => o = sshHost[h], o.claim = c
      PROVE  TokenInv' /\ \A i \in Hosts : ReleaseSpent(i)
  <2>1. /\ copy'[w][h] = o
        /\ \A i \in Hosts \ {h} : copy'[w][i] = copy[w][i]
        /\ \A v \in Actors \ {w} : copy'[v] = copy[v]
    BY <1>1, <1>8 DEF Typed, ObjectTypes
  <2>2. Clean(o)  BY <1>1, <1>8 DEF Clean
  <2>3. ObjectStep(w)
    BY <1>1, <1>8, <2>1, <2>2 DEF ObjectStep, Undisturbed, TokenInv, Exact
  <2> QED  BY <1>1, <1>2, <1>3, <2>3, CreateTokenFrame DEF w
<1> QED  BY <1>1, <1>4, <1>5, <1>6, <1>7, <1>8

\* Every step of a Create.
LEMMA CreateTokens ==
  ASSUME ClaimInv, TokenInv, NEW c \in NodeClaims, CreateStep(c), ~Fault
  PROVE  TokenInv' /\ \A h \in Hosts : ReleaseSpent(h)
<1> DEFINE w == Creator(c)
           h == create[c].host
<1>0. /\ w \in Actors /\ w # Cache /\ Typed /\ create[c] \in CreateCall /\ c # NoClaim
      /\ create[c].pc \in HoldingPCs => h \in Hosts
  BY ActorFacts, NoClaimAssumption DEF ClaimInv, Typed, CreateTypes
<1>1. CASE CreateBegin(c) \/ CreateReturn(c)
  <2>1. /\ create'[c].pc # "release" /\ UNCHANGED <<delete, probe>>
        /\ \A d \in NodeClaims \ {c} : create'[d] = create[d]
    <3> USE <1>0 DEF Typed, CreateTypes, CreateCall
    <3>1. CASE CreateBegin(c)
      <4>1. \/ \E i : create' = [create EXCEPT ![c].pc = "prepare", ![c].host = i]
            \/ create' = [create EXCEPT ![c].pc = "claim", ![c].cands = Available]
            \/ create' = [create EXCEPT ![c].pc = "exhausted"]
        BY <3>1, Zenon DEF CreateBegin, GotoCreate
      <4>2. UNCHANGED <<delete, probe>>
        BY <3>1 DEF CreateBegin, CreateUnchanged
      <4> QED  BY <4>1, <4>2
    <3>2. CASE CreateReturn(c)
      BY <3>2 DEF CreateReturn, CreateIdle
    <3> QED  BY <1>1, <3>1, <3>2
  <2>2. NoReuse /\ CreateSpent(c)'
    BY <1>1, <2>1, TokensNew DEF CreateSpent, CreateBegin, CreateReturn, cluster
  <2>3. UNCHANGED objects \/ \E H : ReadCached(w, H)
    BY <1>1, Zenon DEF CreateBegin, CreateReturn, Forget
  <2>4. ObjectStep(w)  BY <1>0, <2>3, ReadStep
  <2> QED  BY <1>0, <2>1, <2>2, <2>4, CreateTokenFrame
<1>2. CASE ClaimHost(c)
  <2>1. PICK i \in create[c].cands :
          \/ w \in fresh[i] /\ Write(w, i, ClaimedBy(copy[w][i], c))
          \/ UNCHANGED objects
    BY <1>2, Zenon DEF ClaimHost
  <2>2. /\ create'[c].pc # "release" /\ UNCHANGED <<delete, probe>>
        /\ \A d \in NodeClaims \ {c} : create'[d] = create[d]
    BY <1>0, <1>2 DEF ClaimHost, CreateUnchanged, GotoCreate, Typed, CreateTypes, CreateCall
  <2>3. NoReuse /\ CreateSpent(c)'
    BY <1>2, <2>2, TokensNew DEF CreateSpent, ClaimHost, cluster
  <2>4. i \in Hosts /\ copy[w][i] \in HostObject
    BY <1>0 DEF CreateCall, Typed, ObjectTypes
  <2>5. ClaimedBy(copy[w][i], c).claim = c
    BY <2>4 DEF ClaimedBy, HostObject
  <2>6. ObjectStep(w)
    <3> DEFINE m == ClaimedBy(copy[w][i], c)
    <3>1. Clean(m) /\ m.claim # NoClaim  BY <1>0, <2>5 DEF Clean
    <3> HIDE DEF m
    <3>2. CASE Write(w, i, m)  BY <1>0, <2>4, <3>1, <3>2, WriteStep
    <3>3. CASE UNCHANGED objects  BY <1>0, <3>3, ReadStep
    <3> QED  BY <2>1, <3>2, <3>3 DEF m
  <2> QED  BY <1>0, <2>2, <2>3, <2>6, CreateTokenFrame
<1>3. CASE Prepare(c) \/ CreateToken(c) \/ Join(c) \/ DiscardToken(c) \/ ReleaseToken(c)
  <2>1. UNCHANGED <<objects, delete, probe>>
    BY <1>3 DEF Prepare, CreateToken, Join, DiscardToken, ReleaseToken, CreateUnchanged
  <2>2. /\ create'[c].host = h
        /\ \A d \in NodeClaims \ {c} : create'[d] = create[d]
    BY <1>0, <1>3 DEF Prepare, CreateToken, Join, DiscardToken, ReleaseToken, GotoCreate,
       Typed, CreateTypes, CreateCall
  <2>3. tokens' \subseteq tokens \cup FreshTokens
    BY <1>3 DEF Prepare, CreateToken, Join, DiscardToken, ReleaseToken, DropToken, cluster
  <2>4. create'[c].pc = "release" => ReleaseToken(c)
    BY <1>0, <1>3 DEF Prepare, CreateToken, Join, DiscardToken, GotoCreate,
       Typed, CreateTypes, CreateCall
  <2>5. ReleaseToken(c) => copy[w][h].token \notin tokens'
    BY DEF ReleaseToken, DropToken, Own
  <2>6. CreateSpent(c)'
    BY <2>1, <2>2, <2>4, <2>5 DEF CreateSpent, objects
  <2>7. ObjectStep(w)  BY <1>0, <2>1, ReadStep
  <2> QED  BY <1>0, <2>1, <2>2, <2>3, <2>6, <2>7, TokensNew, CreateTokenFrame
<1>4. CASE \/ SetInstalled(c) \/ RecordToken(c) \/ SetProviderID(c) \/ MarkInUse(c)
           \/ ForgetToken(c)
  <2>1. create[c].pc \in HoldingPCs /\ create[c].pc # "release"
    BY <1>4 DEF SetInstalled, RecordToken, SetProviderID, MarkInUse, ForgetToken,
                HoldingPCs
  <2>2. Own(c) \in HostObject /\ create[c].token \in TokenIDs \cup {NoToken}
    BY <1>0, <2>1, OwnType DEF ClaimInv, CreateCall
  <2>3. \E n \in { [Own(c) EXCEPT !.installed = TRUE],
                   [Own(c) EXCEPT !.token = create[c].token],
                   [Own(c) EXCEPT !.pid = TRUE],
                   [Own(c) EXCEPT !.state = "InUse"],
                   [Own(c) EXCEPT !.token = NoToken] } :
        \E ok, fail \in CreatePCs \ {"release"} : SetStatus(c, n, ok, fail)
    BY <1>4, Zenon DEF SetInstalled, RecordToken, SetProviderID, MarkInUse, ForgetToken,
                CreatePCs
  <2>4. \A n \in { [Own(c) EXCEPT !.installed = TRUE],
                   [Own(c) EXCEPT !.token = create[c].token],
                   [Own(c) EXCEPT !.pid = TRUE],
                   [Own(c) EXCEPT !.state = "InUse"],
                   [Own(c) EXCEPT !.token = NoToken] } :
          n \in HostObject /\ n.claim = Own(c).claim
    <3> DEFINE o == Own(c)
    <3> HIDE DEF o
    <3>1. ASSUME o \in HostObject
          PROVE  /\ [o EXCEPT !.installed = TRUE] \in HostObject
                 /\ [o EXCEPT !.token = create[c].token] \in HostObject
                 /\ [o EXCEPT !.pid = TRUE] \in HostObject
                 /\ [o EXCEPT !.state = "InUse"] \in HostObject
                 /\ [o EXCEPT !.token = NoToken] \in HostObject
      BY <2>2, <3>1, ZenonT(30) DEF HostObject, HostStates
    <3>2. ASSUME o \in HostObject
          PROVE  /\ [o EXCEPT !.installed = TRUE].claim = o.claim
                 /\ [o EXCEPT !.token = create[c].token].claim = o.claim
                 /\ [o EXCEPT !.pid = TRUE].claim = o.claim
                 /\ [o EXCEPT !.state = "InUse"].claim = o.claim
                 /\ [o EXCEPT !.token = NoToken].claim = o.claim
      BY <3>2 DEF HostObject
    <3> QED  BY <2>2, <3>1, <3>2, Zenon DEF o
  <2> QED  BY <2>1, <2>3, <2>4, SetStatusTokens, Zenon
<1>5. CASE ReleaseHost(c)
  <2> DEFINE new == Released(copy[w][h], create[c].healthy)
             m == Patched(w, h, new)
  <2>1. h \in Hosts /\ create[c].pc = "release" /\ UNCHANGED <<delete, probe>>
    BY <1>0, <1>5 DEF ReleaseHost, CreateUnchanged, HoldingPCs
  <2>2. /\ create'[c].pc # "release"
        /\ \A d \in NodeClaims \ {c} : create'[d] = create[d]
    BY <1>0, <1>5 DEF ReleaseHost, GotoCreate, Typed, CreateTypes, CreateCall
  <2>3. NoReuse /\ CreateSpent(c)'
    BY <1>5, <2>2, TokensNew DEF CreateSpent, ReleaseHost, cluster
  <2>4. copy[w][h] \in HostObject /\ new \in HostObject
    BY <1>0, <2>1, ObjectFacts DEF Typed, ObjectTypes, CreateCall
  <2>5. Clean(new)
    BY <2>4 DEF Released, HostObject, Clean
  <2>6. w \in fresh[h] => /\ copy[w][h] = sshHost[h]
                          /\ sshHost[h].token \notin tokens
    BY <1>0, <2>1 DEF TokenInv, Exact, CreateSpent
  <2>7. (w \in fresh[h] /\ Write(w, h, m)) \/ UNCHANGED objects
    BY <1>5 DEF ReleaseHost, PatchError
  <2> HIDE DEF new, h, w
  <2>8. w \in fresh[h] => Clean(m)
    BY <1>0, <2>1, <2>4, <2>5, <2>6, ExactPatch DEF Typed
  <2> HIDE DEF m
  <2>9. ObjectStep(w)
    BY <1>0, <2>1, <2>6, <2>7, <2>8, WriteStep, ReadStep
  <2> QED  BY <1>0, <2>1, <2>2, <2>3, <2>9, CreateTokenFrame DEF w
<1> QED  BY <1>1, <1>2, <1>3, <1>4, <1>5 DEF CreateStep

\* Every step of a Delete.
LEMMA DeleteTokens ==
  ASSUME ClaimInv, TokenInv, NEW c \in NodeClaims, DeleteStep(c), ~Fault
  PROVE  TokenInv' /\ \A h \in Hosts : ReleaseSpent(h)
<1> DEFINE w == Deleter(c)
           h == delete[c].host
<1>0. /\ w \in Actors /\ w # Cache /\ Typed /\ delete[c] \in DeleteCall
      /\ delete[c].pc # "idle" => h \in Hosts
  BY ActorFacts DEF ClaimInv, Typed, DeleteTypes
<1>1. /\ UNCHANGED <<create, probe>>
      /\ \A d \in NodeClaims \ {c} : delete'[d] = delete[d]
  BY <1>0 DEF DeleteStep, DeleteBegin, Leave, DeleteToken, DeleteRelease,
              DeleteUnchanged, GotoDelete, Typed, DeleteTypes
<1>2. NoReuse
  BY TokensNew, Zenon DEF DeleteStep, DeleteBegin, Leave, DeleteToken, DeleteRelease, DropToken,
     cluster
<1>3. DeleteSpent(c)'
  <2>1. CASE DeleteToken(c)
    <3>1. delete'[c].host = h /\ UNCHANGED objects /\ copy[w][h].token \notin tokens'
      BY <1>0, <2>1 DEF DeleteToken, GotoDelete, DropToken, Typed, DeleteTypes, DeleteCall
    <3> QED  BY <3>1 DEF DeleteSpent, objects
  <2>2. CASE ~DeleteToken(c)
    <3>1. \/ delete'[c].pc # "release"
          \/ delete' = delete /\ UNCHANGED objects
      BY <1>0, <2>2 DEF DeleteStep, DeleteBegin, Leave, DeleteRelease, DeleteIdle,
         Typed, DeleteTypes, DeleteCall
    <3> QED  BY <1>0, <1>2, <3>1, CallsSpent DEF DeleteSpent, objects
  <2> QED  BY <2>1, <2>2
<1>4. CASE DeleteBegin(c) \/ Leave(c) \/ DeleteToken(c)
  <2>1. UNCHANGED objects \/ \E H : ReadCached(w, H)
    BY <1>4, Zenon DEF DeleteBegin, Leave, DeleteToken
  <2> QED  BY <1>0, <1>1, <1>2, <1>3, <2>1, ReadStep, DeleteTokenFrame, Zenon
<1>5. CASE DeleteRelease(c)
  <2> DEFINE new == Released(copy[w][h], delete[c].leaveOK)
             m == Patched(w, h, new)
  <2>1. h \in Hosts /\ delete[c].pc = "release"
    BY <1>0, <1>5, Zenon DEF DeleteRelease
  <2>2. copy[w][h] \in HostObject /\ new \in HostObject
    BY <1>0, <2>1, ObjectFacts DEF Typed, ObjectTypes, DeleteCall
  <2>3. Clean(new)
    BY <2>2 DEF Released, HostObject, Clean
  <2>4. w \in fresh[h] => /\ copy[w][h] = sshHost[h]
                          /\ sshHost[h].token \notin tokens
    BY <1>0, <2>1, Zenon DEF TokenInv, Exact, DeleteSpent
  <2>5. (w \in fresh[h] /\ WriteAndForget(w, h, m)) \/ ReadCached(w, {})
    BY <1>5, Zenon DEF DeleteRelease, Forget
  <2> HIDE DEF new, h, w
  <2>6. w \in fresh[h] => Clean(m)
    BY <1>0, <2>1, <2>2, <2>3, <2>4, ExactPatch, Zenon DEF Typed
  <2> HIDE DEF m
  <2>7. ObjectStep(w)
    BY <1>0, <2>1, <2>4, <2>5, <2>6, WriteStep, ReadStep
  <2> QED  BY <1>0, <1>1, <1>2, <1>3, <2>7, DeleteTokenFrame, Zenon DEF w
<1> QED  BY <1>4, <1>5 DEF DeleteStep

\* The transitions the probe computes keep an object clean.
LEMMA CleanObjects ==
  ASSUME NEW o \in HostObject, Clean(o)
  PROVE  /\ Clean(Maintained(o)) /\ Maintained(o).claim = o.claim
         /\ Maintained(o).token = o.token
         /\ Clean(Abandoned(o)) /\ Clean([o EXCEPT !.token = NoToken])
         /\ Clean(WithReady(o)) /\ WithReady(o).claim = o.claim
         /\ \A s \in HostStates : /\ [o EXCEPT !.state = s] \in HostObject
                                 /\ [o EXCEPT !.state = s].claim = o.claim
                                 /\ Clean([o EXCEPT !.state = s])
<1>1. /\ Clean(Maintained(o)) /\ Maintained(o).claim = o.claim
      /\ Maintained(o).token = o.token
  BY DEF Maintained, HostObject, Clean
<1>2. Clean(Abandoned(o)) /\ Clean([o EXCEPT !.token = NoToken])
  BY DEF Abandoned, HostObject, Clean
<1>3. Clean(WithReady(o)) /\ WithReady(o).claim = o.claim
  BY DEF WithReady, HostObject, Clean
<1>4. ASSUME NEW s \in HostStates
      PROVE  /\ [o EXCEPT !.state = s] \in HostObject
             /\ [o EXCEPT !.state = s].claim = o.claim
             /\ Clean([o EXCEPT !.state = s])
  BY DEF HostObject, Clean
<1> QED  BY <1>1, <1>2, <1>3, <1>4

\* Every step of a Reconcile.
LEMMA ProbeTokens ==
  ASSUME ClaimInv, TokenInv, NEW h \in Hosts, ProbeStep(h), ~Fault
  PROVE  TokenInv' /\ \A i \in Hosts : ReleaseSpent(i)
<1> DEFINE w == Prober(h)
           own == copy[w][h]
           cached == copy[Cache][h]
           new == Maintained(cached)
<1>0. /\ w \in Actors /\ w # Cache /\ Typed /\ own \in HostObject /\ Clean(own)
      /\ cached \in HostObject /\ Clean(cached) /\ Consistent(cached)
      /\ probe[h] \in ProbeCall /\ probe[h].new \in HostObject /\ Clean(probe[h].new)
      /\ w \in fresh[h] => own = sshHost[h]
      /\ probe[h].pc \notin {"idle", "patch"} => own.claim = NoClaim
  BY ActorFacts, Zenon DEF ClaimInv, Typed, ObjectTypes, ProbeTypes, ProbeCall, CacheOK,
     TokenInv, ProbeSpent, Exact, ProberOK
<1>1. UNCHANGED <<create, delete>> /\ tokens' \subseteq tokens
  BY Zenon DEF ProbeStep, ProbeMaintenance, ProbeHeld, ProbeFree, ProbeSSH, HandleZombie,
     ZombieLeave, ZombieDeleteNode, PatchStatus, ProbeBegin, ProbeUnchanged, DropToken,
     cluster
<1>2. \A i \in Hosts \ {h} : probe'[i] = probe[i]
  BY <1>0, Zenon DEF ProbeStep, ProbeMaintenance, ProbeHeld, ProbeFree, ProbeSSH, HandleZombie,
     ZombieLeave, ZombieDeleteNode, PatchStatus, ToPatch, GotoProbe, ProbeReturns,
     Typed, ProbeTypes
<1>3. ASSUME ObjectStep(w), ProbeSpent(h)'
      PROVE  TokenInv' /\ \A i \in Hosts : ReleaseSpent(i)
  BY <1>0, <1>1, <1>2, <1>3, TokensNew, ProbeTokenFrame, Zenon
<1>4. \A o : Clean(o) /\ o.claim = NoClaim => o.token \notin tokens'
  BY <1>0, <1>1, NoTokenAssumption, Zenon DEF Typed, ClusterTypes, Clean
<1>5. ASSUME NEW o, ToPatch(h, o)
      PROVE  probe'[h].pc = "patch" /\ probe'[h].new = o
  BY <1>0, <1>5 DEF ToPatch, Typed, ProbeTypes, ProbeCall
<1>6. ASSUME ProbeReturns(h) PROVE ProbeSpent(h)'
  <2>1. probe'[h] = ProbeIdle
    BY <1>0, <1>6 DEF ProbeReturns, Typed, ProbeTypes
  <2> QED  BY <2>1, NewHostClean DEF ProbeSpent, ProbeIdle
<1>7. /\ Clean(new) /\ new \in HostObject /\ new.claim = cached.claim
      /\ new.token = cached.token /\ Clean(Abandoned(new))
      /\ Clean([new EXCEPT !.token = NoToken])
  BY <1>0, CleanObjects, ObjectFacts, Zenon
<1> HIDE DEF new
<1>8. ASSUME ProbeBegin(h) PROVE ObjectStep(w) /\ copy'[w][h] = cached
  <2>1. ReadCached(w, {h})  BY <1>8, Zenon DEF ProbeBegin
  <2> QED  BY <1>0, <2>1, ReadStep, Zenon DEF ReadCached, Typed, ObjectTypes
<1>9. CASE ProbeMaintenance(h)
  <2>1. ProbeBegin(h) /\ ToPatch(h, new)  BY <1>9 DEF ProbeMaintenance, new
  <2>2. ProbeSpent(h)'
    BY <1>0, <1>4, <1>5, <1>7, <1>8, <2>1 DEF ProbeSpent
  <2> QED  BY <1>3, <1>8, <2>1, <2>2, Zenon
<1>10. CASE ProbeHeld(h)
  <2>1. /\ ProbeBegin(h)
        /\ \/ ToPatch(h, Abandoned(new)) /\ tokens' = tokens \ {new.token}
           \/ ToPatch(h, [new EXCEPT !.token = NoToken]) /\ tokens' = tokens \ {new.token}
           \/ ToPatch(h, new)
    BY <1>10 DEF ProbeHeld, DropToken, new
  <2>2. ProbeSpent(h)'
    BY <1>0, <1>4, <1>5, <1>7, <1>8, <2>1 DEF ProbeSpent
  <2> QED  BY <1>3, <1>8, <2>1, <2>2
<1>11. CASE ProbeFree(h)
  <2>1. ProbeBegin(h) /\ probe'[h].pc = "ssh" /\ probe'[h].new = new
    BY <1>0, <1>11 DEF ProbeFree, Typed, ProbeTypes, ProbeCall, new
  <2>2. ProbeSpent(h)'  BY <1>7, <2>1 DEF ProbeSpent
  <2> QED  BY <1>3, <1>8, <2>1, <2>2
<1>12. ASSUME NEW o, ToPatch(h, o), Clean(o), UNCHANGED objects, own.claim = NoClaim
       PROVE  TokenInv' /\ \A i \in Hosts : ReleaseSpent(i)
  <2>1. ObjectStep(w) /\ copy'[w][h] = own
    BY <1>0, <1>12, ReadStep, Zenon DEF objects
  <2>2. ProbeSpent(h)'
    BY <1>0, <1>4, <1>5, <1>12, <2>1, Zenon DEF ProbeSpent
  <2> QED  BY <1>3, <2>1, <2>2
<1>13. ASSUME NEW H, ReadCached(w, H), ProbeReturns(h)
       PROVE  TokenInv' /\ \A i \in Hosts : ReleaseSpent(i)
  BY <1>0, <1>3, <1>6, <1>13, ReadStep, Zenon
<1>14. CASE ProbeSSH(h)
  <2> DEFINE facts == Patched(w, h, probe[h].new)
  <2>0. probe[h].pc = "ssh" /\ own.claim = NoClaim
    BY <1>0, <1>14, Zenon DEF ProbeSSH
  <2>1. CASE \E s \in {"Unhealthy", "Available"} :
               /\ probe' = [probe EXCEPT ![h].pc = "patch", ![h].new.state = s,
                                         ![h].beat = TRUE]
               /\ UNCHANGED objects
    <3>1. PICK s \in {"Unhealthy", "Available"} :
            probe' = [probe EXCEPT ![h].pc = "patch", ![h].new.state = s,
                                   ![h].beat = TRUE]
      BY <2>1, Zenon
    <3>2. probe'[h].new = [probe[h].new EXCEPT !.state = s]
      BY <1>0, <3>1 DEF Typed, ProbeTypes, ProbeCall
    <3>3. Clean(probe'[h].new)
      <4>1. s \in HostStates  BY DEF HostStates
      <4>2. Clean([probe[h].new EXCEPT !.state = s])
        BY <1>0, <4>1, CleanObjects, Zenon
      <4> QED  BY <3>2, <4>2
    <3>4. ObjectStep(w) /\ copy'[w][h] = own
      BY <1>0, <2>1, ReadStep DEF objects
    <3>5. ProbeSpent(h)'
      BY <1>0, <1>4, <2>0, <3>3, <3>4, Zenon DEF ProbeSpent
    <3> QED  BY <1>3, <3>4, <3>5, Zenon
  <2>2. CASE /\ w \in fresh[h] /\ Write(w, h, facts)
             /\ probe' = [probe EXCEPT ![h].pc = "zombie", ![h].new = facts]
    <3>1. Clean(facts)
      BY <1>0, <2>2, ExactPatch DEF Typed
    <3> HIDE DEF facts
    <3>2. ObjectStep(w)
      BY <1>0, <2>0, <2>2, <3>1, WriteStep
    <3>3. probe'[h].pc = "zombie" /\ probe'[h].new = facts
      BY <1>0, <2>2 DEF Typed, ProbeTypes, ProbeCall
    <3>4. ProbeSpent(h)'  BY <3>1, <3>3 DEF ProbeSpent
    <3> QED  BY <1>3, <3>2, <3>4
  <2>3. CASE Forget(w) /\ ProbeReturns(h)
    BY <1>13, <2>3 DEF Forget
  <2> QED  BY <1>14, <2>1, <2>2, <2>3, Zenon DEF ProbeSSH
<1>15. CASE HandleZombie(h)
  <2> DEFINE left == [own EXCEPT !.state = "Leaving"]
             leaving == Patched(w, h, left)
  <2>0. probe[h].pc = "zombie" /\ own.claim = NoClaim
    BY <1>0, <1>15, Zenon DEF HandleZombie
  <2>1. /\ left \in HostObject /\ Clean(left)
        /\ Clean([own EXCEPT !.state = "Unhealthy"])
    BY <1>0, CleanObjects, Zenon DEF HostStates
  <2>2. CASE ToPatch(h, [own EXCEPT !.state = "Unhealthy"]) /\ UNCHANGED objects
    BY <1>12, <2>0, <2>1, <2>2
  <2>3. CASE /\ w \in fresh[h] /\ Write(w, h, leaving)
             /\ \E n : probe' = [probe EXCEPT ![h].pc = "leave", ![h].node = n,
                                             ![h].new = leaving]
    <3> HIDE DEF left
    <3>1. Clean(leaving)
      BY <1>0, <2>1, <2>3, ExactPatch DEF Typed
    <3> HIDE DEF leaving
    <3>2. ObjectStep(w)
      BY <1>0, <2>0, <2>3, <3>1, WriteStep
    <3>3. probe'[h].pc = "leave" /\ probe'[h].new = leaving
      BY <1>0, <2>3 DEF Typed, ProbeTypes, ProbeCall
    <3>4. ProbeSpent(h)'  BY <3>1, <3>3 DEF ProbeSpent
    <3> QED  BY <1>3, <3>2, <3>4
  <2>4. CASE Forget(w) /\ ProbeReturns(h)
    BY <1>13, <2>4 DEF Forget
  <2> QED  BY <1>15, <2>2, <2>3, <2>4, Zenon DEF HandleZombie
<1>16. CASE ZombieLeave(h) \/ ZombieDeleteNode(h)
  <2>0. /\ probe[h].pc \in {"leave", "deleteNode"} /\ UNCHANGED objects
        /\ \/ GotoProbe(h, "deleteNode")
           \/ \E s \in {"Available", "Unhealthy"} : ToPatch(h, [own EXCEPT !.state = s])
    BY <1>16 DEF ZombieLeave, ZombieDeleteNode
  <2>1. CASE GotoProbe(h, "deleteNode")
    <3>1. probe'[h].pc = "deleteNode" /\ probe'[h].new = probe[h].new
      BY <1>0, <2>1 DEF GotoProbe, Typed, ProbeTypes, ProbeCall
    <3>2. ProbeSpent(h)'  BY <1>0, <3>1, Zenon DEF ProbeSpent
    <3> QED  BY <1>0, <1>3, <2>0, <3>2, ReadStep
  <2>2. ASSUME NEW s \in {"Available", "Unhealthy"}, ToPatch(h, [own EXCEPT !.state = s])
        PROVE  TokenInv' /\ \A i \in Hosts : ReleaseSpent(i)
    <3>1. Clean([own EXCEPT !.state = s])
      BY <1>0, <2>2, CleanObjects, Zenon DEF HostStates
    <3> QED  BY <1>0, <1>12, <2>0, <2>2, <3>1
  <2> QED  BY <2>0, <2>1, <2>2
<1>17. CASE PatchStatus(h)
  <2> DEFINE n == WithReady(probe[h].new)
             m == Patched(w, h, n)
  <2>1. probe[h].pc = "patch" /\ ProbeReturns(h)
    BY <1>17, Zenon DEF PatchStatus
  <2>2. n \in HostObject /\ Clean(n) /\ n.claim = probe[h].new.claim
    BY <1>0, CleanObjects, ObjectFacts, Zenon
  <2>3. ReadCached(w, {}) \/ (w \in fresh[h] /\ WriteAndForget(w, h, m))
    BY <1>17, Zenon DEF PatchStatus, Forget
  <2>4. w \in fresh[h] /\ n.claim = NoClaim => sshHost[h].token \notin tokens
    BY <1>0, <2>1, <2>2, Zenon DEF TokenInv, ProbeSpent
  <2> HIDE DEF n
  <2>5. w \in fresh[h] => Clean(m) /\ m.claim = n.claim
    BY <1>0, <2>2, ExactPatch, Zenon DEF Typed
  <2> HIDE DEF m
  <2>6. CASE w \in fresh[h] /\ WriteAndForget(w, h, m)
    <3>1. ObjectStep(w)
      BY <1>0, <2>4, <2>5, <2>6, WriteStep, Zenon
    <3> QED  BY <1>3, <1>6, <2>1, <3>1, Zenon
  <2> QED  BY <1>13, <2>1, <2>3, <2>6, Zenon
<1> QED  BY <1>9, <1>10, <1>11, <1>14, <1>15, <1>16, <1>17 DEF ProbeStep

\* karpenter core, the hosts and the informer.
LEMMA EnvironmentTokens ==
  ASSUME ClaimInv, TokenInv, ~Fault,
         \/ \E c \in NodeClaims : CoreStep(c)
         \/ \E h \in Hosts : \/ Sync(h) \/ Register(h) \/ RemoveForeign(h)
                             \/ Annotate(h) \/ \E c \in NodeClaims : CollectNode(h, c)
         \/ UNCHANGED vars
  PROVE  TokenInv' /\ \A h \in Hosts : ReleaseSpent(h)
<1>0. Typed  BY DEF ClaimInv
<1>1. UNCHANGED workers /\ tokens' = tokens
  BY Zenon DEF CoreStep, CreateNodeClaim, DeleteNodeClaim, FinalizeNodeClaim,
     ForceDeleteNodeClaim, Sync, Register, RemoveForeign, Annotate, CollectNode, vars,
     cluster
<1>2. UNCHANGED objects \/ \E h \in Hosts : Sync(h)
  BY Zenon DEF CoreStep, CreateNodeClaim, DeleteNodeClaim, FinalizeNodeClaim,
     ForceDeleteNodeClaim, Register, RemoveForeign, Annotate, CollectNode, vars
<1>3. NoReuse  BY <1>1 DEF NoReuse
<1>4. ASSUME ObjectStep(Cache)
      PROVE  TokenInv' /\ \A h \in Hosts : ReleaseSpent(h)
  <2>1. \A v \in Actors \ {Cache} : copy'[v] = copy[v]
    BY <1>4, Zenon DEF ObjectStep, Undisturbed
  <2>2. /\ \A c \in NodeClaims : CreateSpent(c)' /\ DeleteSpent(c)'
        /\ \A h \in Hosts : ProbeSpent(h)'
    BY <1>0, <1>1, <1>3, <2>1, CallsSpent, ActorFacts, Zenon DEF workers
  <2> QED  BY <1>4, <2>2, ObjectStepFacts, ActorFacts, Zenon DEF TokenInv
<1>5. CASE UNCHANGED objects
  <2>1. ObjectStep(Cache)
    BY <1>5, ActorFacts, Zenon DEF objects, ObjectStep, Undisturbed, TokenInv, Exact
  <2> QED  BY <1>4, <2>1
<1>6. ASSUME NEW h \in Hosts, Sync(h)
      PROVE  TokenInv' /\ \A i \in Hosts : ReleaseSpent(i)
  <2>1. /\ sshHost' = sshHost
        /\ \A i \in Hosts : copy'[Cache][i] = IF i = h THEN sshHost[i] ELSE copy[Cache][i]
        /\ \A i \in Hosts \ {h} : fresh'[i] = fresh[i]
    BY <1>0, <1>6, ActorFacts, Zenon DEF Sync, Typed, ObjectTypes
  <2>2. \A v \in Actors \ {Cache} : Undisturbed(v)
    BY <1>0, <1>6, Zenon DEF Sync, Typed, ObjectTypes, Undisturbed
  <2>3. ObjectStep(Cache)
    BY <2>1, <2>2, ActorFacts, Zenon DEF ObjectStep, TokenInv, Exact
  <2> QED  BY <1>4, <2>3
<1> QED  BY <1>2, <1>5, <1>6

\* Faults are only counted up.
LEMMA FaultsGrow ==
  ASSUME Typed, [Next]_vars, faults' = 0
  PROVE  faults = 0 /\ ~Fault
<1>1. faults \in Nat  BY BoundsAssumption DEF Typed, BoundTypes
<1>2. ~Fault  BY <1>1 DEF Fault
<1>3. faults' = faults
  <2>1. ASSUME NEW c \in NodeClaims, CreateStep(c) PROVE faults' = faults
    BY <1>2, <2>1, Zenon DEF CreateStep, CreateBegin, ClaimHost, Prepare, SetInstalled,
       CreateToken, RecordToken, Join, SetProviderID, MarkInUse, DiscardToken, ForgetToken,
       ReleaseToken, ReleaseHost, CreateReturn, SetStatus, DropToken, PatchError, Failure,
       NoFault, bounds
  <2>2. ASSUME NEW c \in NodeClaims, DeleteStep(c) \/ CoreStep(c) PROVE faults' = faults
    BY <1>2, <2>2, Zenon DEF DeleteStep, DeleteBegin, Leave, LeaveHost, DeleteToken,
       DeleteRelease, DropToken, CoreStep, CreateNodeClaim, DeleteNodeClaim,
       FinalizeNodeClaim, ForceDeleteNodeClaim, Failure, NoFault, bounds
  <2>3. ASSUME NEW h \in Hosts, ProbeStep(h) \/ ProbeError(h) PROVE faults' = faults
    BY <1>2, <2>3, Zenon DEF ProbeStep, ProbeMaintenance, ProbeHeld, ProbeFree, ProbeSSH,
       HandleZombie, ZombieLeave, LeaveHost, ZombieDeleteNode, PatchStatus, ProbeError,
       DropToken, Failure, NoFault, bounds
  <2>4. ASSUME NEW h \in Hosts,
               \/ Sync(h) \/ Register(h) \/ RemoveForeign(h) \/ Annotate(h)
               \/ \E c \in NodeClaims : CollectNode(h, c)
        PROVE  faults' = faults
    BY <1>2, <2>4, Zenon DEF Sync, Register, RemoveForeign, Annotate, CollectNode, bounds
  <2>5. CASE Crash \/ UNCHANGED vars
    BY <1>2, <2>5, Zenon DEF Crash, vars, bounds
  <2> QED  BY <2>1, <2>2, <2>3, <2>4, <2>5, Zenon DEF Next
<1> QED  BY <1>2, <1>3

LEMMA NextTokens ==
  ASSUME ClaimInv, faults = 0 => TokenInv, [Next]_vars, faults' = 0
  PROVE  TokenInv' /\ \A h \in Hosts : ReleaseSpent(h)
<1>1. TokenInv /\ ~Fault  BY FaultsGrow DEF ClaimInv
<1>2. ~Crash /\ \A h \in Hosts : ~ProbeError(h)
  BY <1>1, Zenon DEF Crash, ProbeError
<1> QED  BY <1>1, <1>2, CreateTokens, DeleteTokens, ProbeTokens, EnvironmentTokens DEF Next

LEMMA InitTokens == Init => TokenInv
<1> SUFFICES ASSUME Init PROVE TokenInv  OBVIOUS
<1>1. \A w \in Actors : Exact(w) /\ (\A h \in Hosts : Clean(copy[w][h]))
  BY NewHostClean, Zenon DEF Init, Exact, NoCopies
<1>2. \A h \in Hosts : Clean(sshHost[h]) /\ ProbeSpent(h)
  BY NewHostClean, Zenon DEF Init, ProbeSpent, ProbeIdle
<1>3. \A c \in NodeClaims : CreateSpent(c) /\ DeleteSpent(c)
  BY Zenon DEF Init, CreateSpent, DeleteSpent, CreateIdle, DeleteIdle
<1> QED  BY <1>1, <1>2, <1>3, Zenon DEF TokenInv

LEMMA TokenInvariant == Spec => [](faults = 0 => TokenInv)
<1>1. Init => (faults = 0 => TokenInv)  BY InitTokens
<1>2. ClaimInv /\ (faults = 0 => TokenInv) /\ [Next]_vars => (faults = 0 => TokenInv)'
  BY NextTokens
<1> QED  BY <1>1, <1>2, ClaimInvariant, PTL DEF Spec

\* Until an API call fails, the process restarts or an operator steps in, every
\* release clears the claim, the providerID and the token record together, and
\* no late write of the launch, of a Delete or of the probe brings one back
\* (host.go:222).
THEOREM ReleaseCleansHost == Spec => [](faults = 0 => ReleasedHostIsClean)
<1>1. (faults = 0 => TokenInv) => (faults = 0 => ReleasedHostIsClean)
  BY Zenon DEF TokenInv, Clean, ReleasedHostIsClean
<1> QED  BY <1>1, TokenInvariant, PTL

\* In a run without such faults, when a release commits, by a failed Create, a
\* Delete or the probe, the Secret of the token recorded on the host is already
\* deleted (instance.go:209).
THEOREM ReleaseLeavesNoToken == Spec /\ [](faults = 0) => ReleaseDeletesToken
<1> DEFINE A == \A h \in Hosts : sshHost[h].claim # NoClaim /\ sshHost'[h].claim = NoClaim
                                  => sshHost[h].token \notin tokens
<1>1. ClaimInv /\ (faults = 0 => TokenInv) /\ (faults = 0)' /\ [Next]_vars => [A]_vars
  BY NextTokens DEF ReleaseSpent
<1>2. Spec /\ [](faults = 0) => [][A]_vars
  BY <1>1, ClaimInvariant, TokenInvariant, PTL DEF Spec
<1> QED  BY <1>2 DEF ReleaseDeletesToken

=============================================================================
