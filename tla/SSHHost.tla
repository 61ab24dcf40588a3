------------------------------ MODULE SSHHost ------------------------------
(***************************************************************************)
(* The SSHHost custom resource: the part of its metadata and status the    *)
(* controllers branch on, and the pure transitions they compute from it.   *)
(*                                                                         *)
(* One NodeClaim is a record [name, uid], which is also the ClaimReference *)
(* that Claim stamps on a host.  Two NodeClaims may share a name (karpenter*)
(* reuses generated names); their uids differ.                             *)
(***************************************************************************)

CONSTANTS
  NodeClaims,   \* the NodeClaim objects, records with fields name and uid
  TokenIDs,     \* ids of kubelet bootstrap tokens
  NoClaim,      \* ClaimRef = nil
  NoToken,      \* BootstrapTokenID = ""
  NoUID         \* an empty UID on either side of the claim fence

HostStates == {"Pending", "Available", "Claimed", "InUse", "Unhealthy",
               "Leaving", "Maintenance"}

(***************************************************************************)
(* state      status.state ("" is read as Pending everywhere)              *)
(* claim      status.claimRef                                              *)
(* pid        status.providerID is set (static ids are a function of the   *)
(*            host, so only their presence matters)                        *)
(* token      status.bootstrapTokenID                                      *)
(* installed  status.installedProfile is the current marker                *)
(* ready      the state the Ready condition was last derived from          *)
(* maint      the maintenance annotation is present                        *)
(***************************************************************************)
HostObject ==
  [state     : HostStates,
   claim     : NodeClaims \cup {NoClaim},
   pid       : BOOLEAN,
   token     : TokenIDs \cup {NoToken},
   installed : BOOLEAN,
   ready     : HostStates \cup {"None"},
   maint     : BOOLEAN]

\* A host as registered by the operator, before its first probe.
NewHost ==
  [state |-> "Pending", claim |-> NoClaim, pid |-> FALSE, token |-> NoToken,
   installed |-> FALSE, ready |-> "None", maint |-> FALSE]

-----------------------------------------------------------------------------
\* The states in which a host is held for a NodeClaim.
HeldStates == {"Claimed", "InUse"}

\* Mutants: no fence at all; a fence by name only.
HeldByAnyone(h, c) == h.claim # NoClaim
HeldByName(h, c) == h.claim # NoClaim /\ h.claim.name = c.name

\* ClaimHeldBy: same name, and the same UID unless one side carries none.
ClaimHeldBy(h, c) ==
  /\ h.claim # NoClaim
  /\ h.claim.name = c.name
  /\ h.claim.uid = NoUID \/ c.uid = NoUID \/ h.claim.uid = c.uid

\* Mutants: any unclaimed host; the annotation is not looked at.
ClaimableUnclaimed(h) == h.claim = NoClaim /\ ~h.maint
ClaimableAnnotated(h) == h.state = "Available" /\ h.claim = NoClaim

\* The filter of Available.
Claimable(h) == h.state = "Available" /\ h.claim = NoClaim /\ ~h.maint

\* Mutant: the reference is the bare name.
ClaimedByName(h, c) == [h EXCEPT !.state = "Claimed", !.claim = c.name]

\* The status Claim writes.
ClaimedBy(h, c) == [h EXCEPT !.state = "Claimed", !.claim = c]

\* Mutants: the token record, or the claim, survives the release.
ReleasedWithToken(h, healthy) ==
  [h EXCEPT !.claim = NoClaim, !.pid = FALSE,
            !.state = IF healthy THEN "Available" ELSE "Unhealthy"]
ReleasedWithClaim(h, healthy) ==
  [h EXCEPT !.pid = FALSE, !.token = NoToken,
            !.state = IF healthy THEN "Available" ELSE "Unhealthy"]

\* The status Release writes: claim, providerID and token record go together.
Released(h, healthy) ==
  [h EXCEPT !.claim = NoClaim, !.pid = FALSE, !.token = NoToken,
            !.state = IF healthy THEN "Available" ELSE "Unhealthy"]

\* The status the probe writes when the NodeClaim behind a claim is gone.
Abandoned(h) ==
  [h EXCEPT !.claim = NoClaim, !.pid = FALSE, !.token = NoToken,
            !.state = "Pending"]

\* Mutant: maintenance does not wait for the claim to go.
MaintainedAtOnce(h) ==
  IF h.maint THEN [h EXCEPT !.state = "Maintenance"]
  ELSE IF h.state = "Maintenance" THEN [h EXCEPT !.state = "Pending"]
  ELSE h

\* The maintenance switch at the top of the probe's Reconcile.
Maintained(h) ==
  IF h.maint /\ h.claim = NoClaim THEN [h EXCEPT !.state = "Maintenance"]
  ELSE IF ~h.maint /\ h.state = "Maintenance" THEN [h EXCEPT !.state = "Pending"]
  ELSE h

\* Mutant: a host in Leaving is left to whoever put it there.
NeedsProbeNotLeaving(h) == h.state \in {"Pending", "Available", "Unhealthy"}

\* The default branch of the probe's Reconcile.
NeedsProbe(h) == h.state \in {"Pending", "Available", "Unhealthy", "Leaving"}

\* setReadyCondition: the Ready condition is derived from the state.
WithReady(h) == [h EXCEPT !.ready = h.state]

\* A JSON merge patch carries only the status fields in which the writer's
\* object differs from the copy it started from; the server keeps the others.
Merge(server, orig, new) == IF new = orig THEN server ELSE new
MergePatch(server, orig, new) ==
  [state     |-> Merge(server.state, orig.state, new.state),
   claim     |-> Merge(server.claim, orig.claim, new.claim),
   pid       |-> Merge(server.pid, orig.pid, new.pid),
   token     |-> Merge(server.token, orig.token, new.token),
   installed |-> Merge(server.installed, orig.installed, new.installed),
   ready     |-> Merge(server.ready, orig.ready, new.ready),
   maint     |-> server.maint]

=============================================================================
