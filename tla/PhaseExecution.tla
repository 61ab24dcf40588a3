--------------------------- MODULE PhaseExecution ---------------------------
(***************************************************************************)
(* How the phases of a join profile reach a host: the checks the           *)
(* controller makes before it connects, the SSH connection, the checks of  *)
(* kpssh-shim on a host in Verified mode, and what each caller (launch,    *)
(* Delete, the zombie guard of the probe, Reboot) makes of the outcome.    *)
(*                                                                         *)
(* Claims, bootstrap tokens and the concurrent writers of a host are       *)
(* HostPool's subject: here a host has one caller at a time.  A script is  *)
(* abstracted to what rendering does with it, a signature to who made it   *)
(* over which bytes, a secret to what its conversion to environment        *)
(* variables does.                                                         *)
(***************************************************************************)
EXTENDS Integers

CONSTANTS
  Hosts,
  Profiles,     \* the contents the operator gives the join profile
  Settings,     \* the host specs and class inputs the operator chooses from
  Signers,      \* the keys that sign scripts
  Keys,         \* host keys of machines
  NoKey, NoProfile,
  MaxEdits,     \* bound on the operator's edits
  MaxFailures   \* bound on the failures of machines and of the API

Phases == {"install", "join", "leave", "uninstall", "reboot"}
Optional == {"uninstall", "reboot"}

\* What text/template makes of a script: nothing to do, actions on the host
\* and node fields, actions on the vars of the class, or a parse error.
ScriptKinds == {"none", "plain", "fields", "vars", "broken"}
\* A signature: none, over other bytes, or over these bytes by a signer.
Signatures == {"none", "stale"} \cup Signers
SecretKinds == {"none", "oneLine", "multiLine", "clash", "missing"}
Credentials == {"ok", "missing", "unparsable"}

ProfileType == [version : Nat \ {0}, script : [Phases -> ScriptKinds],
                sig : [Phases -> Signatures]]
\* mode, trusted, knownHost: the SSHHost and its Secret.  allowed, shim: what
\* is installed on the machine.  vars, secret: the SSHNodeClass.
SettingType == [mode : {"Raw", "Verified"},
                trusted : (SUBSET Signers) \cup {{"malformed"}},
                allowed : SUBSET Signers, shim : {"old", "new"},
                knownHost : Keys \cup {NoKey},
                vars : BOOLEAN, secret : SecretKinds]

ASSUME SettingsAssumption ==
  /\ Profiles \subseteq ProfileType /\ Settings \subseteq SettingType
  /\ NoProfile \notin Profiles /\ NoKey \notin Keys
  /\ Signers \cap {"none", "stale", "malformed"} = {}
  /\ MaxEdits \in Nat /\ MaxFailures \in Nat

VARIABLES
  profile,    \* the join profile, NoProfile once it is deleted
  ready,      \* the Ready condition of the class, as Create last saw it
  setting,    \* the settings of each host, fixed
  creds,      \* the SSH key Secret of each host
  status,     \* SSHHost.status
  machine,    \* the machine behind the address: its key and its kubelet
  call,       \* the phase in progress on each host
  parkedBy,   \* what made a launch park the host Unhealthy
  verdict,    \* the last answer of Reboot
  edits, failures

vars == <<profile, ready, setting, creds, status, machine, call, parkedBy,
          verdict, edits, failures>>

Kubelets == {"off", "activating", "active"}
States == {"Pending", "Available", "Claimed", "InUse", "Leaving", "Unhealthy"}
Ops == {"none", "launch", "delete", "guard", "reboot", "probe"}
Running == {"read", "token", "check", "dial", "open", "session"}
Errors == {"none", "config", "local", "api", "remote", "unknownPhase"}

NoCall == [op |-> "none", phase |-> "leave", pc |-> "idle", prof |-> NoProfile,
           pin |-> NoKey, cred |-> "ok", stuck |-> FALSE]

\* The types; and a host is Claimed, or Leaving, only while the call that made
\* it so is in progress.
TypeOK ==
  /\ profile \in Profiles \cup {NoProfile}
  /\ ready \in BOOLEAN
  /\ setting \in [Hosts -> Settings]
  /\ creds \in [Hosts -> Credentials]
  /\ status \in [Hosts -> [state : States, pin : Keys \cup {NoKey},
                           installed : {p.version : p \in Profiles} \cup {0}]]
  /\ machine \in [Hosts -> [key : Keys, kubelet : Kubelets]]
  /\ call \in [Hosts -> [op : Ops, phase : Phases, pc : Running \cup {"idle"},
                         prof : Profiles \cup {NoProfile},
                         pin : Keys \cup {NoKey}, cred : Credentials,
                         stuck : BOOLEAN]]
  /\ parkedBy \in [Hosts -> Errors]
  /\ verdict \in [Hosts -> {"none", "started", "failed", "retry"}]
  /\ edits \in 0 .. MaxEdits /\ failures \in 0 .. MaxFailures
  /\ \A h \in Hosts : /\ status[h].state = "Claimed" <=> call[h].op = "launch"
                      /\ status[h].state = "Leaving" <=> call[h].op = "guard"

Init ==
  /\ profile \in Profiles
  /\ ready = FALSE
  /\ setting \in [Hosts -> Settings]
  /\ creds = [h \in Hosts |-> "ok"]
  /\ status = [h \in Hosts |-> [state |-> "Pending", pin |-> NoKey, installed |-> 0]]
  /\ machine \in [Hosts -> [key : Keys, kubelet : {"off"}]]
  /\ call = [h \in Hosts |-> NoCall]
  /\ parkedBy = [h \in Hosts |-> "none"]
  /\ verdict = [h \in Hosts |-> "none"]
  /\ edits = 0 /\ failures = 0

Verified(h) == setting[h].mode = "Verified"

-----------------------------------------------------------------------------
(* The profile: rendering, validation and the environment of a script.     *)

\* Leave and reboot run without a node class in hand: their template context
\* has no vars.
BareContext(phase) == phase \in {"leave", "reboot"}

\* Render with missingkey=error, given whether the vars are there.
Renders(kind, hasVars) == kind \in {"plain", "fields"} \/ (kind = "vars" /\ hasVars)

HasTemplateActions(kind) == kind \in {"fields", "vars", "broken"}

\* Mutant: the signed bytes are not compared with the script's.
VerifiesAnyBytes(sig, trusted) == sig = "stale" \/ sig \in trusted
\* VerifySSHSIG against the parsed trusted signers.
VerifySSHSIG(sig, trusted) == sig \in trusted

\* Mutant: Validate without its last two checks.
ParsesOnly(p) ==
  \A ph \in Phases : \/ p.script[ph] = "none" /\ ph \in Optional
                     \/ p.script[ph] \in {"plain", "fields", "vars"}
Validate(p) ==
  /\ \A ph \in Phases : \/ p.script[ph] = "none" /\ ph \in Optional
                        \/ p.script[ph] \in {"plain", "fields", "vars"}
  /\ Renders(p.script["leave"], FALSE)
  /\ p.script["reboot"] # "none" => Renders(p.script["reboot"], FALSE)

\* Two keys of the secret that normalise to one variable are an error.
EnvOk(secret) == secret # "clash"

\* Envelope.Marshal: a param value with a line break cannot be framed.  The
\* secret only travels with install and join.
Marshals(h, phase) == BareContext(phase) \/ setting[h].secret # "multiLine"

-----------------------------------------------------------------------------
(* The controller's checks before it connects, as the error they give.     *)

RunVerifiedPhase(h, p, phase) ==
  IF \/ p.script[phase] = "none"
     \/ HasTemplateActions(p.script[phase])
     \/ p.sig[phase] = "none"
     \/ setting[h].trusted = {"malformed"}
     \/ setting[h].trusted # {} /\ ~VerifySSHSIG(p.sig[phase], setting[h].trusted)
    THEN "config"
  ELSE IF ~Marshals(h, phase) THEN "local"
  ELSE "none"

\* Mutant: a rendering failure is the plain error it wraps.
RunPhasePlain(h, p, phase) ==
  IF Verified(h) THEN RunVerifiedPhase(h, p, phase)
  ELSE IF Renders(p.script[phase], ~BareContext(phase) /\ setting[h].vars)
    THEN "none" ELSE "local"
RunPhase(h, p, phase) ==
  IF Verified(h) THEN RunVerifiedPhase(h, p, phase)
  ELSE IF Renders(p.script[phase], ~BareContext(phase) /\ setting[h].vars)
    THEN "none" ELSE "config"

\* Mutant: only the key first seen counts.
FirstSeenPin(h) == status[h].pin
EffectivePin(h) ==
  IF setting[h].knownHost # NoKey THEN setting[h].knownHost ELSE status[h].pin

PinAccepts(pin, h) == pin # NoKey => pin = machine[h].key

-----------------------------------------------------------------------------
(* What kpssh-shim answers.                                                *)

KnownPhase(h, phase) == phase # "reboot" \/ setting[h].shim = "new"
Shim(h, p, phase) ==
  IF ~KnownPhase(h, phase) THEN "unknownPhase"
  ELSE IF p.sig[phase] \notin setting[h].allowed THEN "remote"
  ELSE "none"

Refusal(h) == IF Verified(h) THEN Shim(h, call[h].prof, call[h].phase) ELSE "none"

\* What a script that ran, to the end or not, leaves of the kubelet.
Kubelet(h, phase, done) ==
  CASE phase = "join"  -> IF done THEN {"active"} ELSE Kubelets
    [] phase = "leave" -> IF done THEN {"off"} ELSE {"off", machine[h].kubelet}
    [] OTHER           -> {machine[h].kubelet}

-----------------------------------------------------------------------------
(* The callers: where each goes once a phase ended with err.               *)

\* Mutant: a failure of the API leaves the claim in place.
AfterBlame(err) ==
  IF err = "config" THEN "Available" ELSE IF err = "api" THEN "Claimed" ELSE "Unhealthy"
\* A failed launch: only a configError spares the host.
AfterFailure(err) == IF err = "config" THEN "Available" ELSE "Unhealthy"

\* Mutant: whatever failed on the host is final.
RebootGivesUp(h, err) ==
  IF err = "none" THEN "started"
  ELSE IF err \in {"config", "unknownPhase", "remote"} THEN "failed" ELSE "retry"
RebootVerdict(h, err) ==
  IF err = "none" THEN "started"
  ELSE IF err = "config" \/ (Verified(h) /\ err = "unknownPhase") THEN "failed"
  ELSE "retry"

Settle(h, state) ==
  /\ status' = [status EXCEPT ![h].state = state]
  /\ call' = [call EXCEPT ![h] = NoCall]

Installed(h) ==
  /\ status' = [status EXCEPT ![h].installed = call[h].prof.version]
  /\ call' = [call EXCEPT ![h].phase = "join", ![h].pc = "token"]
  /\ UNCHANGED <<parkedBy, verdict>>

EndLaunch(h, err) ==
  /\ Settle(h, IF err = "none" THEN "InUse" ELSE AfterFailure(err))
  /\ parkedBy' = [parkedBy EXCEPT ![h] = IF AfterFailure(err) = "Unhealthy" THEN err ELSE "none"]
  /\ UNCHANGED verdict

\* Delete and the zombie guard: a leave that failed parks the host, and so does
\* a probe that failed.
EndLeave(h, err) ==
  /\ Settle(h, IF err = "none" THEN "Available" ELSE "Unhealthy")
  /\ UNCHANGED <<parkedBy, verdict>>

EndReboot(h, err) ==
  /\ Settle(h, status[h].state)
  /\ verdict' = [verdict EXCEPT ![h] = RebootVerdict(h, err)]
  /\ UNCHANGED parkedBy

End(h, err) ==
  \/ call[h].op = "launch" /\ call[h].phase = "install" /\ err = "none" /\ Installed(h)
  \/ call[h].op = "launch" /\ (call[h].phase = "join" \/ err # "none") /\ EndLaunch(h, err)
  \/ call[h].op \in {"delete", "guard", "probe"} /\ EndLeave(h, err)
  \/ call[h].op = "reboot" /\ EndReboot(h, err)

Goto(h, pc) ==
  /\ call' = [call EXCEPT ![h].pc = pc]
  /\ UNCHANGED <<status, parkedBy, verdict>>

env == <<profile, ready, setting, creds, edits>>

-----------------------------------------------------------------------------
(* Starting a call.                                                        *)

Start(h, op, phase, state) ==
  /\ call[h].pc = "idle"
  /\ status' = [status EXCEPT ![h].state = state]
  /\ call' = [call EXCEPT ![h] = [NoCall EXCEPT !.op = op, !.phase = phase, !.pc = "read"]]

\* Create claims the host; core gives up while the class is not ready.
Launch(h) ==
  /\ ready /\ status[h].state = "Available"
  /\ Start(h, "launch", "install", "Claimed")
  /\ parkedBy' = [parkedBy EXCEPT ![h] = "none"]
  /\ UNCHANGED <<env, machine, verdict, failures>>

Delete(h) ==
  /\ status[h].state = "InUse"
  /\ Start(h, "delete", "leave", "InUse")
  /\ UNCHANGED <<env, machine, parkedBy, verdict, failures>>

Reboot(h) ==
  /\ status[h].state = "InUse"
  /\ Start(h, "reboot", "reboot", "InUse")
  /\ verdict' = [verdict EXCEPT ![h] = "none"]
  /\ UNCHANGED <<env, machine, parkedBy, failures>>

Probed(h) == status[h].state \in {"Pending", "Available", "Unhealthy", "Leaving"}

\* A probe that cannot connect: no credentials, another key, or a failure.
ProbeFails(h) ==
  /\ call[h].pc = "idle" /\ Probed(h)
  /\ IF creds[h] # "ok" \/ ~PinAccepts(EffectivePin(h), h) THEN UNCHANGED failures
     ELSE failures < MaxFailures /\ failures' = failures + 1
  /\ status' = [status EXCEPT ![h].state = "Unhealthy"]
  /\ UNCHANGED <<env, machine, call, parkedBy, verdict>>

\* A probe that reads the facts and pins the key; an active kubelet is a
\* zombie's, and the guard runs leave on a host it installed once.
Probe(h) ==
  /\ call[h].pc = "idle" /\ Probed(h)
  /\ creds[h] = "ok" /\ PinAccepts(EffectivePin(h), h)
  /\ LET pin == IF status[h].pin = NoKey THEN machine[h].key ELSE status[h].pin
         zombie == machine[h].kubelet = "active"
         guarded == zombie /\ status[h].installed # 0
     IN /\ status' = [status EXCEPT ![h].pin = pin,
                        ![h].state = IF guarded THEN "Leaving"
                                     ELSE IF zombie THEN "Unhealthy" ELSE "Available"]
        /\ call' = IF guarded
                     THEN [call EXCEPT ![h] = [NoCall EXCEPT !.op = "guard", !.phase = "leave",
                                                             !.pc = "read"]]
                     ELSE call
  /\ UNCHANGED <<env, machine, parkedBy, verdict, failures>>

\* A probe whose machine goes silent once the handshake is done: it waits for a
\* session as the phases do (Stalled).
ProbeStalls(h) ==
  /\ call[h].pc = "idle" /\ Probed(h)
  /\ creds[h] = "ok" /\ PinAccepts(EffectivePin(h), h)
  /\ failures < MaxFailures /\ failures' = failures + 1
  /\ call' = [call EXCEPT ![h] = [NoCall EXCEPT !.op = "probe", !.pc = "open", !.stuck = TRUE]]
  /\ UNCHANGED <<env, status, machine, parkedBy, verdict>>

-----------------------------------------------------------------------------
(* A call, step by step.                                                   *)

\* The error of reading the configuration of a launch (join).
LaunchConfig(h) ==
  IF \/ profile = NoProfile
     \/ creds[h] = "missing"
     \/ setting[h].secret = "missing"
     \/ ~EnvOk(setting[h].secret)
    THEN "config" ELSE "none"

\* The same for leave and reboot (runInstalledPhase).
InstalledConfig(h) ==
  IF status[h].installed = 0 THEN "config"
  ELSE IF profile = NoProfile THEN "local"
  ELSE IF profile.script[call[h].phase] = "none" THEN "config"
  ELSE IF creds[h] = "missing" THEN "local"
  ELSE "none"

ReadConfig(h) ==
  /\ call[h].pc = "read"
  /\ LET launch == call[h].op = "launch"
         err == IF launch THEN LaunchConfig(h) ELSE InstalledConfig(h)
         warm == launch /\ status[h].installed = profile.version
     IN \/ err # "none" /\ End(h, err)
        \/ /\ err = "none"
           /\ call' = [call EXCEPT ![h].prof = profile, ![h].pin = EffectivePin(h),
                         ![h].cred = creds[h],
                         ![h].phase = IF warm THEN "join" ELSE @,
                         ![h].pc = IF warm THEN "token" ELSE "check"]
           /\ UNCHANGED <<status, parkedBy, verdict>>
  /\ UNCHANGED <<env, machine, failures>>

\* Minting and recording the bootstrap token, which the API may refuse.
Token(h) ==
  /\ call[h].pc = "token"
  /\ \/ Goto(h, "check") /\ UNCHANGED failures
     \/ failures < MaxFailures /\ failures' = failures + 1 /\ End(h, "api")
  /\ UNCHANGED <<env, machine>>

\* The checks before the connection; connect parses the private key first.
Check(h) ==
  /\ call[h].pc = "check"
  /\ LET err == RunPhase(h, call[h].prof, call[h].phase)
     IN \/ err # "none" /\ End(h, err)
        \/ err = "none" /\ call[h].cred = "unparsable" /\ End(h, "local")
        \/ err = "none" /\ call[h].cred = "ok" /\ Goto(h, "dial")
  /\ UNCHANGED <<env, machine, failures>>

\* Dialling and the handshake: they fail, hang, meet another key, or succeed.
Dial(h) ==
  /\ call[h].pc = "dial" /\ ~call[h].stuck
  /\ \/ PinAccepts(call[h].pin, h) /\ Goto(h, "open") /\ UNCHANGED failures
     \/ ~PinAccepts(call[h].pin, h) /\ End(h, "remote") /\ UNCHANGED failures
     \/ failures < MaxFailures /\ failures' = failures + 1 /\ End(h, "remote")
  /\ UNCHANGED <<env, machine>>

\* Opening a session on the connection.
Open(h) ==
  /\ call[h].pc = "open" /\ ~call[h].stuck
  /\ \/ Goto(h, "session") /\ UNCHANGED failures
     \/ failures < MaxFailures /\ failures' = failures + 1 /\ End(h, "remote")
  /\ UNCHANGED <<env, machine>>

\* The session: the shim refuses, or the script runs to its end or fails.
Session(h) ==
  /\ call[h].pc = "session" /\ ~call[h].stuck
  /\ \/ Refusal(h) # "none" /\ End(h, Refusal(h)) /\ UNCHANGED <<machine, failures>>
     \/ /\ Refusal(h) = "none"
        /\ \E done \in BOOLEAN :
             /\ IF done THEN UNCHANGED failures
                ELSE failures < MaxFailures /\ failures' = failures + 1
             /\ \E k \in Kubelet(h, call[h].phase, done) :
                  machine' = [machine EXCEPT ![h].kubelet = k]
             /\ End(h, IF done THEN "none" ELSE "remote")
  /\ UNCHANGED env

\* The machine stops answering: in the handshake, before it opens the session
\* or in the session.
Hang(h) ==
  /\ call[h].pc \in {"dial", "open", "session"} /\ ~call[h].stuck
  /\ failures < MaxFailures /\ failures' = failures + 1
  /\ call' = [call EXCEPT ![h].stuck = TRUE]
  /\ UNCHANGED <<env, status, machine, parkedBy, verdict>>

\* Mutant: no deadline bounds the handshake.
SessionDeadline(h) ==
  /\ call[h].stuck /\ call[h].pc = "session"
  /\ machine' \in {[machine EXCEPT ![h].kubelet = k] :
                      k \in Kubelet(h, call[h].phase, FALSE)}
  /\ End(h, "remote")
  /\ UNCHANGED <<env, failures>>

\* The connection deadline ends a handshake, the context a session that was
\* opened; what the script did by then is done.  Neither bounds the opening.
Deadline(h) ==
  /\ call[h].stuck /\ call[h].pc \in {"dial", "session"}
  /\ machine' \in {[machine EXCEPT ![h].kubelet = k] :
                      k \in IF call[h].pc = "session" /\ Refusal(h) = "none"
                             THEN Kubelet(h, call[h].phase, FALSE)
                             ELSE {machine[h].kubelet}}
  /\ End(h, "remote")
  /\ UNCHANGED <<env, failures>>

\* A call that waits for its session to open, with nothing to end the wait.
Stalled(h) == call[h].pc = "open" /\ call[h].stuck

\* The machine may break the connection after all, or open the session when
\* the context is long over; it need not do either.
StallEnds(h) ==
  /\ Stalled(h)
  /\ \/ End(h, "remote")
     \/ call[h].op # "probe" /\ Goto(h, "session")
  /\ UNCHANGED <<env, machine, failures>>

-----------------------------------------------------------------------------
(* The class controller, the operator and the machines.                    *)

Reconcile ==
  /\ ready' = (profile # NoProfile /\ Validate(profile))
  /\ UNCHANGED <<profile, setting, creds, status, machine, call, parkedBy,
                 verdict, edits, failures>>

Edit == edits < MaxEdits /\ edits' = edits + 1

EditProfile ==
  /\ Edit
  /\ profile' \in (Profiles \cup {NoProfile}) \ {profile}
  /\ UNCHANGED <<ready, setting, creds, status, machine, call, parkedBy, verdict, failures>>

EditCredentials(h) ==
  /\ Edit
  /\ \E c \in Credentials \ {creds[h]} : creds' = [creds EXCEPT ![h] = c]
  /\ UNCHANGED <<profile, ready, setting, status, machine, call, parkedBy, verdict, failures>>

\* Another machine, or a reinstalled one, answers at the address (not in the
\* middle of a connection).
ReplaceMachine(h) ==
  /\ Edit /\ call[h].pc \notin {"open", "session"}
  /\ \E k \in Keys : machine' = [machine EXCEPT ![h] = [key |-> k, kubelet |-> "off"]]
  /\ UNCHANGED <<profile, ready, setting, creds, status, call, parkedBy, verdict, failures>>

\* A kubelet that a broken join left restarting comes up on its own.
KubeletStarts(h) ==
  /\ machine[h].kubelet = "activating"
  /\ machine' = [machine EXCEPT ![h].kubelet = "active"]
  /\ UNCHANGED <<env, status, call, parkedBy, verdict, failures>>

Next ==
  \/ Reconcile \/ EditProfile
  \/ \E h \in Hosts :
       \/ Launch(h) \/ Delete(h) \/ Reboot(h)
       \/ Probe(h) \/ ProbeFails(h) \/ ProbeStalls(h)
       \/ ReadConfig(h) \/ Token(h) \/ Check(h) \/ Dial(h) \/ Open(h) \/ Session(h)
       \/ Hang(h) \/ Deadline(h) \/ StallEnds(h)
       \/ EditCredentials(h) \/ ReplaceMachine(h) \/ KubeletStarts(h)

Spec == Init /\ [][Next]_vars

\* A call in progress goes on, a deadline fires, an idle host is probed every
\* interval.  Nobody has to launch, delete or reboot anything, and nothing makes
\* a machine that went silent speak again.
FairSpec ==
  /\ Spec
  /\ \A h \in Hosts :
       /\ WF_vars(ReadConfig(h) \/ Token(h) \/ Check(h) \/ Dial(h) \/ Open(h) \/ Session(h))
       /\ WF_vars(Deadline(h))
       /\ WF_vars(Probe(h))

-----------------------------------------------------------------------------
(* Properties.                                                             *)

\* What the operator of a Verified host is promised: only scripts sent as they
\* were signed reach its shim, and where the shim trusts whom the controller
\* trusts it refuses nothing that the controller let through (except a phase
\* it is too old for).  The profile may change while a call is in flight.
VerifiedRunsSigned ==
  \A h \in Hosts :
    Verified(h) /\ call[h].pc = "session" =>
      LET p == call[h].prof  ph == call[h].phase  s == setting[h] IN
      /\ p.script[ph] = "plain" /\ p.sig[ph] # "none"
      /\ s.trusted # {} /\ s.trusted \subseteq s.allowed =>
           Shim(h, p, ph) = "none" \/ (ph = "reboot" /\ s.shim = "old")

\* No phase runs on a machine whose host key is not the pinned one: the
\* operator's knownHost if there is one, the key of the first probe if not.
\* In particular a host that was never probed runs no phase, and a machine
\* that was replaced between the probe and the launch runs none either.
PinnedMachineOnly ==
  \A h \in Hosts :
    call[h].pc = "session" =>
      machine[h].key = IF setting[h].knownHost # NoKey THEN setting[h].knownHost
                       ELSE status[h].pin

\* A launch that ends before it dials for its phase gives the host back, with
\* three exceptions that park it: a private key that does not parse, a value
\* with a line break for a Verified host, and a bootstrap token that the API
\* refused to create or to record (on a warm host, before anything was sent to
\* it).  The configuration may change at any step.
OnlyHostFaultsPark ==
  [][\A h \in Hosts :
       call[h].op = "launch" /\ call[h].pc \in {"read", "token", "check"}
       /\ call'[h].pc = "idle" =>
         \/ status'[h].state = "Available"
         \/ call[h].cred = "unparsable"
         \/ Verified(h) /\ setting[h].secret = "multiLine"
         \/ call[h].pc = "token" /\ failures' # failures]_vars

\* Whether a reboot of the host can be run at all with this profile.
RebootCanRun(h, p) ==
  /\ p # NoProfile
  /\ LET s == setting[h]  k == p.script["reboot"]  sig == p.sig["reboot"] IN
     IF s.mode = "Raw" THEN k \in {"plain", "fields"}
     ELSE /\ k = "plain" /\ sig \in s.allowed /\ s.shim = "new"
          /\ s.trusted = {} \/ sig \in s.trusted

\* What a step that ends a reboot may answer: "failed" only if no retry can
\* succeed with the profile it read; "retry" of what cannot succeed only after a
\* failure of the machine or of its address, or when the profile is missing,
\* the key cannot be used or the shim trusts others.
RebootAnswer(h) ==
  LET p == IF call[h].pc = "read" THEN profile ELSE call[h].prof
      s == setting[h] IN
  /\ verdict'[h] = "failed" => ~RebootCanRun(h, p)
  /\ verdict'[h] = "retry" =>
       \/ RebootCanRun(h, p) \/ p = NoProfile
       \/ failures' # failures \/ call[h].stuck \/ ~PinAccepts(call[h].pin, h)
       \/ creds[h] = "missing" \/ call[h].cred = "unparsable"
       \/ Verified(h) /\ (s.trusted = {} \/ ~(s.trusted \subseteq s.allowed))

\* Reboot tells core to replace the node only if no retry can succeed, and asks
\* for no retry that cannot without a reason outside the profile.
RebootVerdictRight ==
  [][\A h \in Hosts :
       call[h].op = "reboot" /\ call'[h].op = "none" => RebootAnswer(h)]_vars

\* A call ends, whatever the machine does, unless the machine goes silent just
\* before it opens the session: a handshake that hangs is ended by the deadline
\* of the connection, a script by the timeout of its phase.
PhaseEnds ==
  \A h \in Hosts : (call[h].pc # "idle") ~> (call[h].pc = "idle" \/ Stalled(h))

LeaveWorks(h) ==
  /\ creds[h] = "ok" /\ PinAccepts(EffectivePin(h), h)
  /\ profile # NoProfile /\ Validate(profile)
  /\ LET s == setting[h]  sig == profile.sig["leave"] IN
     s.mode = "Verified" =>
       /\ profile.script["leave"] = "plain" /\ sig \in s.allowed
       /\ s.trusted = {} \/ sig \in s.trusted

\* A host that is nobody's does not stay in the cluster: once the operator has
\* a valid profile in place (signed, for a Verified host) and the machine can
\* be reached, the guard disconnects a kubelet that a failed launch, a failed
\* leave or a late start left running.  A worker that waits for a session to
\* open is lost to the host for as long as it waits.
StrandedKubeletLeaves ==
  \A h \in Hosts :
    <>[](LeaveWorks(h) /\ ~Stalled(h)) =>
      []<>(machine[h].kubelet # "active" \/ status[h].state \in {"Claimed", "InUse"})

\* What the comment on configError says of a configuration mistake: it never
\* parks a host that was not touched.
ConfigSparesHost == \A h \in Hosts : parkedBy[h] # "local"

\* What the comments on Run and runSession say: the context bounds the whole
\* operation, so every call ends.
PhaseBounded == \A h \in Hosts : (call[h].pc # "idle") ~> (call[h].pc = "idle")

=============================================================================
