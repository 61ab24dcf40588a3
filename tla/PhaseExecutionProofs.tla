------------------------ MODULE PhaseExecutionProofs ------------------------
(***************************************************************************)
(* Which scripts reach which machine, and whom a failure blames, for any   *)
(* hosts, profiles and settings and any number of edits and failures.      *)
(* What a call checked holds later because nothing it rests on can change  *)
(* while the call is in progress: it works on the profile and the pin it   *)
(* read, and only a probe, which needs an idle host, writes the pin.       *)
(***************************************************************************)
EXTENDS PhaseExecution, TLAPS

StatusType == [state : States, pin : Keys \cup {NoKey},
               installed : {p.version : p \in Profiles} \cup {0}]
MachineType == [key : Keys, kubelet : Kubelets]
CallType == [op : Ops, phase : Phases, pc : Running \cup {"idle"},
             prof : Profiles \cup {NoProfile}, pin : Keys \cup {NoKey},
             cred : Credentials, stuck : BOOLEAN]

\* What a call in progress on h rests on.
CallOK(h) ==
  /\ call[h].pc = "idle" <=> call[h].op = "none"
  /\ call[h].op = "launch" => call[h].phase \in {"install", "join"}
  /\ call[h].op \in {"delete", "guard"} => call[h].phase = "leave"
  /\ call[h].op = "reboot" => call[h].phase = "reboot"
  /\ call[h].op \in {"delete", "reboot"} => status[h].state = "InUse"
  /\ status[h].state \in {"Available", "Claimed", "InUse", "Leaving"} =>
       status[h].pin # NoKey
  /\ status[h].state = "InUse" \/ (call[h].op = "launch" /\ call[h].phase = "join") =>
       status[h].installed # 0
  /\ call[h].op = "probe" => call[h].pc = "open" /\ call[h].stuck
  /\ call[h].op # "probe" =>
       /\ call[h].pc \in {"token", "check", "dial", "open", "session"} =>
            call[h].prof \in Profiles /\ call[h].pin = EffectivePin(h)
       /\ call[h].pc \in {"dial", "open", "session"} =>
            RunPhase(h, call[h].prof, call[h].phase) = "none" /\ call[h].cred = "ok"
       /\ call[h].pc \in {"open", "session"} => PinAccepts(call[h].pin, h)
  /\ call[h].stuck => call[h].pc \in {"dial", "open", "session"}

PhaseInv == TypeOK /\ \A h \in Hosts : CallOK(h)

\* The types of what belongs to one host.
HostTypes(h) ==
  /\ status[h] \in StatusType /\ machine[h] \in MachineType /\ call[h] \in CallType
  /\ parkedBy[h] \in Errors
  /\ verdict[h] \in {"none", "started", "failed", "retry"}
  /\ status[h].state = "Claimed" <=> call[h].op = "launch"
  /\ status[h].state = "Leaving" <=> call[h].op = "guard"
HostOK(h) == HostTypes(h) /\ CallOK(h)

\* What belongs to no host.
GlobalTypes ==
  /\ profile \in Profiles \cup {NoProfile} /\ ready \in BOOLEAN
  /\ setting \in [Hosts -> Settings] /\ creds \in [Hosts -> Credentials]
  /\ edits \in 0 .. MaxEdits /\ failures \in 0 .. MaxFailures

\* A step that touches nothing but h: its status and call, its machine, what is
\* remembered of it.
CallOf(h) == /\ call' = [call EXCEPT ![h] = call'[h]]
             /\ status' = [status EXCEPT ![h] = status'[h]]
             /\ parkedBy' = [parkedBy EXCEPT ![h] = parkedBy'[h]]
             /\ verdict' = [verdict EXCEPT ![h] = verdict'[h]]
OnlyHost(h) == /\ CallOf(h) /\ machine' = [machine EXCEPT ![h] = machine'[h]]
               /\ UNCHANGED setting

-----------------------------------------------------------------------------
\* The error of a phase is one of the errors there are.
LEMMA ErrorTypes ==
  ASSUME NEW h \in Hosts, NEW p, NEW phase
  PROVE  /\ RunPhase(h, p, phase) \in Errors /\ Shim(h, p, phase) \in Errors
         /\ Refusal(h) \in Errors /\ LaunchConfig(h) \in Errors
         /\ InstalledConfig(h) \in Errors
BY DEF RunPhase, RunVerifiedPhase, Shim, Refusal, LaunchConfig, InstalledConfig, Errors

\* The invariant, host by host.
LEMMA HostByHost == PhaseInv => GlobalTypes /\ \A h \in Hosts : HostOK(h)
BY DEF PhaseInv, TypeOK, GlobalTypes, HostOK, HostTypes, StatusType, MachineType,
       CallType

\* What is known of a host holds after a step that leaves the host alone.
LEMMA Untouched ==
  ASSUME NEW g \in Hosts, HostOK(g), UNCHANGED setting, call'[g] = call[g],
         status'[g] = status[g], machine'[g] = machine[g],
         parkedBy'[g] = parkedBy[g], verdict'[g] = verdict[g]
  PROVE  HostOK(g)'
<1>1. HostTypes(g)'
  BY DEF HostOK, HostTypes
<1>2. EffectivePin(g)' = EffectivePin(g)
  BY DEF EffectivePin
<1>3. \A p, phase : RunPhase(g, p, phase)' = RunPhase(g, p, phase)
  BY DEF RunPhase, RunVerifiedPhase, Verified, Marshals
<1>4. PinAccepts(call[g].pin, g)' <=> PinAccepts(call[g].pin, g)
  BY DEF PinAccepts
<1>5. CallOK(g)'
  BY <1>2, <1>3, <1>4 DEF HostOK, CallOK
<1> QED  BY <1>1, <1>5 DEF HostOK

\* So a step that touches one host only has to be good for that host.
LEMMA OneHost ==
  ASSUME PhaseInv, NEW h \in Hosts, OnlyHost(h), GlobalTypes', HostOK(h)'
  PROVE  PhaseInv'
<1>1. ASSUME NEW g \in Hosts PROVE HostOK(g)'
  <2>1. CASE g = h
    BY <2>1
  <2>2. CASE g # h
    <3>1. /\ call'[g] = call[g] /\ status'[g] = status[g] /\ machine'[g] = machine[g]
          /\ parkedBy'[g] = parkedBy[g] /\ verdict'[g] = verdict[g]
      BY <2>2 DEF PhaseInv, TypeOK, OnlyHost, CallOf
    <3> QED  BY <3>1, HostByHost, Untouched DEF OnlyHost
  <2> QED  BY <2>1, <2>2
<1>2. TypeOK'
  <2>1. \A g \in Hosts : HostTypes(g)'
    BY <1>1 DEF HostOK
  <2>2. /\ status' \in [Hosts -> StatusType] /\ machine' \in [Hosts -> MachineType]
        /\ call' \in [Hosts -> CallType] /\ parkedBy' \in [Hosts -> Errors]
        /\ verdict' \in [Hosts -> {"none", "started", "failed", "retry"}]
    BY <2>1 DEF PhaseInv, TypeOK, OnlyHost, CallOf, HostTypes
  <2> QED  BY <2>1, <2>2 DEF GlobalTypes, TypeOK, HostTypes, StatusType,
                             MachineType, CallType
<1> QED  BY <1>1, <1>2 DEF PhaseInv, HostOK

\* What is left when a call ends.
LEMMA NoCallOK ==
  ASSUME NEW h \in Hosts, call'[h] = NoCall, status'[h] \in StatusType,
         status'[h].state \notin {"Claimed", "Leaving"},
         status'[h].state \in {"Available", "InUse"} => status'[h].pin # NoKey,
         status'[h].state = "InUse" => status'[h].installed # 0
  PROVE  /\ CallOK(h)' /\ call'[h] \in CallType
         /\ status'[h].state = "Claimed" <=> call'[h].op = "launch"
         /\ status'[h].state = "Leaving" <=> call'[h].op = "guard"
BY SettingsAssumption DEF CallOK, NoCall, CallType, Ops, Phases, Running, Credentials

\* Ending a phase is good for the host, whoever asked for the phase.
LEMMA EndOK ==
  ASSUME PhaseInv, NEW h \in Hosts, NEW err \in Errors, End(h, err),
         call[h].pc # "idle", err = "none" => call[h].pc = "session" /\ ~call[h].stuck,
         machine'[h] \in MachineType, UNCHANGED setting
  PROVE  CallOf(h) /\ HostOK(h)'
<1>1. HostTypes(h) /\ CallOK(h)
  BY HostByHost DEF HostOK
<1>0. /\ call \in [Hosts -> CallType] /\ status \in [Hosts -> StatusType]
      /\ parkedBy \in [Hosts -> Errors]
      /\ verdict \in [Hosts -> {"none", "started", "failed", "retry"}]
  BY DEF PhaseInv, TypeOK, CallType, StatusType
<1>2. CASE /\ call[h].op = "launch" /\ call[h].phase = "install" /\ err = "none"
           /\ Installed(h)
  <2>1. call[h].prof \in Profiles /\ call[h].prof.version # 0 /\ call[h].pin = EffectivePin(h)
    BY <1>1, <1>2, SettingsAssumption DEF CallOK, ProfileType
  <2>2. /\ status'[h] = [status[h] EXCEPT !.installed = call[h].prof.version]
        /\ call'[h] = [call[h] EXCEPT !.phase = "join", !.pc = "token"]
        /\ CallOf(h) /\ UNCHANGED <<parkedBy, verdict>>
    BY <1>0, <1>2, Zenon DEF Installed, CallOf
  <2>3. status'[h] \in StatusType
    BY <1>1, <2>1, <2>2 DEF HostTypes, StatusType
  <2>4. call'[h] \in CallType
    BY <1>1, <2>2, Zenon DEF HostTypes, CallType, Phases, Running
  <2>5. status'[h].pin = status[h].pin /\ status'[h].state = status[h].state
        /\ status'[h].installed = call[h].prof.version
    BY <1>1, <2>2 DEF HostTypes, StatusType
  <2>6. EffectivePin(h)' = EffectivePin(h)
    BY <2>5 DEF EffectivePin
  <2>7. /\ call'[h].op = "launch" /\ call'[h].phase = "join" /\ call'[h].pc = "token"
        /\ call'[h].prof = call[h].prof /\ call'[h].pin = call[h].pin
        /\ call'[h].stuck = call[h].stuck
    BY <1>1, <1>2, <2>2 DEF HostTypes, CallType
  <2>8. CallOK(h)'
    BY <1>1, <1>2, <2>1, <2>5, <2>6, <2>7 DEF CallOK, HostTypes
  <2>9. HostTypes(h)'
    BY <1>1, <1>2, <2>2, <2>3, <2>4, <2>5, <2>7 DEF HostTypes
  <2> QED  BY <2>2, <2>8, <2>9 DEF HostOK
<1>3. ASSUME NEW s \in States, Settle(h, s), s \notin {"Claimed", "Leaving"},
             s = "InUse" => status[h].installed # 0,
             s \in {"Available", "InUse"} => call[h].op # "probe",
             parkedBy' = [parkedBy EXCEPT ![h] = parkedBy'[h]], parkedBy'[h] \in Errors,
             verdict' = [verdict EXCEPT ![h] = verdict'[h]],
             verdict'[h] \in {"none", "started", "failed", "retry"}
      PROVE  CallOf(h) /\ HostOK(h)'
  <2>1. /\ status'[h] = [status[h] EXCEPT !.state = s] /\ call'[h] = NoCall
        /\ CallOf(h)
    BY <1>0, <1>3 DEF Settle, CallOf
  <2>2. /\ status'[h] \in StatusType /\ status'[h].state = s
        /\ status'[h].pin = status[h].pin /\ status'[h].installed = status[h].installed
    BY <1>1, <2>1 DEF HostTypes, StatusType
  <2>3. call[h].op # "probe" => status[h].pin # NoKey
    BY <1>1 DEF HostTypes, CallOK, CallType, Ops
  <2>4. /\ CallOK(h)' /\ call'[h] \in CallType
        /\ status'[h].state = "Claimed" <=> call'[h].op = "launch"
        /\ status'[h].state = "Leaving" <=> call'[h].op = "guard"
    BY <1>3, <2>1, <2>2, <2>3, NoCallOK, Zenon
  <2> QED  BY <1>3, <2>1, <2>2, <2>4 DEF HostOK, HostTypes
<1>4. CASE /\ call[h].op = "launch" /\ (call[h].phase = "join" \/ err # "none")
           /\ EndLaunch(h, err)
  <2> DEFINE s == IF err = "none" THEN "InUse" ELSE AfterFailure(err)
             b == IF AfterFailure(err) = "Unhealthy" THEN err ELSE "none"
  <2>0. call[h].op # "probe"
    BY <1>4
  <2>1. s \in States /\ s \notin {"Claimed", "Leaving"} /\ b \in Errors
    BY DEF AfterFailure, States, Errors
  <2>2. s = "InUse" => status[h].installed # 0
    BY <1>1, <1>4 DEF AfterFailure, CallOK
  <2>3. Settle(h, s) /\ parkedBy' = [parkedBy EXCEPT ![h] = b] /\ UNCHANGED verdict
    BY <1>4 DEF EndLaunch
  <2> HIDE DEF s, b
  <2>4. /\ parkedBy' = [parkedBy EXCEPT ![h] = parkedBy'[h]] /\ parkedBy'[h] = b
        /\ verdict' = [verdict EXCEPT ![h] = verdict'[h]] /\ verdict'[h] = verdict[h]
    BY <1>0, <2>3
  <2> QED  BY <1>1, <1>3, <2>0, <2>1, <2>2, <2>3, <2>4 DEF HostTypes
<1>5. CASE call[h].op \in {"delete", "guard", "probe"} /\ EndLeave(h, err)
  <2> DEFINE s == IF err = "none" THEN "Available" ELSE "Unhealthy"
  <2>1. s \in States /\ s \notin {"Claimed", "Leaving", "InUse"}
    BY DEF States
  <2>4. s = "Available" => call[h].op # "probe"
    BY <1>1 DEF CallOK
  <2>2. Settle(h, s) /\ UNCHANGED <<parkedBy, verdict>>
    BY <1>5 DEF EndLeave
  <2> HIDE DEF s
  <2>3. /\ parkedBy' = [parkedBy EXCEPT ![h] = parkedBy'[h]] /\ parkedBy'[h] = parkedBy[h]
        /\ verdict' = [verdict EXCEPT ![h] = verdict'[h]] /\ verdict'[h] = verdict[h]
    BY <1>0, <2>2
  <2> QED  BY <1>1, <1>3, <2>1, <2>2, <2>3, <2>4 DEF HostTypes
<1>6. CASE call[h].op = "reboot" /\ EndReboot(h, err)
  <2>0. call[h].op # "probe"
    BY <1>6
  <2>1. Settle(h, "InUse") /\ UNCHANGED parkedBy
        /\ verdict' = [verdict EXCEPT ![h] = RebootVerdict(h, err)]
    BY <1>1, <1>6 DEF EndReboot, CallOK
  <2>2. "InUse" \in States /\ status[h].installed # 0
        /\ RebootVerdict(h, err) \in {"none", "started", "failed", "retry"}
    BY <1>1, <1>6 DEF States, CallOK, RebootVerdict
  <2>3. /\ parkedBy' = [parkedBy EXCEPT ![h] = parkedBy'[h]] /\ parkedBy'[h] = parkedBy[h]
        /\ verdict' = [verdict EXCEPT ![h] = verdict'[h]]
        /\ verdict'[h] = RebootVerdict(h, err)
    BY <1>0, <2>1
  <2> QED  BY <1>1, <1>3, <2>0, <2>1, <2>2, <2>3 DEF HostTypes
<1> QED  BY <1>2, <1>4, <1>5, <1>6 DEF End

\* Nothing of a host has to change for a variable to be "changed at h only".
LEMMA Same ==
  ASSUME PhaseInv, NEW h \in Hosts
  PROVE  /\ call = [call EXCEPT ![h] = call[h]] /\ status = [status EXCEPT ![h] = status[h]]
         /\ machine = [machine EXCEPT ![h] = machine[h]]
         /\ parkedBy = [parkedBy EXCEPT ![h] = parkedBy[h]]
         /\ verdict = [verdict EXCEPT ![h] = verdict[h]]
BY DEF PhaseInv, TypeOK

\* Where each of the maps of hosts takes its values.
LEMMA MapTypes ==
  PhaseInv => /\ call \in [Hosts -> CallType] /\ status \in [Hosts -> StatusType]
              /\ machine \in [Hosts -> MachineType] /\ parkedBy \in [Hosts -> Errors]
              /\ verdict \in [Hosts -> {"none", "started", "failed", "retry"}]
BY DEF PhaseInv, TypeOK, CallType, StatusType, MachineType

\* A call that starts, well typed.
Begun(op, phase) == [NoCall EXCEPT !.op = op, !.phase = phase, !.pc = "read"]
LEMMA BegunType ==
  ASSUME NEW op \in Ops, NEW phase \in Phases
  PROVE  /\ Begun(op, phase) \in CallType /\ Begun(op, phase).op = op
         /\ Begun(op, phase).phase = phase /\ Begun(op, phase).pc = "read"
<1>1. NoCall \in CallType
  BY DEF NoCall, CallType, Phases, Running, Credentials, Ops
<1>2. "read" \in Running
  BY DEF Running
<1> QED  BY <1>1, <1>2, Zenon DEF CallType, Begun
LEMMA BegunFree == ASSUME NEW op, NEW phase PROVE ~Begun(op, phase).stuck
BY DEF Begun, NoCall

\* A call that starts is good for the host.
LEMMA StartOK ==
  ASSUME PhaseInv, NEW h \in Hosts, OnlyHost(h), machine'[h] = machine[h],
         NEW op \in Ops \ {"none", "probe"}, NEW phase \in Phases, call'[h] = Begun(op, phase),
         op = "launch" => phase = "install" /\ status'[h].state = "Claimed",
         op = "delete" => phase = "leave" /\ status'[h].state = "InUse",
         op = "reboot" => phase = "reboot" /\ status'[h].state = "InUse",
         op = "guard" => phase = "leave" /\ status'[h].state = "Leaving",
         status'[h] \in StatusType, status'[h].pin # NoKey,
         status'[h].state = "InUse" => status'[h].installed # 0,
         parkedBy'[h] \in Errors,
         verdict'[h] \in {"none", "started", "failed", "retry"}
  PROVE  HostOK(h)'
<1>1. /\ call'[h] \in CallType /\ call'[h].op = op /\ call'[h].phase = phase
      /\ call'[h].pc = "read"
  BY BegunType
<1>4. ~call'[h].stuck
  BY BegunFree
<1>2. CallOK(h)'
  BY <1>1, <1>4 DEF CallOK, Ops
<1>3. HostTypes(h)'
  BY <1>1, MapTypes DEF HostTypes, Ops
<1> QED  BY <1>2, <1>3 DEF HostOK

\* A write of the state of h is a step of h, and keeps the rest of its status.
LEMMA StateWritten ==
  ASSUME PhaseInv, NEW h \in Hosts, NEW state \in States,
         status' = [status EXCEPT ![h].state = state]
  PROVE  /\ status' = [status EXCEPT ![h] = status'[h]] /\ status'[h] \in StatusType
         /\ status'[h].state = state /\ status'[h].pin = status[h].pin
         /\ status'[h].installed = status[h].installed
<1>1. /\ status' = [status EXCEPT ![h] = status'[h]]
      /\ status'[h] = [status[h] EXCEPT !.state = state]
  BY MapTypes, Zenon
<1>2. status[h] \in StatusType
  BY MapTypes
<1> QED  BY <1>1, <1>2 DEF StatusType

\* Launch, Delete and Reboot keep the invariant.
LEMMA StartStep ==
  ASSUME PhaseInv, NEW h \in Hosts, Launch(h) \/ Delete(h) \/ Reboot(h)
  PROVE  PhaseInv'
<1>1. HostTypes(h) /\ CallOK(h) /\ GlobalTypes
  BY HostByHost DEF HostOK
<1>2. GlobalTypes' /\ UNCHANGED <<setting, machine>>
  BY <1>1 DEF Launch, Delete, Reboot, env, GlobalTypes
<1>3. status[h].pin # NoKey /\ (status[h].state = "InUse" => status[h].installed # 0)
  BY <1>1 DEF Launch, Delete, Reboot, CallOK
<1>4. /\ "InUse" \in States /\ "Claimed" \in States
      /\ {"launch", "delete", "reboot"} \subseteq Ops \ {"none", "probe"}
      /\ {"install", "leave", "reboot"} \subseteq Phases /\ "none" \in Errors
  BY DEF States, Ops, Phases, Errors
<1>5. /\ parkedBy' = [parkedBy EXCEPT ![h] = parkedBy'[h]] /\ parkedBy'[h] \in Errors
      /\ verdict' = [verdict EXCEPT ![h] = verdict'[h]]
      /\ verdict'[h] \in {"none", "started", "failed", "retry"}
  BY <1>4, MapTypes DEF Launch, Delete, Reboot
<1>6. ASSUME NEW op, NEW phase, NEW state \in States, Start(h, op, phase, state)
      PROVE  OnlyHost(h) /\ call'[h] = Begun(op, phase) /\ status'[h].state = state
             /\ status'[h].pin = status[h].pin /\ status'[h] \in StatusType
             /\ status'[h].installed = status[h].installed
  <2>1. call' = [call EXCEPT ![h] = Begun(op, phase)]
        /\ status' = [status EXCEPT ![h].state = state]
    BY <1>6 DEF Start, Begun
  <2>2. call'[h] = Begun(op, phase) /\ call' = [call EXCEPT ![h] = call'[h]]
    BY <2>1, MapTypes
  <2> QED  BY <1>2, <1>5, <2>1, <2>2, StateWritten, Same, Zenon DEF OnlyHost, CallOf
<1>7. CASE Launch(h)
  <2>1. Start(h, "launch", "install", "Claimed")
    BY <1>7 DEF Launch
  <2>2. OnlyHost(h) /\ HostOK(h)'
    BY <1>2, <1>3, <1>4, <1>5, <1>6, <2>1, StartOK
  <2> QED  BY <1>2, <2>2, OneHost
<1>8. CASE Delete(h)
  <2>1. Start(h, "delete", "leave", "InUse") /\ status[h].state = "InUse"
    BY <1>8 DEF Delete
  <2>2. OnlyHost(h) /\ HostOK(h)'
    BY <1>2, <1>3, <1>4, <1>5, <1>6, <2>1, StartOK
  <2> QED  BY <1>2, <2>2, OneHost
<1>9. CASE Reboot(h)
  <2>1. Start(h, "reboot", "reboot", "InUse") /\ status[h].state = "InUse"
    BY <1>9 DEF Reboot
  <2>2. OnlyHost(h) /\ HostOK(h)'
    BY <1>2, <1>3, <1>4, <1>5, <1>6, <2>1, StartOK
  <2> QED  BY <1>2, <2>2, OneHost
<1> QED  BY <1>7, <1>8, <1>9

\* So is a write of the state and the pin.
LEMMA KeyWritten ==
  ASSUME PhaseInv, NEW h \in Hosts, NEW pin \in Keys, NEW state \in States,
         status' = [status EXCEPT ![h].pin = pin, ![h].state = state]
  PROVE  /\ status' = [status EXCEPT ![h] = status'[h]] /\ status'[h] \in StatusType
         /\ status'[h].state = state /\ status'[h].pin = pin
<1>1. /\ status' = [status EXCEPT ![h] = status'[h]]
      /\ status'[h] = [status[h] EXCEPT !.pin = pin, !.state = state]
  BY MapTypes, Zenon
<1>2. status[h] \in StatusType
  BY MapTypes
<1> DEFINE s == [status[h] EXCEPT !.pin = pin, !.state = state]
<1>3. s \in StatusType
  BY <1>2, Zenon DEF StatusType
<1>4. s.state = state /\ s.pin = pin
  BY <1>2 DEF StatusType
<1> HIDE DEF s
<1>5. status'[h] = s
  BY <1>1 DEF s
<1> QED  BY <1>1, <1>3, <1>4, <1>5

\* An idle host may be probed, and the guard may start.
LEMMA ProbeStep ==
  ASSUME PhaseInv, NEW h \in Hosts, Probe(h) \/ ProbeFails(h)
  PROVE  PhaseInv'
<1>1. HostTypes(h) /\ CallOK(h) /\ GlobalTypes
  BY HostByHost DEF HostOK
<1>2. call[h].pc = "idle" /\ call[h].op = "none"
  BY <1>1 DEF Probe, ProbeFails, CallOK
<1>3. /\ GlobalTypes'
      /\ UNCHANGED <<setting, machine, parkedBy, verdict>>
  <2>1. UNCHANGED <<env, machine, parkedBy, verdict>>
        /\ failures' \in {failures, failures + 1}
        /\ (failures' # failures => failures < MaxFailures)
    BY DEF Probe, ProbeFails
  <2> QED  BY <1>1, <2>1, SettingsAssumption DEF env, GlobalTypes
<1>4. /\ parkedBy' = [parkedBy EXCEPT ![h] = parkedBy'[h]] /\ parkedBy'[h] = parkedBy[h]
      /\ verdict' = [verdict EXCEPT ![h] = verdict'[h]] /\ verdict'[h] = verdict[h]
      /\ machine' = [machine EXCEPT ![h] = machine'[h]] /\ machine'[h] = machine[h]
  BY <1>3, Same
<1>5. CASE ProbeFails(h)
  <2>1. UNCHANGED call /\ status' = [status EXCEPT ![h].state = "Unhealthy"]
    BY <1>5 DEF ProbeFails
  <2>2. /\ status' = [status EXCEPT ![h] = status'[h]] /\ status'[h] \in StatusType
        /\ status'[h].state = "Unhealthy"
    BY <2>1, StateWritten, Zenon DEF States
  <2>3. OnlyHost(h)
    BY <1>3, <1>4, <2>1, <2>2, Same DEF OnlyHost, CallOf
  <2>4. CallOK(h)'
    BY <1>1, <1>2, <2>1, <2>2 DEF CallOK
  <2>5. HostTypes(h)'
    BY <1>1, <1>2, <1>4, <2>1, <2>2 DEF HostTypes
  <2> QED  BY <1>3, <2>3, <2>4, <2>5, OneHost DEF HostOK
<1>6. CASE Probe(h)
  <2> DEFINE pin == IF status[h].pin = NoKey THEN machine[h].key ELSE status[h].pin
             zombie == machine[h].kubelet = "active"
             guarded == zombie /\ status[h].installed # 0
             state == IF guarded THEN "Leaving"
                      ELSE IF zombie THEN "Unhealthy" ELSE "Available"
  <2>1. /\ status' = [status EXCEPT ![h].pin = pin, ![h].state = state]
        /\ guarded => call' = [call EXCEPT ![h] = Begun("guard", "leave")]
        /\ ~guarded => call' = call
    BY <1>6 DEF Probe, Begun
  <2>2. pin \in Keys
    BY <1>1 DEF HostTypes, StatusType, MachineType
  <2>3. /\ state \in States /\ (guarded <=> state = "Leaving")
        /\ state \notin {"Claimed", "InUse"}
    BY DEF States
  <2> HIDE DEF pin, guarded, state
  <2>4. /\ status' = [status EXCEPT ![h] = status'[h]] /\ status'[h] \in StatusType
        /\ status'[h].state = state /\ status'[h].pin = pin
    BY <2>1, <2>2, <2>3, KeyWritten, Zenon
  <2>5. pin # NoKey
    BY <2>2, SettingsAssumption
  <2>6. CASE guarded
    <3>1. call'[h] = Begun("guard", "leave") /\ call' = [call EXCEPT ![h] = call'[h]]
      BY <2>1, <2>6, MapTypes
    <3>2. OnlyHost(h)
      BY <1>3, <1>4, <2>4, <3>1 DEF OnlyHost, CallOf
    <3>3. "guard" \in Ops \ {"none", "probe"} /\ "leave" \in Phases
      BY DEF Ops, Phases
    <3>4. HostOK(h)'
      BY <1>1, <1>4, <2>3, <2>4, <2>5, <2>6, <3>1, <3>2, <3>3, StartOK DEF HostTypes
    <3> QED  BY <1>3, <3>2, <3>4, OneHost
  <2>7. CASE ~guarded
    <3>1. UNCHANGED call
      BY <2>1, <2>7
    <3>2. OnlyHost(h)
      BY <1>3, <1>4, <2>4, <3>1, Same DEF OnlyHost, CallOf
    <3>3. CallOK(h)'
      BY <1>1, <1>2, <2>3, <2>4, <2>5, <2>7, <3>1 DEF CallOK
    <3>4. HostTypes(h)'
      BY <1>1, <1>2, <1>4, <2>3, <2>4, <2>7, <3>1 DEF HostTypes
    <3> QED  BY <1>3, <3>2, <3>3, <3>4, OneHost DEF HostOK
  <2> QED  BY <2>6, <2>7
<1> QED  BY <1>5, <1>6

\* A probe may wait for its session, with nothing else of the host touched.
LEMMA ProbeStallsStep ==
  ASSUME PhaseInv, NEW h \in Hosts, ProbeStalls(h)
  PROVE  PhaseInv'
<1> DEFINE c == [NoCall EXCEPT !.op = "probe", !.pc = "open", !.stuck = TRUE]
<1>1. HostTypes(h) /\ CallOK(h)
  BY HostByHost DEF HostOK
<1>2. GlobalTypes' /\ UNCHANGED <<setting, status, machine, parkedBy, verdict>>
  BY SettingsAssumption DEF ProbeStalls, env, PhaseInv, TypeOK, GlobalTypes
<1>3. call[h].op = "none" /\ call' = [call EXCEPT ![h] = c]
  BY <1>1 DEF ProbeStalls, CallOK
<1>4. c.op = "probe" /\ c.pc = "open" /\ c.stuck
  BY DEF NoCall
<1>5. c \in CallType
  BY Zenon DEF NoCall, CallType, Phases, Running, Credentials, Ops
<1> HIDE DEF c
<1>6. call'[h] = c /\ call' = [call EXCEPT ![h] = call'[h]]
  BY <1>3, MapTypes
<1>7. OnlyHost(h)
  BY <1>2, <1>6, Same DEF OnlyHost, CallOf
<1>8. CallOK(h)'
  BY <1>1, <1>2, <1>3, <1>4, <1>6, Zenon DEF CallOK
<1>9. HostTypes(h)'
  BY <1>1, <1>2, <1>3, <1>4, <1>5, <1>6, Zenon DEF HostTypes
<1> QED  BY <1>2, <1>7, <1>8, <1>9, OneHost DEF HostOK

\* Moving a call on is good for the host if what the next step rests on holds.
LEMMA GotoOK ==
  ASSUME PhaseInv, NEW h \in Hosts, NEW pc \in {"check", "dial", "open", "session"},
         Goto(h, pc), UNCHANGED <<setting, machine>>,
         call[h].pc \in {"token", "check", "dial", "open"}, call[h].op # "probe",
         pc = "check" => call[h].pc = "token",
         pc = "dial" => RunPhase(h, call[h].prof, call[h].phase) = "none"
                        /\ call[h].cred = "ok",
         pc = "open" => call[h].pc = "dial" /\ PinAccepts(call[h].pin, h),
         pc = "session" => call[h].pc = "open"
  PROVE  OnlyHost(h) /\ HostOK(h)'
<1>1. HostTypes(h) /\ CallOK(h)
  BY HostByHost DEF HostOK
<1>2. /\ call' = [call EXCEPT ![h] = call'[h]] /\ call'[h] = [call[h] EXCEPT !.pc = pc]
      /\ UNCHANGED <<status, parkedBy, verdict>>
  BY MapTypes DEF Goto
<1>3. OnlyHost(h)
  BY <1>2, Same DEF OnlyHost, CallOf
<1>4. pc \in Running
  BY DEF Running
<1>5. /\ call'[h] \in CallType /\ call'[h].pc = pc /\ call'[h].op = call[h].op
      /\ call'[h].phase = call[h].phase /\ call'[h].prof = call[h].prof
      /\ call'[h].pin = call[h].pin /\ call'[h].cred = call[h].cred
  BY <1>1, <1>2, <1>4 DEF HostTypes, CallType
<1>6. EffectivePin(h)' = EffectivePin(h)
  BY <1>2 DEF EffectivePin
<1>7. \A p, phase : RunPhase(h, p, phase)' = RunPhase(h, p, phase)
  BY DEF RunPhase, RunVerifiedPhase, Verified, Marshals
<1>8. \A k : PinAccepts(k, h)' <=> PinAccepts(k, h)
  BY DEF PinAccepts
<1>11. call'[h].stuck = call[h].stuck
  BY <1>1, <1>2 DEF HostTypes, CallType
<1>12. call'[h].stuck => call'[h].pc \in {"dial", "open", "session"}
  <2>1. ~call[h].stuck \/ pc \in {"dial", "open", "session"}
    BY <1>1 DEF CallOK
  <2> QED  BY <1>5, <1>11, <2>1
<1>9. CallOK(h)'
  BY <1>1, <1>2, <1>5, <1>6, <1>7, <1>8, <1>12 DEF CallOK
<1>10. HostTypes(h)'
  BY <1>1, <1>2, <1>5 DEF HostTypes
<1> QED  BY <1>3, <1>9, <1>10 DEF HostOK

\* Failures are counted up to their bound; nothing else global is a call's.
LEMMA GlobalKept ==
  ASSUME PhaseInv, UNCHANGED env,
         UNCHANGED failures \/ (failures < MaxFailures /\ failures' = failures + 1)
  PROVE  GlobalTypes' /\ UNCHANGED setting
BY SettingsAssumption DEF PhaseInv, TypeOK, GlobalTypes, env

\* A step that ends a phase keeps the invariant.
LEMMA EndStep ==
  ASSUME PhaseInv, NEW h \in Hosts, NEW err \in Errors, End(h, err),
         call[h].pc # "idle", err = "none" => call[h].pc = "session" /\ ~call[h].stuck,
         machine' = [machine EXCEPT ![h] = machine'[h]], machine'[h] \in MachineType,
         GlobalTypes', UNCHANGED setting
  PROVE  PhaseInv'
<1>1. CallOf(h) /\ HostOK(h)'
  BY EndOK
<1> QED  BY <1>1, OneHost DEF OnlyHost

\* The machine as it was, or with another kubelet.
LEMMA MachineKept ==
  ASSUME PhaseInv, NEW h \in Hosts,
         \/ UNCHANGED machine
         \/ \E k \in Kubelets : machine' = [machine EXCEPT ![h].kubelet = k]
  PROVE  /\ machine' = [machine EXCEPT ![h] = machine'[h]] /\ machine'[h] \in MachineType
         /\ machine'[h].key = machine[h].key
BY MapTypes DEF MachineType

\* What a call has read, it works on.
Holding(h, p, pin, cred, phase, pc) ==
  [call[h] EXCEPT !.prof = p, !.pin = pin, !.cred = cred, !.phase = phase, !.pc = pc]
LEMMA HoldingType ==
  ASSUME PhaseInv, NEW h \in Hosts, NEW p \in Profiles, NEW pin \in Keys \cup {NoKey},
         NEW cred \in Credentials, NEW phase \in Phases, NEW pc \in Running
  PROVE  LET c == Holding(h, p, pin, cred, phase, pc) IN
         /\ c \in CallType /\ c.prof = p /\ c.pin = pin /\ c.phase = phase /\ c.pc = pc
         /\ c.op = call[h].op
<1>1. call[h] \in CallType
  BY MapTypes
<1> QED  BY <1>1, Zenon DEF Holding, CallType
LEMMA HoldingFree ==
  ASSUME NEW h \in Hosts, PhaseInv, NEW p, NEW pin, NEW cred, NEW phase, NEW pc,
         ~call[h].stuck
  PROVE  ~Holding(h, p, pin, cred, phase, pc).stuck
<1>1. call[h] \in CallType
  BY MapTypes
<1> QED  BY <1>1 DEF Holding, CallType

LEMMA ReadConfigStep ==
  ASSUME PhaseInv, NEW h \in Hosts, ReadConfig(h)
  PROVE  PhaseInv'
<1>1. HostTypes(h) /\ CallOK(h) /\ GlobalTypes
  BY HostByHost DEF HostOK
<1>2. GlobalTypes' /\ UNCHANGED <<setting, machine>>
  BY GlobalKept DEF ReadConfig
<1>3. machine' = [machine EXCEPT ![h] = machine'[h]] /\ machine'[h] \in MachineType
  BY <1>2, MachineKept
<1> DEFINE launch == call[h].op = "launch"
           err == IF launch THEN LaunchConfig(h) ELSE InstalledConfig(h)
           warm == launch /\ status[h].installed = profile.version
           phase == IF warm THEN "join" ELSE call[h].phase
           pc == IF warm THEN "token" ELSE "check"
<1>4. err \in Errors
  BY ErrorTypes
<1>5. CASE err # "none" /\ End(h, err)
  <2>1. call[h].pc # "idle"
    BY DEF ReadConfig
  <2> HIDE DEF err
  <2> QED  BY <1>2, <1>3, <1>4, <1>5, <2>1, EndStep
<1>6. CASE err = "none" /\ call' = [call EXCEPT ![h] = Holding(h, profile, EffectivePin(h), creds[h], phase, pc)]
           /\ UNCHANGED <<status, parkedBy, verdict>>
  <2>1. profile \in Profiles
    BY <1>1, <1>6 DEF GlobalTypes, LaunchConfig, InstalledConfig
  <2>2. EffectivePin(h) \in Keys \cup {NoKey} /\ creds[h] \in Credentials
    BY <1>1, SettingsAssumption DEF GlobalTypes, HostTypes, StatusType, EffectivePin, SettingType
  <2>3. phase \in Phases /\ pc \in Running /\ pc \in {"token", "check"}
    BY <1>1 DEF HostTypes, CallType, Phases, Running
  <2>4. profile.version # 0
    BY <2>1, SettingsAssumption DEF ProfileType
  <2>5. /\ call[h].op = "launch" => phase \in {"install", "join"}
        /\ call[h].op # "launch" => phase = call[h].phase
        /\ call[h].op = "launch" /\ phase = "join" => status[h].installed # 0
    BY <1>1, <2>4 DEF CallOK
  <2>6. call[h].pc = "read" /\ ~call[h].stuck /\ call[h].op # "none"
    BY <1>1 DEF ReadConfig, CallOK
  <2> HIDE DEF phase, pc, err
  <2>7. /\ call'[h] = Holding(h, profile, EffectivePin(h), creds[h], phase, pc)
        /\ call' = [call EXCEPT ![h] = call'[h]]
    BY <1>6, MapTypes
  <2>8. /\ call'[h] \in CallType /\ call'[h].prof = profile /\ call'[h].pin = EffectivePin(h)
        /\ call'[h].phase = phase /\ call'[h].pc = pc /\ call'[h].op = call[h].op
    BY <2>1, <2>2, <2>3, <2>7, HoldingType
  <2>9. ~call'[h].stuck
    BY <2>6, <2>7, HoldingFree
  <2>10. OnlyHost(h)
    BY <1>2, <1>3, <1>6, <2>7, Same DEF OnlyHost, CallOf
  <2>11. EffectivePin(h)' = EffectivePin(h)
    BY <1>2, <1>6 DEF EffectivePin
  <2>12. CallOK(h)'
    BY <1>1, <1>6, <2>1, <2>3, <2>5, <2>6, <2>8, <2>9, <2>11, Zenon DEF CallOK
  <2>13. HostTypes(h)'
    BY <1>1, <1>2, <1>6, <2>8, Zenon DEF HostTypes
  <2> QED  BY <1>2, <2>10, <2>12, <2>13, OneHost DEF HostOK
<1> QED
  BY <1>5, <1>6, MapTypes, Zenon DEF ReadConfig, Holding

LEMMA TokenStep ==
  ASSUME PhaseInv, NEW h \in Hosts, Token(h)
  PROVE  PhaseInv'
<1>1. GlobalTypes' /\ UNCHANGED <<setting, machine>> /\ call[h].pc = "token"
      /\ call[h].op # "probe"
  BY GlobalKept, HostByHost DEF Token, HostOK, CallOK
<1>2. machine' = [machine EXCEPT ![h] = machine'[h]] /\ machine'[h] \in MachineType
  BY <1>1, MachineKept
<1>3. CASE End(h, "api")
  BY <1>1, <1>2, <1>3, EndStep DEF Errors
<1>4. CASE Goto(h, "check")
  BY <1>1, <1>4, GotoOK, OneHost
<1> QED  BY <1>3, <1>4 DEF Token

LEMMA CheckStep ==
  ASSUME PhaseInv, NEW h \in Hosts, Check(h)
  PROVE  PhaseInv'
<1>1. GlobalTypes' /\ UNCHANGED <<setting, machine>> /\ call[h].pc = "check"
      /\ call[h].op # "probe"
  BY GlobalKept, HostByHost DEF Check, HostOK, CallOK
<1>2. machine' = [machine EXCEPT ![h] = machine'[h]] /\ machine'[h] \in MachineType
  BY <1>1, MachineKept
<1>3. ASSUME NEW err \in Errors \ {"none"}, End(h, err) PROVE PhaseInv'
  BY <1>1, <1>2, <1>3, EndStep
<1>4. CASE /\ RunPhase(h, call[h].prof, call[h].phase) = "none" /\ call[h].cred = "ok"
           /\ Goto(h, "dial")
  BY <1>1, <1>4, GotoOK, OneHost
<1>5. RunPhase(h, call[h].prof, call[h].phase) \in Errors /\ "local" \in Errors \ {"none"}
  BY ErrorTypes DEF Errors
<1> QED  BY <1>3, <1>4, <1>5 DEF Check

LEMMA DialStep ==
  ASSUME PhaseInv, NEW h \in Hosts, Dial(h)
  PROVE  PhaseInv'
<1>1. GlobalTypes' /\ UNCHANGED <<setting, machine>> /\ call[h].pc = "dial"
      /\ call[h].op # "probe"
  BY GlobalKept, HostByHost DEF Dial, HostOK, CallOK
<1>2. machine' = [machine EXCEPT ![h] = machine'[h]] /\ machine'[h] \in MachineType
  BY <1>1, MachineKept
<1>3. CASE End(h, "remote")
  BY <1>1, <1>2, <1>3, EndStep DEF Errors
<1>4. CASE PinAccepts(call[h].pin, h) /\ Goto(h, "open")
  BY <1>1, <1>4, GotoOK, OneHost
<1> QED  BY <1>3, <1>4 DEF Dial

LEMMA OpenStep ==
  ASSUME PhaseInv, NEW h \in Hosts, Open(h) \/ StallEnds(h)
  PROVE  PhaseInv'
<1>1. GlobalTypes' /\ UNCHANGED <<setting, machine>> /\ call[h].pc = "open"
  BY GlobalKept DEF Open, StallEnds, Stalled
<1>2. machine' = [machine EXCEPT ![h] = machine'[h]] /\ machine'[h] \in MachineType
  BY <1>1, MachineKept
<1>3. CASE End(h, "remote")
  BY <1>1, <1>2, <1>3, EndStep DEF Errors
<1>4. CASE call[h].op # "probe" /\ Goto(h, "session")
  BY <1>1, <1>4, GotoOK, OneHost
<1>5. Open(h) => call[h].op # "probe"
  BY HostByHost, Zenon DEF Open, HostOK, CallOK
<1> QED  BY <1>3, <1>4, <1>5 DEF Open, StallEnds

\* What a script may leave of the kubelet is a kubelet's state.
LEMMA KubeletType ==
  ASSUME PhaseInv, NEW h \in Hosts, NEW phase, NEW done \in BOOLEAN
  PROVE  Kubelet(h, phase, done) \subseteq Kubelets /\ machine[h].kubelet \in Kubelets
<1>1. machine[h].kubelet \in Kubelets
  BY MapTypes DEF MachineType
<1> QED  BY <1>1 DEF Kubelet, Kubelets

LEMMA SessionStep ==
  ASSUME PhaseInv, NEW h \in Hosts, Session(h)
  PROVE  PhaseInv'
<1>1. call[h].pc = "session" /\ ~call[h].stuck
  BY DEF Session
<1>2. GlobalTypes' /\ UNCHANGED setting
  BY GlobalKept DEF Session
<1>3. /\ machine' = [machine EXCEPT ![h] = machine'[h]] /\ machine'[h] \in MachineType
  <2>1. \/ UNCHANGED machine
        \/ \E done \in BOOLEAN : \E k \in Kubelet(h, call[h].phase, done) :
             machine' = [machine EXCEPT ![h].kubelet = k]
    BY DEF Session
  <2>2. UNCHANGED machine \/ \E k \in Kubelets : machine' = [machine EXCEPT ![h].kubelet = k]
    BY <2>1, KubeletType
  <2> QED  BY <2>2, MachineKept
<1>4. \E err \in Errors : End(h, err)
  <2>1. Refusal(h) \in Errors /\ "none" \in Errors /\ "remote" \in Errors
    BY ErrorTypes DEF Errors
  <2> QED  BY <2>1 DEF Session
<1> QED  BY <1>1, <1>2, <1>3, <1>4, EndStep

LEMMA DeadlineStep ==
  ASSUME PhaseInv, NEW h \in Hosts, Deadline(h)
  PROVE  PhaseInv'
<1>1. call[h].pc \in {"dial", "session"}
  BY DEF Deadline
<1>2. GlobalTypes' /\ UNCHANGED setting
  BY GlobalKept DEF Deadline
<1>3. machine' = [machine EXCEPT ![h] = machine'[h]] /\ machine'[h] \in MachineType
  <2>1. \E k \in Kubelets : machine' = [machine EXCEPT ![h].kubelet = k]
    BY KubeletType, Zenon DEF Deadline
  <2> QED  BY <2>1, MachineKept, Zenon
<1> QED  BY <1>1, <1>2, <1>3, EndStep DEF Errors, Deadline

LEMMA HangStep ==
  ASSUME PhaseInv, NEW h \in Hosts, Hang(h)
  PROVE  PhaseInv'
<1>1. HostTypes(h) /\ CallOK(h)
  BY HostByHost DEF HostOK
<1>2. GlobalTypes' /\ UNCHANGED <<setting, status, machine, parkedBy, verdict>>
  BY GlobalKept DEF Hang
<1>3. call' = [call EXCEPT ![h] = call'[h]] /\ call'[h] = [call[h] EXCEPT !.stuck = TRUE]
  BY MapTypes DEF Hang
<1>4. /\ call'[h] \in CallType /\ call'[h].pc = call[h].pc /\ call'[h].op = call[h].op
      /\ call'[h].phase = call[h].phase /\ call'[h].prof = call[h].prof
      /\ call'[h].pin = call[h].pin /\ call'[h].cred = call[h].cred
  BY <1>1, <1>3, Zenon DEF HostTypes, CallType
<1>5. OnlyHost(h)
  BY <1>2, <1>3, Same DEF OnlyHost, CallOf
<1>6. EffectivePin(h)' = EffectivePin(h)
  BY <1>2 DEF EffectivePin
<1>7. \A p, phase : RunPhase(h, p, phase)' = RunPhase(h, p, phase)
  BY <1>2 DEF RunPhase, RunVerifiedPhase, Verified, Marshals
<1>8. \A k : PinAccepts(k, h)' <=> PinAccepts(k, h)
  BY <1>2 DEF PinAccepts
<1>9. call'[h].pc \in {"dial", "open", "session"} /\ call[h].op # "probe"
  BY <1>1, <1>4 DEF Hang, CallOK
<1>10. CallOK(h)'
  BY <1>1, <1>2, <1>4, <1>6, <1>7, <1>8, <1>9, Zenon DEF CallOK
<1>11. HostTypes(h)'
  BY <1>1, <1>2, <1>4, Zenon DEF HostTypes
<1> QED  BY <1>2, <1>5, <1>10, <1>11, OneHost DEF HostOK

\* The operator, the machines and the class controller: no call changes, and a
\* connection keeps its machine.
LEMMA EnvironmentStep ==
  ASSUME PhaseInv,
         \/ Reconcile \/ EditProfile
         \/ \E h \in Hosts : EditCredentials(h) \/ ReplaceMachine(h) \/ KubeletStarts(h)
  PROVE  PhaseInv'
<1>1. UNCHANGED <<setting, status, call, parkedBy, verdict>>
  BY DEF Reconcile, EditProfile, EditCredentials, ReplaceMachine, KubeletStarts, env
<1>2. GlobalTypes /\ \A h \in Hosts : HostTypes(h) /\ CallOK(h)
  BY HostByHost DEF HostOK
<1>3. GlobalTypes'
  <2>1. CASE Reconcile
    <3>1. ready' \in BOOLEAN
      BY <2>1 DEF Reconcile
    <3> QED  BY <1>2, <2>1, <3>1 DEF Reconcile, GlobalTypes
  <2>2. CASE ~Reconcile
    BY <1>2, <2>2, SettingsAssumption DEF EditProfile, EditCredentials,
         ReplaceMachine, KubeletStarts, env, Edit, GlobalTypes
  <2> QED  BY <2>1, <2>2
<1> DEFINE Kept == \A h \in Hosts : call[h].pc \in {"open", "session"} =>
                                      machine'[h].key = machine[h].key
<1>4. machine' \in [Hosts -> MachineType] /\ Kept
  <2>1. CASE UNCHANGED machine
    BY <2>1, MapTypes
  <2>2. ASSUME NEW g \in Hosts, KubeletStarts(g) PROVE machine' \in [Hosts -> MachineType] /\ Kept
    BY <2>2, MapTypes DEF KubeletStarts, MachineType, Kubelets
  <2>3. ASSUME NEW g \in Hosts, ReplaceMachine(g) PROVE machine' \in [Hosts -> MachineType] /\ Kept
    BY <2>3, MapTypes DEF ReplaceMachine, MachineType, Kubelets
  <2> QED
    BY <2>1, <2>2, <2>3 DEF Reconcile, EditProfile, EditCredentials
<1>5. ASSUME NEW h \in Hosts PROVE CallOK(h)' /\ HostTypes(h)'
  <2>1. EffectivePin(h)' = EffectivePin(h)
    BY <1>1 DEF EffectivePin
  <2>2. \A p, phase : RunPhase(h, p, phase)' = RunPhase(h, p, phase)
    BY <1>1 DEF RunPhase, RunVerifiedPhase, Verified, Marshals
  <2>3. call[h].pc \in {"open", "session"} => (PinAccepts(call[h].pin, h)' <=> PinAccepts(call[h].pin, h))
    BY <1>1, <1>4 DEF PinAccepts
  <2>4. CallOK(h)'
    BY <1>1, <1>2, <2>1, <2>2, <2>3 DEF CallOK
  <2>5. HostTypes(h)'
    BY <1>1, <1>2, <1>4, Zenon DEF HostTypes
  <2> QED  BY <2>4, <2>5
<1>6. TypeOK'
  BY <1>1, <1>3, <1>4, <1>5, Zenon DEF PhaseInv, TypeOK, GlobalTypes, HostTypes, MachineType
<1> QED  BY <1>5, <1>6 DEF PhaseInv

LEMMA InitInv == Init => PhaseInv
<1> SUFFICES ASSUME Init PROVE PhaseInv
  OBVIOUS
<1>1. ASSUME NEW h \in Hosts PROVE CallOK(h)
  BY SettingsAssumption DEF Init, CallOK, NoCall
<1>2. NoCall \in CallType
  BY DEF NoCall, CallType, Phases, Running, Credentials, Ops
<1>3. /\ call \in [Hosts -> CallType] /\ \A h \in Hosts : call[h].op = "none"
  BY <1>2 DEF Init, NoCall
<1>4. /\ status \in [Hosts -> StatusType] /\ \A h \in Hosts : status[h].state = "Pending"
  BY DEF Init, StatusType, States
<1>5. GlobalTypes
  <2>1. ready \in BOOLEAN
    BY Zenon DEF Init
  <2>2. profile \in Profiles /\ setting \in [Hosts -> Settings]
    BY DEF Init
  <2>3. creds \in [Hosts -> Credentials]
    BY DEF Init, Credentials
  <2>4. edits \in 0 .. MaxEdits /\ failures \in 0 .. MaxFailures
    BY SettingsAssumption DEF Init
  <2> QED  BY <2>1, <2>2, <2>3, <2>4 DEF GlobalTypes
<1>6. /\ machine \in [Hosts -> MachineType] /\ parkedBy \in [Hosts -> Errors]
      /\ verdict \in [Hosts -> {"none", "started", "failed", "retry"}]
  <2>1. [key : Keys, kubelet : {"off"}] \subseteq MachineType
    BY DEF MachineType, Kubelets
  <2>2. machine \in [Hosts -> [key : Keys, kubelet : {"off"}]]
    BY DEF Init
  <2>3. machine \in [Hosts -> MachineType]
    BY <2>1, <2>2
  <2> QED  BY <2>3 DEF Init, Errors
<1>7. TypeOK
  BY <1>3, <1>4, <1>5, <1>6 DEF TypeOK, GlobalTypes, CallType, StatusType, MachineType
<1> QED  BY <1>1, <1>7 DEF PhaseInv

LEMMA StepInv == PhaseInv /\ [Next]_vars => PhaseInv'
<1> SUFFICES ASSUME PhaseInv, [Next]_vars PROVE PhaseInv'
  OBVIOUS
<1>1. CASE UNCHANGED vars
  <2>1. TypeOK'
    BY <1>1 DEF vars, PhaseInv, TypeOK
  <2>2. \A h \in Hosts : HostOK(h)'
    BY <1>1, HostByHost, Untouched DEF vars
  <2> QED  BY <2>1, <2>2 DEF PhaseInv, HostOK
<1>2. CASE Next
  BY <1>2, StartStep, ProbeStep, ProbeStallsStep, ReadConfigStep, TokenStep, CheckStep,
     DialStep, OpenStep, SessionStep, DeadlineStep, HangStep, EnvironmentStep DEF Next
<1> QED  BY <1>1, <1>2

LEMMA PhaseInvariance == Spec => []PhaseInv
BY InitInv, StepInv, PTL DEF Spec

-----------------------------------------------------------------------------
(* What the invariant says of the scripts that run, of the machines they   *)
(* run on and of whom a failure blames.                                    *)

\* Types; and a host is Claimed exactly while a launch is in progress on it,
\* Leaving exactly while the zombie guard is.
THEOREM TypeCorrect == Spec => []TypeOK
<1>1. PhaseInv => TypeOK  BY DEF PhaseInv
<1> QED  BY <1>1, PhaseInvariance, PTL

\* What is known of the profile and the settings of a call in progress.
LEMMA CallTypes ==
  ASSUME PhaseInv, NEW h \in Hosts, call[h].prof \in Profiles
  PROVE  /\ call[h].prof \in ProfileType /\ call[h].phase \in Phases
         /\ call[h].prof.script[call[h].phase] \in ScriptKinds
         /\ call[h].prof.sig[call[h].phase] \in Signatures
         /\ setting[h] \in SettingType
<1>1. call[h].prof \in ProfileType /\ call[h].phase \in Phases
  BY MapTypes, SettingsAssumption DEF CallType
<1>2. setting[h] \in SettingType
  BY HostByHost, SettingsAssumption DEF GlobalTypes
<1> QED  BY <1>1, <1>2 DEF ProfileType

\* Only scripts sent as they were signed reach the shim of a Verified host, and
\* a shim that trusts whom the controller trusts refuses none of them
\* (runVerifiedPhase and the shim's verify).
THEOREM SignedScriptsOnly == Spec => []VerifiedRunsSigned
<1>1. PhaseInv => VerifiedRunsSigned
  <2> SUFFICES ASSUME PhaseInv, NEW h \in Hosts, Verified(h), call[h].pc = "session"
               PROVE  LET p == call[h].prof  ph == call[h].phase  s == setting[h] IN
                      /\ p.script[ph] = "plain" /\ p.sig[ph] # "none"
                      /\ s.trusted # {} /\ s.trusted \subseteq s.allowed =>
                           Shim(h, p, ph) = "none" \/ (ph = "reboot" /\ s.shim = "old")
    BY DEF VerifiedRunsSigned
  <2>1. /\ RunVerifiedPhase(h, call[h].prof, call[h].phase) = "none"
        /\ call[h].prof \in Profiles
    BY HostByHost DEF HostOK, CallOK, RunPhase
  <2>2. /\ call[h].prof.script[call[h].phase] \in ScriptKinds
        /\ setting[h].shim \in {"old", "new"}
    BY <2>1, CallTypes DEF SettingType
  <2> QED  BY <2>1, <2>2 DEF RunVerifiedPhase, HasTemplateActions, VerifySSHSIG, Shim,
                             KnownPhase, ScriptKinds
<1> QED  BY <1>1, PhaseInvariance, PTL

\* Every phase runs on the machine whose key the operator or the first probe
\* pinned, although the pin was read before the connection was made and the
\* machine may be replaced at any time before it (sshHostExec and the host key
\* callback).
THEOREM PinnedMachines == Spec => []PinnedMachineOnly
<1>1. PhaseInv => PinnedMachineOnly
  <2> SUFFICES ASSUME PhaseInv, NEW h \in Hosts, call[h].pc = "session"
               PROVE  machine[h].key = EffectivePin(h)
    BY DEF PinnedMachineOnly, EffectivePin
  <2>1. HostTypes(h) /\ CallOK(h)
    BY HostByHost DEF HostOK
  <2>2. status[h].pin # NoKey
    BY <2>1 DEF HostTypes, CallOK, CallType, Ops
  <2> QED  BY <2>1, <2>2 DEF CallOK, PinAccepts, EffectivePin
<1> QED  BY <1>1, PhaseInvariance, PTL

-----------------------------------------------------------------------------
\* Which steps end a phase, and with which error.
Ends(h, err) ==
  \/ /\ call[h].pc = "read"
     /\ err = IF call[h].op = "launch" THEN LaunchConfig(h) ELSE InstalledConfig(h)
     /\ err # "none"
  \/ call[h].pc = "token" /\ err = "api" /\ failures' # failures
  \/ /\ call[h].pc = "check"
     /\ \/ err = RunPhase(h, call[h].prof, call[h].phase) /\ err # "none"
        \/ err = "local" /\ call[h].cred = "unparsable"
  \/ /\ call[h].pc = "dial" /\ err = "remote"
     /\ ~PinAccepts(call[h].pin, h) \/ failures' # failures
  \/ call[h].pc = "open" /\ err = "remote" /\ failures' # failures
  \/ call[h].pc = "session" /\ err = Refusal(h) /\ err # "none"
  \/ /\ call[h].pc = "session" /\ Refusal(h) = "none"
     /\ err = "none" \/ (err = "remote" /\ failures' # failures)
  \/ call[h].stuck /\ call[h].pc # "read" /\ err = "remote"

\* Every step ends a phase in one of these ways, or it is a step in which no
\* call ends.
LEMMA HowCallsEnd ==
  ASSUME PhaseInv, Next
  PROVE  \/ \E h \in Hosts, err \in Errors : End(h, err) /\ Ends(h, err) /\ UNCHANGED setting
         \/ \A g \in Hosts : call[g].op # "none" => call'[g].op = call[g].op
<1> DEFINE Quiet == \A g \in Hosts : call[g].op # "none" => call'[g].op = call[g].op
           Ended == \E h \in Hosts, err \in Errors :
                      End(h, err) /\ Ends(h, err) /\ UNCHANGED setting
<1>1. failures \in Nat
  BY DEF PhaseInv, TypeOK
<1>2. ASSUME NEW h \in Hosts, \/ Launch(h) \/ Delete(h) \/ Reboot(h)
                              \/ Probe(h) \/ ProbeFails(h) \/ ProbeStalls(h)
      PROVE  Quiet
  <2>1. call[h].op = "none"
    BY <1>2, HostByHost DEF HostOK, CallOK, Launch, Delete, Reboot, Start, Probe,
                            ProbeFails, ProbeStalls
  <2>2. \A g \in Hosts : g # h => call'[g] = call[g]
    BY <1>2, MapTypes DEF Launch, Delete, Reboot, Start, Probe, ProbeFails, ProbeStalls
  <2> QED  BY <2>1, <2>2
<1>3. ASSUME NEW h \in Hosts, NEW pc, Goto(h, pc) PROVE Quiet
  BY <1>3, MapTypes DEF Goto, CallType
<1>4. ASSUME NEW h \in Hosts, Hang(h) PROVE Quiet
  BY <1>4, MapTypes DEF Hang, CallType
<1>5. ASSUME NEW h \in Hosts, ReadConfig(h) PROVE Ended \/ Quiet
  <2> DEFINE err == IF call[h].op = "launch" THEN LaunchConfig(h) ELSE InstalledConfig(h)
  <2>1. err \in Errors
    BY ErrorTypes
  <2>2. CASE err # "none" /\ End(h, err)
    BY <1>5, <2>1, <2>2 DEF ReadConfig, Ends, env
  <2>3. CASE ~(err # "none" /\ End(h, err))
    BY <1>5, <2>3, MapTypes DEF ReadConfig, CallType
  <2> QED  BY <2>2, <2>3
<1>6. ASSUME NEW h \in Hosts, Token(h) PROVE Ended \/ Quiet
  BY <1>1, <1>3, <1>6 DEF Token, Ends, Errors, env
<1>7. ASSUME NEW h \in Hosts, Check(h) PROVE Ended \/ Quiet
  BY <1>3, <1>7, ErrorTypes DEF Check, Ends, Errors, env
<1>8. ASSUME NEW h \in Hosts, Dial(h) PROVE Ended \/ Quiet
  BY <1>1, <1>3, <1>8 DEF Dial, Ends, Errors, env
<1>14. ASSUME NEW h \in Hosts, Open(h) \/ StallEnds(h) PROVE Ended \/ Quiet
  BY <1>1, <1>3, <1>14 DEF Open, StallEnds, Stalled, Ends, Errors, env
<1>9. ASSUME NEW h \in Hosts, Session(h) PROVE Ended
  BY <1>1, <1>9, ErrorTypes DEF Session, Ends, Errors, env
<1>10. ASSUME NEW h \in Hosts, Deadline(h) PROVE Ended
  <2>1. call[h].pc # "read"
    BY <1>10 DEF Deadline
  <2> QED  BY <1>10, <2>1 DEF Deadline, Ends, Errors, env
<1>11. ASSUME NEW h \in Hosts, EditCredentials(h) \/ ReplaceMachine(h) \/ KubeletStarts(h)
       PROVE  Quiet
  BY <1>11 DEF EditCredentials, ReplaceMachine, KubeletStarts
<1>12. ASSUME Reconcile \/ EditProfile PROVE Quiet
  BY <1>12 DEF Reconcile, EditProfile
<1> HIDE DEF Quiet, Ended
<1>13. Ended \/ Quiet
  BY <1>2, <1>4, <1>5, <1>6, <1>7, <1>8, <1>14, <1>9, <1>10, <1>11, <1>12 DEF Next
<1> QED  BY <1>13 DEF Quiet, Ended

-----------------------------------------------------------------------------
\* A launch that is over, is over for its own host and in the state its error
\* gives.
LEMMA EndSettles ==
  ASSUME PhaseInv, NEW h \in Hosts, NEW err, End(h, err), NEW g \in Hosts,
         call[g].op = "launch", call[g].pc # "idle", call'[g].pc = "idle", err # "none"
  PROVE  g = h /\ status'[h].state = AfterFailure(err)
<1>1. g = h
  BY MapTypes DEF End, Installed, EndLaunch, EndLeave, EndReboot, Settle
<1>2. EndLaunch(h, err)
  BY <1>1, Zenon DEF End
<1> QED  BY <1>1, <1>2, MapTypes DEF EndLaunch, Settle, StatusType

\* A launch that ends before it dials for its phase gives the host back, but
\* for three reasons: a private key that does not parse, a value with a line
\* break for a Verified host, a bootstrap token that the API refused (launch,
\* join, joinError and Envelope.Marshal).
THEOREM HostFaultsOnly == Spec => OnlyHostFaultsPark
<1> DEFINE Reason(h) == \/ status'[h].state = "Available"
                        \/ call[h].cred = "unparsable"
                        \/ Verified(h) /\ setting[h].secret = "multiLine"
                        \/ call[h].pc = "token" /\ failures' # failures
           Early(h) == call[h].op = "launch" /\ call[h].pc \in {"read", "token", "check"}
                       /\ call'[h].pc = "idle"
           A == \A h \in Hosts : Early(h) => Reason(h)
<1>1. ASSUME PhaseInv, [Next]_vars PROVE [A]_vars
  <2> SUFFICES ASSUME Next, NEW g \in Hosts, Early(g) PROVE Reason(g)
    BY <1>1
  <2>0. CallOK(g) /\ CallOK(g)'
    BY <1>1, StepInv, HostByHost DEF PhaseInv
  <2>1. PICK h \in Hosts, err \in Errors : End(h, err) /\ Ends(h, err)
    BY <1>1, <2>0, HowCallsEnd, Zenon DEF CallOK
  <2>2. g = h /\ err # "none" /\ status'[h].state = AfterFailure(err)
    <3>1. g = h
      BY <1>1, <2>1, MapTypes DEF End, Installed, EndLaunch, EndLeave, EndReboot, Settle
    <3>2. err # "none"
      BY <2>0, <2>1, <3>1, Zenon DEF Ends, CallOK
    <3> QED  BY <1>1, <2>1, <3>1, <3>2, EndSettles
  <2>3. LaunchConfig(h) \in {"none", "config"} /\ ~(call[h].stuck)
    BY <2>0, <2>2, Zenon DEF LaunchConfig, CallOK
  <2>4. \/ RunPhase(h, call[h].prof, call[h].phase) \in {"none", "config"}
        \/ Verified(h) /\ setting[h].secret = "multiLine"
    BY Zenon DEF RunPhase, RunVerifiedPhase, Marshals
  <2> QED  BY <2>1, <2>2, <2>3, <2>4 DEF Ends, AfterFailure
<1> QED  BY <1>1, PhaseInvariance, PTL DEF Spec, OnlyHostFaultsPark

-----------------------------------------------------------------------------
\* A phase that ends, ends the call of its own host; a reboot with its verdict.
LEMMA EndAnswers ==
  ASSUME PhaseInv, NEW h \in Hosts, NEW err, End(h, err), NEW g \in Hosts,
         call[g].op = "reboot", call'[g].op = "none"
  PROVE  g = h /\ verdict'[h] = RebootVerdict(h, err)
<1>1. g = h
  BY MapTypes DEF End, Installed, EndLaunch, EndLeave, EndReboot, Settle
<1>2. EndReboot(h, err)
  BY <1>1 DEF End
<1> QED  BY <1>1, <1>2, MapTypes, Zenon DEF EndReboot

\* Where the reboot cannot run, and where it can.
LEMMA RebootChecked ==
  ASSUME PhaseInv, NEW h \in Hosts, call[h].prof \in Profiles, call[h].phase = "reboot"
  PROVE  LET p == call[h].prof IN
         /\ RunPhase(h, p, "reboot") \in {"none", "config"}
         /\ RunPhase(h, p, "reboot") = "config" => ~RebootCanRun(h, p)
<1> DEFINE p == call[h].prof
<1>1. p.script["reboot"] \in ScriptKinds /\ p.sig["reboot"] \in Signatures
      /\ setting[h] \in SettingType
  BY CallTypes
<1>2. CASE Verified(h)
  <2>1. RunPhase(h, p, "reboot") = RunVerifiedPhase(h, p, "reboot")
    BY <1>2 DEF RunPhase
  <2>2. Marshals(h, "reboot")
    BY DEF Marshals, BareContext
  <2>3. p.sig["reboot"] # "malformed"
    BY <1>1, SettingsAssumption DEF Signatures
  <2>4. setting[h].mode # "Raw" /\ setting[h].allowed \subseteq Signers
    BY <1>1, <1>2 DEF Verified, SettingType
  <2>5. p.sig["reboot"] = "none" => p.sig["reboot"] \notin setting[h].allowed
    BY <2>4, SettingsAssumption
  <2> QED  BY <2>1, <2>2, <2>3, <2>4, <2>5 DEF RunVerifiedPhase, RebootCanRun,
                HasTemplateActions, VerifySSHSIG
<1>3. CASE ~Verified(h)
  BY <1>1, <1>3 DEF RunPhase, Verified, SettingType, Renders, BareContext, RebootCanRun
<1> QED  BY <1>2, <1>3

\* What the shim refuses of a reboot that the controller let through.
LEMMA RebootRefused ==
  ASSUME PhaseInv, NEW h \in Hosts, call[h].pc = "session", call[h].phase = "reboot",
         Refusal(h) # "none"
  PROVE  /\ Verified(h) /\ Refusal(h) \in {"unknownPhase", "remote"}
         /\ Refusal(h) = "unknownPhase" => ~RebootCanRun(h, call[h].prof)
         /\ Refusal(h) = "remote" =>
              setting[h].trusted = {} \/ ~(setting[h].trusted \subseteq setting[h].allowed)
<1>1. /\ call[h].prof \in Profiles
      /\ RunPhase(h, call[h].prof, call[h].phase) = "none"
  BY HostByHost DEF HostOK, CallOK
<1>2. Verified(h) /\ Refusal(h) = Shim(h, call[h].prof, "reboot")
  BY DEF Refusal
<1>3. setting[h].trusted # {} => call[h].prof.sig["reboot"] \in setting[h].trusted
  BY <1>1, <1>2 DEF RunPhase, RunVerifiedPhase, VerifySSHSIG
<1>4. setting[h].mode # "Raw"
  BY <1>2 DEF Verified
<1> QED  BY <1>2, <1>3, <1>4 DEF Shim, KnownPhase, RebootCanRun

\* Reboot tells core to replace the node only if no retry can succeed with the
\* profile it read, and asks for no retry that cannot succeed without a reason
\* outside the profile (Reboot, runInstalledPhase).
THEOREM RebootAnswersRight == Spec => RebootVerdictRight
<1> DEFINE A == \A h \in Hosts :
                  call[h].op = "reboot" /\ call'[h].op = "none" => RebootAnswer(h)
<1>1. ASSUME PhaseInv, [Next]_vars PROVE [A]_vars
  <2> SUFFICES ASSUME Next, NEW g \in Hosts, call[g].op = "reboot", call'[g].op = "none"
               PROVE  RebootAnswer(g)
    BY <1>1
  <2>1. PICK h \in Hosts, err \in Errors : End(h, err) /\ Ends(h, err)
    BY <1>1, HowCallsEnd
  <2>2. g = h /\ verdict'[h] = RebootVerdict(h, err)
    BY <1>1, <2>1, EndAnswers
  <2>3. call[h].phase = "reboot" /\ status[h].installed # 0
    BY <1>1, <2>2, HostByHost DEF HostOK, CallOK
  <2>4. call[h].pc \in {"token", "check", "dial", "open", "session"} =>
          call[h].prof \in Profiles
    BY <1>1, <2>2, HostByHost DEF HostOK, CallOK
  <2>5. /\ verdict'[h] = "failed" => err = "config" \/ err = "unknownPhase"
        /\ verdict'[h] = "retry" => err # "none" /\ err # "config"
                                    /\ (Verified(h) => err # "unknownPhase")
    BY <2>2 DEF RebootVerdict
  <2>6. CASE call[h].pc = "read"
    <3>1. err = InstalledConfig(h) /\ err # "none"
      BY <1>1, <2>1, <2>2, <2>6, HostByHost, Zenon DEF Ends, HostOK, CallOK
    <3>2. /\ err = "config" => profile.script["reboot"] = "none"
          /\ err \in {"config", "local"}
          /\ err = "local" => profile = NoProfile \/ creds[h] = "missing"
      BY <2>3, <3>1 DEF InstalledConfig
    <3>3. err = "config" => ~RebootCanRun(h, profile)
      BY <3>2 DEF RebootCanRun
    <3> QED  BY <2>2, <2>5, <2>6, <3>2, <3>3 DEF RebootAnswer
  <2>7. CASE call[h].pc = "check"
    <3>1. \/ err = RunPhase(h, call[h].prof, "reboot") /\ err # "none"
          \/ err = "local" /\ call[h].cred = "unparsable"
          \/ err = "remote" /\ call[h].stuck
      BY <2>1, <2>3, <2>7 DEF Ends
    <3>2. /\ RunPhase(h, call[h].prof, "reboot") \in {"none", "config"}
          /\ RunPhase(h, call[h].prof, "reboot") = "config" => ~RebootCanRun(h, call[h].prof)
      BY <1>1, <2>3, <2>4, <2>7, RebootChecked
    <3> QED  BY <2>2, <2>5, <2>7, <3>1, <3>2 DEF RebootAnswer
  <2>8. CASE call[h].pc = "session" /\ Refusal(h) # "none" /\ err = Refusal(h)
    <3>1. /\ Verified(h) /\ Refusal(h) \in {"unknownPhase", "remote"}
          /\ Refusal(h) = "unknownPhase" => ~RebootCanRun(h, call[h].prof)
          /\ Refusal(h) = "remote" =>
               setting[h].trusted = {} \/ ~(setting[h].trusted \subseteq setting[h].allowed)
      BY <1>1, <2>3, <2>8, RebootRefused
    <3> QED  BY <2>2, <2>5, <2>8, <3>1 DEF RebootAnswer
  <2>9. CASE /\ call[h].pc \notin {"read", "check"}
             /\ ~(call[h].pc = "session" /\ Refusal(h) # "none" /\ err = Refusal(h))
    <3>1. /\ call[h].pc # "read"
          /\ \/ err = "api" /\ failures' # failures
             \/ err = "remote" /\ (~PinAccepts(call[h].pin, h) \/ failures' # failures)
             \/ err = "none"
             \/ err = "remote" /\ call[h].stuck
      BY <2>1, <2>9 DEF Ends
    <3> QED  BY <2>2, <2>5, <3>1 DEF RebootAnswer
  <2> QED  BY <2>6, <2>7, <2>8, <2>9
<1> QED  BY <1>1, PhaseInvariance, PTL DEF Spec, RebootVerdictRight

=============================================================================
