-------------------------- MODULE MCPhaseExecution --------------------------
(* Finite instances of PhaseExecution for TLC.                             *)
EXTENDS PhaseExecution

CONSTANTS h1, k1, k2

OneHost == {h1}
TwoKeys == {k1, k2}
TwoSigners == {"alice", "bob"}

Profile(v, kind, sig) ==
  [version |-> v, script |-> [ph \in Phases |-> kind], sig |-> [ph \in Phases |-> sig]]
With(p, ph, kind) == [p EXCEPT !.script[ph] = kind]

Signed == Profile(1, "plain", "alice")
Templated == Profile(2, "fields", "none")

\* A signed profile, a templated one, and profiles with one thing wrong.
SomeProfiles ==
  { Signed, Templated,
    With(Signed, "reboot", "none"),
    With(Templated, "leave", "vars"),
    With(Templated, "join", "vars"),
    With(Templated, "install", "broken"),
    With(Signed, "join", "fields"),
    [Signed EXCEPT !.sig["leave"] = "stale"],
    [Signed EXCEPT !.sig["reboot"] = "none"],
    [Signed EXCEPT !.version = 3, !.sig["join"] = "bob"] }

Raw == [mode |-> "Raw", trusted |-> {}, allowed |-> {}, shim |-> "old",
        knownHost |-> NoKey, vars |-> TRUE, secret |-> "oneLine"]
Shimmed == [Raw EXCEPT !.mode = "Verified", !.trusted = {"alice"},
                       !.allowed = {"alice"}, !.shim = "new"]

\* Hosts of both modes, and for each input of a phase one that is wrong.
SomeSettings ==
  { Raw, [Raw EXCEPT !.knownHost = k1], [Raw EXCEPT !.vars = FALSE],
    [Raw EXCEPT !.secret = "clash"], [Raw EXCEPT !.secret = "missing"],
    [Raw EXCEPT !.secret = "multiLine"],
    Shimmed, [Shimmed EXCEPT !.shim = "old"], [Shimmed EXCEPT !.secret = "multiLine"],
    [Shimmed EXCEPT !.trusted = {"malformed"}], [Shimmed EXCEPT !.trusted = {}],
    [Shimmed EXCEPT !.trusted = TwoSigners],
    [Shimmed EXCEPT !.trusted = TwoSigners, !.allowed = TwoSigners] }

\* A Verified host whose class has a secret of several lines.
LineBreak == {[Shimmed EXCEPT !.secret = "multiLine"]}

\* A Raw host and a profile with nothing wrong.
OneRaw == {Raw}
OneProfile == {Templated}

=============================================================================
