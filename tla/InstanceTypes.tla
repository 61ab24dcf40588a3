---------------------------- MODULE InstanceTypes ----------------------------
(***************************************************************************)
(* Host classes as instance types, and the choice of a host for a launch.  *)
(* List walks the hosts a node class selects and gathers one shape per     *)
(* class; resolveInstanceTypes keeps the types a NodeClaim is compatible   *)
(* with; Create walks them cheapest first and claims a host of the class.  *)
(*                                                                         *)
(* The loop of List is a step per host, so that what it computes is an     *)
(* invariant of the hosts visited so far.  The pool changes while a launch *)
(* is under way: rivals claim hosts, the operator annotates and resizes    *)
(* them.                                                                   *)
(***************************************************************************)
EXTENDS Integers

CONSTANTS
  NHosts,      \* hosts, in order of creation
  HostSpecs,   \* registered hosts: records [class, capacity, arch]
  Requests,    \* what the pods of a NodeClaim ask for: functions of resources
  Archs,       \* architecture requirements a NodeClaim may carry
  AnyArch,     \* no such requirement
  TypeNames,   \* sets of instance types a NodeClaim may be restricted to
  Reserved,    \* kubeReserved, a function of resources
  MaxPods,     \* spec.maxPods, or NoMaxPods
  NoMaxPods,
  DefaultPods, \* defaultMaxPods
  Prices,      \* values of pricePerCPUHour
  BadPrice,    \* one that does not parse
  MaxChanges   \* bound on changes to the pool during a launch

Hosts == 1 .. NHosts
NoHost == 0

ASSUME InstanceTypesBounds == NHosts \in Nat /\ MaxChanges \in Nat

\* Quantities may be zero or negative; the CRD demands cpu and memory.
Quantities(c) == \A r \in DOMAIN c : c[r] \in Int

ASSUME SpecsAssumption ==
  \A s \in HostSpecs : {"cpu", "memory"} \subseteq DOMAIN s.capacity /\ Quantities(s.capacity)
ASSUME NodeClassAssumption ==
  /\ Prices \subseteq Int /\ DefaultPods \in Int /\ Quantities(Reserved)
  /\ MaxPods # NoMaxPods => MaxPods \in Int
ASSUME RequestsAssumption == \A q \in Requests : Quantities(q)

VARIABLES
  pool,     \* the registered hosts: spec, status.state, claim, annotation
  price,    \* pricePerCPUHour of the node class
  request,  \* the NodeClaim: resource requests, architecture, instance types
  listing,  \* the List call: the hosts it read, those visited, classInfo
  launch,   \* the Create call
  steady,   \* history: hosts no one touched since List read them
  changes

vars == <<pool, price, request, listing, launch, steady, changes>>

-----------------------------------------------------------------------------
(* List.                                                                   *)

Classes == {s.class : s \in HostSpecs}

UsableCapacity(c) == c["cpu"] > 0 /\ c["memory"] > 0

\* spec.maxPods if set, else what the host declares, else the default.
WithPods(c) ==
  [r \in DOMAIN c \cup {"pods"} |->
     IF r # "pods" THEN c[r]
     ELSE IF MaxPods # NoMaxPods THEN MaxPods
     ELSE IF "pods" \in DOMAIN c THEN c[r] ELSE DefaultPods]

\* Mutant: every resource either host has.
UnionCapacity(a, b) ==
  [r \in DOMAIN a \cup DOMAIN b |->
     IF r \in DOMAIN a THEN a[r] ELSE b[r]]

\* The per-resource minimum; a resource only one side has is dropped.
MinCapacity(a, b) ==
  [r \in DOMAIN a \cap DOMAIN b |-> IF b[r] < a[r] THEN b[r] ELSE a[r]]

\* The host is free as List counts it: the annotation is not looked at.
Unclaimed(h) == h.available /\ ~h.claimed

\* The architecture of a class, with one more host: the first one probed.
ArchWith(ci, arch) == IF ci.arch = "" THEN arch ELSE ci.arch

\* Mutant: hosts of another architecture go unnoticed.
MixedBefore(ci, arch) == ci.mixed

\* Two probed hosts differ.
MixedWith(ci, arch) == ci.mixed \/ (arch # "" /\ ci.arch # "" /\ ci.arch # arch)

NoInfo == [capacity |-> <<>>, arch |-> "", mixed |-> FALSE, available |-> 0,
           total |-> 0]

\* classInfo with one more host; the first one makes the entry.
AddHost(ci, h) ==
  [capacity  |-> IF ci.total = 0 THEN WithPods(h.capacity)
                 ELSE MinCapacity(ci.capacity, WithPods(h.capacity)),
   arch      |-> ArchWith(ci, h.arch),
   mixed     |-> MixedWith(ci, h.arch),
   available |-> ci.available + (IF Unclaimed(h) THEN 1 ELSE 0),
   total     |-> ci.total + 1]

NotListing == [hosts |-> <<>>, visited |-> {}, classes |-> [c \in Classes |-> NoInfo]]

InstanceType(ci, class) ==
  [name |-> class, arch |-> ci.arch, capacity |-> ci.capacity,
   available |-> ci.available > 0, price |-> price * ci.capacity["cpu"]]

\* What List returns: a class without a probed host, or with hosts of two
\* architectures, has no instance type.
Catalogue ==
  LET info == listing.classes
  IN {InstanceType(info[c], c) :
        c \in {d \in Classes : info[d].arch # "" /\ ~info[d].mixed}}

-----------------------------------------------------------------------------
(* A launch.                                                               *)

\* Allocatable of a type, and resources.Fits.
Fits(need, capacity) ==
  \A r \in DOMAIN need :
     /\ r \in DOMAIN capacity
     /\ need[r] <= capacity[r] - (IF r \in DOMAIN Reserved THEN Reserved[r] ELSE 0)

\* resolveInstanceTypes: the requirements and the requests admit the type.
Compatible(req, t) ==
  /\ t.name \in req.names
  /\ req.arch \in {AnyArch, t.arch}
  /\ Fits(req.resources, t.capacity)

\* Available: unclaimed, and not annotated for maintenance.
Claimable(h) == Unclaimed(pool[h]) /\ ~pool[h].maintenance

Available(class) == {h \in Hosts : Claimable(h) /\ pool[h].class = class}

\* A NodeClaim without a requirement on the instance type names them all.
NoRequest == [resources |-> <<>>, arch |-> AnyArch, names |-> Classes]
NoType == [name |-> "", price |-> 0]
NotStarted == [pc |-> "start", types |-> {}, tried |-> {}, type |-> NoType,
               candidates |-> {}, host |-> NoHost]

Init ==
  /\ pool \in [Hosts -> {[class |-> s.class, capacity |-> s.capacity,
                          arch |-> s.arch, available |-> TRUE, claimed |-> FALSE,
                          maintenance |-> FALSE] : s \in HostSpecs}]
  /\ price \in Prices \cup {BadPrice}
  /\ request = NoRequest
  /\ listing = NotListing
  /\ launch = NotStarted
  /\ steady = Hosts
  /\ changes = 0

\* Create is called for a NodeClaim; List reads the hosts from the cache.
ListHosts ==
  /\ launch.pc = "start"
  /\ launch' = [launch EXCEPT !.pc = "list"]
  /\ listing' = [listing EXCEPT !.hosts = pool]
  /\ steady' = Hosts
  /\ UNCHANGED <<pool, price, request, changes>>

\* One turn of List's loop.  The cache lists hosts in no particular order.
VisitHost ==
  /\ launch.pc = "list"
  /\ \E h \in Hosts \ listing.visited :
       LET host == listing.hosts[h]
       IN listing' = IF ~UsableCapacity(host.capacity)
                     THEN [listing EXCEPT !.visited = @ \cup {h}]
                     ELSE [listing EXCEPT !.visited = @ \cup {h},
                             !.classes[host.class] = AddHost(@, host)]
  /\ UNCHANGED <<pool, price, request, launch, steady, changes>>

\* List returns and resolveInstanceTypes filters for the NodeClaim.  An
\* unparsable price fails List, and with it the launch.
Resolve ==
  /\ launch.pc = "list" /\ listing.visited = Hosts
  /\ listing' = NotListing
  /\ IF price = BadPrice
     THEN launch' = [launch EXCEPT !.pc = "error"] /\ UNCHANGED request
     ELSE \E req \in [resources : Requests, arch : Archs \cup {AnyArch},
                    names : TypeNames \cup {Classes}] :
            LET types == {t \in Catalogue : Compatible(req, t)}
            IN /\ request' = req
               /\ launch' = [launch EXCEPT !.types = types,
                                !.pc = IF types = {} THEN "exhausted" ELSE "next"]
  /\ UNCHANGED <<pool, price, steady, changes>>

\* Mutant: the types come in any order.
NextAny(types) == types

\* sortByPrice: the cheapest types left; those of one price in any order.
Cheapest(types) == {t \in types : \A u \in types : t.price <= u.price}

\* Create takes up the next type and lists the free hosts of its class.
NextType ==
  /\ launch.pc = "next"
  /\ IF launch.types = launch.tried
     THEN launch' = [launch EXCEPT !.pc = "exhausted"]
     ELSE \E t \in Cheapest(launch.types \ launch.tried) :
            launch' = [launch EXCEPT !.pc = "claim", !.type = t, !.tried = @ \cup {t},
                                     !.candidates = Available(t.name)]
  /\ UNCHANGED <<pool, price, request, listing, steady, changes>>

\* Mutant: a lost race ends the walk through the candidates.
GiveUpOnConflict(h) == {}

\* The candidates left after h was lost to a rival.
AfterConflict(h) == launch.candidates \ {h}

\* Claim the next candidate, the oldest first.  The lock may be lost on a host
\* that was touched during the launch: the cache that listed it can be older.
Claim ==
  /\ launch.pc = "claim"
  /\ IF launch.candidates = {}
     THEN /\ launch' = [launch EXCEPT !.pc = "next"]
          /\ UNCHANGED pool
     ELSE \E h \in launch.candidates :
            /\ \A g \in launch.candidates : h <= g
            /\ \/ /\ Claimable(h)
                  /\ pool' = [pool EXCEPT ![h].claimed = TRUE]
                  /\ launch' = [launch EXCEPT !.pc = "claimed", !.host = h]
               \/ /\ h \notin steady
                  /\ launch' = [launch EXCEPT !.candidates = AfterConflict(h)]
                  /\ UNCHANGED pool
  /\ UNCHANGED <<price, request, listing, steady, changes>>

\* Somebody writes a host: a rival claims or releases it, its probe fails or
\* recovers, the operator annotates it or edits its capacity, or its probe only
\* records that it was made, which changes nothing but the resourceVersion.
PoolChanges ==
  /\ changes < MaxChanges
  /\ launch.pc \notin {"claimed", "exhausted", "error"}
  /\ changes' = changes + 1
  /\ \E h \in Hosts :
       /\ \/ UNCHANGED pool
          \/ pool' = [pool EXCEPT ![h].claimed = ~@]
          \/ pool' = [pool EXCEPT ![h].available = ~@]
          \/ pool' = [pool EXCEPT ![h].maintenance = TRUE]
          \/ \E c \in {s.capacity : s \in HostSpecs} : pool' = [pool EXCEPT ![h].capacity = c]
       /\ steady' = steady \ {h}
  /\ UNCHANGED <<price, request, listing, launch>>

Next == ListHosts \/ VisitHost \/ Resolve \/ NextType \/ Claim \/ PoolChanges

Spec == Init /\ [][Next]_vars

-----------------------------------------------------------------------------
(* Properties.                                                             *)

\* The hosts of S that a class's shape and architecture are taken from.
Members(S, class) ==
  {m \in {listing.hosts[h] : h \in S} : m.class = class /\ UsableCapacity(m.capacity)}

\* capacity is the greatest shape that every one of the hosts M delivers.
IsShape(capacity, M) ==
  /\ \A r \in DOMAIN capacity :
       /\ \A m \in M : /\ r \in DOMAIN WithPods(m.capacity)
                       /\ capacity[r] <= WithPods(m.capacity)[r]
       /\ \E m \in M : capacity[r] = WithPods(m.capacity)[r]
  /\ \A m \in M : \A r \in DOMAIN WithPods(m.capacity) :
       (\A n \in M : r \in DOMAIN WithPods(n.capacity)) => r \in DOMAIN capacity

ProbedArchs(M) == {m.arch : m \in M} \ {""}

\* The catalogue is what the pool warrants, whatever order the cache lists the
\* hosts in: a class has an instance type exactly if its probed members agree
\* on an architecture, and the type is the greatest shape every usable member
\* delivers, so that pods packed against it fit whichever host answers the
\* claim; it is available exactly if a member is free (instancetype.go:105).
CatalogueIsExact ==
  launch.pc = "list" /\ listing.visited = Hosts /\ price # BadPrice =>
     /\ {t.name : t \in Catalogue} =
          {c \in Classes : \E a \in ProbedArchs(Members(Hosts, c)) :
                            ProbedArchs(Members(Hosts, c)) = {a}}
     /\ \A t \in Catalogue :
          /\ ProbedArchs(Members(Hosts, t.name)) = {t.arch}
          /\ IsShape(t.capacity, Members(Hosts, t.name))
          /\ t.available <=> \E m \in Members(Hosts, t.name) : Unclaimed(m)

\* A launch reports the pool exhausted, for which core throws the NodeClaim
\* away, only if every free host of a resolved type was written during the
\* launch, whatever was done to the others (instance.go:164).  A probe that
\* records its heartbeat is such a write: it costs the launch a host that was
\* free throughout.  If nobody wrote a host, a type offered as available found
\* none only because List counts a host that is annotated for maintenance
\* (instancetype.go:120).
NoFalseExhaustion ==
  launch.pc = "exhausted" =>
     /\ \A h \in steady : Claimable(h) =>
           pool[h].class \notin {t.name : t \in launch.types}
     /\ steady = Hosts =>
           \A t \in launch.types : t.available =>
              \E h \in Hosts : /\ pool[h].class = t.name
                              /\ Unclaimed(pool[h]) /\ pool[h].maintenance

\* The launch takes the cheapest class: no cheaper type it had resolved has a
\* free host that nobody wrote during the launch (instance.go:149).
CheapestFirst ==
  launch.pc = "claimed" =>
     \A h \in steady \ {launch.host} : Claimable(h) =>
        ~\E t \in launch.types : t.name = pool[h].class /\ t.price < launch.type.price

\* The host a launch ends up with is of a class the NodeClaim allows, can run
\* what it asks for, and no probe saw another architecture on it, if it is one
\* List took the shape from and nobody touched it since List read it
\* (cloudprovider.go:300-306).
LaunchFits ==
  /\ launch.pc = "claimed" /\ launch.host \in steady
  /\ UsableCapacity(pool[launch.host].capacity)
  => /\ pool[launch.host].class \in request.names
     /\ Fits(request.resources, WithPods(pool[launch.host].capacity))
     /\ request.arch = AnyArch \/ pool[launch.host].arch \in {"", request.arch}

=============================================================================
