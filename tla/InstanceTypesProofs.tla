------------------------ MODULE InstanceTypesProofs -------------------------
(***************************************************************************)
(* What List computes and which host a launch takes, for any hosts, any    *)
(* capacities and requests, and any number of changes to the pool.  The    *)
(* loop of List keeps, for every class, an exact account of the members    *)
(* visited so far; what it says at the end does not mention their order.   *)
(***************************************************************************)
EXTENDS InstanceTypes, TLAPS

Capacities == {s.capacity : s \in HostSpecs}
HostArchs == {s.arch : s \in HostSpecs}

HostRecord == [class : Classes, capacity : Capacities, arch : HostArchs,
               available : BOOLEAN, claimed : BOOLEAN, maintenance : BOOLEAN]

\* arch is that of a probed member, if there is one; mixed says that two differ.
ArchAccount(arch, mixed, M) ==
  /\ IF arch = "" THEN \A m \in M : m.arch = "" ELSE \E m \in M : m.arch = arch
  /\ mixed <=> \E m, n \in M : m.arch # "" /\ n.arch # "" /\ m.arch # n.arch

\* ci is the account of the members M.
Accounts(ci, M) ==
  /\ ci.total \in Nat /\ ci.available \in Nat /\ ci.mixed \in BOOLEAN
  /\ ci.total = 0 <=> M = {}
  /\ M # {} => IsShape(ci.capacity, M)
  /\ ci.available > 0 <=> \E m \in M : Unclaimed(m)
  /\ ArchAccount(ci.arch, ci.mixed, M)

-----------------------------------------------------------------------------
(* The operators of List.                                                  *)

\* The capacity a host delivers has cpu, memory and pods, all of them numbers.
LEMMA PodsType ==
  ASSUME NEW c \in Capacities
  PROVE  /\ DOMAIN WithPods(c) = DOMAIN c \cup {"pods"}
         /\ {"cpu", "memory"} \subseteq DOMAIN WithPods(c)
         /\ \A r \in DOMAIN WithPods(c) : WithPods(c)[r] \in Int
<1>1. {"cpu", "memory"} \subseteq DOMAIN c /\ \A r \in DOMAIN c : c[r] \in Int
  BY SpecsAssumption DEF Capacities, Quantities
<1>2. DOMAIN WithPods(c) = DOMAIN c \cup {"pods"}
  BY DEF WithPods
<1>3. ASSUME NEW r \in DOMAIN WithPods(c)
      PROVE  WithPods(c)[r] \in Int
  <2>1. WithPods(c)[r] = IF r # "pods" THEN c[r]
                         ELSE IF MaxPods # NoMaxPods THEN MaxPods
                         ELSE IF "pods" \in DOMAIN c THEN c[r] ELSE DefaultPods
    BY <1>2, <1>3 DEF WithPods
  <2> QED  BY <1>1, <1>2, <1>3, <2>1, NodeClassAssumption
<1> QED  BY <1>1, <1>2, <1>3

\* The shape of the first member is what it delivers.
LEMMA FirstShape ==
  ASSUME NEW m, m.capacity \in Capacities
  PROVE  IsShape(WithPods(m.capacity), {m})
<1> DEFINE shape == WithPods(m.capacity)
<1>1. \A r \in DOMAIN shape : shape[r] \in Int  BY PodsType, Zenon
<1> HIDE DEF shape
<1>2. \A r \in DOMAIN shape : shape[r] <= shape[r]  BY <1>1
<1>3. /\ \A r \in DOMAIN shape : /\ \A n \in {m} : r \in DOMAIN shape /\ shape[r] <= shape[r]
                                 /\ \E n \in {m} : shape[r] = shape[r]
      /\ \A n \in {m} : \A r \in DOMAIN shape :
           (\A k \in {m} : r \in DOMAIN shape) => r \in DOMAIN shape
  BY <1>2, Zenon
<1> QED  BY <1>3, Zenon DEF IsShape, shape

\* minCapacity makes the greatest shape of M and one more host out of the
\* greatest shape of M.
LEMMA NextShape ==
  ASSUME NEW M, M # {}, \A m \in M : m.capacity \in Capacities,
         NEW n, n.capacity \in Capacities,
         NEW shape, IsShape(shape, M)
  PROVE  IsShape(MinCapacity(shape, WithPods(n.capacity)), M \cup {n})
<1> DEFINE D(m) == WithPods(m.capacity)
           least == MinCapacity(shape, D(n))
<1>0. \A m \in M \cup {n} : \A r \in DOMAIN D(m) : D(m)[r] \in Int
  BY PodsType, Zenon
<1>1. /\ DOMAIN least = DOMAIN shape \cap DOMAIN D(n)
      /\ \A r \in DOMAIN least : least[r] = IF D(n)[r] < shape[r] THEN D(n)[r] ELSE shape[r]
  BY DEF MinCapacity
<1>2. /\ \A r \in DOMAIN shape : /\ \A m \in M : r \in DOMAIN D(m) /\ shape[r] <= D(m)[r]
                                 /\ \E m \in M : shape[r] = D(m)[r]
      /\ \A m \in M : \A r \in DOMAIN D(m) :
           (\A k \in M : r \in DOMAIN D(k)) => r \in DOMAIN shape
  BY DEF IsShape
<1> SUFFICES /\ \A r \in DOMAIN least :
                  /\ \A m \in M \cup {n} : r \in DOMAIN D(m) /\ least[r] <= D(m)[r]
                  /\ \E m \in M \cup {n} : least[r] = D(m)[r]
             /\ \A m \in M \cup {n} : \A r \in DOMAIN D(m) :
                  (\A k \in M \cup {n} : r \in DOMAIN D(k)) => r \in DOMAIN least
  BY DEF IsShape
<1> HIDE DEF D, least
<1>3. \A r \in DOMAIN shape : shape[r] \in Int
  BY <1>0, <1>2
<1>4. ASSUME NEW r \in DOMAIN least
      PROVE  /\ \A m \in M \cup {n} : r \in DOMAIN D(m) /\ least[r] <= D(m)[r]
             /\ \E m \in M \cup {n} : least[r] = D(m)[r]
  <2>1. r \in DOMAIN shape /\ r \in DOMAIN D(n) /\ shape[r] \in Int /\ D(n)[r] \in Int
    BY <1>0, <1>1, <1>3
  <2>2. least[r] \in Int /\ least[r] <= D(n)[r] /\ least[r] <= shape[r]
    BY <1>1, <2>1
  <2>3. \A m \in M : r \in DOMAIN D(m) /\ shape[r] <= D(m)[r] /\ D(m)[r] \in Int
    BY <1>0, <1>2, <2>1
  <2>4. \E m \in M \cup {n} : least[r] = D(m)[r]
    BY <1>1, <1>2, <2>1
  <2> QED  BY <2>1, <2>2, <2>3, <2>4
<1>5. ASSUME NEW m \in M \cup {n}, NEW r \in DOMAIN D(m),
             \A k \in M \cup {n} : r \in DOMAIN D(k)
      PROVE  r \in DOMAIN least
  <2>1. PICK k \in M : TRUE  OBVIOUS
  <2> QED  BY <1>1, <1>2, <1>5, <2>1
<1> QED  BY <1>4, <1>5

\* One turn of the loop accounts for one more member.
LEMMA NextAccount ==
  ASSUME NEW M, \A m \in M : m.capacity \in Capacities,
         NEW n, n.capacity \in Capacities,
         NEW ci, Accounts(ci, M)
  PROVE  Accounts(AddHost(ci, n), M \cup {n})
<1> DEFINE new == AddHost(ci, n)
<1>1. /\ new.total = ci.total + 1
      /\ new.available = ci.available + (IF Unclaimed(n) THEN 1 ELSE 0)
      /\ new.arch = ArchWith(ci, n.arch)
      /\ new.capacity = IF ci.total = 0 THEN WithPods(n.capacity)
                        ELSE MinCapacity(ci.capacity, WithPods(n.capacity))
  BY DEF AddHost
<1>2. new.mixed = MixedWith(ci, n.arch)
  BY DEF AddHost
<1>3. new.mixed \in BOOLEAN
  BY <1>2, Zenon DEF MixedWith
<1> HIDE DEF new
<1>4. ArchAccount(new.arch, new.mixed, M \cup {n})
  <2>0. /\ IF ci.arch = "" THEN \A m \in M : m.arch = "" ELSE \E m \in M : m.arch = ci.arch
        /\ ci.mixed <=> \E m, k \in M : m.arch # "" /\ k.arch # "" /\ m.arch # k.arch
    BY Zenon DEF Accounts, ArchAccount
  <2>1. /\ new.arch = IF ci.arch = "" THEN n.arch ELSE ci.arch
        /\ new.mixed <=> (ci.mixed \/ (n.arch # "" /\ ci.arch # "" /\ ci.arch # n.arch))
    BY <1>1, <1>2, Zenon DEF ArchWith, MixedWith
  <2>2. CASE n.arch = "" \/ ci.arch = ""
    BY <2>0, <2>1, <2>2, Zenon DEF ArchAccount
  <2>3. CASE n.arch # "" /\ ci.arch # ""
    <3>1. PICK w \in M : w.arch = ci.arch  BY <2>0, <2>3, Zenon
    <3>2. ASSUME NEW m \in M \cup {n}, NEW k \in M \cup {n},
                 m.arch # "" /\ k.arch # "" /\ m.arch # k.arch
          PROVE  new.mixed
      BY <2>0, <2>1, <2>3, <3>1, <3>2, Zenon
    <3>3. ASSUME new.mixed
          PROVE  \E m, k \in M \cup {n} : m.arch # "" /\ k.arch # "" /\ m.arch # k.arch
      BY <2>0, <2>1, <2>3, <3>1, <3>3, Zenon
    <3> QED  BY <2>1, <2>3, <3>1, <3>2, <3>3, Zenon DEF ArchAccount
  <2> QED  BY <2>2, <2>3, Zenon
<1>5. /\ new.total \in Nat /\ new.available \in Nat /\ new.total # 0
      /\ new.available > 0 <=> \E m \in M \cup {n} : Unclaimed(m)
  <2>1. ci.total \in Nat /\ ci.available \in Nat
    BY DEF Accounts
  <2>2. CASE Unclaimed(n)  BY <1>1, <2>1, <2>2
  <2>3. CASE ~Unclaimed(n)
    <3>1. new.available = ci.available  BY <1>1, <2>1, <2>3
    <3>2. (\E m \in M \cup {n} : Unclaimed(m)) <=> \E m \in M : Unclaimed(m)
      BY <2>3, Zenon
    <3>3. ci.available > 0 <=> \E m \in M : Unclaimed(m)
      BY Zenon DEF Accounts
    <3>4. new.total \in Nat /\ new.available \in Nat /\ new.total # 0
      BY <1>1, <2>1, <3>1
    <3> QED  BY <3>1, <3>2, <3>3, <3>4, Zenon
  <2> QED  BY <2>2, <2>3
<1>6. IsShape(new.capacity, M \cup {n})
  <2>1. CASE M = {}
    <3>1. new.capacity = WithPods(n.capacity) /\ M \cup {n} = {n}
      BY <1>1, <2>1 DEF Accounts
    <3> QED  BY <3>1, FirstShape
  <2>2. CASE M # {}
    BY <1>1, <2>2, NextShape, Zenon DEF Accounts
  <2> QED  BY <2>1, <2>2
<1> QED  BY <1>3, <1>4, <1>5, <1>6 DEF Accounts, new

-----------------------------------------------------------------------------
(* The inductive invariant.                                                *)

\* The pool, and the shape of the records that are updated field by field.
Shapes ==
  /\ pool \in [Hosts -> HostRecord] /\ steady \subseteq Hosts
  /\ launch = [pc |-> launch.pc, types |-> launch.types, tried |-> launch.tried,
               type |-> launch.type, candidates |-> launch.candidates,
               host |-> launch.host]
  /\ listing = [hosts |-> listing.hosts, visited |-> listing.visited,
                classes |-> listing.classes]
  /\ price \in Prices \cup {BadPrice}

\* List has counted the members it has visited, as it read them; a host no one
\* touched since is as it was read.
ListOK ==
  /\ launch.pc = "start" => listing = NotListing
  /\ launch.pc \in {"start", "list"} => launch.tried = {}
  /\ launch.pc = "list" =>
       /\ listing.hosts \in [Hosts -> HostRecord] /\ listing.visited \subseteq Hosts
       /\ DOMAIN listing.classes = Classes
       /\ \A c \in Classes : Accounts(listing.classes[c], Members(listing.visited, c))
       /\ \A h \in steady : pool[h] = listing.hosts[h]

\* What the NodeClaim asks for is found on host record m.
Suits(m) == /\ m.class \in request.names
            /\ Fits(request.resources, WithPods(m.capacity))
            /\ request.arch = AnyArch \/ m.arch \in {"", request.arch}

Walking == {"next", "claim", "claimed", "exhausted"}

\* A resolved type suits on every untouched host it was made from, and it was
\* offered as available only for a free host.
TypesOK ==
  launch.pc \in Walking =>
    \A t \in launch.types :
      /\ t.price \in Int
      /\ \A h \in steady :
           pool[h].class = t.name /\ UsableCapacity(pool[h].capacity) => Suits(pool[h])
      /\ t.available /\ steady = Hosts /\ launch.pc # "claimed" =>
           \E h \in Hosts : pool[h].class = t.name /\ Unclaimed(pool[h])

\* The types tried so far are the cheapest, and no free host that nobody wrote
\* is of their classes, but for the candidates of the type at hand.
WalkOK ==
  launch.pc \in Walking =>
    /\ launch.tried \subseteq launch.types
    /\ \A t \in launch.tried, u \in launch.types \ launch.tried : t.price <= u.price
    /\ \A h \in steady, t \in launch.tried :
         Claimable(h) /\ pool[h].class = t.name =>
           /\ launch.pc \in {"claim", "claimed"} /\ t = launch.type
           /\ launch.pc = "claim" => h \in launch.candidates
    /\ launch.pc \in {"claim", "claimed"} => launch.type \in launch.tried
    /\ launch.pc = "claim" =>
         \A h \in launch.candidates : h \in Hosts /\ pool[h].class = launch.type.name
    /\ launch.pc = "claimed" =>
         launch.host \in Hosts /\ pool[launch.host].class = launch.type.name
    /\ launch.pc = "exhausted" => launch.types = launch.tried

CatalogueInv == Shapes /\ ListOK /\ TypesOK /\ WalkOK

LEMMA InitInv == Init => CatalogueInv
<1> SUFFICES ASSUME Init PROVE CatalogueInv  OBVIOUS
<1>1. launch = NotStarted /\ listing = NotListing /\ steady = Hosts  BY DEF Init
<1>2. Shapes
  <2>1. pool \in [Hosts -> HostRecord]
    <3>1. ASSUME NEW s \in HostSpecs
          PROVE  [class |-> s.class, capacity |-> s.capacity, arch |-> s.arch,
                  available |-> TRUE, claimed |-> FALSE, maintenance |-> FALSE] \in HostRecord
      BY DEF HostRecord, Capacities, HostArchs, Classes
    <3> QED  BY <3>1 DEF Init
  <2> QED  BY <1>1, <2>1 DEF Init, Shapes, NotStarted, NotListing
<1>3. ListOK /\ TypesOK /\ WalkOK
  BY <1>1 DEF NotStarted, ListOK, TypesOK, WalkOK, Walking
<1> QED  BY <1>2, <1>3 DEF CatalogueInv

\* The account of a class that has no members yet.
LEMMA NoAccount == Accounts(NoInfo, {})
BY DEF Accounts, ArchAccount, NoInfo

LEMMA ListHostsInv == CatalogueInv /\ ListHosts => CatalogueInv'
<1> SUFFICES ASSUME CatalogueInv, ListHosts PROVE CatalogueInv'  OBVIOUS
<1> USE DEF CatalogueInv
<1>1. /\ launch' = [launch EXCEPT !.pc = "list"] /\ listing' = [listing EXCEPT !.hosts = pool]
      /\ steady' = Hosts /\ pool' = pool /\ price' = price
  BY DEF ListHosts
<1>2. /\ launch'.pc = "list" /\ launch'.tried = {} /\ listing'.hosts = pool
      /\ listing'.visited = {} /\ listing'.classes = [c \in Classes |-> NoInfo]
  BY <1>1 DEF ListHosts, Shapes, ListOK, NotListing
<1>3. Shapes'
  BY <1>1 DEF Shapes
<1>4. \A c \in Classes : Members(listing.visited, c)' = {}
  BY <1>2 DEF Members
<1>5. ListOK'
  BY <1>1, <1>2, <1>4, NoAccount DEF ListOK, Shapes
<1>6. TypesOK' /\ WalkOK'
  BY <1>2 DEF TypesOK, WalkOK, Walking
<1> QED  BY <1>3, <1>5, <1>6

\* Visiting host h makes it a member of its class if its capacity is usable.
LEMMA VisitHostInv == CatalogueInv /\ VisitHost => CatalogueInv'
<1> SUFFICES ASSUME CatalogueInv, VisitHost PROVE CatalogueInv'  OBVIOUS
<1>0. Shapes /\ ListOK  BY DEF CatalogueInv
<1>1. /\ launch.pc = "list" /\ launch' = launch /\ pool' = pool /\ steady' = steady
      /\ price' = price /\ request' = request
  BY DEF VisitHost
<1>2. PICK h \in Hosts \ listing.visited :
        listing' = IF ~UsableCapacity(listing.hosts[h].capacity)
                   THEN [listing EXCEPT !.visited = @ \cup {h}]
                   ELSE [listing EXCEPT !.visited = @ \cup {h},
                           !.classes[listing.hosts[h].class] = AddHost(@, listing.hosts[h])]
  BY Zenon DEF VisitHost
<1> DEFINE m == listing.hosts[h]
<1>3. /\ m \in HostRecord /\ m.class \in Classes /\ m.capacity \in Capacities
      /\ listing.hosts \in [Hosts -> HostRecord]
  BY <1>0, <1>1 DEF ListOK, HostRecord
<1>4. /\ listing'.hosts = listing.hosts /\ listing'.visited = listing.visited \cup {h}
      /\ listing'.classes = IF ~UsableCapacity(m.capacity) THEN listing.classes
                           ELSE [listing.classes EXCEPT ![m.class] = AddHost(@, m)]
      /\ listing' = [hosts |-> listing'.hosts, visited |-> listing'.visited,
                     classes |-> listing'.classes]
  BY <1>0, <1>2, Zenon DEF Shapes
<1> HIDE DEF m
<1>5. ASSUME NEW c \in Classes
      PROVE  Accounts(listing'.classes[c], Members(listing.visited, c)')
  <2>1. /\ DOMAIN listing.classes = Classes
        /\ Accounts(listing.classes[c], Members(listing.visited, c))
    BY <1>0, <1>1 DEF ListOK
  <2>2. CASE UsableCapacity(m.capacity) /\ m.class = c
    <3>1. Members(listing.visited, c)' = Members(listing.visited, c) \cup {m}
      BY <1>4, <2>2 DEF Members, m
    <3>2. \A n \in Members(listing.visited, c) : n.capacity \in Capacities
      BY <1>0, <1>1 DEF ListOK, Members, HostRecord
    <3>3. listing'.classes[c] = AddHost(listing.classes[c], m)
      BY <1>4, <2>1, <2>2
    <3>4. Accounts(AddHost(listing.classes[c], m), Members(listing.visited, c) \cup {m})
      BY <1>3, <2>1, <3>2, NextAccount
    <3> QED  BY <3>1, <3>3, <3>4
  <2>3. CASE ~(UsableCapacity(m.capacity) /\ m.class = c)
    <3>1. Members(listing.visited, c)' = Members(listing.visited, c)
      BY <1>4, <2>3 DEF Members, m
    <3>2. listing'.classes[c] = listing.classes[c]
      BY <1>4, <2>1, <2>3
    <3> QED  BY <2>1, <3>1, <3>2
  <2> QED  BY <2>2, <2>3
<1>6. Shapes'  BY <1>0, <1>1, <1>4 DEF Shapes
<1>7. DOMAIN listing'.classes = Classes
  BY <1>0, <1>1, <1>4 DEF ListOK
<1>8. ListOK'
  BY <1>0, <1>1, <1>3, <1>4, <1>5, <1>7, Zenon DEF ListOK
<1>9. TypesOK' /\ WalkOK'
  BY <1>1 DEF TypesOK, WalkOK, Walking
<1> QED  BY <1>6, <1>8, <1>9 DEF CatalogueInv

-----------------------------------------------------------------------------
(* The catalogue List returns, and the types resolved from it.             *)

\* What the accounts say when every host has been visited.
Complete == Shapes /\ ListOK /\ launch.pc = "list" /\ listing.visited = Hosts

\* The type of a class is made from the account of its members.
LEMMA TypeAccount ==
  ASSUME Complete, NEW t \in Catalogue
  PROVE  \E c \in Classes :
           LET ci == listing.classes[c] IN
           /\ ci.arch # "" /\ ~ci.mixed /\ Accounts(ci, Members(Hosts, c))
           /\ t.name = c /\ t.arch = ci.arch /\ t.capacity = ci.capacity
           /\ t.price = price * ci.capacity["cpu"]
           /\ t.available = (ci.available > 0)
<1>1. PICK c \in Classes : /\ t = InstanceType(listing.classes[c], c)
                           /\ listing.classes[c].arch # "" /\ ~listing.classes[c].mixed
  BY Zenon DEF Catalogue
<1>2. Accounts(listing.classes[c], Members(Hosts, c))
  BY DEF Complete, ListOK
<1>3. /\ t.name = c /\ t.arch = listing.classes[c].arch
      /\ t.capacity = listing.classes[c].capacity
      /\ t.price = price * listing.classes[c].capacity["cpu"]
  BY <1>1, Zenon DEF InstanceType
<1>4. t.available = (listing.classes[c].available > 0)
  BY <1>1, Zenon DEF InstanceType
<1> QED  BY <1>1, <1>2, <1>3, <1>4, Zenon

\* A type has one architecture, that of its probed members, and the greatest
\* shape they deliver.
LEMMA TypeFacts ==
  ASSUME Complete, NEW t \in Catalogue
  PROVE  /\ t.name \in Classes /\ t.arch # ""
         /\ \A m \in Members(Hosts, t.name) : m.arch \in {"", t.arch}
         /\ \E m \in Members(Hosts, t.name) : m.arch = t.arch
         /\ IsShape(t.capacity, Members(Hosts, t.name))
<1>1. PICK c \in Classes :
        LET ci == listing.classes[c] IN
        /\ ci.arch # "" /\ ~ci.mixed /\ Accounts(ci, Members(Hosts, c))
        /\ t.name = c /\ t.arch = ci.arch /\ t.capacity = ci.capacity
  BY TypeAccount, Zenon
<1>2. /\ \E m \in Members(Hosts, c) : m.arch = t.arch
      /\ \A m, n \in Members(Hosts, c) : m.arch # "" /\ n.arch # "" => m.arch = n.arch
  <2>1. ArchAccount(t.arch, FALSE, Members(Hosts, c)) /\ t.arch # ""
    BY <1>1, Zenon DEF Accounts
  <2> QED  BY <2>1, Zenon DEF ArchAccount
<1>3. IsShape(t.capacity, Members(Hosts, c))
  BY <1>1, <1>2, Zenon DEF Accounts
<1> QED  BY <1>1, <1>2, <1>3, Zenon

\* A type is offered as available exactly for a free member.
LEMMA TypeAvailable ==
  ASSUME Complete, NEW t \in Catalogue
  PROVE  t.available <=> \E m \in Members(Hosts, t.name) : Unclaimed(m)
<1>1. PICK c \in Classes :
        LET ci == listing.classes[c] IN
        /\ Accounts(ci, Members(Hosts, c))
        /\ t.name = c /\ t.available = (ci.available > 0)
  BY TypeAccount, Zenon
<1>2. listing.classes[c].available > 0 <=> \E m \in Members(Hosts, c) : Unclaimed(m)
  BY <1>1 DEF Accounts
<1> QED  BY <1>1, <1>2, Zenon

\* The price of a type is a number.
LEMMA TypePrice ==
  ASSUME Complete, price # BadPrice, NEW t \in Catalogue
  PROVE  t.price \in Int
<1>1. PICK c \in Classes :
        LET ci == listing.classes[c] IN
        /\ t.name = c /\ t.capacity = ci.capacity /\ t.price = price * ci.capacity["cpu"]
  BY TypeAccount, Zenon
<1>2. \A m \in Members(Hosts, t.name) : m.capacity \in Capacities
  BY DEF Complete, ListOK, Members, HostRecord
<1>3. PICK m \in Members(Hosts, t.name) : m.arch = t.arch
  BY TypeFacts, Zenon
<1>4. \A n \in Members(Hosts, t.name) : "cpu" \in DOMAIN WithPods(n.capacity)
  BY <1>2, PodsType, Zenon
<1>5. "cpu" \in DOMAIN t.capacity
  BY <1>3, <1>4, TypeFacts, Zenon DEF IsShape
<1>6. PICK n \in Members(Hosts, t.name) : t.capacity["cpu"] = WithPods(n.capacity)["cpu"]
  BY <1>5, TypeFacts, Zenon DEF IsShape
<1>7. t.capacity["cpu"] \in Int
  BY <1>2, <1>4, <1>6, PodsType, Zenon
<1>8. price \in Int
  BY NodeClassAssumption DEF Complete, Shapes
<1> QED  BY <1>1, <1>7, <1>8

\* What fits a type fits every member of its class.
LEMMA MembersSuit ==
  ASSUME Complete, NEW t \in Catalogue, NEW need \in Requests,
         Fits(need, t.capacity), NEW m \in Members(Hosts, t.name)
  PROVE  Fits(need, WithPods(m.capacity))
<1>1. m.capacity \in Capacities
  BY DEF Complete, ListOK, Members, HostRecord
<1>2. ASSUME NEW r \in DOMAIN need
      PROVE  /\ r \in DOMAIN WithPods(m.capacity)
             /\ need[r] <= WithPods(m.capacity)[r]
                            - (IF r \in DOMAIN Reserved THEN Reserved[r] ELSE 0)
  <2> DEFINE kept == IF r \in DOMAIN Reserved THEN Reserved[r] ELSE 0
  <2>1. r \in DOMAIN t.capacity /\ need[r] <= t.capacity[r] - kept
    BY <1>2 DEF Fits
  <2>2. r \in DOMAIN WithPods(m.capacity) /\ t.capacity[r] <= WithPods(m.capacity)[r]
    BY <2>1, TypeFacts, Zenon DEF IsShape
  <2>3. PICK n \in Members(Hosts, t.name) : t.capacity[r] = WithPods(n.capacity)[r]
    BY <2>1, TypeFacts, Zenon DEF IsShape
  <2>4. n.capacity \in Capacities /\ r \in DOMAIN WithPods(n.capacity)
    <3>1. n.capacity \in Capacities
      BY DEF Complete, ListOK, Members, HostRecord
    <3>2. IsShape(t.capacity, Members(Hosts, t.name))
      BY TypeFacts, Zenon
    <3> QED  BY <2>1, <3>1, <3>2, Zenon DEF IsShape
  <2>5. t.capacity[r] \in Int /\ WithPods(m.capacity)[r] \in Int
    BY <1>1, <2>2, <2>3, <2>4, PodsType, Zenon
  <2>6. need[r] \in Int /\ kept \in Int
    BY <1>2, RequestsAssumption, NodeClassAssumption DEF Quantities
  <2> HIDE DEF kept
  <2>7. need[r] <= WithPods(m.capacity)[r] - kept
    BY <2>1, <2>2, <2>5, <2>6
  <2> QED  BY <2>2, <2>7 DEF kept
<1> QED  BY <1>2 DEF Fits

LEMMA ResolveInv == CatalogueInv /\ Resolve => CatalogueInv'
<1> SUFFICES ASSUME CatalogueInv, Resolve PROVE CatalogueInv'  OBVIOUS
<1>0. Complete /\ Shapes /\ launch.tried = {}
  BY Zenon DEF CatalogueInv, Complete, Resolve, ListOK
<1>1. /\ listing' = NotListing /\ pool' = pool /\ price' = price /\ steady' = steady
  BY Zenon DEF Resolve
<1>2. CASE price = BadPrice
  <2>1. launch' = [launch EXCEPT !.pc = "error"]
    BY <1>2 DEF Resolve
  <2>2. launch'.pc = "error"  BY <1>0, <2>1 DEF Shapes
  <2>3. Shapes'  BY <1>0, <1>1, <2>1 DEF Shapes, NotListing
  <2> QED  BY <2>2, <2>3, Zenon DEF CatalogueInv, ListOK, TypesOK, WalkOK, Walking
<1>3. CASE price # BadPrice
  <2>1. PICK req \in [resources : Requests, arch : Archs \cup {AnyArch},
                     names : TypeNames \cup {Classes}] :
          /\ request' = req
          /\ launch' = [launch EXCEPT !.types = {t \in Catalogue : Compatible(req, t)},
                           !.pc = IF {t \in Catalogue : Compatible(req, t)} = {}
                                  THEN "exhausted" ELSE "next"]
    BY <1>3, Zenon DEF Resolve
  <2>2. /\ launch'.types = {t \in Catalogue : Compatible(req, t)} /\ launch'.tried = {}
        /\ launch'.pc = IF launch'.types = {} THEN "exhausted" ELSE "next"
    BY <1>0, <2>1 DEF Shapes
  <2>3. Shapes'  BY <1>0, <1>1, <2>1, Zenon DEF Shapes, NotListing
  <2>4. ASSUME NEW t \in launch'.types
        PROVE  /\ t.price \in Int
               /\ \A h \in steady' :
                    pool'[h].class = t.name /\ UsableCapacity(pool'[h].capacity)
                      => Suits(pool[h])'
               /\ t.available /\ steady' = Hosts =>
                    \E h \in Hosts : pool'[h].class = t.name /\ Unclaimed(pool'[h])
    <3>1. /\ t \in Catalogue /\ req.arch \in {AnyArch, t.arch}
          /\ Fits(req.resources, t.capacity) /\ t.name \in req.names
      BY <2>2 DEF Compatible
    <3>2. t.price \in Int  BY <1>0, <1>3, <3>1, TypePrice
    <3>3. ASSUME NEW h \in steady, pool[h].class = t.name, UsableCapacity(pool[h].capacity)
          PROVE  Suits(pool[h])'
      <4>1. pool[h] \in Members(Hosts, t.name)
        BY <1>0, <3>3 DEF Complete, Shapes, ListOK, Members
      <4>2. Fits(req.resources, WithPods(pool[h].capacity))
        BY <1>0, <3>1, <4>1, MembersSuit
      <4>3. req.arch = AnyArch \/ pool[h].arch \in {"", req.arch}
        BY <1>0, <3>1, <4>1, TypeFacts, Zenon
      <4> QED  BY <1>1, <2>1, <3>1, <3>3, <4>2, <4>3, Zenon DEF Suits, Fits
    <3>4. ASSUME t.available, steady = Hosts
          PROVE  \E h \in Hosts : pool[h].class = t.name /\ Unclaimed(pool[h])
      <4>1. PICK m \in Members(Hosts, t.name) : Unclaimed(m)
        BY <1>0, <3>1, <3>4, TypeAvailable
      <4>2. PICK h \in Hosts : m = listing.hosts[h] /\ m.class = t.name
        BY DEF Members
      <4>3. pool[h] = m
        BY <1>0, <3>4, <4>2 DEF Complete, ListOK
      <4> QED  BY <4>1, <4>2, <4>3
    <3> QED  BY <1>1, <3>2, <3>3, <3>4
  <2>5. TypesOK'
    BY <2>2, <2>4 DEF TypesOK
  <2>6. WalkOK'
    BY <2>2 DEF WalkOK
  <2>7. ListOK'
    BY <2>2 DEF ListOK
  <2> QED  BY <2>3, <2>5, <2>6, <2>7 DEF CatalogueInv
<1> QED  BY <1>2, <1>3

-----------------------------------------------------------------------------
(* The walk through the types.                                             *)

LEMMA NextTypeInv == CatalogueInv /\ NextType => CatalogueInv'
<1> SUFFICES ASSUME CatalogueInv, NextType PROVE CatalogueInv'  OBVIOUS
<1>0. Shapes /\ TypesOK /\ WalkOK  BY DEF CatalogueInv
<1>1. /\ launch.pc = "next" /\ pool' = pool /\ price' = price /\ request' = request
      /\ listing' = listing /\ steady' = steady
  BY Zenon DEF NextType
<1>2. \A h : (Claimable(h)' <=> Claimable(h)) /\ (Suits(pool[h])' <=> Suits(pool[h]))
  BY <1>1 DEF Claimable, Suits
<1>3. CASE launch.types = launch.tried
  <2>1. launch' = [launch EXCEPT !.pc = "exhausted"]
    BY <1>3 DEF NextType
  <2>2. /\ launch'.pc = "exhausted" /\ launch'.types = launch.types
        /\ launch'.tried = launch.tried
    BY <1>0, <2>1 DEF Shapes
  <2>3. Shapes'  BY <1>0, <1>1, <2>1 DEF Shapes
  <2>4. TypesOK'  BY <1>0, <1>1, <1>2, <2>2 DEF TypesOK, Walking
  <2>5. WalkOK'  BY <1>0, <1>1, <1>2, <1>3, <2>2, Zenon DEF WalkOK, Walking
  <2>6. ListOK'  BY <2>2 DEF ListOK
  <2> QED  BY <2>3, <2>4, <2>5, <2>6 DEF CatalogueInv
<1>4. CASE launch.types # launch.tried
  <2>1. PICK t \in Cheapest(launch.types \ launch.tried) :
          launch' = [launch EXCEPT !.pc = "claim", !.type = t, !.tried = @ \cup {t},
                                   !.candidates = Available(t.name)]
    BY <1>4, Zenon DEF NextType
  <2>2. /\ launch'.pc = "claim" /\ launch'.types = launch.types /\ launch'.type = t
        /\ launch'.tried = launch.tried \cup {t} /\ launch'.candidates = Available(t.name)
    BY <1>0, <2>1 DEF Shapes
  <2>3. t \in launch.types \ launch.tried
        /\ \A u \in launch.types \ launch.tried : t.price <= u.price
    BY DEF Cheapest
  <2>4. Shapes'  BY <1>0, <1>1, <2>1, Zenon DEF Shapes
  <2>5. TypesOK'  BY <1>0, <1>1, <1>2, <2>2, Zenon DEF TypesOK, Walking
  <2>6. ASSUME NEW h \in steady', NEW u \in launch'.tried,
               Claimable(h)', pool'[h].class = u.name
        PROVE  u = launch'.type /\ h \in launch'.candidates
    <3>1. u = t
      BY <1>0, <1>1, <1>2, <2>2, <2>6, Zenon DEF WalkOK, Walking
    <3> QED  BY <1>0, <1>1, <1>2, <2>2, <2>6, <3>1, Zenon DEF Available, Shapes
  <2>7. \A h \in launch'.candidates : h \in Hosts /\ pool'[h].class = launch'.type.name
    BY <1>1, <2>2 DEF Available
  <2>8. WalkOK'
    BY <1>0, <1>1, <2>2, <2>3, <2>6, <2>7, Zenon DEF WalkOK, Walking
  <2>9. ListOK'  BY <2>2, Zenon DEF ListOK
  <2> QED  BY <2>4, <2>5, <2>8, <2>9 DEF CatalogueInv
<1> QED  BY <1>3, <1>4

LEMMA ClaimInv == CatalogueInv /\ Claim => CatalogueInv'
<1> SUFFICES ASSUME CatalogueInv, Claim PROVE CatalogueInv'  OBVIOUS
<1>0. Shapes /\ TypesOK /\ WalkOK  BY DEF CatalogueInv
<1>1. /\ launch.pc = "claim" /\ price' = price /\ request' = request
      /\ listing' = listing /\ steady' = steady
  BY Zenon DEF Claim
<1>2. CASE /\ launch.candidates = {}
           /\ launch' = [launch EXCEPT !.pc = "next"] /\ pool' = pool
  <2>1. /\ launch'.pc = "next" /\ launch'.types = launch.types
        /\ launch'.tried = launch.tried
    BY <1>0, <1>2 DEF Shapes
  <2>2. \A h : (Claimable(h)' <=> Claimable(h)) /\ (Suits(pool[h])' <=> Suits(pool[h]))
    BY <1>1, <1>2 DEF Claimable, Suits
  <2>3. Shapes'  BY <1>0, <1>1, <1>2 DEF Shapes
  <2>4. TypesOK'  BY <1>0, <1>1, <1>2, <2>1, <2>2 DEF TypesOK, Walking
  <2>5. WalkOK'  BY <1>0, <1>1, <1>2, <2>1, <2>2 DEF WalkOK, Walking
  <2>6. ListOK'  BY <2>1 DEF ListOK
  <2> QED  BY <2>3, <2>4, <2>5, <2>6 DEF CatalogueInv
<1>3. ASSUME NEW h \in launch.candidates, h \notin steady, pool' = pool,
             launch' = [launch EXCEPT !.candidates = AfterConflict(h)]
      PROVE  CatalogueInv'
  <2>1. /\ launch'.pc = "claim" /\ launch'.types = launch.types /\ launch'.type = launch.type
        /\ launch'.tried = launch.tried /\ launch'.candidates = launch.candidates \ {h}
    BY <1>0, <1>1, <1>3 DEF Shapes, AfterConflict
  <2>2. \A g : (Claimable(g)' <=> Claimable(g)) /\ (Suits(pool[g])' <=> Suits(pool[g]))
    BY <1>1, <1>3 DEF Claimable, Suits
  <2>3. Shapes'  BY <1>0, <1>1, <1>3 DEF Shapes
  <2>4. TypesOK'  BY <1>0, <1>1, <1>3, <2>1, <2>2 DEF TypesOK, Walking
  <2>5. WalkOK'  BY <1>0, <1>1, <1>3, <2>1, <2>2 DEF WalkOK, Walking
  <2>6. ListOK'  BY <2>1 DEF ListOK
  <2> QED  BY <2>3, <2>4, <2>5, <2>6 DEF CatalogueInv
<1>4. ASSUME NEW h \in launch.candidates,
             pool' = [pool EXCEPT ![h].claimed = TRUE],
             launch' = [launch EXCEPT !.pc = "claimed", !.host = h]
      PROVE  CatalogueInv'
  <2>1. /\ launch'.pc = "claimed" /\ launch'.types = launch.types /\ launch'.type = launch.type
        /\ launch'.tried = launch.tried /\ launch'.host = h
    BY <1>0, <1>4 DEF Shapes
  <2>2. h \in Hosts /\ pool[h].class = launch.type.name
    BY <1>0, <1>1 DEF WalkOK, Walking
  <2>3. pool' \in [Hosts -> HostRecord]
    BY <1>0, <1>4, <2>2, Zenon DEF Shapes, HostRecord
  <2>4. \A g \in Hosts : /\ pool'[g].class = pool[g].class
                         /\ pool'[g].capacity = pool[g].capacity
                         /\ pool'[g].arch = pool[g].arch
                         /\ g # h => pool'[g] = pool[g]
    BY <1>0, <1>4 DEF Shapes, HostRecord
  <2>5. \A g \in Hosts : /\ Suits(pool[g])' <=> Suits(pool[g])
                         /\ Claimable(g)' => Claimable(g)
    <3>1. \A g \in Hosts : Suits(pool[g])' <=> Suits(pool[g])
      BY <1>1, <2>4, Zenon DEF Suits
    <3>2. pool'[h].claimed = TRUE
      BY <1>0, <1>4, <2>2 DEF Shapes, HostRecord
    <3>3. \A g \in Hosts : Claimable(g)' => Claimable(g)
      BY <2>4, <3>2 DEF Claimable, Unclaimed
    <3> QED  BY <3>1, <3>3
  <2>6. Shapes'  BY <1>0, <1>1, <1>4, <2>3, Zenon DEF Shapes
  <2>7. TypesOK'
    BY <1>0, <1>1, <2>1, <2>4, <2>5 DEF TypesOK, Walking, Shapes
  <2>8. WalkOK'
    BY <1>0, <1>1, <2>1, <2>2, <2>4, <2>5 DEF WalkOK, Walking, Shapes
  <2>9. ListOK'  BY <2>1 DEF ListOK
  <2> QED  BY <2>6, <2>7, <2>8, <2>9 DEF CatalogueInv
<1> QED  BY <1>2, <1>3, <1>4, Zenon DEF Claim

\* A write to the pool takes the host it touches out of the steady ones.
LEMMA PoolChangesInv == CatalogueInv /\ PoolChanges => CatalogueInv'
<1> SUFFICES ASSUME CatalogueInv, PoolChanges PROVE CatalogueInv'  OBVIOUS
<1>0. Shapes /\ ListOK /\ TypesOK /\ WalkOK  BY DEF CatalogueInv
<1>1. /\ launch.pc \notin {"claimed", "exhausted", "error"} /\ launch' = launch
      /\ price' = price /\ request' = request /\ listing' = listing
  BY DEF PoolChanges
<1>2. PICK h \in Hosts :
        /\ \/ UNCHANGED pool
           \/ pool' = [pool EXCEPT ![h].claimed = ~@]
           \/ pool' = [pool EXCEPT ![h].available = ~@]
           \/ pool' = [pool EXCEPT ![h].maintenance = TRUE]
           \/ \E c \in {s.capacity : s \in HostSpecs} : pool' = [pool EXCEPT ![h].capacity = c]
        /\ steady' = steady \ {h}
  BY DEF PoolChanges
<1>3. pool' \in [Hosts -> HostRecord]
  <2>1. pool \in [Hosts -> HostRecord]  BY <1>0, Zenon DEF Shapes
  <2>2. CASE pool' = [pool EXCEPT ![h].claimed = ~@]  BY <2>1, <2>2, Zenon DEF HostRecord
  <2>3. CASE pool' = [pool EXCEPT ![h].available = ~@]  BY <2>1, <2>3, Zenon DEF HostRecord
  <2>4. CASE pool' = [pool EXCEPT ![h].maintenance = TRUE]  BY <2>1, <2>4, Zenon DEF HostRecord
  <2>5. ASSUME NEW c \in Capacities, pool' = [pool EXCEPT ![h].capacity = c]
        PROVE  pool' \in [Hosts -> HostRecord]
    BY <2>1, <2>5 DEF HostRecord
  <2> QED  BY <1>2, <2>1, <2>2, <2>3, <2>4, <2>5 DEF Capacities
<1>4. \A g \in Hosts : /\ pool'[g].class = pool[g].class
                       /\ g # h => pool'[g] = pool[g]
  BY <1>0, <1>2 DEF Shapes, HostRecord
<1>5. /\ steady' \subseteq steady /\ steady' # Hosts
      /\ \A g \in steady' : g \in Hosts /\ g # h /\ pool'[g] = pool[g]
  BY <1>0, <1>2, <1>4 DEF Shapes
<1>6. \A g \in steady' : (Claimable(g)' <=> Claimable(g)) /\ (Suits(pool[g])' <=> Suits(pool[g]))
  BY <1>1, <1>5, Zenon DEF Claimable, Suits
<1>7. Shapes'  BY <1>0, <1>1, <1>3, <1>5, Zenon DEF Shapes
<1>8. ListOK'
  <2>1. \A c : Members(listing.visited, c)' = Members(listing.visited, c)
    BY <1>1 DEF Members
  <2> QED  BY <1>0, <1>1, <1>5, <2>1, Zenon DEF ListOK
<1>9. TypesOK'  BY <1>0, <1>1, <1>5, <1>6, Zenon DEF TypesOK
<1>10. WalkOK'  BY <1>0, <1>1, <1>4, <1>5, <1>6, Zenon DEF WalkOK
<1> QED  BY <1>7, <1>8, <1>9, <1>10 DEF CatalogueInv

LEMMA CatalogueInvariance == Spec => []CatalogueInv
<1>1. CatalogueInv /\ [Next]_vars => CatalogueInv'
  <2> SUFFICES ASSUME CatalogueInv, [Next]_vars PROVE CatalogueInv'  OBVIOUS
  <2>1. CASE UNCHANGED vars
    <3> USE <2>1 DEF vars
    <3>1. Shapes'  BY Zenon DEF CatalogueInv, Shapes
    <3>2. ListOK'
      <4>1. \A c : Members(listing.visited, c)' = Members(listing.visited, c)
        BY DEF Members
      <4> QED  BY <4>1, Zenon DEF CatalogueInv, ListOK
    <3>3. \A h : (Claimable(h)' <=> Claimable(h)) /\ (Suits(pool[h])' <=> Suits(pool[h]))
      BY Zenon DEF Claimable, Suits
    <3>4. TypesOK'  BY <3>3, Zenon DEF CatalogueInv, TypesOK
    <3>5. WalkOK'  BY <3>3, Zenon DEF CatalogueInv, WalkOK
    <3> QED  BY <3>1, <3>2, <3>4, <3>5 DEF CatalogueInv
  <2> QED
    BY <2>1, ListHostsInv, VisitHostInv, ResolveInv, NextTypeInv, ClaimInv, PoolChangesInv
       DEF Next
<1> QED  BY <1>1, InitInv, PTL DEF Spec

-----------------------------------------------------------------------------

\* The hosts of M agree on architecture a.
LEMMA ArchOf ==
  ASSUME NEW M, NEW a, a # "", \A m \in M : m.arch \in {"", a}, \E m \in M : m.arch = a
  PROVE  ProbedArchs(M) = {a}
BY Zenon DEF ProbedArchs

\* Conversely.
LEMMA OneArch ==
  ASSUME NEW M, NEW a, ProbedArchs(M) = {a}
  PROVE  /\ \E m \in M : m.arch # ""
         /\ \A m \in M : m.arch # "" => m.arch = a
<1>1. a \in ProbedArchs(M) /\ \A b \in ProbedArchs(M) : b = a
  OBVIOUS
<1> QED  BY <1>1, Zenon DEF ProbedArchs

\* The catalogue is what the pool warrants, whatever the order in which List
\* visits the hosts (DefaultProvider.List of the instance types).
THEOREM ExactCatalogue == Spec => []CatalogueIsExact
<1>1. CatalogueInv => CatalogueIsExact
  <2> SUFFICES ASSUME CatalogueInv, launch.pc = "list", listing.visited = Hosts,
                      price # BadPrice
               PROVE  /\ {t.name : t \in Catalogue} =
                           {c \in Classes : \E a \in ProbedArchs(Members(Hosts, c)) :
                                              ProbedArchs(Members(Hosts, c)) = {a}}
                      /\ \A t \in Catalogue :
                           /\ ProbedArchs(Members(Hosts, t.name)) = {t.arch}
                           /\ IsShape(t.capacity, Members(Hosts, t.name))
                           /\ t.available <=> \E m \in Members(Hosts, t.name) : Unclaimed(m)
    BY Zenon DEF CatalogueIsExact
  <2>0. Complete  BY DEF CatalogueInv, Complete
  <2>1. ASSUME NEW t \in Catalogue
        PROVE  t.name \in Classes /\ ProbedArchs(Members(Hosts, t.name)) = {t.arch}
    <3> DEFINE M == Members(Hosts, t.name)
               a == t.arch
    <3>1. t.name \in Classes /\ a # ""
      BY <2>0, TypeFacts, Zenon
    <3>2. (\A m \in M : m.arch \in {"", a}) /\ \E m \in M : m.arch = a
      BY <2>0, TypeFacts, Zenon
    <3> HIDE DEF M, a
    <3>3. ProbedArchs(M) = {a}
      BY <3>1, <3>2, ArchOf, Zenon
    <3> QED  BY <3>1, <3>3, Zenon DEF M, a
  <2>2. ASSUME NEW c \in Classes, NEW a \in ProbedArchs(Members(Hosts, c)),
               ProbedArchs(Members(Hosts, c)) = {a}
        PROVE  \E t \in Catalogue : t.name = c
    <3>1. Accounts(listing.classes[c], Members(Hosts, c))
      BY <2>0, Zenon DEF Complete, ListOK
    <3>2. /\ \E m \in Members(Hosts, c) : m.arch # ""
          /\ \A m, n \in Members(Hosts, c) : m.arch # "" /\ n.arch # "" => m.arch = n.arch
      BY <2>2, OneArch, Zenon
    <3>3. listing.classes[c].arch # "" /\ ~listing.classes[c].mixed
      BY <3>1, <3>2, Zenon DEF Accounts, ArchAccount
    <3>4. InstanceType(listing.classes[c], c) \in Catalogue
      BY <3>3, Zenon DEF Catalogue
    <3> QED  BY <3>4, Zenon DEF InstanceType
  <2>3. {t.name : t \in Catalogue} =
          {c \in Classes : \E a \in ProbedArchs(Members(Hosts, c)) :
                             ProbedArchs(Members(Hosts, c)) = {a}}
    <3> DEFINE agreed == {c \in Classes : \E a \in ProbedArchs(Members(Hosts, c)) :
                                            ProbedArchs(Members(Hosts, c)) = {a}}
    <3>1. ASSUME NEW t \in Catalogue PROVE t.name \in agreed
      BY <2>1, Zenon
    <3>2. ASSUME NEW c \in agreed PROVE \E t \in Catalogue : t.name = c
      BY <2>2, Zenon
    <3> QED  BY <3>1, <3>2, Zenon
  <2>4. \A t \in Catalogue : IsShape(t.capacity, Members(Hosts, t.name))
    BY <2>0, TypeFacts, Zenon
  <2>5. \A t \in Catalogue : t.available <=> \E m \in Members(Hosts, t.name) : Unclaimed(m)
    BY <2>0, TypeAvailable
  <2> QED  BY <2>1, <2>3, <2>4, <2>5, Zenon
<1> QED  BY <1>1, CatalogueInvariance, PTL

\* A launch that reports the pool exhausted has overlooked no free host that
\* nobody wrote during the launch (DefaultProvider.Create).
THEOREM UnwrittenHostsFound == Spec => []NoFalseExhaustion
<1>1. CatalogueInv => NoFalseExhaustion
  <2> SUFFICES ASSUME CatalogueInv, launch.pc = "exhausted" PROVE NoFalseExhaustion
    BY Zenon DEF NoFalseExhaustion
  <2>1. \A h \in steady : Claimable(h) => pool[h].class \notin {t.name : t \in launch.types}
    BY Zenon DEF CatalogueInv, WalkOK, Walking
  <2>2. ASSUME steady = Hosts, NEW t \in launch.types, t.available
        PROVE  \E h \in Hosts : /\ pool[h].class = t.name
                                /\ Unclaimed(pool[h]) /\ pool[h].maintenance
    <3>1. PICK h \in Hosts : pool[h].class = t.name /\ Unclaimed(pool[h])
      BY <2>2, Zenon DEF CatalogueInv, TypesOK, Walking
    <3>2. ~Claimable(h)  BY <2>1, <2>2, <3>1
    <3> QED  BY <3>1, <3>2 DEF Claimable
  <2> QED  BY <2>1, <2>2, Zenon DEF NoFalseExhaustion
<1> QED  BY <1>1, CatalogueInvariance, PTL

\* A launch takes the cheapest class with a free host that nobody wrote during
\* the launch (sortByPrice and the walk of DefaultProvider.Create).
THEOREM CheapestClassFirst == Spec => []CheapestFirst
<1>1. CatalogueInv => CheapestFirst
  <2> SUFFICES ASSUME CatalogueInv, launch.pc = "claimed",
                      NEW h \in steady \ {launch.host}, Claimable(h),
                      NEW t \in launch.types, t.name = pool[h].class,
                      t.price < launch.type.price
               PROVE  FALSE
    BY DEF CheapestFirst
  <2>1. launch.type \in launch.tried /\ launch.tried \subseteq launch.types
    BY Zenon DEF CatalogueInv, WalkOK, Walking
  <2>2. t.price \in Int /\ launch.type.price \in Int
    BY <2>1, Zenon DEF CatalogueInv, TypesOK, Walking
  <2>3. t \in launch.tried => t = launch.type
    BY Zenon DEF CatalogueInv, WalkOK, Walking
  <2>4. t \notin launch.tried => launch.type.price <= t.price
    BY <2>1, Zenon DEF CatalogueInv, WalkOK, Walking
  <2> QED  BY <2>2, <2>3, <2>4
<1> QED  BY <1>1, CatalogueInvariance, PTL

\* The host a launch takes is of a class the NodeClaim allows and runs what it
\* asks for, whichever member of the class it is (minCapacity and
\* resolveInstanceTypes).
THEOREM LaunchedHostFits == Spec => []LaunchFits
<1>1. CatalogueInv => LaunchFits
  <2> SUFFICES ASSUME CatalogueInv, launch.pc = "claimed", launch.host \in steady,
                      UsableCapacity(pool[launch.host].capacity)
               PROVE  Suits(pool[launch.host])
    BY Zenon DEF LaunchFits, Suits
  <2>1. /\ launch.type \in launch.types /\ pool[launch.host].class = launch.type.name
    BY Zenon DEF CatalogueInv, WalkOK, Walking
  <2> QED  BY <2>1, Zenon DEF CatalogueInv, TypesOK, Walking
<1> QED  BY <1>1, CatalogueInvariance, PTL

=============================================================================
