----------------------------- MODULE HostLease -----------------------------
(***************************************************************************)
(* What the host pool promises karpenter: a host is leased to one NodeClaim*)
(* at a time, passes from one to the next only through the free pool, and a*)
(* NodeClaim that has launched neither takes another host nor loses the one*)
(* it has before it is deleted.                                            *)
(***************************************************************************)
CONSTANTS Hosts, NodeClaims, NoClaim

VARIABLES
  holder,  \* the NodeClaim each host is leased to
  phase    \* the lifecycle of each NodeClaim

vars == <<holder, phase>>

Init ==
  /\ holder = [h \in Hosts |-> NoClaim]
  /\ phase = [c \in NodeClaims |-> "absent"]

Appear(c) ==
  /\ phase[c] = "absent"
  /\ phase' = [phase EXCEPT ![c] = "live"]
  /\ UNCHANGED holder

\* A launch in progress takes a free host.  It may outlive its NodeClaim.
Acquire(h, c) ==
  /\ holder[h] = NoClaim
  /\ phase[c] \notin {"absent", "launched"}
  /\ holder' = [holder EXCEPT ![h] = c]
  /\ UNCHANGED phase

Launch(c) ==
  /\ phase[c] = "live"
  /\ \E h \in Hosts : holder[h] = c
  /\ phase' = [phase EXCEPT ![c] = "launched"]
  /\ UNCHANGED holder

\* A failed launch, a deleted or a vanished NodeClaim gives its host back.
Surrender(h) ==
  /\ holder[h] # NoClaim
  /\ phase[holder[h]] # "launched"
  /\ holder' = [holder EXCEPT ![h] = NoClaim]
  /\ UNCHANGED phase

Retire(c) ==
  /\ phase[c] \in {"live", "launched"}
  /\ phase' = [phase EXCEPT ![c] = "deleting"]
  /\ UNCHANGED holder

Vanish(c) ==
  /\ phase[c] \in {"live", "launched", "deleting"}
  /\ phase' = [phase EXCEPT ![c] = "gone"]
  /\ UNCHANGED holder

Next ==
  \/ \E c \in NodeClaims : Appear(c) \/ Launch(c) \/ Retire(c) \/ Vanish(c)
  \/ \E h \in Hosts : Surrender(h) \/ \E c \in NodeClaims : Acquire(h, c)

Spec == Init /\ [][Next]_vars

=============================================================================
