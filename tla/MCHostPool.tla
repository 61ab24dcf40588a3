----------------------------- MODULE MCHostPool -----------------------------
(* Finite instances of HostPool for TLC.                                   *)
EXTENDS HostPool, TLC

CONSTANTS a, b, u1, u2, t1, t2

\* One NodeClaim; two with names of their own; two that share a name.
OneClaim   == {[name |-> a, uid |-> u1]}
TwoClaims  == {[name |-> a, uid |-> u1], [name |-> b, uid |-> u2]}
ReusedName == {[name |-> a, uid |-> u1], [name |-> a, uid |-> u2]}

TwoTokens == {t1, t2}

\* Renaming token ids, or exchanging the two NodeClaims of one name, maps
\* behaviours to behaviours.
Keeps(p, S) == {p[x] : x \in S} = S
ReusedSym == {p \in Permutations({u1, u2, t1, t2}) :
                Keeps(p, {u1, u2}) /\ Keeps(p, {t1, t2})}

=============================================================================
