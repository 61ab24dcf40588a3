--------------------------- MODULE MCInstanceTypes ---------------------------
(* Finite instances of InstanceTypes for TLC.                              *)
EXTENDS InstanceTypes

\* Small and large hosts, with and without a device, one that declares its own
\* pod limit, and one whose declared cpu is zero.
Small  == [cpu |-> 2, memory |-> 2]
Large  == [cpu |-> 3, memory |-> 3]
Device == [cpu |-> 2, memory |-> 3, gpu |-> 1]
Few    == [cpu |-> 3, memory |-> 2, gpu |-> 1, pods |-> 1]
Zero   == [cpu |-> 0, memory |-> 3]

AllSpecs ==
  {[class |-> "a", capacity |-> Small, arch |-> "amd64"],
   [class |-> "a", capacity |-> Device, arch |-> ""],
   [class |-> "a", capacity |-> Device, arch |-> "arm64"],
   [class |-> "a", capacity |-> Few, arch |-> "amd64"],
   [class |-> "a", capacity |-> Zero, arch |-> "amd64"],
   [class |-> "b", capacity |-> Small, arch |-> "amd64"],
   [class |-> "b", capacity |-> Large, arch |-> "amd64"]}

AllRequests == {[cpu |-> 1, pods |-> 1], [cpu |-> 2, pods |-> 1],
                [cpu |-> 1, gpu |-> 1, pods |-> 2]}
\* A NodeClaim that names its class.
OnlyB == {{"b"}}
OneReserved == [cpu |-> 1, memory |-> 1]

=============================================================================
