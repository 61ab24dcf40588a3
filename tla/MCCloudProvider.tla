--------------------------- MODULE MCCloudProvider ---------------------------
(* Finite instances of CloudProvider for TLC.                              *)
EXTENDS CloudProvider

CONSTANT c1

\* One NodeClaim, of an earlier release or not there yet; after its deletion
\* core may provision it again.
OneClaim == {c1}

=============================================================================
