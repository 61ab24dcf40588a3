------------------------------ MODULE NodeClass ------------------------------
(***************************************************************************)
(* The SSHNodeClass resource and its reconciler: the Ready condition,      *)
(* derived from the join profile and the registered hosts, and the         *)
(* finalizer that holds the class while NodeClaims reference it.  The      *)
(* NodeClaims themselves are the business of CloudProvider, which extends  *)
(* this module with the steps that create and remove them.                 *)
(*                                                                         *)
(* Every object is read from an informer cache of its own; a cache that    *)
(* catches up wakes the reconciler as the watches of Register say.         *)
(***************************************************************************)
EXTENDS Naturals, FiniteSets

CONSTANTS
  Claims,     \* the NodeClaims that may reference the class
  MaxEdits,   \* bound on edits of the class, the profile and the hosts
  MaxFaults   \* bound on failed API writes and restarts

ASSUME NodeClassBounds == MaxEdits \in Nat /\ MaxFaults \in Nat

VARIABLES
  class,        \* the SSHNodeClass on the API server
  classCache,
  classSynced,  \* the cached class has the current resourceVersion
  profile,      \* the SSHJoinProfile the class names
  profileCache,
  hosts,        \* the selector of the class matches a registered host
  hostsCache,
  claims,       \* the NodeClaims that exist
  claimsCache,
  queued,       \* the class is in the reconciler's work queue
  work,         \* the Reconcile in progress
  edits, faults

Bounds    == <<edits, faults>>
world     == <<class, profile, hosts>>
caches    == <<classCache, classSynced, profileCache, hostsCache>>
classVars == <<world, caches, claims, claimsCache, queued, work, Bounds>>

NotReady == {"ProfileNotFound", "ProfileInvalid", "SelectorError", "NoHosts"}
ReadyStatus == {"Unknown", "True"} \cup NotReady

\* join: the value of the spec fields a join is rendered from; selector: the
\* host selector parses.
ClassObject == [exists : BOOLEAN, deleting : BOOLEAN, finalizer : BOOLEAN,
                ready : ReadyStatus, join : 0 .. MaxEdits, selector : BOOLEAN]
ProfileObject == [exists : BOOLEAN, valid : BOOLEAN, version : 0 .. MaxEdits]

NewClass == [exists |-> TRUE, deleting |-> FALSE, finalizer |-> FALSE,
             ready |-> "Unknown", join |-> 0, selector |-> TRUE]

Idle == [pc |-> "idle", copy |-> NewClass, fresh |-> FALSE, verdict |-> "Unknown"]

\* The types; and a class NodeClaims may be launched from has the finalizer
\* that waits for them.
ClassTypeOK ==
  /\ class.exists /\ class.ready # "Unknown" => class.finalizer
  /\ class \in ClassObject /\ classCache \in ClassObject
  /\ profile \in ProfileObject /\ profileCache \in ProfileObject
  /\ {classSynced, hosts, hostsCache, queued} \subseteq BOOLEAN
  /\ claims \subseteq Claims /\ claimsCache \subseteq Claims
  /\ work \in [pc : {"idle", "addFinalizer", "patch", "removeFinalizer"},
               copy : ClassObject, fresh : BOOLEAN, verdict : ReadyStatus]
  /\ edits \in 0 .. MaxEdits /\ faults \in 0 .. MaxFaults

ClassInit ==
  /\ class = NewClass /\ classCache = class /\ classSynced = TRUE
  /\ profile = [exists |-> TRUE, valid |-> TRUE, version |-> 0]
  /\ profileCache = profile
  /\ hosts = TRUE /\ hostsCache = TRUE
  /\ claimsCache = claims
  /\ queued = TRUE
  /\ work = Idle
  /\ edits = 0 /\ faults = 0

Fault == faults < MaxFaults /\ faults' = faults + 1

-----------------------------------------------------------------------------
(* The reconciler.                                                         *)

\* The Ready condition Reconcile computes, in the order it checks.
Verdict(c, p, h) ==
  IF ~p.exists THEN "ProfileNotFound"
  ELSE IF ~p.valid THEN "ProfileInvalid"
  ELSE IF ~c.selector THEN "SelectorError"
  ELSE IF ~h THEN "NoHosts"
  ELSE "True"

\* The rest of Reconcile for the copy c: derive the condition and, unless it
\* is the copy's already, patch it (patchStatusIfChanged).
Derive(c) ==
  LET v == Verdict(c, profileCache, hostsCache)
  IN work' = IF v = c.ready THEN Idle
             ELSE [Idle EXCEPT !.pc = "patch", !.copy = c, !.verdict = v]

\* Mutant: the last NodeClaim to go is not noticed.
AlwaysBlocked == TRUE

\* finalize: deletion waits for the referencing NodeClaims in the cache.
Blocked == claimsCache # {}

\* Mutant: the condition is derived whether or not the finalizer is there.
HasFinalizer(c) == TRUE

\* The first Reconcile of a class only goes on once the finalizer is written.
Protected(c) == c.finalizer

Reconcile ==
  /\ queued /\ work.pc = "idle"
  /\ queued' = FALSE
  /\ \/ /\ ~classCache.exists \/ (classCache.deleting /\ ~classCache.finalizer)
        /\ UNCHANGED work
     \/ /\ classCache.exists /\ classCache.deleting /\ classCache.finalizer
        /\ work' = IF Blocked THEN Idle
                   ELSE [Idle EXCEPT !.pc = "removeFinalizer",
                                     !.copy = classCache, !.fresh = classSynced]
     \/ /\ classCache.exists /\ ~classCache.deleting /\ ~Protected(classCache)
        /\ work' = [Idle EXCEPT !.pc = "addFinalizer", !.copy = classCache,
                                !.fresh = classSynced]
     \/ /\ classCache.exists /\ ~classCache.deleting /\ Protected(classCache)
        /\ Derive(classCache)
  /\ UNCHANGED <<world, caches, claims, claimsCache, Bounds>>

\* An Update replaces the object and fails unless the copy is current.
AddFinalizer ==
  /\ work.pc = "addFinalizer"
  /\ IF work.fresh
     THEN /\ class' = [class EXCEPT !.finalizer = TRUE]
          /\ classSynced' = FALSE
          /\ Derive(class')
          /\ UNCHANGED queued
     ELSE /\ work' = Idle
          /\ queued' = TRUE
          /\ UNCHANGED <<class, classSynced>>
  /\ UNCHANGED <<profile, hosts, classCache, profileCache, hostsCache, claims,
                 claimsCache, Bounds>>

\* Without its last finalizer a deleted object is gone.
RemoveFinalizer ==
  /\ work.pc = "removeFinalizer"
  /\ work' = Idle
  /\ IF work.fresh
     THEN /\ class' = [class EXCEPT !.finalizer = FALSE, !.exists = FALSE]
          /\ classSynced' = FALSE
          /\ UNCHANGED queued
     ELSE /\ queued' = TRUE
          /\ UNCHANGED <<class, classSynced>>
  /\ UNCHANGED <<profile, hosts, classCache, profileCache, hostsCache, claims,
                 claimsCache, Bounds>>

\* A merge patch of the status, without a lock: it lands on whatever version
\* the server holds.
PatchStatus ==
  /\ work.pc = "patch"
  /\ work' = Idle
  /\ IF class.exists
     THEN /\ class' = [class EXCEPT !.ready = work.verdict]
          /\ classSynced' = FALSE
          /\ UNCHANGED queued
     ELSE /\ queued' = TRUE
          /\ UNCHANGED <<class, classSynced>>
  /\ UNCHANGED <<profile, hosts, classCache, profileCache, hostsCache, claims,
                 claimsCache, Bounds>>

\* Any of the writes fails; Reconcile returns the error and is retried.
WriteFails ==
  /\ work.pc # "idle"
  /\ Fault
  /\ work' = Idle
  /\ queued' = TRUE
  /\ UNCHANGED <<world, caches, claims, claimsCache, edits>>

\* A new leader lists everything anew.
Restart ==
  /\ Fault
  /\ work' = Idle
  /\ classCache' = class /\ classSynced' = TRUE
  /\ profileCache' = profile /\ hostsCache' = hosts /\ claimsCache' = claims
  /\ queued' = class.exists
  /\ UNCHANGED <<world, claims, edits>>

-----------------------------------------------------------------------------
(* The watches of Register.                                                *)

\* Mutant: status updates of the class are filtered out.
SpecEvent == \/ classCache.join # class.join
             \/ classCache.selector # class.selector
             \/ classCache.deleting # class.deleting

\* For(SSHNodeClass) without a predicate: status updates wake it too.
ClassEvent == TRUE

SyncClass ==
  /\ ~classSynced
  /\ classCache' = class /\ classSynced' = TRUE
  /\ queued' = (queued \/ ClassEvent)
  /\ UNCHANGED <<world, profileCache, hostsCache, claims, claimsCache, work, Bounds>>

\* allNodeClasses maps profile and host events to the cached classes.
SyncProfile ==
  /\ profileCache # profile
  /\ profileCache' = profile
  /\ queued' = (queued \/ classCache.exists)
  /\ UNCHANGED <<world, classCache, classSynced, hostsCache, claims, claimsCache,
                 work, Bounds>>

SyncHosts ==
  /\ hostsCache # hosts
  /\ hostsCache' = hosts
  /\ queued' = (queued \/ classCache.exists)
  /\ UNCHANGED <<world, classCache, classSynced, profileCache, claims,
                 claimsCache, work, Bounds>>

\* nodeClassForClaim.
SyncClaims ==
  /\ claimsCache # claims
  /\ claimsCache' = claims
  /\ queued' = TRUE
  /\ UNCHANGED <<world, caches, claims, work, Bounds>>

-----------------------------------------------------------------------------
(* The operator.                                                           *)

Edited(c) ==
  /\ class.exists
  /\ class' = c /\ classSynced' = FALSE
  /\ work' = [work EXCEPT !.fresh = FALSE]
  /\ UNCHANGED <<profile, hosts>>

\* A join-affecting edit, a scheduling edit, the deletion of the class; an
\* edit, deletion or restoration of the profile; hosts relabelled.  Join values
\* and profile versions are always new ones: no edit restores an earlier value.
OperatorEdits ==
  /\ edits < MaxEdits
  /\ edits' = edits + 1
  /\ \/ Edited([class EXCEPT !.join = @ + 1])
     \/ Edited([class EXCEPT !.selector = ~@])
     \/ /\ ~class.deleting
        /\ Edited([class EXCEPT !.deleting = TRUE, !.exists = class.finalizer])
     \/ /\ \/ profile' = [profile EXCEPT !.version = @ + 1, !.valid = TRUE]
           \/ profile' = [profile EXCEPT !.valid = ~@]
           \/ profile' = [profile EXCEPT !.exists = ~@]
        /\ UNCHANGED <<class, hosts, classSynced, work>>
     \/ hosts' = ~hosts /\ UNCHANGED <<class, profile, classSynced, work>>
  /\ UNCHANGED <<classCache, profileCache, hostsCache, claims, claimsCache,
                 queued, faults>>

ClassNext ==
  \/ Reconcile \/ AddFinalizer \/ RemoveFinalizer \/ PatchStatus \/ WriteFails
  \/ Restart \/ SyncClass \/ SyncProfile \/ SyncHosts \/ SyncClaims
  \/ OperatorEdits

=============================================================================
