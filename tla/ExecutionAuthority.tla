-------------------------- MODULE ExecutionAuthority --------------------------
(***************************************************************************)
(* What a dispatcher needs before it may send: an enabled execution        *)
(* principal (internal/modeldispatch), one of its identity keys in use     *)
(* (internal/modelidentity), and an active dispatcher assignment with uses *)
(* left.  Each operation is one transaction on the row it changes.         *)
(***************************************************************************)
EXTENDS Integers

CONSTANTS Keys,         \* identity keys of the principal
          Assignments,  \* dispatcher assignments of the principal
          MaxUses       \* max_invocations of an assignment

ASSUME AuthorityAssumption == MaxUses \in Nat \ {0}

VARIABLES principal, key, assignment
authorityVars == <<principal, key, assignment>>

KeyStatus == {"absent", "active", "retiring", "retired", "revoked"}
AssignmentStatus == {"absent", "active", "exhausted", "revoked", "expired"}

AuthorityTypeOK ==
    /\ principal \in {"active", "disabled"}
    /\ key \in [Keys -> KeyStatus]
    /\ assignment \in [Assignments -> [status : AssignmentStatus, used : 0..MaxUses]]

AuthorityInit ==
    /\ principal = "active"
    /\ key = [k \in Keys |-> "absent"]
    /\ assignment = [a \in Assignments |-> [status |-> "absent", used |-> 0]]

DisablePrincipal ==
    /\ principal = "active"
    /\ principal' = "disabled"
    /\ UNCHANGED <<key, assignment>>

\* The first key of the principal; a later one comes from a rotation.
RegisterKey(k) ==
    /\ \A j \in Keys : key[j] = "absent"
    /\ key' = [key EXCEPT ![k] = "active"]
    /\ UNCHANGED <<principal, assignment>>

RotateKey(old, new) ==
    /\ key[old] = "active" /\ key[new] = "absent"
    /\ key' = [key EXCEPT ![old] = "retiring", ![new] = "active"]
    /\ UNCHANGED <<principal, assignment>>

RetireKey(k) ==
    /\ key[k] = "retiring"
    /\ key' = [key EXCEPT ![k] = "retired"]
    /\ UNCHANGED <<principal, assignment>>

RevokeKey(k) ==
    /\ key[k] \in {"active", "retiring"}
    /\ key' = [key EXCEPT ![k] = "revoked"]
    /\ UNCHANGED <<principal, assignment>>

KeyUsable(k) == key[k] \in {"active", "retiring"}

CreateAssignment(a) ==
    /\ assignment[a].status = "absent"
    /\ principal = "active"
    /\ assignment' = [assignment EXCEPT ![a].status = "active"]
    /\ UNCHANGED <<principal, key>>

RevokeAssignment(a) ==
    /\ assignment[a].status = "active"
    /\ assignment' = [assignment EXCEPT ![a].status = "revoked"]
    /\ UNCHANGED <<principal, key>>

\* ExpireAssignments, one row of the batch: valid_until has passed.
ExpireAssignment(a) ==
    /\ assignment[a].status = "active"
    /\ assignment' = [assignment EXCEPT ![a].status = "expired"]
    /\ UNCHANGED <<principal, key>>

AssignmentUsable(a) == assignment[a].status = "active" /\ assignment[a].used < MaxUses

\* The consumption inside PersistPreSendAllowAndMarkSendStarted: the last use
\* exhausts the assignment.
Consumed(a) ==
    [assignment EXCEPT ![a].used = @ + 1,
                       ![a].status = IF assignment[a].used + 1 >= MaxUses
                                     THEN "exhausted" ELSE "active"]

AuthoritySetUp ==
    \/ \E k \in Keys : RegisterKey(k)
    \/ \E a \in Assignments : CreateAssignment(a)

AuthorityChange ==
    \/ DisablePrincipal
    \/ \E k \in Keys : RetireKey(k) \/ RevokeKey(k)
    \/ \E old, new \in Keys : RotateKey(old, new)
    \/ \E a \in Assignments : RevokeAssignment(a) \/ ExpireAssignment(a)
=============================================================================
