-------------------------- MODULE ProductionIdentity --------------------------
(***************************************************************************)
(* The production identity (research/production.py): operators activate    *)
(* approved strategies, each in a process of its own, and the service      *)
(* compares the strategy its files describe with the identity it finds     *)
(* (main.py build).  An identity stands for the triple of version,         *)
(* configuration hash and risk hash.                                       *)
(*                                                                         *)
(* activate reads the stored identity by a statement of its own, and only  *)
(* then begins the transaction that writes it: activations may overlap, and*)
(* nothing keeps a second one from writing after it read that there is     *)
(* none.                                                                   *)
(***************************************************************************)
EXTENDS Governance, FiniteSets, SequencesExt

CONSTANTS
    Activators,      \* processes that call activate
    Identities,      \* strategies an operator may promote or configure
    EvidenceOf,      \* what is known of each
    Gate,            \* the PromotionGate in use
    None

ASSUME IdentityAssumption ==
    /\ NaN \notin Int /\ Missing \notin Int
    /\ None \notin Identities /\ IsFiniteSet(Activators)
    /\ EvidenceOf \in [Identities -> Evidence]
    /\ Gate \in PromotionGate

VARIABLES
    stored,          \* kv_state "production_strategy_identity"
    audit,           \* table strategy_promotion_audit: the identities recorded
    pc, promoting,   \* of each activator: where it is, and for which identity
    told,            \* of each activator: the identity activate last returned
    files,           \* what the service's configuration files describe
    service,         \* "down", "building" or "running"
    manifest,        \* the manifest the service built from its files
    verified         \* the identity verify_persisted returned

kv == <<stored, audit>>
activation == <<pc, promoting, told>>
agent == <<service, manifest, verified>>
vars == <<kv, activation, files, agent>>

TypeOK ==
    /\ stored \in Identities \cup {None}
    /\ audit \in Seq(Identities)
    /\ pc \in [Activators -> {"idle", "read", "write"}]
    /\ promoting \in [Activators -> Identities \cup {None}]
    /\ told \in [Activators -> Identities \cup {None}]
    /\ files \in Identities
    /\ service \in {"down", "building", "running"}
    /\ manifest \in Identities \cup {None}
    /\ verified \in Identities \cup {None}

Init ==
    /\ stored = None /\ audit = <<>>
    /\ pc = [a \in Activators |-> "idle"]
    /\ promoting = [a \in Activators |-> None]
    /\ told = [a \in Activators |-> None]
    /\ files \in Identities
    /\ service = "down" /\ manifest = None /\ verified = None

-----------------------------------------------------------------------------
(* activate.                                                               *)

Active(a) == pc[a] # "idle"

(* require_production_decision raises for any other decision.              *)
IsProductionDecision(decision) == decision.approved /\ decision.state = "PRODUCTION"

Promote(a, i) ==
    /\ ~Active(a)
    /\ IsProductionDecision(EvaluatePromotion(EvidenceOf[i], Gate))
    /\ pc' = [pc EXCEPT ![a] = "read"]
    /\ promoting' = [promoting EXCEPT ![a] = i]
    /\ UNCHANGED <<kv, told, files, agent>>

Return(a, i) ==
    /\ pc' = [pc EXCEPT ![a] = "idle"]
    /\ promoting' = [promoting EXCEPT ![a] = None]
    /\ told' = [told EXCEPT ![a] = i]

ReadExisting_OnlyForSame(a) ==
    /\ pc[a] = "read"
    /\ IF stored = promoting[a]
         THEN Return(a, stored)
         ELSE pc' = [pc EXCEPT ![a] = "write"] /\ UNCHANGED <<promoting, told>>
    /\ UNCHANGED <<kv, files, agent>>

ReadExisting_NeverRaises(a) ==
    /\ pc[a] = "read"
    /\ IF stored = None
         THEN pc' = [pc EXCEPT ![a] = "write"] /\ UNCHANGED <<promoting, told>>
         ELSE Return(a, promoting[a])
    /\ UNCHANGED <<kv, files, agent>>

(* An existing identity is returned if it is the same, and activate raises *)
(* if it is another.                                                       *)
ReadExisting(a) ==
    /\ pc[a] = "read"
    /\ \/ /\ stored = None
          /\ pc' = [pc EXCEPT ![a] = "write"] /\ UNCHANGED <<promoting, told>>
       \/ stored = promoting[a] /\ Return(a, stored)
       \/ stored \notin {None, promoting[a]} /\ Return(a, told[a])
    /\ UNCHANGED <<kv, files, agent>>

Write_KeepsRowOnFailure(a) ==
    /\ pc[a] = "write"
    /\ audit' = Append(audit, promoting[a])
    /\ \/ stored' = promoting[a] /\ Return(a, promoting[a])
       \/ UNCHANGED stored /\ Return(a, told[a])
    /\ UNCHANGED <<files, agent>>

Write_ClearsFirst(a) ==
    /\ pc[a] = "write"
    /\ Return(a, promoting[a])
    /\ stored' = promoting'[a]
    /\ audit' = Append(audit, promoting'[a])
    /\ UNCHANGED <<files, agent>>

(* The audit row and the identity, in one transaction.                     *)
Write(a) ==
    /\ pc[a] = "write"
    /\ audit' = Append(audit, promoting[a])
    /\ stored' = promoting[a]
    /\ Return(a, promoting[a])
    /\ UNCHANGED <<files, agent>>

(* The process stops, or the database is busy and activate raises: nothing *)
(* of an open transaction is left.                                         *)
Abandon(a) ==
    /\ Active(a)
    /\ Return(a, told[a])
    /\ UNCHANGED <<kv, files, agent>>

-----------------------------------------------------------------------------
(* The service.                                                            *)

Configure(i) ==
    /\ files # i
    /\ files' = i
    /\ UNCHANGED <<kv, activation, agent>>

BuildManifest ==
    /\ service = "down"
    /\ service' = "building" /\ manifest' = files
    /\ UNCHANGED <<kv, activation, files, verified>>

VerifyPersisted_ChecksFiles ==
    /\ service = "building"
    /\ stored \in {None, files}
    /\ service' = "running" /\ verified' = stored
    /\ UNCHANGED <<kv, activation, files, manifest>>

(* verify_persisted accepts any manifest while nothing is stored.          *)
VerifyPersisted ==
    /\ service = "building"
    /\ stored \in {None, manifest}
    /\ service' = "running" /\ verified' = stored
    /\ UNCHANGED <<kv, activation, files, manifest>>

(* It raises on a mismatch, or the process is stopped.                     *)
StopService ==
    /\ service # "down"
    /\ service' = "down" /\ manifest' = None /\ verified' = None
    /\ UNCHANGED <<kv, activation, files>>

-----------------------------------------------------------------------------
Activation == \E a \in Activators :
    \/ \E i \in Identities : Promote(a, i)
    \/ ReadExisting(a) \/ Write(a) \/ Abandon(a)
Service == BuildManifest \/ VerifyPersisted \/ StopService

Next == Activation \/ Service \/ \E i \in Identities : Configure(i)

Spec == Init /\ [][Next]_vars

-----------------------------------------------------------------------------
(* What it takes to be promoted, said without the code's reasons: every    *)
(* number is there and on the right side of its limit.                     *)
Meets(e, gate) ==
    /\ e.trades >= gate.minClosedTrades /\ e.oosTrades >= gate.minOosTrades
    /\ e.oosDrawdown \in Int /\ e.oosDrawdown <= gate.maxDrawdown
    /\ e.oosExpectancy \in Int /\ e.oosExpectancy > gate.minExpectancy
    /\ gate.requireShadow => e.shadowTrades >= gate.minOosTrades
    /\ gate.requireHumanApproval => e.humanApproved

(* The stored identity has evidence that meets the gate: no NaN, missing   *)
(* number or short cut through the lifecycle gets past it                  *)
(* (governance.py, promotion.py, identity.py).                             *)
StoredMeetsGate == stored # None => Meets(EvidenceOf[stored], Gate)

(* Only an activation that found no identity writes one, whatever others   *)
(* do between its read and its write and whichever fail: an identity can be*)
(* replaced by activations that overlapped the one that stored it, by each *)
(* of them once, and by nobody afterwards (production.py activate).        *)
Writing == {a \in Activators : pc[a] = "write"}
Register == INSTANCE RaceToWrite
    WITH Writers <- Activators, Values <- Identities, Empty <- None,
         value <- stored, racing <- Writing
IdentityIsRacedFor == Register!Spec

(* Whoever was told that an identity is in production can find it in the   *)
(* audit table, where it has been replaced since only if it is not the last*)
(* row (production.py activate).                                           *)
ToldIdentityIsAudited ==
    \A a \in Activators : told[a] # None => told[a] \in ToSet(audit)

(* The audit table explains the stored identity: there is none without a   *)
(* row and no row without one, the newest row is the identity, and one that*)
(* is replaced by an overlapping activation has a row before it; there is  *)
(* at most one row for each activator (production.py activate).            *)
AuditExplainsIdentity ==
    /\ stored = None <=> audit = <<>>
    /\ stored # None => stored = audit[Len(audit)]
    /\ Len(audit) <= Cardinality(Activators)

(* An agent that was checked against an identity runs one that was promoted*)
(* and met the gate, although its files may have changed since, others have*)
(* been promoted and overlapping activations may have replaced it (main.py *)
(* build, production.py verify_persisted).                                 *)
VerifiedAgentWasPromoted ==
    (service = "running" /\ verified # None) =>
        manifest \in ToSet(audit) /\ Meets(EvidenceOf[manifest], Gate)
=============================================================================
