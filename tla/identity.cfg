SPECIFICATION Spec
CONSTANTS
    sound = sound
    better = better
    unproven = unproven
    degenerate = degenerate
    NaN = NaN
    Missing = Missing
    None = None
    Activators = {a1, a2, a3}
    Identities <- MCIdentities
    EvidenceOf <- MCEvidenceOf
    Gate <- MCGate
INVARIANTS
    TypeOK
    ToldIdentityIsAudited
    AuditExplainsIdentity
    VerifiedAgentWasPromoted
    StoredMeetsGate
PROPERTY
    IdentityIsRacedFor
