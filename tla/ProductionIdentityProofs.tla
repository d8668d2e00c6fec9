---------------------- MODULE ProductionIdentityProofs ----------------------
(***************************************************************************)
(* Proofs about the production identity, for any number of activators and  *)
(* identities, any evidence and any gate.                                  *)
(***************************************************************************)
EXTENDS ProductionIdentity, FiniteSetTheorems, TLAPS

USE IdentityAssumption

(* Whatever is being promoted, or was, met the gate.                       *)
WorthPromoting ==
    /\ \A a \in Activators : promoting[a] # None => Meets(EvidenceOf[promoting[a]], Gate)
    /\ \A k \in 1 .. Len(audit) : Meets(EvidenceOf[audit[k]], Gate)

(* A decision that identity.py lets through rests on evidence that meets   *)
(* the gate: evaluate_candidate's reasons leave no case out, NaN and       *)
(* missing numbers included.                                               *)
LEMMA DecisionMeetsGate ==
    ASSUME NEW e \in Evidence, NEW gate \in PromotionGate,
           IsProductionDecision(EvaluatePromotion(e, gate))
    PROVE  Meets(e, gate)
<1>1. Reasons(e, gate) = {}
  BY Zenon DEF IsProductionDecision, EvaluatePromotion
<1>2. /\ e.trades \in Nat /\ e.oosTrades \in Nat /\ e.shadowTrades \in Nat
      /\ e.oosDrawdown \in Int \cup {NaN, Missing}
      /\ e.oosExpectancy \in Int \cup {NaN, Missing}
      /\ e.humanApproved \in BOOLEAN
  BY DEF Evidence, Number
<1>3. /\ gate.minClosedTrades \in Nat /\ gate.minOosTrades \in Nat
      /\ gate.maxDrawdown \in 0 .. 99 /\ gate.minExpectancy \in Nat
      /\ gate.requireShadow \in BOOLEAN /\ gate.requireHumanApproval \in BOOLEAN
  BY DEF PromotionGate
<1>4. e.trades >= gate.minClosedTrades /\ e.oosTrades >= gate.minOosTrades
  <2>1. "total" \notin Reasons(e, gate) /\ "oos" \notin Reasons(e, gate)
    BY <1>1
  <2> QED BY <2>1, <1>2, <1>3 DEF Reasons
<1>5. e.oosDrawdown \in Int /\ e.oosDrawdown <= gate.maxDrawdown
  <2>1. OosDrawdown(e) # NaN /\ ~Greater(OosDrawdown(e), gate.maxDrawdown)
    <3>1. "drawdown" \notin Reasons(e, gate)
      BY <1>1
    <3> QED BY <3>1 DEF Reasons
  <2>2. e.oosDrawdown # NaN /\ e.oosDrawdown # Missing
    BY <2>1, <1>3 DEF OosDrawdown, Greater, PromotionGate
  <2> QED BY <2>1, <2>2, <1>2, <1>3 DEF OosDrawdown, Greater
<1>6. e.oosExpectancy \in Int /\ e.oosExpectancy > gate.minExpectancy
  <2>1. OosExpectancy(e) # NaN /\ ~AtMost(OosExpectancy(e), gate.minExpectancy)
    <3>1. "expectancy" \notin Reasons(e, gate)
      BY <1>1
    <3> QED BY <3>1 DEF Reasons
  <2>2. e.oosExpectancy # NaN /\ e.oosExpectancy # Missing
    BY <2>1, <1>3 DEF OosExpectancy, AtMost, PromotionGate
  <2> QED BY <2>1, <2>2, <1>2, <1>3 DEF OosExpectancy, AtMost
<1>7. gate.requireShadow => e.shadowTrades >= gate.minOosTrades
  <2>1. "shadow" \notin Reasons(e, gate)
    BY <1>1
  <2> QED BY <2>1, <1>2, <1>3 DEF Reasons
<1>8. gate.requireHumanApproval => e.humanApproved
  <2>1. "human" \notin Reasons(e, gate)
    BY <1>1
  <2> QED BY <2>1 DEF Reasons
<1> QED BY <1>4, <1>5, <1>6, <1>7, <1>8 DEF Meets

-----------------------------------------------------------------------------
(* The type of the state; an activator that writes knows what.             *)
Typed == TypeOK /\ \A a \in Activators : Active(a) => promoting[a] # None

LEMMA TypeStep == Typed /\ [Next]_vars => Typed'
<1> SUFFICES ASSUME Typed, [Next]_vars PROVE Typed'
  OBVIOUS
<1> USE DEF Typed, TypeOK, Active
<1>1. ASSUME NEW a \in Activators, NEW i \in Identities, Promote(a, i) PROVE Typed'
  BY <1>1 DEF Promote, kv, agent
<1>2. ASSUME NEW a \in Activators, ReadExisting(a) PROVE Typed'
  <2>1. CASE stored = None /\ pc' = [pc EXCEPT ![a] = "write"] /\ UNCHANGED <<promoting, told>>
    BY <1>2, <2>1 DEF ReadExisting, kv, agent
  <2>2. CASE Return(a, stored) \/ Return(a, told[a])
    BY <1>2, <2>2 DEF ReadExisting, Return, kv, agent
  <2> QED BY <1>2, <2>1, <2>2 DEF ReadExisting
<1>3. ASSUME NEW a \in Activators, Write(a) PROVE Typed'
  <2>1. promoting[a] \in Identities
    BY <1>3 DEF Write
  <2>2. audit' \in Seq(Identities)
    BY <1>3, <2>1 DEF Write
  <2> QED BY <1>3, <2>1, <2>2 DEF Write, Return, agent
<1>4. ASSUME NEW a \in Activators, Abandon(a) PROVE Typed'
  BY <1>4 DEF Abandon, Return, kv, agent
<1>5. CASE Service
  BY <1>5 DEF Service, BuildManifest, VerifyPersisted, StopService, kv, activation
<1>6. ASSUME NEW i \in Identities, Configure(i) PROVE Typed'
  BY <1>6 DEF Configure, kv, activation, agent
<1>7. CASE UNCHANGED vars
  BY <1>7 DEF vars, kv, activation, agent
<1> QED BY <1>1, <1>2, <1>3, <1>4, <1>5, <1>6, <1>7 DEF Next, Activation

LEMMA TypedAlways == Spec => []Typed
<1>1. Init => Typed
  BY DEF Init, Typed, TypeOK, Active
<1> QED BY <1>1, TypeStep, PTL DEF Spec

(* The state is well typed in every reachable state, for any number of     *)
(* activators that overlap in any way.                                     *)
THEOREM Typing == Spec => []TypeOK
<1>1. Typed => TypeOK
  BY DEF Typed
<1> QED BY <1>1, TypedAlways, PTL

-----------------------------------------------------------------------------
LEMMA WorthStep == Typed /\ WorthPromoting /\ [Next]_vars => WorthPromoting'
<1> SUFFICES ASSUME Typed, WorthPromoting, [Next]_vars PROVE WorthPromoting'
  OBVIOUS
<1> USE DEF Typed, TypeOK, Active, WorthPromoting
<1>1. ASSUME NEW a \in Activators, NEW i \in Identities, Promote(a, i)
      PROVE WorthPromoting'
  <2>1. Meets(EvidenceOf[i], Gate)
    BY <1>1, DecisionMeetsGate DEF Promote
  <2> QED BY <1>1, <2>1 DEF Promote, kv
<1>2. ASSUME NEW a \in Activators, ReadExisting(a) PROVE WorthPromoting'
  BY <1>2 DEF ReadExisting, Return, kv
<1>3. ASSUME NEW a \in Activators, Write(a) PROVE WorthPromoting'
  BY <1>3 DEF Write, Return
<1>4. ASSUME NEW a \in Activators, Abandon(a) PROVE WorthPromoting'
  BY <1>4 DEF Abandon, Return, kv
<1>5. CASE UNCHANGED <<kv, activation>>
  BY <1>5 DEF kv, activation
<1> QED
  BY <1>1, <1>2, <1>3, <1>4, <1>5
  DEF Next, Activation, Service, BuildManifest, VerifyPersisted, StopService,
      Configure, vars

LEMMA WorthAlways == Spec => []WorthPromoting
<1>1. Init => WorthPromoting
  BY DEF Init, WorthPromoting
<1> QED BY <1>1, WorthStep, TypedAlways, PTL DEF Spec

-----------------------------------------------------------------------------
(* The newest row is the identity; each row used up an activator that found*)
(* none, and those still writing can add one row each.                     *)
RowsExplain ==
    /\ stored = None <=> audit = <<>>
    /\ stored # None => stored = audit[Len(audit)]
    /\ Len(audit) + Cardinality(Writing) <= Cardinality(Activators)

LEMMA WritingIsFinite ==
    /\ IsFiniteSet(Writing) /\ Cardinality(Writing) \in Nat
    /\ Cardinality(Activators) \in Nat /\ Cardinality(Writing) <= Cardinality(Activators)
BY FS_Subset, FS_CardinalityType DEF Writing

(* Every step writes as the race allows, and leaves the rows explaining it.*)
LEMMA RaceStep ==
    ASSUME Typed, RowsExplain, [Next]_vars
    PROVE  RowsExplain' /\ [Register!Next]_<<stored, Writing>>
<1> USE DEF Typed, TypeOK, Active
<1>1. CASE UNCHANGED <<stored, audit, Writing>>
  BY <1>1 DEF RowsExplain
<1>2. ASSUME NEW a \in Activators, NEW i \in Identities, Promote(a, i)
      PROVE UNCHANGED <<stored, audit, Writing>>
  BY <1>2 DEF Promote, kv, Writing
<1>3. ASSUME NEW a \in Activators, ReadExisting(a)
      PROVE RowsExplain' /\ (UNCHANGED <<stored, audit, Writing>> \/ Register!FindEmpty(a))
  <2>1. CASE stored = None /\ pc' = [pc EXCEPT ![a] = "write"]
    <3>1. UNCHANGED <<stored, audit>> /\ Writing' = Writing \cup {a}
      BY <1>3, <2>1 DEF ReadExisting, kv, Writing
    <3>2. Len(audit') = 0
      BY <2>1, <3>1 DEF RowsExplain
    <3>3. Cardinality(Writing') \in Nat /\ Cardinality(Writing') <= Cardinality(Activators)
      <4>1. Writing' \subseteq Activators
        BY <3>1 DEF Writing
      <4> QED BY <4>1, FS_Subset, FS_CardinalityType
    <3>4. RowsExplain'
      BY <3>1, <3>2, <3>3 DEF RowsExplain
    <3> QED BY <2>1, <3>1, <3>4 DEF Register!FindEmpty
  <2>2. CASE Return(a, stored) \/ Return(a, told[a])
    <3>1. UNCHANGED <<stored, audit, Writing>>
      BY <1>3, <2>2 DEF ReadExisting, Return, kv, Writing
    <3> QED BY <1>1, <3>1
  <2> QED BY <1>3, <2>1, <2>2 DEF ReadExisting
<1>4. ASSUME NEW a \in Activators, Write(a)
      PROVE RowsExplain' /\ Register!Write(a, promoting[a]) /\ promoting[a] \in Identities
  <2>1. a \in Writing /\ promoting[a] \in Identities /\ stored' = promoting[a]
    BY <1>4 DEF Write, Writing
  <2>2. Writing' = Writing \ {a}
    BY <1>4 DEF Write, Return, Writing
  <2>3. /\ audit' = Append(audit, promoting[a])
        /\ Len(audit') = Len(audit) + 1 /\ audit'[Len(audit')] = promoting[a]
    BY <1>4, <2>1 DEF Write
  <2>4. Cardinality(Writing') = Cardinality(Writing) - 1
    BY <2>1, <2>2, WritingIsFinite, FS_RemoveElement
  <2>5. Len(audit') + Cardinality(Writing') <= Cardinality(Activators)
    BY <2>3, <2>4, WritingIsFinite DEF RowsExplain
  <2>6. audit' # <<>>
    BY <2>3
  <2> QED BY <2>1, <2>2, <2>3, <2>5, <2>6 DEF RowsExplain, Register!Write
<1>5. ASSUME NEW a \in Activators, Abandon(a)
      PROVE RowsExplain' /\ (UNCHANGED <<stored, audit, Writing>> \/ Register!GiveUp(a))
  <2>1. UNCHANGED <<stored, audit>> /\ Writing' = Writing \ {a}
    BY <1>5 DEF Abandon, Return, kv, Writing
  <2>2. CASE a \in Writing
    <3>1. Cardinality(Writing') = Cardinality(Writing) - 1
      BY <2>1, <2>2, WritingIsFinite, FS_RemoveElement
    <3>2. Len(audit) \in Nat
      OBVIOUS
    <3>3. Len(audit') + Cardinality(Writing') <= Cardinality(Activators)
      BY <2>1, <3>1, <3>2, WritingIsFinite DEF RowsExplain
    <3> QED BY <2>1, <2>2, <3>3 DEF RowsExplain, Register!GiveUp
  <2>3. CASE a \notin Writing
    <3>1. Writing' = Writing
      BY <2>1, <2>3
    <3> QED BY <1>1, <2>1, <3>1
  <2> QED BY <2>2, <2>3
<1>6. CASE Service \/ (\E i \in Identities : Configure(i)) \/ UNCHANGED vars
  BY <1>6, <1>1
  DEF Service, BuildManifest, VerifyPersisted, StopService, Configure, vars, kv,
      activation, Writing
<1> QED
  BY <1>1, <1>2, <1>3, <1>4, <1>5, <1>6 DEF Next, Activation, Register!Next

LEMMA RowsAlways == Spec => []RowsExplain
<1>1. Init => RowsExplain
  <2>1. ASSUME Init PROVE Len(audit) = 0
    BY <2>1 DEF Init
  <2> QED BY <2>1, WritingIsFinite DEF Init, RowsExplain
<1>2. Typed /\ RowsExplain /\ [Next]_vars => RowsExplain'
  BY RaceStep
<1> QED BY <1>1, <1>2, TypedAlways, PTL DEF Spec

(* The identity implements the register that is raced for: it is written   *)
(* only by an activation that found none, however many overlap, fail or    *)
(* are repeated (production.py activate).                                  *)
THEOREM ImplementsRegister == Spec => IdentityIsRacedFor
<1>1. Init => Register!Init
  BY DEF Init, Register!Init, Writing
<1>2. Typed /\ RowsExplain /\ [Next]_vars => [Register!Next]_<<stored, Writing>>
  BY RaceStep
<1> QED BY <1>1, <1>2, TypedAlways, RowsAlways, PTL
        DEF Spec, IdentityIsRacedFor, Register!Spec

(* Once the activations that overlapped the first one are through, the     *)
(* identity is never replaced: each later one reads it before it writes    *)
(* (production.py activate).                                               *)
THEOREM SettledForGood ==
    Spec => [][stored # None /\ Writing = {} => UNCHANGED <<stored, Writing>>]_vars
<1>1. ASSUME Typed, RowsExplain, [Next]_vars
      PROVE  [stored # None /\ Writing = {} => UNCHANGED <<stored, Writing>>]_vars
  <2>1. [Register!Next]_<<stored, Writing>>
    BY <1>1, RaceStep
  <2> QED
    BY <2>1 DEF Register!Next, Register!FindEmpty, Register!GiveUp, Register!Write
<1> QED BY <1>1, TypedAlways, RowsAlways, PTL DEF Spec

(* The audit table has a row for each time the identity was written, the   *)
(* newest for the one that is stored, and no more rows than activators     *)
(* (production.py activate).                                               *)
THEOREM AuditExplains == Spec => []AuditExplainsIdentity
<1>1. Typed /\ RowsExplain => AuditExplainsIdentity
  <2>1. TypeOK => Len(audit) \in Nat
    BY DEF TypeOK
  <2> QED BY <2>1, WritingIsFinite DEF Typed, RowsExplain, AuditExplainsIdentity
<1> QED BY <1>1, TypedAlways, RowsAlways, PTL

(* No identity is ever stored whose evidence does not meet the gate, also  *)
(* when it is replaced by an activation that overlapped (governance.py,    *)
(* promotion.py, production.py).                                           *)
THEOREM StoredIsWorthy == Spec => []StoredMeetsGate
<1>1. Typed /\ RowsExplain /\ WorthPromoting => StoredMeetsGate
  <2>1. ASSUME Typed, RowsExplain, stored # None
        PROVE  Len(audit) \in 1 .. Len(audit) /\ stored = audit[Len(audit)]
    BY <2>1 DEF Typed, TypeOK, RowsExplain
  <2> QED BY <2>1 DEF WorthPromoting, StoredMeetsGate
<1> QED BY <1>1, TypedAlways, RowsAlways, WorthAlways, PTL

-----------------------------------------------------------------------------
(* What was shown to anybody is on record.                                 *)
ShownIsAudited ==
    /\ ToldIdentityIsAudited
    /\ verified # None => verified \in ToSet(audit)
    /\ service = "running" /\ verified # None => manifest = verified

LEMMA StoredIsAudited ==
    ASSUME Typed, RowsExplain, stored # None PROVE stored \in ToSet(audit)
<1>1. Len(audit) \in DOMAIN audit /\ stored = audit[Len(audit)]
  BY DEF Typed, TypeOK, RowsExplain
<1> QED BY <1>1 DEF ToSet

LEMMA ShownStep ==
    ASSUME Typed, RowsExplain, ShownIsAudited, [Next]_vars
    PROVE  ShownIsAudited'
<1> USE DEF Typed, TypeOK, Active, ShownIsAudited, ToldIdentityIsAudited
<1>1. ASSUME NEW a \in Activators, NEW i \in Identities, Promote(a, i)
      PROVE ShownIsAudited'
  BY <1>1 DEF Promote, kv, agent
<1>2. ASSUME NEW a \in Activators, ReadExisting(a) PROVE ShownIsAudited'
  <2>1. CASE stored = None /\ UNCHANGED told
    BY <1>2, <2>1 DEF ReadExisting, kv, agent
  <2>2. CASE stored = promoting[a] /\ Return(a, stored)
    <3>1. stored \in ToSet(audit)
      BY <1>2, <2>2, StoredIsAudited DEF ReadExisting
    <3> QED BY <1>2, <2>2, <3>1 DEF ReadExisting, Return, kv, agent
  <2>3. CASE Return(a, told[a])
    BY <1>2, <2>3 DEF ReadExisting, Return, kv, agent
  <2> QED BY <1>2, <2>1, <2>2, <2>3 DEF ReadExisting
<1>3. ASSUME NEW a \in Activators, Write(a) PROVE ShownIsAudited'
  <2>1. promoting[a] \in Identities /\ audit' = Append(audit, promoting[a])
    BY <1>3 DEF Write
  <2>2. ToSet(audit') = ToSet(audit) \cup {promoting[a]}
    BY <2>1 DEF ToSet
  <2> QED BY <1>3, <2>2 DEF Write, Return, agent
<1>4. ASSUME NEW a \in Activators, Abandon(a) PROVE ShownIsAudited'
  BY <1>4 DEF Abandon, Return, kv, agent
<1>5. CASE Service
  <2>1. CASE BuildManifest \/ StopService
    BY <2>1 DEF BuildManifest, StopService, kv, activation
  <2>2. CASE VerifyPersisted
    <3>1. stored # None => stored \in ToSet(audit)
      BY StoredIsAudited
    <3> QED BY <2>2, <3>1 DEF VerifyPersisted, kv, activation
  <2> QED BY <1>5, <2>1, <2>2 DEF Service
<1>6. CASE UNCHANGED <<kv, activation, agent>>
  BY <1>6 DEF kv, activation, agent
<1> QED BY <1>1, <1>2, <1>3, <1>4, <1>5, <1>6 DEF Next, Activation, Configure, vars

LEMMA ShownAlways == Spec => []ShownIsAudited
<1>1. Init => ShownIsAudited
  BY DEF Init, ShownIsAudited, ToldIdentityIsAudited
<1> QED BY <1>1, ShownStep, TypedAlways, RowsAlways, PTL DEF Spec

(* Whatever activate returned can be found in the audit table from then on,*)
(* also when an overlapping activation replaces it (production.py).        *)
THEOREM ToldTruly == Spec => []ToldIdentityIsAudited
<1>1. ShownIsAudited => ToldIdentityIsAudited
  BY DEF ShownIsAudited
<1> QED BY <1>1, ShownAlways, PTL

(* A service that was checked against an identity runs one that was        *)
(* promoted on evidence that meets the gate, also when its files change or *)
(* the identity is replaced behind it (main.py build, production.py).      *)
THEOREM VerifiedRuns == Spec => []VerifiedAgentWasPromoted
<1>1. Typed /\ WorthPromoting /\ ShownIsAudited => VerifiedAgentWasPromoted
  <2>1. ASSUME Typed, WorthPromoting, NEW i \in ToSet(audit) PROVE Meets(EvidenceOf[i], Gate)
    BY <2>1 DEF Typed, TypeOK, WorthPromoting, ToSet
  <2> QED BY <2>1 DEF ShownIsAudited, VerifiedAgentWasPromoted
<1> QED BY <1>1, TypedAlways, WorthAlways, ShownAlways, PTL
=============================================================================
