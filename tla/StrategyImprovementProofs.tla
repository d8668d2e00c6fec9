--------------------- MODULE StrategyImprovementProofs ---------------------
(***************************************************************************)
(* Theorems about StrategyImprovement, for every evidence, policy and set  *)
(* of risk configurations.                                                 *)
(***************************************************************************)
EXTENDS StrategyImprovement, TLAPS, FiniteSetTheorems, SequenceTheorems

(* What a proposal or plan says is what its id says.                       *)
Consistent(r) ==
    /\ IsName(r.id)
    /\ \E i \in DOMAIN Candidates :
          Candidates[i].code = r.id[2] /\ Candidates[i].target = r.id[3]
    /\ r.base = r.id[1]
    /\ r.challenger = <<r.id[1], "challenger", r.id[4] + 1, r.id[3]>>
    /\ r.scope = ScopeOf(r.id[2])
    /\ r.target \in {None, r.id[3]}

IsProposal(p) == Consistent(p) /\ p.evidence \in Int
IsPlan(p) == Consistent(p) /\ p.risk \in RiskConfigs

IInv ==
    /\ \A id \in DOMAIN proposals : proposals[id].id = id /\ IsProposal(proposals[id])
    /\ \A id \in DOMAIN plans : plans[id].id = id /\ IsPlan(plans[id])
    /\ \A p \in batch : IsProposal(p)
    /\ draft # None => IsPlan(draft)

-----------------------------------------------------------------------------
LEMMA CandidateType ==
    /\ Candidates \in Seq([code : Codes, target : Targets \cup {None}])
    /\ \A i \in DOMAIN Candidates :
          \/ Candidates[i] = Global("RECENT_DEGRADATION")
          \/ Candidates[i] = Global("FORCED_EXIT_DOMINANT")
          \/ \E k \in DOMAIN Buckets : Candidates[i] = Buckets[k]
<1> DEFINE G == <<Global("RECENT_DEGRADATION"), Global("FORCED_EXIT_DOMINANT")>>
           F == [code : Codes, target : Targets \cup {None}]
<1>1. G \in Seq(F)
  BY DEF Global, Codes
<1>2. Buckets \in Seq(F)
  <2>1. Buckets \in Seq([code : BucketCodes, target : Targets])
    BY ImprovementAssumption
  <2>2. [code : BucketCodes, target : Targets] \subseteq F
    BY DEF BucketCodes
  <2> QED BY <2>1, <2>2, SeqMonotonic
<1>3. /\ Candidates \in Seq(F)
      /\ Len(Candidates) = 2 + Len(Buckets)
      /\ \A i \in 1 .. Len(Candidates) :
            Candidates[i] = IF i <= 2 THEN G[i] ELSE Buckets[i - 2]
  <2>1. Len(G) = 2
    OBVIOUS
  <2> HIDE DEF G, F
  <2>2. Candidates = G \o Buckets
    BY DEF Candidates, G
  <2>3. /\ Candidates \in Seq(F)
        /\ Len(Candidates) = Len(G) + Len(Buckets)
        /\ \A i \in 1 .. Len(G) + Len(Buckets) :
              Candidates[i] = IF i <= Len(G) THEN G[i] ELSE Buckets[i - Len(G)]
    BY <1>1, <1>2, <2>2, ConcatProperties, Zenon
  <2> QED BY <2>1, <2>3
<1>4. ASSUME NEW i \in DOMAIN Candidates
      PROVE  \/ Candidates[i] = G[1] \/ Candidates[i] = G[2]
             \/ \E k \in DOMAIN Buckets : Candidates[i] = Buckets[k]
  <2>1. i \in 1 .. Len(Candidates) /\ Len(Buckets) \in Nat
    BY <1>2, <1>3
  <2>2. CASE i <= 2
    BY <2>1, <2>2, <1>3
  <2>3. CASE ~(i <= 2)
    <3>1. i - 2 \in 1 .. Len(Buckets)
      BY <2>1, <2>3, <1>3
    <3> QED BY <3>1, <2>1, <2>3, <1>2, <1>3
  <2> QED BY <2>2, <2>3
<1> QED BY <1>3, <1>4

LEMMA MeasuredType ==
    ASSUME NEW e \in Evidences, NEW i \in DOMAIN Candidates
    PROVE  Measured(e, Candidates[i]).expectancy \in Int
<1>1. e.recent \in Bucket /\ e.forced \in Bucket /\ \A k \in DOMAIN Buckets : e.in[k] \in Bucket
  BY ImprovementAssumption
<1>2. CASE Candidates[i] \in {Global("RECENT_DEGRADATION"), Global("FORCED_EXIT_DOMINANT")}
  BY <1>1, <1>2 DEF Measured, Global, Bucket
<1>3. CASE \E k \in DOMAIN Buckets : Candidates[i] = Buckets[k]
  <2>1. PICK k \in DOMAIN Buckets : Candidates[i] = Buckets[k]
    BY <1>3
  <2>2. Buckets[k].code \notin {"RECENT_DEGRADATION", "FORCED_EXIT_DOMINANT"}
    <3>1. Buckets \in Seq([code : BucketCodes, target : Targets])
      BY ImprovementAssumption
    <3>2. Buckets[k] \in [code : BucketCodes, target : Targets]
      BY <2>1, <3>1, LenProperties
    <3> QED BY <3>2 DEF BucketCodes
  <2>3. (CHOOSE j \in DOMAIN Buckets : Buckets[j] = Candidates[i]) \in DOMAIN Buckets
    BY <2>1
  <2>4. Measured(e, Candidates[i]) \in Bucket
    BY <1>1, <2>1, <2>2, <2>3 DEF Measured
  <2> QED BY <2>4 DEF Bucket
<1> QED BY <1>2, <1>3, CandidateType

LEMMA RankType ==
    ASSUME NEW e, NEW i
    PROVE  Rank(e, i) \in Nat
<1>1. IsFiniteSet(DOMAIN Candidates)
  <2>1. DOMAIN Candidates = 1 .. Len(Candidates) /\ Len(Candidates) \in Nat
    BY CandidateType
  <2> QED BY <2>1, FS_Interval
<1>2. {j \in Found(e) : j <= i} \subseteq DOMAIN Candidates
  BY DEF Found
<1> QED BY <1>1, <1>2, FS_Subset, FS_CardinalityType DEF Rank

LEMMA ProposedAreNamed ==
    ASSUME NEW e \in Evidences
    PROVE  \A p \in Proposed(e) : IsProposal(p)
<1> SUFFICES ASSUME NEW i \in Found(e)
             PROVE  IsProposal(Proposal(e, Candidates[i], Rank(e, i)))
  BY DEF Proposed
<1> DEFINE f == Candidates[i]
           p == Proposal(e, f, Rank(e, i))
<1>1. i \in DOMAIN Candidates
  BY DEF Found
<1>2. f \in [code : Codes, target : Targets \cup {None}]
  BY <1>1, CandidateType, LenProperties
<1>3. Rank(e, i) \in Nat /\ e.version \in Versions
  BY RankType, ImprovementAssumption
<1>4. p.id = <<e.version, f.code, f.target, Rank(e, i)>>
  BY DEF Proposal, Id
<1>5. /\ Len(p.id) = 4 /\ p.id[1] = e.version /\ p.id[2] = f.code
      /\ p.id[3] = f.target /\ p.id[4] = Rank(e, i)
  BY <1>4
<1>6. p.evidence \in Int
  BY <1>1, MeasuredType DEF Proposal
<1>7. /\ p.base = p.id[1]
      /\ p.challenger = <<p.id[1], "challenger", p.id[4] + 1, p.id[3]>>
      /\ p.scope = ScopeOf(p.id[2])
      /\ p.target \in {None, p.id[3]}
  BY <1>5 DEF Proposal, Challenger
<1> HIDE DEF p
<1>8. IsName(p.id)
  <2>1. f.code \in Codes /\ f.target \in Targets \cup {None}
    BY <1>2
  <2> QED BY <1>3, <1>5, <2>1 DEF IsName
<1>9. \E j \in DOMAIN Candidates :
         Candidates[j].code = p.id[2] /\ Candidates[j].target = p.id[3]
  BY <1>1, <1>5
<1>10. IsProposal(p)
  BY <1>6, <1>7, <1>8, <1>9 DEF IsProposal, Consistent
<1> QED BY <1>10 DEF p

LEMMA InsertedKeeps ==
    ASSUME NEW table, NEW rows
    PROVE  /\ DOMAIN table \subseteq DOMAIN Inserted(table, rows)
           /\ \A id \in DOMAIN table : Inserted(table, rows)[id] = table[id]
BY DEF Inserted

(* A row of the table after an insertion was there or is one of the new.   *)
LEMMA InsertedRow ==
    ASSUME NEW table, NEW rows, NEW id \in DOMAIN Inserted(table, rows)
    PROVE  \/ id \in DOMAIN table /\ Inserted(table, rows)[id] = table[id]
           \/ \E r \in rows : r.id = id /\ Inserted(table, rows)[id] = r
<1>1. CASE id \in DOMAIN table
  BY <1>1 DEF Inserted
<1>2. CASE id \notin DOMAIN table
  <2>1. \E r \in rows : r.id = id
    BY <1>2 DEF Inserted
  <2>2. Inserted(table, rows)[id] = CHOOSE r \in rows : r.id = id
    BY <1>2 DEF Inserted
  <2> QED BY <2>1, <2>2
<1> QED BY <1>1, <1>2

LEMMA ForgottenTarget ==
    ASSUME NEW p, IsProposal(p)
    PROVE  IsProposal(WithoutTarget(p)) /\ WithoutTarget(p).id = p.id
BY DEF IsProposal, Consistent, WithoutTarget

LEMMA PlanIsPlan ==
    ASSUME NEW p, IsProposal(p), NEW risk \in RiskConfigs
    PROVE  IsPlan(Plan(p, risk))
BY DEF IsProposal, IsPlan, Consistent, Plan

-----------------------------------------------------------------------------
LEMMA InvInit == Init => IInv
BY DEF Init, IInv, NoRows

LEMMA InvStep == IInv /\ [Next]_vars => IInv'
<1> SUFFICES ASSUME IInv, [Next]_vars PROVE IInv'
  OBVIOUS
<1> USE DEF IInv
<1>1. CASE Diagnose
  <2>1. PICK e \in Evidences : batch' = Proposed(e)
    BY <1>1 DEF Diagnose
  <2>2. \A p \in batch' : IsProposal(p)
    BY <2>1, ProposedAreNamed
  <2> QED BY <1>1, <2>2 DEF Diagnose
<1>2. CASE SaveMany
  <2> DEFINE rows == {WithoutTarget(p) : p \in batch}
  <2>1. \A r \in rows : IsProposal(r)
    BY ForgottenTarget
  <2>2. ASSUME NEW id \in DOMAIN proposals'
        PROVE  proposals'[id].id = id /\ IsProposal(proposals'[id])
    <3>1. proposals' = Inserted(proposals, rows)
      BY <1>2 DEF SaveMany
    <3> HIDE DEF rows
    <3> QED BY <2>1, <3>1, InsertedRow
  <2> QED BY <1>2, <2>2 DEF SaveMany
<1>3. CASE LoadProposal
  BY <1>3 DEF LoadProposal
<1>4. ASSUME NEW p \in batch, PlanFor(p) PROVE IInv'
  <2>1. draft' # None => IsPlan(draft')
    BY <1>4, PlanIsPlan DEF PlanFor
  <2> QED BY <1>4, <2>1 DEF PlanFor
<1>5. CASE SavePlan
  <2>1. ASSUME NEW id \in DOMAIN plans'
        PROVE  plans'[id].id = id /\ IsPlan(plans'[id])
    <3>1. plans' = Inserted(plans, {draft}) /\ IsPlan(draft)
      BY <1>5 DEF SavePlan
    <3> QED BY <3>1, InsertedRow
  <2> QED BY <1>5, <2>1 DEF SavePlan
<1>6. CASE LoadPlan
  BY <1>6 DEF LoadPlan
<1>7. CASE UNCHANGED vars
  BY <1>7 DEF vars
<1> QED BY <1>1, <1>2, <1>3, <1>4, <1>5, <1>6, <1>7 DEF Next

THEOREM Invariance == Spec => []IInv
BY InvInit, InvStep, PTL DEF Spec

(* Every stored proposal and plan is well named, whatever is diagnosed.    *)
THEOREM Typing == Spec => []TypeOK
<1>1. IInv => TypeOK
  BY DEF IInv, TypeOK, IsProposal, IsPlan, Consistent
<1> QED BY <1>1, Invariance, PTL

(* A stored plan and the stored proposal of its id describe one challenger *)
(* (proposal.py _proposal_id, _proposed_version).                          *)
THEOREM PlansFit == Spec => []PlanFitsStoredProposal
<1>1. IInv => PlanFitsStoredProposal
  BY DEF IInv, PlanFitsStoredProposal, IsProposal, IsPlan, Consistent
<1> QED BY <1>1, Invariance, PTL

(* Two executable plans of one challenger make the same change: the        *)
(* version names the target, and a target has one code (proposal.py        *)
(* _proposed_version).                                                     *)
THEOREM OneChange == Spec => []OneChangePerVersion
<1>1. ASSUME IInv PROVE OneChangePerVersion
  <2> SUFFICES ASSUME NEW i \in DOMAIN plans, NEW j \in DOMAIN plans,
                      Executable(plans[i]), Executable(plans[j]),
                      plans[i].challenger = plans[j].challenger
               PROVE  plans[i].scope = plans[j].scope /\ plans[i].target = plans[j].target
    BY DEF OneChangePerVersion
  <2> DEFINE a == plans[i]
             b == plans[j]
  <2>1. Consistent(a) /\ Consistent(b)
    BY <1>1 DEF IInv, IsPlan
  <2>2. a.target = a.id[3] /\ b.target = b.id[3] /\ a.target # None /\ b.target # None
    BY <2>1 DEF Consistent, Executable
  <2>3. a.id[3] = b.id[3]
    <3>1. ASSUME NEW r, Consistent(r) PROVE r.challenger[4] = r.id[3]
      <4>1. r.challenger = <<r.id[1], "challenger", r.id[4] + 1, r.id[3]>>
        BY <3>1 DEF Consistent
      <4> DEFINE w == r.id[1]
                 y == r.id[4] + 1
                 z == r.id[3]
                 c == r.challenger
      <4>2. c = <<w, "challenger", y, z>>
        BY <4>1
      <4> HIDE DEF w, y, z, c
      <4>3. c[4] = z
        BY <4>2
      <4> QED BY <4>3 DEF c, z
    <3> QED BY <2>1, <3>1
  <2>4. ASSUME NEW r, Consistent(r), r.id[3] # None
        PROVE  \E k \in DOMAIN Buckets : Buckets[k].code = r.id[2] /\ Buckets[k].target = r.id[3]
    BY <2>4, CandidateType DEF Consistent, Global
  <2>5. a.id[2] = b.id[2]
    <3>1. PICK k \in DOMAIN Buckets : Buckets[k].code = a.id[2] /\ Buckets[k].target = a.id[3]
      BY <2>1, <2>2, <2>4
    <3>2. PICK l \in DOMAIN Buckets : Buckets[l].code = b.id[2] /\ Buckets[l].target = b.id[3]
      BY <2>1, <2>2, <2>4
    <3>3. k = l
      BY <2>3, <3>1, <3>2, ImprovementAssumption
    <3> QED BY <3>1, <3>2, <3>3
  <2> QED BY <2>1, <2>2, <2>3, <2>5 DEF Consistent
<1> QED BY <1>1, Invariance, PTL

(* What is stored of a proposal or a plan stays as it is: the two stores   *)
(* implement an append-only one (INSERT OR IGNORE, proposal_store.py save, *)
(* validation_plan_store.py save).                                         *)
THEOREM StoresAppend == Spec => StoresAreAppendOnly
<1>1. Init => Proposals!Init /\ Plans!Init
  BY DEF Init, NoRows, Proposals!Init, Plans!Init
<1>2. [Next]_vars => [Proposals!Append]_proposals /\ [Plans!Append]_plans
  <2> SUFFICES ASSUME [Next]_vars
               PROVE  [Proposals!Append]_proposals /\ [Plans!Append]_plans
    OBVIOUS
  <2>1. CASE SaveMany
    BY <2>1, InsertedKeeps DEF SaveMany, Proposals!Append
  <2>2. CASE SavePlan
    BY <2>2, InsertedKeeps DEF SavePlan, Plans!Append
  <2>3. CASE Diagnose \/ LoadProposal \/ (\E p \in batch : PlanFor(p)) \/ LoadPlan
    BY <2>3 DEF Diagnose, LoadProposal, PlanFor, LoadPlan
  <2>4. CASE UNCHANGED vars
    BY <2>4 DEF vars
  <2> QED BY <2>1, <2>2, <2>3, <2>4 DEF Next
<1> QED BY <1>1, <1>2, PTL DEF Spec, StoresAreAppendOnly, Proposals!Spec, Plans!Spec
=============================================================================
