------------------------ MODULE StrategyImprovement ------------------------
(***************************************************************************)
(* From the evidence about a strategy to a stored validation plan:         *)
(* strategy/diagnosis.py, proposal.py and proposal_store.py,               *)
(* research/validation_request.py, validation_plan.py and                  *)
(* validation_plan_store.py.  The classes can be called in any order and   *)
(* as often as one likes, with evidence that changes in between.           *)
(*                                                                         *)
(* Means are integers.  Texts (hypothesis, statement) are left out, and a  *)
(* name that is put together from parts is the tuple of its parts.  What a *)
(* proposal forbids is the same for all of them, and so is the data window *)
(* and the status: the tests of these never fail and are left out.         *)
(***************************************************************************)
EXTENDS Integers, Sequences, FiniteSets

CONSTANTS
    Evidences,       \* of the versions: what StrategyEvidenceEngine may find
    Versions,        \* of the strategies that are traded
    None,
    Buckets,         \* sequence of [code, target], as the diagnosis visits them
    RiskConfigs,     \* the risk configurations a plan may freeze
    MinOverallSamples, MinBucketSamples, DegradationPct, ForcedPct, MaxFindings,
    MaxProposals

Codes == {"RECENT_DEGRADATION", "FORCED_EXIT_DOMINANT", "REGIME_WEAKNESS",
          "TIME_BUCKET_WEAKNESS", "SYMBOL_WEAKNESS"}
BucketCodes == Codes \ {"RECENT_DEGRADATION", "FORCED_EXIT_DOMINANT"}
Targets == {Buckets[k].target : k \in DOMAIN Buckets}

Bucket == [samples : Nat, expectancy : Int]

(* What StrategyDiagnosisEngine accepts as its policy.                     *)
PolicyIsValid ==
    /\ {MinOverallSamples, MinBucketSamples, MaxFindings} \subseteq Nat \ {0}
    /\ DegradationPct \in 1 .. 100 /\ ForcedPct \in 1 .. 100

(* A name has one meaning only: no symbol is called like a regime.         *)
ASSUME ImprovementAssumption ==
    /\ Buckets \in Seq([code : BucketCodes, target : Targets])
    /\ \A j, k \in DOMAIN Buckets : Buckets[j].target = Buckets[k].target => j = k
    /\ None \notin Targets \cup Versions
    /\ \A e \in Evidences :
          /\ e.version \in Versions
          /\ e.overall \in Bucket /\ e.recent \in Bucket /\ e.forced \in Bucket
          /\ \A k \in DOMAIN Buckets : e.in[k] \in Bucket
    /\ PolicyIsValid /\ MaxProposals \in Nat \ {0}

VARIABLES
    proposals,       \* table strategy_proposals: a function of ids
    plans,           \* table strategy_validation_plans: a function of ids
    batch,           \* proposals in memory: what propose or get returned
    draft            \* a plan in memory, or None

vars == <<proposals, plans, batch, draft>>

-----------------------------------------------------------------------------
(* Diagnosis.                                                              *)

Global(code) == [code |-> code, target |-> None]

(* What may be found, in the order in which it is looked for.              *)
Candidates == <<Global("RECENT_DEGRADATION"), Global("FORCED_EXIT_DOMINANT")>> \o Buckets

(* The part of the evidence that a finding is about.                       *)
Measured(e, finding) ==
    CASE finding.code = "RECENT_DEGRADATION" -> e.recent
      [] finding.code = "FORCED_EXIT_DOMINANT" -> e.forced
      [] OTHER -> e.in[CHOOSE k \in DOMAIN Buckets : Buckets[k] = finding]

Holds(e, finding) ==
    LET bucket == Measured(e, finding)
    IN  CASE finding.code = "RECENT_DEGRADATION" ->
                /\ e.overall.expectancy > 0
                /\ bucket.expectancy * 100 < e.overall.expectancy * DegradationPct
          [] finding.code = "FORCED_EXIT_DOMINANT" ->
                /\ bucket.samples >= MinBucketSamples
                /\ bucket.samples * 100 >= e.overall.samples * ForcedPct
          [] OTHER ->
                bucket.samples >= MinBucketSamples /\ bucket.expectancy < 0

(* StrategyDiagnosisEngine.diagnose, as the places of the candidates found *)
Found(e) ==
    IF e.overall.samples < MinOverallSamples THEN {}
    ELSE {i \in DOMAIN Candidates : Holds(e, Candidates[i])}

Rank(e, i) == Cardinality({j \in Found(e) : j <= i})

-----------------------------------------------------------------------------
(* Proposals.                                                              *)

ScopeOf(code) ==
    CASE code = "RECENT_DEGRADATION" -> "entry_condition_or_regime_filter"
      [] code = "FORCED_EXIT_DOMINANT" -> "entry_timing_or_signal_quality"
      [] code = "REGIME_WEAKNESS" -> "regime_eligibility"
      [] code = "TIME_BUCKET_WEAKNESS" -> "time_of_day_eligibility"
      [] OTHER -> "symbol_eligibility"

SupportedScopes == {"regime_eligibility", "time_of_day_eligibility", "symbol_eligibility"}

Id_WithoutRank(version, finding, k) == <<version, finding.code, finding.target, 1>>
Id(version, finding, k) == <<version, finding.code, finding.target, k>>
Challenger_WithoutTarget(version, finding, k) == <<version, "challenger", k + 1>>
Challenger(version, finding, k) == <<version, "challenger", k + 1, finding.target>>

(* StrategyProposalEngine._from_finding                                    *)
Proposal(e, finding, k) ==
    [id |-> Id(e.version, finding, k), base |-> e.version,
     challenger |-> Challenger(e.version, finding, k),
     scope |-> ScopeOf(finding.code), target |-> finding.target,
     evidence |-> Measured(e, finding).expectancy]

(* propose: the first of the first findings.                               *)
Proposed(e) ==
    {Proposal(e, Candidates[i], Rank(e, i)) :
        i \in {j \in Found(e) : Rank(e, j) <= MaxFindings /\ Rank(e, j) <= MaxProposals}}

(* What StrategyProposalStore.get returns: the table has no columns for    *)
(* the target and the parameters.                                          *)
WithoutTarget(p) ==
    [id |-> p.id, base |-> p.base, challenger |-> p.challenger, scope |-> p.scope,
     target |-> None, evidence |-> p.evidence]

-----------------------------------------------------------------------------
(* Plans.  build_validation_request, then ValidationPlanner.plan.          *)

MayPlan(p) == p.base # p.challenger

Plan(p, risk) ==
    [id |-> p.id, base |-> p.base, challenger |-> p.challenger, scope |-> p.scope,
     target |-> p.target, risk |-> risk]

-----------------------------------------------------------------------------
NoRows == [id \in {} |-> id]

Init == proposals = NoRows /\ plans = NoRows /\ batch = {} /\ draft = None

(* INSERT OR IGNORE.                                                       *)
Inserted_OrReplace(table, rows) ==
    [id \in DOMAIN table \cup {r.id : r \in rows} |->
        IF id \in {r.id : r \in rows} THEN CHOOSE r \in rows : r.id = id ELSE table[id]]

Inserted_UnderChallenger(table, rows) ==
    [id \in DOMAIN table \cup {r.challenger : r \in rows} |->
        IF id \in DOMAIN table THEN table[id] ELSE CHOOSE r \in rows : r.challenger = id]

Inserted(table, rows) ==
    [id \in DOMAIN table \cup {r.id : r \in rows} |->
        IF id \in DOMAIN table THEN table[id] ELSE CHOOSE r \in rows : r.id = id]

Diagnose ==
    /\ \E e \in Evidences : batch' = Proposed(e)
    /\ UNCHANGED <<proposals, plans, draft>>

(* StrategyProposalStore.save_many, one transaction.                       *)
SaveMany ==
    /\ proposals' = Inserted(proposals, {WithoutTarget(p) : p \in batch})
    /\ UNCHANGED <<plans, batch, draft>>

(* StrategyProposalStore.get                                               *)
LoadProposal ==
    /\ \E id \in DOMAIN proposals : batch' = {proposals[id]}
    /\ UNCHANGED <<proposals, plans, draft>>

PlanFor(p) ==
    /\ p \in batch /\ MayPlan(p)
    /\ \E risk \in RiskConfigs : draft' = Plan(p, risk)
    /\ UNCHANGED <<proposals, plans, batch>>

(* ValidationPlanStore.save                                                *)
SavePlan ==
    /\ draft # None
    /\ plans' = Inserted(plans, {draft})
    /\ UNCHANGED <<proposals, batch, draft>>

LoadPlan ==
    /\ \E id \in DOMAIN plans : draft' = plans[id]
    /\ UNCHANGED <<proposals, plans, batch>>

Next ==
    \/ Diagnose \/ SaveMany \/ LoadProposal
    \/ \E p \in batch : PlanFor(p)
    \/ SavePlan \/ LoadPlan

Spec == Init /\ [][Next]_vars
-----------------------------------------------------------------------------
(* A name is put together from the version, the finding and its rank.      *)
IsName(id) ==
    /\ Len(id) = 4
    /\ id[1] \in Versions /\ id[2] \in Codes /\ id[3] \in Targets \cup {None}
    /\ id[4] \in Nat

TypeOK ==
    /\ \A id \in DOMAIN proposals : IsName(id) /\ proposals[id].id = id
    /\ \A id \in DOMAIN plans : IsName(id) /\ plans[id].id = id
    /\ \A p \in batch : IsName(p.id) /\ p.evidence \in Int
    /\ draft # None => IsName(draft.id) /\ draft.risk \in RiskConfigs

Proposals == INSTANCE AppendOnly WITH store <- proposals
Plans == INSTANCE AppendOnly WITH store <- plans

(* Whatever is diagnosed, planned and saved again with other evidence,     *)
(* another risk configuration or a proposal read back without its target,  *)
(* a stored proposal or plan is not changed (proposal_store.py save,       *)
(* validation_plan_store.py save).                                         *)
StoresAreAppendOnly == Proposals!Spec /\ Plans!Spec

(* A plan and a proposal stored under the same id, saved independently and *)
(* in any order from different diagnoses, describe the same challenger     *)
(* (proposal.py _proposal_id, _proposed_version).                          *)
PlanFitsStoredProposal ==
    \A id \in DOMAIN plans \cap DOMAIN proposals :
        /\ plans[id].base = proposals[id].base
        /\ plans[id].challenger = proposals[id].challenger
        /\ plans[id].scope = proposals[id].scope
        /\ plans[id].target \in {None, id[3]}

(* Trades are recorded under the version of their challenger: two plans    *)
(* that can be executed and name the same challenger make the same change, *)
(* however the findings were ranked when each was proposed.                *)
Executable(p) == p.scope \in SupportedScopes /\ p.target # None
OneChangePerVersion ==
    \A i, j \in DOMAIN plans :
        /\ Executable(plans[i]) /\ Executable(plans[j])
        /\ plans[i].challenger = plans[j].challenger
        => plans[i].scope = plans[j].scope /\ plans[i].target = plans[j].target
=============================================================================
