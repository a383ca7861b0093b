----------------------------- MODULE RiskEngine -----------------------------
(***************************************************************************)
(* The risk assessment of backend/services/risk_engine.py, of an asset     *)
(* with the algorithm's name cut into base and suffix.  NoValue is a field *)
(* the caller's dictionary does not have.                                  *)
(***************************************************************************)
EXTENDS Scoring, Configuration

RiskFields == {"business_criticality", "data_sensitivity", "data_lifetime_years",
               "migration_time_years", "threat_horizon_years", "exposure",
               "migration_effort"}

\* _DEFAULTS
Defaults ==
  [business_criticality |-> "medium", data_sensitivity |-> "medium",
   data_lifetime_years |-> 10, migration_time_years |-> 3,
   threat_horizon_years |-> 15, exposure |-> "internal", migration_effort |-> "medium"]

QuantumVulnerable == {"RSA", "ECDSA", "ECDH", "DH", "DSA", "ECC"}

\* _base_algo drops a suffix that starts with a digit: RSA-2048 becomes RSA,
\* and ECDSA-P256 stays what it is.
Vulnerable(alg) == alg.base \in QuantumVulnerable /\ alg.suffix \in {"none", "size"}

\* _recommendation looks at the unstripped name.
Advice(alg, usage, effort) ==
  LET named(names) == alg.suffix = "none" /\ alg.base \in names
      hybrid == effort \in {"high", "critical"}
  IN CASE named({"RSA", "ECDH", "DH", "ECC"})
            /\ usage \in {"encryption", "key_establishment", "tls"} ->
            [text |-> "ML-KEM", hybrid |-> hybrid]
       [] named({"RSA", "ECDSA", "DSA", "ECC"}) /\ usage = "signature" ->
            [text |-> "ML-DSA", hybrid |-> hybrid]
       [] named({"AES"})                        -> [text |-> "retain", hybrid |-> FALSE]
       [] named({"MD5", "SHA-1"})               -> [text |-> "replace hash", hybrid |-> FALSE]
       [] alg.base = "SHA" \/ named({"BLAKE2", "hash"}) ->
            [text |-> "adequate length", hybrid |-> FALSE]
       [] named({"ML-KEM", "ML-DSA", "SLH-DSA"}) -> [text |-> "aligned", hybrid |-> FALSE]
       [] OTHER                                 -> [text |-> "assess", hybrid |-> FALSE]

StepPoints(value, levels, points, default) ==
  LET at(v) == {i \in DOMAIN levels : levels[i] = v}
  IN  points[CHOOSE i \in DOMAIN levels :
               i \in (IF at(value) = {} THEN at(default) ELSE at(value))]

Levels == <<"low", "medium", "high", "critical">>
LevelPoints(value) == StepPoints(value, Levels, <<3, 7, 11, 15>>, "medium")
EffortPoints(value) == StepPoints(value, Levels, <<1, 3, 5, 5>>, "medium")
ExposurePoints(value) ==
  StepPoints(value, <<"isolated", "internal", "partner", "internet">>, <<0, 3, 7, 10>>, "internal")

PriorityLabel(score) ==
  CASE score >= 75 -> "CRITICAL"
    [] score >= 50 -> "HIGH"
    [] score >= 25 -> "MEDIUM"
    [] OTHER       -> "LOW"

\* assess_risk.  `asset` has the fields of RiskFields, NoValue where the
\* dictionary has none; a horizon of 0 and a missing one are both 15.
Assess(alg, usage, kind, asset) ==
  LET given(f) == IF asset[f] = NoValue THEN Defaults[f] ELSE asset[f]
      years(f) == IF asset[f] = NoValue THEN 0 ELSE asset[f]
      horizon == IF years("threat_horizon_years") = 0 THEN 15 ELSE asset.threat_horizon_years
      overlap == Vulnerable(alg)
                   /\ years("data_lifetime_years") + years("migration_time_years") >= horizon
      confirmed == kind \in {"observed_operation", "configured_protocol"}
      capability == kind \in {"declared_capability", "artifact_metadata"}
      base == IF confirmed THEN 15 ELSE IF capability THEN 8 ELSE 10
      score == (IF Vulnerable(alg) THEN base ELSE 0) + (IF overlap THEN 25 ELSE 0)
                 + LevelPoints(given("data_sensitivity"))
                 + LevelPoints(given("business_criticality"))
                 + ExposurePoints(given("exposure"))
                 + EffortPoints(given("migration_effort"))
      advice == Advice(alg, usage, given("migration_effort"))
  IN  [score |-> score,            \* at most 85, so min(100, score) changes nothing
       label |-> PriorityLabel(score),
       vulnerable |-> Vulnerable(alg),
       candidate |-> advice.text,
       hybrid |-> advice.hybrid,
       confirmed |-> confirmed,
       capability |-> capability]

\* The provenance of each field: given by the caller or filled in by policy.
Provenance(given) ==
  [f \in RiskFields |-> IF f \in given THEN "user-provided" ELSE "policy-default"]
=============================================================================
