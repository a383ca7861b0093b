----------------------------- MODULE Assurance -----------------------------
(***************************************************************************)
(* The two halves of discovery assurance: a scan's way from the files to   *)
(* the report, and the evaluation of a report against the ground truth.    *)
(* They share no variables: `half` is the one that is in motion.           *)
(***************************************************************************)
EXTENDS ScanReport, Evaluation

VARIABLE half

assuranceVars == <<half, reportVars, evaluationVars>>

\* The half that is not in motion has nothing to work on.
Init ==
  \/ /\ half = "scan"
     /\ ReportInit(Trees, Profiles, Correlators) /\ EvaluationInit({NoValue}, {<<>>})
  \/ /\ half = "evaluation"
     /\ ReportInit({NoValue}, {NoValue}, {NoValue}) /\ EvaluationInit(Truths, ScanAssets)

Scanning == half = "scan" /\ ReportNext /\ UNCHANGED <<half, evaluationVars>>
Evaluating == half = "evaluation" /\ EvaluationNext /\ UNCHANGED <<half, reportVars>>

Next == Scanning \/ Evaluating

Spec == Init /\ [][Next]_assuranceVars
=============================================================================
