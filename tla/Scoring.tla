------------------------------ MODULE Scoring ------------------------------
(***************************************************************************)
(* Confidence of a finding and its band: backend/services/confidence.py    *)
(* and band_for of calibration.py.  A confidence is an integer number of   *)
(* hundredths; an average is kept as a rounded-down integer at the end of  *)
(* the computation only, like the one round() of the code.                 *)
(***************************************************************************)
EXTENDS Integers, Sequences, FiniteSets, FiniteSetsExt

\* EVIDENCE_KIND_STRENGTH; .get falls back to "unknown".
KindStrength(kind) ==
  CASE kind = "observed_operation"  -> 90
    [] kind = "configured_protocol" -> 85
    [] kind = "declared_capability" -> 65
    [] kind = "artifact_metadata"   -> 50
    [] OTHER                        -> 30

LOCAL AtMost(x, y) == IF x <= y THEN x ELSE y
LOCAL AtLeast(x, y) == IF x >= y THEN x ELSE y

Clamp(score) == AtLeast(0, AtMost(100, score))

\* score_finding, of the set of distinct evidence kinds: average strength,
\* 0.08 for each further kind up to 0.20, 0.20 off for a conflict.
Confidence(kinds, conflict) ==
  IF kinds = {} THEN 0
  ELSE LET n == Cardinality(kinds)
           penalty == IF conflict THEN 20 ELSE 0
       IN  Clamp(MapThenSumSet(KindStrength, kinds) \div n
                   + AtMost(20, 8 * (n - 1)) - penalty)

\* DEFAULT_THRESHOLDS, in hundredths, in the order of the dictionary.
Thresholds ==
  << [band |-> "HIGH", lo |-> 85, hi |-> 100], [band |-> "MEDIUM", lo |-> 60, hi |-> 85],
     [band |-> "LOW", lo |-> 40, hi |-> 60], [band |-> "UNCERTAIN", lo |-> 0, hi |-> 40] >>

\* The first range that holds the score: a score on an edge takes the upper band.
FirstBand(score, thresholds) ==
  LET fits == {i \in DOMAIN thresholds :
                 thresholds[i].lo <= score /\ score <= thresholds[i].hi}
  IN  IF fits = {} THEN "UNCERTAIN" ELSE thresholds[Min(fits)].band

\* classify_confidence with the default thresholds: band_for.
Band(score) == FirstBand(Clamp(score), Thresholds)
=============================================================================
