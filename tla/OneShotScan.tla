---------------------------- MODULE OneShotScan ----------------------------
(***************************************************************************)
(* What the claim protocol promises for each accepted scan job, whatever   *)
(* crashes, stalls or is cancelled: one runner at most is ever given the   *)
(* job, and that runner delivers at most one result.                       *)
(***************************************************************************)
CONSTANTS Job, Runner, Nobody

VARIABLES
  given,      \* jobs that a runner has been given
  runner,     \* who works on the job now
  delivered   \* jobs with a result

onceVars == <<given, runner, delivered>>

Init == /\ given = {}
        /\ runner = [j \in Job |-> Nobody]
        /\ delivered = {}

Give(j, r) == /\ j \notin given
              /\ given' = given \cup {j}
              /\ runner' = [runner EXCEPT ![j] = r]
              /\ UNCHANGED delivered

Deliver(j) == /\ runner[j] # Nobody
              /\ j \notin delivered
              /\ delivered' = delivered \cup {j}
              /\ UNCHANGED <<given, runner>>

\* Runners finish, or die several at a time; nobody takes their place.
Leave(S) == /\ S # {}
            /\ runner' = [j \in Job |-> IF j \in S THEN Nobody ELSE runner[j]]
            /\ UNCHANGED <<given, delivered>>

Next == \/ \E j \in Job, r \in Runner : Give(j, r)
        \/ \E j \in Job : Deliver(j)
        \/ \E S \in SUBSET Job : Leave(S)

Spec == Init /\ [][Next]_onceVars
=============================================================================
