--------------------------- MODULE MCScanControl ---------------------------
(***************************************************************************)
(* Instances of ScanControl for TLC.  Threads and cancellers are placed on *)
(* processes by a rule over model values, so that a cfg only names sets.   *)
(***************************************************************************)
EXTENDS ScanProperties, TLC

CONSTANTS t1, t2, c1, p1, p2, r1, r2, j1, j2

\* Thread t2 belongs to p2 when there are two processes, everything else to p1.
HomeRule == [x \in Threads \cup Cancellers |->
               IF x = t2 /\ p2 \in Procs THEN p2 ELSE p1]

\* Two repositories have one job each; a single one has them all.
RepoRule == [j \in Jobs |-> IF j = j2 /\ r2 \in Repos THEN r2 ELSE r1]

\* Jobs of one repository are interchangeable.
JobSymmetry == Permutations(Jobs)
=============================================================================
