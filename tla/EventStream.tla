---------------------------- MODULE EventStream ----------------------------
(***************************************************************************)
(* The progress stream of routers/scan.py: it polls the row of one scan,   *)
(* sends what changed and ends with `done` at a terminal status, after     *)
(* max_events polls or when the client goes away.  The row is one atomic   *)
(* read: status and progress of an event belong together.                  *)
(***************************************************************************)
EXTENDS Integers, Sequences, SequencesExt

CONSTANTS
  Streams,       \* open requests of GET /scans/{scan_id}/events
  MaxEvents,     \* the max_events parameter
  MaxProgress    \* bound on the progress a running scan reports, for TLC

ASSUME StreamAssumption == MaxEvents \in Nat

Terminal == {"completed", "failed", "cancelled", "timed_out"}

VARIABLES
  job,           \* the row: [status, progress]; NoJob before it is inserted
  stream         \* request -> [pc, last, polls, sent]

streamVars == <<job, stream>>

NoJob == [status |-> "none", progress |-> 0]

StreamInit ==
  /\ job = NoJob
  /\ stream = [s \in Streams |-> [pc |-> "closed", last |-> NoJob, polls |-> 0, sent |-> <<>>]]

\* The scan goes on, by the steps of ScanLifecycle.
Advance ==
  /\ \/ job.status = "none" /\ job' = [job EXCEPT !.status = "queued"]
     \/ job.status = "queued" /\ job' = [job EXCEPT !.status = "running"]
     \/ job.status = "running" /\ job.progress < MaxProgress
          /\ job' = [job EXCEPT !.progress = @ + 1]
     \/ job.status \in {"queued", "running"}
          /\ \E t \in Terminal : job' = [job EXCEPT !.status = t]
  /\ UNCHANGED stream

\* scan_events: a scan that does not exist is a 404, no stream is opened.
Open(s) ==
  /\ stream[s].pc = "closed" /\ stream[s].polls = 0
  /\ job # NoJob
  /\ stream' = [stream EXCEPT ![s].pc = "open"]
  /\ UNCHANGED job

\* What a turn sends at status and progress `job` after the payload `last`.
Data(last) == IF job # last THEN <<[event |-> "data", job |-> job]>> ELSE <<>>
Done == IF job.status \in Terminal THEN <<[event |-> "done", job |-> job]>> ELSE <<>>

\* Faulty variant: the loop goes on after `done`.
PollOn(s) ==
  /\ stream[s].pc = "open" /\ stream[s].polls < MaxEvents
  /\ stream' = [stream EXCEPT ![s].last = job,
                              ![s].polls = @ + 1,
                              ![s].sent = @ \o Data(stream[s].last) \o Done]
  /\ UNCHANGED job

\* Faulty variant: only the polls that send something are counted.
PollCountsChanges(s) ==
  /\ stream[s].pc = "open" /\ stream[s].polls < MaxEvents
  /\ stream' = [stream EXCEPT ![s].pc = IF job.status \in Terminal THEN "closed" ELSE @,
                              ![s].last = job,
                              ![s].polls = IF job # stream[s].last THEN @ + 1 ELSE @,
                              ![s].sent = @ \o Data(stream[s].last) \o Done]
  /\ UNCHANGED job

\* One turn of the loop of _event_stream: the payload if it is another one than
\* the last, and at a terminal status `done` and the end of the stream.
Poll(s) ==
  /\ stream[s].pc = "open" /\ stream[s].polls < MaxEvents
  /\ stream' = [stream EXCEPT ![s].pc = IF job.status \in Terminal THEN "closed" ELSE @,
                              ![s].last = job,
                              ![s].polls = @ + 1,
                              ![s].sent = @ \o Data(stream[s].last) \o Done]
  /\ UNCHANGED job

\* The bound on polls ends the stream without a `done`.
GiveUp(s) ==
  /\ stream[s].pc = "open" /\ stream[s].polls >= MaxEvents
  /\ stream' = [stream EXCEPT ![s].pc = "closed"]
  /\ UNCHANGED job

\* The client goes away or the task is cancelled, at any time.
Disconnect(s) ==
  /\ stream[s].pc = "open"
  /\ stream' = [stream EXCEPT ![s].pc = "gone"]
  /\ UNCHANGED job

StreamNext ==
  \/ Advance
  \/ \E s \in Streams : Open(s) \/ Poll(s) \/ GiveUp(s) \/ Disconnect(s)

\* The event loop runs every open stream again after its sleep.
StreamFairness == \A s \in Streams : WF_streamVars(Poll(s) \/ GiveUp(s))

StreamSpec == StreamInit /\ [][StreamNext]_streamVars /\ StreamFairness
----------------------------------------------------------------------------
\* What a client has seen is the scan's history: no payload twice in a row,
\* progress and status never back, `done` only as the last event, after the
\* same payload as data, and then it is the state the scan ended in.
StreamTellsTheEnd ==
  \A s \in Streams :
     LET sent == stream[s].sent
         data == {i \in DOMAIN sent : sent[i].event = "data"}
         done == {i \in DOMAIN sent : sent[i].event = "done"}
     IN  /\ \A i, j \in data : i < j =>
              /\ sent[i].job = sent[j].job => \E k \in data : i < k /\ k < j
              /\ sent[i].job.progress <= sent[j].job.progress
              /\ sent[i].job.status \notin Terminal
         /\ done \subseteq {Len(sent)}
         /\ done # {} =>
              /\ sent[Len(sent)].job = job
              /\ \E i \in data : sent[i].job = job /\ \A j \in data : j <= i
         /\ stream[s].pc = "closed" /\ stream[s].polls > 0 =>
              done # {} \/ stream[s].polls = MaxEvents

\* Every stream ends, whatever the scan does: a scan that never ends does not
\* keep it open, because the polls that change nothing are counted, too.
StreamsClose ==
  \A s \in Streams : stream[s].pc = "open" ~> stream[s].pc # "open"
=============================================================================
