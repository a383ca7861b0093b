----------------------------- MODULE Telemetry -----------------------------
(***************************************************************************)
(* backend/services/scan_metrics.py and prometheus_metrics.py behind the   *)
(* middleware of main.py and the endpoints of routers/observability.py.    *)
(* Every counter has a lock of its own, so that what a scrape shows was    *)
(* read at several moments.  A percentile is kept in hundredths.           *)
(***************************************************************************)
EXTENDS Integers, Sequences, SequencesExt

CONSTANTS
  Responses,     \* what the server answers to: [method, path, status], a path cut
                 \* into its first component and the rest
  Scrapers,      \* requests of GET /metrics and /api/admin/metrics
  Durations,     \* wall-clock durations that may be recorded; some negative
  Capacity,      \* of the ring buffer
  MaxSamples     \* bound on the recorded scans, for TLC

ASSUME TelemetryAssumption ==
  /\ Durations \subseteq Int
  /\ Capacity \in Nat \ {0}

VARIABLES
  buffer,        \* ScanMetrics._buffer
  totalScans,    \* ScanMetrics._total_scans
  served,        \* responses -> "none", "counted" or "timed"
  requestCounts, \* _req_counts: responses counted, by key
  durationCounts,\* the responses added up in _req_duration_sums, by key
  scrape         \* scraper -> [pc, counts, durations, samples, ranks, size]

telemetryVars == <<buffer, totalScans, served, requestCounts, durationCounts, scrape>>

\* _normalise_path: only paths below /scans/ and /assets/ have a template, and
\* the routers serve theirs below /api.
NormalisedPath(path) ==
  IF path.first \in {"scans", "assets"} THEN [path EXCEPT !.rest = "{id}"] ELSE path

Label(x) == <<x.method, NormalisedPath(x.path), x.status>>
Labels == {Label(x) : x \in Responses}

NoRanks == [p50 |-> 0, p95 |-> 0, p99 |-> 0]
NoScrape == [pc |-> "idle", counts |-> << >>, durations |-> << >>, samples |-> << >>,
             ranks |-> NoRanks, size |-> 0]

TelemetryInit ==
  /\ buffer = << >>
  /\ totalScans = 0
  /\ served = [x \in Responses |-> "none"]
  /\ requestCounts = [l \in Labels |-> 0]
  /\ durationCounts = [l \in Labels |-> 0]
  /\ scrape = [s \in Scrapers |-> NoScrape]

\* record: the oldest sample leaves a full buffer, a negative one never enters.
Record(d) ==
  /\ totalScans < MaxSamples
  /\ d >= 0
  /\ LET all == Append(buffer, d)
     IN  buffer' = IF Len(all) > Capacity THEN Tail(all) ELSE all
  /\ totalScans' = totalScans + 1
  /\ UNCHANGED <<served, requestCounts, durationCounts, scrape>>

\* PrometheusMiddleware counts a response ...
IncRequest(x) ==
  /\ served[x] = "none"
  /\ served' = [served EXCEPT ![x] = "counted"]
  /\ requestCounts' = [requestCounts EXCEPT ![Label(x)] = @ + 1]
  /\ UNCHANGED <<buffer, totalScans, durationCounts, scrape>>

\* ... and adds up its duration under the same lock, taken again.
ObserveDuration(x) ==
  /\ served[x] = "counted"
  /\ served' = [served EXCEPT ![x] = "timed"]
  /\ durationCounts' = [durationCounts EXCEPT ![Label(x)] = @ + 1]
  /\ UNCHANGED <<buffer, totalScans, requestCounts, scrape>>

\* percentile: linear interpolation between the neighbours, times 100.
Percentile(vals, p) ==
  LET k == (Len(vals) - 1) * p
      f == k \div 100 + 1
      c == IF f < Len(vals) THEN f + 1 ELSE f
  IN  100 * vals[f] + (k % 100) * (vals[c] - vals[f])

\* Faulty variant: the samples are not sorted.
SortedAsRecorded(samples) == samples

\* The place of the i-th sample among the sorted ones; equal samples stay in order.
Place(samples, i) ==
  Cardinality({j \in DOMAIN samples : \/ samples[j] < samples[i]
                                      \/ samples[j] = samples[i] /\ j <= i})

Sorted(samples) ==
  [k \in DOMAIN samples |-> samples[CHOOSE i \in DOMAIN samples : Place(samples, i) = k]]

Ranks(samples) ==
  LET vals == Sorted(samples)
  IN  [p50 |-> Percentile(vals, 50), p95 |-> Percentile(vals, 95), p99 |-> Percentile(vals, 99)]

\* render_prometheus: the request counters under one lock ...
SnapshotRequests(s) ==
  /\ scrape[s].pc = "idle"
  /\ scrape' = [scrape EXCEPT ![s].pc = "samples", ![s].counts = requestCounts,
                              ![s].durations = durationCounts]
  /\ UNCHANGED <<buffer, totalScans, served, requestCounts, durationCounts>>

\* ... then percentile_ranks: the samples under the lock; without a sample the
\* gauges are 0.
SnapshotSamples(s) ==
  /\ scrape[s].pc = "samples"
  /\ scrape' = [scrape EXCEPT ![s].pc = IF buffer = << >> THEN "done" ELSE "size",
                              ![s].samples = buffer,
                              ![s].ranks = IF buffer = << >> THEN @ ELSE Ranks(buffer)]
  /\ UNCHANGED <<buffer, totalScans, served, requestCounts, durationCounts>>

\* sample_count is read after the lock was given back.
SnapshotSize(s) ==
  /\ scrape[s].pc = "size"
  /\ scrape' = [scrape EXCEPT ![s].pc = "done", ![s].size = Len(buffer)]
  /\ UNCHANGED <<buffer, totalScans, served, requestCounts, durationCounts>>

TelemetryNext ==
  \/ \E d \in Durations : Record(d)
  \/ \E x \in Responses : IncRequest(x) \/ ObserveDuration(x)
  \/ \E s \in Scrapers : SnapshotRequests(s) \/ SnapshotSamples(s) \/ SnapshotSize(s)

TelemetrySpec == TelemetryInit /\ [][TelemetryNext]_telemetryVars
----------------------------------------------------------------------------
\* What a scrape shows fits together although it was read in three steps: no
\* label has durations of responses it does not count, the percentiles are in
\* order and between the extremes of one set of samples, and the number of
\* samples is never less than what they were computed from.
ScrapeFitsTogether ==
  \A s \in Scrapers :
     LET x == scrape[s]
     IN  x.pc = "done" =>
           /\ \A l \in Labels : x.durations[l] <= x.counts[l]
           /\ x.samples # << >> =>
                /\ 100 * Min(ToSet(x.samples)) <= x.ranks.p50
                /\ x.ranks.p50 <= x.ranks.p95 /\ x.ranks.p95 <= x.ranks.p99
                /\ x.ranks.p99 <= 100 * Max(ToSet(x.samples))
                /\ Len(x.samples) <= x.size /\ x.size <= Capacity
=============================================================================
