---------------------------- MODULE CurrentGraph ----------------------------
(***************************************************************************)
(* web/load_run.py's derived graph, urn:sparqlwatch:current, as operators. *)
(* The same graph is made in two ways: Derived reads it off the run graphs *)
(* (rebuild_current), and Replaced brings an endpoint's part of it up to   *)
(* date with one run (_REPLACE_MEASURED).                                  *)
(*                                                                         *)
(* A run is its instant; two runs at one instant, which the loader         *)
(* refuses, do not occur.  What a run says of a metric is one reading: a   *)
(* verdict it measured, a decline it observed, or one this service chose.  *)
(* The copies of vendor documents and class profiles, which few runs carry *)
(* and which all follow one rule, are one slow fact per endpoint.          *)
(***************************************************************************)
EXTENDS Naturals, FiniteSets, FiniteSetsExt

CONSTANTS Endpoints, Metrics,
          LastRun  \* bound on the instants

ASSUME RunsAssumption == LastRun \in Nat

Runs == 1..LastRun

Measured == {"up", "down"}
Observed == {"failed"}    \* enumeration-failed, liveness-failed, prober-failed
Policy == {"skipped"}     \* POLICY_DECLINE_REASONS: cost-ceiling, cadence
Declined == Observed \cup Policy
Reading == Measured \cup Declined \cup {"none"}

\* What a run says of one endpoint.
Chunk == [row : [Metrics -> Reading], sampled : SUBSET Metrics,
          slow : BOOLEAN, dormant : BOOLEAN]
Content == [Endpoints -> Chunk]

Silent == [row |-> [m \in Metrics |-> "none"], sampled |-> {},
           slow |-> FALSE, dormant |-> FALSE]

\* No graph of that name in the store, or no such file.
Nothing == [e \in Endpoints |-> Silent]

\* The endpoints with a measurement, a decline or a declarations fact.
Mentioned(content) == {e \in Endpoints : \E m \in Metrics : content[e].row[m] # "none"}

NoRow == [run |-> 0, reading |-> "none"]
Row == {NoRow} \cup [run : Runs, reading : Reading \ {"none"}]

Current == [run : [Endpoints -> 0..LastRun],
            row : [Endpoints -> [Metrics -> Row]],
            sample : [Endpoints -> [Metrics -> 0..LastRun]],
            slow : [Endpoints -> 0..LastRun]]

EmptyCurrent == [run |-> [e \in Endpoints |-> 0],
                 row |-> [e \in Endpoints |-> [m \in Metrics |-> NoRow]],
                 sample |-> [e \in Endpoints |-> [m \in Metrics |-> 0]],
                 slow |-> [e \in Endpoints |-> 0]]

----------------------------------------------------------------------------
(***************************************************************************)
(* rebuild_current: current read off the run graphs.                       *)
(***************************************************************************)
Newest(S) == IF S = {} THEN 0 ELSE Max(S)

Saying(runs, e, m, readings) == {r \in Runs : runs[r][e].row[m] \in readings}

\* MUTANT: an observed decline and a chosen one compete on recency alone.
RowSourceByRecency(runs, e, m) ==
  IF Saying(runs, e, m, Measured) # {} THEN Newest(Saying(runs, e, m, Measured))
  ELSE Newest(Saying(runs, e, m, Declined))

\* A measurement stands over any decline, an observed decline over a chosen one.
RowSource(runs, e, m) ==
  IF Saying(runs, e, m, Measured) # {} THEN Newest(Saying(runs, e, m, Measured))
  ELSE IF Saying(runs, e, m, Observed) # {} THEN Newest(Saying(runs, e, m, Observed))
  ELSE Newest(Saying(runs, e, m, Policy))

RowFrom(runs, r, e, m) ==
  IF r = 0 THEN NoRow ELSE [run |-> r, reading |-> runs[r][e].row[m]]

DerivedRun(runs, e) == Newest({r \in Runs : e \in Mentioned(runs[r])})
DerivedRow(runs, e, m) == RowFrom(runs, RowSource(runs, e, m), e, m)
DerivedSample(runs, e, m) == Newest({r \in Runs : m \in runs[r][e].sampled})
DerivedSlow(runs, e) == Newest({r \in Runs : runs[r][e].slow})

Derived(runs) ==
  [run |-> [e \in Endpoints |-> DerivedRun(runs, e)],
   row |-> [e \in Endpoints |-> [m \in Metrics |-> DerivedRow(runs, e, m)]],
   sample |-> [e \in Endpoints |-> [m \in Metrics |-> DerivedSample(runs, e, m)]],
   slow |-> [e \in Endpoints |-> DerivedSlow(runs, e)]]

----------------------------------------------------------------------------
(***************************************************************************)
(* _maintain_current: one endpoint, or one sample, brought up to date.     *)
(***************************************************************************)
\* MUTANT: the pointer moves to whatever was loaded last.
AdvancesAlways(held, r, runs) == held \in 0..LastRun

\* A pointer to a run that is gone cannot be compared, and gives way.
Advances(held, r, runs) ==
  held = 0 \/ held = r \/ held < r \/ runs[held] = Nothing

\* MUTANT: before 2026-09-23, a decline took the reading away.
ReplacesAny(old, reading) == reading # "none"

\* A decline stands behind a measurement, a chosen one behind an observed one.
Replaces(old, reading) ==
  \/ reading \in Measured
  \/ reading \in Declined /\ old = "none"
  \/ reading \in Observed /\ old \in Declined
  \/ reading \in Policy /\ old \in Policy

Replaced(current, e, r, chunk) ==
  [current EXCEPT
    !.run[e] = r,
    !.row[e] = [m \in Metrics |->
      IF Replaces(@[m].reading, chunk.row[m])
        THEN [run |-> r, reading |-> chunk.row[m]] ELSE @[m]],
    !.slow[e] = IF chunk.slow THEN r ELSE @]

----------------------------------------------------------------------------
(***************************************************************************)
(* daily.pinned_runs: the runs whose own IRI, or whose activity's, current *)
(* mentions.  A copied graph has an IRI of its own, so the run that a slow *)
(* fact came from is not mentioned by it.                                  *)
(***************************************************************************)
\* MUTANT: the list of pointers the docstring warns against.
PinnedByPointer(current) ==
  {r \in Runs : \E e \in Endpoints :
     current.run[e] = r \/ \E m \in Metrics : current.sample[e][m] = r}

Pinned(current) ==
  {r \in Runs : \E e \in Endpoints :
     \/ current.run[e] = r
     \/ \E m \in Metrics : current.row[e][m].run = r \/ current.sample[e][m] = r}
=============================================================================
