# sparqlwatch in TLA+

sparqlwatch asks a list of public SPARQL endpoints the same questions every hour
and every night and publishes what it saw. A prober in Rust (`prober/`) writes
one immutable N-Quads file per sweep; a web tier in Python (`web/`) loads those
files into an Oxigraph store, publishes the store as numbered snapshots, and
serves pages and a `/sparql` endpoint out of them. The two tiers share no code
and no database: a directory of run files is the interface.

The specifications here follow a fact from the question to the reader: what one
endpoint is asked and what verdict its answers earn, the sweep that asks many of
them at once, the file it writes, the state it remembers and the policy that
reads that, the per-host politeness gate underneath, the store that the loader
and the daily job keep, the snapshots that pass from the loader to the site, and
the worker pool behind `/sparql`.

## 1. The system and its components

| Component | Source | State it keeps | Operations | Hard because |
|---|---|---|---|---|
| Dormancy state file | `prober/src/state_file.rs` | one TOML file, its `.partial` and `.lock` siblings | `init_state`, `check_lock`, `merge_state`, `read_state` | separate processes, kills between system calls |
| Dormancy policy | `prober/src/dormancy.rs`, `bin/dormancy.rs` | strikes, holds, instants per endpoint | `plan_sweep`, `update`, `wake`, `sleep`, `prune` | merges arrive hours late and out of order, re-runs with the same `--at` |
| Prober command line | `prober/src/main.rs` | none of its own | read, plan, sweep, merge | dies at any point; overlaps the next sweep |
| Politeness and client | `politeness.rs`, `client.rs`, `budget.rs` | per host: lock, last release, stand-down | `acquire`, `HostGuard::drop`, `stand_down`, redirects, one retry | async tasks, cancellation at every await |
| Sweep | `prober/src/lib.rs` | tasks, arrivals channel | `run_sweep`, `probe_one_endpoint` | tasks panic, budgets expire, results arrive in any order |
| Probing one endpoint | `lib.rs` (`probe_one_endpoint`, `probe_endpoint`), `profile.rs` | what was earned so far, the profile pass | two gates, the metrics in order, the class profile and its ladder | two budgets that cancel it anywhere; what is kept must add up |
| Verdicts | `resolve.rs`, `verdict.rs`, `observe.rs`, `client.rs` | none | an answer becomes an observation, an observation a verdict | eleven kinds of metric with their own exceptions |
| Run file | `prober/src/write.rs`, `emit.rs` | `.partial`, then `run-<instant>.nq` | `create`, `write_endpoint`, `finish` | a crash leaves a prefix; subjects are derived, and may collide |
| Metrics, declarations, rotation | `metrics.rs`, `declare.rs`, `rotation.rs` | none | loading, ceilings and cadences, a description's claims, the profile night | boundaries |
| Registry | `registry.rs` | none | reads, deduplicates and excludes | - |
| Seeding, recon | `seed.rs`, `bin/seed-registry.rs`, `bin/recon.rs` | none | run by hand | - |
| Loader | `web/load_run.py`, `loaded_manifest.py` | run graphs, the derived current graph, a manifest | `load_run`, `rebuild_current`, `main` | out-of-order files, crashes between transactions |
| Snapshots | `web/snapshots.py` | `gen-N` directories, `CURRENT` | `publish`, `reap`, `Follower` | two processes over one directory |
| SPARQL pool | `web/sparql_pool.py` | worker processes, a list, a path | `execute`, `repoint`, `_release` | threads, kills, a lock not held everywhere |
| SPARQL service | `web/sparql_service.py` | none | one query under a deadline | - |
| Daily summaries | `web/daily.py` | summaries, pruned run graphs | `summarise_day`, `prune_day` | deletes what others read |
| Site | `web/app.py` and the readers beside it | caches per generation | pages | swaps under requests |
| Tools, operations | `tools/`, `ops/` | - | job manifests, test environments | - |

How they interact. A sweep reads the state file once and plans; it probes for
minutes (hourly) or hours (daily, which the hourlies overlap) through one
`Politeness` shared by all its tasks; it writes a run file, and last merges its
outcomes into the state file under the lock. In the sweep, one task per host asks
its endpoints in turn and sends each endpoint's facts over a bounded channel to
the collector, which writes them as a section of the run file; what a pass
counted goes into the state file, where the next sweeps' profile gate reads it.
The operator's `dormancy` binary
writes the same file. `load_run.py` loads new run files, keeps the current
graph, and calls `snapshots.publish`; the site's `Follower` thread polls
`CURRENT`, opens the new generation, and calls `Pool.repoint`, while request
threads are in `Pool.execute`.

## 2. The modules

    DormancyPolicy  <-EXTENDS-  DormancyFleet     <-EXTENDS-  MCDormancyFleet, DormancyProofs
                    <-EXTENDS-  DormancyRotation  <-EXTENDS-  DormancyProofs
    AtomicMerges    <-INSTANCE- StateFile         <-EXTENDS-  StateFileProofs
    PoliteHosts     <-INSTANCE- Politeness        <-EXTENDS-  MCPoliteness, PolitenessProofs
    CurrentGraph    <-EXTENDS-  RunStore          <-EXTENDS-  MCRunStore, RunStoreProofs
    Publication     <-INSTANCE- Sweep             <-EXTENDS-  MCSweep, SweepProofs
    Emission        <-EXTENDS-  RunFile           <-EXTENDS-  MCRunFile, SweepProofs
    Metrics, Answers  <-EXTENDS-  Verdicts        <-EXTENDS-  Probing
    Verdicts, Declarations, Profile  <-EXTENDS-  Probing  <-EXTENDS-  MCProbing, ProbingProofs
    Metrics, Profile  <-EXTENDS-  ProfileGate     <-EXTENDS-  MCProfileGate
                                SparqlPool        <-EXTENDS-  SparqlPoolProofs
                                Snapshots         <-EXTENDS-  SnapshotsProofs

Options declares None, the `Option` that is none, for the modules that share it.
Lists has `Kept`, what a filter leaves of a list, as a function of the positions that
pass it: that it keeps the order and names each of them once can then be proved.
Emission filters with it, and puts what it writes of each fact together with `Each`.

**StateFile** is `state_file.rs`, a system call a step. `pc[p]` says where a
call of `merge_state` (a writer) or `check_lock` (a checker) stands; `lock` is
whose lock file exists, created with `O_EXCL` (`Take`) and removed by `Release`
or by the guard's drop (`DropGuard`, only while `armed`); `file` and `partial`
are the two files, each absent, torn or whole. The contents are abstracted to
the set of calls whose change they hold, which is what a lost update is about.
Any call may fail, any process may be killed (`Kill`), and an operator removes a
lock whose holder is dead (`RemoveStaleLock`; removing a live one, which the
error message warns against, is not modelled).

**AtomicMerges** is what `merge_state` promises: a change lands whole in one step
or not at all, and its caller is told which. The one exception is named in it:
the error about a lock that could not be removed comes after the change landed.
`StateFile!RefinesAtomicMerges` is the refinement.

**DormancyPolicy** holds `dormancy.rs` as operators over a state: which endpoints
a sweep asks and how much (`PlanSweep`, with the governed set, due dates, slice
and replay rule), and what its outcomes do to the file (`Update`, with rules
A to H of the code under the names `ClearLapsed`, `Overtaken`, `Base`, `Judge`,
`Strike`), and `Wake`, `Sleep`, `Prune`. An instant is a natural number and
`Day` divides it.

**DormancyFleet** runs that policy as the deployment does: `Start`/`Rerun` read
the file and plan, `Merge` applies outcomes to whatever the file holds by then,
`Die` is a sweep that never merges, and the commands write in between. A merge is
one step because StateFile shows that it is. `evidence` is a history variable:
which verdict each `--at` last left applied, against which the strike counter is
judged.

**DormancyRotation** is the same policy with one sweep after another over several
endpoints, for the questions about rationing.

**Politeness** is `politeness.rs` with the walks of `client.rs` through it. A task
queues for a host's serialiser, sleeps out the longer of the gap and the
stand-down it read on getting it (`Take`), sends, and then answers, follows a
redirect to another url (each hop acquires its own host and releases the one
before), or is throttled, notes the delay on the host the walk began at, and
retries once if it is under the cap. `Cancel` is a budget expiring at any await.
Time is what is left until each instant, and `Tick` counts it down.

**PoliteHosts** is the gate's first two guarantees as a host sees them: one request
at a time, and `MinGap` between the end of one and the start of the next.

**Sweep** is `run_sweep`: a task per host group (`Acquire` a permit, then `Probe` and
`Send` endpoint by endpoint), the channel with its room, and the collector, which
writes a chunk as each endpoint arrives and a failed one, at the end, for each
that never did. A task may panic while it probes; a write may fail, which drops
the channel and aborts the tasks. **Publication** is what it promises of the file:
a chunk for every endpoint, never revised, the failed ones last, and an end. The
file is the sequence of slots written; their contents are Probing's. A slot is an
endpoint's place in the input; `sent` holds those handed over, and `Group(h)` are
the slots of a host, which its task takes in input order (`IsFirst`).

**Probing** is what `Probe` does for one endpoint: the liveness request that gates
the rest, the description that every claim is read from, the metrics in the order
of their definitions, the gate on what was counted, and the profile pass with its
enumeration, its classes and their ladder, and the verdict derived from it. One
request is one step, and its answer is chosen from `Responses`, silence past the
metric's budget (`Expired`) or a transport error (`NoResponse`) among them.
`acc` is `EndpointSweep`, which outlives a cancelled probing; `pass` is a local of
the cancelled future and is lost with it. `ExpireEndpoint` is the endpoint's
budget, at any await; `Panic` loses all. `heard` is a history variable: the
responses that the rows of the last step rest on.

Four modules hold what is a pure function there. **Metrics** is `metrics.rs` and
`rotation.rs`: what loads, what a ceiling and a cadence decline, whose night it
is, with the calendar spelt out (`DayIndex`). **Declarations** is `declare.rs`:
which subjects of a description speak for the endpoint (`ScopeOf`, the closure of
the linking predicates from our own service) and what they claim, where the order
of the statements decides only which of two counts stands (`CountOf`). **Answers** is how `client.rs` reads a response into an observation, and
**Verdicts** is `resolve.rs`, an operator for each kind of metric. **Profile** is the
gate (`WorthReprofiling`) and the ladder of `profile.rs`.

**ProfileGate** is that gate from night to night: what `outcomes_from` and `update`
remember of a sweep, and what the next profile night compares it with.

**Emission** is `emit.rs`: the four kinds of section as sequences of quads in the
order they are pushed, with every guard that leaves a fact out (names that are no
IRIs, facts that disagree about one subject, repeats, a VoID document that speaks
of other datasets). **RunFile** is `write.rs` on top of it, with a stop between any
two quads, a retry under the same `--at`, and the loader's reading of what is on
disk (`Taken`, from `load_run.py`) as the operator the properties look through. Its
machine is named `FileInit`, `FileNext`, `FileSpec`, so that one module can speak of
the sweep and of the file.

**CurrentGraph** is the graph the site reads, `urn:sparqlwatch:current`, as two
computations over what the runs say: `Derived`, what `rebuild_current` makes of
all the run graphs, and `Replaced` with `Replaces` and `Advances`, what
`_REPLACE_MEASURED` does with one run. A run is its instant; a reading is a
verdict, an observed decline or a chosen one; the optional copies (VoID,
description, profile), which all follow one rule, are one *slow fact*. `Pinned` is
`daily.pinned_runs`.

**RunStore** is that store in use. `Finish` is a sweep's file arriving, whenever it
does, and one that replaces another differs from it and from the one that was
recorded: a file has the milliseconds of every answer in it. `Invoke` to `Publish`
are `load_run.py --skip-loaded`, a transaction a step: the graph goes (`Drop`), comes (`Extend`), current follows endpoint by endpoint
(`MaintainEndpoint`) and sample by sample (`MaintainSample`), the manifest is
written (`Record`), and a file that came late (`Kept`) ends in a `Rebuild`.
`RebuildByHand` is `--rebuild`, and `StartJob` to `EndJob` are `daily.py`, which
summarises the closed days, compares (`Gate`) and prunes. The three exclude each
other, as writers of one RocksDB store do. `Kill` ends whichever is running.
`owed` is a history variable, TRUE while current is behind for a reason only a
rebuild mends: a late file, an older pointer taken in place of one that is gone,
a run reloaded with other contents, a rebuild under way. What is copied from an
endpoint comes with readings of it (`ContentsAssumption`): a section that holds a
copy accounts for the endpoint's metrics too, as Probing shows.

**SparqlPool** is `sparql_pool.py`. `list` is `_workers`, `worker` each process
with its generation and flags, `request[r].pc` the line of `execute`/`_release` a
request thread is at, and `mover` the follower's thread in `repoint` and
`start`. A critical section under `_lock` is one step, except `start`'s, which
spawns while holding it: `LockIsFree` is false meanwhile. `_release` spawns
without the lock and appends once the store is open, and the model does too. A worker's
`listed` is history: the generation the pool was at when the worker joined the list.

**Snapshots** is `snapshots.py`: the loader's process (`Load` to `Finish`, with
`Abandon` between any two steps) and the site's (`Start`, `Refresh`, `Open`,
`Swap` and their failures). A store is the number of loads in it and the
generation stamped in it, so a backup that lost its latest writes is
distinguishable, as in the code, only by the stamp.

## 3. What the runs check

| Run | Instance | Shows |
|---|---|---|
| `statefile` | 3 writers, 1 checker, init | no merge is lost, none is half done, refusals leave nothing, and the calls implement AtomicMerges |
| `dormancy` | 1 endpoint, an hourly and a daily job, 4 instants over 2 days, 2 strikes | woken endpoints stay awake, sleeps stand, records move forward, strikes are consecutive sweeps, the file always parses |
| `rotation` | 3 endpoints, 7 days, gaps up to 2 days | no relegated endpoint starves; slices keep pace with the days that go by; a re-run asks those the first run asked, less those put to sleep |
| `politeness` | 2 tasks, 3 hosts, 4 urls, 2 hops, gap 1, cap 2, delays 2 and 3 | HostsAreTreatedPolitely, ToldIsHeeded, EveryProbeEnds |
| `sweep` | 5 endpoints of 3 hosts, 2 permits, room for 1 arrival | an endpoint is published as failed exactly when it was lost with its task; the sweep implements Publication and ends |
| `probing` | 15 metrics in 3 files, 3 ceilings, 2 cadences, 3 rotations, 3 memories, 4 to 6 answers to each kind of request | every metric is accounted for once; verdicts rest on answers; what is published of an endpoint agrees |
| `run_file` | 1 run of 3 planned and 2 declined endpoints, 4 chunks | a cut loses whole sections, a subject says one thing, `--out` is a finished run, nothing on disk is overwritten |
| `pool` | 2 workers, 2 requests, 2 generations | no worker and no place of the pool is unaccounted for, no query starts on a worker that was in the pool when it moved, queries end |
| `snapshots` | 4 generations, 2 loads, 2 kept | CURRENT is whole, readers have time, nothing piles up or goes back, what is published is served |
| `run_store` | 2 endpoints, 1 metric, 3 runs over 2 days, 3 contents, 1 rewrite, 1 kill, 2 daily jobs | what is published is what a rebuild derives, nothing skipped is missing, current never goes back, nothing uncounted or needed is pruned |
| `prune_pins` | as `run_store`, without rewrites and kills | *violated*: section 4 |
| `profile_gate` | 1 endpoint, 2 contents, 8 nights, a profile night in 3 | *violated*: section 4 |

Why these bounds. `statefile`: with two writers one can be between its read and
its rename while another takes a stale lock's place; the third makes a queue.
`dormancy`: every rule of `update` is about one endpoint's entry, and endpoints
do not influence each other outside the rotation, which has its own run; two
jobs suffice for one merge overtaking another; four instants over two days let
strikes reach their limit, a grace lapse, and a re-run come after both.
The profile pass is
switched off there: it only stamps `last_profiled_at`, which no property of the
run reads (the theorems hold with it on).
`rotation`: three relegated endpoints over a cadence of three is the smallest
set where the slice is a strict part of the due ones, and gaps of two days are the
missed days a slice grows with; that the bound stated for them holds for larger
sets and longer cadences is proved (section 5). `politeness`: two tasks
redirecting into each other's hosts is the cycle a deadlock needs, and a delay on
each side of the cap takes both branches. `sweep`: a group of three
behind one permit of two, and a channel that is full after one, make a task wait
for a permit, a sender for room and the collector for a sender; a panic may come
between two endpoints of one group. `probing`: each of the eleven kinds is there,
and for each the answers its reading tells apart (a page, a refusal, an error
with a result in it, an empty result); the shipped order matters and so the first
file begins with the liveness and the second does not; the rotations make the
night the endpoint's own, another's, or nobody's. `DayIndex` is checked against the
lengths of the months over five years that include both kinds of century.
`run_file`: the chunks hold a metric with two answers, the same decline twice,
names that are no IRIs in every place one is written, and a document of two
datasets that uses one of our own predicates; one run stands for any, since runs share no file but `--out`.
`profile_gate`: three nights leave two on which a count may be refreshed between
two of the endpoint's own. `pool`: a kill, a stale return and a
fill at once need two workers and two requests; one move tells workers that were in the list from
replacements that joined it after, and that a second move reaches these too is proved,
for any number of moves; `Ids` is large enough that a
process can always be made (`PoolAssumption`). `snapshots`: four generations
with two kept make the reaper work twice. `run_store`: three runs are a late one
between two others, or two of a closed day and one after it; the three contents
hold a measurement, both kinds of decline, a sample, a slow fact and a dormant
endpoint, each against each over the two endpoints; a second job finds what a
killed or an earlier one left; a rewritten file is what `--at` run again makes.

Fairness. Politeness: time passes, a request ends (the client has its own
timeout), a walk continues when it can, and the tokio mutex is FIFO, hence strong
fairness on `Take`. `Probe` and `Cancel` have none: no budget is needed for a
probe to end. SparqlPool: `_wait`'s deadline fires (weak fairness on `Overrun`)
and a thread that keeps finding the lock free gets it (strong on `Release`); that
a query answers is *not* assumed. Snapshots: the poll thread runs (weak), and a
warm that is tried again and again succeeds in the end (strong on `Swap`); the
loader has no fairness. Sweep: the runtime polls every task that is ready and a
probing ends by its budgets (weak fairness on each task's steps and on the
collector's); a panic and a failed write are never owed. RunFile, Probing and ProfileGate
claim no liveness. StateFile and the dormancy modules have none and claim no
liveness: a sweep may die at any point.

Deadlock checking is off where the system may stop: `statefile` (its calls end), `dormancy` and `rotation`
(the clock is bounded), `snapshots` (the generations are), `sweep`, `run_file` and `probing` (a sweep, a
file and a probing end), `profile_gate` (the nights are bounded) and the runs of RunStore
(the instants are, and a store with nothing to do is at rest).

Each property of a passing run has a mutant beside the definition it mutates,
marked `MUTANT:`, a plausible slip in that code that breaks the property.

A conjunction stands for its parts in `statefile` (MergesAreAsReported), `pool`
(PoolIsAccountedFor) and `snapshots` (GenerationsAreKept); the parts have names and comments of their own.

## 4. Where the code and its words part

Two of these are runs of their own:

* **A gate that compares with last night** (`profile_gate`). The profile gate is to
  ask "whether what is there has moved since the last pass". What it is given as
  the last pass's counts are the last *sweep's*: `update` writes them whenever a
  sweep could count, and with `--profile-every-days 7` a nightly sweep counts seven
  times for one pass. In the trace an endpoint is profiled with one class, gains
  a second, is counted on another night, and its own night declines the pass as
  unchanged. Only the thirty days repair it.
* **A copy that pins nothing** (`prune_pins`). `pinned_runs` matches the IRIs of
  current against run IRIs and activities; a `descriptionGraph`, `voidGraph` or
  `profileGraph` is neither, so the run a copy came from can be pruned while
  current still shows it, and the next rebuild drops it.

Seven more are kept beside the runs, each a property that its configuration shows
violated (`tlc -config <cfg> <module>`):

| Configuration | Module | What it shows |
|---|---|---|
| `MCPolitenessStandDown.cfg` | `MCPoliteness` | `acquire` reads `not_before`, then sleeps out the gap; a stand-down recorded during the sleep is not read again, and the request goes out inside it |
| `MCPolitenessThrottle.cfg` | `MCPoliteness` | a 429 from a redirect target stands down the host the walk began at |
| `MCSparqlPoolMoved.cfg` | `SparqlPool` | a replacement that `_release` started on the old store, and that is ready after `repoint` marked the list, joins it unmarked and is given queries |
| `MCSparqlPoolSize.cfg` | `SparqlPool` | `_release` appends the worker it spawned though `start` has filled the pool meanwhile: it is larger than its size |
| `MCRunFileCopies.cfg` | `MCRunFile` | a file cut right after a copied statement whose predicate is one of our terminators is taken whole, with a part of the endpoint's chunk |
| `MCRunStoreResummary.cfg` | `MCRunStore` | a pruned day is still closed while a pinned run of it is stored: its summary is written anew from what the prune left, and agrees with itself |
| `MCProbingVocabulary.cfg` | `MCProbing` | the enumeration names classes and every profile query fails: "the pass ran and found no classes at all", so the vocabulary is absent beside a sample of classes |

The pool's late replacement contradicts `repoint`'s "Answer out of a different store
from now on". It stays until the pool moves again or it is killed: what holds, for any
number of moves, is OlderWorkersAreFinished, that a worker which was in the list when
the pool moved, idle or busy, starts no query after. The file that ends in a copied
statement comes of `_ends_at_terminator`, which reads the last statement's predicate
alone where `_is_terminator_line` wants the run's activity for its subject too. What
holds is CutsLoseWholeSections: whole sections, unless the last statement taken is a
copied one; and even then no subject says two things.

Met while modelling, without a configuration. Sweeps: a class profile that was
finished before the endpoint's budget ended is lost with the pass, a local of the
cancelled future, though `ProfileOutcome`'s doc says it is kept, and the pass then
leaves no fact at all, though `outcomes_from` counts it as run; the ladder's rungs
have a metric budget each, not one between them; the prefetched liveness is
dropped, and asked again, when another metric is dispatched before it; the first
gate's comment has an expiry gate too, and the code lets it pass; two facts that
differ only in their counts agree for `emit.rs`; a class enumerated twice gives two
profiles one subject; a claim that is not in an endpoint's scope turns a
declared-but-wrong into an absent, so scoping can mint one. State file: rule C of
`update` drops a whole outcome when a later sweep has merged first, so
`last_profiled_at` is not when the profile pass last ran; `is_due` reads an instant
that hourly probes refresh. Store: a loader killed between the manifest entry of a
late file and the rebuild leaves its readings out of current, and later
invocations publish that; the newest run, loaded again with fewer readings, leaves
the older ones in current. Pool: a worker that dies before it says "ready" raises
`EOFError`, which `_release` does not pass over; a `repoint` whose fill fails is not
tried again before the next generation; `get_sparql_pool` may build its pool on a
generation that was swapped meanwhile.

## 5. What is proved

`tlapm` checks eight modules; the theorems hold for every value of the constants
that satisfies the modules' named assumptions. Each module has its inductive
invariant and, for each operation, the lemma that it is kept.

**StateFileProofs**, for any number of writers and checkers. `Safe` is inductive:
whoever is past `take` owns the lock file (`LockIsHeld`), the copy it holds is the
file's current contents until it renames (`CopyIsCurrent`), the `.partial` it is
about to rename is its own (`PartialIsMine`), and a change is in the file exactly
from its rename on (`CommitsAtRename`). Without CopyIsCurrent, mutual exclusion
does not keep a merge from being lost: a copy read before the lock would do. Mutual
exclusion, MergesAreAsReported, WholeAndGrowing and the refinement of AtomicMerges
follow.

**DormancyProofs**, for any set of endpoints and sweeps, any thresholds and any
clock bound. Every operation of the policy preserves a well-formed entry (the
lemmas `...Keeps`), so `Sound` is inductive; WokenIsNeverDormant and FileParses
follow, and with them the action properties SleepStands, RecordsMoveForward and
SleepersAreLeftAlone. `StrikesAreCounted` adds what the counters mean: `strikes` is
the length of the run of strikes that ends an endpoint's history, `before` that of
the run just before its newest `--at`, and nothing is recorded after that one. The
second is what rule B reads: a replay of the newest `--at` starts from `before`
again, so it can turn a strike into a success and back without counting twice.
The third is why rule C, which drops what a later sweep has overtaken, leaves the
count of consecutive sweeps right.
StrikesAreConsecutiveSweeps and RelegationIsEarned follow.

Of the rotation, for any registry, cadence, gaps and sleepers, the same module proves
what is rationed. The heart is a lemma about the slice: when a due endpoint is left out of it, every member of
the slice sorts ahead of that endpoint (`WholeSliceIsAhead`; otherwise the first
one left out would have been admitted), and all of them sort behind it once they
are asked (`AskedGoBehind`). So an endpoint that waits has a slice fewer ahead of it
after each sweep, and a slice is at least the missed days' share of the governed
set (`SliceIsAShare`): EverySliceKeepsPace. Summed over the days since an endpoint
was asked, that is CannotStarve, which is part of the inductive `Rotation`. A bound of
two cadences alone, less two days, does not hold for sets larger than the run's:
each endpoint that recovers shrinks the slice, and TLC finds four endpoints over a
cadence of four for which it fails; hence the term for those that may have been
ahead. A re-run of the newest `--at` recognises what the first run asked by `probed`: what
bears the mark was asked (`MarkedWasAsked`) and what was asked bears it
(`AskedIsMarked`), so it asks those and no other, less the ones put to sleep since; or
nothing is marked, and then nothing was asked and nothing is due.

**PolitenessProofs**, for any network. `Polite` relates who holds a host, what
its holder is doing and what is left of the gap to what the host is owed, and
what a task was told to the stand-down of its host; ToldIsHeeded and the
refinement of PoliteHosts follow.

**SweepProofs**, for any list of endpoints, any hosts, permits and room. `Delivered`
says that what a task has handed over is in the channel or in its slot, once; that
only a task through with its group returns; and that the file has one chunk per
slot, failed exactly where nothing arrived, which is only written past the channel's
end, when the task of that slot can only have panicked. FailedIffLost and the
safety part of the refinement of Publication follow.

The same module proves the four properties of the file the sweep writes, for any
runs, plan, dormant endpoints and facts. `RunFileAssumption` says what the code sees
to: the plan and the order of the endpoints' names are lists, a declined endpoint is
not planned and is declined once; the facts of a chunk are lists; a chunk has a fact, as `assemble_endpoint` gives
a swept endpoint whether its description was read and a lost one a reason for each
metric, of which a deployment has one at least. Of a copied document it says nothing but
that it is a list. What a chunk says is known piece by piece: a section is
a list of lists put together, and what `FlattenSeq` makes of one, for any length, comes
from an induction over a set of numbers (`AllOfThem`, from the library's fact that `<`
on them is well-founded), which needs no operator for a parameter. On that rest the
lemmas about each list of facts, up to the whole section: a chunk speaks only of its
endpoint and of subjects minted for it (`Ours`), so a quad belongs to one chunk; of its
quads in the run's own graph none but its last reads as a terminator (`Closes`), though
a copied one may; it says of a subject one thing
(`Sound`), and a size that is the number of the values beside it (`CountedSubjects`,
`Counts`). `Sound` speaks of the chunk and of what is left of it when it is cut after a copied
quad: a claim about an endpoint comes after the statement that ties it to the document's
dataset, so the cut leaves none untied (`AlwaysTied`). Then the cut: of whole sections and
a part of the next, the loader takes the whole ones, or all of it if it ends in a copied
statement that reads as a terminator (`TakenCut`). `FileInv` is inductive: a file that
nobody writes is loaded as whole sections, or up to a statement of a copy; the writer's is whole sections, and what it has pending is the section
that comes next (`NextSection`), which is what a kill leaves a part of; `--out` is
every section in the order they arrived. Without NextSection a flush could append
anything. CutsLoseWholeSections, SubjectsSayOneThing, OutIsAFinishedRun and
NothingOnDiskIsOverwritten follow.

**ProbingProofs**, for any metric files, ceilings, cadences, rotations, memories and
responses, assuming what `ProbingAssumption` says: the files were loaded, and no
response is the value that stands for an expired budget. First the operators: for
any definition, claims and response, silence is indeterminate for every kind of
metric, no confirmation and no negative verdict is made without an answer that can
carry it (VerdictsNeedAnswers, DescriptionsNeedAnswers), and but for counts a claim
never decides whether a verdict is a confirmation (ClaimsConfirmNothing). Each action
that adds a row writes one these bear out, hence EveryVerdictRests; a first statement
of that property was too strong for an OPTIONS, which may be answered by a page. Then
the plan: every definition of the file is due or has a reason for not being, never
both and never twice (`PlanParts`, from the lemmas about `Kept`). `Accounted` says at
every request which of the due ones have a row by then: in the measuring, those before
`at` that are asked; past it, all of them, and the passes up to `at` a reason or an
enumeration. `Backed` says what a published fact stands on: a sample on a confirming
row or on a pass that will not be declined (`SamplesStand`, `KeptByAPass`), a profile
on a class in its pass's sample (`ProfilesStand`, `PassStands`), the vocabulary on the
profiles (`VocabularyStands`). Their conjunction `Agreed` is inductive: `Backed` alone
is not, since a reason that comes after a sample would take its ground away, and
`Accounted` is what says that none comes. AllIsAccountedFor and PublishedFactsAgree
follow.

**SnapshotsProofs**, for any number of generations and loads. `Standing`: the loader's
number is the next one until a directory bears it (`LoaderHasItsNumber`), the loads
of what is published are in everything that may replace it, the loader's copies
included (`LoadsAreCarried`), and the site never wants less than it has.
GenerationsAreKept and NothingServedIsTakenBack follow.

**SparqlPoolProofs**, for any number of requests and any size. `Accounted`: what each
request and the follower's thread hold at each place in the code, that no worker is
in two hands, that a worker in the list is stale only while it is busy, and that one
which has been there since before the last move is stale.
PoolIsAccountedFor and OlderWorkersAreFinished follow. Places are counted with the
list, the requests that are replacing a worker, and the spawns that failed since
the pool was last filled.

**RunStoreProofs**, for any runs, endpoints, contents, rewrites, kills and jobs.
`Orderly` has four parts. `Book`: the loader works off what is pending, and a run graph
holds what was last put in it, from a file that is there. `RefilledIsDerived`: what a
rebuild has come to is what the runs say. `JobHasCounted`: a job that prunes has its
pins from current and its summaries from the days. And `Fit`, while no rebuild is
owed: what current says comes from a run that says it (`PointersHold`), and covers
every recorded run (`RunsAreCovered`). The two halves of Fit are what makes
`Replaced`, one run at a time, come to `Derived`, over all of them: a pointer that
comes from a run and is behind none is the newest. PointersHold speaks of the runs
as last made (`made`), because a killed load leaves a graph dropped whose contents
current still shows. SkippedRunsAreHeld, PublishedIsDerived,
OnlyCountedRunsArePruned, CurrentNeverGoesBack and PruningKeepsTheRows follow.

Only model-checked: liveness (EveryProbeEnds, EveryQueryEnds, PublishedIsServed, the
end of every sweep in RefinesPublication), which is out of the prover's reach.

## 6. What is not modelled

Spelling: literals, the percent encoding of subjects, TOML, the text of queries,
log lines and pages. SPARQL evaluation and the network: an answer is a choice.
HTTP headers but for CORS, the proxy and TLS. Blank nodes, in descriptions and in
copied documents. `registry.rs`, `seed.rs` and the programs run by hand, which are
sequential and keep no state; `definitions_revision`, a hash over a spelling;
`sparql_service.py`, a loop over an external engine; the site's pages. `Pool.stop`,
`DirectPool` and `Follower.check_stale` are left out of modules that model the
rest of their files, and so are, of the loader and the daily job: files holding
two sweeps, two runs at one instant (refused), loads that do not consult the
manifest, `--check` of the loader, the drift report, the compaction, `daily.py
--drop`, durations and the charts. That the loader takes a file cut short up to
its last terminator is in RunFile; RunStore loads finished files. `Kill` ends a process and
leaves the machine up: a power cut may lose the directory entry that a rename made,
which `write_state` does not sync and says so, and with it the last merge.

## 7. Plan

Of the models: the two cadences over one rotation (`is_due` under hourly probes),
and Snapshots with SparqlPool through `on_swap`.

Of the proofs: Snapshots as an implementation of a store that its readers see move
forward only, as SweepProofs does for Publication, and RunStore as one whose
published graph is derived at one stroke.
