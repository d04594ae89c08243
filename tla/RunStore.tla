------------------------------ MODULE RunStore ------------------------------
(***************************************************************************)
(* The store the site is published from.  load_run.py --skip-loaded brings *)
(* in the run files the manifest does not name, one transaction after      *)
(* another, rebuilds current when one of them came late, and publishes;    *)
(* --rebuild rebuilds current by hand; daily.py summarises the days that   *)
(* are over and drops the runs nothing needs.  A RocksDB store has one     *)
(* writer, so these processes exclude each other, and each may be killed   *)
(* between any two steps.  Sweeps write their files meanwhile: a file      *)
(* bears the instant its sweep began and comes when it has ended.          *)
(***************************************************************************)
EXTENDS CurrentGraph

CONSTANTS
  Contents,               \* what the sweeps may write
  RunsADay, Keep,         \* instants in a day; --keep-days
  MaxRewrites, MaxKills, MaxJobs  \* bounds

\* What is copied from an endpoint comes with readings of it.
ASSUME ContentsAssumption ==
  \A content \in Contents :
    /\ content \in Content \ {Nothing}
    /\ \A e \in Endpoints : content[e].slow => e \in Mentioned(content)
ASSUME DaysAssumption == RunsADay \in Nat \ {0} /\ Keep \in Nat

VARIABLES
  files,     \* the run file of each instant, Nothing where there is none
  runs,      \* the store's run graphs
  current,   \* the store's current graph
  summary,   \* the store's daily summaries: readings per verdict
  manifest,  \* the contents of each instant's file when it was recorded
  published, \* a generation has been published
  loader,    \* where load_run stands
  job,       \* where daily.py stands
  owed,      \* history: current may be behind until it is next rebuilt
  pruned,    \* history: the runs daily.py has dropped
  made,      \* history: what each run graph last held
  used       \* history: rewrites, kills and jobs so far

store == <<runs, current, summary>>
history == <<owed, pruned, made, used>>
vars == <<files, runs, current, summary, manifest, published, loader, job, history>>

DayOf(r) == (r - 1) \div RunsADay
Days == {DayOf(r) : r \in Runs}

NoSummary == [e \in Endpoints |-> [m \in Metrics |-> [v \in Measured |-> 0]]]

LoaderAway == [pc |-> "away", todo |-> {}, at |-> 0, data |-> Nothing,
               ends |-> {}, pairs |-> {}, units |-> {}, late |-> FALSE]
JobAway == [pc |-> "away", closed |-> {}, todo |-> {}, pairs |-> {}, pins |-> {}]

Init ==
  /\ files = [r \in Runs |-> Nothing]
  /\ runs = files
  /\ current = EmptyCurrent
  /\ summary = [d \in Days |-> NoSummary]
  /\ manifest = files
  /\ published = FALSE
  /\ loader = LoaderAway
  /\ job = JobAway
  /\ owed = FALSE
  /\ pruned = {}
  /\ made = files
  /\ used = [rewrites |-> 0, kills |-> 0, jobs |-> 0]

StoreIsFree == loader.pc = "away" /\ job.pc = "away"
LoaderAt(pc) == loader.pc = pc
JobAt(pc) == job.pc = pc

----------------------------------------------------------------------------
(***************************************************************************)
(* The sweeps: RunWriter.finish renames a whole file into place, over the  *)
(* one an earlier sweep with the same --at left.  Only a loader that is    *)
(* about to start looks at the files, and reads those it found once more,  *)
(* so one that comes at any other moment might as well come at the next.   *)
(* A file has the milliseconds of every answer in it, so one that replaces *)
(* another is neither that one nor the one that was recorded.              *)
(***************************************************************************)
Finish(r, content) ==
  /\ StoreIsFree \/ (r \in loader.todo /\ LoaderAt("next"))
  /\ content \notin {files[r], manifest[r]}
  /\ IF files[r] = Nothing THEN UNCHANGED used
     ELSE /\ used.rewrites < MaxRewrites
          /\ used' = [used EXCEPT !.rewrites = @ + 1]
  /\ files' = [files EXCEPT ![r] = content]
  /\ UNCHANGED <<store, manifest, published, loader, job, owed, pruned, made>>

----------------------------------------------------------------------------
(***************************************************************************)
(* load_run.main.                                                          *)
(***************************************************************************)
\* MUTANT: the manifest keyed by name.
PendingByName == {r \in Runs : files[r] # Nothing /\ manifest[r] = Nothing}
Pending == {r \in Runs : files[r] # Nothing /\ files[r] # manifest[r]}

\* With nothing to load, the store is opened only to publish the first time.
Invoke ==
  /\ StoreIsFree
  /\ \/ Pending # {} /\ loader' = [LoaderAway EXCEPT !.pc = "next", !.todo = Pending]
     \/ /\ Pending = {} /\ ~published /\ \E r \in Runs : manifest[r] # Nothing
        /\ loader' = [LoaderAway EXCEPT !.pc = "publish"]
  /\ UNCHANGED <<files, store, manifest, published, job, history>>

\* _refuse_rewriting_history: the whole invocation ends.
Rewrites(r) ==
  \E e \in Endpoints : files[r][e].dormant
    /\ (e \in Mentioned(runs[r]) \/ runs[r][e].sampled # {})

Refuse ==
  /\ LoaderAt("next")
  /\ Rewrites(Min(loader.todo))
  /\ loader' = LoaderAway
  /\ UNCHANGED <<files, store, manifest, published, job, history>>

\* The file is read again here, whatever it held when it was found pending.
Drop ==
  LET r == Min(loader.todo) IN
    /\ LoaderAt("next")
    /\ ~Rewrites(r)
    /\ loader' = [loader EXCEPT !.pc = "dropped", !.at = r, !.data = files[r]]
    /\ runs' = [runs EXCEPT ![r] = Nothing]
    /\ UNCHANGED <<files, current, summary, manifest, published, job, history>>

\* What current has of the run's earlier contents is not taken back.
Extend ==
  /\ LoaderAt("dropped")
  /\ runs' = [runs EXCEPT ![loader.at] = loader.data]
  /\ made' = [made EXCEPT ![loader.at] = loader.data]
  /\ owed' = (owed \/ made[loader.at] \notin {Nothing, loader.data})
  /\ pruned' = pruned \ {loader.at}
  /\ loader' = [loader EXCEPT
       !.pc = "maintain",
       !.ends = Mentioned(loader.data),
       !.pairs = {p \in Endpoints \X Metrics : p[2] \in loader.data[p[1]].sampled}]
  /\ UNCHANGED <<files, current, summary, manifest, published, job, used>>

\* kept_newer: current's run of this endpoint is a later one.
Kept(e) ==
  /\ loader' = [loader EXCEPT !.ends = @ \ {e}, !.late = TRUE]
  /\ UNCHANGED <<current, owed>>

\* An endpoint's rows, its slow facts and its pointer move in one transaction.
MaintainEndpoint(e) ==
  /\ LoaderAt("maintain")
  /\ e \in loader.ends
  /\ IF Advances(current.run[e], loader.at, runs)
       THEN /\ current' = Replaced(current, e, loader.at, loader.data[e])
            /\ owed' = (owed \/ current.run[e] > loader.at)
            /\ loader' = [loader EXCEPT !.ends = @ \ {e}]
       ELSE Kept(e)
  /\ UNCHANGED <<files, runs, summary, manifest, published, job, pruned, made, used>>

\* Each sample's pointer moves in one of its own.
MaintainSample(e, m) ==
  LET held == current.sample[e][m] IN
    /\ LoaderAt("maintain")
    /\ loader.ends = {} /\ <<e, m>> \in loader.pairs
    /\ IF Advances(held, loader.at, runs)
         THEN /\ current' = [current EXCEPT !.sample[e][m] = loader.at]
              /\ owed' = (owed \/ held > loader.at)
              /\ loader' = [loader EXCEPT !.pairs = @ \ {<<e, m>>}]
         ELSE /\ loader' = [loader EXCEPT !.pairs = @ \ {<<e, m>>}, !.late = TRUE]
              /\ UNCHANGED <<current, owed>>
    /\ UNCHANGED <<files, runs, summary, manifest, published, job, pruned, made, used>>

Record ==
  LET left == loader.todo \ {loader.at} IN
    /\ LoaderAt("maintain")
    /\ loader.ends = {} /\ loader.pairs = {}
    /\ manifest' = [manifest EXCEPT ![loader.at] = loader.data]
    /\ owed' = (owed \/ loader.late)
    /\ loader' = [loader EXCEPT !.todo = left, !.at = 0, !.data = Nothing,
         !.pc = IF left # {} THEN "next" ELSE IF loader.late THEN "rebuild" ELSE "publish"]
    /\ UNCHANGED <<files, store, published, job, pruned, made, used>>

----------------------------------------------------------------------------
(***************************************************************************)
(* rebuild_current, at the end of an invocation or by hand: current goes,  *)
(* and what the runs make of it comes back unit by unit, pointers first,   *)
(* then rows, samples and slow facts.                                      *)
(***************************************************************************)
Kinds == <<"run", "row", "sample", "slow">>
Units ==
  {<<"run", e>> : e \in {e \in Endpoints : DerivedRun(runs, e) # 0}}
  \cup {<<"row", p[1], p[2]>> :
          p \in {p \in Endpoints \X Metrics : RowSource(runs, p[1], p[2]) # 0}}
  \cup {<<"sample", p[1], p[2]>> :
          p \in {p \in Endpoints \X Metrics : DerivedSample(runs, p[1], p[2]) # 0}}
  \cup {<<"slow", e>> : e \in {e \in Endpoints : DerivedSlow(runs, e) # 0}}

\* A rebuild inside an invocation is followed by a publish, one by hand is not.
Clear ==
  /\ current' = EmptyCurrent
  /\ owed' = TRUE
  /\ UNCHANGED <<files, runs, summary, manifest, published, job, pruned, made, used>>

Rebuild ==
  /\ LoaderAt("rebuild")
  /\ loader' = [loader EXCEPT !.pc = "refill", !.units = Units]
  /\ Clear

RebuildByHand ==
  /\ StoreIsFree
  /\ loader' = [LoaderAway EXCEPT !.pc = "refill", !.units = Units]
  /\ Clear

Refilled(u) ==
  CASE u[1] = "run" -> [current EXCEPT !.run[u[2]] = DerivedRun(runs, u[2])]
    [] u[1] = "row" -> [current EXCEPT !.row[u[2]][u[3]] = DerivedRow(runs, u[2], u[3])]
    [] u[1] = "sample" -> [current EXCEPT !.sample[u[2]][u[3]] = DerivedSample(runs, u[2], u[3])]
    [] u[1] = "slow" -> [current EXCEPT !.slow[u[2]] = DerivedSlow(runs, u[2])]

Refill(u) ==
  /\ LoaderAt("refill")
  /\ u \in loader.units
  /\ \A v \in loader.units, i, j \in DOMAIN Kinds :
       Kinds[i] = u[1] /\ Kinds[j] = v[1] => i <= j
  /\ current' = Refilled(u)
  /\ loader' = [loader EXCEPT !.units = @ \ {u}]
  /\ UNCHANGED <<files, runs, summary, manifest, published, job, history>>

Rebuilt ==
  /\ LoaderAt("refill")
  /\ loader.units = {}
  /\ owed' = FALSE
  /\ loader' = IF loader.late THEN [loader EXCEPT !.pc = "publish"] ELSE LoaderAway
  /\ UNCHANGED <<files, store, manifest, published, job, pruned, made, used>>

\* _publish never fails the load: a generation may not come of it.
Publish ==
  /\ LoaderAt("publish")
  /\ published' \in {published, TRUE}
  /\ loader' = LoaderAway
  /\ UNCHANGED <<files, store, manifest, job, history>>

----------------------------------------------------------------------------
(***************************************************************************)
(* daily.py, with and without --check and --prune --commit.                *)
(***************************************************************************)
RunsOn(d) == {r \in Runs : DayOf(r) = d /\ runs[r] # Nothing}
DaysInStore == {DayOf(r) : r \in {r \in Runs : runs[r] # Nothing}}
Closed == {d \in DaysInStore : Cardinality({x \in DaysInStore : x > d}) >= Keep}

\* read_day: readings only, a decline has no verdict.
ReadDay(d) ==
  [e \in Endpoints |-> [m \in Metrics |-> [v \in Measured |->
     Cardinality({r \in RunsOn(d) : runs[r][e].row[m] = v})]]]

\* --check summarises nothing and goes to the gate.
StartJob ==
  /\ StoreIsFree
  /\ used.jobs < MaxJobs
  /\ Closed # {}
  /\ used' = [used EXCEPT !.jobs = @ + 1]
  /\ job' \in {[JobAway EXCEPT !.pc = pc, !.closed = Closed, !.todo = Closed] :
                 pc \in {"summarise", "gate"}}
  /\ UNCHANGED <<files, store, manifest, published, loader, owed, pruned, made>>

\* summarise_day: the old summary goes, the new one comes pair by pair.
DropSummary ==
  LET d == Min(job.todo)
      read == {p \in Endpoints \X Metrics : \E v \in Measured : ReadDay(d)[p[1]][p[2]][v] > 0}
  IN /\ JobAt("summarise")
     /\ job.todo # {}
     /\ summary' = [summary EXCEPT ![d] = NoSummary]
     /\ job' = [job EXCEPT !.pc = "write", !.pairs = read]
     /\ UNCHANGED <<files, runs, current, manifest, published, loader, history>>

WritePair(e, m) ==
  LET d == Min(job.todo) IN
    /\ JobAt("write")
    /\ <<e, m>> \in job.pairs
    /\ summary' = [summary EXCEPT ![d][e][m] = ReadDay(d)[e][m]]
    /\ job' = [job EXCEPT !.pairs = @ \ {<<e, m>>}]
    /\ UNCHANGED <<files, runs, current, manifest, published, loader, history>>

Written ==
  LET left == job.todo \ {Min(job.todo)} IN
    /\ JobAt("write")
    /\ job.pairs = {}
    /\ job' = [job EXCEPT !.pc = IF left = {} THEN "gate" ELSE "summarise", !.todo = left]
    /\ UNCHANGED <<files, store, manifest, published, loader, history>>

\* MUTANT: any summary at all is taken for one that agrees.
AgreesIfAny(d) == summary[d] # NoSummary

\* agrees_with_raw.
Agrees(d) == summary[d] = ReadDay(d)

\* The gate before anything is deleted.
Gate ==
  /\ JobAt("gate")
  /\ \A d \in job.closed : Agrees(d)
  /\ job' = [job EXCEPT !.pc = "prune", !.pins = Pinned(current)]
  /\ UNCHANGED <<files, store, manifest, published, loader, history>>

Prunable == {r \in Runs : DayOf(r) \in job.closed /\ runs[r] # Nothing /\ r \notin job.pins}

\* prune_day goes a day at a time and refuses a day without a summary.
Victims ==
  {r \in Prunable :
    /\ \A x \in Prunable : DayOf(x) >= DayOf(r)
    /\ \A d \in job.closed : d <= DayOf(r) => summary[d] # NoSummary}

PruneRun(r) ==
  /\ JobAt("prune")
  /\ r \in Victims
  /\ runs' = [runs EXCEPT ![r] = Nothing]
  /\ pruned' = pruned \cup {r}
  /\ UNCHANGED <<files, current, summary, manifest, published, loader, job, owed, made, used>>

\* Done, or refused, or not asked to prune.
EndJob ==
  /\ JobAt("gate") \/ (JobAt("prune") /\ Victims = {})
  /\ job' = JobAway
  /\ UNCHANGED <<files, store, manifest, published, loader, history>>

----------------------------------------------------------------------------
Kill ==
  /\ ~StoreIsFree
  /\ used.kills < MaxKills
  /\ used' = [used EXCEPT !.kills = @ + 1]
  /\ loader' = LoaderAway
  /\ job' = JobAway
  /\ UNCHANGED <<files, store, manifest, published, owed, pruned, made>>

Load == Invoke \/ Refuse \/ Drop \/ Extend \/ Record \/ Publish
  \/ (\E e \in Endpoints : MaintainEndpoint(e) \/ \E m \in Metrics : MaintainSample(e, m))
Repair == Rebuild \/ RebuildByHand \/ Rebuilt \/ \E u \in loader.units : Refill(u)
Summarise == StartJob \/ DropSummary \/ Written \/ Gate \/ EndJob
  \/ (\E e \in Endpoints, m \in Metrics : WritePair(e, m)) \/ \E r \in Runs : PruneRun(r)

Next ==
  \/ \E r \in Runs, content \in Contents : Finish(r, content)
  \/ Load \/ Repair \/ Summarise \/ Kill

Spec == Init /\ [][Next]_vars

----------------------------------------------------------------------------
(***************************************************************************)
(* Properties.                                                             *)
(***************************************************************************)
\* Every variable is of its type; a row of current with a run has a reading, and
\* a summary counts no more readings of a pair than its day has runs.
TypeOK ==
  /\ files \in [Runs -> Content]
  /\ runs \in [Runs -> Content]
  /\ current \in Current
  /\ summary \in [Days -> [Endpoints -> [Metrics -> [Measured -> 0..RunsADay]]]]
  /\ manifest \in [Runs -> Content]
  /\ published \in BOOLEAN
  /\ loader.pc \in {"away", "next", "dropped", "maintain", "rebuild", "refill", "publish"}
  /\ loader.todo \subseteq Runs /\ loader.at \in 0..LastRun /\ loader.data \in Content
  /\ loader.ends \subseteq Endpoints /\ loader.pairs \subseteq Endpoints \X Metrics
  /\ loader.late \in BOOLEAN
  /\ job.pc \in {"away", "summarise", "write", "gate", "prune"}
  /\ job.closed \subseteq Days /\ job.todo \subseteq Days
  /\ job.pairs \subseteq Endpoints \X Metrics /\ job.pins \subseteq Runs
  /\ owed \in BOOLEAN /\ pruned \subseteq Runs /\ made \in [Runs -> Content]

\* A generation is published only of a store whose current graph is what a
\* rebuild would make of its run graphs, in whatever order the files came and
\* whatever was killed on the way, unless a rebuild is owed.  The slow facts
\* are answered for only while nothing has been pruned.
PublishedIsDerived ==
  LoaderAt("publish") /\ ~owed =>
    LET derived == Derived(runs) IN
      /\ current.run = derived.run /\ current.row = derived.row
      /\ current.sample = derived.sample
      /\ pruned = {} => current.slow = derived.slow

\* A file the next invocation would skip is in the store as it is on disk, or
\* daily.py has dropped it: the manifest never runs ahead of the store.
SkippedRunsAreHeld ==
  \A r \in Runs \ (pruned \cup Pending \cup {loader.at}) :
    files[r] # Nothing => runs[r] = files[r]

\* Until a rebuild is owed, current moves only to later runs, and a reading,
\* once there, is replaced only by a later reading and never by a decline.
CurrentNeverGoesBack ==
  [][~owed' => \A e \in Endpoints :
       /\ current'.run[e] >= current.run[e]
       /\ \A m \in Metrics :
            LET old == current.row[e][m] new == current'.row[e][m] IN
              /\ old.reading \in Measured => new.reading \in Measured /\ new.run >= old.run
              /\ old.reading \in Observed => new.reading \notin Policy
              /\ current'.sample[e][m] >= current.sample[e][m]]_vars

Pruning == JobAt("prune") /\ runs' # runs

\* No run is dropped from a day whose summary does not count every reading the
\* store still has of that day.
OnlyCountedRunsArePruned ==
  [][Pruning => \A r \in pruned' \ pruned, e \in Endpoints, m \in Metrics, v \in Measured :
       summary[DayOf(r)][e][m][v] >= ReadDay(DayOf(r))[e][m][v]]_vars

Settled ==
  ~owed /\ \A r \in Runs \ pruned : runs[r] = manifest[r] /\ runs[r] = made[r]
RowsOf(graph) == <<graph.run, graph.row, graph.sample>>

\* In a store with nothing half-loaded, dropping a run changes nothing a
\* rebuild makes of the rest: the rows, the pointers and the samples.
PruningKeepsTheRows ==
  [][Pruning /\ Settled => RowsOf(Derived(runs')) = RowsOf(Derived(runs))]_vars

----------------------------------------------------------------------------
(***************************************************************************)
(* Promises the code does not keep.                                        *)
(***************************************************************************)
\* web/tests/test_daily.py: rebuilding after a prune derives the same current.
PruningKeepsCurrent ==
  [][Pruning /\ Settled => Derived(runs') = Derived(runs)]_vars

\* web/daily.py: a day's summary stands for the runs that were dropped from it.
PrunedRunsAreCounted ==
  \A d \in Days, e \in Endpoints, m \in Metrics, v \in Measured :
    ~JobAt("write") =>
      summary[d][e][m][v] >=
        Cardinality({r \in pruned : DayOf(r) = d /\ made[r][e].row[m] = v})
=============================================================================
