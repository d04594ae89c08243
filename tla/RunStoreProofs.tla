--------------------------- MODULE RunStoreProofs ---------------------------
(***************************************************************************)
(* Proofs about RunStore, for any number of runs, endpoints, rewrites,     *)
(* kills and jobs: the graph that loading, run by run, leaves behind is    *)
(* the one a rebuild derives, the manifest skips nothing the store lacks,  *)
(* and what is pruned is counted and not needed.                           *)
(***************************************************************************)
EXTENDS RunStore, FiniteSetTheorems, WellFoundedInduction, TLAPS

\* What a file may hold.
Sound(content) == \A e \in Endpoints : content[e].slow => e \in Mentioned(content)
File == {content \in Content : Sound(content)}

Pairs == Endpoints \X Metrics
Unit == {<<"run", e>> : e \in Endpoints} \cup {<<"row", p[1], p[2]>> : p \in Pairs}
  \cup {<<"sample", p[1], p[2]>> : p \in Pairs} \cup {<<"slow", e>> : e \in Endpoints}

Loader == [pc : {"away", "next", "dropped", "maintain", "rebuild", "refill", "publish"},
           todo : SUBSET Runs, at : 0..LastRun, data : File, ends : SUBSET Endpoints,
           pairs : SUBSET Pairs, units : SUBSET Unit, late : BOOLEAN]

Job == [pc : {"away", "summarise", "write", "gate", "prune"}, closed : SUBSET Days,
        todo : SUBSET Days, pairs : SUBSET Pairs, pins : SUBSET Runs]

Typed ==
  /\ files \in [Runs -> File] /\ runs \in [Runs -> File]
  /\ manifest \in [Runs -> File] /\ made \in [Runs -> File]
  /\ current \in Current
  /\ loader \in Loader /\ job \in Job
  /\ summary \in [Days -> [Endpoints -> [Metrics -> [Measured -> Nat]]]]
  /\ owed \in BOOLEAN /\ pruned \in SUBSET Runs

OneAtATime == LoaderAt("away") \/ JobAt("away")

\* A run graph holds what was last put in it, out of a file that is there.
RunsAreMade ==
  \A r \in Runs :
    /\ runs[r] # Nothing => runs[r] = made[r] /\ r \notin pruned
    /\ made[r] # Nothing => files[r] # Nothing

(***************************************************************************)
(* The loader works off what is pending, and is through with it before it  *)
(* rebuilds or publishes.                                                  *)
(***************************************************************************)
Loading == loader.pc \in {"dropped", "maintain"}

LoaderHasItsFile ==
  /\ loader.pc \in {"next", "dropped", "maintain"} => loader.todo = Pending
  /\ LoaderAt("next") => loader.todo # {}
  /\ IF Loading THEN loader.at \in loader.todo /\ loader.data = files[loader.at]
                ELSE loader.at = 0
  /\ LoaderAt("maintain") =>
       /\ runs[loader.at] = loader.data
       /\ loader.ends \subseteq Mentioned(loader.data)
       /\ \A p \in loader.pairs : p[2] \in loader.data[p[1]].sampled
  /\ loader.pc \in {"rebuild", "publish"} \/ (LoaderAt("refill") /\ loader.late) => Pending = {}

\* What a rebuild has come to is what the run graphs say.
RefilledIsDerived ==
  LoaderAt("refill") =>
    /\ owed
    /\ \A e \in Endpoints :
         /\ <<"run", e>> \notin loader.units => current.run[e] = DerivedRun(runs, e)
         /\ <<"slow", e>> \notin loader.units => current.slow[e] = DerivedSlow(runs, e)
         /\ \A m \in Metrics :
              /\ <<"row", e, m>> \notin loader.units =>
                   current.row[e][m] = DerivedRow(runs, e, m)
              /\ <<"sample", e, m>> \notin loader.units =>
                   current.sample[e][m] = DerivedSample(runs, e, m)

(***************************************************************************)
(* The job prunes no run that current points to, from days that are        *)
(* counted.                                                                *)
(***************************************************************************)
JobHasCounted ==
  JobAt("prune") =>
    /\ job.pins = Pinned(current)
    /\ \A d \in job.closed, e \in Endpoints, m \in Metrics, v \in Measured :
         summary[d][e][m][v] >= ReadDay(d)[e][m][v]

----------------------------------------------------------------------------
(***************************************************************************)
(* What current says comes from the runs as they were last made, those     *)
(* included whose graph is being replaced and not those that were pruned.  *)
(***************************************************************************)
Meant(r) == IF r \in pruned THEN Nothing ELSE made[r]

PointersHold ==
  \A e \in Endpoints :
    /\ current.run[e] # 0 => e \in Mentioned(Meant(current.run[e]))
    /\ current.slow[e] # 0 => made[current.slow[e]][e].slow
    /\ current.slow[e] <= current.run[e]
    /\ \A m \in Metrics :
         LET row == current.row[e][m] IN
           /\ row # NoRow => Meant(row.run)[e].row[m] = row.reading
           /\ row.run <= current.run[e]
           /\ current.sample[e][m] # 0 => m \in Meant(current.sample[e][m])[e].sampled

\* A measurement stands over any decline, an observed decline over a chosen one.
Rank(reading) ==
  IF reading \in Measured THEN 3 ELSE IF reading \in Observed THEN 2
  ELSE IF reading \in Policy THEN 1 ELSE 0

Behind(reading, r, row) ==
  \/ Rank(reading) < Rank(row.reading)
  \/ Rank(reading) = Rank(row.reading) /\ r <= row.run

\* What a run says of an endpoint, and its sample, is in a current or behind it.
EndCovered(graph, content, r, e) ==
  /\ e \in Mentioned(content) => r <= graph.run[e]
  /\ content[e].slow => r <= graph.slow[e]
  /\ \A m \in Metrics :
       content[e].row[m] # "none" => Behind(content[e].row[m], r, graph.row[e][m])

SampleCovered(graph, content, r, e, m) ==
  m \in content[e].sampled => r <= graph.sample[e][m]

RunCovered(graph, content, r) ==
  \A e \in Endpoints :
    EndCovered(graph, content, r, e)
      /\ \A m \in Metrics : SampleCovered(graph, content, r, e, m)

(***************************************************************************)
(* Until a rebuild is owed, current covers every run that is recorded and, *)
(* of the run being loaded, what has been brought up to date.              *)
(***************************************************************************)
RunsAreCovered ==
  /\ \A r \in Runs : runs[r] = manifest[r] => RunCovered(current, runs[r], r)
  /\ LoaderAt("maintain") /\ ~loader.late =>
       /\ \A e \in Endpoints \ loader.ends : EndCovered(current, loader.data, loader.at, e)
       /\ \A p \in Pairs \ loader.pairs :
            SampleCovered(current, loader.data, loader.at, p[1], p[2])

Fit == PointersHold /\ RunsAreCovered

Book == Typed /\ OneAtATime /\ RunsAreMade /\ LoaderHasItsFile /\ SkippedRunsAreHeld

Orderly ==
  /\ Book /\ RefilledIsDerived /\ JobHasCounted
  /\ ~owed => Fit

----------------------------------------------------------------------------
(***************************************************************************)
(* Least and greatest members.                                             *)
(***************************************************************************)
Less == {p \in Nat \X Nat : p[1] < p[2]}

LEMMA LessIsWellFounded == IsWellFoundedOn(Less, Nat)
  BY NatLessThanWellFounded DEF OpToRel, Less

LEMMA HasSmallest ==
  ASSUME NEW S \in SUBSET Nat, S # {}
  PROVE  Min(S) \in S /\ \A s \in S : Min(S) <= s
  <1>1. PICK s \in S : \A t \in S : ~(<<t, s>> \in Less)
    BY LessIsWellFounded, WFMin
  <1>2. ASSUME NEW t \in S PROVE s <= t
    <2>1. s \in Nat /\ t \in Nat
      OBVIOUS
    <2>2. <<t, s>> \in Less <=> t < s
      BY <2>1 DEF Less
    <2> QED
      BY <1>1, <2>1, <2>2
  <1> QED
    BY <1>2 DEF Min

LEMMA HasLargest ==
  ASSUME NEW n \in Nat, NEW S \in SUBSET (0..n), S # {}
  PROVE  Max(S) \in S /\ \A s \in S : Max(S) >= s
  <1> DEFINE T == {n - s : s \in S}
  <1>1. T \in SUBSET Nat /\ T # {}
    <2>1. \A s \in S : n - s \in Nat
      OBVIOUS
    <2> QED
      BY <2>1
  <1>2. PICK t \in T : \A u \in T : t <= u
    BY <1>1, HasSmallest, Zenon
  <1>3. n - t \in S /\ \A s \in S : n - t >= s
    BY <1>2
  <1> QED
    BY <1>3 DEF Max

LEMMA NewestIsLast ==
  ASSUME NEW S \in SUBSET Runs
  PROVE  /\ Newest(S) \in 0..LastRun
         /\ Newest(S) = 0 <=> S = {}
         /\ Newest(S) # 0 => Newest(S) \in S
         /\ \A r \in S : r <= Newest(S)
  <1>1. S \in SUBSET (0..LastRun) /\ 0 \notin S
    BY RunsAssumption DEF Runs
  <1>2. CASE S = {}
    BY <1>2, RunsAssumption DEF Newest
  <1>3. CASE S # {}
    <2>1. Max(S) \in S /\ \A r \in S : Max(S) >= r
      BY <1>1, <1>3, HasLargest, RunsAssumption, Zenon
    <2> QED
      BY <1>1, <1>3, <2>1, RunsAssumption DEF Newest
  <1> QED
    BY <1>2, <1>3

LEMMA LastIsNewest ==
  ASSUME NEW S \in SUBSET Runs, NEW n \in 0..LastRun,
         n # 0 => n \in S, \A r \in S : r <= n
  PROVE  Newest(S) = n
  <1>1. Newest(S) \in 0..LastRun /\ (Newest(S) = 0 <=> S = {})
        /\ (Newest(S) # 0 => Newest(S) \in S) /\ \A r \in S : r <= Newest(S)
    BY NewestIsLast, Zenon
  <1>2. \A r \in S : r \in Nat /\ r > 0
    BY RunsAssumption DEF Runs
  <1> QED
    BY <1>1, <1>2, RunsAssumption

----------------------------------------------------------------------------
(***************************************************************************)
(* What files, chunks and rows hold.                                       *)
(***************************************************************************)
LEMMA NothingIsFile ==
  /\ Nothing \in File /\ Mentioned(Nothing) = {}
  /\ \A e \in Endpoints : Nothing[e] = Silent
  BY DEF File, Nothing, Sound, Content, Chunk, Silent, Reading, Measured, Mentioned

LEMMA ContentIsFile ==
  ASSUME NEW content \in Contents
  PROVE  content \in File /\ content # Nothing
  BY ContentsAssumption DEF File, Sound

LEMMA AwayIsTyped ==
  /\ LoaderAway \in Loader /\ LoaderAway.pc = "away" /\ LoaderAway.at = 0
  /\ JobAway \in Job /\ JobAway.pc = "away"
  BY RunsAssumption, NothingIsFile DEF LoaderAway, Loader, JobAway, Job

LEMMA FileFields ==
  ASSUME NEW content \in File, NEW e \in Endpoints
  PROVE  /\ content[e].slow \in BOOLEAN /\ content[e].sampled \in SUBSET Metrics
         /\ \A m \in Metrics :
              /\ content[e].row[m] \in Reading
              /\ content[e].row[m] # "none" => e \in Mentioned(content)
         /\ content[e].slow => e \in Mentioned(content)
         /\ e \in Mentioned(content) => \E m \in Metrics : content[e].row[m] # "none"
         /\ content = Nothing =>
              /\ ~content[e].slow /\ content[e].sampled = {} /\ e \notin Mentioned(content)
              /\ \A m \in Metrics : content[e].row[m] = "none"
  BY NothingIsFile DEF File, Sound, Content, Chunk, Mentioned, Silent

LEMMA NothingIsCovered == \A graph, r : RunCovered(graph, Nothing, r)
  <1>1. \A e \in Endpoints :
          /\ e \notin Mentioned(Nothing) /\ ~Nothing[e].slow /\ Nothing[e].sampled = {}
          /\ \A m \in Metrics : Nothing[e].row[m] = "none"
    BY NothingIsFile, FileFields
  <1> QED
    BY <1>1 DEF RunCovered, EndCovered, SampleCovered

LEMMA RowFields ==
  ASSUME NEW row \in Row
  PROVE  /\ row.run \in 0..LastRun /\ row.reading \in Reading
         /\ row # NoRow => row.run \in Runs
         /\ row # NoRow <=> row.run # 0
         /\ row # NoRow <=> row.reading # "none"
  <1>1. CASE row = NoRow
    BY <1>1, RunsAssumption DEF NoRow, Reading
  <1>2. CASE row \in [run : Runs, reading : Reading \ {"none"}]
    BY <1>2, RunsAssumption DEF NoRow, Runs
  <1> QED
    BY <1>1, <1>2 DEF Row

LEMMA IsRow ==
  ASSUME NEW r \in Runs, NEW reading \in Reading, reading # "none"
  PROVE  [run |-> r, reading |-> reading] \in Row \ {NoRow}
  BY RunsAssumption DEF Row, NoRow, Runs

----------------------------------------------------------------------------
(***************************************************************************)
(* The book is kept: types, one process at a time, the loader's file.      *)
(***************************************************************************)
LEMMA NextIsPending ==
  ASSUME Book, LoaderAt("next")
  PROVE  /\ Min(loader.todo) \in loader.todo /\ loader.todo = Pending
         /\ Min(loader.todo) \in Runs /\ loader.at = 0
  <1>1. loader.todo \in SUBSET Runs /\ loader.todo # {}
    BY DEF Book, Typed, Loader, LoaderHasItsFile
  <1>2. loader.todo \in SUBSET Nat
    BY <1>1, RunsAssumption DEF Runs
  <1>3. Min(loader.todo) \in loader.todo
    BY <1>1, <1>2, HasSmallest, Zenon
  <1> QED
    BY <1>1, <1>3 DEF Book, LoaderHasItsFile, LoaderAt, Loading

LEMMA LoadingIsPending ==
  ASSUME Book, Loading
  PROVE  /\ loader.at \in Runs /\ loader.at # 0 /\ loader.todo = Pending
         /\ loader.at \in Pending /\ loader.data = files[loader.at]
         /\ loader.data \in File /\ loader.data # Nothing
         /\ loader.data # manifest[loader.at]
  <1>1. /\ loader.at \in loader.todo /\ loader.todo = Pending /\ loader.data = files[loader.at]
        /\ loader.data \in File
    BY DEF Book, LoaderHasItsFile, Loading, Typed, Loader
  <1>2. 0 \notin Runs
    BY RunsAssumption DEF Runs
  <1> QED
    BY <1>1, <1>2 DEF Pending

LEMMA SweepsKeepBook ==
  ASSUME Book, NEW r \in Runs, NEW content \in Contents, Finish(r, content)
  PROVE  Book'
  <1>1. /\ files' = [files EXCEPT ![r] = content] /\ content \in File /\ content # Nothing
        /\ content # files[r] /\ content # manifest[r]
        /\ UNCHANGED <<runs, current, summary, manifest, loader, job, owed, pruned, made>>
    BY ContentIsFile DEF Finish, store
  <1>2. /\ files' \in [Runs -> File] /\ files'[r] = content
        /\ \A x \in Runs \ {r} : files'[x] = files[x]
    BY <1>1 DEF Book, Typed
  <1>3. Typed' /\ OneAtATime'
    BY <1>1, <1>2 DEF Book, Typed, OneAtATime, LoaderAt, JobAt
  <1>4. RunsAreMade'
    BY <1>1, <1>2 DEF Book, RunsAreMade
  <1>5. Pending' = Pending \cup {r}
    BY <1>1, <1>2 DEF Pending
  <1>6. SkippedRunsAreHeld'
    BY <1>1, <1>2, <1>5 DEF Book, SkippedRunsAreHeld
  <1>7. LoaderHasItsFile'
    <2>1. CASE LoaderAt("away")
      BY <2>1, <1>1 DEF Book, LoaderHasItsFile, LoaderAt, Loading
    <2>2. CASE LoaderAt("next") /\ r \in loader.todo
      <3>1. Pending' = Pending
        BY <1>5, <2>2, NextIsPending
      <3> QED
        BY <2>2, <3>1, <1>1 DEF Book, LoaderHasItsFile, LoaderAt, Loading
    <2> QED
      BY <2>1, <2>2 DEF Finish, StoreIsFree, LoaderAt
  <1> QED
    BY <1>3, <1>4, <1>6, <1>7 DEF Book

LEMMA StartKeepsBook ==
  ASSUME Book, Invoke \/ Refuse \/ Publish \/ RebuildByHand
  PROVE  Book'
  <1>1. UNCHANGED <<files, runs, manifest, pruned, made, summary, job>>
    BY DEF Invoke, Refuse, Publish, RebuildByHand, Clear, store, history
  <1>2. current' \in Current /\ owed' \in BOOLEAN
    <2>1. EmptyCurrent \in Current
      BY RunsAssumption DEF EmptyCurrent, Current, Row
    <2> QED
      BY <2>1 DEF Invoke, Refuse, Publish, RebuildByHand, Clear, store, history, Book, Typed
  <1>3. Pending' = Pending /\ Pending \in SUBSET Runs /\ Units \in SUBSET Unit
    BY <1>1 DEF Pending, Units, Unit, Pairs
  <1>4. loader.at = 0
    BY DEF Invoke, Refuse, Publish, RebuildByHand, StoreIsFree, LoaderAt, Book,
           LoaderHasItsFile, Loading
  <1>5. loader' \in Loader /\ loader'.at = 0
        /\ \/ loader'.pc = "away"
           \/ loader'.pc = "next" /\ loader'.todo = Pending /\ Pending # {}
           \/ loader'.pc = "publish" /\ Pending = {}
           \/ loader'.pc = "refill" /\ loader'.late = FALSE
    <2>1. CASE Invoke
      BY <2>1, <1>3, AwayIsTyped DEF Invoke, LoaderAway, Loader
    <2>2. CASE Refuse \/ Publish
      BY <2>2, AwayIsTyped DEF Refuse, Publish
    <2>3. CASE RebuildByHand
      BY <2>3, <1>3, AwayIsTyped DEF RebuildByHand, LoaderAway, Loader
    <2> QED
      BY <2>1, <2>2, <2>3
  <1>6. LoaderAt("away") => job.pc = "away" \/ Refuse \/ Publish
    BY DEF Invoke, RebuildByHand, StoreIsFree, JobAt
  <1>7. JobAt("away")
    BY DEF Invoke, RebuildByHand, StoreIsFree, Refuse, Publish, LoaderAt, JobAt, Book, OneAtATime
  <1>8. Typed' /\ OneAtATime' /\ RunsAreMade'
    BY <1>1, <1>2, <1>5, <1>7 DEF Book, Typed, OneAtATime, JobAt, RunsAreMade
  <1>9. SkippedRunsAreHeld'
    BY <1>1, <1>3, <1>4, <1>5 DEF Book, SkippedRunsAreHeld
  <1>10. LoaderHasItsFile'
    BY <1>3, <1>5 DEF LoaderHasItsFile, LoaderAt, Loading
  <1> QED
    BY <1>8, <1>9, <1>10 DEF Book

LEMMA DropKeepsBook ==
  ASSUME Book, Drop
  PROVE  Book'
  <1>1. PICK r \in Runs : r = Min(loader.todo) /\ r \in loader.todo /\ loader.todo = Pending
    BY NextIsPending DEF Drop
  <1>2. /\ loader' = [loader EXCEPT !.pc = "dropped", !.at = r, !.data = files[r]]
        /\ runs' = [runs EXCEPT ![r] = Nothing] /\ LoaderAt("next")
        /\ UNCHANGED <<files, current, summary, manifest, job, owed, pruned, made>>
    BY <1>1 DEF Drop, history
  <1>3. r \in 0..LastRun /\ files[r] \in File /\ loader.at = 0
    BY RunsAssumption, NextIsPending, <1>2 DEF Runs, Book, Typed
  <1>4. /\ loader' \in Loader /\ loader'.pc = "dropped" /\ loader'.at = r
        /\ loader'.data = files[r] /\ loader'.todo = loader.todo
    BY <1>2, <1>3 DEF Book, Typed, Loader
  <1>5. runs' \in [Runs -> File] /\ runs'[r] = Nothing /\ \A x \in Runs \ {r} : runs'[x] = runs[x]
    BY <1>2, NothingIsFile DEF Book, Typed
  <1>6. Pending' = Pending
    BY <1>2 DEF Pending
  <1>7. Typed' /\ OneAtATime' /\ RunsAreMade'
    BY <1>2, <1>4, <1>5 DEF Book, Typed, OneAtATime, JobAt, LoaderAt, RunsAreMade
  <1>8. SkippedRunsAreHeld'
    <2>1. 0 \notin Runs
      BY RunsAssumption DEF Runs
    <2> QED
      BY <1>2, <1>3, <1>4, <1>5, <1>6, <2>1 DEF Book, SkippedRunsAreHeld
  <1>9. LoaderHasItsFile'
    BY <1>1, <1>2, <1>4, <1>6 DEF LoaderHasItsFile, LoaderAt, Loading
  <1> QED
    BY <1>7, <1>8, <1>9 DEF Book

LEMMA Extends ==
  ASSUME Book, Extend
  PROVE  /\ loader' \in Loader /\ loader'.pc = "maintain" /\ loader'.todo = loader.todo
         /\ loader'.at = loader.at /\ loader'.data = loader.data /\ loader'.late = loader.late
         /\ loader'.ends = Mentioned(loader.data)
         /\ loader'.pairs = {p \in Pairs : p[2] \in loader.data[p[1]].sampled}
         /\ runs' \in [Runs -> File] /\ runs'[loader.at] = loader.data
         /\ \A x \in Runs \ {loader.at} : runs'[x] = runs[x]
         /\ made' \in [Runs -> File] /\ made'[loader.at] = loader.data
         /\ \A x \in Runs \ {loader.at} : made'[x] = made[x]
  <1>1. PICK l \in Loader, r \in Runs, data \in File :
          l = loader /\ r = loader.at /\ data = loader.data
    BY LoadingIsPending DEF Extend, LoaderAt, Loading, Book, Typed
  <1> DEFINE ends == Mentioned(data)
             pairs == {p \in Pairs : p[2] \in data[p[1]].sampled}
  <1>2. ends \in SUBSET Endpoints /\ pairs \in SUBSET Pairs
    BY DEF Mentioned
  <1>3. loader' = [l EXCEPT !.pc = "maintain", !.ends = ends, !.pairs = pairs]
    BY <1>1 DEF Extend, Pairs
  <1> HIDE DEF ends, pairs
  <1>4. /\ loader' \in Loader /\ loader'.pc = "maintain" /\ loader'.todo = l.todo
        /\ loader'.at = l.at /\ loader'.data = l.data /\ loader'.late = l.late
        /\ loader'.ends = ends /\ loader'.pairs = pairs
    BY <1>2, <1>3 DEF Loader
  <1>5. /\ runs' = [runs EXCEPT ![r] = data] /\ made' = [made EXCEPT ![r] = data]
        /\ runs \in [Runs -> File] /\ made \in [Runs -> File]
    BY <1>1 DEF Extend, Book, Typed
  <1> QED
    BY <1>1, <1>4, <1>5 DEF ends, pairs

LEMMA ExtendKeepsBook ==
  ASSUME Book, Extend
  PROVE  Book'
  <1>1. /\ Loading /\ owed' \in BOOLEAN /\ pruned' = pruned \ {loader.at}
        /\ UNCHANGED <<files, current, summary, manifest, job>>
    BY DEF Extend, Loading, LoaderAt, Book, Typed
  <1>2. Pending' = Pending
    BY <1>1 DEF Pending
  <1>3. Typed' /\ OneAtATime'
    BY <1>1, Extends DEF Book, Typed, OneAtATime, JobAt, LoaderAt, Extend
  <1>4. RunsAreMade'
    <2>1. files[loader.at] # Nothing
      BY <1>1, LoadingIsPending
    <2> QED
      BY <1>1, <2>1, Extends DEF Book, RunsAreMade
  <1>5. SkippedRunsAreHeld'
    BY <1>1, <1>2, Extends DEF Book, SkippedRunsAreHeld
  <1>6. LoaderHasItsFile'
    BY <1>1, <1>2, LoadingIsPending, Extends DEF LoaderHasItsFile, LoaderAt, Loading
  <1> QED
    BY <1>3, <1>4, <1>5, <1>6 DEF Book

\* A step of the loader that leaves the files, the runs and the book alone.
LEMMA MaintainKeepsBook ==
  ASSUME Book, LoaderAt("maintain"), LoaderAt("maintain")',
         UNCHANGED <<files, runs, summary, manifest, job, pruned, made>>,
         loader' \in Loader, current' \in Current, owed' \in BOOLEAN,
         loader'.todo = loader.todo, loader'.at = loader.at, loader'.data = loader.data,
         loader'.ends \subseteq loader.ends, loader'.pairs \subseteq loader.pairs
  PROVE  Book'
  <1>1. Pending' = Pending
    BY DEF Pending
  <1>2. Typed' /\ OneAtATime' /\ RunsAreMade'
    BY DEF Book, Typed, OneAtATime, JobAt, LoaderAt, RunsAreMade
  <1>3. SkippedRunsAreHeld'
    BY <1>1 DEF Book, SkippedRunsAreHeld
  <1>4. LoaderHasItsFile'
    BY <1>1 DEF Book, LoaderHasItsFile, LoaderAt, Loading
  <1> QED
    BY <1>2, <1>3, <1>4 DEF Book

LEMMA IsReplaced ==
  ASSUME NEW graph \in Current, NEW e \in Endpoints, NEW r \in Runs, NEW content \in File
  PROVE  LET new == Replaced(graph, e, r, content[e]) IN
         /\ new \in Current /\ new.run[e] = r
         /\ new.slow[e] = IF content[e].slow THEN r ELSE graph.slow[e]
         /\ \A m \in Metrics : new.row[e][m] =
              IF Replaces(graph.row[e][m].reading, content[e].row[m])
                THEN [run |-> r, reading |-> content[e].row[m]] ELSE graph.row[e][m]
         /\ new.sample = graph.sample
         /\ \A x \in Endpoints \ {e} :
              new.run[x] = graph.run[x] /\ new.row[x] = graph.row[x]
                /\ new.slow[x] = graph.slow[x]
  <1> DEFINE rows == [m \in Metrics |->
               IF Replaces(graph.row[e][m].reading, content[e].row[m])
                 THEN [run |-> r, reading |-> content[e].row[m]] ELSE graph.row[e][m]]
             slow == IF content[e].slow THEN r ELSE graph.slow[e]
             new == Replaced(graph, e, r, content[e])
  <1>1. \A m \in Metrics : rows[m] \in Row
    <2> TAKE m \in Metrics
    <2>1. content[e].row[m] \in Reading /\ graph.row[e][m] \in Row
      BY FileFields DEF Current
    <2>2. Replaces(graph.row[e][m].reading, content[e].row[m]) => content[e].row[m] # "none"
      BY DEF Replaces, Measured, Declined, Observed, Policy
    <2> QED
      BY <2>1, <2>2, IsRow
  <1>2. rows \in [Metrics -> Row] /\ slow \in 0..LastRun /\ r \in 0..LastRun
    BY <1>1, RunsAssumption DEF Runs, Current
  <1>3. new = [graph EXCEPT !.run[e] = r, !.row[e] = rows, !.slow[e] = slow]
    BY DEF Replaced, Current
  <1>4. \A m \in Metrics : rows[m] =
              IF Replaces(graph.row[e][m].reading, content[e].row[m])
                THEN [run |-> r, reading |-> content[e].row[m]] ELSE graph.row[e][m]
    OBVIOUS
  <1>5. slow = IF content[e].slow THEN r ELSE graph.slow[e]
    OBVIOUS
  <1> HIDE DEF rows, slow, new
  <1>6. new \in Current /\ new.run[e] = r /\ new.row[e] = rows /\ new.slow[e] = slow
        /\ new.sample = graph.sample
        /\ \A x \in Endpoints \ {e} :
             new.run[x] = graph.run[x] /\ new.row[x] = graph.row[x]
               /\ new.slow[x] = graph.slow[x]
    BY <1>2, <1>3 DEF Current
  <1> QED
    BY <1>4, <1>5, <1>6 DEF new

LEMMA MaintainsEndpoint ==
  ASSUME Book, NEW e \in Endpoints, MaintainEndpoint(e)
  PROVE  /\ loader' \in Loader /\ loader'.pc = "maintain" /\ loader'.todo = loader.todo
         /\ loader'.at = loader.at /\ loader'.data = loader.data
         /\ loader'.ends = loader.ends \ {e} /\ loader'.pairs = loader.pairs
         /\ \/ /\ loader'.late = loader.late
               /\ Advances(current.run[e], loader.at, runs)
               /\ current' = Replaced(current, e, loader.at, loader.data[e])
               /\ owed' = (owed \/ current.run[e] > loader.at)
            \/ loader'.late /\ UNCHANGED <<current, owed>>
  <1>1. PICK l \in Loader : l = loader /\ l.pc = "maintain"
    BY DEF MaintainEndpoint, LoaderAt, Book, Typed
  <1>2. CASE Advances(current.run[e], loader.at, runs)
    <2>1. loader' = [l EXCEPT !.ends = @ \ {e}]
      BY <1>1, <1>2 DEF MaintainEndpoint
    <2>2. /\ loader' \in Loader /\ loader'.pc = l.pc /\ loader'.todo = l.todo
          /\ loader'.at = l.at /\ loader'.data = l.data /\ loader'.late = l.late
          /\ loader'.ends = l.ends \ {e} /\ loader'.pairs = l.pairs
      BY <2>1 DEF Loader
    <2> QED
      BY <1>1, <1>2, <2>2 DEF MaintainEndpoint
  <1>3. CASE ~Advances(current.run[e], loader.at, runs)
    <2>1. loader' = [l EXCEPT !.ends = @ \ {e}, !.late = TRUE]
      BY <1>1, <1>3 DEF MaintainEndpoint, Kept
    <2>2. /\ loader' \in Loader /\ loader'.pc = l.pc /\ loader'.todo = l.todo
          /\ loader'.at = l.at /\ loader'.data = l.data /\ loader'.late
          /\ loader'.ends = l.ends \ {e} /\ loader'.pairs = l.pairs
      BY <2>1 DEF Loader
    <2> QED
      BY <1>1, <1>3, <2>2 DEF MaintainEndpoint, Kept
  <1> QED
    BY <1>2, <1>3

LEMMA MaintainsSample ==
  ASSUME Book, NEW e \in Endpoints, NEW m \in Metrics, MaintainSample(e, m)
  PROVE  /\ loader' \in Loader /\ loader'.pc = "maintain" /\ loader'.todo = loader.todo
         /\ loader'.at = loader.at /\ loader'.data = loader.data
         /\ loader'.ends = loader.ends /\ loader'.pairs = loader.pairs \ {<<e, m>>}
         /\ current' \in Current
         /\ \/ /\ loader'.late = loader.late
               /\ Advances(current.sample[e][m], loader.at, runs)
               /\ owed' = (owed \/ current.sample[e][m] > loader.at)
               /\ UNCHANGED <<current.run, current.row, current.slow>>
               /\ current'.sample[e][m] = loader.at
               /\ \A p \in Pairs \ {<<e, m>>} :
                    current'.sample[p[1]][p[2]] = current.sample[p[1]][p[2]]
            \/ loader'.late /\ UNCHANGED <<current, owed>>
  <1>1. PICK l \in Loader, graph \in Current, at \in 0..LastRun :
          l = loader /\ l.pc = "maintain" /\ graph = current /\ at = l.at
    BY DEF MaintainSample, LoaderAt, Book, Typed, Loader
  <1>2. CASE Advances(current.sample[e][m], loader.at, runs)
    <2>1. loader' = [l EXCEPT !.pairs = @ \ {<<e, m>>}]
      BY <1>1, <1>2 DEF MaintainSample
    <2>2. /\ loader' \in Loader /\ loader'.pc = l.pc /\ loader'.todo = l.todo
          /\ loader'.at = l.at /\ loader'.data = l.data /\ loader'.late = l.late
          /\ loader'.ends = l.ends /\ loader'.pairs = l.pairs \ {<<e, m>>}
      BY <2>1 DEF Loader
    <2>3. current' = [graph EXCEPT !.sample[e][m] = at]
      BY <1>1, <1>2 DEF MaintainSample
    <2>4. /\ current' \in Current /\ current'.run = graph.run /\ current'.row = graph.row
          /\ current'.slow = graph.slow
          /\ current'.sample = [graph.sample EXCEPT ![e][m] = at]
      BY <2>3 DEF Current
    <2>5. graph.sample \in [Endpoints -> [Metrics -> 0..LastRun]]
      BY DEF Current
    <2>6. current'.sample[e][m] = at
      BY <2>4, <2>5
    <2>7. ASSUME NEW p \in Pairs \ {<<e, m>>}
          PROVE  current'.sample[p[1]][p[2]] = graph.sample[p[1]][p[2]]
      BY <2>4, <2>5 DEF Pairs
    <2> QED
      BY <1>1, <1>2, <2>2, <2>4, <2>6, <2>7 DEF MaintainSample
  <1>3. CASE ~Advances(current.sample[e][m], loader.at, runs)
    <2>1. loader' = [l EXCEPT !.pairs = @ \ {<<e, m>>}, !.late = TRUE]
      BY <1>1, <1>3 DEF MaintainSample
    <2>2. /\ loader' \in Loader /\ loader'.pc = l.pc /\ loader'.todo = l.todo
          /\ loader'.at = l.at /\ loader'.data = l.data /\ loader'.late
          /\ loader'.ends = l.ends /\ loader'.pairs = l.pairs \ {<<e, m>>}
      BY <2>1 DEF Loader
    <2> QED
      BY <1>1, <1>3, <2>2 DEF MaintainSample
  <1> QED
    BY <1>2, <1>3

LEMMA MaintenanceKeepsBook ==
  ASSUME Book, NEW e \in Endpoints,
         MaintainEndpoint(e) \/ \E m \in Metrics : MaintainSample(e, m)
  PROVE  Book'
  <1>1. owed \in BOOLEAN /\ current \in Current
    BY DEF Book, Typed
  <1>2. CASE MaintainEndpoint(e)
    <2>1. loader.at \in Runs /\ loader.data \in File
      BY <1>2, LoadingIsPending DEF MaintainEndpoint, LoaderAt, Loading
    <2>2. Replaced(current, e, loader.at, loader.data[e]) \in Current
      BY <1>1, <2>1, IsReplaced
    <2>3. current' \in Current /\ owed' \in BOOLEAN
      BY <1>1, <1>2, <2>2, MaintainsEndpoint
    <2>4. /\ LoaderAt("maintain")
          /\ UNCHANGED <<files, runs, summary, manifest, job, pruned, made>>
      BY <1>2 DEF MaintainEndpoint
    <2>5. /\ loader' \in Loader /\ LoaderAt("maintain")' /\ loader'.todo = loader.todo
          /\ loader'.at = loader.at /\ loader'.data = loader.data
          /\ loader'.ends \subseteq loader.ends /\ loader'.pairs \subseteq loader.pairs
      BY <1>2, MaintainsEndpoint DEF LoaderAt
    <2> QED
      BY <2>3, <2>4, <2>5, MaintainKeepsBook
  <1>3. ASSUME NEW m \in Metrics, MaintainSample(e, m)
        PROVE  Book'
    <2>1. /\ LoaderAt("maintain")
          /\ UNCHANGED <<files, runs, summary, manifest, job, pruned, made>>
      BY <1>3 DEF MaintainSample
    <2>2. /\ loader' \in Loader /\ LoaderAt("maintain")' /\ loader'.todo = loader.todo
          /\ loader'.at = loader.at /\ loader'.data = loader.data
          /\ loader'.ends \subseteq loader.ends /\ loader'.pairs \subseteq loader.pairs
          /\ current' \in Current /\ owed' \in BOOLEAN
      BY <1>1, <1>3, MaintainsSample DEF LoaderAt
    <2> QED
      BY <2>1, <2>2, MaintainKeepsBook
  <1> QED
    BY <1>2, <1>3

LEMMA Records ==
  ASSUME Book, Record
  PROVE  /\ loader' \in Loader /\ loader'.todo = loader.todo \ {loader.at}
         /\ loader'.at = 0 /\ loader'.late = loader.late
         /\ loader'.pc = IF loader.todo \ {loader.at} # {} THEN "next"
                         ELSE IF loader.late THEN "rebuild" ELSE "publish"
         /\ manifest' \in [Runs -> File] /\ manifest'[loader.at] = files[loader.at]
         /\ \A x \in Runs \ {loader.at} : manifest'[x] = manifest[x]
         /\ Pending' = Pending \ {loader.at}
  <1>1. PICK l \in Loader, r \in Runs, data \in File :
          l = loader /\ r = loader.at /\ data = loader.data /\ data = files[r]
    BY LoadingIsPending DEF Record, LoaderAt, Loading, Book, Typed
  <1> DEFINE left == l.todo \ {r}
             pc == IF left # {} THEN "next" ELSE IF l.late THEN "rebuild" ELSE "publish"
  <1>2. left \in SUBSET Runs /\ pc \in {"next", "rebuild", "publish"}
    BY DEF Loader
  <1>3. PICK n \in 0..LastRun, x \in File : n = 0 /\ x = Nothing
    BY RunsAssumption, NothingIsFile
  <1>4. loader' = [l EXCEPT !.todo = left, !.at = n, !.data = x, !.pc = pc]
    BY <1>1, <1>3 DEF Record
  <1>5. /\ pc = IF left # {} THEN "next" ELSE IF l.late THEN "rebuild" ELSE "publish"
        /\ left = loader.todo \ {loader.at}
    BY <1>1
  <1> HIDE DEF left, pc
  <1>6. /\ loader' \in Loader /\ loader'.todo = left /\ loader'.at = n
        /\ loader'.late = l.late /\ loader'.pc = pc
    BY <1>2, <1>4 DEF Loader
  <1>7. /\ manifest' = [manifest EXCEPT ![r] = data] /\ manifest \in [Runs -> File]
        /\ files' = files
    BY <1>1 DEF Record, Book, Typed
  <1>8. /\ manifest' \in [Runs -> File] /\ manifest'[r] = data
        /\ \A q \in Runs \ {r} : manifest'[q] = manifest[q]
    BY <1>7
  <1>9. Pending' = Pending \ {r}
    BY <1>1, <1>7, <1>8 DEF Pending
  <1> QED
    BY <1>1, <1>3, <1>5, <1>6, <1>8, <1>9

LEMMA RecordKeepsBook ==
  ASSUME Book, Record
  PROVE  Book'
  <1>1. Loading /\ LoaderAt("maintain")
    BY DEF Record, Loading, LoaderAt
  <1>2. owed' \in BOOLEAN /\ UNCHANGED <<files, runs, current, summary, job, pruned, made>>
    BY DEF Record, store, Book, Typed, Loader
  <1>3. Typed' /\ OneAtATime' /\ RunsAreMade'
    BY <1>1, <1>2, Records DEF Book, Typed, OneAtATime, JobAt, LoaderAt, RunsAreMade
  <1>4. SkippedRunsAreHeld'
    <2>1. runs[loader.at] = files[loader.at]
      BY <1>1, LoadingIsPending DEF Book, LoaderHasItsFile
    <2> QED
      BY <1>2, <2>1, Records DEF Book, SkippedRunsAreHeld
  <1>5. LoaderHasItsFile'
    <2>1. loader.todo = Pending
      BY <1>1, LoadingIsPending
    <2> QED
      BY <1>2, <2>1, Records DEF LoaderHasItsFile, LoaderAt, Loading
  <1> QED
    BY <1>3, <1>4, <1>5 DEF Book

LEMMA Clears ==
  ASSUME Book, Rebuild \/ RebuildByHand
  PROVE  /\ loader' \in Loader /\ loader'.pc = "refill" /\ loader'.units = Units
         /\ loader'.at = 0 /\ (Rebuild => loader'.late = loader.late)
         /\ (RebuildByHand => ~loader'.late)
  <1>1. Units \in SUBSET Unit
    BY DEF Units, Unit, Pairs
  <1>2. CASE Rebuild
    <2>1. loader.at = 0
      BY <1>2 DEF Rebuild, LoaderAt, Book, LoaderHasItsFile, Loading
    <2>2. loader' = [loader EXCEPT !.pc = "refill", !.units = Units] /\ loader \in Loader
      BY <1>2 DEF Rebuild, Book, Typed
    <2>3. /\ loader' \in Loader /\ loader'.pc = "refill" /\ loader'.units = Units
          /\ loader'.at = loader.at /\ loader'.late = loader.late
      BY <1>1, <2>2 DEF Loader
    <2>4. ~RebuildByHand
      BY <1>2 DEF Rebuild, RebuildByHand, StoreIsFree, LoaderAt
    <2> QED
      BY <2>1, <2>3, <2>4
  <1>3. CASE RebuildByHand
    <2>1. ~Rebuild
      BY <1>3 DEF Rebuild, RebuildByHand, StoreIsFree, LoaderAt
    <2>2. /\ loader' = [LoaderAway EXCEPT !.pc = "refill", !.units = Units]
          /\ LoaderAway \in Loader /\ LoaderAway.at = 0 /\ ~LoaderAway.late
      BY <1>3, AwayIsTyped DEF RebuildByHand, LoaderAway
    <2>3. /\ loader' \in Loader /\ loader'.pc = "refill" /\ loader'.units = Units
          /\ loader'.at = LoaderAway.at /\ loader'.late = LoaderAway.late
      BY <1>1, <2>2 DEF Loader
    <2> QED
      BY <2>1, <2>2, <2>3
  <1> QED
    BY <1>2, <1>3

LEMMA ClearKeepsBook ==
  ASSUME Book, Rebuild
  PROVE  Book'
  <1>1. /\ LoaderAt("rebuild") /\ UNCHANGED <<files, runs, summary, manifest, job, pruned, made>>
        /\ current' = EmptyCurrent /\ owed' = TRUE
    BY DEF Rebuild, Clear
  <1>2. EmptyCurrent \in Current
    BY RunsAssumption DEF EmptyCurrent, Current, Row
  <1>3. Pending' = Pending
    BY <1>1 DEF Pending
  <1>4. loader.at = 0 /\ Pending = {}
    BY <1>1 DEF LoaderAt, Book, LoaderHasItsFile, Loading
  <1>5. Typed' /\ OneAtATime' /\ RunsAreMade'
    BY <1>1, <1>2, Clears DEF Book, Typed, OneAtATime, JobAt, LoaderAt, RunsAreMade
  <1>6. SkippedRunsAreHeld'
    BY <1>1, <1>3, <1>4, Clears DEF Book, SkippedRunsAreHeld
  <1>7. LoaderHasItsFile'
    BY <1>3, <1>4, Clears DEF LoaderHasItsFile, LoaderAt, Loading
  <1> QED
    BY <1>5, <1>6, <1>7 DEF Book

----------------------------------------------------------------------------
(***************************************************************************)
(* What a rebuild derives from a graph of runs.                            *)
(***************************************************************************)
LEMMA PointersDerived ==
  ASSUME NEW graph \in [Runs -> File], NEW e \in Endpoints
  PROVE  /\ DerivedRun(graph, e) \in 0..LastRun
         /\ DerivedRun(graph, e) # 0 =>
              DerivedRun(graph, e) \in Runs /\ e \in Mentioned(graph[DerivedRun(graph, e)])
         /\ \A r \in Runs : e \in Mentioned(graph[r]) => r <= DerivedRun(graph, e)
         /\ DerivedSlow(graph, e) \in 0..LastRun
         /\ DerivedSlow(graph, e) # 0 =>
              DerivedSlow(graph, e) \in Runs /\ graph[DerivedSlow(graph, e)][e].slow
         /\ \A r \in Runs : graph[r][e].slow => r <= DerivedSlow(graph, e)
         /\ \A m \in Metrics :
              /\ DerivedSample(graph, e, m) \in 0..LastRun
              /\ DerivedSample(graph, e, m) # 0 =>
                   /\ DerivedSample(graph, e, m) \in Runs
                   /\ m \in graph[DerivedSample(graph, e, m)][e].sampled
              /\ \A r \in Runs : m \in graph[r][e].sampled => r <= DerivedSample(graph, e, m)
  <1>1. ASSUME NEW S \in SUBSET Runs
        PROVE  /\ Newest(S) \in 0..LastRun
               /\ Newest(S) # 0 => Newest(S) \in S
               /\ \A r \in S : r <= Newest(S)
    BY NewestIsLast
  <1>2. /\ DerivedRun(graph, e) = Newest({r \in Runs : e \in Mentioned(graph[r])})
        /\ DerivedSlow(graph, e) = Newest({r \in Runs : graph[r][e].slow})
        /\ \A m \in Metrics :
             DerivedSample(graph, e, m) = Newest({r \in Runs : m \in graph[r][e].sampled})
    BY DEF DerivedRun, DerivedSlow, DerivedSample
  <1>3. \A m \in Metrics : {r \in Runs : m \in graph[r][e].sampled} \in SUBSET Runs
    OBVIOUS
  <1>4. /\ {r \in Runs : e \in Mentioned(graph[r])} \in SUBSET Runs
        /\ {r \in Runs : graph[r][e].slow} \in SUBSET Runs
    OBVIOUS
  <1>5. \A m \in Metrics :
              /\ DerivedSample(graph, e, m) \in 0..LastRun
              /\ DerivedSample(graph, e, m) # 0 =>
                   /\ DerivedSample(graph, e, m) \in Runs
                   /\ m \in graph[DerivedSample(graph, e, m)][e].sampled
              /\ \A r \in Runs : m \in graph[r][e].sampled => r <= DerivedSample(graph, e, m)
    BY <1>1, <1>2, <1>3
  <1>6. /\ DerivedRun(graph, e) \in 0..LastRun
        /\ DerivedRun(graph, e) # 0 =>
             DerivedRun(graph, e) \in Runs /\ e \in Mentioned(graph[DerivedRun(graph, e)])
        /\ \A r \in Runs : e \in Mentioned(graph[r]) => r <= DerivedRun(graph, e)
    BY <1>1, <1>2, <1>4
  <1>7. /\ DerivedSlow(graph, e) \in 0..LastRun
        /\ DerivedSlow(graph, e) # 0 =>
             DerivedSlow(graph, e) \in Runs /\ graph[DerivedSlow(graph, e)][e].slow
        /\ \A r \in Runs : graph[r][e].slow => r <= DerivedSlow(graph, e)
    BY <1>1, <1>2, <1>4
  <1> QED
    BY <1>5, <1>6, <1>7

LEMMA RanksOfReadings ==
  ASSUME NEW reading \in Reading
  PROVE  /\ Rank(reading) \in 0..3 /\ (Rank(reading) = 0 <=> reading = "none")
         /\ Rank(reading) = 3 <=> reading \in Measured
         /\ Rank(reading) = 2 <=> reading \in Observed
         /\ Rank(reading) = 1 <=> reading \in Policy
         /\ reading \in Declined <=> Rank(reading) \in {1, 2}
  BY DEF Reading, Rank, Measured, Observed, Policy, Declined

LEMMA RowDerived ==
  ASSUME NEW graph \in [Runs -> File], NEW e \in Endpoints, NEW m \in Metrics
  PROVE  LET row == DerivedRow(graph, e, m) IN
         /\ row \in Row
         /\ RowSource(graph, e, m) = 0 => row = NoRow
         /\ row # NoRow => row.run \in Runs /\ graph[row.run][e].row[m] = row.reading
         /\ \A r \in Runs :
              graph[r][e].row[m] # "none" => Behind(graph[r][e].row[m], r, row)
  <1> DEFINE says == [r \in Runs |-> graph[r][e].row[m]]
             source == RowSource(graph, e, m)
             row == DerivedRow(graph, e, m)
  <1>1. \A r \in Runs : says[r] \in Reading
    BY FileFields
  <1>2. ASSUME NEW readings
        PROVE  /\ Saying(graph, e, m, readings) = {r \in Runs : says[r] \in readings}
               /\ Newest(Saying(graph, e, m, readings)) \in 0..LastRun
               /\ Newest(Saying(graph, e, m, readings)) = 0
                    <=> Saying(graph, e, m, readings) = {}
               /\ Newest(Saying(graph, e, m, readings)) # 0 =>
                    /\ Newest(Saying(graph, e, m, readings)) \in Runs
                    /\ says[Newest(Saying(graph, e, m, readings))] \in readings
               /\ \A r \in Runs : says[r] \in readings =>
                    r <= Newest(Saying(graph, e, m, readings))
    <2>1. Saying(graph, e, m, readings) = {r \in Runs : says[r] \in readings}
      BY DEF Saying
    <2> HIDE DEF says
    <2>2. {r \in Runs : says[r] \in readings} \in SUBSET Runs
      OBVIOUS
    <2> QED
      BY <2>1, <2>2, NewestIsLast
  <1>3. \A r \in Runs : says[r] = graph[r][e].row[m]
    OBVIOUS
  <1> HIDE DEF says
  <1>4. /\ source \in 0..LastRun
        /\ source = 0 => \A r \in Runs : says[r] = "none"
        /\ source # 0 =>
             /\ source \in Runs /\ says[source] # "none"
             /\ \A r \in Runs : says[r] # "none" =>
                  \/ Rank(says[r]) < Rank(says[source])
                  \/ Rank(says[r]) = Rank(says[source]) /\ r <= source
    <2>1. CASE Saying(graph, e, m, Measured) # {}
      <3>1. source = Newest(Saying(graph, e, m, Measured))
        BY <2>1 DEF RowSource
      <3>2. source \in Runs /\ source # 0 /\ source \in 0..LastRun /\ says[source] \in Measured
        BY <1>2, <2>1, <3>1
      <3>3. \A r \in Runs : says[r] \in Measured => r <= source
        BY <1>2, <3>1
      <3> QED
        BY <1>1, <3>2, <3>3, RanksOfReadings
    <2>2. CASE Saying(graph, e, m, Measured) = {} /\ Saying(graph, e, m, Observed) # {}
      <3>1. source = Newest(Saying(graph, e, m, Observed))
        BY <2>2 DEF RowSource
      <3>2. source \in Runs /\ source # 0 /\ source \in 0..LastRun /\ says[source] \in Observed
        BY <1>2, <2>2, <3>1
      <3>3. \A r \in Runs : says[r] \notin Measured /\ (says[r] \in Observed => r <= source)
        BY <1>2, <2>2, <3>1
      <3> QED
        BY <1>1, <3>2, <3>3, RanksOfReadings
    <2>3. CASE Saying(graph, e, m, Measured) = {} /\ Saying(graph, e, m, Observed) = {}
      <3>1. source = Newest(Saying(graph, e, m, Policy))
        BY <2>3 DEF RowSource
      <3>2. source \in 0..LastRun /\ (source # 0 => source \in Runs /\ says[source] \in Policy)
        BY <1>2, <3>1
      <3>3. \A r \in Runs :
              /\ says[r] \notin Measured /\ says[r] \notin Observed
              /\ says[r] \in Policy => r <= source /\ source # 0
        BY <1>2, <2>3, <3>1
      <3> QED
        BY <1>1, <3>2, <3>3, RanksOfReadings
    <2> QED
      BY <2>1, <2>2, <2>3
  <1>5. row = IF source = 0 THEN NoRow ELSE [run |-> source, reading |-> says[source]]
    BY <1>3, <1>4 DEF DerivedRow, RowFrom
  <1> HIDE DEF source, row
  <1>6. CASE source = 0
    BY <1>3, <1>4, <1>5, <1>6 DEF source, row, Row
  <1>7. CASE source # 0
    <2>1. row \in Row /\ row.run = source /\ row.reading = says[source]
      BY <1>1, <1>4, <1>5, <1>7, IsRow
    <2> QED
      BY <1>3, <1>4, <1>7, <2>1 DEF source, row, Behind
  <1> QED
    BY <1>6, <1>7

----------------------------------------------------------------------------
(***************************************************************************)
(* The book, continued: rebuilds, daily.py and kills.                      *)
(***************************************************************************)
LEMMA Refills ==
  ASSUME Book, NEW u \in loader.units, Refill(u)
  PROVE  /\ loader' \in Loader /\ loader'.pc = loader.pc /\ loader'.at = loader.at
         /\ loader'.late = loader.late /\ loader'.units = loader.units \ {u}
         /\ current' \in Current
         /\ \A e \in Endpoints :
              /\ IF u = <<"run", e>> THEN current'.run[e] = DerivedRun(runs, e)
                                    ELSE current'.run[e] = current.run[e]
              /\ IF u = <<"slow", e>> THEN current'.slow[e] = DerivedSlow(runs, e)
                                     ELSE current'.slow[e] = current.slow[e]
              /\ \A m \in Metrics :
                   /\ IF u = <<"row", e, m>>
                        THEN current'.row[e][m] = DerivedRow(runs, e, m)
                        ELSE current'.row[e][m] = current.row[e][m]
                   /\ IF u = <<"sample", e, m>>
                        THEN current'.sample[e][m] = DerivedSample(runs, e, m)
                        ELSE current'.sample[e][m] = current.sample[e][m]
  <1>1. PICK l \in Loader, graph \in [Runs -> File], old \in Current :
          l = loader /\ graph = runs /\ old = current
    BY DEF Book, Typed
  <1>2. /\ loader' = [l EXCEPT !.units = @ \ {u}] /\ current' = Refilled(u)
        /\ u \in Unit
    BY <1>1 DEF Refill, Loader
  <1>3. /\ loader' \in Loader /\ loader'.pc = l.pc /\ loader'.at = l.at
        /\ loader'.late = l.late /\ loader'.units = l.units \ {u}
    BY <1>2 DEF Loader
  <1>4. /\ old.run \in [Endpoints -> 0..LastRun] /\ old.slow \in [Endpoints -> 0..LastRun]
        /\ old.row \in [Endpoints -> [Metrics -> Row]]
        /\ old.sample \in [Endpoints -> [Metrics -> 0..LastRun]]
    BY DEF Current
  <1>5. CASE \E e \in Endpoints : u = <<"run", e>>
    <2>1. PICK x \in Endpoints : u = <<"run", x>>
      BY <1>5
    <2>2. PICK n \in 0..LastRun : n = DerivedRun(graph, x)
      BY PointersDerived
    <2>3. current' = [old EXCEPT !.run[x] = n]
      BY <1>1, <1>2, <2>1, <2>2 DEF Refilled
    <2>4. /\ current' \in Current /\ current'.run = [old.run EXCEPT ![x] = n]
          /\ current'.row = old.row /\ current'.sample = old.sample /\ current'.slow = old.slow
      BY <2>3 DEF Current
    <2>5. \A e \in Endpoints : /\ (u = <<"run", e>> <=> e = x) /\ u # <<"slow", e>>
                              /\ \A m \in Metrics : u # <<"row", e, m>> /\ u # <<"sample", e, m>>
      BY <2>1
    <2>6. \A e \in Endpoints : current'.run[e] = IF e = x THEN n ELSE old.run[e]
      BY <1>4, <2>4
    <2> QED
      BY <1>1, <1>3, <2>2, <2>4, <2>5, <2>6
  <1>6. CASE \E e \in Endpoints : u = <<"slow", e>>
    <2>1. PICK x \in Endpoints : u = <<"slow", x>>
      BY <1>6
    <2>2. PICK n \in 0..LastRun : n = DerivedSlow(graph, x)
      BY PointersDerived
    <2>3. current' = [old EXCEPT !.slow[x] = n]
      BY <1>1, <1>2, <2>1, <2>2 DEF Refilled
    <2>4. /\ current' \in Current /\ current'.slow = [old.slow EXCEPT ![x] = n]
          /\ current'.row = old.row /\ current'.sample = old.sample /\ current'.run = old.run
      BY <2>3 DEF Current
    <2>5. \A e \in Endpoints : /\ (u = <<"slow", e>> <=> e = x) /\ u # <<"run", e>>
                              /\ \A m \in Metrics : u # <<"row", e, m>> /\ u # <<"sample", e, m>>
      BY <2>1
    <2>6. \A e \in Endpoints : current'.slow[e] = IF e = x THEN n ELSE old.slow[e]
      BY <1>4, <2>4
    <2> QED
      BY <1>1, <1>3, <2>2, <2>4, <2>5, <2>6
  <1>7. CASE \E e \in Endpoints, m \in Metrics : u = <<"row", e, m>>
    <2>1. PICK x \in Endpoints, y \in Metrics : u = <<"row", x, y>>
      BY <1>7
    <2>2. PICK row \in Row : row = DerivedRow(graph, x, y)
      BY RowDerived
    <2>3. current' = [old EXCEPT !.row[x][y] = row]
      BY <1>1, <1>2, <2>1, <2>2 DEF Refilled
    <2>4. /\ current' \in Current /\ current'.row = [old.row EXCEPT ![x][y] = row]
          /\ current'.slow = old.slow /\ current'.sample = old.sample /\ current'.run = old.run
      BY <2>3 DEF Current
    <2>5. \A e \in Endpoints : /\ u # <<"run", e>> /\ u # <<"slow", e>>
                              /\ \A m \in Metrics : /\ u = <<"row", e, m>> <=> e = x /\ m = y
                                                   /\ u # <<"sample", e, m>>
      BY <2>1
    <2>6. \A e \in Endpoints, m \in Metrics :
            current'.row[e][m] = IF e = x /\ m = y THEN row ELSE old.row[e][m]
      BY <1>4, <2>4
    <2> QED
      BY <1>1, <1>3, <2>2, <2>4, <2>5, <2>6
  <1>8. CASE \E e \in Endpoints, m \in Metrics : u = <<"sample", e, m>>
    <2>1. PICK x \in Endpoints, y \in Metrics : u = <<"sample", x, y>>
      BY <1>8
    <2>2. PICK n \in 0..LastRun : n = DerivedSample(graph, x, y)
      BY PointersDerived
    <2>3. current' = [old EXCEPT !.sample[x][y] = n]
      BY <1>1, <1>2, <2>1, <2>2 DEF Refilled
    <2>4. /\ current' \in Current /\ current'.sample = [old.sample EXCEPT ![x][y] = n]
          /\ current'.slow = old.slow /\ current'.row = old.row /\ current'.run = old.run
      BY <2>3 DEF Current
    <2>5. \A e \in Endpoints : /\ u # <<"run", e>> /\ u # <<"slow", e>>
                              /\ \A m \in Metrics : /\ u = <<"sample", e, m>> <=> e = x /\ m = y
                                                   /\ u # <<"row", e, m>>
      BY <2>1
    <2>6. \A e \in Endpoints, m \in Metrics :
            current'.sample[e][m] = IF e = x /\ m = y THEN n ELSE old.sample[e][m]
      BY <1>4, <2>4
    <2> QED
      BY <1>1, <1>3, <2>2, <2>4, <2>5, <2>6
  <1> QED
    BY <1>2, <1>5, <1>6, <1>7, <1>8 DEF Unit, Pairs

LEMMA RefillKeepsBook ==
  ASSUME Book, NEW u \in loader.units, Refill(u)
  PROVE  Book'
  <1>1. UNCHANGED <<files, runs, summary, manifest, job, owed, pruned, made>>
        /\ LoaderAt("refill")
    BY DEF Refill, history
  <1>2. Pending' = Pending
    BY <1>1 DEF Pending
  <1>3. Typed' /\ OneAtATime' /\ RunsAreMade'
    BY <1>1, Refills DEF Book, Typed, OneAtATime, JobAt, LoaderAt, RunsAreMade
  <1>4. SkippedRunsAreHeld'
    BY <1>1, <1>2, Refills DEF Book, SkippedRunsAreHeld
  <1>5. LoaderHasItsFile'
    BY <1>1, <1>2, Refills DEF Book, LoaderHasItsFile, LoaderAt, Loading
  <1> QED
    BY <1>3, <1>4, <1>5 DEF Book

LEMMA RebuiltKeepsBook ==
  ASSUME Book, Rebuilt
  PROVE  Book' /\ loader'.pc \in {"away", "publish"}
  <1>1. /\ LoaderAt("refill") /\ owed' = FALSE
        /\ UNCHANGED <<files, runs, current, summary, manifest, job, pruned, made>>
    BY DEF Rebuilt, store
  <1>2. Pending' = Pending
    BY <1>1 DEF Pending
  <1>3. loader.at = 0 /\ loader \in Loader
    BY <1>1 DEF Book, Typed, LoaderHasItsFile, LoaderAt, Loading
  <1>4. /\ loader' \in Loader /\ loader'.at = 0
        /\ \/ loader'.pc = "away"
           \/ loader'.pc = "publish" /\ Pending = {}
    <2>1. CASE loader.late
      <3>1. loader' = [loader EXCEPT !.pc = "publish"]
        BY <2>1 DEF Rebuilt
      <3>2. loader' \in Loader /\ loader'.at = loader.at /\ loader'.pc = "publish"
        BY <1>3, <3>1 DEF Loader
      <3> QED
        BY <1>1, <1>3, <2>1, <3>2 DEF Book, LoaderHasItsFile
    <2>2. CASE ~loader.late
      <3>1. loader' = LoaderAway
        BY <2>2 DEF Rebuilt
      <3> QED
        BY <3>1, AwayIsTyped
    <2> QED
      BY <2>1, <2>2
  <1>5. Typed' /\ OneAtATime' /\ RunsAreMade'
    BY <1>1, <1>4 DEF Book, Typed, OneAtATime, JobAt, LoaderAt, RunsAreMade
  <1>6. SkippedRunsAreHeld'
    BY <1>1, <1>2, <1>3, <1>4 DEF Book, SkippedRunsAreHeld
  <1>7. LoaderHasItsFile'
    BY <1>2, <1>4 DEF LoaderHasItsFile, LoaderAt, Loading
  <1> QED
    BY <1>4, <1>5, <1>6, <1>7 DEF Book

LEMMA KillKeepsBook ==
  ASSUME Book, Kill
  PROVE  Book'
  <1>1. /\ UNCHANGED <<files, runs, current, summary, manifest, owed, pruned, made>>
        /\ loader' = LoaderAway /\ job' = JobAway
    BY DEF Kill, store
  <1>2. Pending' = Pending
    BY <1>1 DEF Pending
  <1>3. Typed' /\ OneAtATime' /\ RunsAreMade'
    BY <1>1, AwayIsTyped DEF Book, Typed, OneAtATime, JobAt, LoaderAt, RunsAreMade
  <1>4. loader.at \in Pending \/ loader.at = 0
    BY LoadingIsPending DEF Book, LoaderHasItsFile
  <1>5. SkippedRunsAreHeld'
    BY <1>1, <1>2, <1>4, AwayIsTyped DEF Book, SkippedRunsAreHeld
  <1>6. LoaderHasItsFile'
    BY <1>1, AwayIsTyped DEF LoaderHasItsFile, LoaderAt, Loading
  <1> QED
    BY <1>3, <1>5, <1>6 DEF Book

\* What the summaries hold, and the days they count.
LEMMA RunsAreFinite ==
  ASSUME NEW S \in SUBSET Runs
  PROVE  IsFiniteSet(S) /\ Cardinality(S) \in Nat
  <1>1. IsFiniteSet(Runs)
    BY FS_Interval, RunsAssumption DEF Runs
  <1> QED
    BY <1>1, FS_Subset, FS_CardinalityType

LEMMA ReadingIsCounting ==
  ASSUME NEW d
  PROVE  /\ ReadDay(d) \in [Endpoints -> [Metrics -> [Measured -> Nat]]]
         /\ \A e \in Endpoints, m \in Metrics, v \in Measured :
              ReadDay(d)[e][m][v] = Cardinality({r \in RunsOn(d) : runs[r][e].row[m] = v})
  <1>1. ASSUME NEW e \in Endpoints, NEW m \in Metrics, NEW v \in Measured
        PROVE  Cardinality({r \in RunsOn(d) : runs[r][e].row[m] = v}) \in Nat
    <2>1. {r \in RunsOn(d) : runs[r][e].row[m] = v} \in SUBSET Runs
      BY DEF RunsOn
    <2> QED
      BY <2>1, RunsAreFinite
  <1> QED
    BY <1>1 DEF ReadDay

LEMMA JobSteps ==
  ASSUME Book, Summarise
  PROVE  /\ job' \in Job /\ LoaderAt("away")
         /\ summary' \in [Days -> [Endpoints -> [Metrics -> [Measured -> Nat]]]]
         /\ UNCHANGED <<files, current, manifest, loader, owed, made>>
         /\ \/ UNCHANGED <<runs, pruned>>
            \/ \E r \in Runs : PruneRun(r)
  <1>1. job \in Job /\ summary \in [Days -> [Endpoints -> [Metrics -> [Measured -> Nat]]]]
    BY DEF Book, Typed
  <1>2. Closed \in SUBSET Days
    BY DEF Closed, DaysInStore, Days
  <1>3. CASE StartJob
    <2>1. PICK pc \in {"summarise", "gate"} :
            job' = [JobAway EXCEPT !.pc = pc, !.closed = Closed, !.todo = Closed]
      BY <1>3 DEF StartJob
    <2>2. job' \in Job
      BY <1>2, <2>1, AwayIsTyped DEF Job
    <2> QED
      BY <1>1, <1>3, <2>2 DEF StartJob, StoreIsFree, LoaderAt, store
  <1>4. CASE DropSummary
    <2> DEFINE d == Min(job.todo)
               read == {p \in Endpoints \X Metrics :
                          \E v \in Measured : ReadDay(d)[p[1]][p[2]][v] > 0}
    <2>1. read \in SUBSET Pairs
      BY DEF Pairs
    <2>2. job' = [job EXCEPT !.pc = "write", !.pairs = read]
      BY <1>4 DEF DropSummary
    <2> HIDE DEF read
    <2>3. job' \in Job
      BY <1>1, <2>1, <2>2 DEF Job
    <2>4. NoSummary \in [Endpoints -> [Metrics -> [Measured -> Nat]]]
      BY DEF NoSummary
    <2>5. summary' \in [Days -> [Endpoints -> [Metrics -> [Measured -> Nat]]]]
      BY <1>1, <1>4, <2>4 DEF DropSummary
    <2> QED
      BY <1>1, <1>4, <2>3, <2>5 DEF DropSummary, Book, OneAtATime, LoaderAt, JobAt, history
  <1>5. ASSUME NEW e \in Endpoints, NEW m \in Metrics, WritePair(e, m)
        PROVE  /\ job' \in Job /\ LoaderAt("away")
               /\ summary' \in [Days -> [Endpoints -> [Metrics -> [Measured -> Nat]]]]
               /\ UNCHANGED <<files, current, manifest, loader, owed, made, runs, pruned>>
    <2>1. job' = [job EXCEPT !.pairs = @ \ {<<e, m>>}]
      BY <1>5 DEF WritePair
    <2>2. job' \in Job
      BY <1>1, <2>1 DEF Job
    <2>3. ReadDay(Min(job.todo))[e][m] \in [Measured -> Nat]
      BY ReadingIsCounting
    <2>4. summary' \in [Days -> [Endpoints -> [Metrics -> [Measured -> Nat]]]]
      BY <1>1, <1>5, <2>3 DEF WritePair
    <2> QED
      BY <1>5, <2>2, <2>4 DEF WritePair, Book, OneAtATime, LoaderAt, JobAt, history
  <1>6. CASE Written
    <2>1. PICK left \in SUBSET Days, pc \in {"gate", "summarise"} :
            job' = [job EXCEPT !.pc = pc, !.todo = left]
      BY <1>1, <1>6 DEF Written, Job
    <2>2. job' \in Job
      BY <1>1, <2>1 DEF Job
    <2> QED
      BY <1>1, <1>6, <2>2 DEF Written, Book, OneAtATime, LoaderAt, JobAt, history, store
  <1>7. CASE Gate
    <2>1. Pinned(current) \in SUBSET Runs
      BY DEF Pinned
    <2>2. job' \in Job
      BY <1>1, <1>7, <2>1 DEF Gate, Job
    <2> QED
      BY <1>1, <1>7, <2>2 DEF Gate, Book, OneAtATime, LoaderAt, JobAt, history, store
  <1>8. CASE EndJob
    BY <1>1, <1>8, AwayIsTyped DEF EndJob, Book, OneAtATime, LoaderAt, JobAt, history, store
  <1>9. ASSUME NEW r \in Runs, PruneRun(r)
        PROVE  /\ job' \in Job /\ LoaderAt("away")
               /\ summary' \in [Days -> [Endpoints -> [Metrics -> [Measured -> Nat]]]]
               /\ UNCHANGED <<files, current, manifest, loader, owed, made>>
    BY <1>1, <1>9 DEF PruneRun, Book, OneAtATime, LoaderAt, JobAt
  <1> QED
    BY <1>3, <1>4, <1>5, <1>6, <1>7, <1>8, <1>9 DEF Summarise

LEMMA JobKeepsBook ==
  ASSUME Book, Summarise
  PROVE  Book'
  <1>1. Pending' = Pending
    BY JobSteps DEF Pending
  <1>2. OneAtATime'
    BY JobSteps DEF OneAtATime, LoaderAt
  <1>3. LoaderHasItsFile'
    BY <1>1, JobSteps DEF Book, LoaderHasItsFile, LoaderAt, Loading
  <1>4. CASE UNCHANGED <<runs, pruned>>
    <2>1. Typed' /\ RunsAreMade'
      BY <1>4, JobSteps DEF Book, Typed, RunsAreMade
    <2>2. SkippedRunsAreHeld'
      BY <1>1, <1>4, JobSteps DEF Book, SkippedRunsAreHeld
    <2> QED
      BY <1>2, <1>3, <2>1, <2>2 DEF Book
  <1>5. ASSUME NEW r \in Runs, PruneRun(r)
        PROVE  Book'
    <2>1. /\ runs' \in [Runs -> File] /\ runs'[r] = Nothing
          /\ \A x \in Runs \ {r} : runs'[x] = runs[x]
          /\ pruned' = pruned \cup {r} /\ pruned' \in SUBSET Runs
      BY <1>5, NothingIsFile DEF PruneRun, Book, Typed
    <2>2. Typed' /\ RunsAreMade'
      BY <2>1, JobSteps DEF Book, Typed, RunsAreMade
    <2>3. SkippedRunsAreHeld'
      BY <1>1, <2>1, JobSteps DEF Book, SkippedRunsAreHeld
    <2> QED
      BY <1>2, <1>3, <2>2, <2>3 DEF Book
  <1> QED
    BY <1>4, <1>5, JobSteps

LEMMA BookStarts == Init => Book
  <1> SUFFICES ASSUME Init PROVE Book
    OBVIOUS
  <1>1. EmptyCurrent \in Current
    BY RunsAssumption DEF EmptyCurrent, Current, Row
  <1>2. NoSummary \in [Endpoints -> [Metrics -> [Measured -> Nat]]]
    BY DEF NoSummary
  <1>3. [r \in Runs |-> Nothing] \in [Runs -> File]
    BY NothingIsFile
  <1>4. Typed
    BY <1>1, <1>2, <1>3, AwayIsTyped DEF Init, Typed
  <1>5. OneAtATime /\ RunsAreMade /\ SkippedRunsAreHeld
    BY AwayIsTyped DEF Init, OneAtATime, LoaderAt, RunsAreMade, SkippedRunsAreHeld
  <1>6. LoaderHasItsFile
    BY AwayIsTyped DEF Init, LoaderHasItsFile, LoaderAt, Loading
  <1> QED
    BY <1>4, <1>5, <1>6 DEF Book

LEMMA BookIsKept == Book /\ [Next]_vars => Book'
  <1> SUFFICES ASSUME Book, [Next]_vars PROVE Book'
    OBVIOUS
  <1>1. ASSUME NEW r \in Runs, NEW content \in Contents, Finish(r, content) PROVE Book'
    BY <1>1, SweepsKeepBook
  <1>2. CASE Load
    BY <1>2, StartKeepsBook, DropKeepsBook, ExtendKeepsBook, RecordKeepsBook,
       MaintenanceKeepsBook DEF Load
  <1>3. CASE Repair
    BY <1>3, StartKeepsBook, ClearKeepsBook, RebuiltKeepsBook, RefillKeepsBook DEF Repair
  <1>4. CASE Summarise
    BY <1>4, JobKeepsBook
  <1>5. CASE Kill
    BY <1>5, KillKeepsBook
  <1>6. CASE UNCHANGED vars
    <2>1. Pending' = Pending
      BY <1>6 DEF vars, Pending
    <2> QED
      BY <1>6, <2>1 DEF vars, store, history, Book, Typed, OneAtATime, RunsAreMade, LoaderAt,
         JobAt, Loading, LoaderHasItsFile, SkippedRunsAreHeld
  <1> QED
    BY <1>1, <1>2, <1>3, <1>4, <1>5, <1>6 DEF Next

\* A file the next invocation would skip is in the store as it is on disk, or
\* daily.py has dropped it: load_run's manifest never runs ahead of the store,
\* however the files come, whatever replaces them and whatever is killed.
THEOREM NothingIsSkipped == Spec => []SkippedRunsAreHeld
  <1>1. Spec => []Book
    BY BookStarts, BookIsKept, PTL DEF Spec
  <1>2. Book => SkippedRunsAreHeld
    BY DEF Book
  <1> QED
    BY <1>1, <1>2, PTL

----------------------------------------------------------------------------
(***************************************************************************)
(* Nothing is pruned that is not counted.                                  *)
(***************************************************************************)
LEMMA LoaderWorksAlone ==
  ASSUME Book, Load \/ Repair
  PROVE  JobAt("away") /\ JobAt("away")'
  <1>1. CASE LoaderAt("away")
    <2>1. Invoke \/ RebuildByHand
      BY <1>1 DEF Load, Repair, Refuse, Drop, Extend, Record, Publish, MaintainEndpoint,
                  MaintainSample, Rebuild, Rebuilt, Refill, LoaderAt
    <2> QED
      BY <2>1 DEF Invoke, RebuildByHand, Clear, StoreIsFree, JobAt
  <1>2. CASE ~LoaderAt("away")
    <2>1. JobAt("away")
      BY <1>2 DEF Book, OneAtATime
    <2>2. UNCHANGED job
      BY DEF Load, Repair, Invoke, RebuildByHand, Clear, Refuse, Drop, Extend, Record, Publish,
             MaintainEndpoint, MaintainSample, Rebuild, Rebuilt, Refill
    <2> QED
      BY <2>1, <2>2 DEF JobAt
  <1> QED
    BY <1>1, <1>2

\* What any step does to a job that is about to prune.
LEMMA StepsOfThePruner ==
  ASSUME Book, [Next]_vars, JobAt("prune") \/ JobAt("prune")'
  PROVE  \/ UNCHANGED <<runs, current, summary, job, pruned>>
         \/ Kill /\ JobAt("prune") /\ JobAt("away")' /\ UNCHANGED <<runs, current, summary, pruned>>
         \/ Gate /\ UNCHANGED <<runs, current, summary, pruned>>
         \/ \E r \in Runs : PruneRun(r)
         \/ EndJob /\ JobAt("away")' /\ UNCHANGED <<runs, current, summary, pruned>>
  <1>1. CASE Load \/ Repair
    BY <1>1, LoaderWorksAlone DEF JobAt
  <1>2. ASSUME NEW r \in Runs, NEW content \in Contents, Finish(r, content)
        PROVE UNCHANGED <<runs, current, summary, job, pruned>>
    BY <1>2 DEF Finish, store
  <1>3. CASE Kill
    BY <1>3, AwayIsTyped DEF Kill, JobAt, store
  <1>4. CASE UNCHANGED vars
    BY <1>4 DEF vars, store, history
  <1>5. CASE Summarise
    <2>1. ~StartJob
      <3>1. SUFFICES ASSUME StartJob PROVE FALSE
        OBVIOUS
      <3>2. PICK pc \in {"summarise", "gate"} :
              job' = [JobAway EXCEPT !.pc = pc, !.closed = Closed, !.todo = Closed]
        BY <3>1 DEF StartJob
      <3>3. job'.pc = pc
        BY <3>2 DEF JobAway
      <3> QED
        BY <3>1, <3>3 DEF StartJob, StoreIsFree, JobAt
    <2>2. ~DropSummary
      <3>1. SUFFICES ASSUME DropSummary PROVE FALSE
        OBVIOUS
      <3>2. \E pairs : job' = [job EXCEPT !.pc = "write", !.pairs = pairs]
        BY <3>1 DEF DropSummary
      <3>3. job'.pc = "write"
        BY <3>2 DEF Book, Typed, Job
      <3> QED
        BY <3>1, <3>3 DEF DropSummary, JobAt
    <2>3. ASSUME NEW e \in Endpoints, NEW m \in Metrics, WritePair(e, m)
          PROVE  FALSE
      <3>1. job'.pc = job.pc
        BY <2>3 DEF WritePair, Book, Typed, Job
      <3> QED
        BY <2>3, <3>1 DEF WritePair, JobAt
    <2>4. ~Written
      <3>1. SUFFICES ASSUME Written PROVE FALSE
        OBVIOUS
      <3>2. PICK pc \in {"gate", "summarise"} :
              \E left : job' = [job EXCEPT !.pc = pc, !.todo = left]
        BY <3>1 DEF Written
      <3>3. job'.pc = pc
        BY <3>2 DEF Book, Typed, Job
      <3> QED
        BY <3>1, <3>3 DEF Written, JobAt
    <2> QED
      BY <1>5, <2>1, <2>2, <2>3, <2>4, AwayIsTyped
         DEF Summarise, Gate, EndJob, JobAt, store, history
  <1> QED
    BY <1>1, <1>2, <1>3, <1>4, <1>5 DEF Next

LEMMA PrunedIsRead ==
  ASSUME Book, NEW r \in Runs, PruneRun(r), NEW d \in Days,
         NEW e \in Endpoints, NEW m \in Metrics, NEW v \in Measured
  PROVE  ReadDay(d)[e][m][v]' \in Nat /\ ReadDay(d)[e][m][v] >= ReadDay(d)[e][m][v]'
  <1> DEFINE S == {x \in RunsOn(d) : runs[x][e].row[m] = v}
             T == {x \in RunsOn(d)' : runs'[x][e].row[m] = v}
  <1>1. /\ runs' \in [Runs -> File] /\ runs'[r] = Nothing
        /\ \A x \in Runs \ {r} : runs'[x] = runs[x]
    BY NothingIsFile DEF PruneRun, Book, Typed
  <1>2. T \subseteq S /\ S \in SUBSET Runs
    BY <1>1 DEF RunsOn
  <1>3. Cardinality(T) <= Cardinality(S) /\ Cardinality(S) \in Nat /\ Cardinality(T) \in Nat
    BY <1>2, FS_Subset, RunsAreFinite
  <1>4. ReadDay(d)[e][m][v] = Cardinality(S)
    BY DEF ReadDay
  <1>5. ReadDay(d)[e][m][v]' = Cardinality(T)
    BY DEF ReadDay
  <1> QED
    BY <1>3, <1>4, <1>5

LEMMA CountsAreKept == Book /\ JobHasCounted /\ [Next]_vars => JobHasCounted'
  <1> SUFFICES ASSUME Book, JobHasCounted, [Next]_vars, JobAt("prune")'
               PROVE  /\ job'.pins = Pinned(current')
                      /\ \A d \in job'.closed, e \in Endpoints, m \in Metrics, v \in Measured :
                           summary'[d][e][m][v] >= ReadDay(d)[e][m][v]'
    BY DEF JobHasCounted
  <1>1. CASE UNCHANGED <<runs, current, summary, job, pruned>>
    <2>1. \A d : ReadDay(d)' = ReadDay(d)
      BY <1>1 DEF ReadDay, RunsOn
    <2> QED
      BY <1>1, <2>1 DEF JobHasCounted, JobAt
  <1>2. CASE Gate
    <2>1. job' = [job EXCEPT !.pc = "prune", !.pins = Pinned(current)]
      BY <1>2 DEF Gate
    <2>2. job'.pins = Pinned(current) /\ job'.closed = job.closed /\ job.closed \in SUBSET Days
      BY <2>1 DEF Book, Typed, Job
    <2>3. \A d \in job.closed : summary[d] = ReadDay(d)
      BY <1>2 DEF Gate, Agrees
    <2>4. \A d : ReadDay(d)' = ReadDay(d)
      BY <1>2 DEF ReadDay, RunsOn, Gate, store
    <2>5. ASSUME NEW d \in job.closed, NEW e \in Endpoints, NEW m \in Metrics, NEW v \in Measured
          PROVE  summary'[d][e][m][v] >= ReadDay(d)[e][m][v]'
      <3>1. summary'[d][e][m][v] = ReadDay(d)[e][m][v] /\ ReadDay(d)[e][m][v] \in Nat
        BY <1>2, <2>3, ReadingIsCounting DEF Gate, store
      <3>2. ReadDay(d)[e][m][v]' = ReadDay(d)[e][m][v]
        BY <2>4
      <3> QED
        BY <3>1, <3>2
    <2> QED
      BY <1>2, <2>2, <2>5 DEF Gate, store
  <1>3. ASSUME NEW r \in Runs, PruneRun(r)
        PROVE  /\ job'.pins = Pinned(current')
               /\ \A d \in job'.closed, e \in Endpoints, m \in Metrics, v \in Measured :
                    summary'[d][e][m][v] >= ReadDay(d)[e][m][v]'
    <2>1. job' = job /\ current' = current /\ summary' = summary /\ JobAt("prune")
          /\ job.closed \in SUBSET Days
      BY <1>3 DEF PruneRun, Book, Typed, Job
    <2>2. ASSUME NEW d \in job.closed, NEW e \in Endpoints, NEW m \in Metrics, NEW v \in Measured
          PROVE  summary'[d][e][m][v] >= ReadDay(d)[e][m][v]'
      <3>1. summary[d][e][m][v] >= ReadDay(d)[e][m][v] /\ d \in Days
        BY <2>1 DEF JobHasCounted
      <3>2. summary[d][e][m][v] \in Nat /\ ReadDay(d)[e][m][v] \in Nat
        BY <3>1, ReadingIsCounting DEF Book, Typed
      <3>3. ReadDay(d)[e][m][v]' \in Nat /\ ReadDay(d)[e][m][v] >= ReadDay(d)[e][m][v]'
        BY <1>3, <3>1, PrunedIsRead
      <3> QED
        BY <2>1, <3>1, <3>2, <3>3
    <2> QED
      BY <2>1, <2>2 DEF JobHasCounted
  <1> QED
    BY <1>1, <1>2, <1>3, StepsOfThePruner DEF JobAt

LEMMA OnlyTheCountedGo ==
  ASSUME Book, JobHasCounted, [Next]_vars, Pruning
  PROVE  \E x \in Runs :
           /\ PruneRun(x) /\ x \notin Pinned(current) /\ pruned' \ pruned \subseteq {x}
           /\ \A e \in Endpoints, m \in Metrics, v \in Measured :
                summary[DayOf(x)][e][m][v] >= ReadDay(DayOf(x))[e][m][v]
  <1>1. JobAt("prune") /\ runs' # runs
    BY DEF Pruning
  <1>2. PICK x \in Runs : PruneRun(x)
    BY <1>1, StepsOfThePruner
  <1>3. DayOf(x) \in job.closed /\ x \notin job.pins /\ pruned' = pruned \cup {x}
    BY <1>2 DEF PruneRun, Victims, Prunable
  <1> QED
    BY <1>1, <1>2, <1>3 DEF JobHasCounted

\* daily.py drops no run from a day whose summary counts fewer readings, of any
\* pair and verdict, than the store still has of that day.
THEOREM PrunedIsCounted == Spec => OnlyCountedRunsArePruned
  <1>1. Init => JobHasCounted
    BY AwayIsTyped DEF Init, JobHasCounted, JobAt
  <1>2. Spec => [](Book /\ JobHasCounted)
    BY <1>1, BookStarts, BookIsKept, CountsAreKept, PTL DEF Spec
  <1>3. Book /\ JobHasCounted /\ [Next]_vars =>
          [Pruning => \A r \in pruned' \ pruned, e \in Endpoints, m \in Metrics, v \in Measured :
             summary[DayOf(r)][e][m][v] >= ReadDay(DayOf(r))[e][m][v]]_vars
    <2> SUFFICES ASSUME Book, JobHasCounted, [Next]_vars, Pruning,
                        NEW r \in pruned' \ pruned, NEW e \in Endpoints, NEW m \in Metrics,
                        NEW v \in Measured
                 PROVE  summary[DayOf(r)][e][m][v] >= ReadDay(DayOf(r))[e][m][v]
      OBVIOUS
    <2>1. PICK x \in Runs :
            /\ PruneRun(x) /\ x \notin Pinned(current) /\ pruned' \ pruned \subseteq {x}
            /\ summary[DayOf(x)][e][m][v] >= ReadDay(DayOf(x))[e][m][v]
      BY OnlyTheCountedGo
    <2>2. r = x
      BY <2>1
    <2> QED
      BY <2>1, <2>2
  <1> QED
    BY <1>2, <1>3, PTL DEF Spec, OnlyCountedRunsArePruned

----------------------------------------------------------------------------
(***************************************************************************)
(* current is what the runs say, by a rebuild and by loading.              *)
(***************************************************************************)
LEMMA StepsToRefill ==
  ASSUME Book, [Next]_vars, LoaderAt("refill")'
  PROVE  \/ Rebuild \/ RebuildByHand \/ \E u \in loader.units : Refill(u)
         \/ UNCHANGED vars
  <1>1. ASSUME NEW r \in Runs, NEW content \in Contents, Finish(r, content) PROVE FALSE
    BY <1>1 DEF Finish, StoreIsFree, LoaderAt
  <1>2. CASE Load
    <2>1. ~Invoke
      <3>1. ASSUME Invoke PROVE loader'.pc \in {"next", "publish"}
        BY <3>1 DEF Invoke, LoaderAway
      <3> QED
        BY <3>1 DEF LoaderAt
    <2>2. ~Drop
      <3>1. ASSUME Drop PROVE loader'.pc = "dropped"
        BY <3>1 DEF Drop, Book, Typed, Loader
      <3> QED
        BY <3>1 DEF LoaderAt
    <2>3. ~Refuse /\ ~Publish
      BY AwayIsTyped DEF Refuse, Publish, LoaderAt
    <2>4. ~Extend /\ ~Record
      BY Extends, Records DEF LoaderAt
    <2>5. \A e \in Endpoints : ~MaintainEndpoint(e) /\ \A m \in Metrics : ~MaintainSample(e, m)
      BY MaintainsEndpoint, MaintainsSample DEF LoaderAt
    <2> QED
      BY <1>2, <2>1, <2>2, <2>3, <2>4, <2>5 DEF Load
  <1>3. ~Rebuilt
    BY RebuiltKeepsBook DEF LoaderAt
  <1>4. ~Summarise /\ ~Kill
    BY JobSteps, AwayIsTyped DEF LoaderAt, Kill
  <1> QED
    BY <1>1, <1>2, <1>3, <1>4 DEF Next, Repair

LEMMA RefillingIsKept == Book /\ RefilledIsDerived /\ [Next]_vars => RefilledIsDerived'
  <1> SUFFICES ASSUME Book, RefilledIsDerived, [Next]_vars, LoaderAt("refill")'
               PROVE  RefilledIsDerived'
    BY DEF RefilledIsDerived
  <1>1. CASE Rebuild \/ RebuildByHand
    <2>1. current' = EmptyCurrent /\ owed' /\ UNCHANGED runs /\ loader'.units = Units
      BY <1>1, Clears DEF Rebuild, RebuildByHand, Clear
    <2>2. \A e \in Endpoints :
            /\ <<"run", e>> \notin Units => DerivedRun(runs, e) = 0
            /\ <<"slow", e>> \notin Units => DerivedSlow(runs, e) = 0
            /\ \A m \in Metrics :
                 /\ <<"row", e, m>> \notin Units => RowSource(runs, e, m) = 0
                 /\ <<"sample", e, m>> \notin Units => DerivedSample(runs, e, m) = 0
      <3> TAKE e \in Endpoints
      <3>1. \A m \in Metrics : RowSource(runs, e, m) # 0 => <<"row", e, m>> \in Units
        <4> TAKE m \in Metrics
        <4>1. <<e, m>> \in Endpoints \X Metrics /\ <<e, m>>[1] = e /\ <<e, m>>[2] = m
          OBVIOUS
        <4> QED
          BY <4>1 DEF Units
      <3>2. \A m \in Metrics : DerivedSample(runs, e, m) # 0 => <<"sample", e, m>> \in Units
        <4> TAKE m \in Metrics
        <4>1. <<e, m>> \in Endpoints \X Metrics /\ <<e, m>>[1] = e /\ <<e, m>>[2] = m
          OBVIOUS
        <4> QED
          BY <4>1 DEF Units
      <3> QED
        BY <3>1, <3>2 DEF Units
    <2>3. \A e \in Endpoints, m \in Metrics :
            RowSource(runs, e, m) = 0 => DerivedRow(runs, e, m) = NoRow
      BY RowDerived DEF Book, Typed
    <2> QED
      BY <2>1, <2>2, <2>3 DEF RefilledIsDerived, EmptyCurrent
  <1>2. ASSUME NEW u \in loader.units, Refill(u)
        PROVE  RefilledIsDerived'
    <2>1. LoaderAt("refill") /\ UNCHANGED <<runs, owed>>
      BY <1>2 DEF Refill, history
    <2> QED
      BY <1>2, <2>1, Refills DEF RefilledIsDerived
  <1>3. CASE UNCHANGED vars
    BY <1>3 DEF vars, store, history, RefilledIsDerived, LoaderAt
  <1> QED
    BY <1>1, <1>2, <1>3, StepsToRefill

\* The pointers hold as long as what they mean stays.
LEMMA PointersStay ==
  ASSUME Book, PointersHold, UNCHANGED current,
         \A c \in Runs : c \in Pinned(current) /\ Meant(c) # Nothing => Meant(c)' = Meant(c),
         \A c \in Runs : made[c] # Nothing => made'[c] = made[c]
  PROVE  PointersHold'
  <1> SUFFICES ASSUME NEW e \in Endpoints
               PROVE  /\ current.run[e] # 0 => e \in Mentioned(Meant(current.run[e])')
                      /\ current.slow[e] # 0 => made'[current.slow[e]][e].slow
                      /\ \A m \in Metrics :
                           /\ current.row[e][m] # NoRow =>
                                Meant(current.row[e][m].run)'[e].row[m] = current.row[e][m].reading
                           /\ current.sample[e][m] # 0 =>
                                m \in Meant(current.sample[e][m])'[e].sampled
    BY DEF PointersHold
  <1>1. /\ current.run[e] \in 0..LastRun /\ current.slow[e] \in 0..LastRun
        /\ \A m \in Metrics : current.sample[e][m] \in 0..LastRun /\ current.row[e][m] \in Row
    BY DEF Book, Typed, Current
  <1>2. current.run[e] # 0 => e \in Mentioned(Meant(current.run[e])')
    <2> SUFFICES ASSUME current.run[e] # 0 PROVE e \in Mentioned(Meant(current.run[e])')
      OBVIOUS
    <2>1. current.run[e] \in Runs /\ current.run[e] \in Pinned(current)
      BY <1>1, RunsAssumption DEF Runs, Pinned
    <2>2. e \in Mentioned(Meant(current.run[e]))
      BY DEF PointersHold
    <2>3. Meant(current.run[e])' = Meant(current.run[e])
      BY <2>1, <2>2, NothingIsFile
    <2> QED
      BY <2>2, <2>3
  <1>3. current.slow[e] # 0 => made'[current.slow[e]][e].slow
    <2> SUFFICES ASSUME current.slow[e] # 0 PROVE made'[current.slow[e]][e].slow
      OBVIOUS
    <2>1. current.slow[e] \in Runs /\ made[current.slow[e]][e].slow
      BY <1>1, RunsAssumption DEF Runs, PointersHold
    <2>2. made[current.slow[e]] # Nothing
      BY <2>1, NothingIsFile, FileFields
    <2> QED
      BY <2>1, <2>2
  <1>4. ASSUME NEW m \in Metrics, current.row[e][m] # NoRow
        PROVE  Meant(current.row[e][m].run)'[e].row[m] = current.row[e][m].reading
    <2>1. current.row[e][m].run \in Runs /\ current.row[e][m].reading # "none"
      BY <1>1, <1>4, RowFields
    <2>2. current.row[e][m].run \in Pinned(current)
      BY <2>1 DEF Pinned
    <2>3. Meant(current.row[e][m].run)[e].row[m] = current.row[e][m].reading
      BY <1>4 DEF PointersHold
    <2>4. Meant(current.row[e][m].run) # Nothing
      BY <2>1, <2>3, NothingIsFile, FileFields
    <2> QED
      BY <2>1, <2>2, <2>3, <2>4
  <1>5. ASSUME NEW m \in Metrics, current.sample[e][m] # 0
        PROVE  m \in Meant(current.sample[e][m])'[e].sampled
    <2>1. current.sample[e][m] \in Runs /\ m \in Meant(current.sample[e][m])[e].sampled
      BY <1>1, <1>5, RunsAssumption DEF Runs, PointersHold
    <2>2. current.sample[e][m] \in Pinned(current)
      BY <2>1 DEF Pinned
    <2>3. Meant(current.sample[e][m]) # Nothing
      BY <2>1, NothingIsFile, FileFields
    <2> QED
      BY <2>1, <2>2, <2>3
  <1> QED
    BY <1>2, <1>3, <1>4, <1>5

\* Bringing an endpoint up to date with a later run covers what that run says
\* of it, and uncovers nothing.
LEMMA ReplacingRows ==
  ASSUME NEW graph \in Current, NEW e \in Endpoints, NEW r \in Runs, NEW content \in File,
         graph.run[e] <= r, \A m \in Metrics : graph.row[e][m].run <= graph.run[e],
         NEW m \in Metrics
  PROVE  LET old == graph.row[e][m]
             new == Replaced(graph, e, r, content[e]).row[e][m] IN
         /\ new \in Row /\ new.run <= r
         /\ new = old \/ (/\ Replaces(old.reading, content[e].row[m]) /\ new.run = r
                          /\ new # NoRow /\ new.reading = content[e].row[m])
         /\ \A x \in Runs, reading \in Reading :
              reading # "none" /\ Behind(reading, x, old) => Behind(reading, x, new)
         /\ content[e].row[m] # "none" => Behind(content[e].row[m], r, new)
  <1>1. PICK old \in Row, reading \in Reading :
          old = graph.row[e][m] /\ reading = content[e].row[m]
    BY FileFields DEF Current
  <1>2. Replaced(graph, e, r, content[e]).row[e][m] =
          IF Replaces(old.reading, reading) THEN [run |-> r, reading |-> reading] ELSE old
    BY <1>1, IsReplaced
  <1>3. old.run <= graph.run[e] /\ graph.run[e] \in Nat /\ old.run \in Nat /\ r \in Nat
        /\ old.reading \in Reading
    BY <1>1, RowFields, RunsAssumption DEF Current, Runs
  <1>4. old.run <= r
    BY <1>3
  <1>5. CASE Replaces(old.reading, reading)
    <2>1. reading # "none"
      BY <1>5 DEF Replaces, Measured, Declined, Observed, Policy
    <2>2. PICK new \in Row :
            new = [run |-> r, reading |-> reading] /\ new # NoRow
      BY <2>1, IsRow
    <2>3. new.run = r /\ new.reading = reading
      BY <2>2
    <2>4. Rank(old.reading) <= Rank(reading)
      BY <1>3, <1>5, RanksOfReadings DEF Replaces
    <2>5. ASSUME NEW x \in Runs, NEW other \in Reading, Behind(other, x, old)
          PROVE  Behind(other, x, new)
      <3>1. Rank(other) \in Nat /\ Rank(old.reading) \in Nat /\ Rank(reading) \in Nat /\ x \in Nat
        BY <1>3, RanksOfReadings DEF Runs
      <3>2. \/ Rank(other) < Rank(old.reading)
            \/ Rank(other) = Rank(old.reading) /\ x <= old.run
        BY <2>5 DEF Behind
      <3>3. \/ Rank(other) < Rank(reading)
            \/ Rank(other) = Rank(reading) /\ x <= r
        BY <1>3, <1>4, <2>4, <3>1, <3>2
      <3> QED
        BY <2>3, <3>3 DEF Behind
    <2>6. Behind(reading, r, new)
      BY <1>3, <2>3 DEF Behind
    <2> QED
      BY <1>1, <1>2, <1>3, <1>5, <2>2, <2>3, <2>5, <2>6
  <1>6. CASE ~Replaces(old.reading, reading)
    <2>1. reading # "none" => Rank(reading) < Rank(old.reading)
      BY <1>3, <1>6, RanksOfReadings DEF Replaces
    <2>2. reading # "none" => Behind(reading, r, old)
      BY <2>1 DEF Behind
    <2> QED
      BY <1>1, <1>2, <1>4, <1>6, <2>2
  <1> QED
    BY <1>5, <1>6

LEMMA ReplacingCovers ==
  ASSUME NEW graph \in Current, NEW e \in Endpoints, NEW r \in Runs, NEW content \in File,
         graph.run[e] <= r, graph.slow[e] <= graph.run[e],
         \A m \in Metrics : graph.row[e][m].run <= graph.run[e]
  PROVE  LET new == Replaced(graph, e, r, content[e]) IN
         /\ EndCovered(new, content, r, e)
         /\ \A x \in Runs, other \in File, f \in Endpoints :
              EndCovered(graph, other, x, f) => EndCovered(new, other, x, f)
  <1>1. PICK new \in Current : new = Replaced(graph, e, r, content[e])
    BY IsReplaced
  <1>2. /\ new.run[e] = r /\ new.slow[e] = (IF content[e].slow THEN r ELSE graph.slow[e])
        /\ \A f \in Endpoints \ {e} :
             new.run[f] = graph.run[f] /\ new.row[f] = graph.row[f] /\ new.slow[f] = graph.slow[f]
    BY <1>1, IsReplaced
  <1>3. \A m \in Metrics :
          /\ \A x \in Runs, reading \in Reading :
               reading # "none" /\ Behind(reading, x, graph.row[e][m])
                 => Behind(reading, x, new.row[e][m])
          /\ content[e].row[m] # "none" => Behind(content[e].row[m], r, new.row[e][m])
    BY <1>1, ReplacingRows
  <1>4. graph.run[e] \in Nat /\ graph.slow[e] \in Nat /\ r \in Nat
    BY RunsAssumption DEF Current, Runs
  <1>5. EndCovered(new, content, r, e)
    BY <1>2, <1>3, <1>4, FileFields DEF EndCovered
  <1>6. ASSUME NEW x \in Runs, NEW other \in File, NEW f \in Endpoints,
               EndCovered(graph, other, x, f)
        PROVE  EndCovered(new, other, x, f)
    <2>1. CASE f # e
      BY <1>2, <1>6, <2>1 DEF EndCovered
    <2>2. CASE f = e
      <3>1. \A m \in Metrics : other[e].row[m] \in Reading
        BY FileFields
      <3>2. /\ e \in Mentioned(other) => x <= graph.run[e]
            /\ other[e].slow => x <= graph.slow[e]
            /\ \A m \in Metrics : other[e].row[m] # "none" =>
                 Behind(other[e].row[m], x, graph.row[e][m])
        BY <1>6, <2>2 DEF EndCovered
      <3>3. x \in Nat /\ new.slow[e] \in Nat /\ graph.slow[e] <= new.slow[e]
        BY <1>2, <1>4 DEF Runs
      <3>4. /\ e \in Mentioned(other) => x <= new.run[e]
            /\ other[e].slow => x <= new.slow[e]
        BY <1>2, <1>4, <3>2, <3>3
      <3>5. \A m \in Metrics : other[e].row[m] # "none" =>
              Behind(other[e].row[m], x, new.row[e][m])
        BY <1>3, <3>1, <3>2
      <3> QED
        BY <2>2, <3>4, <3>5 DEF EndCovered
    <2> QED
      BY <2>1, <2>2
  <1> QED
    BY <1>1, <1>5, <1>6

(***************************************************************************)
(* Pointers hold, and the runs are covered, after each step of the loader. *)
(***************************************************************************)
LEMMA LoadedIsMeant ==
  ASSUME Book, LoaderAt("maintain")
  PROVE  /\ loader.at \in Runs /\ loader.data \in File /\ loader.data # Nothing
         /\ runs[loader.at] = loader.data /\ made[loader.at] = loader.data
         /\ Meant(loader.at) = loader.data
         /\ loader.ends \subseteq Mentioned(loader.data)
         /\ \A p \in loader.pairs : p[2] \in loader.data[p[1]].sampled
  <1>1. /\ loader.at \in Runs /\ loader.data \in File /\ loader.data # Nothing
    BY LoadingIsPending DEF Loading, LoaderAt
  <1>2. /\ runs[loader.at] = loader.data /\ loader.ends \subseteq Mentioned(loader.data)
        /\ \A p \in loader.pairs : p[2] \in loader.data[p[1]].sampled
    BY DEF Book, LoaderHasItsFile
  <1>3. made[loader.at] = loader.data /\ loader.at \notin pruned
    BY <1>1, <1>2 DEF Book, RunsAreMade
  <1> QED
    BY <1>1, <1>2, <1>3 DEF Meant

LEMMA RunsAreTyped ==
  ASSUME Book
  PROVE  /\ current \in Current /\ runs \in [Runs -> File] /\ made \in [Runs -> File]
         /\ \A e \in Endpoints :
              /\ current.run[e] \in 0..LastRun /\ current.slow[e] \in 0..LastRun
              /\ \A m \in Metrics :
                   current.row[e][m] \in Row /\ current.sample[e][m] \in 0..LastRun
  BY DEF Book, Typed, Current

LEMMA EndpointKeepsPointers ==
  ASSUME Book, PointersHold, NEW e \in Endpoints, MaintainEndpoint(e), ~owed'
  PROVE  PointersHold'
  <1>1. PICK r \in Runs, content \in File :
          /\ r = loader.at /\ content = loader.data
          /\ Meant(r) = content /\ made[r] = content /\ e \in Mentioned(content)
    BY LoadedIsMeant DEF MaintainEndpoint
  <1>2. \A x : Meant(x)' = Meant(x)
    BY DEF MaintainEndpoint, Meant
  <1>3. UNCHANGED <<made, pruned>>
    BY DEF MaintainEndpoint
  <1>4. CASE UNCHANGED current
    BY <1>2, <1>3, <1>4 DEF PointersHold
  <1>5. CASE /\ current' = Replaced(current, e, r, content[e])
             /\ owed' = (owed \/ current.run[e] > r)
    <2>1. current.run[e] <= r
      <3>1. ~(current.run[e] > r)
        BY <1>5, Zenon
      <3>2. current.run[e] \in Nat /\ r \in Nat
        BY RunsAreTyped DEF Runs
      <3> QED
        BY <3>1, <3>2
    <2>2. /\ current'.run[e] = r /\ current'.sample = current.sample
          /\ current'.slow[e] = (IF content[e].slow THEN r ELSE current.slow[e])
          /\ \A x \in Endpoints \ {e} :
               /\ current'.run[x] = current.run[x] /\ current'.row[x] = current.row[x]
               /\ current'.slow[x] = current.slow[x]
      BY <1>5, RunsAreTyped, IsReplaced
    <2>3. \A m \in Metrics : current.row[e][m].run <= current.run[e]
      BY DEF PointersHold
    <2>4. \A m \in Metrics :
            LET old == current.row[e][m] new == current'.row[e][m] IN
            /\ new.run <= r
            /\ new = old \/ (new.run = r /\ new # NoRow /\ new.reading = content[e].row[m])
      BY <1>5, <2>1, <2>3, RunsAreTyped, ReplacingRows
    <2> SUFFICES ASSUME NEW x \in Endpoints
                 PROVE  /\ current'.run[x] # 0 => x \in Mentioned(Meant(current'.run[x]))
                        /\ current'.slow[x] # 0 => made[current'.slow[x]][x].slow
                        /\ current'.slow[x] <= current'.run[x]
                        /\ \A m \in Metrics :
                             /\ current'.row[x][m] # NoRow =>
                                  Meant(current'.row[x][m].run)[x].row[m]
                                    = current'.row[x][m].reading
                             /\ current'.row[x][m].run <= current'.run[x]
                             /\ current'.sample[x][m] # 0 =>
                                  m \in Meant(current'.sample[x][m])[x].sampled
      BY <1>3, Zenon DEF PointersHold, Meant
    <2>5. CASE x # e
      BY <2>2, <2>5 DEF PointersHold
    <2>6. CASE x = e
      <3>1. current'.slow[e] # 0 => made[current'.slow[e]][e].slow
        BY <1>1, <2>2 DEF PointersHold
      <3>2. current'.slow[e] <= r
        <4>1. current.slow[e] <= current.run[e] /\ r \in Nat
          BY RunsAssumption DEF PointersHold, Runs
        <4> QED
          BY <2>1, <2>2, <4>1, RunsAreTyped
      <3>3. \A m \in Metrics :
              current'.row[e][m] # NoRow =>
                Meant(current'.row[e][m].run)[e].row[m] = current'.row[e][m].reading
        BY <1>1, <2>4 DEF PointersHold
      <3>4. /\ current'.run[e] # 0 => e \in Mentioned(Meant(current'.run[e]))
            /\ current'.slow[e] <= current'.run[e]
        BY <1>1, <2>2, <3>2
      <3>5. \A m \in Metrics : current'.row[e][m].run <= current'.run[e]
        BY <2>2, <2>4
      <3>6. \A m \in Metrics : current'.sample[e][m] # 0 =>
              m \in Meant(current'.sample[e][m])[e].sampled
        BY <2>2 DEF PointersHold
      <3> QED
        BY <2>6, <3>1, <3>3, <3>4, <3>5, <3>6
    <2> QED
      BY <2>5, <2>6
  <1> QED
    BY <1>1, <1>4, <1>5, MaintainsEndpoint

LEMMA EndpointKeepsCover ==
  ASSUME Book, PointersHold, RunsAreCovered, NEW e \in Endpoints, MaintainEndpoint(e), ~owed'
  PROVE  RunsAreCovered'
  <1>1. PICK r \in Runs, content \in File : r = loader.at /\ content = loader.data
    BY LoadedIsMeant DEF MaintainEndpoint
  <1>2. UNCHANGED <<runs, manifest>> /\ LoaderAt("maintain")
    BY DEF MaintainEndpoint
  <1>3. /\ loader'.at = r /\ loader'.data = content
        /\ loader'.ends = loader.ends \ {e} /\ loader'.pairs = loader.pairs
    BY <1>1, MaintainsEndpoint
  <1>4. CASE UNCHANGED current /\ loader'.late
    BY <1>2, <1>4 DEF RunsAreCovered
  <1>5. CASE /\ current' = Replaced(current, e, r, content[e])
             /\ owed' = (owed \/ current.run[e] > r) /\ loader'.late = loader.late
    <2>1. current.run[e] <= r
      <3>1. ~(current.run[e] > r)
        BY <1>5, Zenon
      <3>2. current.run[e] \in Nat /\ r \in Nat
        BY RunsAreTyped DEF Runs
      <3> QED
        BY <3>1, <3>2
    <2>2. /\ EndCovered(current', content, r, e)
          /\ \A x \in Runs, other \in File, f \in Endpoints :
               EndCovered(current, other, x, f) => EndCovered(current', other, x, f)
      <3>1. /\ current.slow[e] <= current.run[e]
            /\ \A m \in Metrics : current.row[e][m].run <= current.run[e]
        BY DEF PointersHold
      <3> QED
        BY <1>5, <2>1, <3>1, RunsAreTyped, ReplacingCovers
    <2>3. current'.sample = current.sample
      BY <1>5, RunsAreTyped, IsReplaced
    <2>4. ASSUME NEW x \in Runs, runs[x] = manifest[x]
          PROVE  RunCovered(current', runs[x], x)
      <3>1. runs[x] \in File
        BY RunsAreTyped
      <3>2. RunCovered(current, runs[x], x)
        BY <2>4 DEF RunsAreCovered
      <3> QED
        BY <2>2, <2>3, <3>1, <3>2 DEF RunCovered, SampleCovered
    <2>5. ASSUME ~loader'.late
          PROVE  /\ \A f \in Endpoints \ loader'.ends : EndCovered(current', content, r, f)
                 /\ \A p \in Pairs \ loader'.pairs :
                      SampleCovered(current', content, r, p[1], p[2])
      <3>1. /\ \A f \in Endpoints \ loader.ends : EndCovered(current, content, r, f)
            /\ \A p \in Pairs \ loader.pairs : SampleCovered(current, content, r, p[1], p[2])
        BY <1>1, <1>2, <1>5, <2>5 DEF RunsAreCovered
      <3> QED
        BY <1>3, <2>2, <2>3, <3>1 DEF SampleCovered
    <2> QED
      BY <1>2, <1>3, <2>4, <2>5 DEF RunsAreCovered
  <1> QED
    BY <1>1, <1>4, <1>5, MaintainsEndpoint

LEMMA SampleKeepsFit ==
  ASSUME Book, Fit, NEW e \in Endpoints, NEW m \in Metrics, MaintainSample(e, m), ~owed'
  PROVE  Fit'
  <1>1. PICK r \in Runs, content \in File :
          /\ r = loader.at /\ content = loader.data
          /\ Meant(r) = content /\ m \in content[e].sampled
    <2>1. <<e, m>> \in loader.pairs /\ LoaderAt("maintain")
      BY DEF MaintainSample
    <2>2. m \in loader.data[e].sampled
      BY <2>1, LoadedIsMeant
    <2> QED
      BY <2>1, <2>2, LoadedIsMeant
  <1>2. UNCHANGED <<runs, manifest, made, pruned>> /\ LoaderAt("maintain")
    BY DEF MaintainSample
  <1>3. /\ loader'.at = r /\ loader'.data = content
        /\ loader'.ends = loader.ends /\ loader'.pairs = loader.pairs \ {<<e, m>>}
    BY <1>1, MaintainsSample
  <1>4. CASE UNCHANGED current /\ loader'.late
    BY <1>2, <1>4 DEF Fit, PointersHold, Meant, RunsAreCovered
  <1>5. CASE /\ loader'.late = loader.late
             /\ owed' = (owed \/ current.sample[e][m] > r)
             /\ UNCHANGED <<current.run, current.row, current.slow>>
             /\ current'.sample[e][m] = r
             /\ \A p \in Pairs \ {<<e, m>>} :
                  current'.sample[p[1]][p[2]] = current.sample[p[1]][p[2]]
    <2>1. current.sample[e][m] <= r
      <3>1. ~(current.sample[e][m] > r)
        BY <1>5, Zenon
      <3>2. current.sample[e][m] \in Nat /\ r \in Nat
        BY RunsAreTyped DEF Runs
      <3> QED
        BY <3>1, <3>2
    <2>2. \A x \in Endpoints, y \in Metrics :
            current'.sample[x][y] = IF x = e /\ y = m THEN r ELSE current.sample[x][y]
      <3> TAKE x \in Endpoints, y \in Metrics
      <3>1. <<x, y>> \in Pairs /\ <<x, y>>[1] = x /\ <<x, y>>[2] = y
        BY DEF Pairs
      <3>2. (x = e /\ y = m) \/ <<x, y>> # <<e, m>>
        OBVIOUS
      <3> QED
        BY <1>5, <3>1, <3>2
    <2>3. PointersHold'
      <3>1. \A x : Meant(x)' = Meant(x)
        BY <1>2 DEF Meant
      <3>2. \A x \in Endpoints, y \in Metrics :
              current'.sample[x][y] # 0 => y \in Meant(current'.sample[x][y])[x].sampled
        BY <1>1, <2>2 DEF Fit, PointersHold
      <3> QED
        BY <1>2, <1>5, <3>1, <3>2 DEF Fit, PointersHold
    <2>4. \A x \in Runs, other \in File, f \in Endpoints, y \in Metrics :
            SampleCovered(current, other, x, f, y) => SampleCovered(current', other, x, f, y)
      <3> SUFFICES ASSUME NEW x \in Runs, NEW f \in Endpoints, NEW y \in Metrics,
                          x <= current.sample[f][y]
                   PROVE  x <= current'.sample[f][y]
        BY DEF SampleCovered
      <3>1. x \in Nat /\ r \in Nat /\ current.sample[f][y] \in Nat
        BY RunsAreTyped DEF Runs
      <3> QED
        BY <2>1, <2>2, <3>1
    <2>5. \A x, other, f :
            EndCovered(current, other, x, f) => EndCovered(current', other, x, f)
      BY <1>5 DEF EndCovered
    <2>6. ASSUME NEW x \in Runs, runs[x] = manifest[x]
          PROVE  RunCovered(current', runs[x], x)
      <3>1. runs[x] \in File
        BY RunsAreTyped
      <3>2. RunCovered(current, runs[x], x)
        BY <2>6 DEF Fit, RunsAreCovered
      <3> QED
        BY <2>4, <2>5, <3>1, <3>2 DEF RunCovered
    <2>7. ASSUME ~loader'.late
          PROVE  /\ \A f \in Endpoints \ loader'.ends : EndCovered(current', content, r, f)
                 /\ \A p \in Pairs \ loader'.pairs :
                      SampleCovered(current', content, r, p[1], p[2])
      <3>1. /\ \A f \in Endpoints \ loader.ends : EndCovered(current, content, r, f)
            /\ \A p \in Pairs \ loader.pairs : SampleCovered(current, content, r, p[1], p[2])
        BY <1>1, <1>2, <1>5, <2>7 DEF Fit, RunsAreCovered
      <3>2. ASSUME NEW p \in Pairs \ loader'.pairs
            PROVE  SampleCovered(current', content, r, p[1], p[2])
        <4>1. CASE p = <<e, m>>
          <5>1. p[1] = e /\ p[2] = m /\ r <= r
            BY <4>1 DEF Runs
          <5> QED
            BY <2>2, <5>1 DEF SampleCovered
        <4>2. CASE p # <<e, m>>
          BY <1>3, <2>4, <3>1, <3>2, <4>2 DEF Pairs
        <4> QED
          BY <4>1, <4>2
      <3> QED
        BY <1>3, <2>5, <3>1, <3>2
    <2> QED
      BY <1>2, <1>3, <2>3, <2>6, <2>7 DEF Fit, RunsAreCovered
  <1> QED
    BY <1>1, <1>4, <1>5, MaintainsSample

LEMMA DropKeepsFit ==
  ASSUME Book, Fit, Drop
  PROVE  Fit'
  <1>1. /\ UNCHANGED <<current, manifest, made, pruned>>
        /\ LoaderAt("next") /\ Min(loader.todo) \in Runs
    BY NextIsPending DEF Drop, history
  <1>2. PICK r \in Runs : runs' = [runs EXCEPT ![r] = Nothing]
    BY <1>1 DEF Drop
  <1>3. /\ runs'[r] = Nothing /\ \A x \in Runs \ {r} : runs'[x] = runs[x]
    BY <1>2, RunsAreTyped
  <1>4. loader'.pc = "dropped"
    BY DEF Drop, Book, Typed, Loader
  <1>5. PointersHold'
    BY <1>1 DEF Fit, PointersHold, Meant
  <1>6. \A x : RunCovered(current, Nothing, x)
    BY NothingIsCovered
  <1>7. \A x \in Runs : runs'[x] = manifest'[x] => RunCovered(current', runs'[x], x)
    BY <1>1, <1>3, <1>6 DEF Fit, RunsAreCovered
  <1> QED
    BY <1>4, <1>5, <1>7 DEF Fit, RunsAreCovered, LoaderAt

LEMMA ExtendKeepsFit ==
  ASSUME Book, Fit, Extend, ~owed'
  PROVE  Fit'
  <1>1. PICK r \in Runs, data \in File :
          /\ r = loader.at /\ data = loader.data /\ data # manifest[r]
    BY LoadingIsPending DEF Extend, Loading, LoaderAt
  <1>2. /\ runs'[r] = data /\ \A x \in Runs \ {r} : runs'[x] = runs[x]
        /\ made'[r] = data /\ \A x \in Runs \ {r} : made'[x] = made[x]
        /\ UNCHANGED <<current, manifest>> /\ pruned' = pruned \ {r}
    BY <1>1, Extends DEF Extend
  <1>3. made[r] \in {Nothing, data}
    BY <1>1 DEF Extend
  <1>4. PointersHold'
    <2>1. \A c \in Runs : c \in Pinned(current) /\ Meant(c) # Nothing => Meant(c)' = Meant(c)
      BY <1>2, <1>3 DEF Meant
    <2>2. \A c \in Runs : made[c] # Nothing => made'[c] = made[c]
      BY <1>2, <1>3
    <2> QED
      BY <1>2, <2>1, <2>2, PointersStay DEF Fit
  <1>5. \A x \in Runs : runs'[x] = manifest'[x] => RunCovered(current', runs'[x], x)
    BY <1>1, <1>2 DEF Fit, RunsAreCovered
  <1>6. /\ loader'.at = r /\ loader'.data = data /\ loader'.ends = Mentioned(data)
        /\ loader'.pairs = {p \in Pairs : p[2] \in data[p[1]].sampled}
    BY <1>1, Extends
  <1>7. /\ \A e \in Endpoints \ loader'.ends : EndCovered(current', data, r, e)
        /\ \A p \in Pairs \ loader'.pairs : SampleCovered(current', data, r, p[1], p[2])
    BY <1>6, FileFields DEF EndCovered, SampleCovered
  <1> QED
    BY <1>4, <1>5, <1>6, <1>7 DEF Fit, RunsAreCovered

LEMMA RecordKeepsFit ==
  ASSUME Book, Fit, Record, ~owed'
  PROVE  Fit'
  <1>1. /\ LoaderAt("maintain") /\ loader.ends = {} /\ loader.pairs = {}
        /\ UNCHANGED <<runs, current, made, pruned>>
    BY DEF Record, store
  <1>2. ~loader.late
    BY DEF Record
  <1>3. PointersHold'
    BY <1>1 DEF Fit, PointersHold, Meant
  <1>4. RunCovered(current, loader.data, loader.at)
    <2>1. \A e \in Endpoints : EndCovered(current, loader.data, loader.at, e)
      BY <1>1, <1>2 DEF Fit, RunsAreCovered
    <2>2. \A e \in Endpoints, m \in Metrics :
            SampleCovered(current, loader.data, loader.at, e, m)
      <3> TAKE e \in Endpoints, m \in Metrics
      <3>1. <<e, m>> \in Pairs /\ <<e, m>>[1] = e /\ <<e, m>>[2] = m
        BY DEF Pairs
      <3> QED
        BY <1>1, <1>2, <3>1 DEF Fit, RunsAreCovered
    <2> QED
      BY <2>1, <2>2 DEF RunCovered
  <1>5. runs[loader.at] = loader.data /\ \A x \in Runs \ {loader.at} : manifest'[x] = manifest[x]
    BY <1>1, LoadedIsMeant, Records
  <1>6. \A x \in Runs : runs'[x] = manifest'[x] => RunCovered(current', runs'[x], x)
    BY <1>1, <1>4, <1>5 DEF Fit, RunsAreCovered
  <1> QED
    BY <1>3, <1>6, Records DEF Fit, RunsAreCovered, LoaderAt

LEMMA RebuiltIsFit ==
  ASSUME Book, RefilledIsDerived, Rebuilt
  PROVE  Fit'
  <1>1. /\ LoaderAt("refill") /\ loader.units = {}
        /\ UNCHANGED <<runs, current, manifest, made, pruned>>
    BY DEF Rebuilt, store
  <1>2. \A e \in Endpoints :
          /\ current.run[e] = DerivedRun(runs, e) /\ current.slow[e] = DerivedSlow(runs, e)
          /\ \A m \in Metrics :
               /\ current.row[e][m] = DerivedRow(runs, e, m)
               /\ current.sample[e][m] = DerivedSample(runs, e, m)
    BY <1>1 DEF RefilledIsDerived
  <1>3. \A r \in Runs, e \in Endpoints :
          /\ runs[r][e].slow => e \in Mentioned(runs[r])
          /\ e \in Mentioned(runs[r]) \/ runs[r][e].slow \/ runs[r][e].sampled # {}
               => Meant(r) = runs[r] /\ made[r] = runs[r]
          /\ \A m \in Metrics : runs[r][e].row[m] # "none" =>
               e \in Mentioned(runs[r]) /\ Meant(r) = runs[r]
    <2> TAKE r \in Runs, e \in Endpoints
    <2>1. runs[r] \in File /\ (runs[r] # Nothing => runs[r] = made[r] /\ r \notin pruned)
      BY DEF Book, Typed, RunsAreMade
    <2> QED
      BY <2>1, FileFields DEF Meant
  <1>4. PointersHold
    <2> SUFFICES ASSUME NEW e \in Endpoints
                 PROVE  /\ current.run[e] # 0 => e \in Mentioned(Meant(current.run[e]))
                        /\ current.slow[e] # 0 => made[current.slow[e]][e].slow
                        /\ current.slow[e] <= current.run[e]
                        /\ \A m \in Metrics :
                             LET row == current.row[e][m] IN
                               /\ row # NoRow => Meant(row.run)[e].row[m] = row.reading
                               /\ row.run <= current.run[e]
                               /\ current.sample[e][m] # 0 =>
                                    m \in Meant(current.sample[e][m])[e].sampled
      BY DEF PointersHold
    <2>1. current.run[e] # 0 => e \in Mentioned(Meant(current.run[e]))
      BY <1>2, <1>3, RunsAreTyped, PointersDerived
    <2>2. /\ current.slow[e] # 0 => made[current.slow[e]][e].slow
          /\ current.slow[e] <= current.run[e]
      <3>1. /\ current.slow[e] \in 0..LastRun /\ current.run[e] \in 0..LastRun
            /\ current.slow[e] # 0 =>
                 current.slow[e] \in Runs /\ runs[current.slow[e]][e].slow
            /\ \A r \in Runs : e \in Mentioned(runs[r]) => r <= current.run[e]
        BY <1>2, RunsAreTyped, PointersDerived
      <3> QED
        BY <1>3, <3>1
    <2>3. ASSUME NEW m \in Metrics
          PROVE  /\ current.row[e][m] # NoRow =>
                      Meant(current.row[e][m].run)[e].row[m] = current.row[e][m].reading
                 /\ current.row[e][m].run <= current.run[e]
      <3>1. PICK row \in Row : row = current.row[e][m]
        BY RunsAreTyped
      <3>2. row # NoRow => row.run \in Runs /\ runs[row.run][e].row[m] = row.reading
        BY <1>2, <3>1, RunsAreTyped, RowDerived
      <3>3. row # NoRow => row.reading # "none"
        BY RowFields
      <3>4. row = NoRow => row.run = 0
        BY RowFields
      <3>5. \A r \in Runs : e \in Mentioned(runs[r]) => r <= current.run[e]
        BY <1>2, RunsAreTyped, PointersDerived
      <3>6. current.run[e] \in Nat
        BY RunsAreTyped
      <3>7. row.run <= current.run[e]
        BY <1>3, <3>2, <3>3, <3>4, <3>5, <3>6
      <3> QED
        BY <1>3, <3>1, <3>2, <3>3, <3>7
    <2>4. ASSUME NEW m \in Metrics, current.sample[e][m] # 0
          PROVE  m \in Meant(current.sample[e][m])[e].sampled
      <3>1. /\ current.sample[e][m] \in Runs
            /\ m \in runs[current.sample[e][m]][e].sampled
        BY <1>2, <2>4, RunsAreTyped, PointersDerived
      <3> QED
        BY <1>3, <3>1
    <2> QED
      BY <2>1, <2>2, <2>3, <2>4
  <1>5. \A r \in Runs : RunCovered(current, runs[r], r)
    <2> SUFFICES ASSUME NEW r \in Runs, NEW e \in Endpoints
                 PROVE  /\ EndCovered(current, runs[r], r, e)
                        /\ \A m \in Metrics : SampleCovered(current, runs[r], r, e, m)
      BY DEF RunCovered
    <2>1. /\ e \in Mentioned(runs[r]) => r <= current.run[e]
          /\ runs[r][e].slow => r <= current.slow[e]
          /\ \A m \in Metrics : m \in runs[r][e].sampled => r <= current.sample[e][m]
      BY <1>2, RunsAreTyped, PointersDerived
    <2>2. \A m \in Metrics :
            runs[r][e].row[m] # "none" => Behind(runs[r][e].row[m], r, current.row[e][m])
      BY <1>2, RunsAreTyped, RowDerived
    <2> QED
      BY <2>1, <2>2 DEF EndCovered, SampleCovered
  <1>6. loader'.pc # "maintain"
    BY RebuiltKeepsBook
  <1> QED
    BY <1>1, <1>4, <1>5, <1>6 DEF Fit, PointersHold, Meant, RunsAreCovered, LoaderAt

LEMMA PruneKeepsFit ==
  ASSUME Book, JobHasCounted, Fit, NEW r \in Runs, PruneRun(r)
  PROVE  Fit'
  <1>1. /\ UNCHANGED <<current, manifest, made, loader>> /\ pruned' = pruned \cup {r}
        /\ runs' = [runs EXCEPT ![r] = Nothing]
    BY DEF PruneRun
  <1>2. r \notin Pinned(current)
    BY DEF PruneRun, Victims, Prunable, JobHasCounted
  <1>3. LoaderAt("away")
    BY DEF PruneRun, Book, OneAtATime, JobAt
  <1>4. PointersHold'
    <2>1. \A c \in Runs : c \in Pinned(current) /\ Meant(c) # Nothing => Meant(c)' = Meant(c)
      BY <1>1, <1>2 DEF Meant
    <2> QED
      BY <1>1, <2>1, PointersStay DEF Fit
  <1>5. /\ runs'[r] = Nothing /\ \A x \in Runs \ {r} : runs'[x] = runs[x]
    BY <1>1, RunsAreTyped
  <1>6. \A x : RunCovered(current, Nothing, x)
    BY NothingIsCovered
  <1>7. \A x \in Runs : runs'[x] = manifest'[x] => RunCovered(current', runs'[x], x)
    BY <1>1, <1>5, <1>6 DEF Fit, RunsAreCovered
  <1> QED
    BY <1>1, <1>3, <1>4, <1>7 DEF Fit, RunsAreCovered, LoaderAt

----------------------------------------------------------------------------
(***************************************************************************)
(* Orderly is inductive, and what follows from it.                         *)
(***************************************************************************)
\* Steps that leave current and what it is made from alone.
LEMMA OthersKeepFit ==
  ASSUME Fit, UNCHANGED <<runs, current, manifest, made, pruned>>, ~LoaderAt("maintain")'
  PROVE  Fit'
  BY DEF Fit, PointersHold, Meant, RunsAreCovered

LEMMA FitIsKept == Orderly /\ [Next]_vars /\ ~owed' => Fit'
  <1> SUFFICES ASSUME Orderly, [Next]_vars, ~owed' PROVE Fit'
    OBVIOUS
  <1>1. Book /\ RefilledIsDerived /\ JobHasCounted /\ (~owed => Fit)
    BY DEF Orderly
  <1>2. ASSUME NEW r \in Runs, NEW content \in Contents, Finish(r, content) PROVE Fit'
    <2>1. UNCHANGED <<runs, current, manifest, made, pruned, loader, owed>>
      BY <1>2 DEF Finish, store
    <2>2. ~LoaderAt("maintain")
      BY <1>2 DEF Finish, StoreIsFree, LoaderAt
    <2> QED
      BY <1>1, <2>1, <2>2, OthersKeepFit DEF LoaderAt
  <1>3. CASE Invoke \/ Refuse \/ Publish
    <2>1. UNCHANGED <<runs, current, manifest, made, pruned, owed>>
      BY <1>3 DEF Invoke, Refuse, Publish, store, history
    <2>2. loader'.pc \in {"away", "next", "publish"}
      <3>1. CASE Invoke
        BY <3>1 DEF Invoke, LoaderAway
      <3>2. CASE Refuse \/ Publish
        BY <3>2, AwayIsTyped DEF Refuse, Publish
      <3> QED
        BY <1>3, <3>1, <3>2
    <2> QED
      BY <1>1, <2>1, <2>2, OthersKeepFit DEF LoaderAt
  <1>4. CASE Drop
    BY <1>1, <1>4, DropKeepsFit DEF Drop, history
  <1>5. CASE Extend
    BY <1>1, <1>5, ExtendKeepsFit DEF Extend
  <1>6. CASE Record
    BY <1>1, <1>6, RecordKeepsFit DEF Record
  <1>7. ASSUME NEW e \in Endpoints, MaintainEndpoint(e) PROVE Fit'
    <2>1. ~owed
      BY <1>7, MaintainsEndpoint, <1>1
    <2> QED
      BY <1>1, <1>7, <2>1, EndpointKeepsPointers, EndpointKeepsCover DEF Fit
  <1>8. ASSUME NEW e \in Endpoints, NEW m \in Metrics, MaintainSample(e, m) PROVE Fit'
    <2>1. ~owed
      BY <1>8, MaintainsSample, <1>1
    <2> QED
      BY <1>1, <1>8, <2>1, SampleKeepsFit
  <1>9. CASE Rebuild \/ RebuildByHand
    BY <1>9 DEF Rebuild, RebuildByHand, Clear
  <1>10. ASSUME NEW u \in loader.units, Refill(u) PROVE Fit'
    BY <1>1, <1>10 DEF Refill, history, RefilledIsDerived
  <1>11. CASE Rebuilt
    BY <1>1, <1>11, RebuiltIsFit
  <1>12. CASE Summarise
    <2>1. LoaderAt("away") /\ UNCHANGED <<current, manifest, loader, owed, made>>
      BY <1>1, <1>12, JobSteps
    <2>2. CASE UNCHANGED <<runs, pruned>>
      BY <1>1, <2>1, <2>2, OthersKeepFit DEF LoaderAt
    <2>3. ASSUME NEW r \in Runs, PruneRun(r) PROVE Fit'
      BY <1>1, <2>1, <2>3, PruneKeepsFit
    <2> QED
      BY <1>1, <1>12, <2>2, <2>3, JobSteps
  <1>13. CASE Kill
    <2>1. UNCHANGED <<runs, current, manifest, made, pruned, owed>> /\ loader' = LoaderAway
      BY <1>13 DEF Kill, store
    <2> QED
      BY <1>1, <2>1, AwayIsTyped, OthersKeepFit DEF LoaderAt
  <1>14. CASE UNCHANGED vars
    BY <1>1, <1>14 DEF vars, store, history, Fit, PointersHold, Meant, RunsAreCovered, LoaderAt
  <1>15. CASE Load
    BY <1>3, <1>4, <1>5, <1>6, <1>7, <1>8, <1>15 DEF Load
  <1>16. CASE Repair
    BY <1>9, <1>10, <1>11, <1>16 DEF Repair
  <1> QED
    BY <1>2, <1>12, <1>13, <1>14, <1>15, <1>16 DEF Next

LEMMA OrderlyIsKept == Spec => []Orderly
  <1>1. Init => Orderly
    <2> SUFFICES ASSUME Init PROVE Orderly
      OBVIOUS
    <2>1. Book
      BY BookStarts
    <2>2. RefilledIsDerived /\ JobHasCounted
      BY AwayIsTyped DEF Init, RefilledIsDerived, JobHasCounted, LoaderAt, JobAt
    <2>3. \A x : RunCovered(current, Nothing, x)
      BY NothingIsCovered
    <2>4. RunsAreCovered
      BY <2>3, AwayIsTyped DEF Init, RunsAreCovered, LoaderAt
    <2>5. PointersHold
      BY RunsAssumption DEF Init, EmptyCurrent, PointersHold, NoRow
    <2> QED
      BY <2>1, <2>2, <2>4, <2>5 DEF Orderly, Fit
  <1>2. Orderly /\ [Next]_vars => Orderly'
    <2> SUFFICES ASSUME Orderly, [Next]_vars PROVE Orderly'
      OBVIOUS
    <2>1. Book' /\ RefilledIsDerived' /\ JobHasCounted'
      BY BookIsKept, RefillingIsKept, CountsAreKept DEF Orderly
    <2>2. ~owed' => Fit'
      BY FitIsKept
    <2> QED
      BY <2>1, <2>2 DEF Orderly
  <1> QED
    BY <1>1, <1>2, PTL DEF Spec

(***************************************************************************)
(* Of the rows that hold of a store, one covers all its runs.              *)
(***************************************************************************)
LEMMA OneRowCovers ==
  ASSUME NEW graph \in [Runs -> File], NEW e \in Endpoints, NEW m \in Metrics,
         NEW one \in Row, NEW other \in Row,
         one # NoRow => graph[one.run][e].row[m] = one.reading,
         other # NoRow => graph[other.run][e].row[m] = other.reading,
         \A r \in Runs : graph[r][e].row[m] # "none" =>
           Behind(graph[r][e].row[m], r, one) /\ Behind(graph[r][e].row[m], r, other)
  PROVE  one = other
  <1>1. /\ one.reading \in Reading /\ one.run \in Nat
        /\ one # NoRow => one.run \in Runs /\ one.reading # "none"
        /\ one = NoRow => one.reading = "none"
    BY RowFields
  <1>2. /\ other.reading \in Reading /\ other.run \in Nat
        /\ other # NoRow => other.run \in Runs /\ other.reading # "none"
        /\ other = NoRow => other.reading = "none"
    BY RowFields
  <1>3. one # NoRow => Behind(one.reading, one.run, other)
    BY <1>1
  <1>4. other # NoRow => Behind(other.reading, other.run, one)
    BY <1>2
  <1>5. /\ Rank(one.reading) \in Nat /\ (Rank(one.reading) = 0 <=> one.reading = "none")
        /\ Rank(other.reading) \in Nat /\ (Rank(other.reading) = 0 <=> other.reading = "none")
    BY <1>1, <1>2, RanksOfReadings
  <1>6. CASE one = NoRow \/ other = NoRow
    BY <1>1, <1>2, <1>3, <1>4, <1>5, <1>6 DEF Behind
  <1>7. CASE one # NoRow /\ other # NoRow
    <2>1. one.run = other.run
      BY <1>1, <1>2, <1>3, <1>4, <1>5, <1>7 DEF Behind
    <2>2. one.reading = other.reading
      BY <1>7, <2>1
    <2>3. /\ one \in [run : Runs, reading : Reading \ {"none"}]
          /\ other \in [run : Runs, reading : Reading \ {"none"}]
      BY <1>7 DEF Row
    <2> QED
      BY <2>1, <2>2, <2>3
  <1> QED
    BY <1>6, <1>7

\* A graph whose pointers hold and that covers every run is what a rebuild
\* derives.
LEMMA CoveringIsDerived ==
  ASSUME NEW graph \in Current, NEW world \in [Runs -> File],
         \A e \in Endpoints :
           /\ graph.run[e] # 0 => e \in Mentioned(world[graph.run[e]])
           /\ \A m \in Metrics :
                /\ graph.row[e][m] # NoRow =>
                     world[graph.row[e][m].run][e].row[m] = graph.row[e][m].reading
                /\ graph.sample[e][m] # 0 => m \in world[graph.sample[e][m]][e].sampled,
         \A r \in Runs : RunCovered(graph, world[r], r)
  PROVE  /\ RowsOf(graph) = RowsOf(Derived(world))
         /\ (\A e \in Endpoints : graph.slow[e] # 0 => world[graph.slow[e]][e].slow)
              => graph.slow = Derived(world).slow
  <1>1. \A e \in Endpoints : graph.run[e] = DerivedRun(world, e)
    <2> TAKE e \in Endpoints
    <2> DEFINE S == {r \in Runs : e \in Mentioned(world[r])}
    <2>1. graph.run[e] \in 0..LastRun /\ (graph.run[e] # 0 => graph.run[e] \in Runs)
      BY RunsAssumption DEF Current, Runs
    <2>2. \A r \in S : r <= graph.run[e]
      BY DEF RunCovered, EndCovered
    <2>3. graph.run[e] # 0 => graph.run[e] \in S
      BY <2>1
    <2>4. S \in SUBSET Runs
      OBVIOUS
    <2> HIDE DEF S
    <2>5. Newest(S) = graph.run[e]
      BY <2>1, <2>2, <2>3, <2>4, LastIsNewest
    <2> QED
      BY <2>5 DEF DerivedRun, S
  <1>2. \A e \in Endpoints, m \in Metrics : graph.sample[e][m] = DerivedSample(world, e, m)
    <2> TAKE e \in Endpoints, m \in Metrics
    <2> DEFINE S == {r \in Runs : m \in world[r][e].sampled}
    <2>1. /\ graph.sample[e][m] \in 0..LastRun
          /\ graph.sample[e][m] # 0 => graph.sample[e][m] \in Runs
      BY RunsAssumption DEF Current, Runs
    <2>2. \A r \in S : r <= graph.sample[e][m]
      BY DEF RunCovered, SampleCovered
    <2>3. graph.sample[e][m] # 0 => graph.sample[e][m] \in S
      BY <2>1
    <2>4. S \in SUBSET Runs
      OBVIOUS
    <2> HIDE DEF S
    <2>5. Newest(S) = graph.sample[e][m]
      BY <2>1, <2>2, <2>3, <2>4, LastIsNewest
    <2> QED
      BY <2>5 DEF DerivedSample, S
  <1>3. \A e \in Endpoints, m \in Metrics : graph.row[e][m] = DerivedRow(world, e, m)
    <2> TAKE e \in Endpoints, m \in Metrics
    <2>1. PICK row \in Row : row = graph.row[e][m]
      BY DEF Current
    <2>2. PICK derived \in Row : derived = DerivedRow(world, e, m)
      BY RowDerived
    <2>3. /\ derived # NoRow => world[derived.run][e].row[m] = derived.reading
          /\ \A r \in Runs :
               world[r][e].row[m] # "none" => Behind(world[r][e].row[m], r, derived)
      BY <2>2, RowDerived
    <2>4. \A r \in Runs :
            world[r][e].row[m] # "none" => Behind(world[r][e].row[m], r, row)
      BY <2>1 DEF RunCovered, EndCovered
    <2>5. row # NoRow => world[row.run][e].row[m] = row.reading
      BY <2>1
    <2>6. row = derived
      BY <2>3, <2>4, <2>5, OneRowCovers
    <2> QED
      BY <2>1, <2>2, <2>6
  <1>4. /\ graph.run \in [Endpoints -> 0..LastRun] /\ graph.slow \in [Endpoints -> 0..LastRun]
        /\ graph.row \in [Endpoints -> [Metrics -> Row]]
        /\ graph.sample \in [Endpoints -> [Metrics -> 0..LastRun]]
    BY DEF Current
  <1>5. graph.run = Derived(world).run
    BY <1>1, <1>4 DEF Derived
  <1>6. graph.row = Derived(world).row
    <2>1. graph.row = [e \in Endpoints |-> [m \in Metrics |-> graph.row[e][m]]]
      BY <1>4
    <2> QED
      BY <1>3, <2>1 DEF Derived
  <1>7. graph.sample = Derived(world).sample
    <2>1. graph.sample = [e \in Endpoints |-> [m \in Metrics |-> graph.sample[e][m]]]
      BY <1>4
    <2> QED
      BY <1>2, <2>1 DEF Derived
  <1>8. ASSUME \A e \in Endpoints : graph.slow[e] # 0 => world[graph.slow[e]][e].slow
        PROVE  graph.slow = Derived(world).slow
    <2>1. ASSUME NEW e \in Endpoints PROVE graph.slow[e] = DerivedSlow(world, e)
      <3> DEFINE S == {r \in Runs : world[r][e].slow}
      <3>1. graph.slow[e] \in 0..LastRun /\ (graph.slow[e] # 0 => graph.slow[e] \in Runs)
        BY RunsAssumption DEF Current, Runs
      <3>2. \A r \in S : r <= graph.slow[e]
        BY DEF RunCovered, EndCovered
      <3>3. graph.slow[e] # 0 => graph.slow[e] \in S
        BY <1>8, <3>1
      <3>4. S \in SUBSET Runs
        OBVIOUS
      <3> HIDE DEF S
      <3>5. Newest(S) = graph.slow[e]
        BY <3>1, <3>2, <3>3, <3>4, LastIsNewest
      <3> QED
        BY <3>5 DEF DerivedSlow, S
    <2> QED
      BY <1>4, <2>1 DEF Derived
  <1> QED
    BY <1>5, <1>6, <1>7, <1>8 DEF RowsOf

\* In a store with nothing half-loaded, what current points to is there, and
\* current covers every run there is.
LEMMA WholeStoreIsCovered ==
  ASSUME Orderly, ~owed,
         \A r \in Runs : runs[r] # Nothing => runs[r] = manifest[r],
         \A r \in Runs \ pruned : made[r] # Nothing => runs[r] = made[r]
  PROVE  /\ \A e \in Endpoints :
              /\ current.run[e] # 0 => e \in Mentioned(runs[current.run[e]])
              /\ \A m \in Metrics :
                   /\ current.row[e][m] # NoRow =>
                        runs[current.row[e][m].run][e].row[m] = current.row[e][m].reading
                   /\ current.sample[e][m] # 0 => m \in runs[current.sample[e][m]][e].sampled
         /\ \A r \in Runs : RunCovered(current, runs[r], r)
  <1>1. Book /\ PointersHold /\ RunsAreCovered
    BY DEF Orderly, Fit
  <1>2. \A c \in Runs : Meant(c) # Nothing => runs[c] = Meant(c)
    BY DEF Meant
  <1>3. ASSUME NEW e \in Endpoints
        PROVE  /\ current.run[e] # 0 => e \in Mentioned(runs[current.run[e]])
               /\ \A m \in Metrics :
                    /\ current.row[e][m] # NoRow =>
                         runs[current.row[e][m].run][e].row[m] = current.row[e][m].reading
                    /\ current.sample[e][m] # 0 => m \in runs[current.sample[e][m]][e].sampled
    <2>1. /\ current.run[e] # 0 => current.run[e] \in Runs
          /\ \A m \in Metrics : current.sample[e][m] # 0 => current.sample[e][m] \in Runs
      BY <1>1, RunsAreTyped, RunsAssumption DEF Runs
    <2>2. ASSUME NEW m \in Metrics, current.row[e][m] # NoRow
          PROVE  runs[current.row[e][m].run][e].row[m] = current.row[e][m].reading
      <3>1. current.row[e][m].run \in Runs /\ current.row[e][m].reading # "none"
        BY <1>1, <2>2, RunsAreTyped, RowFields
      <3>2. Meant(current.row[e][m].run)[e].row[m] = current.row[e][m].reading
        BY <1>1, <2>2 DEF PointersHold
      <3>3. Meant(current.row[e][m].run) # Nothing
        BY <3>1, <3>2, NothingIsFile, FileFields
      <3> QED
        BY <1>2, <3>1, <3>2, <3>3
    <2>3. ASSUME NEW m \in Metrics, current.sample[e][m] # 0
          PROVE  m \in runs[current.sample[e][m]][e].sampled
      <3>1. m \in Meant(current.sample[e][m])[e].sampled
        BY <1>1, <2>3 DEF PointersHold
      <3>2. Meant(current.sample[e][m]) # Nothing
        BY <3>1, NothingIsFile, FileFields
      <3> QED
        BY <1>2, <2>1, <2>3, <3>1, <3>2
    <2>4. ASSUME current.run[e] # 0 PROVE e \in Mentioned(runs[current.run[e]])
      <3>1. e \in Mentioned(Meant(current.run[e]))
        BY <1>1, <2>4 DEF PointersHold
      <3>2. Meant(current.run[e]) # Nothing
        BY <3>1, NothingIsFile
      <3> QED
        BY <1>2, <2>1, <2>4, <3>1, <3>2
    <2> QED
      BY <2>2, <2>3, <2>4
  <1>4. \A x : RunCovered(current, Nothing, x)
    BY NothingIsCovered
  <1>5. \A r \in Runs : RunCovered(current, runs[r], r)
    BY <1>1, <1>4 DEF RunsAreCovered
  <1> QED
    BY <1>3, <1>5

\* A generation is published only of a store whose current graph is what a
\* rebuild would make of its run graphs, unless a rebuild is owed: loading run
\* by run, in any order, with rewrites, prunes and kills, comes to the same as
\* reading it all off again.
THEOREM WhatIsPublishedIsDerived == Spec => []PublishedIsDerived
  <1>1. Orderly => PublishedIsDerived
    <2> SUFFICES ASSUME Orderly, LoaderAt("publish"), ~owed
                 PROVE  /\ RowsOf(current) = RowsOf(Derived(runs))
                        /\ pruned = {} => current.slow = Derived(runs).slow
      BY DEF PublishedIsDerived, RowsOf
    <2>1. Book /\ PointersHold
      BY DEF Orderly, Fit
    <2>2. Pending = {} /\ loader.at = 0
      BY <2>1 DEF Book, LoaderHasItsFile, LoaderAt, Loading
    <2>3. \A r \in Runs \ pruned : files[r] # Nothing => runs[r] = files[r]
      BY <2>1, <2>2, RunsAssumption DEF Book, SkippedRunsAreHeld, Runs
    <2>4. \A r \in Runs : files[r] # Nothing => files[r] = manifest[r]
      BY <2>2 DEF Pending
    <2>5. \A r \in Runs : runs[r] # Nothing => runs[r] = manifest[r]
      BY <2>1, <2>3, <2>4 DEF Book, RunsAreMade
    <2>6. \A r \in Runs \ pruned : made[r] # Nothing => runs[r] = made[r]
      BY <2>1, <2>3 DEF Book, RunsAreMade
    <2>7. /\ RowsOf(current) = RowsOf(Derived(runs))
          /\ (\A e \in Endpoints : current.slow[e] # 0 => runs[current.slow[e]][e].slow)
               => current.slow = Derived(runs).slow
      BY <2>1, <2>5, <2>6, WholeStoreIsCovered, RunsAreTyped, CoveringIsDerived
    <2>8. ASSUME pruned = {}, NEW e \in Endpoints, current.slow[e] # 0
          PROVE  runs[current.slow[e]][e].slow
      <3>1. current.slow[e] \in Runs /\ made[current.slow[e]][e].slow
        BY <2>1, <2>8, RunsAreTyped, RunsAssumption DEF PointersHold, Runs
      <3>2. made[current.slow[e]] # Nothing
        BY <2>1, <3>1, NothingIsFile, FileFields
      <3> QED
        BY <2>6, <2>8, <3>1, <3>2
    <2> QED
      BY <2>7, <2>8
  <1> QED
    BY <1>1, OrderlyIsKept, PTL

\* Dropping a run with daily.py changes nothing of what a rebuild makes of the
\* rest, the rows, the pointers and the samples, when nothing is half-loaded.
THEOREM PruningIsHarmless == Spec => PruningKeepsTheRows
  <1>1. Orderly /\ [Next]_vars =>
          [Pruning /\ Settled => RowsOf(Derived(runs')) = RowsOf(Derived(runs))]_vars
    <2> SUFFICES ASSUME Orderly, [Next]_vars, Pruning, Settled
                 PROVE  RowsOf(Derived(runs')) = RowsOf(Derived(runs))
      OBVIOUS
    <2>1. Book /\ JobHasCounted /\ ~owed
      BY DEF Orderly, Settled
    <2>2. PICK x \in Runs : PruneRun(x) /\ x \notin Pinned(current)
      BY <2>1, OnlyTheCountedGo
    <2>3. /\ runs' \in [Runs -> File] /\ runs'[x] = Nothing
          /\ \A r \in Runs \ {x} : runs'[r] = runs[r]
      BY <2>1, <2>2, RunsAreTyped, NothingIsFile DEF PruneRun
    <2>4. \A r \in Runs : runs[r] # Nothing => runs[r] = manifest[r]
      BY <2>1 DEF Settled, Book, RunsAreMade
    <2>5. \A r \in Runs \ pruned : made[r] # Nothing => runs[r] = made[r]
      BY DEF Settled
    <2>6. /\ \A e \in Endpoints :
              /\ current.run[e] # 0 => e \in Mentioned(runs[current.run[e]])
              /\ \A m \in Metrics :
                   /\ current.row[e][m] # NoRow =>
                        runs[current.row[e][m].run][e].row[m] = current.row[e][m].reading
                   /\ current.sample[e][m] # 0 => m \in runs[current.sample[e][m]][e].sampled
          /\ \A r \in Runs : RunCovered(current, runs[r], r)
      BY <2>1, <2>4, <2>5, WholeStoreIsCovered
    <2>7. RowsOf(current) = RowsOf(Derived(runs))
      BY <2>1, <2>6, RunsAreTyped, CoveringIsDerived
    <2>8. ASSUME NEW e \in Endpoints
          PROVE  /\ current.run[e] # 0 => runs'[current.run[e]] = runs[current.run[e]]
                 /\ \A m \in Metrics :
                      /\ current.row[e][m] # NoRow =>
                           runs'[current.row[e][m].run] = runs[current.row[e][m].run]
                      /\ current.sample[e][m] # 0 =>
                           runs'[current.sample[e][m]] = runs[current.sample[e][m]]
      <3>1. /\ current.run[e] # x
            /\ \A m \in Metrics : current.row[e][m].run # x /\ current.sample[e][m] # x
        BY <2>2 DEF Pinned
      <3>2. /\ current.run[e] # 0 => current.run[e] \in Runs
            /\ \A m \in Metrics :
                 /\ current.sample[e][m] # 0 => current.sample[e][m] \in Runs
                 /\ current.row[e][m] # NoRow => current.row[e][m].run \in Runs
        BY <2>1, RunsAreTyped, RowFields, RunsAssumption DEF Runs
      <3> QED
        BY <2>3, <3>1, <3>2
    <2>9. \A r \in Runs : RunCovered(current, runs'[r], r)
      <3>1. \A r : RunCovered(current, Nothing, r)
        BY NothingIsCovered
      <3> QED
        BY <2>3, <2>6, <3>1
    <2>10. \A e \in Endpoints :
              /\ current.run[e] # 0 => e \in Mentioned(runs'[current.run[e]])
              /\ \A m \in Metrics :
                   /\ current.row[e][m] # NoRow =>
                        runs'[current.row[e][m].run][e].row[m] = current.row[e][m].reading
                   /\ current.sample[e][m] # 0 => m \in runs'[current.sample[e][m]][e].sampled
      BY <2>6, <2>8
    <2>11. PICK stored \in [Runs -> File] : stored = runs'
      BY <2>3
    <2>12. RowsOf(current) = RowsOf(Derived(stored))
      <3>1. /\ \A r \in Runs : RunCovered(current, stored[r], r)
            /\ current \in Current
        BY <2>1, <2>9, <2>11, RunsAreTyped
      <3> QED
        BY <2>10, <2>11, <3>1, CoveringIsDerived
    <2> QED
      BY <2>7, <2>11, <2>12
  <1> QED
    BY <1>1, OrderlyIsKept, PTL DEF Spec, PruningKeepsTheRows

\* Until a rebuild is owed, current moves only to later runs, and a reading,
\* once there, is replaced only by a later reading and never by a decline.
THEOREM CurrentMovesForward == Spec => CurrentNeverGoesBack
  <1> DEFINE Forward ==
        ~owed' => \A e \in Endpoints :
          /\ current'.run[e] >= current.run[e]
          /\ \A m \in Metrics :
               LET old == current.row[e][m] new == current'.row[e][m] IN
                 /\ old.reading \in Measured => new.reading \in Measured /\ new.run >= old.run
                 /\ old.reading \in Observed => new.reading \notin Policy
                 /\ current'.sample[e][m] >= current.sample[e][m]
  <1>1. ASSUME Orderly, UNCHANGED current PROVE Forward
    <2>1. \A e \in Endpoints :
            /\ current.run[e] \in Nat
            /\ \A m \in Metrics : current.sample[e][m] \in Nat /\ current.row[e][m].run \in Nat
      BY <1>1, RunsAreTyped, RowFields DEF Orderly
    <2>2. \A e \in Endpoints :
            /\ current.run[e] >= current.run[e]
            /\ \A m \in Metrics : current.sample[e][m] >= current.sample[e][m]
                                 /\ current.row[e][m].run >= current.row[e][m].run
      BY <2>1
    <2> QED
      BY <1>1, <2>2 DEF Measured, Observed, Policy
  <1>2. ASSUME Orderly, NEW e \in Endpoints, MaintainEndpoint(e), ~owed',
               current' = Replaced(current, e, loader.at, loader.data[e]),
               owed' = (owed \/ current.run[e] > loader.at)
        PROVE  Forward
    <2>1. Book
      BY <1>2 DEF Orderly
    <2>2. PICK r \in Runs, content \in File : r = loader.at /\ content = loader.data
      BY <1>2, <2>1, LoadedIsMeant DEF MaintainEndpoint
    <2>3. current.run[e] <= r
      <3>1. ~(current.run[e] > r)
        BY <1>2, <2>2, Zenon
      <3>2. current.run[e] \in Nat /\ r \in Nat
        BY <2>1, RunsAreTyped DEF Runs
      <3> QED
        BY <3>1, <3>2
    <2>4. /\ current'.run[e] = r /\ current'.sample = current.sample
          /\ \A m \in Metrics : current'.row[e][m] =
               IF Replaces(current.row[e][m].reading, content[e].row[m])
                 THEN [run |-> r, reading |-> content[e].row[m]] ELSE current.row[e][m]
          /\ \A x \in Endpoints \ {e} :
               current'.run[x] = current.run[x] /\ current'.row[x] = current.row[x]
      BY <1>2, <2>1, <2>2, RunsAreTyped, IsReplaced
    <2>5. ASSUME NEW m \in Metrics
          PROVE  LET old == current.row[e][m] new == current'.row[e][m] IN
                 /\ old.reading \in Measured => new.reading \in Measured /\ new.run >= old.run
                 /\ old.reading \in Observed => new.reading \notin Policy
      <3>1. PICK old \in Row, reading \in Reading :
              old = current.row[e][m] /\ reading = content[e].row[m]
        BY <2>1, RunsAreTyped, FileFields
      <3>2. /\ old.run \in Nat /\ r \in Nat /\ old.run <= r
            /\ old.reading \in Reading
        <4>1. ~owed
          BY <1>2
        <4>2. old.run <= current.run[e]
          BY <1>2, <3>1, <4>1 DEF Orderly, Fit, PointersHold
        <4>3. old.run \in Nat /\ r \in Nat /\ current.run[e] \in Nat /\ old.reading \in Reading
          BY <2>1, RunsAreTyped, RowFields DEF Runs
        <4> QED
          BY <2>3, <4>2, <4>3
      <3>3. current'.row[e][m] =
              IF Replaces(current.row[e][m].reading, content[e].row[m])
                THEN [run |-> r, reading |-> content[e].row[m]] ELSE current.row[e][m]
        BY <2>4
      <3>4. current'.row[e][m] =
              IF Replaces(old.reading, reading) THEN [run |-> r, reading |-> reading] ELSE old
        BY <3>1, <3>3, Zenon
      <3>5. CASE Replaces(old.reading, reading)
        <4>1. current'.row[e][m] = [run |-> r, reading |-> reading]
          BY <3>5, <3>4, Zenon
        <4>2. /\ old.reading \in Measured => reading \in Measured
              /\ old.reading \in Observed => reading \notin Policy
          BY <3>5 DEF Replaces, Measured, Observed, Policy, Declined
        <4> QED
          BY <3>1, <3>2, <4>1, <4>2
      <3>6. CASE ~Replaces(old.reading, reading)
        <4>1. current'.row[e][m] = old
          BY <3>6, <3>4, Zenon
        <4>2. old.run >= old.run
          BY <3>2
        <4> QED
          BY <3>1, <4>1, <4>2 DEF Measured, Observed, Policy
      <3> QED
        BY <3>5, <3>6
    <2>6. ASSUME NEW x \in Endpoints
          PROVE  /\ current'.run[x] >= current.run[x]
                 /\ \A m \in Metrics :
                      LET old == current.row[x][m] new == current'.row[x][m] IN
                        /\ old.reading \in Measured =>
                             new.reading \in Measured /\ new.run >= old.run
                        /\ old.reading \in Observed => new.reading \notin Policy
                        /\ current'.sample[x][m] >= current.sample[x][m]
      <3>1. /\ current.run[x] \in Nat /\ current.run[e] \in Nat /\ r \in Nat
            /\ \A m \in Metrics : current.sample[x][m] \in Nat /\ current.row[x][m].run \in Nat
        BY <2>1, RunsAreTyped, RowFields DEF Runs
      <3>2. CASE x = e
        BY <2>3, <2>4, <2>5, <3>1, <3>2
      <3>3. CASE x # e
        BY <2>4, <3>1, <3>3 DEF Measured, Observed, Policy
      <3> QED
        BY <3>2, <3>3
    <2> QED
      BY <2>6
  <1>3. ASSUME Orderly, NEW e \in Endpoints, NEW m \in Metrics, MaintainSample(e, m), ~owed',
               owed' = (owed \/ current.sample[e][m] > loader.at),
               UNCHANGED <<current.run, current.row>>,
               current'.sample[e][m] = loader.at,
               \A p \in Pairs \ {<<e, m>>} :
                 current'.sample[p[1]][p[2]] = current.sample[p[1]][p[2]]
        PROVE  Forward
    <2>1. Book
      BY <1>3 DEF Orderly
    <2>2. PICK r \in Runs : r = loader.at
      BY <1>3, <2>1, LoadedIsMeant DEF MaintainSample
    <2>3. \A x \in Endpoints :
            /\ current.run[x] \in Nat
            /\ \A y \in Metrics : current.sample[x][y] \in Nat /\ current.row[x][y].run \in Nat
      BY <2>1, RunsAreTyped, RowFields
    <2>4. ~(current.sample[e][m] > r)
      BY <1>3, <2>2, Zenon
    <2>5. ASSUME NEW x \in Endpoints, NEW y \in Metrics
          PROVE  current'.sample[x][y] >= current.sample[x][y]
      <3>1. r \in Nat /\ current.sample[e][m] \in Nat /\ current.sample[x][y] \in Nat
        BY <2>3 DEF Runs
      <3>2. CASE x = e /\ y = m
        BY <1>3, <2>2, <2>4, <3>1, <3>2
      <3>3. CASE ~(x = e /\ y = m)
        <4>1. <<x, y>> \in Pairs /\ <<x, y>>[1] = x /\ <<x, y>>[2] = y /\ <<x, y>> # <<e, m>>
          BY <3>3 DEF Pairs
        <4> QED
          BY <1>3, <3>1, <4>1
      <3> QED
        BY <3>2, <3>3
    <2>6. \A x \in Endpoints :
            /\ current'.run[x] >= current.run[x]
            /\ \A y \in Metrics : current'.row[x][y].run >= current.row[x][y].run
      BY <1>3, <2>3
    <2> QED
      BY <1>3, <2>5, <2>6 DEF Measured, Observed, Policy
  <1>4. Orderly /\ [Next]_vars => [Forward]_vars
    <2> SUFFICES ASSUME Orderly, Next, ~owed' PROVE Forward
      <3>1. ASSUME Orderly, UNCHANGED vars PROVE [Forward]_vars
        BY <3>1
      <3> HIDE DEF Forward
      <3>2. owed' => Forward
        BY DEF Forward
      <3> QED
        BY <3>1, <3>2
    <2> HIDE DEF Forward
    <2>1. Book /\ RefilledIsDerived
      BY DEF Orderly
    <2>2. CASE Load
      <3>1. CASE Invoke \/ Refuse \/ Drop \/ Extend \/ Record \/ Publish
        <4>1. UNCHANGED current
          BY <3>1 DEF Invoke, Refuse, Drop, Extend, Record, Publish, store
        <4> QED
          BY <1>1, <4>1
      <3>2. ASSUME NEW e \in Endpoints, MaintainEndpoint(e) PROVE Forward
        <4>1. \/ UNCHANGED current
              \/ /\ current' = Replaced(current, e, loader.at, loader.data[e])
                 /\ owed' = (owed \/ current.run[e] > loader.at)
          BY <2>1, <3>2, MaintainsEndpoint
        <4> QED
          BY <1>1, <1>2, <3>2, <4>1
      <3>3. ASSUME NEW e \in Endpoints, NEW m \in Metrics, MaintainSample(e, m) PROVE Forward
        <4>1. \/ UNCHANGED current
              \/ /\ owed' = (owed \/ current.sample[e][m] > loader.at)
                 /\ UNCHANGED <<current.run, current.row>>
                 /\ current'.sample[e][m] = loader.at
                 /\ \A p \in Pairs \ {<<e, m>>} :
                      current'.sample[p[1]][p[2]] = current.sample[p[1]][p[2]]
          BY <2>1, <3>3, MaintainsSample
        <4> QED
          BY <1>1, <1>3, <3>3, <4>1
      <3> QED
        BY <2>2, <3>1, <3>2, <3>3 DEF Load
    <2>3. CASE Repair
      <3>1. ~Rebuild /\ ~RebuildByHand
        BY DEF Rebuild, RebuildByHand, Clear
      <3>2. \A u \in loader.units : ~Refill(u)
        BY <2>1 DEF Refill, history, RefilledIsDerived
      <3>3. UNCHANGED current
        BY <2>3, <3>1, <3>2 DEF Repair, Rebuilt, store
      <3> QED
        BY <1>1, <3>3
    <2>4. CASE Summarise
      BY <1>1, <2>1, <2>4, JobSteps
    <2>5. CASE Kill
      BY <1>1, <2>5 DEF Kill, store
    <2>6. ASSUME NEW r \in Runs, NEW content \in Contents, Finish(r, content) PROVE Forward
      <3>1. UNCHANGED current
        BY <2>6 DEF Finish, store
      <3> QED
        BY <1>1, <3>1
    <2> QED
      BY <2>2, <2>3, <2>4, <2>5, <2>6 DEF Next
  <1> QED
    BY <1>4, OrderlyIsKept, PTL DEF Spec, CurrentNeverGoesBack

=============================================================================
