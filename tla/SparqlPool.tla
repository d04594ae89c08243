----------------------------- MODULE SparqlPool -----------------------------
(***************************************************************************)
(* web/sparql_pool.py: the worker processes behind /sparql.  Requests run  *)
(* on threads of the site, claim a worker, wait for its answer or kill it, *)
(* and put it back or put another in its place; the snapshot follower's    *)
(* thread moves the pool to a newer generation meanwhile.                  *)
(*                                                                         *)
(* A critical section is one step.  start() alone holds the lock across    *)
(* steps, for it spawns inside it.  A path is the number of its            *)
(* generation, and a process that is gone gives its identifier back.       *)
(* `listed' is history, of the pool's generation when a worker was put in  *)
(* the list.                                                               *)
(* Pool.stop, called when the site shuts down, is left out.                *)
(***************************************************************************)
EXTENDS Naturals, FiniteSets

CONSTANTS
  Requests,   \* the threads that may be in Pool.execute
  Ids,        \* identifiers of worker processes, enough for all that coexist
  Size,       \* Pool.size
  MaxGen,     \* bound on the generations the follower moves to
  Nobody      \* no worker

ASSUME PoolAssumption ==
  /\ Size \in Nat \ {0}
  /\ MaxGen \in Nat \ {0}
  /\ IsFiniteSet(Ids) /\ IsFiniteSet(Requests)
  /\ Size + Cardinality(Requests) <= Cardinality(Ids)
  /\ Nobody \notin Ids

VARIABLES
  path,     \* Pool.store_path
  list,     \* Pool._workers
  worker,   \* each _Worker and its process
  request,  \* each request: where it stands in execute and its worker
  mover,    \* the follower's thread: where it stands in repoint
  lost      \* history: spawns that failed since the pool was last filled

vars == <<path, list, worker, request, mover, lost>>

Process(state, gen, listed) ==
  [state |-> state, gen |-> gen, busy |-> FALSE, stale |-> FALSE, listed |-> listed]

Gone == Process("gone", 0, 0)
Up(g) == Process("up", g, g)
Starting(g) == Process("starting", g, 0)

Outside == [pc |-> "outside", worker |-> Nobody]
Watching == [pc |-> "watching", idle |-> {}, worker |-> Nobody]

\* get_sparql_pool: start() has filled the pool before any request sees it.
Init ==
  /\ path = 1
  /\ list = CHOOSE ids \in SUBSET Ids : Cardinality(ids) = Size
  /\ worker = [w \in Ids |-> IF w \in list THEN Up(1) ELSE Gone]
  /\ request = [r \in Requests |-> Outside]
  /\ mover = Watching
  /\ lost = 0

LockIsFree == mover.pc \in {"watching", "retiring"}

\* What the list lacks.
Short == IF Cardinality(list) < Size THEN Size - Cardinality(list) ELSE 0

\* Which identifier a new process gets is of no consequence.
Free == {w \in Ids : worker[w].state = "gone"}
New == CHOOSE w \in Free : TRUE

At(r, pc) == request[r].pc = pc
Goes(r, pc) == request' = [request EXCEPT ![r].pc = pc]

----------------------------------------------------------------------------
(***************************************************************************)
(* execute.                                                                *)
(***************************************************************************)
\* _claim: a worker that is not busy.
Claim(r) ==
  \E w \in list :
    /\ At(r, "outside")
    /\ LockIsFree
    /\ ~worker[w].busy
    /\ worker' = [worker EXCEPT ![w].busy = TRUE]
    /\ request' = [request EXCEPT ![r] = [pc |-> "asking", worker |-> w]]
    /\ UNCHANGED <<path, list, mover, lost>>

\* The 503: every worker is busy, or there is none.
Refuse(r) ==
  /\ At(r, "outside")
  /\ LockIsFree
  /\ \A w \in list : worker[w].busy
  /\ UNCHANGED vars

\* The worker answers, a result or an error of its query.
Answer(r) ==
  /\ At(r, "asking")
  /\ worker[request[r].worker].state = "up"
  /\ Goes(r, "answered")
  /\ UNCHANGED <<path, list, worker, mover, lost>>

\* MUTANT: a query over budget is asked to stop.
OverrunAsked(r) ==
  /\ At(r, "asking")
  /\ UNCHANGED vars

\* The budget or the memory limit: the process is killed and joined.
Overrun(r) ==
  /\ At(r, "asking")
  /\ worker' = [worker EXCEPT ![request[r].worker].state = "dead"]
  /\ Goes(r, "overrun")
  /\ UNCHANGED <<path, list, mover, lost>>

\* The pipe of a process that died on its own.
Broken(r) ==
  /\ At(r, "asking")
  /\ worker[request[r].worker].state = "dead"
  /\ Goes(r, "broken")
  /\ UNCHANGED <<path, list, worker, mover, lost>>

----------------------------------------------------------------------------
(***************************************************************************)
(* _release.                                                               *)
(***************************************************************************)
Return(r) ==
  LET w == request[r].worker IN
  /\ At(r, "answered")
  /\ LockIsFree
  /\ ~worker[w].stale
  /\ worker' = [worker EXCEPT ![w].busy = FALSE]
  /\ request' = [request EXCEPT ![r] = Outside]
  /\ UNCHANGED <<path, list, mover, lost>>

\* A killed worker leaves the list, and its process is gone already.  Under the
\* second release of one execute the worker has left before.
DropKilled(r) ==
  LET w == request[r].worker IN
  /\ request[r].pc \in {"overrun", "broken", "failed"}
  /\ LockIsFree
  /\ list' = list \ {w}
  /\ worker' = IF w \in list THEN [worker EXCEPT ![w] = Gone] ELSE worker
  /\ request' = [request EXCEPT ![r].pc = IF At(r, "overrun") THEN "replacing"
                                                              ELSE "replacing again",
                                ![r].worker = Nobody]
  /\ UNCHANGED <<path, mover, lost>>

DropStale(r) ==
  /\ At(r, "answered")
  /\ LockIsFree
  /\ worker[request[r].worker].stale
  /\ list' = list \ {request[r].worker}
  /\ Goes(r, "retiring")
  /\ UNCHANGED <<path, worker, mover, lost>>

\* MUTANT: the stale worker is retired and nothing takes its place.
RetireUnreplaced(r) ==
  /\ At(r, "retiring")
  /\ worker' = [worker EXCEPT ![request[r].worker] = Gone]
  /\ request' = [request EXCEPT ![r] = Outside]
  /\ UNCHANGED <<path, list, mover, lost>>

\* _retire: told to go, joined, killed if it will not.
Retire(r) ==
  /\ At(r, "retiring")
  /\ worker' = [worker EXCEPT ![request[r].worker] = Gone]
  /\ request' = [request EXCEPT ![r] = [pc |-> "replacing again", worker |-> Nobody]]
  /\ UNCHANGED <<path, list, mover, lost>>

----------------------------------------------------------------------------
(***************************************************************************)
(* _spawn, outside the lock: the path is read when the process is made.    *)
(***************************************************************************)
Spawn(r) ==
  /\ request[r].pc \in {"replacing", "replacing again"}
  /\ Free # {}
  /\ worker' = [worker EXCEPT ![New] = Starting(path)]
  /\ request' = [request EXCEPT ![r] =
       [pc |-> IF At(r, "replacing") THEN "opening" ELSE "opening again",
        worker |-> New]]
  /\ UNCHANGED <<path, list, mover, lost>>

\* _release appends without the lock.
Append(r) ==
  LET w == request[r].worker IN
  /\ request[r].pc \in {"opening", "opening again"}
  /\ worker' = [worker EXCEPT ![w].state = "up", ![w].listed = path]
  /\ list' = list \cup {w}
  /\ request' = [request EXCEPT ![r] = Outside]
  /\ UNCHANGED <<path, mover, lost>>

(***************************************************************************)
(* The worker is not ready within its minute, a RuntimeError that is       *)
(* passed over, or it dies before it is, an EOFError: out of the release   *)
(* that follows a kill it reaches execute's own handler, which releases    *)
(* once more, and out of the others it leaves execute.                     *)
(***************************************************************************)
SpawnFails(r) ==
  /\ request[r].pc \in {"opening", "opening again"}
  /\ worker' = [worker EXCEPT ![request[r].worker] = Gone]
  /\ \/ /\ request' = [request EXCEPT ![r] = Outside]
        /\ lost' = lost + 1
     \/ /\ At(r, "opening")
        /\ request' = [request EXCEPT ![r] = [pc |-> "failed", worker |-> Nobody]]
        /\ UNCHANGED lost
  /\ UNCHANGED <<path, list, mover>>

----------------------------------------------------------------------------
(***************************************************************************)
(* repoint, called by the follower's one thread with a newer generation.   *)
(***************************************************************************)
Idle == {w \in list : ~worker[w].busy}

\* MUTANT: only the idle workers are seen to, and the busy ones not marked.
RepointIdle ==
  /\ mover.pc = "watching"
  /\ path < MaxGen
  /\ path' = path + 1
  /\ mover' = [pc |-> "retiring", idle |-> Idle, worker |-> Nobody]
  /\ list' = list \ Idle
  /\ UNCHANGED <<worker, request, lost>>

Repoint ==
  /\ mover.pc = "watching"
  /\ path < MaxGen
  /\ path' = path + 1
  /\ mover' = [pc |-> "retiring", idle |-> Idle, worker |-> Nobody]
  /\ worker' = [w \in Ids |-> [worker[w] EXCEPT !.stale = @ \/ w \in list]]
  /\ list' = list \ Idle
  /\ UNCHANGED <<request, lost>>

RetireIdle ==
  \E w \in mover.idle :
    /\ mover.pc = "retiring"
    /\ mover' = [mover EXCEPT !.idle = @ \ {w}]
    /\ worker' = [worker EXCEPT ![w] = Gone]
    /\ UNCHANGED <<path, list, request, lost>>

\* start(), which takes the lock and keeps it while it spawns.
StartFilling ==
  /\ mover.pc = "retiring" /\ mover.idle = {}
  /\ mover' = [mover EXCEPT !.pc = "filling"]
  /\ UNCHANGED <<path, list, worker, request, lost>>

FillOne ==
  /\ mover.pc = "filling"
  /\ Cardinality(list) < Size
  /\ Free # {}
  /\ worker' = [worker EXCEPT ![New] = Starting(path)]
  /\ mover' = [mover EXCEPT !.pc = "opening", !.worker = New]
  /\ UNCHANGED <<path, list, request, lost>>

FillOpened ==
  /\ mover.pc = "opening"
  /\ worker' = [worker EXCEPT ![mover.worker].state = "up", ![mover.worker].listed = path]
  /\ list' = list \cup {mover.worker}
  /\ mover' = [mover EXCEPT !.pc = "filling", !.worker = Nobody]
  /\ UNCHANGED <<path, request, lost>>

Filled ==
  /\ mover.pc = "filling"
  /\ Cardinality(list) >= Size
  /\ mover' = Watching
  /\ lost' = 0
  /\ UNCHANGED <<path, list, worker, request>>

\* Either error leaves start and repoint; the follower keeps it and goes on.
FillFails ==
  /\ mover.pc = "opening"
  /\ worker' = [worker EXCEPT ![mover.worker] = Gone]
  /\ mover' = Watching
  /\ lost' = Short
  /\ UNCHANGED <<path, list, request>>

----------------------------------------------------------------------------
\* A worker process dies by itself, busy or idle: out of memory, most likely.
WorkerDies(w) ==
  /\ w \in list /\ worker[w].state = "up"
  /\ worker' = [worker EXCEPT ![w].state = "dead"]
  /\ UNCHANGED <<path, list, request, mover, lost>>

Release(r) == Return(r) \/ DropKilled(r) \/ DropStale(r) \/ Retire(r)
Replace(r) == Spawn(r) \/ Append(r) \/ SpawnFails(r)
Move == RetireIdle \/ StartFilling \/ FillOne \/ FillOpened \/ Filled \/ FillFails

Next ==
  \/ \E r \in Requests :
       \/ Claim(r) \/ Refuse(r) \/ Answer(r) \/ Overrun(r) \/ Broken(r)
       \/ Release(r) \/ Replace(r)
  \/ Repoint \/ Move
  \/ \E w \in Ids : WorkerDies(w)

(***************************************************************************)
(* The deadline of _wait and of _spawn's poll, and threads that run.  A    *)
(* query need never answer.  A lock that keeps coming free is got.         *)
(***************************************************************************)
Fairness ==
  /\ WF_vars(Move)
  /\ \A r \in Requests :
       /\ WF_vars(Overrun(r))
       /\ SF_vars(Release(r))
       /\ WF_vars(Replace(r))

Spec == Init /\ [][Next]_vars /\ Fairness

----------------------------------------------------------------------------
Worker == [state : {"gone", "starting", "up", "dead"}, gen : 0..MaxGen,
           busy : BOOLEAN, stale : BOOLEAN, listed : 0..MaxGen]

Request == [pc : {"outside", "asking", "answered", "overrun", "broken", "retiring",
                  "replacing", "opening", "failed", "replacing again", "opening again"},
            worker : Ids \cup {Nobody}]

\* Types of every variable.
TypeOK ==
  /\ path \in 1..MaxGen
  /\ list \subseteq Ids
  /\ worker \in [Ids -> Worker]
  /\ request \in [Requests -> Request]
  /\ mover \in [pc : {"watching", "retiring", "filling", "opening"},
                idle : SUBSET Ids, worker : Ids \cup {Nobody}]
  /\ lost \in Nat

(***************************************************************************)
(* A busy worker is left alone: whatever is repointed, killed or replaced  *)
(* around it, a worker under a query stays in the pool, marked busy, with  *)
(* no second query, until its own request puts it back or kills it.        *)
(***************************************************************************)
QueriesKeepTheirWorkers ==
  \A r \in Requests :
    LET w == request[r].worker IN
    request[r].pc \in {"asking", "answered"} =>
      /\ w \in list /\ worker[w].busy /\ worker[w].state \in {"up", "dead"}
      /\ \A q \in Requests \ {r} : request[q].worker # w

(***************************************************************************)
(* Every process of the pool is somebody's: in the list, or in the hands   *)
(* of the thread that is starting or retiring it.  None is left running    *)
(* with its store open and no one to tell it to go.                        *)
(***************************************************************************)
NoOrphans ==
  \A w \in Ids : worker[w].state # "gone" =>
    \/ w \in list \cup mover.idle \cup {mover.worker}
    \/ \E r \in Requests : request[r].worker = w

(***************************************************************************)
(* The pool's capacity recovers rather than eroding with every hostile     *)
(* query: what is missing from it is being replaced by some request, or    *)
(* is a spawn that failed since the pool was last filled.                  *)
(***************************************************************************)
Replacing == {r \in Requests : request[r].pc \in
  {"retiring", "replacing", "opening", "failed", "replacing again", "opening again"}}

CapacityIsAccountedFor ==
  mover.pc = "watching" => Cardinality(list) + Cardinality(Replacing) + lost >= Size

(***************************************************************************)
(* No worker of the pool, and none of its places, is ever unaccounted for. *)
(***************************************************************************)
PoolIsAccountedFor ==
  /\ TypeOK
  /\ QueriesKeepTheirWorkers
  /\ NoOrphans
  /\ CapacityIsAccountedFor

(***************************************************************************)
(* A move of the pool reaches every worker that was in it: a query starts  *)
(* on a worker of an older generation only if it joined the list since the *)
(* last move, a replacement started before it that was ready after it, and *)
(* not past the next one.                                                  *)
(***************************************************************************)
OlderWorkersAreFinished ==
  [][\A r \in Requests : Claim(r) =>
       LET w == worker[request'[r].worker] IN w.gen # path => w.listed = path]_vars

(***************************************************************************)
(* repoint: "Answer out of a different store from now on."                 *)
(***************************************************************************)
QueriesStartOnTheStoreOfNow ==
  [][\A r \in Requests : Claim(r) => worker[request'[r].worker].gen = path]_vars

(***************************************************************************)
(* Nobody waits behind an expensive query: every request leaves execute,   *)
(* its query answered or not.                                              *)
(***************************************************************************)
EveryQueryEnds == \A r \in Requests : At(r, "asking") ~> At(r, "outside")

(***************************************************************************)
(* The pool size is the concurrency limit: no more queries run at once     *)
(* than the pool was made for.                                             *)
(***************************************************************************)
PoolSizeIsTheLimit ==
  Cardinality({r \in Requests : At(r, "asking")}) <= Size
=============================================================================
