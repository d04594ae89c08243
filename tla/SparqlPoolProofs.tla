-------------------------- MODULE SparqlPoolProofs --------------------------
(***************************************************************************)
(* Proofs about SparqlPool, for any number of requests and any size of the *)
(* pool: Accounted is inductive, no worker or place of the pool is lost    *)
(* sight of, and no query starts on a worker the pool had when it moved    *)
(* on.  That every query ends is left to TLC.                              *)
(***************************************************************************)
EXTENDS SparqlPool, FiniteSetTheorems, TLAPS

(***************************************************************************)
(* What a request holds at each place in execute: a worker of the list,    *)
(* one it took out of the list to retire, one it is starting, or none.     *)
(***************************************************************************)
Querying == {"asking", "answered", "overrun", "broken"}
Opening == {"opening", "opening again"}

HoldsWell(q) ==
  /\ q.pc \in Querying => q.worker \in list /\ worker[q.worker].busy
  /\ q.pc = "retiring" => q.worker \in Ids \ list /\ worker[q.worker].state \in {"up", "dead"}
  /\ q.pc \in Opening =>
       /\ q.worker \in Ids \ list
       /\ worker[q.worker].state = "starting" /\ ~worker[q.worker].stale
  /\ q.pc \notin Querying \cup {"retiring"} \cup Opening => q.worker = Nobody

RequestsHoldTheirs == \A r \in Requests : HoldsWell(request[r])

\* No worker is in two hands.
OnlyIn(w, r) ==
  /\ \A q \in Requests \ {r} : request[q].worker # w
  /\ w \notin mover.idle /\ w # mover.worker

EachHoldsItsOwn ==
  \A r \in Requests : request[r].worker # Nobody => OnlyIn(request[r].worker, r)

\* The follower's thread holds the idle workers it took out of the list, and then
\* the one it is starting.
MoverHoldsItsOwn ==
  /\ mover.pc # "retiring" => mover.idle = {}
  /\ \A w \in mover.idle : w \notin list /\ worker[w].state \in {"up", "dead"}
  /\ mover.pc # "opening" => mover.worker = Nobody
  /\ mover.pc = "opening" =>
       /\ mover.worker \in Ids \ list
       /\ worker[mover.worker].state = "starting" /\ ~worker[mover.worker].stale

\* A worker of the list has been started, and one the pool has moved on from is
\* stale, and idle only if it is not.
InListWell(w) ==
  /\ worker[w].state \in {"up", "dead"}
  /\ worker[w].listed # path => worker[w].stale
  /\ worker[w].stale => worker[w].busy
ListIsUp == \A w \in list : InListWell(w)

\* Every worker is where it should be.
Hands ==
  /\ TypeOK
  /\ RequestsHoldTheirs /\ EachHoldsItsOwn /\ MoverHoldsItsOwn /\ ListIsUp
  /\ NoOrphans

Accounted == Hands /\ CapacityIsAccountedFor

----------------------------------------------------------------------------
(***************************************************************************)
(* The pool is made with Size workers.                                     *)
(***************************************************************************)
LEMMA HasThatMany ==
  ASSUME NEW S, IsFiniteSet(S), NEW n \in Nat, n <= Cardinality(S)
  PROVE  \E T \in SUBSET S : Cardinality(T) = n
  <1>1. PICK f \in Bijection(1..Cardinality(S), S) : TRUE
    BY FS_CardinalityType DEF ExistsBijection
  <1> DEFINE T == {f[i] : i \in 1..n}
             g == [i \in 1..n |-> f[i]]
  <1>2. 1..n \subseteq 1..Cardinality(S)
    BY FS_CardinalityType
  <1>3. T \in SUBSET S
    BY <1>1, <1>2 DEF Bijection, Injection
  <1>4. g \in Bijection(1..n, T)
    BY <1>1, <1>2 DEF Bijection, Injection, Surjection, IsInjective
  <1>5. Cardinality(T) = n
    BY <1>4, FS_CountingElements DEF ExistsBijection
  <1> QED
    BY <1>3, <1>5

LEMMA ListIsFinite ==
  ASSUME NEW S \in SUBSET Ids
  PROVE  IsFiniteSet(S) /\ Cardinality(S) \in Nat
  BY PoolAssumption, FS_Subset, FS_CardinalityType

LEMMA AccountedInit == Init => Accounted
  <1> SUFFICES ASSUME Init PROVE Accounted
    OBVIOUS
  <1>1. list \in SUBSET Ids /\ Cardinality(list) = Size
    <2>1. Cardinality(Ids) \in Nat /\ Cardinality(Requests) \in Nat /\ Size \in Nat
      BY PoolAssumption, FS_CardinalityType
    <2>2. Size <= Cardinality(Ids)
      BY <2>1, PoolAssumption
    <2>3. \E ids \in SUBSET Ids : Cardinality(ids) = Size
      BY <2>1, <2>2, HasThatMany, PoolAssumption
    <2> QED
      BY <2>3 DEF Init
  <1>2. Up(1) \in Worker /\ Gone \in Worker /\ Outside \in Request
    BY PoolAssumption DEF Up, Gone, Process, Worker, Outside, Request
  <1>3. TypeOK
    <2>1. worker \in [Ids -> Worker] /\ request \in [Requests -> Request]
      BY <1>2 DEF Init
    <2> QED
      BY <1>1, <2>1, PoolAssumption DEF Init, TypeOK, Watching
  <1>4. \A w \in Ids : w \in list => worker[w] = Up(1)
    BY DEF Init
  <1>5. \A w \in Ids : w \notin list => worker[w] = Gone
    BY DEF Init
  <1>6. RequestsHoldTheirs /\ EachHoldsItsOwn
    BY DEF Init, RequestsHoldTheirs, EachHoldsItsOwn, HoldsWell, Outside, Querying, Opening
  <1>7. MoverHoldsItsOwn
    BY DEF Init, MoverHoldsItsOwn, Watching
  <1>8. ListIsUp
    BY <1>1, <1>4 DEF ListIsUp, InListWell, Init, Up, Process
  <1>9. NoOrphans
    BY <1>5 DEF NoOrphans, Gone, Process
  <1>10. CapacityIsAccountedFor
    <2>1. Replacing = {}
      BY DEF Replacing, Init, Outside
    <2> QED
      BY <1>1, <2>1, FS_EmptySet, PoolAssumption DEF CapacityIsAccountedFor, Init
  <1> QED
    BY <1>3, <1>6, <1>7, <1>8, <1>9, <1>10 DEF Accounted, Hands

----------------------------------------------------------------------------
(***************************************************************************)
(* A step of one request on one worker that is in no other hand, and what  *)
(* it has to leave behind.                                                 *)
(***************************************************************************)
LEMMA RequestStep ==
  ASSUME Hands, NEW r \in Requests, NEW n \in Request, NEW w \in Ids \cup {Nobody},
         UNCHANGED <<path, mover>>, lost' \in Nat,
         request' = [request EXCEPT ![r] = n],
         worker' \in [Ids -> Worker], list' \in SUBSET Ids,
         \A v \in Ids \ {w} : worker'[v] = worker[v] /\ (v \in list' <=> v \in list),
         request[r].worker \in {w, Nobody}, w # Nobody => OnlyIn(w, r),
         n.worker \in {w, Nobody}, HoldsWell(n)',
         w \in list' => InListWell(w)',
         w \in Ids => worker'[w].state = "gone" \/ w \in list' \/ n.worker = w
  PROVE  Hands'
  <1> USE DEF Hands
  <1>1. request'[r] = n /\ \A q \in Requests \ {r} : request'[q] = request[q]
    BY DEF TypeOK
  <1>2. TypeOK'
    BY DEF TypeOK
  <1>3. Nobody \notin Ids /\ \A q \in Requests : request[q].worker \in Ids \cup {Nobody}
    BY PoolAssumption DEF TypeOK, Request
  <1>4. RequestsHoldTheirs'
    <2> SUFFICES ASSUME NEW q \in Requests \ {r} PROVE HoldsWell(request[q])'
      BY <1>1 DEF RequestsHoldTheirs
    <2>1. HoldsWell(request[q])
      BY DEF RequestsHoldTheirs
    <2>2. CASE request[q].worker = Nobody
      BY <1>1, <1>3, <2>1, <2>2 DEF HoldsWell, TypeOK
    <2>3. CASE request[q].worker # Nobody
      <3>1. request[q].worker \in Ids \ {w}
        BY <1>3, <2>3 DEF OnlyIn
      <3>2. PICK v \in Ids \ {w} : v = request[q].worker
        BY <3>1
      <3>3. worker'[v] = worker[v] /\ (v \in list' <=> v \in list)
        OBVIOUS
      <3> QED
        BY <1>1, <2>1, <3>2, <3>3 DEF HoldsWell
    <2> QED
      BY <2>2, <2>3
  <1>5. EachHoldsItsOwn'
    <2> SUFFICES ASSUME NEW q \in Requests, NEW v, v = request'[q].worker, v # Nobody
                 PROVE  OnlyIn(v, q)'
      BY DEF EachHoldsItsOwn, OnlyIn
    <2>1. CASE q = r
      <3>1. v = w /\ OnlyIn(w, r)
        BY <1>1, <2>1
      <3> QED
        BY <1>1, <2>1, <3>1 DEF OnlyIn
    <2>2. CASE q # r
      <3>1. v = request[q].worker /\ OnlyIn(v, q)
        BY <1>1, <2>2 DEF EachHoldsItsOwn
      <3>2. v # n.worker
        BY <1>1, <2>2, <3>1 DEF OnlyIn
      <3> QED
        BY <1>1, <2>2, <3>1, <3>2 DEF OnlyIn
    <2> QED
      BY <2>1, <2>2
  <1>6. MoverHoldsItsOwn'
    <2>1. \A v \in mover.idle : v \in Ids \ {w}
      BY <1>3 DEF TypeOK, OnlyIn
    <2>2. mover.worker # Nobody => mover.worker \in Ids \ {w}
      BY <1>3 DEF TypeOK, OnlyIn
    <2>3. \A v \in mover.idle : v \notin list' /\ worker'[v].state \in {"up", "dead"}
      BY <2>1 DEF MoverHoldsItsOwn
    <2>4. mover.pc = "opening" =>
            /\ mover.worker \in Ids \ list'
            /\ worker'[mover.worker].state = "starting" /\ ~worker'[mover.worker].stale
      BY <1>3, <2>2 DEF MoverHoldsItsOwn
    <2> QED
      BY <2>3, <2>4 DEF MoverHoldsItsOwn
  <1>7. ListIsUp'
    <2> SUFFICES ASSUME NEW v \in list', v # w PROVE InListWell(v)'
      BY DEF ListIsUp
    <2>1. worker'[v] = worker[v] /\ v \in list
      OBVIOUS
    <2> QED
      BY <2>1 DEF ListIsUp, InListWell
  <1>8. NoOrphans'
    <2> SUFFICES ASSUME NEW v \in Ids, worker'[v].state # "gone"
                 PROVE  \/ v \in list' \cup mover'.idle \cup {mover'.worker}
                        \/ \E q \in Requests : request'[q].worker = v
      BY DEF NoOrphans
    <2>1. CASE v = w
      BY <1>1, <2>1
    <2>2. CASE v # w
      <3>1. worker[v].state # "gone" /\ (v \in list' <=> v \in list)
        BY <2>2
      <3>2. \A q \in Requests : request[q].worker = v => q # r
        BY <1>3, <2>2
      <3> QED
        BY <1>1, <3>1, <3>2 DEF NoOrphans
    <2> QED
      BY <2>1, <2>2
  <1> QED
    BY <1>2, <1>4, <1>5, <1>6, <1>7, <1>8

LEMMA HandsAreTyped ==
  ASSUME Hands, NEW r \in Requests
  PROVE  /\ Nobody \notin Ids /\ request[r] \in Request /\ request[r].worker \in Ids \cup {Nobody}
         /\ HoldsWell(request[r])
         /\ request[r].worker # Nobody => OnlyIn(request[r].worker, r)
         /\ list \in SUBSET Ids /\ worker \in [Ids -> Worker] /\ lost \in Nat
         /\ \A w \in list : InListWell(w)
  BY PoolAssumption
    DEF Hands, TypeOK, Request, RequestsHoldTheirs, EachHoldsItsOwn, ListIsUp

Places == {"outside", "asking", "answered", "overrun", "broken", "retiring",
           "replacing", "opening", "failed", "replacing again", "opening again"}

LEMMA PcMoves ==
  ASSUME NEW q \in Request, NEW pc \in Places
  PROVE  \E n \in Request : n = [q EXCEPT !.pc = pc] /\ n.pc = pc /\ n.worker = q.worker
  <1>1. [q EXCEPT !.pc = pc] \in Request
    BY DEF Request, Places
  <1>2. [q EXCEPT !.pc = pc].pc = pc /\ [q EXCEPT !.pc = pc].worker = q.worker
    BY DEF Request
  <1> QED
    BY <1>1, <1>2

LEMMA PathIsTyped ==
  ASSUME Hands
  PROVE  path \in 0..MaxGen
  BY PoolAssumption DEF Hands, TypeOK

LEMMA GoneIsTyped == Gone \in Worker /\ Gone.state = "gone"
  BY PoolAssumption DEF Gone, Process, Worker

\* A worker that is new, or idle in the list, is in no hand.
LEMMA NewIsFree ==
  ASSUME Hands, Free # {}
  PROVE  /\ New \in Ids \ list /\ worker[New].state = "gone"
         /\ New \notin mover.idle /\ New # mover.worker
         /\ \A r \in Requests : OnlyIn(New, r) /\ request[r].worker # New
  <1>1. New \in Free
    BY DEF New
  <1>2. PICK w \in Ids : w = New /\ worker[w].state = "gone"
    BY <1>1 DEF Free
  <1>3. w \notin list
    BY <1>2 DEF Hands, ListIsUp, InListWell
  <1>4. w \notin mover.idle /\ w # mover.worker
    BY <1>2, PoolAssumption DEF Hands, MoverHoldsItsOwn
  <1>5. \A q \in Requests : request[q].worker # w
    BY <1>2, <1>3, HandsAreTyped DEF HoldsWell
  <1> QED
    BY <1>2, <1>3, <1>4, <1>5 DEF OnlyIn

LEMMA IdleIsFree ==
  ASSUME Hands, NEW w \in list, ~worker[w].busy
  PROVE  \A r \in Requests : OnlyIn(w, r) /\ request[r].worker # w
  <1>1. w \in Ids /\ w # Nobody
    BY PoolAssumption DEF Hands, TypeOK
  <1>2. w \notin mover.idle /\ w # mover.worker
    BY <1>1 DEF Hands, MoverHoldsItsOwn
  <1>3. \A q \in Requests : request[q].worker # w
    BY <1>1, HandsAreTyped DEF HoldsWell
  <1> QED
    BY <1>2, <1>3 DEF OnlyIn

LEMMA ClaimKeeps ==
  ASSUME Hands, NEW r \in Requests, Claim(r)
  PROVE  Hands'
  <1>1. PICK w \in list :
          /\ ~worker[w].busy /\ At(r, "outside")
          /\ worker' = [worker EXCEPT ![w].busy = TRUE]
          /\ request' = [request EXCEPT ![r] = [pc |-> "asking", worker |-> w]]
          /\ UNCHANGED <<path, list, mover, lost>>
    BY DEF Claim
  <1> DEFINE n == [pc |-> "asking", worker |-> w]
  <1>2. w \in Ids /\ worker[w] \in Worker /\ InListWell(w) /\ OnlyIn(w, r) /\ request[r].worker = Nobody
    BY <1>1, HandsAreTyped, IdleIsFree DEF At, HoldsWell, Querying, Opening
  <1>3. worker' \in [Ids -> Worker] /\ \A v \in Ids \ {w} : worker'[v] = worker[v]
    BY <1>1, <1>2, HandsAreTyped DEF Worker
  <1>4. /\ worker'[w].state = worker[w].state /\ worker'[w].busy
        /\ worker'[w].listed = worker[w].listed /\ worker'[w].stale = worker[w].stale
    BY <1>1, <1>2, HandsAreTyped DEF Worker
  <1>5. n \in Request /\ HoldsWell(n)' /\ InListWell(w)'
    BY <1>1, <1>2, <1>4 DEF Request, HoldsWell, InListWell, Querying, Opening
  <1> QED
    BY <1>1, <1>2, <1>3, <1>5, RequestStep, HandsAreTyped

LEMMA AnswerOrBrokenKeeps ==
  ASSUME Hands, NEW r \in Requests, Answer(r) \/ Broken(r)
  PROVE  Hands'
  <1>1. PICK pc \in {"answered", "broken"} :
          /\ At(r, "asking")
          /\ request' = [request EXCEPT ![r] = [request[r] EXCEPT !.pc = pc]]
          /\ UNCHANGED <<path, list, worker, mover, lost>>
    BY DEF Answer, Broken, Goes
  <1>2. PICK n \in Request :
          n = [request[r] EXCEPT !.pc = pc] /\ n.pc = pc /\ n.worker = request[r].worker
    <2>1. request[r] \in Request /\ pc \in Places
      BY HandsAreTyped DEF Places
    <2> QED
      BY <2>1, PcMoves, Zenon
  <1>3. PICK w \in list :
          w = n.worker /\ worker[w].busy /\ w \in Ids /\ w # Nobody /\ OnlyIn(w, r)
    BY <1>1, <1>2, HandsAreTyped DEF At, HoldsWell, Querying
  <1>4. HoldsWell(n)' /\ InListWell(w)'
    BY <1>1, <1>2, <1>3, HandsAreTyped DEF HoldsWell, InListWell, Querying, Opening
  <1> QED
    BY <1>1, <1>2, <1>3, <1>4, RequestStep, HandsAreTyped

\* The worker of a query that is killed stays in the list, busy.
LEMMA OverrunKeeps ==
  ASSUME Hands, NEW r \in Requests, Overrun(r)
  PROVE  Hands'
  <1>1. PICK n \in Request :
          /\ n = [request[r] EXCEPT !.pc = "overrun"]
          /\ n.pc = "overrun" /\ n.worker = request[r].worker
    <2>1. request[r] \in Request /\ "overrun" \in Places
      BY HandsAreTyped DEF Places
    <2> QED
      BY <2>1, PcMoves, Zenon
  <1>2. PICK w \in list :
          /\ w = n.worker /\ worker[w].busy /\ w \in Ids /\ w # Nobody /\ OnlyIn(w, r)
          /\ request' = [request EXCEPT ![r] = n]
          /\ worker' = [worker EXCEPT ![w].state = "dead"]
          /\ UNCHANGED <<path, list, mover, lost>>
    BY <1>1, HandsAreTyped DEF Overrun, Goes, At, HoldsWell, Querying
  <1>3. worker' \in [Ids -> Worker] /\ \A v \in Ids \ {w} : worker'[v] = worker[v]
    BY <1>2, HandsAreTyped DEF Worker
  <1>4. /\ worker'[w].state = "dead" /\ worker'[w].busy = worker[w].busy
        /\ worker'[w].listed = worker[w].listed /\ worker'[w].stale = worker[w].stale
    BY <1>2, HandsAreTyped DEF Worker
  <1>5. HoldsWell(n)' /\ InListWell(w)'
    BY <1>1, <1>2, <1>4, HandsAreTyped DEF HoldsWell, InListWell, Querying, Opening
  <1> QED
    BY <1>1, <1>2, <1>3, <1>5, RequestStep, HandsAreTyped

LEMMA ReturnKeeps ==
  ASSUME Hands, NEW r \in Requests, Return(r)
  PROVE  Hands'
  <1>1. PICK w :
          /\ w = request[r].worker /\ ~worker[w].stale
          /\ w \in list /\ w \in Ids /\ w # Nobody /\ OnlyIn(w, r) /\ InListWell(w)
          /\ request' = [request EXCEPT ![r] = Outside]
          /\ worker' = [worker EXCEPT ![w].busy = FALSE]
          /\ UNCHANGED <<path, list, mover, lost>>
    BY HandsAreTyped DEF Return, Request, At, HoldsWell, Querying
  <1>2. worker' \in [Ids -> Worker] /\ \A v \in Ids \ {w} : worker'[v] = worker[v]
    BY <1>1, HandsAreTyped DEF Worker
  <1>3. /\ worker'[w].state = worker[w].state /\ worker'[w].stale = worker[w].stale
        /\ worker'[w].listed = worker[w].listed
    BY <1>1, HandsAreTyped DEF Worker
  <1>4. Outside \in Request /\ HoldsWell(Outside)' /\ InListWell(w)' /\ Outside.worker = Nobody
    BY <1>1, <1>3 DEF Request, HoldsWell, InListWell, Querying, Opening, Outside
  <1> QED
    BY <1>1, <1>2, <1>4, RequestStep, HandsAreTyped

LEMMA DropKilledKeeps ==
  ASSUME Hands, NEW r \in Requests, DropKilled(r)
  PROVE  Hands'
  <1>1. PICK w, n :
          /\ w = request[r].worker /\ w \in Ids \cup {Nobody}
          /\ w # Nobody => w \in list /\ OnlyIn(w, r)
          /\ n \in [pc : {"replacing", "replacing again"}, worker : {Nobody}]
          /\ request' = [request EXCEPT ![r] = n]
          /\ worker' = IF w \in list THEN [worker EXCEPT ![w] = Gone] ELSE worker
          /\ list' = list \ {w}
          /\ UNCHANGED <<path, mover, lost>>
    <2>1. request[r].worker # Nobody => request[r].worker \in list
      BY HandsAreTyped DEF DropKilled, HoldsWell, Querying, Opening
    <2>2. PICK pc \in {"replacing", "replacing again"} :
            request' = [request EXCEPT ![r] = [[@ EXCEPT !.pc = pc] EXCEPT !.worker = Nobody]]
      BY DEF DropKilled
    <2>3. PICK n : n = [[request[r] EXCEPT !.pc = pc] EXCEPT !.worker = Nobody]
      OBVIOUS
    <2>4. n \in [pc : {"replacing", "replacing again"}, worker : {Nobody}]
      BY <2>3, HandsAreTyped DEF Request
    <2> QED
      BY <2>1, <2>2, <2>3, <2>4, HandsAreTyped DEF DropKilled
  <1>3. /\ worker' \in [Ids -> Worker] /\ \A v \in Ids \ {w} : worker'[v] = worker[v]
        /\ w \in Ids => worker'[w].state = "gone"
    BY <1>1, GoneIsTyped, HandsAreTyped
  <1>4. n \in Request /\ HoldsWell(n)' /\ n.worker = Nobody
    BY <1>1 DEF Request, HoldsWell, Querying, Opening
  <1> QED
    BY <1>1, <1>3, <1>4, RequestStep, HandsAreTyped

LEMMA DropStaleKeeps ==
  ASSUME Hands, NEW r \in Requests, DropStale(r)
  PROVE  Hands'
  <1>1. PICK n \in Request :
          /\ n = [request[r] EXCEPT !.pc = "retiring"]
          /\ n.pc = "retiring" /\ n.worker = request[r].worker
    <2>1. request[r] \in Request /\ "retiring" \in Places
      BY HandsAreTyped DEF Places
    <2> QED
      BY <2>1, PcMoves, Zenon
  <1>2. PICK w \in list :
          /\ w = n.worker /\ w \in Ids /\ w # Nobody /\ OnlyIn(w, r) /\ InListWell(w)
          /\ request' = [request EXCEPT ![r] = n]
          /\ list' = list \ {w}
          /\ UNCHANGED <<path, worker, mover, lost>>
    BY <1>1, HandsAreTyped DEF DropStale, Goes, At, HoldsWell, Querying
  <1>3. HoldsWell(n)'
    BY <1>1, <1>2 DEF HoldsWell, InListWell, Querying, Opening
  <1> QED
    BY <1>1, <1>2, <1>3, RequestStep, HandsAreTyped

LEMMA RetireKeeps ==
  ASSUME Hands, NEW r \in Requests, Retire(r)
  PROVE  Hands'
  <1>1. PICK w, n :
          /\ w = request[r].worker /\ n = [pc |-> "replacing again", worker |-> Nobody]
          /\ w \in Ids \ list /\ w # Nobody /\ OnlyIn(w, r)
          /\ request' = [request EXCEPT ![r] = n]
          /\ worker' = [worker EXCEPT ![w] = Gone]
          /\ UNCHANGED <<path, list, mover, lost>>
    BY HandsAreTyped DEF Retire, At, HoldsWell
  <1>3. /\ worker' \in [Ids -> Worker] /\ \A v \in Ids \ {w} : worker'[v] = worker[v]
        /\ worker'[w].state = "gone"
    BY <1>1, GoneIsTyped, HandsAreTyped
  <1>4. n \in Request /\ HoldsWell(n)'
    BY <1>1 DEF Request, HoldsWell, Querying, Opening
  <1> QED
    BY <1>1, <1>3, <1>4, RequestStep, HandsAreTyped

LEMMA StartingIsTyped ==
  ASSUME path \in 1..MaxGen
  PROVE  /\ Starting(path) \in Worker
         /\ Starting(path).state = "starting" /\ Starting(path).stale = FALSE
  BY PoolAssumption DEF Starting, Process, Worker

LEMMA SpawnKeeps ==
  ASSUME Hands, NEW r \in Requests, Spawn(r)
  PROVE  Hands'
  <1>1. PICK w, n :
          /\ w \in Ids \ list /\ w # Nobody /\ OnlyIn(w, r) /\ request[r].worker = Nobody
          /\ n \in [pc : Opening, worker : {w}]
          /\ request' = [request EXCEPT ![r] = n]
          /\ worker' = [worker EXCEPT ![w] = Starting(path)]
          /\ UNCHANGED <<path, list, mover, lost>>
    <2>1. request[r].worker = Nobody
      BY HandsAreTyped DEF Spawn, HoldsWell, Querying, Opening
    <2> QED
      <3>1. PICK w : w = New
        OBVIOUS
      <3>2. PICK n : n = [pc |-> IF At(r, "replacing") THEN "opening" ELSE "opening again", worker |-> w]
        OBVIOUS
      <3>3. n \in [pc : Opening, worker : {w}]
        BY <3>2 DEF Opening
      <3> QED
        BY <2>1, <3>1, <3>2, <3>3, HandsAreTyped, NewIsFree DEF Spawn
  <1>2. path \in 1..MaxGen
    BY DEF Hands, TypeOK
  <1>3. /\ worker' \in [Ids -> Worker] /\ \A v \in Ids \ {w} : worker'[v] = worker[v]
        /\ worker'[w].state = "starting" /\ worker'[w].stale = FALSE
    BY <1>1, <1>2, StartingIsTyped, HandsAreTyped
  <1>4. n \in Request /\ HoldsWell(n)' /\ n.worker = w
    BY <1>1, <1>3 DEF Request, HoldsWell, Querying, Opening
  <1> QED
    BY <1>1, <1>3, <1>4, RequestStep, HandsAreTyped

LEMMA AppendKeeps ==
  ASSUME Hands, NEW r \in Requests, Append(r)
  PROVE  Hands'
  <1>1. PICK w :
          /\ w = request[r].worker
          /\ w \in Ids \ list /\ w # Nobody /\ OnlyIn(w, r) /\ ~worker[w].stale
          /\ request' = [request EXCEPT ![r] = Outside]
          /\ worker' = [worker EXCEPT ![w].state = "up", ![w].listed = path]
          /\ list' = list \cup {w} /\ path \in 0..MaxGen
          /\ UNCHANGED <<path, mover, lost>>
    BY HandsAreTyped, PathIsTyped DEF Append, HoldsWell, Opening
  <1>2. worker' \in [Ids -> Worker] /\ \A v \in Ids \ {w} : worker'[v] = worker[v]
    BY <1>1, HandsAreTyped DEF Worker
  <1>3. worker'[w].state = "up" /\ worker'[w].stale = worker[w].stale /\ worker'[w].listed = path
    BY <1>1, HandsAreTyped DEF Worker
  <1>4. Outside \in Request /\ HoldsWell(Outside)' /\ InListWell(w)' /\ Outside.worker = Nobody
    BY <1>1, <1>3 DEF Request, HoldsWell, InListWell, Querying, Opening, Outside
  <1>5. list' \in SUBSET Ids /\ \A v \in Ids \ {w} : v \in list' <=> v \in list
    BY <1>1, HandsAreTyped
  <1> QED
    BY <1>1, <1>2, <1>4, <1>5, RequestStep, HandsAreTyped

LEMMA SpawnFailsKeeps ==
  ASSUME Hands, NEW r \in Requests, SpawnFails(r)
  PROVE  Hands'
  <1>1. PICK w, n :
          /\ w = request[r].worker /\ w \in Ids \ list /\ w # Nobody /\ OnlyIn(w, r)
          /\ n \in [pc : {"outside", "failed"}, worker : {Nobody}]
          /\ request' = [request EXCEPT ![r] = n]
          /\ worker' = [worker EXCEPT ![w] = Gone]
          /\ lost' \in {lost, lost + 1}
          /\ UNCHANGED <<path, list, mover>>
    BY HandsAreTyped DEF SpawnFails, HoldsWell, Opening, Outside
  <1>3. /\ worker' \in [Ids -> Worker] /\ \A v \in Ids \ {w} : worker'[v] = worker[v]
        /\ worker'[w].state = "gone"
    BY <1>1, GoneIsTyped, HandsAreTyped
  <1>4. n \in Request /\ HoldsWell(n)' /\ n.worker = Nobody
    BY <1>1 DEF Request, HoldsWell, Querying, Opening
  <1>5. lost' \in Nat
    BY <1>1, HandsAreTyped
  <1> QED
    BY <1>1, <1>3, <1>4, <1>5, RequestStep, HandsAreTyped

----------------------------------------------------------------------------
(***************************************************************************)
(* A step of the follower's thread on one worker that no request holds.    *)
(***************************************************************************)
MoverHoldsWell(m) ==
  /\ m.pc # "retiring" => m.idle = {}
  /\ m.pc # "opening" => m.worker = Nobody
  /\ m.pc = "opening" =>
       /\ m.worker \in Ids \ list
       /\ worker[m.worker].state = "starting" /\ ~worker[m.worker].stale

Mover == [pc : {"watching", "retiring", "filling", "opening"},
          idle : SUBSET Ids, worker : Ids \cup {Nobody}]

LEMMA MoverStep ==
  ASSUME Hands, NEW m \in Mover, NEW w \in Ids \cup {Nobody},
         UNCHANGED <<path, request>>, lost' \in Nat, mover' = m,
         worker' \in [Ids -> Worker], list' \in SUBSET Ids,
         \A v \in Ids \ {w} : worker'[v] = worker[v] /\ (v \in list' <=> v \in list),
         w # Nobody => \A q \in Requests : request[q].worker # w,
         mover.worker \in {w, Nobody}, m.worker \in {w, Nobody}, m.idle = mover.idle \ {w},
         MoverHoldsWell(m)',
         w \in list' => InListWell(w)',
         w \in Ids => worker'[w].state = "gone" \/ w \in list' \/ m.worker = w
  PROVE  Hands'
  <1> USE DEF Hands
  <1>1. TypeOK'
    BY DEF TypeOK, Mover
  <1>2. Nobody \notin Ids /\ \A q \in Requests : request[q].worker \in Ids \cup {Nobody}
    BY PoolAssumption DEF TypeOK, Request
  <1>3. RequestsHoldTheirs'
    <2> SUFFICES ASSUME NEW q \in Requests PROVE HoldsWell(request[q])'
      BY DEF RequestsHoldTheirs
    <2>1. HoldsWell(request[q])
      BY DEF RequestsHoldTheirs
    <2>2. CASE request[q].worker = Nobody
      BY <1>2, <2>1, <2>2 DEF HoldsWell, TypeOK
    <2>3. CASE request[q].worker # Nobody
      <3>1. PICK v \in Ids \ {w} : v = request[q].worker
        BY <1>2, <2>3
      <3>2. worker'[v] = worker[v] /\ (v \in list' <=> v \in list)
        OBVIOUS
      <3> QED
        BY <2>1, <3>1, <3>2 DEF HoldsWell
    <2> QED
      BY <2>2, <2>3
  <1>4. EachHoldsItsOwn'
    <2> SUFFICES ASSUME NEW q \in Requests, NEW v, v = request[q].worker, v # Nobody
                 PROVE  OnlyIn(v, q)'
      BY DEF EachHoldsItsOwn, OnlyIn
    <2>1. OnlyIn(v, q) /\ v \in Ids /\ v # w
      BY <1>2 DEF EachHoldsItsOwn
    <2> QED
      BY <2>1 DEF OnlyIn
  <1>5. MoverHoldsItsOwn'
    <2>1. \A v \in m.idle : v \in Ids \ {w} /\ v \in mover.idle
      BY <1>2 DEF TypeOK
    <2>2. \A v \in m.idle : v \notin list' /\ worker'[v].state \in {"up", "dead"}
      BY <2>1 DEF MoverHoldsItsOwn
    <2> QED
      BY <2>2 DEF MoverHoldsItsOwn, MoverHoldsWell
  <1>6. ListIsUp'
    <2> SUFFICES ASSUME NEW v \in list', v # w PROVE InListWell(v)'
      BY DEF ListIsUp
    <2>1. worker'[v] = worker[v] /\ v \in list
      OBVIOUS
    <2> QED
      BY <2>1 DEF ListIsUp, InListWell
  <1>7. NoOrphans'
    <2> SUFFICES ASSUME NEW v \in Ids, worker'[v].state # "gone"
                 PROVE  \/ v \in list' \cup mover'.idle \cup {mover'.worker}
                        \/ \E q \in Requests : request'[q].worker = v
      BY DEF NoOrphans
    <2>1. CASE v = w
      BY <2>1
    <2>2. CASE v # w
      <3>1. worker[v].state # "gone" /\ (v \in list' <=> v \in list)
        BY <2>2
      <3>2. v # mover.worker
        BY <1>2, <2>2
      <3> QED
        BY <2>2, <3>1, <3>2 DEF NoOrphans
    <2> QED
      BY <2>1, <2>2
  <1> QED
    BY <1>1, <1>3, <1>4, <1>5, <1>6, <1>7

LEMMA MoverIsTyped ==
  ASSUME Hands
  PROVE  /\ Nobody \notin Ids /\ mover \in Mover /\ MoverHoldsWell(mover)
         /\ list \in SUBSET Ids /\ worker \in [Ids -> Worker] /\ lost \in Nat
         /\ \A q \in Requests : request[q].worker # Nobody =>
              request[q].worker \notin mover.idle /\ request[q].worker # mover.worker
  BY PoolAssumption
    DEF Hands, TypeOK, Mover, MoverHoldsItsOwn, MoverHoldsWell, EachHoldsItsOwn, OnlyIn

LEMMA RetireIdleKeeps ==
  ASSUME Hands, RetireIdle
  PROVE  Hands'
  <1>1. PICK w \in mover.idle :
          /\ mover.pc = "retiring"
          /\ mover' = [mover EXCEPT !.idle = @ \ {w}]
          /\ worker' = [worker EXCEPT ![w] = Gone]
          /\ UNCHANGED <<path, list, request, lost>>
    BY DEF RetireIdle
  <1>2. PICK m \in Mover :
          /\ m = mover' /\ m.pc = "retiring" /\ m.idle = mover.idle \ {w} /\ m.worker = Nobody
    BY <1>1, MoverIsTyped DEF Mover, MoverHoldsWell
  <1>3. w \in Ids /\ w \notin list /\ w # Nobody /\ mover.worker = Nobody
    BY <1>1, MoverIsTyped DEF Mover, MoverHoldsWell, Hands, MoverHoldsItsOwn
  <1>4. /\ worker' \in [Ids -> Worker] /\ \A v \in Ids \ {w} : worker'[v] = worker[v]
        /\ worker'[w].state = "gone"
    BY <1>1, <1>3, GoneIsTyped, MoverIsTyped
  <1>5. MoverHoldsWell(m)'
    BY <1>2 DEF MoverHoldsWell
  <1>6. \A q \in Requests : request[q].worker # w
    BY <1>3, MoverIsTyped
  <1> QED
    BY <1>1, <1>2, <1>3, <1>4, <1>5, <1>6, MoverStep, MoverIsTyped

LEMMA StartFillingKeeps ==
  ASSUME Hands, StartFilling
  PROVE  Hands'
  <1>1. PICK m \in Mover :
          /\ m = mover' /\ m.pc = "filling" /\ m.idle = {} /\ m.worker = Nobody
    BY MoverIsTyped DEF StartFilling, Mover, MoverHoldsWell
  <1>2. /\ mover.idle = {} /\ mover.worker = Nobody
        /\ UNCHANGED <<path, list, worker, request, lost>>
    BY MoverIsTyped DEF StartFilling, MoverHoldsWell
  <1>3. MoverHoldsWell(m)'
    BY <1>1 DEF MoverHoldsWell
  <1> QED
    BY <1>1, <1>2, <1>3, MoverStep, MoverIsTyped

LEMMA FillOneKeeps ==
  ASSUME Hands, FillOne
  PROVE  Hands'
  <1>1. PICK w \in Ids \ list :
          /\ w = New /\ \A q \in Requests : request[q].worker # w
          /\ w # Nobody /\ w \notin mover.idle
    BY NewIsFree, MoverIsTyped DEF FillOne
  <1>2. PICK m \in Mover :
          /\ m = mover' /\ m.pc = "opening" /\ m.idle = {} /\ m.worker = w
    <2>1. mover' = [mover EXCEPT !.pc = "opening", !.worker = w] /\ mover.idle = {}
      BY <1>1, MoverIsTyped DEF FillOne, MoverHoldsWell
    <2>2. /\ mover' \in Mover /\ mover'.pc = "opening"
          /\ mover'.idle = mover.idle /\ mover'.worker = w
      BY <2>1, MoverIsTyped DEF Mover
    <2> QED
      BY <2>1, <2>2
  <1>3. /\ worker' = [worker EXCEPT ![w] = Starting(path)]
        /\ mover.idle = {} /\ mover.worker = Nobody
        /\ UNCHANGED <<path, list, request, lost>>
    BY <1>1, MoverIsTyped DEF FillOne, MoverHoldsWell
  <1>4. path \in 1..MaxGen
    BY DEF Hands, TypeOK
  <1>5. /\ worker' \in [Ids -> Worker] /\ \A v \in Ids \ {w} : worker'[v] = worker[v]
        /\ worker'[w].state = "starting" /\ worker'[w].stale = FALSE
    BY <1>1, <1>3, <1>4, StartingIsTyped, MoverIsTyped
  <1>6. MoverHoldsWell(m)'
    BY <1>1, <1>2, <1>3, <1>5 DEF MoverHoldsWell
  <1> QED
    BY <1>1, <1>2, <1>3, <1>5, <1>6, MoverStep, MoverIsTyped

LEMMA FillOpenedKeeps ==
  ASSUME Hands, FillOpened
  PROVE  Hands'
  <1>1. PICK w \in Ids \ list :
          /\ w = mover.worker /\ ~worker[w].stale /\ w # Nobody
          /\ \A q \in Requests : request[q].worker # w
    BY MoverIsTyped DEF FillOpened, MoverHoldsWell
  <1>2. PICK m \in Mover :
          /\ m = mover' /\ m.pc = "filling" /\ m.idle = {} /\ m.worker = Nobody
    <2>1. mover' = [mover EXCEPT !.pc = "filling", !.worker = Nobody] /\ mover.idle = {}
      BY MoverIsTyped DEF FillOpened, MoverHoldsWell
    <2>2. /\ mover' \in Mover /\ mover'.pc = "filling"
          /\ mover'.idle = mover.idle /\ mover'.worker = Nobody
      BY <2>1, MoverIsTyped DEF Mover
    <2> QED
      BY <2>1, <2>2
  <1>3. /\ worker' = [worker EXCEPT ![w].state = "up", ![w].listed = path]
        /\ list' = list \cup {w} /\ path \in 0..MaxGen
        /\ mover.idle = {} /\ UNCHANGED <<path, request, lost>>
    BY <1>1, MoverIsTyped, PathIsTyped DEF FillOpened, MoverHoldsWell
  <1>4. worker' \in [Ids -> Worker] /\ \A v \in Ids \ {w} : worker'[v] = worker[v]
    BY <1>3, MoverIsTyped DEF Worker
  <1>5. worker'[w].state = "up" /\ worker'[w].stale = worker[w].stale /\ worker'[w].listed = path
    BY <1>3, MoverIsTyped DEF Worker
  <1>6. InListWell(w)' /\ MoverHoldsWell(m)'
    BY <1>1, <1>2, <1>3, <1>5 DEF InListWell, MoverHoldsWell
  <1>7. list' \in SUBSET Ids /\ \A v \in Ids \ {w} : v \in list' <=> v \in list
    BY <1>3, MoverIsTyped
  <1> QED
    BY <1>1, <1>2, <1>3, <1>4, <1>6, <1>7, MoverStep, MoverIsTyped

LEMMA FilledKeeps ==
  ASSUME Hands, Filled
  PROVE  Hands'
  <1>1. PICK m \in Mover :
          /\ m = mover' /\ m.pc = "watching" /\ m.idle = {} /\ m.worker = Nobody
    BY DEF Filled, Mover, Watching
  <1>2. /\ mover.idle = {} /\ mover.worker = Nobody /\ lost' = 0
        /\ UNCHANGED <<path, list, worker, request>>
    BY MoverIsTyped DEF Filled, MoverHoldsWell
  <1>3. MoverHoldsWell(m)'
    BY <1>1 DEF MoverHoldsWell
  <1> QED
    BY <1>1, <1>2, <1>3, MoverStep, MoverIsTyped

LEMMA ShortIsTyped ==
  ASSUME list \in SUBSET Ids
  PROVE  Short \in Nat /\ Cardinality(list) + Short >= Size
  BY ListIsFinite, PoolAssumption DEF Short

LEMMA FillFailsKeeps ==
  ASSUME Hands, FillFails
  PROVE  Hands'
  <1>1. PICK w \in Ids \ list :
          /\ w = mover.worker /\ w # Nobody
          /\ \A q \in Requests : request[q].worker # w
    BY MoverIsTyped DEF FillFails, MoverHoldsWell
  <1>2. PICK m \in Mover :
          /\ m = mover' /\ m.pc = "watching" /\ m.idle = {} /\ m.worker = Nobody
    BY DEF FillFails, Mover, Watching
  <1>3. /\ worker' = [worker EXCEPT ![w] = Gone]
        /\ mover.idle = {} /\ lost' \in Nat /\ UNCHANGED <<path, list, request>>
    BY <1>1, MoverIsTyped, ShortIsTyped DEF FillFails, MoverHoldsWell
  <1>4. /\ worker' \in [Ids -> Worker] /\ \A v \in Ids \ {w} : worker'[v] = worker[v]
        /\ worker'[w].state = "gone"
    BY <1>3, GoneIsTyped, MoverIsTyped
  <1>5. MoverHoldsWell(m)'
    BY <1>2 DEF MoverHoldsWell
  <1> QED
    BY <1>1, <1>2, <1>3, <1>4, <1>5, MoverStep, MoverIsTyped

\* The idle workers leave the list, and the busy ones are left to their queries.
LEMMA RepointKeeps ==
  ASSUME Hands, Repoint
  PROVE  Hands'
  <1> USE DEF Hands
  <1>1. /\ mover.pc = "watching" /\ path' \in 1..MaxGen /\ list' = list \ Idle
        /\ mover' = [pc |-> "retiring", idle |-> Idle, worker |-> Nobody]
        /\ UNCHANGED <<request, lost>>
    BY PoolAssumption DEF Repoint, TypeOK
  <1>2. /\ mover.idle = {} /\ mover.worker = Nobody
        /\ Idle \subseteq list /\ list \subseteq Ids
    BY <1>1 DEF MoverHoldsItsOwn, Idle, TypeOK
  <1>3. ASSUME NEW w \in Ids
        PROVE  /\ worker'[w] \in Worker
               /\ worker'[w].state = worker[w].state /\ worker'[w].busy = worker[w].busy
               /\ worker'[w].stale = (worker[w].stale \/ w \in list)
               /\ w \notin list => worker'[w].stale = worker[w].stale
    <2>1. PICK x \in Worker : x = worker[w]
      BY DEF TypeOK
    <2>2. PICK b \in BOOLEAN : b = (x.stale \/ w \in list)
      OBVIOUS
    <2>3. worker'[w] = [x EXCEPT !.stale = b]
      BY <2>1, <2>2 DEF Repoint
    <2>4. w \notin list => b = x.stale
      BY <2>2 DEF Worker
    <2> QED
      BY <2>1, <2>2, <2>3, <2>4 DEF Worker
  <1>3a. worker' \in [Ids -> Worker]
    <2>1. worker' = [w \in Ids |-> worker'[w]]
      BY DEF Repoint
    <2> QED
      BY <1>3, <2>1
  <1>4. TypeOK'
    BY <1>1, <1>2, <1>3a DEF TypeOK
  <1>5. \A w \in list : w \in list' <=> worker[w].busy
    BY <1>1 DEF Idle
  <1>6. Nobody \notin Ids
    BY PoolAssumption
  <1>7. RequestsHoldTheirs'
    <2> SUFFICES ASSUME NEW q \in Requests PROVE HoldsWell(request[q])'
      BY <1>1 DEF RequestsHoldTheirs
    <2>1. HoldsWell(request[q]) /\ list' \subseteq list
      BY <1>1 DEF RequestsHoldTheirs
    <2>2. CASE request[q].worker \notin Ids
      BY <1>1, <1>2, <2>1, <2>2 DEF HoldsWell
    <2>3. CASE request[q].worker \in Ids
      <3>1. PICK v \in Ids : v = request[q].worker
        BY <2>3
      <3>2. worker'[v].state = worker[v].state /\ worker'[v].busy = worker[v].busy
            /\ (v \notin list => worker'[v].stale = worker[v].stale)
        BY <1>3
      <3> QED
        BY <1>1, <1>5, <2>1, <3>1, <3>2 DEF HoldsWell
    <2> QED
      BY <2>2, <2>3
  <1>8. EachHoldsItsOwn'
    <2> SUFFICES ASSUME NEW q \in Requests, NEW v, v = request[q].worker, v # Nobody
                 PROVE  OnlyIn(v, q)'
      BY <1>1 DEF EachHoldsItsOwn, OnlyIn
    <2>1. OnlyIn(v, q) /\ HoldsWell(request[q])
      BY DEF EachHoldsItsOwn, RequestsHoldTheirs
    <2>2. v \notin Idle
      BY <2>1 DEF HoldsWell, Idle
    <2> QED
      BY <1>1, <2>1, <2>2 DEF OnlyIn
  <1>9. MoverHoldsItsOwn'
    <2>1. \A w \in Idle : w \notin list' /\ worker'[w].state \in {"up", "dead"}
      <3> SUFFICES ASSUME NEW w \in Idle
                   PROVE  w \notin list' /\ worker'[w].state \in {"up", "dead"}
        OBVIOUS
      <3>1. w \in Ids /\ w \in list /\ InListWell(w)
        BY <1>2 DEF ListIsUp
      <3> QED
        BY <1>1, <1>3, <3>1 DEF InListWell
    <2> QED
      BY <1>1, <2>1 DEF MoverHoldsItsOwn
  <1>10. ListIsUp'
    <2> SUFFICES ASSUME NEW w \in list' PROVE InListWell(w)'
      BY DEF ListIsUp
    <2>1. w \in list /\ w \in Ids /\ worker[w].busy /\ InListWell(w)
      BY <1>1, <1>2, <1>5 DEF ListIsUp
    <2>2. worker'[w].state = worker[w].state /\ worker'[w].busy /\ worker'[w].stale
      BY <1>3, <2>1
    <2> QED
      BY <2>1, <2>2 DEF InListWell
  <1>11. NoOrphans'
    <2> SUFFICES ASSUME NEW w \in Ids, worker'[w].state # "gone"
                 PROVE  \/ w \in list' \cup mover'.idle \cup {mover'.worker}
                        \/ \E q \in Requests : request'[q].worker = w
      BY DEF NoOrphans
    <2>1. worker[w].state # "gone"
      BY <1>3
    <2>2. w \in list \/ \E q \in Requests : request[q].worker = w
      BY <1>2, <1>6, <2>1 DEF NoOrphans
    <2> QED
      BY <1>1, <2>2
  <1> QED
    BY <1>4, <1>7, <1>8, <1>9, <1>10, <1>11

LEMMA WorkerDiesKeeps ==
  ASSUME Hands, NEW w \in Ids, WorkerDies(w)
  PROVE  Hands'
  <1> USE DEF Hands
  <1>1. /\ w \in list /\ worker[w].state = "up" /\ worker' = [worker EXCEPT ![w].state = "dead"]
        /\ UNCHANGED <<path, list, request, mover, lost>>
    BY DEF WorkerDies
  <1>2. /\ worker' \in [Ids -> Worker] /\ worker'[w].state = "dead"
        /\ \A v \in Ids : /\ v # w => worker'[v].state = worker[v].state
                         /\ worker'[v].busy = worker[v].busy
                         /\ worker'[v].stale = worker[v].stale
                         /\ worker'[v].listed = worker[v].listed
    BY <1>1 DEF TypeOK, Worker
  <1>3. TypeOK'
    BY <1>1, <1>2 DEF TypeOK
  <1>4. RequestsHoldTheirs'
    <2> SUFFICES ASSUME NEW q \in Requests PROVE HoldsWell(request[q])'
      BY <1>1 DEF RequestsHoldTheirs
    <2>1. HoldsWell(request[q]) /\ list \subseteq Ids
      BY DEF RequestsHoldTheirs, TypeOK
    <2> QED
      BY <1>1, <1>2, <2>1 DEF HoldsWell
  <1>5. EachHoldsItsOwn'
    BY <1>1 DEF EachHoldsItsOwn, OnlyIn
  <1>6. MoverHoldsItsOwn'
    <2>1. w \notin mover.idle /\ w # mover.worker /\ mover.idle \subseteq Ids
      BY <1>1, PoolAssumption DEF MoverHoldsItsOwn, TypeOK
    <2> QED
      BY <1>1, <1>2, <2>1 DEF MoverHoldsItsOwn
  <1>7. ListIsUp'
    BY <1>1, <1>2 DEF ListIsUp, InListWell, TypeOK
  <1>8. NoOrphans'
    BY <1>1, <1>2 DEF NoOrphans
  <1> QED
    BY <1>3, <1>4, <1>5, <1>6, <1>7, <1>8

LEMMA HandsStep ==
  ASSUME Hands, [Next]_vars
  PROVE  Hands'
  <1>1. ASSUME NEW r \in Requests, Claim(r) \/ Answer(r) \/ Overrun(r) \/ Broken(r)
        PROVE  Hands'
    BY <1>1, ClaimKeeps, AnswerOrBrokenKeeps, OverrunKeeps
  <1>2. ASSUME NEW r \in Requests, Release(r)
        PROVE  Hands'
    BY <1>2, ReturnKeeps, DropKilledKeeps, DropStaleKeeps, RetireKeeps DEF Release
  <1>3. ASSUME NEW r \in Requests, Replace(r)
        PROVE  Hands'
    BY <1>3, SpawnKeeps, AppendKeeps, SpawnFailsKeeps DEF Replace
  <1>4. CASE Repoint \/ Move
    BY <1>4, RepointKeeps, RetireIdleKeeps, StartFillingKeeps, FillOneKeeps,
       FillOpenedKeeps, FilledKeeps, FillFailsKeeps DEF Move
  <1>5. ASSUME NEW w \in Ids, WorkerDies(w)
        PROVE  Hands'
    BY <1>5, WorkerDiesKeeps
  <1>6. CASE UNCHANGED vars
    BY <1>6
      DEF vars, Hands, TypeOK, RequestsHoldTheirs, HoldsWell, EachHoldsItsOwn, OnlyIn,
          MoverHoldsItsOwn, ListIsUp, InListWell, NoOrphans
  <1>7. ASSUME NEW r \in Requests, Refuse(r)
        PROVE  UNCHANGED vars
    BY <1>7 DEF Refuse
  <1> QED
    BY <1>1, <1>2, <1>3, <1>4, <1>5, <1>6, <1>7 DEF Next

----------------------------------------------------------------------------
(***************************************************************************)
(* The capacity: what leaves the list is being replaced, and what was      *)
(* being replaced comes to the list or is counted as lost.                 *)
(***************************************************************************)
LEMMA RequestMoves ==
  ASSUME NEW r \in Requests, request \in [Requests -> Request], request' \in [Requests -> Request],
         \A q \in Requests \ {r} : request'[q] = request[q]
  PROVE  \/ Replacing' = Replacing \cup {r} /\ r \in Replacing'
         \/ Replacing' = Replacing \ {r} /\ r \notin Replacing'
  BY DEF Replacing

LEMMA ReplacingIsFinite ==
  /\ IsFiniteSet(Replacing) /\ Cardinality(Replacing) \in Nat
  /\ IsFiniteSet(Replacing') /\ Cardinality(Replacing') \in Nat
  <1>1. Replacing \in SUBSET Requests /\ Replacing' \in SUBSET Requests
    BY DEF Replacing
  <1> QED
    BY <1>1, PoolAssumption, FS_Subset, FS_CardinalityType

\* A request that was not replacing and now is makes it one more, and the reverse.
LEMMA ReplacingCounts ==
  ASSUME NEW r \in Requests, request \in [Requests -> Request], request' \in [Requests -> Request],
         \A q \in Requests \ {r} : request'[q] = request[q]
  PROVE  Cardinality(Replacing') =
           IF r \in Replacing
             THEN IF r \in Replacing' THEN Cardinality(Replacing) ELSE Cardinality(Replacing) - 1
             ELSE IF r \in Replacing' THEN Cardinality(Replacing) + 1 ELSE Cardinality(Replacing)
  <1>1. CASE r \in Replacing'
    <2>1. Replacing' = Replacing \cup {r}
      BY <1>1, RequestMoves
    <2> QED
      BY <1>1, <2>1, ReplacingIsFinite, FS_AddElement
  <1>2. CASE r \notin Replacing'
    <2>1. Replacing' = Replacing \ {r}
      BY <1>2, RequestMoves
    <2> QED
      BY <1>2, <2>1, ReplacingIsFinite, FS_RemoveElement
  <1> QED
    BY <1>1, <1>2

LEMMA CapacityStep ==
  ASSUME Hands, Hands', CapacityIsAccountedFor, [Next]_vars
  PROVE  CapacityIsAccountedFor'
  <1> SUFFICES ASSUME mover'.pc = "watching"
               PROVE  Cardinality(list') + Cardinality(Replacing') + lost' >= Size
    BY DEF CapacityIsAccountedFor
  <1>0. /\ list \in SUBSET Ids /\ list' \in SUBSET Ids /\ lost \in Nat /\ lost' \in Nat /\ Size \in Nat
        /\ request \in [Requests -> Request] /\ request' \in [Requests -> Request]
        /\ IsFiniteSet(list) /\ Cardinality(list) \in Nat /\ Cardinality(list') \in Nat
        /\ Nobody \notin Ids
    BY ListIsFinite, PoolAssumption DEF Hands, TypeOK
  <1>1. ASSUME mover' = mover, NEW r \in Requests, \A q \in Requests \ {r} : request'[q] = request[q],
               \/ list' = list /\ lost' = lost /\ (r \in Replacing => r \in Replacing')
               \/ /\ \E w : list' = list \ {w} /\ (w \in list => r \notin Replacing)
                  /\ lost' = lost /\ r \in Replacing'
               \/ (\E w \in Ids \ list : list' = list \cup {w}) /\ lost' = lost /\ r \in Replacing
               \/ list' = list /\ lost' = lost + 1 /\ r \in Replacing
        PROVE  Cardinality(list') + Cardinality(Replacing') + lost' >= Size
    <2>1. Cardinality(list) + Cardinality(Replacing) + lost >= Size
      BY <1>1 DEF CapacityIsAccountedFor
    <2>2. Cardinality(Replacing') =
           IF r \in Replacing
             THEN IF r \in Replacing' THEN Cardinality(Replacing) ELSE Cardinality(Replacing) - 1
             ELSE IF r \in Replacing' THEN Cardinality(Replacing) + 1 ELSE Cardinality(Replacing)
      BY <1>0, <1>1, ReplacingCounts
    <2>3. Cardinality(Replacing) \in Nat /\ Cardinality(Replacing') \in Nat
      BY ReplacingIsFinite
    <2>4. CASE list' = list
      BY <1>0, <1>1, <2>1, <2>2, <2>3, <2>4
    <2>5. ASSUME NEW w, list' = list \ {w}, w \in list => r \notin Replacing, lost' = lost, r \in Replacing'
          PROVE  Cardinality(list') + Cardinality(Replacing') + lost' >= Size
      <3>1. Cardinality(list') = IF w \in list THEN Cardinality(list) - 1 ELSE Cardinality(list)
        BY <1>0, <2>5, FS_RemoveElement
      <3> QED
        BY <1>0, <2>1, <2>2, <2>3, <2>5, <3>1
    <2>6. ASSUME NEW w \in Ids \ list, list' = list \cup {w}, lost' = lost, r \in Replacing
          PROVE  Cardinality(list') + Cardinality(Replacing') + lost' >= Size
      <3>1. Cardinality(list') = Cardinality(list) + 1
        BY <1>0, <2>6, FS_AddElement
      <3> QED
        BY <1>0, <2>1, <2>2, <2>3, <2>6, <3>1
    <2> QED
      BY <1>1, <2>4, <2>5, <2>6
  <1>2. ASSUME NEW r \in Requests,
               Claim(r) \/ Answer(r) \/ Overrun(r) \/ Broken(r) \/ Return(r) \/ Retire(r) \/ Spawn(r)
        PROVE  Cardinality(list') + Cardinality(Replacing') + lost' >= Size
    <2>1. /\ mover' = mover /\ list' = list /\ lost' = lost
          /\ \A q \in Requests \ {r} : request'[q] = request[q]
      BY <1>0, <1>2 DEF Claim, Answer, Overrun, Broken, Return, Retire, Spawn, Goes
    <2>2. r \in Replacing => r \in Replacing'
      <3>1. CASE Retire(r) \/ Spawn(r)
        <4>1. request'[r].pc \in {"replacing again", "opening", "opening again"}
          <5>1. CASE Retire(r)
            BY <1>0, <5>1 DEF Retire
          <5>2. CASE Spawn(r)
            <6>1. PICK pc \in {"opening", "opening again"} :
                    request' = [request EXCEPT ![r] = [pc |-> pc, worker |-> New]]
              BY <5>2 DEF Spawn
            <6> QED
              BY <1>0, <6>1
          <5> QED
            BY <3>1, <5>1, <5>2
        <4> QED
          BY <4>1 DEF Replacing
      <3>2. CASE ~(Retire(r) \/ Spawn(r))
        BY <1>2, <3>2 DEF Claim, Answer, Overrun, Broken, Return, At, Replacing
      <3> QED
        BY <3>1, <3>2
    <2> QED
      BY <1>1, <2>1, <2>2
  <1>3. ASSUME NEW r \in Requests, DropKilled(r) \/ DropStale(r)
        PROVE  Cardinality(list') + Cardinality(Replacing') + lost' >= Size
    <2>1. /\ mover' = mover /\ list' = list \ {request[r].worker} /\ lost' = lost
          /\ \A q \in Requests \ {r} : request'[q] = request[q]
      BY <1>0, <1>3 DEF DropKilled, DropStale, Goes
    <2>2. r \in Replacing'
      <3>1. CASE DropKilled(r)
        <4>1. request'[r].pc \in {"replacing", "replacing again"}
          <5>1. request[r] \in Request
            BY <1>0
          <5> QED
            BY <1>0, <3>1, <5>1 DEF DropKilled, Request
        <4> QED
          BY <4>1 DEF Replacing
      <3>2. CASE DropStale(r)
        <4>1. request'[r].pc = "retiring"
          BY <1>0, <3>2 DEF DropStale, Goes, Request
        <4> QED
          BY <4>1 DEF Replacing
      <3> QED
        BY <1>3, <3>1, <3>2
    <2>3. request[r].worker \in list => r \notin Replacing
      BY <1>0, <1>3, HandsAreTyped
        DEF DropKilled, DropStale, At, Replacing, HoldsWell, Querying, Opening
    <2> QED
      BY <1>1, <2>1, <2>2, <2>3
  <1>4. ASSUME NEW r \in Requests, Append(r)
        PROVE  Cardinality(list') + Cardinality(Replacing') + lost' >= Size
    <2>1. /\ mover' = mover /\ lost' = lost /\ list' = list \cup {request[r].worker}
          /\ \A q \in Requests \ {r} : request'[q] = request[q]
      BY <1>0, <1>4 DEF Append
    <2>2. r \in Replacing /\ request[r].worker \in Ids \ list
      BY <1>4, HandsAreTyped DEF Append, Replacing, HoldsWell, Opening
    <2> QED
      BY <1>1, <2>1, <2>2
  <1>5. ASSUME NEW r \in Requests, SpawnFails(r)
        PROVE  Cardinality(list') + Cardinality(Replacing') + lost' >= Size
    <2>1. /\ mover' = mover /\ list' = list /\ r \in Replacing
          /\ \A q \in Requests \ {r} : request'[q] = request[q]
      BY <1>0, <1>5 DEF SpawnFails, Replacing
    <2>2. lost' = lost + 1 \/ (lost' = lost /\ r \in Replacing')
      <3>1. \/ lost' = lost + 1
            \/ lost' = lost /\ request' = [request EXCEPT ![r] = [pc |-> "failed", worker |-> Nobody]]
        BY <1>5 DEF SpawnFails
      <3> QED
        <4>1. CASE request' = [request EXCEPT ![r] = [pc |-> "failed", worker |-> Nobody]]
          <5>1. request'[r].pc = "failed"
            BY <1>0, <4>1
          <5> QED
            BY <3>1, <5>1 DEF Replacing
        <4> QED
          BY <3>1, <4>1
    <2> QED
      BY <1>1, <2>1, <2>2
  <1>6. CASE Repoint \/ RetireIdle \/ StartFilling \/ FillOne \/ FillOpened
    <2>1. mover'.pc # "watching"
      <3>1. mover \in Mover
        BY MoverIsTyped
      <3>2. CASE Repoint \/ RetireIdle
        BY <3>1, <3>2 DEF Repoint, RetireIdle, Mover
      <3>3. CASE StartFilling \/ FillOne \/ FillOpened
        BY <3>1, <3>3 DEF StartFilling, FillOne, FillOpened, Mover
      <3> QED
        BY <1>6, <3>2, <3>3
    <2> QED
      BY <2>1
  <1>7. CASE Filled
    BY <1>0, <1>7, ReplacingIsFinite DEF Filled
  <1>8. CASE FillFails
    BY <1>0, <1>8, ReplacingIsFinite, ShortIsTyped DEF FillFails
  <1>9. CASE (\E w \in Ids : WorkerDies(w)) \/ (\E r \in Requests : Refuse(r)) \/ UNCHANGED vars
    <2>1. UNCHANGED <<list, request, mover, lost>>
      BY <1>9 DEF WorkerDies, Refuse, vars
    <2>2. Replacing' = Replacing
      BY <2>1 DEF Replacing
    <2> QED
      BY <2>1, <2>2 DEF CapacityIsAccountedFor
  <1> QED
    BY <1>2, <1>3, <1>4, <1>5, <1>6, <1>7, <1>8, <1>9 DEF Next, Release, Replace, Move

----------------------------------------------------------------------------
LEMMA AlwaysAccounted == Spec => []Accounted
  <1>1. Init => Accounted
    BY AccountedInit
  <1>2. Accounted /\ [Next]_vars => Accounted'
    BY HandsStep, CapacityStep DEF Accounted
  <1> QED
    BY <1>1, <1>2, PTL DEF Spec

(***************************************************************************)
(* Whatever is killed, repointed, replaced or fails to start around it, a  *)
(* worker under a query is that query's alone, every process has someone   *)
(* to tell it to go, and no place of the pool is lost sight of.            *)
(***************************************************************************)
THEOREM NothingIsLost == Spec => []PoolIsAccountedFor
  <1>1. Accounted => PoolIsAccountedFor
    <2> SUFFICES ASSUME Accounted PROVE PoolIsAccountedFor
      OBVIOUS
    <2>1. ASSUME NEW r \in Requests, request[r].pc \in {"asking", "answered"}
          PROVE  LET w == request[r].worker IN
                   /\ w \in list /\ worker[w].busy /\ worker[w].state \in {"up", "dead"}
                   /\ \A q \in Requests \ {r} : request[q].worker # w
      BY <2>1, HandsAreTyped DEF Accounted, HoldsWell, Querying, OnlyIn, InListWell
    <2>2. QueriesKeepTheirWorkers
      BY <2>1 DEF QueriesKeepTheirWorkers
    <2> QED
      BY <2>2 DEF Accounted, Hands, PoolIsAccountedFor
  <1> QED
    BY <1>1, AlwaysAccounted, PTL

(***************************************************************************)
(* No query starts on a worker that was in the pool when the pool moved:   *)
(* one of an older generation is claimed only if it was started before the *)
(* last move and joined the list after it.                                 *)
(***************************************************************************)
THEOREM OlderWorkersAreNotClaimed == Spec => OlderWorkersAreFinished
  <1> DEFINE Joined(r) == LET w == worker[request'[r].worker] IN w.gen # path => w.listed = path
  <1>1. ASSUME Accounted, NEW r \in Requests, Claim(r)
        PROVE  Joined(r)
    <2>1. PICK w \in list :
            ~worker[w].busy /\ request' = [request EXCEPT ![r] = [pc |-> "asking", worker |-> w]]
      BY <1>1 DEF Claim
    <2>2. request'[r].worker = w /\ InListWell(w)
      BY <1>1, <2>1 DEF Accounted, Hands, TypeOK, ListIsUp
    <2> QED
      BY <2>1, <2>2 DEF InListWell
  <1>2. Accounted /\ [Next]_vars => [\A r \in Requests : Claim(r) => Joined(r)]_vars
    BY <1>1
  <1> QED
    BY <1>2, AlwaysAccounted, PTL DEF Spec, OlderWorkersAreFinished
=============================================================================
