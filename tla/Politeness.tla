----------------------------- MODULE Politeness -----------------------------
(***************************************************************************)
(* The per-host gate of prober/src/politeness.rs and the walks of          *)
(* prober/src/client.rs that pass through it: each task of the sweep asks  *)
(* the endpoints of one host one request after another, a redirect takes   *)
(* it to hosts other tasks are asking, a throttle stands a host down, and  *)
(* a metric or endpoint budget may cancel the walk wherever it awaits.     *)
(*                                                                         *)
(* A host's requests in flight are the probes' own; what a server does     *)
(* after it was cancelled is not ours to see.                              *)
(*                                                                         *)
(* Time is relative: every variable that holds an instant in the code      *)
(* holds here what is left until it, and Tick counts them all down.        *)
(***************************************************************************)
EXTENDS Integers, FiniteSets

CONSTANTS
  Urls,      \* what a probe may ask, redirect targets included
  Hosts,     \* the keys of host_key
  HostOf,    \* HostOf[u]: the key of a url
  Tasks,     \* the tasks of the sweep, one per host key of the registry
  Asks,      \* Asks[t]: the endpoint the task asks
  MinGap,    \* min_gap
  Cap,       \* retry_after_cap
  Delays,    \* the Retry-After values a server may send
  MaxHops,   \* MAX_REDIRECT_HOPS
  Nobody     \* no task holds the host

ASSUME NetworkAssumption ==
  /\ HostOf \in [Urls -> Hosts]
  /\ Asks \in [Tasks -> Urls]
  /\ MinGap \in Nat /\ Cap \in Nat /\ MaxHops \in Nat
  /\ Delays \subseteq Nat
  /\ Nobody \notin Tasks

VARIABLES
  holder,      \* Host.serialiser: who holds it
  gap,         \* its Instant: what is left of the gap since the release
  notBefore,   \* Host.not_before
  task,        \* where each task's current probe stands
  owed,        \* history: the pause each host is owed since its last request
  told         \* history: how long each task's host asked it to stay away

vars == <<holder, gap, notBefore, task, owed, told>>

Later(a, b) == IF a < b THEN b ELSE a

(***************************************************************************)
(* A walk: the url of the hop under way, the urls of the walk (gated_chain *)
(* follows no url twice, so their number is one more than the hops), what  *)
(* is left of the sleep in acquire, the delay to be noted, and whether     *)
(* this is the one retry.                                                  *)
(***************************************************************************)
Resting(t) == [pc |-> "idle", url |-> Asks[t], seen |-> {Asks[t]}, sleep |-> 0,
               delay |-> 0, retry |-> FALSE]

Host(t) == HostOf[task[t].url]

Init ==
  /\ holder = [h \in Hosts |-> Nobody]
  /\ gap = [h \in Hosts |-> 0]
  /\ notBefore = [h \in Hosts |-> 0]
  /\ task = [t \in Tasks |-> Resting(t)]
  /\ owed = [h \in Hosts |-> 0]
  /\ told = [t \in Tasks |-> 0]

----------------------------------------------------------------------------
\* honouring_retry_after calls gated_chain, whose first hop queues in acquire.
Probe(t) ==
  /\ task[t].pc = "idle"
  /\ task' = [task EXCEPT ![t].pc = "queueing"]
  /\ UNCHANGED <<holder, gap, notBefore, owed, told>>

(***************************************************************************)
(* acquire, once lock_owned is through: the stand-down is read now, and    *)
(* what is slept is the longer of the two pauses, with the host held.      *)
(***************************************************************************)
Take(t) ==
  /\ task[t].pc = "queueing"
  /\ holder[Host(t)] = Nobody
  /\ holder' = [holder EXCEPT ![Host(t)] = t]
  /\ task' = [task EXCEPT ![t].pc = "pausing",
                          ![t].sleep = Later(gap[Host(t)], notBefore[Host(t)])]
  /\ UNCHANGED <<gap, notBefore, owed, told>>

\* The hop's one request goes out.
Send(t) ==
  /\ task[t].pc = "pausing"
  /\ task[t].sleep = 0
  /\ task' = [task EXCEPT ![t].pc = "asking"]
  /\ UNCHANGED <<holder, gap, notBefore, owed, told>>

\* HostGuard::drop: the release is stamped, whether the request was answered,
\* ran out of time or was cancelled.
DropGuard(t) ==
  /\ holder' = [holder EXCEPT ![Host(t)] = Nobody]
  /\ gap' = [gap EXCEPT ![Host(t)] = MinGap]
  /\ owed' = [owed EXCEPT ![Host(t)] = MinGap]

\* The walk ended with something to report and no readable Retry-After.
Answer(t) ==
  /\ task[t].pc = "asking"
  /\ DropGuard(t)
  /\ task' = [task EXCEPT ![t] = Resting(t)]
  /\ UNCHANGED <<notBefore, told>>

\* MUTANT: one acquisition covers the whole chain.
FollowHolding(t) ==
  \E u \in Urls \ task[t].seen :
    /\ task[t].pc = "asking"
    /\ task' = [task EXCEPT ![t].pc = "queueing", ![t].url = u, ![t].seen = @ \cup {u}]
    /\ UNCHANGED <<holder, gap, notBefore, owed, told>>

(***************************************************************************)
(* gated_chain: a 3xx to a url this walk has not seen, while hops are      *)
(* left, is followed on an acquisition of its own.  A loop, a hop too many *)
(* or no usable Location ends the walk as Answer does.                     *)
(***************************************************************************)
Follow(t) ==
  \E u \in Urls \ task[t].seen :
    /\ task[t].pc = "asking"
    /\ Cardinality(task[t].seen) <= MaxHops
    /\ DropGuard(t)
    /\ task' = [task EXCEPT ![t].pc = "queueing", ![t].url = u, ![t].seen = @ \cup {u}]
    /\ UNCHANGED <<notBefore, told>>

\* A 429 or a 503 with a Retry-After in seconds, from whichever host the walk
\* ended at.  The host is let go before anything is noted.
Throttle(t) ==
  \E d \in Delays :
    /\ task[t].pc = "asking"
    /\ DropGuard(t)
    /\ task' = [task EXCEPT ![t].pc = "noting", ![t].delay = d]
    /\ told' = [told EXCEPT ![t] = IF Host(t) = HostOf[Asks[t]] THEN Later(@, d) ELSE @]
    /\ UNCHANGED notBefore

\* Honour: one retry, if the delay is within the cap.
Retries(t) == ~task[t].retry /\ task[t].delay <= Cap

\* MUTANT: a delay too long to wait out is reported and not recorded.
NoteWithinCap(t) ==
  /\ task[t].pc = "noting"
  /\ notBefore' = [notBefore EXCEPT ![HostOf[Asks[t]]] =
       IF task[t].delay <= Cap THEN Later(@, task[t].delay) ELSE @]
  /\ task' = [task EXCEPT ![t] =
       IF Retries(t) THEN [Resting(t) EXCEPT !.pc = "queueing", !.retry = TRUE]
                     ELSE Resting(t)]
  /\ UNCHANGED <<holder, gap, owed, told>>

\* stand_down: only ever extends.
StandDown(h, d) == notBefore' = [notBefore EXCEPT ![h] = Later(@, d)]

(***************************************************************************)
(* note_throttle stands down the host of the url the walk began at; then   *)
(* the retry, or the report.  Tasks run on several threads, so others may  *)
(* act between the release in Throttle and this.                           *)
(***************************************************************************)
Note(t) ==
  /\ task[t].pc = "noting"
  /\ StandDown(HostOf[Asks[t]], task[t].delay)
  /\ task' = [task EXCEPT ![t] =
       IF Retries(t) THEN [Resting(t) EXCEPT !.pc = "queueing", !.retry = TRUE]
                     ELSE Resting(t)]
  /\ UNCHANGED <<holder, gap, owed, told>>

\* MUTANT: the release is stamped after the answer, so a cancelled one is not.
CancelUnstamped(t) ==
  /\ task[t].pc = "asking"
  /\ holder' = [holder EXCEPT ![Host(t)] = Nobody]
  /\ owed' = [owed EXCEPT ![Host(t)] = MinGap]
  /\ task' = [task EXCEPT ![t] = Resting(t)]
  /\ UNCHANGED <<gap, notBefore, told>>

(***************************************************************************)
(* A budget runs out and the future is dropped at its await: in the queue, *)
(* in the pause, where the lock is let go and nothing is stamped, or with  *)
(* the request out.                                                        *)
(***************************************************************************)
Cancel(t) ==
  /\ \/ /\ task[t].pc = "queueing"
        /\ UNCHANGED <<holder, gap, owed>>
     \/ /\ task[t].pc = "pausing"
        /\ holder' = [holder EXCEPT ![Host(t)] = Nobody]
        /\ UNCHANGED <<gap, owed>>
     \/ /\ task[t].pc = "asking"
        /\ DropGuard(t)
  /\ task' = [task EXCEPT ![t] = Resting(t)]
  /\ UNCHANGED <<notBefore, told>>

\* MUTANT: an instant already past is subtracted all the same.
LessUnchecked(n) == n - 1

\* checked_sub and saturating_duration_since: nothing is left of the past.
Less(n) == IF n > 0 THEN n - 1 ELSE 0

Tick ==
  /\ gap' = [h \in Hosts |-> Less(gap[h])]
  /\ notBefore' = [h \in Hosts |-> Less(notBefore[h])]
  /\ owed' = [h \in Hosts |-> Less(owed[h])]
  /\ told' = [t \in Tasks |-> Less(told[t])]
  /\ task' = [t \in Tasks |-> [task[t] EXCEPT !.sleep = Less(@)]]
  /\ UNCHANGED holder

Walk(t) ==
  \/ Take(t) \/ Send(t) \/ Answer(t) \/ Follow(t) \/ Throttle(t) \/ Note(t)

Next == (\E t \in Tasks : Probe(t) \/ Walk(t) \/ Cancel(t)) \/ Tick

(***************************************************************************)
(* Time passes, a request ends within its own timeout, and a walk goes on  *)
(* when it can.  The tokio mutex serves its waiters in turn: a task that   *)
(* keeps finding the host free gets it.                                    *)
(***************************************************************************)
Fairness ==
  /\ WF_vars(Tick)
  /\ \A t \in Tasks :
       /\ SF_vars(Take(t))
       /\ WF_vars(Send(t))
       /\ WF_vars(Answer(t) \/ Follow(t) \/ Throttle(t))
       /\ WF_vars(Note(t))

Spec == Init /\ [][Next]_vars /\ Fairness

----------------------------------------------------------------------------
Walking == [pc : {"idle", "queueing", "pausing", "asking", "noting"},
            url : Urls, seen : SUBSET Urls, sleep : Nat, delay : Nat, retry : BOOLEAN]

\* Types of every variable.
TypeOK ==
  /\ holder \in [Hosts -> Tasks \cup {Nobody}]
  /\ gap \in [Hosts -> 0..MinGap]
  /\ notBefore \in [Hosts -> Nat]
  /\ task \in [Tasks -> Walking]
  /\ owed \in [Hosts -> 0..MinGap]
  /\ told \in [Tasks -> Nat]

(***************************************************************************)
(* The gate's first two guarantees, whatever is redirected, retried or     *)
(* cancelled: PoliteHosts.                                                 *)
(***************************************************************************)
Busy == {Host(t) : t \in {u \in Tasks : task[u].pc = "asking"}}

Outside == INSTANCE PoliteHosts WITH busy <- Busy

HostsAreTreatedPolitely == Outside!Spec

(***************************************************************************)
(* A task whose host asked it to come back later sends that host nothing   *)
(* sooner: not its retry, nor any later probe, whatever was cancelled in   *)
(* between, and whether or not the delay was one it would wait out.        *)
(***************************************************************************)
ToldIsHeeded ==
  [][\A t \in Tasks : Send(t) /\ Host(t) = HostOf[Asks[t]] => told[t] = 0]_vars

(***************************************************************************)
(* No probe waits for ever, although no budget need ever cancel it: walks  *)
(* that redirect into each other's hosts do not deadlock.                  *)
(***************************************************************************)
EveryProbeEnds == \A t \in Tasks : task[t].pc # "idle" ~> task[t].pc = "idle"

(***************************************************************************)
(* The gate's third guarantee as its doc states it: nothing at all to a    *)
(* host before the instant it asked us to come back at, once stand_down    *)
(* has recorded one.                                                       *)
(***************************************************************************)
NothingBeforeTheStandDown ==
  [][\A t \in Tasks : Send(t) => notBefore[Host(t)] = 0]_vars

(***************************************************************************)
(* A throttle is about the server, so it is remembered on the server: once *)
(* a host's instruction is noted, that host is stood down.                 *)
(***************************************************************************)
RememberedOnTheServer ==
  [][\A t \in Tasks : Note(t) => notBefore'[Host(t)] >= task[t].delay]_vars
=============================================================================
