-------------------------- MODULE PolitenessProofs --------------------------
(***************************************************************************)
(* Proofs about Politeness, for any network of urls and hosts, any number  *)
(* of tasks and any gap, cap and hop bound: what each server sees is       *)
(* PoliteHosts, and a task that was told to stay away does.                *)
(***************************************************************************)
EXTENDS Politeness, TLAPS

Home(t) == HostOf[Asks[t]]

(***************************************************************************)
(* Whoever pauses or asks holds the host, so nobody else stamps a release  *)
(* there; what it still sleeps covers the gap as long as it does, because  *)
(* both count down together.                                               *)
(***************************************************************************)
PausersHold ==
  \A t \in Tasks :
    /\ task[t].pc \in {"pausing", "asking"} => holder[Host(t)] = t
    /\ task[t].pc = "pausing" => owed[Host(t)] <= task[t].sleep

GapIsOwed == \A h \in Hosts : gap[h] = owed[h]

(***************************************************************************)
(* What a task was told is on record at its own host, or about to be, and  *)
(* is covered by the sleep of a hop to that host.                          *)
(***************************************************************************)
ToldIsOnRecord ==
  \A t \in Tasks :
    /\ task[t].pc # "noting" => told[t] <= notBefore[Home(t)]
    /\ task[t].pc = "noting" => told[t] <= Later(notBefore[Home(t)], task[t].delay)
    /\ task[t].pc = "pausing" /\ Host(t) = Home(t) => told[t] <= task[t].sleep

Polite == TypeOK /\ PausersHold /\ GapIsOwed /\ ToldIsOnRecord

----------------------------------------------------------------------------
LEMMA HostsOfTasks ==
  ASSUME TypeOK, NEW t \in Tasks
  PROVE  Host(t) \in Hosts /\ Home(t) \in Hosts
  BY NetworkAssumption DEF TypeOK, Walking, Host, Home

LEMMA RestingType ==
  ASSUME NEW t \in Tasks
  PROVE  Resting(t) \in Walking
  BY NetworkAssumption DEF Resting, Walking

LEMMA LessIsMonotone ==
  ASSUME NEW m \in Nat, NEW n \in Nat, m <= n
  PROVE  Less(m) \in Nat /\ Less(n) \in Nat /\ Less(m) <= Less(n) /\ Less(m) <= m
  BY DEF Less

LEMMA PoliteInit == Init => Polite
  <1> SUFFICES ASSUME Init PROVE Polite
    OBVIOUS
  <1>1. \A t \in Tasks : task[t] = Resting(t) /\ Resting(t).pc = "idle"
    BY DEF Init, Resting
  <1>2. TypeOK
    BY RestingType, NetworkAssumption DEF Init, TypeOK
  <1>3. PausersHold /\ GapIsOwed
    BY <1>1 DEF Init, PausersHold, GapIsOwed
  <1>4. ToldIsOnRecord
    BY <1>1, <1>2, HostsOfTasks DEF Init, ToldIsOnRecord
  <1> QED
    BY <1>2, <1>3, <1>4 DEF Polite

(***************************************************************************)
(* The end of a request: no other task holds the host that is stamped.     *)
(***************************************************************************)
LEMMA ReleaseKeeps ==
  ASSUME Polite, NEW t \in Tasks, task[t].pc = "asking", DropGuard(t),
         NEW r \in Walking, r.pc \notin {"pausing", "asking"},
         task' = [task EXCEPT ![t] = r]
  PROVE  /\ PausersHold' /\ GapIsOwed'
         /\ holder' \in [Hosts -> Tasks \cup {Nobody}]
         /\ gap' \in [Hosts -> 0..MinGap] /\ owed' \in [Hosts -> 0..MinGap]
         /\ task' \in [Tasks -> Walking]
  <1> USE DEF Polite, TypeOK, DropGuard
  <1>1. Host(t) \in Hosts
    BY HostsOfTasks
  <1>2. MinGap \in 0..MinGap
    BY NetworkAssumption
  <1>3. holder[Host(t)] = t
    BY DEF PausersHold
  <1>4. PausersHold'
    <2> SUFFICES ASSUME NEW u \in Tasks, (task[u].pc \in {"pausing", "asking"})'
                 PROVE  /\ (holder[Host(u)] = u)'
                        /\ (task[u].pc = "pausing" => owed[Host(u)] <= task[u].sleep)'
      BY DEF PausersHold
    <2>1. u # t /\ task'[u] = task[u] /\ Host(u)' = Host(u)
      BY DEF Host
    <2>2. holder[Host(u)] = u /\ Host(u) # Host(t) /\ Host(u) \in Hosts
      BY <1>3, <2>1, HostsOfTasks DEF PausersHold
    <2> QED
      BY <1>1, <2>1, <2>2 DEF PausersHold
  <1> QED
    BY <1>1, <1>2, <1>4 DEF GapIsOwed

\* A step that stamps no host and lets nobody pause or ask.
LEMMA QuietKeeps ==
  ASSUME Polite, NEW t \in Tasks, NEW r \in Walking, r.pc \notin {"pausing", "asking"},
         task' = [task EXCEPT ![t] = r], UNCHANGED <<gap, owed>>,
         \/ UNCHANGED holder
         \/ /\ holder[Host(t)] = t
            /\ holder' = [holder EXCEPT ![Host(t)] = Nobody]
  PROVE  /\ PausersHold' /\ GapIsOwed'
         /\ holder' \in [Hosts -> Tasks \cup {Nobody}]
         /\ gap' \in [Hosts -> 0..MinGap] /\ owed' \in [Hosts -> 0..MinGap]
         /\ task' \in [Tasks -> Walking]
  <1> USE DEF Polite, TypeOK
  <1>1. PausersHold'
    <2> SUFFICES ASSUME NEW u \in Tasks, (task[u].pc \in {"pausing", "asking"})'
                 PROVE  /\ (holder[Host(u)] = u)'
                        /\ (task[u].pc = "pausing" => owed[Host(u)] <= task[u].sleep)'
      BY DEF PausersHold
    <2>1. u # t /\ task'[u] = task[u] /\ Host(u)' = Host(u)
      BY DEF Host
    <2>2. holder[Host(u)] = u /\ Host(u) \in Hosts
      BY <2>1, HostsOfTasks DEF PausersHold
    <2> QED
      BY <2>1, <2>2, HostsOfTasks DEF PausersHold
  <1> QED
    BY <1>1, HostsOfTasks DEF GapIsOwed

\* Its record at rest or queueing again, a task pauses on nothing.
LEMMA ToldKeeps ==
  ASSUME Polite, NEW t \in Tasks, NEW r \in Walking, r.pc \in {"idle", "queueing"},
         task[t].pc # "noting",
         task' = [task EXCEPT ![t] = r], UNCHANGED <<notBefore, told>>
  PROVE  ToldIsOnRecord'
  BY DEF Polite, TypeOK, ToldIsOnRecord, Home, Host

LEMMA TakeKeeps == ASSUME Polite, NEW t \in Tasks, Take(t) PROVE Polite'
  <1> USE DEF Polite, TypeOK
  <1> DEFINE h == Host(t)
             pause == Later(gap[h], notBefore[h])
             r == [task[t] EXCEPT !.pc = "pausing", !.sleep = pause]
  <1>1. h \in Hosts
    BY HostsOfTasks
  <1>2. pause \in Nat /\ gap[h] <= pause /\ notBefore[h] <= pause
    BY <1>1, NetworkAssumption DEF Later
  <1>3. /\ task[t].pc = "queueing" /\ holder[h] = Nobody
        /\ holder' = [holder EXCEPT ![h] = t]
        /\ task' = [task EXCEPT ![t] = r]
        /\ UNCHANGED <<gap, notBefore, owed, told>>
    BY DEF Take
  <1> HIDE DEF pause
  <1>4. r \in Walking /\ r.pc = "pausing" /\ r.sleep = pause /\ r.url = task[t].url
    BY <1>2 DEF Walking
  <1> HIDE DEF r
  <1>5. TypeOK'
    BY <1>1, <1>3, <1>4
  <1>6. \A u \in Tasks : /\ Host(u)' = Host(u)
                         /\ u # t => task'[u] = task[u]
    BY <1>3, <1>4 DEF Host
  <1>7. \A u \in Tasks : u # t /\ task[u].pc \in {"pausing", "asking"} => Host(u) # h
    BY <1>3, NetworkAssumption DEF PausersHold
  <1> HIDE DEF h
  <1>8. PausersHold'
    <2>1. (holder[Host(t)] = t)' /\ (owed[Host(t)] <= task[t].sleep)'
      BY <1>1, <1>2, <1>3, <1>4, <1>6 DEF GapIsOwed, h
    <2>2. ASSUME NEW u \in Tasks, u # t, (task[u].pc \in {"pausing", "asking"})'
          PROVE  /\ (holder[Host(u)] = u)'
                 /\ (task[u].pc = "pausing" => owed[Host(u)] <= task[u].sleep)'
      BY <1>1, <1>3, <1>6, <1>7, <2>2, HostsOfTasks DEF PausersHold
    <2> QED
      BY <2>1, <2>2 DEF PausersHold
  <1>9. ToldIsOnRecord'
    <2>1. told[t] <= notBefore[Home(t)]
      BY <1>3 DEF ToldIsOnRecord
    <2>2. Host(t) = Home(t) => told[t] <= pause
      BY <1>1, <1>2, <2>1 DEF h
    <2> QED
      BY <1>3, <1>4, <1>6, <2>1, <2>2 DEF ToldIsOnRecord, Home
  <1> QED
    BY <1>3, <1>5, <1>8, <1>9 DEF GapIsOwed

LEMMA NoteKeeps == ASSUME Polite, NEW t \in Tasks, Note(t) PROVE Polite'
  <1> USE DEF Polite, TypeOK
  <1> DEFINE r == IF Retries(t) THEN [Resting(t) EXCEPT !.pc = "queueing", !.retry = TRUE]
                                ELSE Resting(t)
  <1>1. r \in Walking /\ r.pc \in {"idle", "queueing"}
    BY RestingType DEF Resting, Walking
  <1>2. task' = [task EXCEPT ![t] = r]
    BY DEF Note
  <1> HIDE DEF r
  <1>3. \A u \in Tasks : Home(u) \in Hosts /\ Host(u) \in Hosts
    BY HostsOfTasks
  <1>4. /\ notBefore' \in [Hosts -> Nat]
        /\ \A h \in Hosts : notBefore[h] <= notBefore'[h]
        /\ told[t] <= notBefore'[Home(t)]
    BY <1>3 DEF Note, StandDown, Later, Walking, ToldIsOnRecord, Home
  <1>5. \A u \in Tasks : u # t => task'[u] = task[u] /\ Host(u)' = Host(u)
    BY <1>2 DEF Host
  <1>6. ToldIsOnRecord'
    <2>1. \A u \in Tasks : told'[u] = told[u] /\ told[u] \in Nat
      BY DEF Note
    <2>2. \A u \in Tasks : u # t => task[u].delay \in Nat
      BY DEF Walking
    <2> QED
      BY <1>1, <1>2, <1>3, <1>4, <1>5, <2>1, <2>2 DEF ToldIsOnRecord, Home, Later
  <1> QED
    BY <1>1, <1>2, <1>4, <1>6, QuietKeeps DEF Note

LEMMA ThrottleKeeps == ASSUME Polite, NEW t \in Tasks, Throttle(t) PROVE Polite'
  <1> USE DEF Polite, TypeOK
  <1>1. PICK d \in Delays :
           /\ task[t].pc = "asking" /\ DropGuard(t)
           /\ task' = [task EXCEPT ![t].pc = "noting", ![t].delay = d]
           /\ told' = [told EXCEPT ![t] = IF Host(t) = Home(t) THEN Later(@, d) ELSE @]
           /\ UNCHANGED notBefore
    BY DEF Throttle, Home
  <1> DEFINE r == [task[t] EXCEPT !.pc = "noting", !.delay = d]
  <1>2. d \in Nat /\ r \in Walking /\ r.pc = "noting" /\ r.delay = d
    BY NetworkAssumption DEF Walking
  <1>3. task' = [task EXCEPT ![t] = r]
    BY <1>1
  <1> HIDE DEF r
  <1>4. told' \in [Tasks -> Nat]
    BY <1>1, <1>2 DEF Later
  <1>5. ToldIsOnRecord'
    <2>1. told'[t] <= Later(notBefore[Home(t)], d)
      BY <1>1, <1>2, HostsOfTasks DEF Later, ToldIsOnRecord
    <2>2. \A u \in Tasks : u # t => task'[u] = task[u] /\ told'[u] = told[u]
      BY <1>1, <1>3
    <2>3. notBefore' = notBefore
      BY <1>1
    <2> QED
      BY <1>2, <1>3, <2>1, <2>2, <2>3 DEF ToldIsOnRecord, Home, Host
  <1> QED
    BY <1>1, <1>2, <1>3, <1>4, <1>5, ReleaseKeeps

LEMMA TickKeeps == ASSUME Polite, Tick PROVE Polite'
  <1> USE DEF Polite, TypeOK
  <1>1. /\ \A n \in Nat : Less(n) \in Nat /\ Less(n) <= n
        /\ \A m, n \in Nat : m <= n => Less(m) <= Less(n)
    BY LessIsMonotone
  <1>2. \A t \in Tasks :
          /\ task[t].sleep \in Nat /\ task[t].delay \in Nat
          /\ task'[t] \in Walking /\ task'[t].pc = task[t].pc /\ task'[t].delay = task[t].delay
          /\ task'[t].sleep = Less(task[t].sleep)
          /\ Host(t)' = Host(t) /\ Host(t) \in Hosts /\ Home(t) \in Hosts
    BY <1>1, HostsOfTasks DEF Tick, Walking, Host
  <1>3. \A n \in 0..MinGap : Less(n) \in 0..MinGap
    BY NetworkAssumption DEF Less
  <1>4. TypeOK'
    BY <1>1, <1>2, <1>3 DEF Tick
  <1>5. PausersHold' /\ GapIsOwed'
    <2>1. \A h \in Hosts : /\ owed[h] \in Nat /\ gap[h] \in Nat
                           /\ owed'[h] = Less(owed[h]) /\ gap'[h] = Less(gap[h])
      BY NetworkAssumption DEF Tick
    <2>2. holder' = holder
      BY DEF Tick
    <2>3. PausersHold'
      BY <1>1, <1>2, <2>1, <2>2 DEF PausersHold
    <2> QED
      BY <2>1, <2>3 DEF GapIsOwed
  <1>6. ToldIsOnRecord'
    <2>1. \A a, b, c \in Nat : a <= Later(b, c) => Less(a) <= Later(Less(b), c)
      BY DEF Less, Later
    <2>2. /\ \A t \in Tasks : told[t] \in Nat /\ told'[t] = Less(told[t])
          /\ \A h \in Hosts : notBefore[h] \in Nat /\ notBefore'[h] = Less(notBefore[h])
      BY DEF Tick
    <2> SUFFICES ASSUME NEW t \in Tasks
                 PROVE  /\ (task[t].pc # "noting" => told[t] <= notBefore[Home(t)])'
                        /\ (task[t].pc = "noting"
                              => told[t] <= Later(notBefore[Home(t)], task[t].delay))'
                        /\ (task[t].pc = "pausing" /\ Host(t) = Home(t)
                              => told[t] <= task[t].sleep)'
      BY DEF ToldIsOnRecord
    <2>3. /\ told'[t] = Less(told[t]) /\ told[t] \in Nat
          /\ notBefore'[Home(t)] = Less(notBefore[Home(t)]) /\ notBefore[Home(t)] \in Nat
      BY <1>2, <2>2
    <2>4. CASE task[t].pc = "noting"
      BY <1>2, <2>1, <2>3, <2>4 DEF ToldIsOnRecord, Home
    <2>5. CASE task[t].pc # "noting"
      BY <1>1, <1>2, <2>3, <2>5 DEF ToldIsOnRecord, Home
    <2> QED
      BY <2>4, <2>5
  <1> QED
    BY <1>4, <1>5, <1>6

LEMMA PoliteStep == Polite /\ [Next]_vars => Polite'
  <1> SUFFICES ASSUME Polite, [Next]_vars PROVE Polite'
    OBVIOUS
  <1> USE DEF Polite, TypeOK
  <1>1. ASSUME NEW t \in Tasks, Probe(t) PROVE Polite'
    <2> DEFINE r == [task[t] EXCEPT !.pc = "queueing"]
    <2>1. r \in Walking /\ r.pc = "queueing"
      BY DEF Walking
    <2>2. /\ task[t].pc = "idle" /\ task' = [task EXCEPT ![t] = r]
          /\ UNCHANGED <<holder, gap, owed>> /\ UNCHANGED <<notBefore, told>>
      BY <1>1 DEF Probe
    <2> HIDE DEF r
    <2> QED
      BY <2>1, <2>2, QuietKeeps, ToldKeeps
  <1>2. ASSUME NEW t \in Tasks, Send(t) PROVE Polite'
    <2> DEFINE r == [task[t] EXCEPT !.pc = "asking"]
    <2>1. r \in Walking /\ r.pc = "asking" /\ r.url = task[t].url
      BY DEF Walking
    <2>2. /\ task[t].pc = "pausing" /\ task' = [task EXCEPT ![t] = r]
          /\ UNCHANGED <<holder, gap, notBefore, owed, told>>
      BY <1>2 DEF Send
    <2> HIDE DEF r
    <2>3. \A u \in Tasks : Host(u)' = Host(u) /\ (u # t => task'[u] = task[u])
      BY <2>1, <2>2 DEF Host
    <2>4. TypeOK' /\ GapIsOwed'
      BY <2>1, <2>2 DEF GapIsOwed
    <2>5. PausersHold'
      BY <2>1, <2>2, <2>3 DEF PausersHold
    <2>6. ToldIsOnRecord'
      BY <2>1, <2>2, <2>3 DEF ToldIsOnRecord, Home
    <2> QED
      BY <2>4, <2>5, <2>6
  <1>3. ASSUME NEW t \in Tasks, Answer(t) PROVE Polite'
    <2>1. Resting(t) \in Walking /\ Resting(t).pc = "idle"
      BY RestingType DEF Resting
    <2> QED
      BY <1>3, <2>1, ReleaseKeeps, ToldKeeps DEF Answer
  <1>4. ASSUME NEW t \in Tasks, Follow(t) PROVE Polite'
    <2>1. PICK u \in Urls :
             task' = [task EXCEPT ![t].pc = "queueing", ![t].url = u, ![t].seen = @ \cup {u}]
      BY <1>4 DEF Follow
    <2> DEFINE r == [task[t] EXCEPT !.pc = "queueing", !.url = u, !.seen = @ \cup {u}]
    <2>2. r \in Walking /\ r.pc = "queueing"
      BY DEF Walking
    <2>3. task' = [task EXCEPT ![t] = r]
      BY <2>1
    <2> HIDE DEF r
    <2> QED
      BY <1>4, <2>2, <2>3, ReleaseKeeps, ToldKeeps DEF Follow
  <1>5. ASSUME NEW t \in Tasks, Cancel(t) PROVE Polite'
    <2>1. Resting(t) \in Walking /\ Resting(t).pc = "idle"
      BY RestingType DEF Resting
    <2>2. /\ task' = [task EXCEPT ![t] = Resting(t)] /\ UNCHANGED <<notBefore, told>>
          /\ task[t].pc # "noting"
      BY <1>5 DEF Cancel
    <2>3. ToldIsOnRecord'
      BY <2>1, <2>2, ToldKeeps
    <2>4. CASE task[t].pc = "asking"
      BY <1>5, <2>1, <2>2, <2>3, <2>4, ReleaseKeeps DEF Cancel
    <2>5. CASE task[t].pc # "asking"
      BY <1>5, <2>1, <2>2, <2>3, <2>5, QuietKeeps DEF Cancel, PausersHold
    <2> QED
      BY <2>4, <2>5
  <1>6. CASE UNCHANGED vars
    BY <1>6 DEF vars, PausersHold, GapIsOwed, ToldIsOnRecord, Host, Home
  <1> QED
    BY <1>1, <1>2, <1>3, <1>4, <1>5, <1>6, TakeKeeps, NoteKeeps, ThrottleKeeps, TickKeeps
       DEF Next, Walk

LEMMA SpecPolite == Spec => []Polite
  BY PoliteInit, PoliteStep, PTL DEF Spec
(***************************************************************************)
(* Every variable keeps its type.                                          *)
(***************************************************************************)
THEOREM TypeCorrect == Spec => []TypeOK
  BY SpecPolite, PTL DEF Polite

(***************************************************************************)
(* A task sends its own host nothing before the instant the host named.    *)
(***************************************************************************)
THEOREM TasksHeed == Spec => ToldIsHeeded
  <1>1. ASSUME Polite, NEW t \in Tasks, Send(t), Host(t) = HostOf[Asks[t]]
        PROVE  told[t] = 0
    BY <1>1 DEF Polite, TypeOK, ToldIsOnRecord, Send, Home
  <1>2. Polite /\ [Next]_vars =>
          [\A t \in Tasks : Send(t) /\ Host(t) = HostOf[Asks[t]] => told[t] = 0]_vars
    BY <1>1
  <1> QED
    BY <1>2, SpecPolite, PTL DEF Spec, ToldIsHeeded

----------------------------------------------------------------------------
(***************************************************************************)
(* The refinement of PoliteHosts.                                          *)
(***************************************************************************)
LEMMA OutsideInit == Init => Outside!Init
  BY DEF Init, Outside!Init, Busy, Resting

\* Two requests to one host are one.
LEMMA OneInFlight ==
  ASSUME Polite, NEW t \in Tasks, NEW u \in Tasks, task[t].pc \in {"pausing", "asking"},
         task[u].pc \in {"pausing", "asking"}, Host(t) = Host(u)
  PROVE  t = u
  BY DEF Polite, PausersHold

\* A step that nobody begins or ends a request in leaves Busy as it is.
LEMMA BusyUnmoved ==
  ASSUME Polite, NEW t \in Tasks, NEW r \in Walking, task' = [task EXCEPT ![t] = r],
         task[t].pc # "asking", r.pc # "asking"
  PROVE  Busy' = Busy
  BY DEF Busy, Polite, TypeOK, Host

LEMMA EndOfRequest ==
  ASSUME Polite, NEW t \in Tasks, NEW r \in Walking, task' = [task EXCEPT ![t] = r],
         task[t].pc = "asking", r.pc # "asking", DropGuard(t)
  PROVE  Outside!Next
  <1>1. Host(t) \in Hosts /\ Host(t) \in Busy
    BY HostsOfTasks DEF Polite, Busy
  <1>2. \A u \in Tasks : u # t => task'[u] = task[u] /\ Host(u)' = Host(u)
    BY DEF Polite, TypeOK, Host
  <1>3. task'[t].pc # "asking"
    BY DEF Polite, TypeOK
  <1>4. \A u \in Tasks : u # t /\ task[u].pc = "asking" => Host(u) # Host(t)
    BY OneInFlight
  <1>5. Busy' = Busy \ {Host(t)}
    BY <1>2, <1>3, <1>4 DEF Busy
  <1>6. Outside!End(Host(t))
    BY <1>1, <1>5 DEF Outside!End, DropGuard
  <1> QED
    BY <1>1, <1>6 DEF Outside!Next

LEMMA BeginningOfRequest ==
  ASSUME Polite, NEW t \in Tasks, Send(t)
  PROVE  Outside!Next
  <1>1. task[t].pc = "pausing" /\ task[t].sleep = 0
    BY DEF Send
  <1>2. task' = [task EXCEPT ![t] = [task[t] EXCEPT !.pc = "asking"]]
    BY DEF Send
  <1>3. /\ task'[t].pc = "asking"
        /\ \A u \in Tasks : Host(u)' = Host(u) /\ (u # t => task'[u] = task[u])
    BY <1>2 DEF Polite, TypeOK, Host, Walking
  <1>4. Host(t) \in Hosts /\ Host(t) \notin Busy
    BY <1>1, HostsOfTasks, OneInFlight DEF Polite, Busy
  <1>5. Busy' = Busy \cup {Host(t)}
    BY <1>1, <1>3 DEF Busy
  <1>6. owed[Host(t)] = 0
    BY <1>1, <1>4, NetworkAssumption DEF Polite, TypeOK, PausersHold
  <1>7. Outside!Begin(Host(t))
    BY <1>4, <1>5, <1>6 DEF Outside!Begin, Send
  <1> QED
    BY <1>4, <1>7 DEF Outside!Next

LEMMA OutsideStep == Polite /\ [Next]_vars => [Outside!Next]_(Outside!vars)
  <1> SUFFICES ASSUME Polite, [Next]_vars PROVE [Outside!Next]_(Outside!vars)
    OBVIOUS
  <1>quiet. ASSUME NEW t \in Tasks, NEW r \in Walking, task' = [task EXCEPT ![t] = r],
                   task[t].pc # "asking", r.pc # "asking", UNCHANGED owed
            PROVE  UNCHANGED Outside!vars
    BY <1>quiet, BusyUnmoved DEF Outside!vars
  <1>resting. \A t \in Tasks : Resting(t) \in Walking /\ Resting(t).pc = "idle"
    BY RestingType DEF Resting
  <1>1. ASSUME NEW t \in Tasks, Probe(t) PROVE UNCHANGED Outside!vars
    <2>1. [task[t] EXCEPT !.pc = "queueing"] \in Walking
      BY DEF Polite, TypeOK, Walking
    <2> QED
      BY <1>1, <2>1, <1>quiet DEF Probe, Walking
  <1>2. ASSUME NEW t \in Tasks, Take(t) PROVE UNCHANGED Outside!vars
    <2> DEFINE pause == Later(gap[Host(t)], notBefore[Host(t)])
    <2>1. pause \in Nat
      BY HostsOfTasks, NetworkAssumption DEF Polite, TypeOK, Later
    <2>2. task' = [task EXCEPT ![t] = [task[t] EXCEPT !.pc = "pausing", !.sleep = pause]]
      BY <1>2 DEF Take
    <2> HIDE DEF pause
    <2>3. [task[t] EXCEPT !.pc = "pausing", !.sleep = pause] \in Walking
      BY <2>1 DEF Polite, TypeOK, Walking
    <2> QED
      BY <1>2, <2>2, <2>3, <1>quiet DEF Take, Walking
  <1>3. ASSUME NEW t \in Tasks, Answer(t) PROVE Outside!Next
    BY <1>3, <1>resting, EndOfRequest DEF Answer
  <1>4. ASSUME NEW t \in Tasks, Follow(t) PROVE Outside!Next
    <2>1. PICK u \in Urls :
             task' = [task EXCEPT ![t].pc = "queueing", ![t].url = u, ![t].seen = @ \cup {u}]
      BY <1>4 DEF Follow
    <2> DEFINE r == [task[t] EXCEPT !.pc = "queueing", !.url = u, !.seen = @ \cup {u}]
    <2>2. r \in Walking /\ r.pc = "queueing" /\ task' = [task EXCEPT ![t] = r]
      BY <2>1 DEF Polite, TypeOK, Walking
    <2> HIDE DEF r
    <2> QED
      BY <1>4, <2>2, EndOfRequest DEF Follow
  <1>5. ASSUME NEW t \in Tasks, Throttle(t) PROVE Outside!Next
    <2>1. PICK d \in Delays : task' = [task EXCEPT ![t].pc = "noting", ![t].delay = d]
      BY <1>5 DEF Throttle
    <2> DEFINE r == [task[t] EXCEPT !.pc = "noting", !.delay = d]
    <2>2. r \in Walking /\ r.pc = "noting" /\ task' = [task EXCEPT ![t] = r]
      BY <2>1, NetworkAssumption DEF Polite, TypeOK, Walking
    <2> HIDE DEF r
    <2> QED
      BY <1>5, <2>2, EndOfRequest DEF Throttle
  <1>6. ASSUME NEW t \in Tasks, Note(t) PROVE UNCHANGED Outside!vars
    <2> DEFINE r == IF Retries(t) THEN [Resting(t) EXCEPT !.pc = "queueing", !.retry = TRUE]
                                  ELSE Resting(t)
    <2>1. r \in Walking /\ r.pc # "asking"
      BY <1>resting DEF Walking
    <2>2. task' = [task EXCEPT ![t] = r] /\ task[t].pc # "asking" /\ UNCHANGED owed
      BY <1>6 DEF Note
    <2> HIDE DEF r
    <2> QED
      BY <2>1, <2>2, <1>quiet
  <1>7. ASSUME NEW t \in Tasks, Cancel(t) PROVE [Outside!Next]_(Outside!vars)
    <2>1. task' = [task EXCEPT ![t] = Resting(t)]
      BY <1>7 DEF Cancel
    <2>2. CASE task[t].pc = "asking"
      BY <1>7, <2>1, <2>2, <1>resting, EndOfRequest DEF Cancel
    <2>3. CASE task[t].pc # "asking"
      BY <1>7, <2>1, <2>3, <1>resting, <1>quiet DEF Cancel
    <2> QED
      BY <2>2, <2>3
  <1>8. CASE Tick
    <2>1. \A t \in Tasks : task'[t].pc = task[t].pc /\ Host(t)' = Host(t)
      BY <1>8 DEF Tick, Polite, TypeOK, Walking, Host
    <2>2. Busy' = Busy
      BY <2>1 DEF Busy
    <2> QED
      BY <1>8, <2>2 DEF Tick, Less, Outside!Tick, Outside!Next
  <1>9. CASE UNCHANGED vars
    BY <1>9 DEF vars, Outside!vars, Busy, Host
  <1> QED
    BY <1>1, <1>2, <1>3, <1>4, <1>5, <1>6, <1>7, <1>8, <1>9, BeginningOfRequest
       DEF Next, Walk

(***************************************************************************)
(* Every host sees one request at a time and the whole gap between them,   *)
(* under every interleaving of walks, retries and cancellations.           *)
(***************************************************************************)
THEOREM HostsSeePoliteness == Spec => HostsAreTreatedPolitely
  BY OutsideInit, OutsideStep, SpecPolite, PTL
     DEF Spec, HostsAreTreatedPolitely, Outside!Spec
=============================================================================
