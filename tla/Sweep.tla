------------------------------- MODULE Sweep -------------------------------
(***************************************************************************)
(* A sweep (prober/src/lib.rs, run_sweep): one task per host asks its      *)
(* endpoints in turn under a permit and sends what it found over a bounded *)
(* channel; the collector writes each endpoint's chunk as it arrives and,  *)
(* when every sender is gone, a failed chunk for each endpoint that never  *)
(* arrived.  A task may panic; a write may fail.                           *)
(***************************************************************************)
EXTENDS Naturals, Sequences, FiniteSets, SequencesExt

CONSTANTS Endpoints,         \* plan.probe: no endpoint twice, as dedupe leaves them
          HostKey,           \* host_key of each of them
          Concurrency,       \* the permits
          ArrivalsInFlight   \* the room in the channel

ASSUME SweepAssumption ==
  /\ Endpoints \in Seq(DOMAIN HostKey) /\ IsInjective(Endpoints)
  /\ Concurrency \in Nat \ {0} /\ ArrivalsInFlight \in Nat \ {0}

VARIABLES task,      \* per host: waiting, probing, sending, returned, panicked, aborted
          sent,      \* the slots the tasks have handed over
          arrivals,  \* the channel: slots
          slots,     \* the slots whose facts have arrived
          file,      \* the chunks, in the order they were written
          collector  \* receiving, filling, done, stopped

vars == <<task, sent, arrivals, slots, file, collector>>

Slots == DOMAIN Endpoints
HostOf(slot) == HostKey[Endpoints[slot]]
Hosts == {HostOf(slot) : slot \in Slots}

\* The slots of one host, which its task takes in input order.
Group(h) == {slot \in Slots : HostOf(slot) = h}
IsFirst(slot, owed) == \A other \in owed : slot <= other

Holding == {h \in Hosts : task[h] \in {"probing", "sending"}}
Live == {h \in Hosts : task[h] = "waiting"} \cup Holding
Chunk(slot, failed) == [slot |-> slot, failed |-> failed]

Init == /\ task = [h \in Hosts |-> "waiting"] /\ sent = {}
        /\ arrivals = <<>> /\ slots = {} /\ file = <<>> /\ collector = "receiving"

(***************************************************************************)
(* A host's task.  The permit is held from Acquire until the task ends,    *)
(* however it ends; probe_one_endpoint returns within the endpoint budget. *)
(***************************************************************************)
Acquire(h) ==
  /\ task[h] = "waiting" /\ Cardinality(Holding) < Concurrency
  /\ task' = [task EXCEPT ![h] = "probing"]
  /\ UNCHANGED <<sent, arrivals, slots, file, collector>>

Probe(h) ==
  /\ task[h] = "probing" /\ task' = [task EXCEPT ![h] = "sending"]
  /\ UNCHANGED <<sent, arrivals, slots, file, collector>>

Send(h) ==
  \E slot \in Group(h) \ sent :
    /\ task[h] = "sending" /\ collector = "receiving" /\ Len(arrivals) < ArrivalsInFlight
    /\ IsFirst(slot, Group(h) \ sent)
    /\ arrivals' = Append(arrivals, slot) /\ sent' = sent \cup {slot}
    /\ task' = [task EXCEPT ![h] = IF Group(h) \subseteq sent' THEN "returned" ELSE "probing"]
    /\ UNCHANGED <<slots, file, collector>>

Panic(h) ==
  /\ task[h] = "probing" /\ task' = [task EXCEPT ![h] = "panicked"]
  /\ UNCHANGED <<sent, arrivals, slots, file, collector>>

\* A collector that stopped dropped the channel, on which a send fails, and the
\* set of tasks, which aborts them.
Abort(h) ==
  /\ collector = "stopped" /\ h \in Live /\ task' = [task EXCEPT ![h] = "aborted"]
  /\ UNCHANGED <<sent, arrivals, slots, file, collector>>

(***************************************************************************)
(* The collector.  It holds no sender of its own, so the channel ends when *)
(* the tasks have.                                                         *)
(***************************************************************************)
MayReceiveOnceJoined == Live = {}
MayReceive == TRUE

Receive ==
  /\ collector = "receiving" /\ arrivals # <<>> /\ MayReceive
  /\ arrivals' = Tail(arrivals)
  /\ slots' = slots \cup {Head(arrivals)} /\ file' = Append(file, Chunk(Head(arrivals), FALSE))
  /\ UNCHANGED <<task, sent, collector>>

DisconnectedOnceJoined == Live = {}
Disconnected == Live = {} /\ arrivals = <<>>

Disconnect ==
  /\ collector = "receiving" /\ Disconnected /\ collector' = "filling"
  /\ UNCHANGED <<task, sent, arrivals, slots, file>>

\* In input order; write_endpoint refuses an endpoint it has written.
Written == {file[i].slot : i \in DOMAIN file}
Owed == Slots \ (slots \cup Written)

Fill ==
  \E slot \in Owed :
    /\ collector = "filling" /\ IsFirst(slot, Owed) /\ file' = Append(file, Chunk(slot, TRUE))
    /\ UNCHANGED <<task, sent, arrivals, slots, collector>>

Finish ==
  /\ collector = "filling" /\ Owed = {} /\ collector' = "done"
  /\ UNCHANGED <<task, sent, arrivals, slots, file>>

WriteFails ==
  /\ \/ collector = "receiving" /\ arrivals # <<>>
     \/ collector = "filling" /\ Owed # {}
  /\ collector' = "stopped" /\ arrivals' = <<>>
  /\ UNCHANGED <<task, sent, slots, file>>

Next == \/ \E h \in Hosts : Acquire(h) \/ Probe(h) \/ Send(h) \/ Panic(h) \/ Abort(h)
        \/ Receive \/ Disconnect \/ Fill \/ Finish \/ WriteFails

\* The runtime polls every task that is ready; a probe ends by its budgets.
Fairness == /\ \A h \in Hosts : WF_vars(Acquire(h)) /\ WF_vars(Probe(h)) /\ WF_vars(Send(h))
            /\ WF_vars(Receive) /\ WF_vars(Disconnect) /\ WF_vars(Fill) /\ WF_vars(Finish)

Spec == Init /\ [][Next]_vars /\ Fairness

(***************************************************************************)
(* An endpoint is published as failed exactly when its task died before it *)
(* was handed over, never because its chunk was late: what a task sent     *)
(* before it died is written whole.  And a finished sweep has left no task *)
(* behind (lib.rs's comments on the arrivals channel and on covering).     *)
(***************************************************************************)
FailedIffLost ==
  /\ \A i \in DOMAIN file :
       IF file[i].failed
         THEN file[i].slot \notin sent /\ task[HostOf(file[i].slot)] = "panicked"
         ELSE file[i].slot \in sent
  /\ collector = "done" => Live = {} /\ Written = Slots

(***************************************************************************)
(* The sweep implements Publication: every endpoint gets one chunk, failed *)
(* ones last, and the sweep ends, whatever the order of arrival, the room  *)
(* in the channel and the panics.                                          *)
(***************************************************************************)
ChunkOf(e) ==
  LET found == {i \in DOMAIN file : Endpoints[file[i].slot] = e}
  IN IF found = {} THEN "none"
     ELSE IF \E i \in found : file[i].failed THEN "failed" ELSE "whole"

P == INSTANCE Publication
       WITH Planned <- ToSet(Endpoints),
            chunk <- [e \in ToSet(Endpoints) |-> ChunkOf(e)],
            state <- CASE collector = "done" -> "closed" [] collector = "stopped" -> "abandoned"
                       [] OTHER -> "open"
RefinesPublication == P!Spec
=============================================================================
