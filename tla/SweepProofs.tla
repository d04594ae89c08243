---------------------------- MODULE SweepProofs ----------------------------
(***************************************************************************)
(* Proofs about Sweep and about the file it is written to, RunFile.        *)
(*                                                                         *)
(* Sweep, for any list of endpoints, any hosts, any number of permits and  *)
(* any room in the channel: Delivered is inductive, a failed chunk is a    *)
(* lost endpoint, and every step of the sweep is a step of Publication or  *)
(* none.  That the sweep ends is left to TLC.                              *)
(*                                                                         *)
(* RunFile, for any runs, any plan, any dormant endpoints and whatever     *)
(* facts the sweep assembles: FileInv is inductive, and says of every file *)
(* which sections it holds, in their order, and what is still to come.     *)
(***************************************************************************)
EXTENDS Sweep, RunFile, FiniteSetTheorems, WellFoundedInduction, TLAPS


Tasks == {"waiting", "probing", "sending", "returned", "panicked", "aborted"}
Chunks == [slot : Slots, failed : BOOLEAN]

TypeOK ==
  /\ task \in [Hosts -> Tasks]
  /\ sent \subseteq Slots /\ slots \subseteq Slots
  /\ arrivals \in Seq(Slots)
  /\ file \in Seq(Chunks)
  /\ collector \in {"receiving", "filling", "done", "stopped"}

(***************************************************************************)
(* What a task has handed over is in the channel or in its slot, once,     *)
(* until the collector gives up; only a task that has handed over its      *)
(* whole group returns.                                                    *)
(***************************************************************************)
NothingIsBetween ==
  /\ slots \subseteq sent
  /\ \A i \in 1..Len(arrivals) : arrivals[i] \in sent \ slots
  /\ \A i, j \in 1..Len(arrivals) : arrivals[i] = arrivals[j] => i = j
  /\ collector # "stopped" =>
       \A slot \in sent \ slots : \E i \in 1..Len(arrivals) : arrivals[i] = slot

TasksAreWhatTheySent ==
  /\ \A h \in Hosts : task[h] = "returned" => Group(h) \subseteq sent
  /\ \A h \in Hosts : task[h] = "aborted" => collector = "stopped"
  /\ collector \in {"filling", "done"} => Live = {} /\ arrivals = <<>>

(***************************************************************************)
(* The file: one chunk for each slot that has arrived, and a failed one    *)
(* for slots that never did, which only a collector past the channel's end *)
(* writes.                                                                 *)
(***************************************************************************)
FileIsSlots ==
  /\ \A i \in 1..Len(file) : file[i].failed <=> file[i].slot \notin slots
  /\ \A i \in 1..Len(file) : file[i].failed =>
       /\ collector # "receiving" /\ file[i].slot \notin sent
       /\ task[HostOf(file[i].slot)] = "panicked"
  /\ \A slot \in slots : \E i \in 1..Len(file) : file[i].slot = slot
  /\ \A i, j \in 1..Len(file) : file[i].slot = file[j].slot => i = j
  /\ collector = "done" => Owed = {}

Delivered == TypeOK /\ NothingIsBetween /\ TasksAreWhatTheySent /\ FileIsSlots

----------------------------------------------------------------------------
LEMMA SlotsHaveHosts ==
  /\ Slots = 1..Len(Endpoints)
  /\ \A slot \in Slots : HostOf(slot) \in Hosts
  BY SweepAssumption DEF Slots, Hosts, HostOf

LEMMA ChunkType ==
  ASSUME NEW slot \in Slots, NEW failed \in BOOLEAN
  PROVE  /\ Chunk(slot, failed) \in Chunks
         /\ Chunk(slot, failed).slot = slot
         /\ Chunk(slot, failed).failed = failed
  BY DEF Chunk, Chunks

LEMMA ChunksHaveSlots ==
  ASSUME TypeOK, NEW i \in 1..Len(file)
  PROVE  file[i].slot \in Slots
  <1>1. file[i] \in Chunks
    BY DEF TypeOK
  <1> QED
    BY <1>1 DEF Chunks

LEMMA DeliveredInit == Init => Delivered
  <1> SUFFICES ASSUME Init PROVE Delivered
    OBVIOUS
  <1> USE DEF Init
  <1>1. TypeOK
    BY DEF TypeOK, Tasks
  <1>2. NothingIsBetween /\ TasksAreWhatTheySent /\ FileIsSlots
    BY DEF NothingIsBetween, TasksAreWhatTheySent, FileIsSlots
  <1> QED
    BY <1>1, <1>2 DEF Delivered

(***************************************************************************)
(* The channel gains a slot, and gives one up.                             *)
(***************************************************************************)
LEMMA SendKeeps ==
  ASSUME Delivered, NEW h \in Hosts, Send(h)
  PROVE  Delivered'
  <1>1. PICK slot \in Group(h) \ sent :
          /\ arrivals' = Append(arrivals, slot) /\ sent' = sent \cup {slot}
          /\ task' = [task EXCEPT ![h] = IF Group(h) \subseteq sent' THEN "returned"
                                                                     ELSE "probing"]
    BY DEF Send
  <1>2. /\ slot \in Slots /\ HostOf(slot) = h /\ task[h] = "sending"
        /\ collector = "receiving" /\ UNCHANGED <<slots, file, collector>>
    BY DEF Send, Group
  <1>3. TypeOK'
    BY <1>1, <1>2 DEF Delivered, TypeOK, Tasks
  <1>4. /\ Len(arrivals') = Len(arrivals) + 1 /\ arrivals'[Len(arrivals) + 1] = slot
        /\ \A i \in 1..Len(arrivals) : arrivals'[i] = arrivals[i]
    BY <1>1, <1>2 DEF Delivered, TypeOK
  <1>5. NothingIsBetween'
    <2> USE <1>1, <1>2, <1>4 DEF Delivered, NothingIsBetween, TypeOK
    <2>1. slot \notin slots /\ (slots \subseteq sent)'
      OBVIOUS
    <2>2. \A i \in 1..Len(arrivals') : arrivals'[i] \in sent' \ slots'
      BY <2>1
    <2>3. \A i, j \in 1..Len(arrivals') : arrivals'[i] = arrivals'[j] => i = j
      BY <2>1
    <2>4. \A other \in sent' \ slots' : \E i \in 1..Len(arrivals') : arrivals'[i] = other
      BY <2>1
    <2> QED
      BY <2>1, <2>2, <2>3, <2>4
  <1>6. TasksAreWhatTheySent'
    BY <1>1, <1>2 DEF Delivered, TypeOK, TasksAreWhatTheySent
  <1>7. FileIsSlots'
    BY <1>1, <1>2 DEF Delivered, TypeOK, FileIsSlots, Owed, Written
  <1> QED
    BY <1>3, <1>5, <1>6, <1>7 DEF Delivered

LEMMA ReceiveKeeps == Delivered /\ Receive => Delivered'
  <1> SUFFICES ASSUME Delivered, Receive PROVE Delivered'
    OBVIOUS
  <1> DEFINE slot == arrivals[1]
  <1>1. /\ Len(arrivals) > 0 /\ Head(arrivals) = slot /\ slot \in Slots
        /\ slot \in sent \ slots
    BY DEF Receive, Delivered, TypeOK, NothingIsBetween
  <1>2. /\ arrivals' = Tail(arrivals) /\ slots' = slots \cup {slot}
        /\ collector = "receiving" /\ UNCHANGED <<task, sent, collector>>
    BY <1>1 DEF Receive
  <1>3. PICK chunk \in Chunks :
          file' = Append(file, chunk) /\ chunk.slot = slot /\ chunk.failed = FALSE
    <2>1. file' = Append(file, Chunk(slot, FALSE))
      BY <1>1 DEF Receive
    <2> QED
      BY <1>1, <2>1, ChunkType, Zenon
  <1> HIDE DEF slot
  <1>4. TypeOK'
    BY <1>1, <1>2, <1>3 DEF Delivered, TypeOK
  <1>5. /\ Len(arrivals') = Len(arrivals) - 1
        /\ \A i \in 1..Len(arrivals') : arrivals'[i] = arrivals[i + 1]
    BY <1>1, <1>2 DEF Delivered, TypeOK
  <1>6. NothingIsBetween'
    <2>1. \A i \in 1..Len(arrivals') : i + 1 \in 1..Len(arrivals) /\ i + 1 # 1
      BY <1>1, <1>5 DEF Delivered, TypeOK
    <2>2. \A i \in 1..Len(arrivals') : arrivals'[i] \in sent' \ slots'
      BY <1>1, <1>2, <1>5, <2>1 DEF Delivered, NothingIsBetween, slot
    <2>3. \A i, j \in 1..Len(arrivals') : arrivals'[i] = arrivals'[j] => i = j
      BY <1>5, <2>1 DEF Delivered, NothingIsBetween
    <2>4. ASSUME NEW other \in sent' \ slots'
          PROVE  \E i \in 1..Len(arrivals') : arrivals'[i] = other
      <3>1. PICK i \in 1..Len(arrivals) : arrivals[i] = other
        BY <1>2, <2>4 DEF Delivered, NothingIsBetween
      <3>2. i - 1 \in 1..Len(arrivals') /\ arrivals'[i - 1] = arrivals[i]
        BY <1>2, <1>5, <2>4, <3>1 DEF slot, Delivered, TypeOK
      <3> QED
        BY <3>1, <3>2
    <2> QED
      BY <1>1, <1>2, <2>2, <2>3, <2>4 DEF Delivered, NothingIsBetween
  <1>7. TasksAreWhatTheySent'
    BY <1>2 DEF Delivered, TasksAreWhatTheySent, Live, Holding
  <1>8. FileIsSlots'
    <2>1. /\ Len(file') = Len(file) + 1 /\ file'[Len(file) + 1] = chunk
          /\ \A i \in 1..Len(file) : file'[i] = file[i]
      BY <1>3 DEF Delivered, TypeOK
    <2>2. \A i \in 1..Len(file) : ~file[i].failed /\ file[i].slot \in slots
      BY <1>2 DEF Delivered, FileIsSlots
    <2>3. \A i \in 1..Len(file') : ~file'[i].failed /\ file'[i].slot \in slots'
      BY <1>2, <1>3, <2>1, <2>2 DEF Delivered, TypeOK
    <2>4. \A other \in slots' : \E i \in 1..Len(file') : file'[i].slot = other
      BY <1>2, <1>3, <2>1 DEF Delivered, TypeOK, FileIsSlots
    <2>5. \A i, j \in 1..Len(file') : file'[i].slot = file'[j].slot => i = j
      BY <1>1, <1>3, <2>1, <2>2 DEF Delivered, TypeOK, FileIsSlots
    <2> QED
      BY <1>2, <2>3, <2>4, <2>5 DEF FileIsSlots
  <1> QED
    BY <1>4, <1>6, <1>7, <1>8 DEF Delivered

(***************************************************************************)
(* A slot that is owed a failed chunk was never handed over, so its task   *)
(* neither returned nor was aborted.                                       *)
(***************************************************************************)
LEMMA OwedWasLost ==
  ASSUME Delivered, collector = "filling", NEW slot \in Owed
  PROVE  /\ slot \in Slots /\ slot \notin slots /\ slot \notin sent
         /\ task[HostOf(slot)] = "panicked"
         /\ \A i \in 1..Len(file) : file[i].slot # slot
  <1>1. slot \in Slots /\ slot \notin slots /\ slot \notin Written
    BY DEF Owed
  <1>2. \A i \in 1..Len(file) : file[i].slot # slot
    BY <1>1 DEF Written, Delivered, TypeOK
  <1>3. Len(arrivals) = 0 /\ Live = {}
    BY DEF Delivered, TasksAreWhatTheySent
  <1>4. slot \notin sent
    BY <1>1, <1>3 DEF Delivered, NothingIsBetween
  <1>5. HostOf(slot) \in Hosts /\ slot \in Group(HostOf(slot))
    BY <1>1, SlotsHaveHosts DEF Group
  <1>6. task[HostOf(slot)] \notin {"waiting", "probing", "sending"}
    BY <1>3, <1>5 DEF Live, Holding
  <1>7. task[HostOf(slot)] \notin {"returned", "aborted"}
    BY <1>4, <1>5 DEF Delivered, TasksAreWhatTheySent
  <1> QED
    BY <1>1, <1>2, <1>4, <1>5, <1>6, <1>7 DEF Delivered, TypeOK, Tasks

LEMMA FillKeeps == Delivered /\ Fill => Delivered'
  <1> SUFFICES ASSUME Delivered, Fill PROVE Delivered'
    OBVIOUS
  <1>1. PICK slot \in Owed : file' = Append(file, Chunk(slot, TRUE))
    BY DEF Fill
  <1>2. collector = "filling" /\ UNCHANGED <<task, sent, arrivals, slots, collector>>
    BY DEF Fill
  <1>3. /\ slot \in Slots /\ slot \notin slots /\ slot \notin sent
        /\ task[HostOf(slot)] = "panicked" /\ \A i \in 1..Len(file) : file[i].slot # slot
    BY <1>2, OwedWasLost
  <1>4. PICK chunk \in Chunks :
          file' = Append(file, chunk) /\ chunk.slot = slot /\ chunk.failed = TRUE
    BY <1>1, <1>3, ChunkType, Zenon
  <1>5. TypeOK'
    BY <1>4, <1>2 DEF Delivered, TypeOK
  <1>6. NothingIsBetween' /\ TasksAreWhatTheySent'
    BY <1>2 DEF Delivered, NothingIsBetween, TasksAreWhatTheySent, Live, Holding
  <1>7. FileIsSlots'
    <2>1. /\ Len(file') = Len(file) + 1
          /\ file'[Len(file) + 1] = chunk
          /\ \A i \in 1..Len(file) : file'[i] = file[i]
      BY <1>4 DEF Delivered, TypeOK
    <2> USE <1>3, <1>4, <1>2, <2>1 DEF Delivered, TypeOK, FileIsSlots
    <2>2. \A i \in 1..Len(file') : file'[i].failed <=> file'[i].slot \notin slots'
      OBVIOUS
    <2>3. \A i \in 1..Len(file') : file'[i].failed =>
            /\ collector' # "receiving" /\ file'[i].slot \notin sent'
            /\ task'[HostOf(file'[i].slot)] = "panicked"
      OBVIOUS
    <2>4. \A other \in slots' : \E i \in 1..Len(file') : file'[i].slot = other
      OBVIOUS
    <2>5. \A i, j \in 1..Len(file') : file'[i].slot = file'[j].slot => i = j
      OBVIOUS
    <2> QED
      BY <2>2, <2>3, <2>4, <2>5
  <1> QED
    BY <1>5, <1>6, <1>7 DEF Delivered

LEMMA TasksKeep ==
  ASSUME Delivered, NEW h \in Hosts, Acquire(h) \/ Probe(h) \/ Panic(h) \/ Abort(h)
  PROVE  Delivered'
  <1>1. PICK now \in {"probing", "sending", "panicked", "aborted"} :
          /\ task' = [task EXCEPT ![h] = now] /\ h \in Live
          /\ now = "aborted" => collector = "stopped"
    BY DEF Acquire, Probe, Panic, Abort, Live, Holding
  <1>2. UNCHANGED <<sent, arrivals, slots, file, collector>>
    BY DEF Acquire, Probe, Panic, Abort
  <1>3. task[h] \notin {"returned", "panicked"}
    BY <1>1 DEF Live, Holding
  <1>4. TypeOK' /\ NothingIsBetween'
    BY <1>1, <1>2 DEF Delivered, TypeOK, NothingIsBetween, Tasks
  <1>5. TasksAreWhatTheySent'
    BY <1>1, <1>2 DEF Delivered, TypeOK, TasksAreWhatTheySent
  <1>6. FileIsSlots'
    BY <1>1, <1>2, <1>3, SlotsHaveHosts
      DEF Delivered, TypeOK, Chunks, FileIsSlots, Owed, Written
  <1> QED
    BY <1>4, <1>5, <1>6 DEF Delivered

LEMMA DeliveredStep == Delivered /\ [Next]_vars => Delivered'
  <1> SUFFICES ASSUME Delivered, [Next]_vars PROVE Delivered'
    OBVIOUS
  <1>1. ASSUME NEW h \in Hosts, Send(h) PROVE Delivered'
    BY <1>1, SendKeeps
  <1>2. ASSUME NEW h \in Hosts, Acquire(h) \/ Probe(h) \/ Panic(h) \/ Abort(h)
        PROVE  Delivered'
    BY <1>2, TasksKeep
  <1>3. CASE Receive
    BY <1>3, ReceiveKeeps
  <1>4. CASE Fill
    BY <1>4, FillKeeps
  <1> USE DEF Delivered, TypeOK, NothingIsBetween, TasksAreWhatTheySent, FileIsSlots,
              Owed, Written, Live, Holding
  <1>5. CASE Disconnect
    BY <1>5 DEF Disconnect, Disconnected
  <1>6. CASE Finish
    BY <1>6 DEF Finish
  <1>7. CASE WriteFails
    BY <1>7 DEF WriteFails
  <1>8. CASE UNCHANGED vars
    BY <1>8 DEF vars
  <1> QED
    BY <1>1, <1>2, <1>3, <1>4, <1>5, <1>6, <1>7, <1>8 DEF Next

LEMMA SpecDelivered == Spec => []Delivered
  BY DeliveredInit, DeliveredStep, PTL DEF Spec

(***************************************************************************)
(* An endpoint is published as failed exactly when its task panicked       *)
(* before handing it over, and a finished sweep has a chunk for each.      *)
(***************************************************************************)
THEOREM FailedMeansLost == Spec => []FailedIffLost
  <1>1. Delivered => FailedIffLost
    <2> SUFFICES ASSUME Delivered PROVE FailedIffLost
      OBVIOUS
    <2>1. DOMAIN file = 1..Len(file)
      BY DEF Delivered, TypeOK
    <2>2. ASSUME NEW i \in DOMAIN file
          PROVE  IF file[i].failed
                   THEN file[i].slot \notin sent /\ task[HostOf(file[i].slot)] = "panicked"
                   ELSE file[i].slot \in sent
      BY <2>1 DEF Delivered, TypeOK, FileIsSlots, NothingIsBetween
    <2>3. Written \subseteq Slots /\ slots \subseteq Written
      <3>1. \A i \in DOMAIN file : file[i].slot \in Slots
        BY <2>1, ChunksHaveSlots DEF Delivered
      <3> QED
        BY <2>1, <3>1 DEF Delivered, FileIsSlots, Written
    <2>4. collector = "done" => Live = {} /\ Written = Slots
      BY <2>3 DEF Delivered, TasksAreWhatTheySent, FileIsSlots, Owed
    <2> QED
      BY <2>2, <2>4 DEF FailedIffLost
  <1> QED
    BY <1>1, SpecDelivered, PTL

----------------------------------------------------------------------------
(***************************************************************************)
(* The refinement.  A chunk that is appended is the first of its endpoint, *)
(* for no endpoint is in two slots.                                        *)
(***************************************************************************)
LEMMA SlotsAreEndpoints ==
  /\ ToSet(Endpoints) = {Endpoints[slot] : slot \in Slots}
  /\ \A s, t \in Slots : Endpoints[s] = Endpoints[t] => s = t
  BY SweepAssumption DEF Slots, ToSet, IsInjective

LEMMA NoChunkYet ==
  ASSUME Delivered, NEW slot \in Slots
  PROVE  ChunkOf(Endpoints[slot]) = "none" <=> slot \notin Written
  <1>1. DOMAIN file = 1..Len(file) /\ \A i \in 1..Len(file) : file[i].slot \in Slots
    BY ChunksHaveSlots DEF Delivered, TypeOK
  <1>2. \A i \in DOMAIN file : Endpoints[file[i].slot] = Endpoints[slot] <=> file[i].slot = slot
    BY <1>1, SlotsAreEndpoints
  <1> QED
    BY <1>2 DEF ChunkOf, Written

LEMMA ChunkAppended ==
  ASSUME Delivered, NEW slot \in Slots, slot \notin Written,
         NEW chunk \in Chunks, chunk.slot = slot, file' = Append(file, chunk)
  PROVE  /\ ChunkOf(Endpoints[slot])' = IF chunk.failed THEN "failed" ELSE "whole"
         /\ \A e \in ToSet(Endpoints) \ {Endpoints[slot]} : ChunkOf(e)' = ChunkOf(e)
  <1>1. DOMAIN file = 1..Len(file) /\ \A i \in 1..Len(file) : file[i].slot \in Slots
    BY ChunksHaveSlots DEF Delivered, TypeOK
  <1>2. /\ DOMAIN file' = 1..(Len(file) + 1) /\ Len(file) \in Nat
        /\ file'[Len(file) + 1] = chunk /\ \A i \in 1..Len(file) : file'[i] = file[i]
    BY DEF Delivered, TypeOK
  <1>3. \A i \in DOMAIN file : Endpoints[file[i].slot] # Endpoints[slot]
    BY <1>1, SlotsAreEndpoints DEF Written
  <1>4. \A e : {i \in DOMAIN file' : Endpoints[file'[i].slot] = e} =
                 {i \in DOMAIN file : Endpoints[file[i].slot] = e}
                   \cup {i \in {Len(file) + 1} : Endpoints[slot] = e}
    BY <1>1, <1>2
  <1>5. {i \in DOMAIN file' : Endpoints[file'[i].slot] = Endpoints[slot]} = {Len(file) + 1}
    BY <1>3, <1>4
  <1>6. ChunkOf(Endpoints[slot])' = IF chunk.failed THEN "failed" ELSE "whole"
    BY <1>2, <1>5 DEF ChunkOf
  <1>7. ASSUME NEW e \in ToSet(Endpoints) \ {Endpoints[slot]}
        PROVE  ChunkOf(e)' = ChunkOf(e)
    <2> DEFINE found == {i \in DOMAIN file : Endpoints[file[i].slot] = e}
    <2>1. {i \in DOMAIN file' : Endpoints[file'[i].slot] = e} = found
      BY <1>4
    <2>2. \A i \in found : file'[i] = file[i]
      BY <1>1, <1>2
    <2> QED
      BY <2>1, <2>2 DEF ChunkOf
  <1> QED
    BY <1>6, <1>7

LEMMA PublicationInit == Init => P!Init
  BY DEF Init, P!Init, ChunkOf

LEMMA ReceivePublishes == Delivered /\ Receive => P!Next
  <1> SUFFICES ASSUME Delivered, Receive PROVE P!Next
    OBVIOUS
  <1>1. PICK slot \in Slots : Head(arrivals) = slot /\ slot \notin slots
    BY DEF Receive, Delivered, TypeOK, NothingIsBetween
  <1> DEFINE e == Endpoints[slot]
  <1>2. collector = "receiving" /\ collector' = "receiving"
    BY DEF Receive
  <1>3. slot \notin Written
    BY <1>1, <1>2 DEF Delivered, TypeOK, FileIsSlots, Written
  <1>4. /\ Chunk(slot, FALSE) \in Chunks /\ Chunk(slot, FALSE).slot = slot
        /\ ~Chunk(slot, FALSE).failed
    BY <1>1, ChunkType
  <1>5. file' = Append(file, Chunk(slot, FALSE))
    BY <1>1 DEF Receive
  <1>6. /\ ChunkOf(e)' = "whole" /\ ChunkOf(e) = "none" /\ e \in ToSet(Endpoints)
        /\ \A other \in ToSet(Endpoints) \ {e} : ChunkOf(other)' = ChunkOf(other)
    BY <1>1, <1>3, <1>4, <1>5, ChunkAppended, NoChunkYet, SlotsAreEndpoints
  <1>7. \A other \in ToSet(Endpoints) : ChunkOf(other) # "failed"
    BY <1>2 DEF Delivered, TypeOK, FileIsSlots, ChunkOf
  <1> HIDE DEF e
  <1>8. P!Whole(e)
    BY <1>2, <1>6, <1>7 DEF P!Whole
  <1> QED
    BY <1>6, <1>8 DEF P!Next

LEMMA FillPublishes == Delivered /\ Fill => P!Next
  <1> SUFFICES ASSUME Delivered, Fill PROVE P!Next
    OBVIOUS
  <1>1. PICK slot \in Owed : file' = Append(file, Chunk(slot, TRUE))
    BY DEF Fill
  <1> DEFINE e == Endpoints[slot]
  <1>2. collector = "filling" /\ collector' = "filling"
    BY DEF Fill
  <1>3. slot \in Slots /\ slot \notin Written
    BY DEF Owed
  <1>4. /\ Chunk(slot, TRUE) \in Chunks /\ Chunk(slot, TRUE).slot = slot
        /\ Chunk(slot, TRUE).failed
    BY <1>3, ChunkType
  <1>5. /\ ChunkOf(e)' = "failed" /\ ChunkOf(e) = "none" /\ e \in ToSet(Endpoints)
        /\ \A other \in ToSet(Endpoints) \ {e} : ChunkOf(other)' = ChunkOf(other)
    BY <1>1, <1>3, <1>4, ChunkAppended, NoChunkYet, SlotsAreEndpoints
  <1> HIDE DEF e
  <1>6. P!Failed(e)
    BY <1>2, <1>5 DEF P!Failed
  <1> QED
    BY <1>5, <1>6 DEF P!Next

LEMMA FinishPublishes == Delivered /\ Finish => P!Next
  <1> SUFFICES ASSUME Delivered, Finish PROVE P!Next
    OBVIOUS
  <1>1. collector = "filling" /\ collector' = "done" /\ file' = file
    BY DEF Finish
  <1>2. \A slot \in Slots : slot \in Written
    BY DEF Finish, Owed, Delivered, TypeOK, FileIsSlots, Written
  <1>3. \A e \in ToSet(Endpoints) : ChunkOf(e) # "none"
    BY <1>2, NoChunkYet, SlotsAreEndpoints
  <1>4. \A e \in ToSet(Endpoints) : ChunkOf(e)' = ChunkOf(e)
    BY <1>1 DEF ChunkOf
  <1>5. P!Close
    BY <1>1, <1>3, <1>4 DEF P!Close
  <1> QED
    BY <1>5 DEF P!Next

LEMMA PublicationStep == Delivered /\ [Next]_vars => [P!Next]_(P!vars)
  <1> SUFFICES ASSUME Delivered, [Next]_vars PROVE P!Next \/ UNCHANGED P!vars
    OBVIOUS
  <1>1. CASE Receive \/ Fill \/ Finish
    BY <1>1, ReceivePublishes, FillPublishes, FinishPublishes
  <1>2. CASE WriteFails
    <2>1. collector \in {"receiving", "filling"} /\ collector' = "stopped" /\ file' = file
      BY <1>2 DEF WriteFails
    <2>2. \A e \in ToSet(Endpoints) : ChunkOf(e)' = ChunkOf(e)
      BY <2>1 DEF ChunkOf
    <2>3. P!Abandon
      BY <2>1, <2>2 DEF P!Abandon
    <2> QED
      BY <2>3 DEF P!Next
  <1>3. CASE \/ \E h \in Hosts : Acquire(h) \/ Probe(h) \/ Send(h) \/ Panic(h) \/ Abort(h)
             \/ Disconnect \/ UNCHANGED vars
    <2>1. /\ file' = file
          /\ \/ collector' = collector
             \/ collector = "receiving" /\ collector' = "filling"
      BY <1>3 DEF Acquire, Probe, Send, Panic, Abort, Disconnect, vars
    <2>2. \A e \in ToSet(Endpoints) : ChunkOf(e)' = ChunkOf(e)
      BY <2>1 DEF ChunkOf
    <2> QED
      BY <2>1, <2>2 DEF P!vars
  <1> QED
    BY <1>1, <1>2, <1>3 DEF Next

(***************************************************************************)
(* Every step of a sweep publishes one endpoint, ends the file, gives it   *)
(* up or is not seen: one chunk for each endpoint, never revised, and the  *)
(* failed ones after all the others (run_sweep's contract with its file).  *)
(***************************************************************************)
THEOREM SweepsPublish == Spec => P!Safety
  BY PublicationInit, PublicationStep, SpecDelivered, PTL DEF Spec, P!Safety

LEMMA ListsHaveALength ==
  ASSUME NEW list, IsList(list)
  PROVE  /\ Len(list) \in Nat /\ DOMAIN list = 1..Len(list)
         /\ list = [i \in 1..Len(list) |-> list[i]]
  BY DEF IsList

LEMMA FunctionsAreLists ==
  ASSUME NEW n \in Nat, NEW list, list = [i \in 1..n |-> list[i]]
  PROVE  IsList(list) /\ Len(list) = n /\ DOMAIN list = 1..n
  <1> DEFINE S == {list[i] : i \in DOMAIN list}
  <1>1. DOMAIN list = 1..n
    OBVIOUS
  <1>2. list \in [1..n -> S]
    BY <1>1
  <1>3. list \in Seq(S)
    BY <1>2
  <1> QED
    BY <1>1, <1>3 DEF IsList

LEMMA JoinedList ==
  ASSUME NEW s, NEW t, IsList(s), IsList(t)
  PROVE  LET joined == s \o t IN
         /\ IsList(joined) /\ Len(joined) = Len(s) + Len(t) /\ DOMAIN joined = 1..(Len(s) + Len(t))
         /\ \A i \in DOMAIN s : joined[i] = s[i]
         /\ \A i \in DOMAIN t : joined[Len(s) + i] = t[i]
         /\ \A i \in DOMAIN joined : \/ i \in DOMAIN s /\ joined[i] = s[i]
                                     \/ i - Len(s) \in DOMAIN t /\ joined[i] = t[i - Len(s)]
  <1> DEFINE S == {s[i] : i \in DOMAIN s} \cup {t[i] : i \in DOMAIN t}
             joined == s \o t
  <1>0. /\ Len(s) \in Nat /\ DOMAIN s = 1..Len(s)
        /\ Len(t) \in Nat /\ DOMAIN t = 1..Len(t)
    BY ListsHaveALength
  <1>1. s \in Seq(S) /\ t \in Seq(S)
    BY ListsHaveALength
  <1>2. /\ joined \in Seq(S) /\ Len(joined) = Len(s) + Len(t)
        /\ \A i \in 1..(Len(s) + Len(t)) :
             joined[i] = IF i <= Len(s) THEN s[i] ELSE t[i - Len(s)]
    BY <1>1
  <1> HIDE DEF joined
  <1>3. Len(joined) \in Nat /\ joined = [i \in 1..Len(joined) |-> joined[i]]
    BY <1>2
  <1>4. IsList(joined) /\ DOMAIN joined = 1..(Len(s) + Len(t))
    BY <1>2, <1>3, FunctionsAreLists
  <1>5. \A i \in DOMAIN s : joined[i] = s[i]
    BY <1>0, <1>2
  <1>6. ASSUME NEW i \in DOMAIN t PROVE joined[Len(s) + i] = t[i]
    BY <1>0, <1>2
  <1>7. ASSUME NEW i \in DOMAIN joined
        PROVE  \/ i \in DOMAIN s /\ joined[i] = s[i]
               \/ i - Len(s) \in DOMAIN t /\ joined[i] = t[i - Len(s)]
    BY <1>0, <1>2, <1>4
  <1> QED
    BY <1>2, <1>4, <1>5, <1>6, <1>7 DEF joined

LEMMA AppendedList ==
  ASSUME NEW list, NEW e, IsList(list)
  PROVE  LET longer == Append(list, e) IN
         /\ IsList(longer) /\ Len(longer) = Len(list) + 1 /\ DOMAIN longer = 1..(Len(list) + 1)
         /\ \A i \in DOMAIN list : longer[i] = list[i]
         /\ longer[Len(list) + 1] = e
  <1> DEFINE S == {list[i] : i \in DOMAIN list} \cup {e}
             longer == Append(list, e)
  <1>1. list \in Seq(S) /\ e \in S
    BY ListsHaveALength
  <1>2. /\ longer \in Seq(S) /\ Len(longer) = Len(list) + 1
        /\ \A i \in 1..Len(list) : longer[i] = list[i]
        /\ longer[Len(list) + 1] = e
    BY <1>1
  <1> HIDE DEF longer
  <1>3. Len(longer) \in Nat /\ longer = [i \in 1..Len(longer) |-> longer[i]]
    BY <1>2
  <1>4. IsList(longer) /\ DOMAIN longer = 1..(Len(list) + 1)
    BY <1>2, <1>3, FunctionsAreLists
  <1> QED
    BY <1>2, <1>4, ListsHaveALength DEF longer

Rank(positions, i) == Cardinality({j \in positions : j <= i})

LEMMA RanksGrow ==
  ASSUME NEW n \in Nat, NEW I, I \subseteq 1..n
  PROVE  /\ IsFiniteSet(I) /\ Cardinality(I) \in Nat
         /\ \A i \in I : Rank(I, i) \in 1..Cardinality(I)
         /\ \A i, j \in I : i < j => Rank(I, i) < Rank(I, j)
  <1> DEFINE UpTo(i) == {j \in I : j <= i}
  <1>1. IsFiniteSet(1..n) /\ I \in SUBSET (1..n)
    BY FS_Interval
  <1>2. IsFiniteSet(I) /\ Cardinality(I) \in Nat
    BY <1>1, FS_Subset, FS_CardinalityType
  <1>3. ASSUME NEW i \in I
        PROVE  IsFiniteSet(UpTo(i)) /\ Rank(I, i) \in 1..Cardinality(I)
    <2>1. UpTo(i) \in SUBSET I /\ i \in UpTo(i)
      OBVIOUS
    <2>2. IsFiniteSet(UpTo(i)) /\ Cardinality(UpTo(i)) <= Cardinality(I)
      BY <1>2, <2>1, FS_Subset
    <2>3. Cardinality(UpTo(i)) \in Nat /\ Cardinality(UpTo(i)) # 0
      BY <2>1, <2>2, FS_CardinalityType, FS_EmptySet
    <2> QED
      BY <1>2, <2>2, <2>3 DEF Rank
  <1>4. ASSUME NEW i \in I, NEW j \in I, i < j PROVE Rank(I, i) < Rank(I, j)
    <2>1. UpTo(i) \in SUBSET UpTo(j) /\ j \in UpTo(j) /\ j \notin UpTo(i)
      <3>1. i \in Nat /\ j \in Nat /\ \A k \in I : k \in Nat
        OBVIOUS
      <3>2. i <= j /\ ~(j <= i) /\ j <= j /\ \A k \in I : k <= i => k <= j
        BY <1>4, <3>1
      <3> QED
        BY <3>2
    <2>2. UpTo(i) # UpTo(j)
      BY <2>1
    <2>3. Cardinality(UpTo(i)) <= Cardinality(UpTo(j)) /\ Cardinality(UpTo(i)) # Cardinality(UpTo(j))
      BY <1>3, <2>1, <2>2, FS_Subset
    <2>4. Cardinality(UpTo(i)) \in Nat /\ Cardinality(UpTo(j)) \in Nat
      BY <1>3, FS_CardinalityType
    <2> QED
      BY <2>3, <2>4 DEF Rank
  <1> QED
    BY <1>2, <1>3, <1>4

LEMMA PositionsAreRanked ==
  ASSUME NEW n \in Nat, NEW I, I \subseteq 1..n
  PROVE  /\ \A k \in 1..Cardinality(I) : /\ Position(I, k) \in I
                                         /\ Rank(I, Position(I, k)) = k
         /\ \A i \in I : Position(I, Rank(I, i)) = i
  <1> DEFINE c == Cardinality(I)
             f == [i \in I |-> Rank(I, i)]
  <1>1. IsFiniteSet(I) /\ c \in Nat
    BY RanksGrow
  <1>2. \A i \in I : Rank(I, i) \in 1..c
    BY RanksGrow
  <1>3. ASSUME NEW i \in I, NEW j \in I, Rank(I, i) = Rank(I, j) PROVE i = j
    <2>1. i < j => Rank(I, i) < Rank(I, j)
      BY RanksGrow
    <2>2. j < i => Rank(I, j) < Rank(I, i)
      BY RanksGrow
    <2>3. i \in Nat /\ j \in Nat /\ Rank(I, i) \in Nat
      BY <1>1, <1>2
    <2> QED
      BY <1>3, <2>1, <2>2, <2>3
  <1>4. f \in Injection(I, 1..c)
    BY <1>2, <1>3 DEF Injection, IsInjective
  <1>5. IsFiniteSet(1..c) /\ Cardinality(1..c) = c
    BY <1>1, FS_Interval
  <1>6. f \in Surjection(I, 1..c)
    BY <1>4, <1>5, FS_Injection
  <1>7. \A k \in 1..c : \E i \in I : Rank(I, i) = k
    BY <1>6 DEF Surjection
  <1>8. ASSUME NEW k \in 1..c PROVE Position(I, k) \in I /\ Rank(I, Position(I, k)) = k
    BY <1>7 DEF Position, Rank
  <1> QED
    BY <1>2, <1>3, <1>8

Less == OpToRel(<, Nat)

LEMMA HasSmallest ==
  ASSUME NEW S \in SUBSET Nat, S # {}
  PROVE  \E s \in S : \A t \in S : s <= t
  <1>1. IsWellFoundedOn(Less, Nat)
    BY NatLessThanWellFounded DEF Less
  <1>2. PICK s \in S : \A t \in S : ~(<<t, s>> \in Less)
    BY <1>1, WFMin
  <1>3. ASSUME NEW t \in S PROVE s <= t
    <2>1. s \in Nat /\ t \in Nat
      OBVIOUS
    <2>2. <<t, s>> \in Less <=> t < s
      BY <2>1 DEF Less, OpToRel
    <2> QED
      BY <1>2, <2>1, <2>2
  <1> QED
    BY <1>3

(***************************************************************************)
(* What holds of the first of a row of numbers, and of each if it holds of *)
(* the one before, holds of all: the induction by which what a fold comes  *)
(* to is known.                                                            *)
(***************************************************************************)
LEMMA HasLargest ==
  ASSUME NEW n \in Nat, NEW S, S \subseteq 1..n, S # {}
  PROVE  \E s \in S : \A t \in S : s >= t
  <1> DEFINE B == {m \in Nat : \A t \in S : m >= t}
  <1>1. n \in B /\ B \in SUBSET Nat
    OBVIOUS
  <1> HIDE DEF B
  <1>2. PICK m \in B : \A l \in B : m <= l
    BY <1>1, HasSmallest
  <1>3. m \in Nat /\ \A t \in S : t \in Nat /\ m >= t /\ t >= 1
    BY <1>2 DEF B
  <1>4. m \in S
    <2> SUFFICES ASSUME m \notin S PROVE FALSE
      OBVIOUS
    <2>1. \A t \in S : m - 1 >= t
      <3> TAKE t \in S
      <3>1. t # m /\ t \in Nat /\ m >= t
        BY <1>3
      <3> QED
        BY <1>3, <3>1
    <2>2. m - 1 \in Nat
      <3>1. PICK t \in S : TRUE
        OBVIOUS
      <3> QED
        BY <1>3, <3>1
    <2>3. m - 1 \in B
      BY <2>1, <2>2 DEF B
    <2> QED
      BY <1>2, <1>3, <2>3
  <1> QED
    BY <1>3, <1>4

LEMMA AllOfThem ==
  ASSUME NEW n \in Nat, NEW G, 0 \in G, \A i \in 1..n : i - 1 \in G => i \in G
  PROVE  \A i \in 0..n : i \in G
  <1> DEFINE Bad == {i \in 0..n : i \notin G}
  <1> SUFFICES ASSUME Bad # {} PROVE FALSE
    OBVIOUS
  <1>1. PICK i \in Bad : \A j \in Bad : i <= j
    <2>1. Bad \in SUBSET Nat
      OBVIOUS
    <2> QED
      BY <2>1, HasSmallest
  <1>2. i \in 1..n /\ i - 1 \in 0..n /\ i - 1 \notin Bad
    BY <1>1
  <1> QED
    BY <1>1, <1>2

(***************************************************************************)
(* The quads of a list, and the lists that are written out.                *)
(***************************************************************************)
LEMMA EmptyList == IsList(<<>>) /\ Len(<<>>) = 0 /\ DOMAIN <<>> = {} /\ ToSet(<<>>) = {}
  BY DEF IsList, ToSet

LEMMA JoinedSet ==
  ASSUME NEW s, NEW t, IsList(s), IsList(t)
  PROVE  IsList(s \o t) /\ ToSet(s \o t) = ToSet(s) \cup ToSet(t)
  <1> DEFINE joined == s \o t
  <1>1. /\ IsList(joined) /\ DOMAIN joined = 1..(Len(s) + Len(t))
        /\ \A i \in DOMAIN s : joined[i] = s[i]
        /\ \A i \in DOMAIN t : joined[Len(s) + i] = t[i]
        /\ \A i \in DOMAIN joined : \/ i \in DOMAIN s /\ joined[i] = s[i]
                                    \/ i - Len(s) \in DOMAIN t /\ joined[i] = t[i - Len(s)]
    BY JoinedList
  <1>2. /\ Len(s) \in Nat /\ DOMAIN s = 1..Len(s)
        /\ Len(t) \in Nat /\ DOMAIN t = 1..Len(t)
    BY ListsHaveALength
  <1> HIDE DEF joined
  <1>3. \A i \in DOMAIN s : i \in DOMAIN joined
    BY <1>1, <1>2
  <1>4. \A i \in DOMAIN t : Len(s) + i \in DOMAIN joined
    BY <1>1, <1>2
  <1>5. ToSet(s) \subseteq ToSet(joined)
    BY <1>1, <1>3 DEF ToSet
  <1>6. ToSet(t) \subseteq ToSet(joined)
    BY <1>1, <1>4 DEF ToSet
  <1>7. ToSet(joined) \subseteq ToSet(s) \cup ToSet(t)
    BY <1>1 DEF ToSet
  <1>8. IsList(joined) /\ ToSet(joined) = ToSet(s) \cup ToSet(t)
    BY <1>1, <1>5, <1>6, <1>7
  <1> QED
    BY <1>8 DEF joined

LEMMA Singles ==
  ASSUME NEW a
  PROVE  IsList(<<a>>) /\ Len(<<a>>) = 1 /\ ToSet(<<a>>) = {a}
  BY DEF IsList, ToSet

LEMMA Pairs ==
  ASSUME NEW a, NEW b
  PROVE  IsList(<<a, b>>) /\ Len(<<a, b>>) = 2 /\ ToSet(<<a, b>>) = {a, b}
  BY DEF IsList, ToSet

LEMMA Triples ==
  ASSUME NEW a, NEW b, NEW c
  PROVE  IsList(<<a, b, c>>) /\ Len(<<a, b, c>>) = 3 /\ ToSet(<<a, b, c>>) = {a, b, c}
  BY DEF IsList, ToSet

LEMMA Fours ==
  ASSUME NEW a, NEW b, NEW c, NEW d
  PROVE  IsList(<<a, b, c, d>>) /\ Len(<<a, b, c, d>>) = 4 /\ ToSet(<<a, b, c, d>>) = {a, b, c, d}
  BY DEF IsList, ToSet

LEMMA Fives ==
  ASSUME NEW a, NEW b, NEW c, NEW d, NEW e
  PROVE  /\ IsList(<<a, b, c, d, e>>) /\ Len(<<a, b, c, d, e>>) = 5
         /\ ToSet(<<a, b, c, d, e>>) = {a, b, c, d, e}
  BY DEF IsList, ToSet

LEMMA Sixes ==
  ASSUME NEW a, NEW b, NEW c, NEW d, NEW e, NEW f
  PROVE  /\ IsList(<<a, b, c, d, e, f>>) /\ Len(<<a, b, c, d, e, f>>) = 6
         /\ ToSet(<<a, b, c, d, e, f>>) = {a, b, c, d, e, f}
  BY DEF IsList, ToSet
(***************************************************************************)
(* FlattenSeq of a list of lists, piece by piece.                          *)
(***************************************************************************)
Pieces(p) == IsList(p) /\ \A i \in DOMAIN p : IsList(p[i])

Folds(f, p, n) == f = [i \in 1..n |-> IF i = 1 THEN p[i] ELSE f[i - 1] \o p[i]]

LEMMA FoldsExist ==
  ASSUME NEW p, NEW n \in Nat
  PROVE  \E f : Folds(f, p, n)
  <1> DEFINE G == {i \in 0..n : \E f : Folds(f, p, i)}
  <1>1. 0 \in G
    <2> DEFINE h == [i \in 1..0 |-> 0]
    <2>1. h = [i \in 1..0 |-> IF i = 1 THEN p[i] ELSE h[i - 1] \o p[i]]
      OBVIOUS
    <2>2. Folds(h, p, 0)
      BY <2>1 DEF Folds
    <2> QED
      BY <2>2
  <1>2. ASSUME NEW m \in 1..n, m - 1 \in G PROVE m \in G
    <2>1. PICK g : Folds(g, p, m - 1)
      BY <1>2
    <2> DEFINE h == [i \in 1..m |-> IF i < m THEN g[i] ELSE IF m = 1 THEN p[1] ELSE g[m - 1] \o p[m]]
               k == [i \in 1..m |-> IF i = 1 THEN p[i] ELSE h[i - 1] \o p[i]]
    <2>2. \A i \in 1..(m - 1) : g[i] = IF i = 1 THEN p[i] ELSE g[i - 1] \o p[i]
      BY <2>1 DEF Folds
    <2>3. ASSUME NEW i \in 1..m PROVE h[i] = k[i]
      <3>1. CASE i = m /\ m = 1
        BY <3>1
      <3>2. CASE i = m /\ m # 1
        <4>1. h[i] = g[m - 1] \o p[m]
          <5>1. i \in 1..m /\ ~(i < m) /\ m # 1
            BY <3>2
          <5>2. h[i] = IF i < m THEN g[i] ELSE IF m = 1 THEN p[1] ELSE g[m - 1] \o p[m]
            BY <5>1
          <5> QED
            BY <5>1, <5>2
        <4>2. m - 1 \in 1..m /\ m - 1 < m
          BY <3>2
        <4>3. h[m - 1] = g[m - 1]
          BY <4>2
        <4> QED
          BY <3>2, <4>1, <4>3
      <3>3. CASE i # m
        <4>1. i \in 1..(m - 1) /\ i < m
          BY <3>3
        <4>2. h[i] = g[i]
          BY <4>1
        <4>3. i # 1 => i - 1 \in 1..m /\ i - 1 < m
          BY <4>1
        <4>4. i # 1 => h[i - 1] = g[i - 1]
          BY <4>3
        <4> QED
          BY <2>2, <4>1, <4>2, <4>4
      <3> QED
        BY <3>1, <3>2, <3>3
    <2>4. h = k
      <3>1. h = [i \in 1..m |-> h[i]] /\ k = [i \in 1..m |-> k[i]]
        OBVIOUS
      <3> HIDE DEF h, k
      <3> QED
        BY <2>3, <3>1
    <2>5. Folds(h, p, m)
      BY <2>4 DEF Folds
    <2> QED
      BY <2>5
  <1> HIDE DEF G
  <1>3. n \in G
    BY <1>1, <1>2, AllOfThem
  <1> QED
    BY <1>3 DEF G

LEMMA FlattenGrows ==
  ASSUME NEW p, Pieces(p)
  PROVE  \E f : /\ f[0] = <<>>
                /\ \A i \in 1..Len(p) : f[i] = f[i - 1] \o p[i]
                /\ FlattenSeq(p) = f[Len(p)]
                /\ \A i \in 0..Len(p) : IsList(f[i])
  <1> DEFINE n == Len(p)
             g == CHOOSE f : Folds(f, p, n)
             f == [i \in 0..n |-> IF i = 0 THEN <<>> ELSE g[i]]
  <1>1. n \in Nat /\ DOMAIN p = 1..n
    BY ListsHaveALength DEF Pieces
  <1>2. Folds(g, p, n)
    BY <1>1, FoldsExist
  <1>3. FlattenSeq(p) = IF n = 0 THEN p ELSE g[n]
    BY Zenon DEF FlattenSeq, Folds
  <1>4. n = 0 => p = <<>>
    BY <1>1, ListsHaveALength DEF Pieces
  <1>5. \A i \in 1..n : g[i] = IF i = 1 THEN p[i] ELSE g[i - 1] \o p[i]
    BY <1>2 DEF Folds
  <1> HIDE DEF n, g
  <1>6. f[0] = <<>> /\ \A i \in 1..n : f[i] = g[i]
    BY <1>1
  <1>7. FlattenSeq(p) = f[n]
    BY <1>1, <1>3, <1>4, <1>6
  <1> HIDE DEF f
  <1>8. \A i \in 1..n : f[i] = f[i - 1] \o p[i]
    <2> TAKE i \in 1..n
    <2>1. CASE i = 1
      <3>1. IsList(p[1])
        BY <1>1, <2>1 DEF Pieces
      <3>2. p[1] = <<>> \o p[1]
        BY <3>1 DEF IsList
      <3>3. f[1] = p[1] /\ f[1 - 1] = <<>>
        BY <1>5, <1>6, <2>1
      <3> QED
        BY <2>1, <3>2, <3>3
    <2>2. CASE i # 1
      <3>1. i - 1 \in 1..n
        BY <1>1, <2>2
      <3>2. f[i] = g[i] /\ f[i - 1] = g[i - 1] /\ g[i] = g[i - 1] \o p[i]
        BY <1>5, <1>6, <2>2, <3>1
      <3> QED
        BY <3>2
    <2> QED
      BY <2>1, <2>2
  <1>9. \A i \in 0..n : IsList(f[i])
    <2> DEFINE G == {i \in 0..n : IsList(f[i])}
    <2>1. 0 \in G
      BY <1>1, <1>6, EmptyList
    <2>2. ASSUME NEW i \in 1..n, i - 1 \in G PROVE i \in G
      <3>1. IsList(f[i - 1]) /\ IsList(p[i]) /\ i \in 0..n
        BY <1>1, <2>2 DEF Pieces
      <3>2. IsList(f[i])
        BY <1>8, <3>1, JoinedSet
      <3> QED
        BY <3>1, <3>2
    <2> HIDE DEF G
    <2>3. \A i \in 0..n : i \in G
      BY <1>1, <2>1, <2>2, AllOfThem
    <2> QED
      BY <2>3 DEF G
  <1> QED
    BY <1>6, <1>7, <1>8, <1>9 DEF n
LEMMA FlattenedSet ==
  ASSUME NEW p, Pieces(p)
  PROVE  /\ IsList(FlattenSeq(p))
         /\ ToSet(FlattenSeq(p)) = UNION {ToSet(p[i]) : i \in DOMAIN p}
  <1> DEFINE n == Len(p)
  <1>1. n \in Nat /\ DOMAIN p = 1..n /\ \A i \in 1..n : IsList(p[i])
    BY ListsHaveALength DEF Pieces
  <1>2. PICK f : /\ f[0] = <<>> /\ \A i \in 1..n : f[i] = f[i - 1] \o p[i]
                 /\ FlattenSeq(p) = f[n] /\ \A i \in 0..n : IsList(f[i])
    BY FlattenGrows
  <1> HIDE DEF n
  <1> DEFINE Upto(i) == UNION {ToSet(p[j]) : j \in 1..i}
             G == {i \in 0..n : ToSet(f[i]) = Upto(i)}
  <1>3. 0 \in G
    BY <1>1, <1>2, EmptyList
  <1>4. ASSUME NEW i \in 1..n, i - 1 \in G PROVE i \in G
    <2>1. i - 1 \in 0..n /\ i \in 0..n
      BY <1>1
    <2>2. ToSet(f[i]) = ToSet(f[i - 1]) \cup ToSet(p[i])
      BY <1>1, <1>2, <2>1, JoinedSet
    <2>3. 1..i = (1..(i - 1)) \cup {i}
      BY <1>1
    <2>4. Upto(i) = Upto(i - 1) \cup ToSet(p[i])
      BY <2>3
    <2> QED
      BY <1>4, <2>1, <2>2, <2>4
  <1> HIDE DEF G
  <1>5. n \in G
    BY <1>1, <1>3, <1>4, AllOfThem
  <1>6. ToSet(f[n]) = Upto(n)
    BY <1>5 DEF G
  <1> QED
    BY <1>1, <1>2, <1>6

LEMMA FlattenNothing == FlattenSeq(<<>>) = <<>>
  BY DEF FlattenSeq

LEMMA FlattenOneMore ==
  ASSUME NEW p, NEW s, Pieces(p), IsList(s)
  PROVE  FlattenSeq(Append(p, s)) = FlattenSeq(p) \o s
  <1> DEFINE n == Len(p)
             q == Append(p, s)
  <1>1. n \in Nat /\ DOMAIN p = 1..n /\ \A i \in 1..n : IsList(p[i])
    BY ListsHaveALength DEF Pieces
  <1>2. /\ IsList(q) /\ Len(q) = n + 1 /\ DOMAIN q = 1..(n + 1)
        /\ \A i \in 1..n : q[i] = p[i]
        /\ q[n + 1] = s
    BY <1>1, AppendedList DEF Pieces
  <1> HIDE DEF q, n
  <1>3. Pieces(q)
    <2> SUFFICES ASSUME NEW i \in 1..(n + 1) PROVE IsList(q[i])
      BY <1>2 DEF Pieces
    <2>1. i = n + 1 \/ i \in 1..n
      BY <1>1
    <2> QED
      BY <1>1, <1>2, <2>1
  <1>4. PICK f : /\ f[0] = <<>> /\ \A i \in 1..n : f[i] = f[i - 1] \o p[i]
                 /\ FlattenSeq(p) = f[n]
    BY FlattenGrows DEF n
  <1>5. PICK h : /\ h[0] = <<>> /\ \A i \in 1..(n + 1) : h[i] = h[i - 1] \o q[i]
                 /\ FlattenSeq(q) = h[n + 1]
    BY <1>2, <1>3, FlattenGrows
  <1> DEFINE G == {i \in 0..n : f[i] = h[i]}
  <1>6. 0 \in G
    BY <1>1, <1>4, <1>5
  <1>7. ASSUME NEW i \in 1..n, i - 1 \in G PROVE i \in G
    <2>1. i \in 1..(n + 1) /\ i \in 0..n
      BY <1>1
    <2> QED
      BY <1>2, <1>4, <1>5, <1>7, <2>1
  <1> HIDE DEF G
  <1>8. f[n] = h[n]
    <2>1. n \in G
      BY <1>1, <1>6, <1>7, AllOfThem
    <2> QED
      BY <2>1 DEF G
  <1>9. n + 1 \in 1..(n + 1) /\ (n + 1) - 1 = n
    BY <1>1
  <1> QED
    BY <1>2, <1>4, <1>5, <1>8, <1>9 DEF q

(***************************************************************************)
(* How often a list has a predicate of a subject, in one graph.            *)
(***************************************************************************)
Said(s, g, subject, predicate) ==
  {i \in DOMAIN s : s[i].graph = g /\ s[i].subject = subject /\ s[i].predicate = predicate}
Times(s, g, subject, predicate) == Cardinality(Said(s, g, subject, predicate))

LEMMA TimesAreCounted ==
  ASSUME NEW s, IsList(s), NEW g, NEW subject, NEW predicate
  PROVE  /\ IsFiniteSet(Said(s, g, subject, predicate))
         /\ Times(s, g, subject, predicate) \in Nat
  <1>1. Len(s) \in Nat /\ Said(s, g, subject, predicate) \in SUBSET (1..Len(s))
    BY ListsHaveALength DEF Said
  <1>2. IsFiniteSet(1..Len(s))
    BY <1>1, FS_Interval
  <1>3. IsFiniteSet(Said(s, g, subject, predicate))
    BY <1>1, <1>2, FS_Subset
  <1> QED
    BY <1>3, FS_CardinalityType DEF Times

LEMMA NeverSaid ==
  ASSUME NEW s, IsList(s), NEW g, NEW subject, NEW predicate,
         \A q \in ToSet(s) : ~(q.graph = g /\ q.subject = subject /\ q.predicate = predicate)
  PROVE  Times(s, g, subject, predicate) = 0
  <1>1. Said(s, g, subject, predicate) = {}
    BY DEF Said, ToSet
  <1> QED
    BY <1>1, FS_EmptySet DEF Times

LEMMA SaidHere ==
  ASSUME NEW s, NEW g, NEW subject, NEW predicate, NEW k \in DOMAIN s,
         \A i \in DOMAIN s : (s[i].graph = g /\ s[i].subject = subject /\ s[i].predicate = predicate)
                               <=> i = k
  PROVE  Times(s, g, subject, predicate) = 1
  <1>1. Said(s, g, subject, predicate) = {k}
    BY DEF Said
  <1> QED
    BY <1>1, FS_Singleton DEF Times

LEMMA JoinedTimes ==
  ASSUME NEW s, NEW t, IsList(s), IsList(t), NEW g, NEW subject, NEW predicate
  PROVE  Times(s \o t, g, subject, predicate)
           = Times(s, g, subject, predicate) + Times(t, g, subject, predicate)
  <1> DEFINE joined == s \o t
             A == Said(s, g, subject, predicate)
             B == Said(t, g, subject, predicate)
             moved == [i \in B |-> Len(s) + i]
             C == {Len(s) + i : i \in B}
  <1>1. /\ Len(s) \in Nat /\ DOMAIN s = 1..Len(s)
        /\ Len(t) \in Nat /\ DOMAIN t = 1..Len(t)
    BY ListsHaveALength
  <1>2. /\ DOMAIN joined = 1..(Len(s) + Len(t))
        /\ \A i \in DOMAIN s : joined[i] = s[i]
        /\ \A i \in DOMAIN t : joined[Len(s) + i] = t[i]
    BY JoinedList
  <1>3. IsFiniteSet(A) /\ IsFiniteSet(B) /\ Cardinality(A) \in Nat /\ Cardinality(B) \in Nat
    BY TimesAreCounted DEF Times
  <1>4. B \subseteq 1..Len(t) /\ A \subseteq 1..Len(s)
    BY <1>1 DEF Said
  <1>5. IsFiniteSet(C) /\ Cardinality(C) = Cardinality(B)
    <2>1. moved \in Bijection(B, C)
      <3>1. \A i, j \in B : moved[i] = moved[j] => i = j
        BY <1>1, <1>4
      <3>2. moved \in [B -> C] /\ \A c \in C : \E i \in B : moved[i] = c
        OBVIOUS
      <3> QED
        BY <3>1, <3>2 DEF Bijection, Injection, Surjection, IsInjective
    <2> QED
      BY <1>3, <2>1, FS_Bijection DEF ExistsBijection
  <1>6. Said(joined, g, subject, predicate) = A \cup C
    <2> HIDE DEF joined
    <2>1. ASSUME NEW k \in DOMAIN joined
          PROVE  k \in Said(joined, g, subject, predicate) <=> k \in A \cup C
      <3>1. CASE k \in DOMAIN s
        <4>1. k \notin C
          BY <1>1, <1>4, <3>1
        <4> QED
          BY <1>2, <2>1, <3>1, <4>1 DEF Said
      <3>2. CASE k \notin DOMAIN s
        <4>1. k - Len(s) \in DOMAIN t /\ k = Len(s) + (k - Len(s)) /\ k \notin A
          BY <1>1, <1>2, <1>4, <2>1, <3>2
        <4>2. joined[k] = t[k - Len(s)]
          BY <1>2, <4>1
        <4>3. k \in C <=> k - Len(s) \in B
          <5>1. \A i \in B : k = Len(s) + i => i = k - Len(s)
            BY <1>1, <1>4
          <5> QED
            BY <4>1, <5>1
        <4> QED
          BY <2>1, <4>1, <4>2, <4>3 DEF Said
      <3> QED
        BY <3>1, <3>2
    <2>2. A \cup C \subseteq DOMAIN joined
      BY <1>1, <1>2, <1>4
    <2>3. Said(joined, g, subject, predicate) \subseteq DOMAIN joined
      BY DEF Said
    <2> QED
      BY <2>1, <2>2, <2>3
  <1>7. A \cap C = {}
    BY <1>1, <1>4
  <1> HIDE DEF A, B, C, joined, moved
  <1>8. Cardinality(A \cup C) = Cardinality(A) + Cardinality(C)
    <2>1. Cardinality(A \cup C) = Cardinality(A) + Cardinality(C) - Cardinality(A \cap C)
      BY <1>3, <1>5, FS_Union
    <2>2. Cardinality(A \cap C) = 0
      BY <1>7, FS_EmptySet
    <2> QED
      BY <1>3, <1>5, <2>1, <2>2
  <1> QED
    BY <1>5, <1>6, <1>8 DEF Times, A, B, joined

\* What only one of the pieces says is said as often as it says it.
LEMMA FlattenTimes ==
  ASSUME NEW p, Pieces(p), NEW g, NEW subject, NEW predicate, NEW m \in DOMAIN p,
         \A i \in DOMAIN p : i # m => Times(p[i], g, subject, predicate) = 0
  PROVE  Times(FlattenSeq(p), g, subject, predicate) = Times(p[m], g, subject, predicate)
  <1> DEFINE n == Len(p)
             T(s) == Times(s, g, subject, predicate)
  <1>1. n \in Nat /\ DOMAIN p = 1..n /\ \A i \in 1..n : IsList(p[i])
    BY ListsHaveALength DEF Pieces
  <1>2. PICK f : /\ f[0] = <<>> /\ \A i \in 1..n : f[i] = f[i - 1] \o p[i]
                 /\ FlattenSeq(p) = f[n] /\ \A i \in 0..n : IsList(f[i])
    BY FlattenGrows
  <1> HIDE DEF n
  <1>3. \A i \in 1..n : T(p[i]) \in Nat
    BY <1>1, TimesAreCounted
  <1>4. \A i \in 1..n : T(f[i]) = T(f[i - 1]) + T(p[i])
    <2> TAKE i \in 1..n
    <2>0. i - 1 \in 0..n
      BY <1>1
    <2>1. IsList(f[i - 1]) /\ IsList(p[i]) /\ f[i] = f[i - 1] \o p[i]
      BY <1>1, <1>2, <2>0
    <2>2. T(f[i - 1] \o p[i]) = T(f[i - 1]) + T(p[i])
      BY <2>1, JoinedTimes
    <2> QED
      BY <2>1, <2>2
  <1>5. T(f[0]) = 0
    BY <1>2, EmptyList, NeverSaid
  <1> HIDE DEF T
  <1> DEFINE G == {i \in 0..n : T(f[i]) = IF i < m THEN 0 ELSE T(p[m])}
  <1>6. 0 \in G
    BY <1>1, <1>5
  <1>7. ASSUME NEW i \in 1..n, i - 1 \in G PROVE i \in G
    <2>1. T(f[i - 1]) = IF i - 1 < m THEN 0 ELSE T(p[m])
      BY <1>7
    <2>2. i # m => T(p[i]) = 0
      BY <1>1 DEF T
    <2>3. T(f[i]) = T(f[i - 1]) + T(p[i]) /\ T(p[m]) \in Nat
      BY <1>1, <1>3, <1>4
    <2>4. i \in 0..n
      BY <1>1
    <2> QED
      BY <1>1, <2>1, <2>2, <2>3, <2>4
  <1> HIDE DEF G
  <1>8. n \in G
    BY <1>1, <1>6, <1>7, AllOfThem
  <1>9. T(f[n]) = T(p[m])
    BY <1>1, <1>8 DEF G
  <1> QED
    BY <1>2, <1>9 DEF T

LEMMA FlattenNeverSaid ==
  ASSUME NEW p, Pieces(p), NEW g, NEW subject, NEW predicate,
         \A i \in DOMAIN p : Times(p[i], g, subject, predicate) = 0
  PROVE  Times(FlattenSeq(p), g, subject, predicate) = 0
  <1>1. CASE DOMAIN p = {}
    <2>1. p = <<>>
      BY <1>1, ListsHaveALength DEF Pieces
    <2> QED
      BY <2>1, FlattenNothing, EmptyList, NeverSaid
  <1>2. CASE DOMAIN p # {}
    BY <1>2, FlattenTimes
  <1> QED
    BY <1>1, <1>2

(***************************************************************************)
(* Where the terminators are.                                              *)
(***************************************************************************)
EndsWell(s) == s = <<>> \/ IsTerminator(s[Len(s)])

LEMMA JoinedEnds ==
  ASSUME NEW s, NEW t, IsList(s), IsList(t), EndsWell(s), EndsWell(t)
  PROVE  EndsWell(s \o t)
  <1>1. /\ Len(s) \in Nat /\ DOMAIN s = 1..Len(s)
        /\ Len(t) \in Nat /\ DOMAIN t = 1..Len(t)
    BY ListsHaveALength
  <1>2. CASE t = <<>>
    <2>1. s \o t = s
      BY <1>2 DEF IsList
    <2> QED
      BY <2>1
  <1>3. CASE t # <<>>
    <2>1. Len(t) \in DOMAIN t
      <3>1. Len(t) # 0
        BY <1>1, <1>3, ListsHaveALength
      <3> QED
        BY <1>1, <3>1
    <2>2. (s \o t)[Len(s \o t)] = t[Len(t)]
      BY <2>1, JoinedList
    <2> QED
      BY <1>3, <2>2 DEF EndsWell
  <1> QED
    BY <1>2, <1>3

LEMMA FlattenEnds ==
  ASSUME NEW p, Pieces(p), \A i \in DOMAIN p : EndsWell(p[i])
  PROVE  EndsWell(FlattenSeq(p))
  <1> DEFINE n == Len(p)
  <1>1. n \in Nat /\ DOMAIN p = 1..n /\ \A i \in 1..n : IsList(p[i])
    BY ListsHaveALength DEF Pieces
  <1>2. PICK f : /\ f[0] = <<>> /\ \A i \in 1..n : f[i] = f[i - 1] \o p[i]
                 /\ FlattenSeq(p) = f[n] /\ \A i \in 0..n : IsList(f[i])
    BY FlattenGrows
  <1> HIDE DEF n
  <1> DEFINE G == {i \in 0..n : EndsWell(f[i])}
  <1>3. 0 \in G
    BY <1>1, <1>2 DEF EndsWell
  <1>4. ASSUME NEW i \in 1..n, i - 1 \in G PROVE i \in G
    <2>1. i - 1 \in 0..n /\ i \in 0..n
      BY <1>1
    <2> QED
      BY <1>1, <1>2, <1>4, <2>1, JoinedEnds
  <1> HIDE DEF G
  <1>5. n \in G
    <2>1. \A i \in 1..n : i - 1 \in G => i \in G
      BY <1>4
    <2>2. \A i \in 0..n : i \in G
      BY <1>1, <1>3, <2>1, AllOfThem
    <2> QED
      BY <1>1, <2>2
  <1> QED
    BY <1>2, <1>5 DEF G
(***************************************************************************)
(* Kept lists, for any list they are kept of.                              *)
(***************************************************************************)
LEMMA KeptIsAList ==
  ASSUME NEW list, IsList(list), NEW I, I \subseteq DOMAIN list
  PROVE  /\ IsList(Kept(list, I)) /\ Len(Kept(list, I)) = Cardinality(I)
         /\ DOMAIN Kept(list, I) = 1..Cardinality(I)
         /\ \A k \in DOMAIN Kept(list, I) : /\ Position(I, k) \in I
                                            /\ Kept(list, I)[k] = list[Position(I, k)]
         /\ \A i \in I : \E k \in DOMAIN Kept(list, I) : Kept(list, I)[k] = list[i]
         /\ \A k, l \in DOMAIN Kept(list, I) : Position(I, k) = Position(I, l) => k = l
  <1> DEFINE c == Cardinality(I)
             kept == Kept(list, I)
             n == Len(list)
  <1>0. n \in Nat /\ I \subseteq 1..n
    BY ListsHaveALength
  <1>1. c \in Nat
    BY <1>0, RanksGrow
  <1>2. kept = [k \in 1..c |-> list[Position(I, k)]]
    BY DEF Kept
  <1>3. IsList(kept) /\ Len(kept) = c
    <2>1. kept = [k \in 1..c |-> kept[k]]
      BY <1>2
    <2> QED
      BY <1>1, <2>1, FunctionsAreLists
  <1>4. DOMAIN kept = 1..c /\ \A k \in 1..c : kept[k] = list[Position(I, k)]
    BY <1>2
  <1>5. \A k \in 1..c : Position(I, k) \in I /\ Rank(I, Position(I, k)) = k
    BY <1>0, PositionsAreRanked
  <1>6. \A i \in I : Rank(I, i) \in 1..c /\ Position(I, Rank(I, i)) = i
    BY <1>0, RanksGrow, PositionsAreRanked
  <1>7. \A i \in I : \E k \in DOMAIN kept : kept[k] = list[i]
    BY <1>4, <1>6
  <1>8. \A k, l \in DOMAIN kept : Position(I, k) = Position(I, l) => k = l
    BY <1>4, <1>5
  <1> QED
    BY <1>3, <1>4, <1>5, <1>7, <1>8

LEMMA PublishableIsOnce ==
  ASSUME NEW list, IsList(list), NEW said
  PROVE  LET kept == Publishable(list, said) IN
         /\ IsList(kept)
         /\ \A k \in DOMAIN kept : \E i \in DOMAIN list : kept[k] = list[i]
         /\ \A k, l \in DOMAIN kept : kept[k].metric = kept[l].metric => k = l
  <1> DEFINE Same(i) == {j \in DOMAIN list : list[j].metric = list[i].metric}
             I == {i \in DOMAIN list : /\ IsIri(list[i].metric)
                                       /\ \A j \in Same(i) : said[j] = said[i] /\ i <= j}
             kept == Kept(list, I)
  <1>1. Publishable(list, said) = kept
    BY DEF Publishable
  <1>2. I \subseteq DOMAIN list /\ DOMAIN list \subseteq Nat
    BY ListsHaveALength
  <1>3. \A i, j \in I : list[i].metric = list[j].metric => i = j
    BY <1>2
  <1> HIDE DEF I
  <1>4. /\ IsList(kept)
        /\ \A k \in DOMAIN kept : Position(I, k) \in I /\ kept[k] = list[Position(I, k)]
        /\ \A k, l \in DOMAIN kept : Position(I, k) = Position(I, l) => k = l
    BY <1>2, KeptIsAList
  <1> HIDE DEF kept
  <1>5. \A k \in DOMAIN kept : \E i \in DOMAIN list : kept[k] = list[i]
    BY <1>2, <1>4
  <1>6. \A k, l \in DOMAIN kept : kept[k].metric = kept[l].metric => k = l
    BY <1>3, <1>4
  <1> QED
    BY <1>1, <1>4, <1>5, <1>6

LEMMA WritableIsAList ==
  ASSUME NEW names, IsList(names)
  PROVE  /\ IsList(Writable(names)) /\ Len(Writable(names)) \in Nat
         /\ DOMAIN Writable(names) = 1..Len(Writable(names))
  <1>1. {i \in DOMAIN names : IsIri(names[i])} \subseteq DOMAIN names
    OBVIOUS
  <1>2. IsList(Writable(names))
    BY <1>1, KeptIsAList DEF Writable
  <1> QED
    BY <1>2, ListsHaveALength

(***************************************************************************)
(* What lists of quads say: of one subject in one graph, with which        *)
(* predicates.                                                             *)
(***************************************************************************)
Saying(s, g, subject, predicates) ==
  /\ IsList(s)
  /\ \A q \in ToSet(s) : q.graph = g /\ q.subject = subject /\ q.predicate \in predicates

LEMMA JoinedSaying ==
  ASSUME NEW s, NEW t, NEW g, NEW subject, NEW ps,
         Saying(s, g, subject, ps), Saying(t, g, subject, ps)
  PROVE  Saying(s \o t, g, subject, ps)
  BY JoinedSet DEF Saying

LEMMA OptionalSaying ==
  ASSUME NEW value, NEW s, NEW g, NEW subject, NEW ps, Saying(s, g, subject, ps)
  PROVE  /\ Saying(Optional(value, s), g, subject, ps) /\ Saying(<<>>, g, subject, ps)
         /\ ToSet(Optional(value, s)) \subseteq ToSet(s)
  BY EmptyList DEF Saying, Optional

\* A list whose predicates are others does not say this one.
LEMMA OthersSaid ==
  ASSUME NEW s, NEW g, NEW subject, NEW ps, Saying(s, g, subject, ps),
         NEW subject2, NEW predicate, predicate \notin ps \/ subject2 # subject
  PROVE  Times(s, g, subject2, predicate) = 0
  BY NeverSaid DEF Saying

MeasurementTerms == {"rdf:type", "computedOn", "isMeasurementOf", "declaredCount", "observedCount",
                     "value", "wasGeneratedBy", "elapsedMs", "level"}
NotMeasuredTerms == {"rdf:type", "notMeasuredOn", "notMeasuredMetric", "notMeasuredReason",
                     "wasGeneratedBy"}
SampleTerms == {"rdf:type", "sampledFrom", "sampledBy", "sampledValue", "sampleTruncated",
                "sampleSize", "wasGeneratedBy"}

LEMMA MeasurementSays ==
  ASSUME NEW run, NEW e, NEW row
  PROVE  LET s == Subject("measurement", run, e, row.metric) IN
         /\ Saying(Measurement(run, e, row), RunGraph(run), s, MeasurementTerms)
         /\ Times(Measurement(run, e, row), RunGraph(run), s, "value") = 1
  <1> DEFINE s == Subject("measurement", run, e, row.metric)
             g == RunGraph(run)
             Says(p, o) == Quad(g, s, p, o)
             A == <<Says("rdf:type", Text("QualityMeasurement")), Says("computedOn", Node(e)),
                    Says("isMeasurementOf", Node(row.metric))>>
             B == Optional(row.declared, <<Says("declaredCount", Number(row.declared))>>)
             C == Optional(row.observed, <<Says("observedCount", Number(row.observed))>>)
             D == <<Says("value", Text(row.verdict)), Says("wasGeneratedBy", Activity(run))>>
             E == Optional(row.elapsed, <<Says("elapsedMs", Number(row.elapsed))>>)
             F == Optional(row.level, <<Says("level", Number(row.level))>>)
             ps == MeasurementTerms \ {"value"}
  <1>1. Measurement(run, e, row) = A \o B \o C \o D \o E \o F
    BY DEF Measurement
  <1>2. Saying(A, g, s, ps)
    BY Triples DEF Saying, Quad, MeasurementTerms
  <1>3. /\ Saying(<<Says("declaredCount", Number(row.declared))>>, g, s, ps)
        /\ Saying(<<Says("observedCount", Number(row.observed))>>, g, s, ps)
        /\ Saying(<<Says("elapsedMs", Number(row.elapsed))>>, g, s, ps)
        /\ Saying(<<Says("level", Number(row.level))>>, g, s, ps)
    BY Singles DEF Saying, Quad, MeasurementTerms
  <1>4. Saying(B, g, s, ps) /\ Saying(C, g, s, ps) /\ Saying(E, g, s, ps) /\ Saying(F, g, s, ps)
    BY <1>3, OptionalSaying
  <1>5. Saying(D, g, s, MeasurementTerms)
    BY Pairs DEF Saying, Quad, MeasurementTerms
  <1>6. Times(D, g, s, "value") = 1
    <2>1. 1 \in DOMAIN D /\ \A i \in DOMAIN D : (D[i].graph = g /\ D[i].subject = s /\ D[i].predicate = "value") <=> i = 1
      BY DEF Quad
    <2> QED
      BY <2>1, SaidHere
  <1> HIDE DEF A, B, C, D, E, F, s, g, ps
  <1>7. ASSUME NEW X, Saying(X, g, s, ps)
        PROVE  /\ Saying(X, g, s, MeasurementTerms)
               /\ Times(X, g, s, "value") = 0 /\ IsList(X)
    <2>1. "value" \notin ps /\ ps \subseteq MeasurementTerms
      BY DEF ps
    <2>2. Times(X, g, s, "value") = 0
      BY <1>7, <2>1, OthersSaid
    <2> QED
      BY <1>7, <2>1, <2>2 DEF Saying
  <1>8. Saying(A \o B \o C, g, s, ps)
    BY <1>2, <1>4, JoinedSaying
  <1>9. ASSUME NEW X, NEW Y, Saying(X, g, s, MeasurementTerms), Saying(Y, g, s, MeasurementTerms)
        PROVE  /\ Saying(X \o Y, g, s, MeasurementTerms)
               /\ Times(X \o Y, g, s, "value") = Times(X, g, s, "value") + Times(Y, g, s, "value")
    <2>1. IsList(X) /\ IsList(Y)
      BY <1>9 DEF Saying
    <2> QED
      BY <1>9, <2>1, JoinedSaying, JoinedTimes
  <1>10. /\ Saying(A \o B \o C \o D, g, s, MeasurementTerms)
         /\ Times(A \o B \o C \o D, g, s, "value") = 1
    BY <1>5, <1>6, <1>7, <1>8, <1>9
  <1>11. /\ Saying(A \o B \o C \o D \o E, g, s, MeasurementTerms)
         /\ Times(A \o B \o C \o D \o E, g, s, "value") = 1
    BY <1>4, <1>7, <1>9, <1>10
  <1>12. /\ Saying(A \o B \o C \o D \o E \o F, g, s, MeasurementTerms)
         /\ Times(A \o B \o C \o D \o E \o F, g, s, "value") = 1
    BY <1>4, <1>7, <1>9, <1>11
  <1> QED
    BY <1>1, <1>12 DEF s, g

LEMMA NotMeasuredSays ==
  ASSUME NEW run, NEW e, NEW fact
  PROVE  LET s == Subject("not-measured", run, e, fact.metric) IN
         /\ Saying(NotMeasured(run, e, fact), RunGraph(run), s, NotMeasuredTerms)
         /\ Times(NotMeasured(run, e, fact), RunGraph(run), s, "notMeasuredReason") = 1
  <1> DEFINE s == Subject("not-measured", run, e, fact.metric)
             g == RunGraph(run)
             L == NotMeasured(run, e, fact)
  <1>1. Saying(L, g, s, NotMeasuredTerms)
    BY Fives DEF Saying, Quad, NotMeasured, NotMeasuredTerms
  <1>2. 4 \in DOMAIN L /\ \A i \in DOMAIN L :
          (L[i].graph = g /\ L[i].subject = s /\ L[i].predicate = "notMeasuredReason") <=> i = 4
    BY DEF Quad, NotMeasured
  <1>3. Times(L, g, s, "notMeasuredReason") = 1
    BY <1>2, SaidHere
  <1> QED
    BY <1>1, <1>3

LEMMA SampleSays ==
  ASSUME NEW run, NEW e, NEW sample, IsList(sample.values)
  PROVE  LET s == Subject("content-sample", run, e, sample.metric)
             L == Sample(run, e, sample)
         IN /\ Saying(L, RunGraph(run), s, SampleTerms)
            /\ Times(L, RunGraph(run), s, "sampleSize") <= 1
            /\ \A q \in ToSet(L) : q.predicate = "sampleSize" =>
                 q.object = Number(Times(L, RunGraph(run), s, "sampledValue"))
  <1> DEFINE s == Subject("content-sample", run, e, sample.metric)
             g == RunGraph(run)
             Says(p, o) == Quad(g, s, p, o)
             w == Writable(sample.values)
             A == <<Says("rdf:type", Text("ContentSample")), Says("sampledFrom", Node(e)),
                    Says("sampledBy", Node(sample.metric))>>
             B == [i \in DOMAIN w |-> Says("sampledValue", Node(w[i]))]
             C == <<Says("sampleTruncated", Flag(sample.truncated)),
                    Says("sampleSize", Number(Len(w))), Says("wasGeneratedBy", Activity(run))>>
             ps == SampleTerms \ {"sampleSize"}
             Q == SampleTerms \ {"sampledValue"}
             L == Sample(run, e, sample)
  <1>1. L = IF w = <<>> THEN <<>> ELSE A \o B \o C
    BY DEF Sample
  <1>2. Saying(A, g, s, ps \cap Q)
    BY Triples DEF Saying, Quad, SampleTerms
  <1>3. Saying(C, g, s, Q)
    BY Triples DEF Saying, Quad, SampleTerms
  <1>4. /\ Saying(B, g, s, {"sampledValue"})
        /\ Len(w) \in Nat /\ DOMAIN B = 1..Len(w)
        /\ \A i \in DOMAIN B : B[i].graph = g /\ B[i].subject = s /\ B[i].predicate = "sampledValue"
    <2>1. Len(w) \in Nat /\ DOMAIN w = 1..Len(w)
      BY WritableIsAList
    <2>2. B = [i \in 1..Len(w) |-> B[i]]
      BY <2>1
    <2>3. IsList(B)
      BY <2>1, <2>2, FunctionsAreLists
    <2>4. \A i \in DOMAIN B : B[i].graph = g /\ B[i].subject = s /\ B[i].predicate = "sampledValue"
      BY DEF Quad
    <2> QED
      BY <2>1, <2>3, <2>4 DEF Saying, ToSet
  <1>5. Times(B, g, s, "sampledValue") = Len(w)
    <2>1. Said(B, g, s, "sampledValue") = 1..Len(w)
      BY <1>4 DEF Said
    <2> QED
      BY <1>4, <2>1, FS_Interval DEF Times
  <1>6. Times(C, g, s, "sampleSize") = 1
    <2>1. 2 \in DOMAIN C /\ \A i \in DOMAIN C :
            (C[i].graph = g /\ C[i].subject = s /\ C[i].predicate = "sampleSize") <=> i = 2
      BY DEF Quad
    <2> QED
      BY <2>1, SaidHere
  <1>7. \A q \in ToSet(C) : q.predicate = "sampleSize" => q.object = Number(Len(w))
    BY Triples DEF Quad
  <1>8. \A q \in ToSet(A) \cup ToSet(B) : q.predicate # "sampleSize"
    BY <1>2, <1>4 DEF Saying
  <1> HIDE DEF A, B, C, s, g, L
  <1>9. CASE w = <<>>
    <2>1. L = <<>>
      BY <1>1, <1>9
    <2>2. Saying(L, g, s, SampleTerms)
      BY <2>1, EmptyList DEF Saying
    <2>3. Times(L, g, s, "sampleSize") = 0 /\ ToSet(L) = {}
      BY <2>1, EmptyList, NeverSaid
    <2> QED
      BY <2>2, <2>3 DEF L, g, s
  <1>10. CASE w # <<>>
    <2>1. IsList(A) /\ IsList(B) /\ IsList(C)
      BY <1>2, <1>3, <1>4 DEF Saying
    <2>2. Saying(A, g, s, SampleTerms) /\ Saying(B, g, s, SampleTerms) /\ Saying(C, g, s, SampleTerms)
      BY <1>2, <1>3, <1>4 DEF Saying, SampleTerms
    <2>3. /\ Saying(A \o B, g, s, SampleTerms) /\ Saying(A \o B \o C, g, s, SampleTerms)
          /\ IsList(A \o B) /\ ToSet(A \o B \o C) = ToSet(A) \cup ToSet(B) \cup ToSet(C)
      BY <2>1, <2>2, JoinedSaying, JoinedSet
    <2>4. /\ Times(A, g, s, "sampleSize") = 0 /\ Times(A, g, s, "sampledValue") = 0
          /\ Times(B, g, s, "sampleSize") = 0 /\ Times(C, g, s, "sampledValue") = 0
      BY <1>2, <1>3, <1>4, OthersSaid DEF SampleTerms
    <2>5. Times(A \o B \o C, g, s, "sampleSize") = 1
      <3>1. Times(A \o B, g, s, "sampleSize") = 0
        BY <2>1, <2>4, JoinedTimes
      <3> QED
        BY <1>6, <2>1, <2>3, <3>1, JoinedTimes
    <2>6. Times(A \o B \o C, g, s, "sampledValue") = Len(w)
      <3>1. Times(A \o B, g, s, "sampledValue") = Len(w)
        BY <1>4, <1>5, <2>1, <2>4, JoinedTimes
      <3> QED
        BY <1>4, <2>1, <2>3, <2>4, <3>1, JoinedTimes
    <2>7. L = A \o B \o C
      BY <1>1, <1>10
    <2>8. \A q \in ToSet(L) : q.predicate = "sampleSize" => q.object = Number(Len(w))
      BY <1>7, <1>8, <2>3, <2>7
    <2> HIDE DEF w
    <2>9. /\ Saying(L, g, s, SampleTerms) /\ Times(L, g, s, "sampleSize") <= 1
          /\ \A q \in ToSet(L) : q.predicate = "sampleSize" =>
               q.object = Number(Times(L, g, s, "sampledValue"))
      BY <2>3, <2>5, <2>6, <2>7, <2>8
    <2> QED
      BY <2>9 DEF L, g, s
  <1> QED
    BY <1>9, <1>10

(***************************************************************************)
(* Facts on different metrics have different subjects, so a list of them   *)
(* says of each what its own quads say.                                    *)
(***************************************************************************)
LEMMA SubjectsAreTheirs ==
  ASSUME NEW kind, NEW run, NEW e, NEW m
  PROVE  LET s == Subject(kind, run, e, m) IN
         s[1] = kind /\ s[2] = run /\ s[3] = e /\ s[4] = m
  BY DEF Subject

\* The quads of a list of facts, each on a metric of its own and saying predicate once.
OwnMetrics(kept, p, kind, run, e, ps, predicate) ==
  /\ IsList(kept)
  /\ \A k, l \in DOMAIN kept : kept[k].metric = kept[l].metric => k = l
  /\ p = [i \in DOMAIN kept |-> p[i]]
  /\ \A i \in DOMAIN kept :
       /\ Saying(p[i], RunGraph(run), Subject(kind, run, e, kept[i].metric), ps)
       /\ Times(p[i], RunGraph(run), Subject(kind, run, e, kept[i].metric), predicate) <= 1

LEMMA OncePerMetric ==
  ASSUME NEW kept, NEW p, NEW kind, NEW run, NEW e, NEW ps, NEW predicate,
         OwnMetrics(kept, p, kind, run, e, ps, predicate)
  PROVE  LET L == FlattenSeq(p) IN
         /\ IsList(L)
         /\ \A q \in ToSet(L) : /\ q.graph = RunGraph(run) /\ q.predicate \in ps
                                /\ \E i \in DOMAIN kept :
                                     /\ q.subject = Subject(kind, run, e, kept[i].metric)
                                     /\ q \in ToSet(p[i])
         /\ \A subject : Times(L, RunGraph(run), subject, predicate) <= 1
         /\ \A i \in DOMAIN kept : \A other :
              LET s == Subject(kind, run, e, kept[i].metric)
              IN Times(L, RunGraph(run), s, other) = Times(p[i], RunGraph(run), s, other)
  <1> DEFINE L == FlattenSeq(p)
             S(i) == Subject(kind, run, e, kept[i].metric)
             g == RunGraph(run)
  <1> USE DEF OwnMetrics
  <1>1. DOMAIN p = DOMAIN kept /\ Pieces(p)
    <2>1. DOMAIN p = DOMAIN kept
      OBVIOUS
    <2>2. IsList(p)
      BY ListsHaveALength, FunctionsAreLists
    <2> QED
      BY <2>1, <2>2 DEF Pieces, Saying
  <1>2. IsList(L) /\ ToSet(L) = UNION {ToSet(p[i]) : i \in DOMAIN kept}
    BY <1>1, FlattenedSet
  <1>3. \A q \in ToSet(L) : /\ q.graph = g /\ q.predicate \in ps
                            /\ \E i \in DOMAIN kept : q.subject = S(i) /\ q \in ToSet(p[i])
    BY <1>2 DEF Saying
  <1>4. \A i, j \in DOMAIN kept : S(i) = S(j) => i = j
    <2>1. \A i \in DOMAIN kept : S(i)[4] = kept[i].metric
      BY SubjectsAreTheirs
    <2> HIDE DEF S
    <2> QED
      BY <2>1
  <1> HIDE DEF S, L, g
  <1>5. ASSUME NEW i \in DOMAIN kept, NEW other
        PROVE  Times(L, g, S(i), other) = Times(p[i], g, S(i), other)
    <2>1. \A j \in DOMAIN p : j # i => Times(p[j], g, S(i), other) = 0
      <3> TAKE j \in DOMAIN p
      <3> HAVE j # i
      <3>1. Saying(p[j], g, S(j), ps) /\ S(i) # S(j)
        BY <1>1, <1>4 DEF S, g
      <3> QED
        BY <3>1, OthersSaid
    <2> QED
      BY <1>1, <2>1, FlattenTimes DEF L
  <1>6. ASSUME NEW subject PROVE Times(L, g, subject, predicate) <= 1
    <2>1. CASE \E i \in DOMAIN kept : subject = S(i)
      <3>1. PICK i \in DOMAIN kept : subject = S(i)
        BY <2>1
      <3>2. Times(p[i], g, S(i), predicate) <= 1
        BY DEF S, g
      <3> QED
        BY <1>5, <3>1, <3>2
    <2>2. CASE ~ \E i \in DOMAIN kept : subject = S(i)
      <3>1. Times(L, g, subject, predicate) = 0
        BY <1>2, <1>3, <2>2, NeverSaid
      <3> QED
        BY <3>1
    <2> QED
      BY <2>1, <2>2
  <1> QED
    BY <1>2, <1>3, <1>5, <1>6 DEF S, L, g
(***************************************************************************)
(* The lists of a chunk whose subjects the run mints.                      *)
(***************************************************************************)
LEMMA MeasurementsSay ==
  ASSUME NEW run, NEW e, NEW rows, IsList(rows)
  PROVE  LET L == Measurements(run, e, rows) IN
         /\ IsList(L)
         /\ \A q \in ToSet(L) : /\ q.graph = RunGraph(run) /\ q.predicate \in MeasurementTerms
                                /\ \E m : q.subject = Subject("measurement", run, e, m)
         /\ \A subject : Times(L, RunGraph(run), subject, "value") <= 1
  <1> DEFINE said == [i \in DOMAIN rows |-> <<rows[i].verdict, rows[i].level, rows[i].elapsed>>]
             kept == Publishable(rows, said)
             p == [i \in DOMAIN kept |-> Measurement(run, e, kept[i])]
             L == Measurements(run, e, rows)
  <1>1. L = FlattenSeq(p)
    BY DEF Measurements, Each
  <1>2. IsList(kept) /\ \A k, l \in DOMAIN kept : kept[k].metric = kept[l].metric => k = l
    BY PublishableIsOnce
  <1> HIDE DEF kept
  <1>3. p = [i \in DOMAIN kept |-> p[i]]
    OBVIOUS
  <1>4. \A i \in DOMAIN kept :
          /\ Saying(p[i], RunGraph(run), Subject("measurement", run, e, kept[i].metric), MeasurementTerms)
          /\ Times(p[i], RunGraph(run), Subject("measurement", run, e, kept[i].metric), "value") = 1
    BY MeasurementSays
  <1> HIDE DEF p, L
  <1>5. /\ IsList(FlattenSeq(p))
        /\ \A q \in ToSet(FlattenSeq(p)) :
             /\ q.graph = RunGraph(run) /\ q.predicate \in MeasurementTerms
             /\ \E i \in DOMAIN kept : /\ q.subject = Subject("measurement", run, e, kept[i].metric)
                                       /\ q \in ToSet(p[i])
        /\ \A subject : Times(FlattenSeq(p), RunGraph(run), subject, "value") <= 1
    <2>1. OwnMetrics(kept, p, "measurement", run, e, MeasurementTerms, "value")
      BY <1>2, <1>3, <1>4 DEF OwnMetrics
    <2> QED
      BY <2>1, OncePerMetric
  <1>6. \A q \in ToSet(L) : \E m : q.subject = Subject("measurement", run, e, m)
    BY <1>1, <1>5
  <1> QED
    BY <1>1, <1>5, <1>6 DEF L

LEMMA DeclinesSay ==
  ASSUME NEW run, NEW e, NEW declined, IsList(declined)
  PROVE  LET L == Declines(run, e, declined) IN
         /\ IsList(L)
         /\ \A q \in ToSet(L) : /\ q.graph = RunGraph(run) /\ q.predicate \in NotMeasuredTerms
                                /\ \E m : q.subject = Subject("not-measured", run, e, m)
         /\ \A subject : Times(L, RunGraph(run), subject, "notMeasuredReason") <= 1
  <1> DEFINE said == [i \in DOMAIN declined |-> declined[i].reason]
             kept == Publishable(declined, said)
             p == [i \in DOMAIN kept |-> NotMeasured(run, e, kept[i])]
             L == Declines(run, e, declined)
  <1>1. L = FlattenSeq(p)
    BY DEF Declines, Each
  <1>2. IsList(kept) /\ \A k, l \in DOMAIN kept : kept[k].metric = kept[l].metric => k = l
    BY PublishableIsOnce
  <1> HIDE DEF kept
  <1>3. p = [i \in DOMAIN kept |-> p[i]]
    OBVIOUS
  <1>4. \A i \in DOMAIN kept :
          /\ Saying(p[i], RunGraph(run), Subject("not-measured", run, e, kept[i].metric), NotMeasuredTerms)
          /\ Times(p[i], RunGraph(run), Subject("not-measured", run, e, kept[i].metric),
                   "notMeasuredReason") = 1
    BY NotMeasuredSays
  <1> HIDE DEF p, L
  <1>5. /\ IsList(FlattenSeq(p))
        /\ \A q \in ToSet(FlattenSeq(p)) :
             /\ q.graph = RunGraph(run) /\ q.predicate \in NotMeasuredTerms
             /\ \E i \in DOMAIN kept : /\ q.subject = Subject("not-measured", run, e, kept[i].metric)
                                       /\ q \in ToSet(p[i])
        /\ \A subject : Times(FlattenSeq(p), RunGraph(run), subject, "notMeasuredReason") <= 1
    <2>1. OwnMetrics(kept, p, "not-measured", run, e, NotMeasuredTerms, "notMeasuredReason")
      BY <1>2, <1>3, <1>4 DEF OwnMetrics
    <2> QED
      BY <2>1, OncePerMetric
  <1>6. \A q \in ToSet(L) : \E m : q.subject = Subject("not-measured", run, e, m)
    BY <1>1, <1>5
  <1> QED
    BY <1>1, <1>5, <1>6 DEF L

LEMMA SamplesSay ==
  ASSUME NEW run, NEW e, NEW samples, IsList(samples),
         \A i \in DOMAIN samples : IsList(samples[i].values)
  PROVE  LET L == Samples(run, e, samples) IN
         /\ IsList(L)
         /\ \A q \in ToSet(L) :
              /\ q.graph = RunGraph(run) /\ q.predicate \in SampleTerms
              /\ \E m : q.subject = Subject("content-sample", run, e, m)
              /\ q.predicate = "sampleSize" =>
                   q.object = Number(Times(L, RunGraph(run), q.subject, "sampledValue"))
         /\ \A subject : Times(L, RunGraph(run), subject, "sampleSize") <= 1
  <1> DEFINE said == [i \in DOMAIN samples |-> <<samples[i].values, samples[i].truncated>>]
             kept == Publishable(samples, said)
             p == [i \in DOMAIN kept |-> Sample(run, e, kept[i])]
             S(i) == Subject("content-sample", run, e, kept[i].metric)
             g == RunGraph(run)
             L == Samples(run, e, samples)
  <1>1. L = FlattenSeq(p)
    BY DEF Samples, Each
  <1>2. /\ IsList(kept) /\ \A k, l \in DOMAIN kept : kept[k].metric = kept[l].metric => k = l
        /\ \A k \in DOMAIN kept : IsList(kept[k].values)
    <2>1. /\ IsList(kept) /\ \A k, l \in DOMAIN kept : kept[k].metric = kept[l].metric => k = l
          /\ \A k \in DOMAIN kept : \E i \in DOMAIN samples : kept[k] = samples[i]
      BY PublishableIsOnce
    <2> HIDE DEF kept
    <2> QED
      BY <2>1
  <1> HIDE DEF kept
  <1>3. p = [i \in DOMAIN kept |-> p[i]]
    OBVIOUS
  <1>4. \A i \in DOMAIN kept :
          /\ Saying(p[i], g, S(i), SampleTerms)
          /\ Times(p[i], g, S(i), "sampleSize") <= 1
          /\ \A q \in ToSet(p[i]) : q.predicate = "sampleSize" =>
               q.object = Number(Times(p[i], g, S(i), "sampledValue"))
    BY <1>2, SampleSays
  <1> HIDE DEF p, L
  <1>5. /\ IsList(FlattenSeq(p))
        /\ \A q \in ToSet(FlattenSeq(p)) :
             /\ q.graph = g /\ q.predicate \in SampleTerms
             /\ \E i \in DOMAIN kept : q.subject = S(i) /\ q \in ToSet(p[i])
        /\ \A subject : Times(FlattenSeq(p), g, subject, "sampleSize") <= 1
        /\ \A i \in DOMAIN kept : \A other :
             Times(FlattenSeq(p), g, S(i), other) = Times(p[i], g, S(i), other)
    <2>1. OwnMetrics(kept, p, "content-sample", run, e, SampleTerms, "sampleSize")
      BY <1>2, <1>3, <1>4 DEF OwnMetrics
    <2> QED
      BY <2>1, OncePerMetric
  <1> HIDE DEF g
  <1>6. \A q \in ToSet(L) : \E m : q.subject = Subject("content-sample", run, e, m)
    BY <1>1, <1>5
  <1>7. \A q \in ToSet(L) : q.predicate = "sampleSize" =>
          q.object = Number(Times(L, g, q.subject, "sampledValue"))
    <2> TAKE q \in ToSet(L)
    <2> HAVE q.predicate = "sampleSize"
    <2>1. PICK i \in DOMAIN kept : q.subject = S(i) /\ q \in ToSet(p[i])
      BY <1>1, <1>5
    <2>2. q.object = Number(Times(p[i], g, S(i), "sampledValue"))
      BY <1>4, <2>1
    <2> HIDE DEF S
    <2> QED
      BY <1>1, <1>5, <2>1, <2>2
  <1> QED
    BY <1>1, <1>5, <1>6, <1>7 DEF L, g

(***************************************************************************)
(* The first quads of a list.                                              *)
(***************************************************************************)
LEMMA FirstOnes ==
  ASSUME NEW s, IsList(s), NEW k \in 0..Len(s)
  PROVE  LET u == SubSeq(s, 1, k) IN
         /\ IsList(u) /\ Len(u) = k /\ DOMAIN u = 1..k
         /\ \A i \in 1..k : u[i] = s[i]
         /\ k = 0 => u = <<>>
         /\ k = Len(s) => u = s
  <1> DEFINE u == SubSeq(s, 1, k)
             S == {s[i] : i \in DOMAIN s}
  <1>1. s \in Seq(S) /\ Len(s) \in Nat /\ k \in Nat /\ k <= Len(s)
    BY ListsHaveALength DEF IsList
  <1>2. u = [i \in 1..k |-> s[i]]
    <2> HIDE DEF S
    <2> QED
      BY <1>1
  <1>3. u = [i \in 1..k |-> u[i]]
    BY <1>2
  <1>4. \A i \in 1..k : u[i] = s[i]
    BY <1>2
  <1> HIDE DEF u
  <1>5. IsList(u) /\ Len(u) = k /\ DOMAIN u = 1..k
    BY <1>1, <1>3, FunctionsAreLists
  <1>6. k = 0 => u = <<>>
    BY <1>3
  <1>7. k = Len(s) => u = s
    <2>1. s = [i \in 1..Len(s) |-> s[i]]
      BY ListsHaveALength
    <2> QED
      BY <1>2, <2>1 DEF u
  <1> QED
    BY <1>4, <1>5, <1>6, <1>7 DEF u

LEMMA JoinedNothing ==
  ASSUME NEW s, IsList(s)
  PROVE  s \o <<>> = s /\ <<>> \o s = s
  BY DEF IsList

(***************************************************************************)
(* What the loader takes of a file.                                        *)
(***************************************************************************)
\* As much of a list as another begins with.
LEMMA BeginsWith ==
  ASSUME NEW s, NEW t, IsList(s), IsList(t)
  PROVE  IsPrefix(s, s \o t) /\ SubSeq(s \o t, 1, Len(s)) = s
  <1> DEFINE u == s \o t
             n == Len(s)
  <1>1. n \in Nat /\ Len(t) \in Nat /\ DOMAIN s = 1..n /\ s = [i \in 1..n |-> s[i]]
    BY ListsHaveALength
  <1>2. IsList(u) /\ Len(u) = n + Len(t) /\ \A i \in 1..n : u[i] = s[i]
    BY <1>1, JoinedList
  <1> HIDE DEF u, n
  <1>3. n \in 0..Len(u)
    BY <1>1, <1>2
  <1> DEFINE v == SubSeq(u, 1, n)
  <1>4. IsList(v) /\ DOMAIN v = 1..n /\ Len(v) = n /\ \A i \in 1..n : v[i] = u[i]
    BY <1>2, <1>3, FirstOnes
  <1>5. v = [i \in 1..n |-> v[i]]
    BY <1>4, ListsHaveALength
  <1> HIDE DEF v
  <1>6. v = s
    BY <1>1, <1>2, <1>4, <1>5
  <1>7. n \in 0..Len(s) /\ Len(s) = n
    BY <1>1 DEF n
  <1>8. SubSeq(s, 1, n) = s
    BY <1>7, FirstOnes
  <1> QED
    BY <1>1, <1>2, <1>6, <1>8 DEF IsPrefix, u, v, n

LEMMA CutOfJoined ==
  ASSUME NEW s, NEW t, IsList(s), IsList(t), NEW k \in 0..Len(s \o t)
  PROVE  \/ k \in 0..Len(s) /\ SubSeq(s \o t, 1, k) = SubSeq(s, 1, k)
         \/ k - Len(s) \in 0..Len(t) /\ SubSeq(s \o t, 1, k) = s \o SubSeq(t, 1, k - Len(s))
  <1> DEFINE u == s \o t
             n == Len(s)
             v == SubSeq(u, 1, k)
  <1>1. /\ n \in Nat /\ DOMAIN s = 1..n /\ Len(t) \in Nat /\ DOMAIN t = 1..Len(t)
        /\ IsList(u) /\ Len(u) = n + Len(t)
        /\ \A i \in DOMAIN s : u[i] = s[i]
        /\ \A i \in DOMAIN t : u[n + i] = t[i]
    BY ListsHaveALength, JoinedList
  <1>2. IsList(v) /\ Len(v) = k /\ DOMAIN v = 1..k /\ \A i \in 1..k : v[i] = u[i]
    BY <1>1, FirstOnes
  <1>3. v = [i \in 1..k |-> v[i]] /\ k \in Nat /\ k \in 0..(n + Len(t))
    <2>1. k \in 0..(n + Len(t))
      BY <1>1
    <2> HIDE DEF u, v, n
    <2> QED
      BY <1>1, <1>2, <2>1, ListsHaveALength
  <1> HIDE DEF u, v, n
  <1>4. CASE k <= n
    <2> DEFINE w == SubSeq(s, 1, k)
    <2>1. k \in 0..n
      BY <1>1, <1>3, <1>4
    <2>2. IsList(w) /\ Len(w) = k /\ \A i \in 1..k : w[i] = s[i]
      BY <2>1, FirstOnes DEF n
    <2> HIDE DEF w
    <2>3. \A i \in 1..k : v[i] = w[i]
      <3>1. \A i \in 1..k : i \in DOMAIN s
        BY <1>1, <2>1
      <3> QED
        BY <1>1, <1>2, <2>2, <3>1
    <2>4. w = [i \in 1..k |-> w[i]]
      BY <2>2, ListsHaveALength
    <2>5. v = w
      BY <1>3, <2>3, <2>4
    <2> QED
      BY <2>1, <2>5 DEF u, v, n, w
  <1>5. CASE ~(k <= n)
    <2> DEFINE j == k - n
               w == SubSeq(t, 1, j)
               x == s \o w
    <2>1. j \in 0..Len(t) /\ k = n + j
      BY <1>1, <1>3, <1>5
    <2> HIDE DEF j
    <2>2. IsList(w) /\ Len(w) = j /\ DOMAIN w = 1..j /\ \A i \in 1..j : w[i] = t[i]
      BY <2>1, FirstOnes
    <2> HIDE DEF w
    <2>3. /\ IsList(x) /\ Len(x) = n + j
          /\ \A i \in DOMAIN s : x[i] = s[i]
          /\ \A i \in DOMAIN w : x[n + i] = w[i]
      BY <2>2, JoinedList DEF n
    <2> HIDE DEF x
    <2>4. \A i \in 1..k : v[i] = x[i]
      <3> TAKE i \in 1..k
      <3>1. CASE i \in DOMAIN s
        BY <1>1, <1>2, <2>3, <3>1
      <3>2. CASE i \notin DOMAIN s
        <4>1. i - n \in 1..j /\ n + (i - n) = i
          BY <1>1, <1>3, <2>1, <3>2
        <4>2. i - n \in DOMAIN t
          BY <1>1, <2>1, <4>1
        <4>3. u[n + (i - n)] = t[i - n] /\ x[n + (i - n)] = w[i - n] /\ w[i - n] = t[i - n]
          BY <1>1, <2>2, <2>3, <4>1, <4>2
        <4> QED
          BY <1>2, <4>1, <4>3
      <3> QED
        BY <3>1, <3>2
    <2>5. x = [i \in 1..k |-> x[i]]
      BY <2>1, <2>3, ListsHaveALength
    <2>6. v = x
      BY <1>3, <2>4, <2>5
    <2> QED
      BY <2>1, <2>6 DEF u, v, n, x, w, j
  <1> QED
    BY <1>4, <1>5

LEMMA CutAgain ==
  ASSUME NEW s, IsList(s), NEW k \in 0..Len(s), NEW j \in 0..k
  PROVE  SubSeq(SubSeq(s, 1, k), 1, j) = SubSeq(s, 1, j)
  <1> DEFINE v == SubSeq(s, 1, k)
             w == SubSeq(v, 1, j)
             x == SubSeq(s, 1, j)
  <1>1. IsList(v) /\ Len(v) = k /\ \A i \in 1..k : v[i] = s[i]
    BY FirstOnes
  <1>2. j \in 0..Len(s) /\ j \in Nat /\ k \in Nat /\ j <= k
    BY ListsHaveALength
  <1>3. IsList(x) /\ DOMAIN x = 1..j /\ \A i \in 1..j : x[i] = s[i]
    BY <1>2, FirstOnes
  <1> HIDE DEF v
  <1>4. IsList(w) /\ DOMAIN w = 1..j /\ \A i \in 1..j : w[i] = v[i]
    BY <1>1, FirstOnes
  <1> HIDE DEF w, x
  <1>5. \A i \in 1..j : w[i] = x[i]
    BY <1>1, <1>2, <1>3, <1>4
  <1>6. w = [i \in 1..j |-> w[i]] /\ x = [i \in 1..j |-> x[i]]
    BY <1>3, <1>4, ListsHaveALength
  <1> QED
    BY <1>5, <1>6 DEF w, x, v

(***************************************************************************)
(* What a chunk of an endpoint says, but for its terminator: in a copy's   *)
(* graph anything, in the run's graph only of the endpoint and of subjects *)
(* that are minted for it.                                                 *)
(***************************************************************************)
CopyKinds == {"description", "void", "profile"}
SubjectKinds == {"measurement", "not-measured", "content-sample"}
Counted == {"value", "notMeasuredReason", "sampleSize", "sampledValue"}
DormancyOnly == {"dormantEndpoint", "dormancyReason"}

IsCopied(q, run, e) == \E kind \in CopyKinds : q.graph = CopyGraph(kind, run, e)
IsStated(q, run, e) ==
  /\ q.graph = RunGraph(run) /\ q.predicate \notin DormancyOnly
  /\ q.subject = Node(e) \/ \E kind \in SubjectKinds : \E m : q.subject = Subject(kind, run, e, m)
Unmarked(q, run) == q.graph = RunGraph(run) => q.predicate \notin Terminators
Ours(q, run, e) == Unmarked(q, run) /\ (IsCopied(q, run, e) \/ IsStated(q, run, e))

\* A claim that is published was made beside the sentence that ties it to the endpoint.
ClaimsAreTied(quads, run) ==
  \A q \in quads : q.graph = RunGraph(run) /\ q.predicate = "voidDeclaredTriples" =>
    \E claim, tie \in quads :
      /\ claim.predicate = "triples" /\ claim.object = q.object
      /\ tie.predicate = "sparqlEndpoint" /\ tie.object = q.subject
      /\ tie.subject = claim.subject /\ claim.graph = tie.graph

\* The claim comes after the sentence that ties it: a list that is cut has no loose one.
AlwaysTied(s, run) == \A k \in 0..Len(s) : ClaimsAreTied(ToSet(SubSeq(s, 1, k)), run)

\* A list that says nothing of what must be said once.
Plain(s, run, e) ==
  /\ IsList(s) /\ AlwaysTied(s, run)
  /\ \A q \in ToSet(s) : Ours(q, run, e) /\ (q.graph = RunGraph(run) => q.predicate \notin Counted)

LEMMA GraphsDiffer ==
  ASSUME NEW run, NEW run2, NEW e, NEW kind \in CopyKinds
  PROVE  RunGraph(run) # CopyGraph(kind, run2, e)
  <1>1. RunGraph(run)[1] = "run" /\ CopyGraph(kind, run2, e)[1] = kind
    BY DEF RunGraph, CopyGraph
  <1>2. kind # "run"
    BY DEF CopyKinds
  <1> QED
    BY <1>1, <1>2

LEMMA JoinedClaims ==
  ASSUME NEW s, NEW t, NEW run, ClaimsAreTied(s, run), ClaimsAreTied(t, run)
  PROVE  ClaimsAreTied(s \cup t, run)
  BY DEF ClaimsAreTied

LEMMA WholeIsTied ==
  ASSUME NEW s, IsList(s), NEW run, AlwaysTied(s, run)
  PROVE  ClaimsAreTied(ToSet(s), run)
  <1>1. Len(s) \in 0..Len(s) /\ SubSeq(s, 1, Len(s)) = s
    BY ListsHaveALength, FirstOnes
  <1> QED
    BY <1>1 DEF AlwaysTied

LEMMA JoinedThrice ==
  ASSUME NEW s, NEW t, NEW u, IsList(s), IsList(t), IsList(u)
  PROVE  s \o (t \o u) = (s \o t) \o u
  <1> DEFINE S == ToSet(s) \cup ToSet(t) \cup ToSet(u)
  <1>1. s \in Seq(S) /\ t \in Seq(S) /\ u \in Seq(S)
    <2>1. \A x : IsList(x) /\ ToSet(x) \subseteq S => x \in Seq(S)
      <3> TAKE x
      <3> HAVE IsList(x) /\ ToSet(x) \subseteq S
      <3>1. x = [i \in 1..Len(x) |-> x[i]] /\ DOMAIN x = 1..Len(x) /\ Len(x) \in Nat
        BY ListsHaveALength
      <3>2. \A i \in 1..Len(x) : x[i] \in S
        BY <3>1 DEF ToSet
      <3> QED
        BY <3>1, <3>2
    <2> QED
      BY <2>1
  <1> HIDE DEF S
  <1> QED
    BY <1>1

LEMMA FirstOnesAreOfIt ==
  ASSUME NEW s, IsList(s), NEW k \in 0..Len(s)
  PROVE  ToSet(SubSeq(s, 1, k)) \subseteq ToSet(s)
  <1> DEFINE v == SubSeq(s, 1, k)
  <1>1. /\ DOMAIN v = 1..k /\ \A i \in 1..k : v[i] = s[i]
        /\ DOMAIN s = 1..Len(s) /\ Len(s) \in Nat /\ k \in Nat /\ k <= Len(s)
    BY FirstOnes, ListsHaveALength
  <1> HIDE DEF v
  <1>2. \A i \in DOMAIN v : i \in DOMAIN s /\ v[i] = s[i]
    BY <1>1
  <1> QED
    BY <1>2 DEF ToSet, v

LEMMA Unclaiming ==
  ASSUME NEW s, IsList(s), NEW run,
         \A q \in ToSet(s) : ~(q.graph = RunGraph(run) /\ q.predicate = "voidDeclaredTriples")
  PROVE  AlwaysTied(s, run)
  BY FirstOnesAreOfIt DEF AlwaysTied, ClaimsAreTied

LEMMA JoinedTied ==
  ASSUME NEW s, NEW t, IsList(s), IsList(t), NEW run, ClaimsAreTied(ToSet(s), run),
         NEW k \in 0..Len(t), ClaimsAreTied(ToSet(SubSeq(t, 1, k)), run)
  PROVE  ClaimsAreTied(ToSet(s \o SubSeq(t, 1, k)), run)
  <1>1. IsList(SubSeq(t, 1, k))
    BY FirstOnes
  <1>2. ToSet(s \o SubSeq(t, 1, k)) = ToSet(s) \cup ToSet(SubSeq(t, 1, k))
    BY <1>1, JoinedSet
  <1> QED
    BY <1>2, JoinedClaims

LEMMA JoinedAlwaysTied ==
  ASSUME NEW s, NEW t, IsList(s), IsList(t), NEW run, AlwaysTied(s, run), AlwaysTied(t, run)
  PROVE  AlwaysTied(s \o t, run)
  <1> SUFFICES ASSUME NEW k \in 0..Len(s \o t)
               PROVE  ClaimsAreTied(ToSet(SubSeq(s \o t, 1, k)), run)
    BY DEF AlwaysTied
  <1>1. CASE k \in 0..Len(s) /\ SubSeq(s \o t, 1, k) = SubSeq(s, 1, k)
    BY <1>1 DEF AlwaysTied
  <1>2. CASE k - Len(s) \in 0..Len(t) /\ SubSeq(s \o t, 1, k) = s \o SubSeq(t, 1, k - Len(s))
    <2>1. ClaimsAreTied(ToSet(s), run) /\ ClaimsAreTied(ToSet(SubSeq(t, 1, k - Len(s))), run)
      BY <1>2, WholeIsTied DEF AlwaysTied
    <2> QED
      BY <1>2, <2>1, JoinedTied
  <1> QED
    BY <1>1, <1>2, CutOfJoined

LEMMA EmptyIsPlain ==
  ASSUME NEW run, NEW e
  PROVE  Plain(<<>>, run, e)
  BY EmptyList, Unclaiming DEF Plain

LEMMA JoinedPlain ==
  ASSUME NEW s, NEW t, NEW run, NEW e, Plain(s, run, e), Plain(t, run, e)
  PROVE  Plain(s \o t, run, e)
  <1>1. IsList(s \o t) /\ ToSet(s \o t) = ToSet(s) \cup ToSet(t)
    BY JoinedSet DEF Plain
  <1>2. AlwaysTied(s \o t, run)
    BY JoinedAlwaysTied DEF Plain
  <1> QED
    BY <1>1, <1>2 DEF Plain

LEMMA FlattenedPlain ==
  ASSUME NEW list, IsList(list), NEW p, p = [i \in DOMAIN list |-> p[i]], NEW run, NEW e,
         \A i \in DOMAIN list : Plain(p[i], run, e)
  PROVE  Plain(FlattenSeq(p), run, e)
  <1> DEFINE n == Len(p)
  <1>1. DOMAIN p = DOMAIN list /\ IsList(p) /\ n \in Nat /\ DOMAIN p = 1..n
    BY ListsHaveALength, FunctionsAreLists
  <1>2. Pieces(p)
    BY <1>1 DEF Pieces, Plain
  <1>3. PICK f : /\ f[0] = <<>> /\ \A i \in 1..n : f[i] = f[i - 1] \o p[i]
                 /\ FlattenSeq(p) = f[n]
    BY <1>2, FlattenGrows
  <1> HIDE DEF n
  <1> DEFINE G == {i \in 0..n : Plain(f[i], run, e)}
  <1>4. 0 \in G
    BY <1>1, <1>3, EmptyIsPlain
  <1>5. \A i \in 1..n : i - 1 \in G => i \in G
    <2> SUFFICES ASSUME NEW i \in 1..n, i - 1 \in G PROVE i \in G
      OBVIOUS
    <2>1. i \in 0..n /\ Plain(p[i], run, e) /\ f[i] = f[i - 1] \o p[i]
      <3>1. i \in 0..n /\ i \in DOMAIN list
        BY <1>1
      <3> QED
        BY <1>3, <3>1
    <2>2. Plain(f[i - 1] \o p[i], run, e)
      BY <2>1, JoinedPlain
    <2> QED
      BY <2>1, <2>2
  <1> HIDE DEF G
  <1>6. n \in G
    <2>1. \A i \in 0..n : i \in G
      BY <1>1, <1>4, <1>5, AllOfThem
    <2> QED
      BY <1>1, <2>1
  <1> QED
    BY <1>3, <1>6 DEF G

LEMMA StatedIsPlain ==
  ASSUME NEW s, NEW run, NEW e, NEW ps, Saying(s, RunGraph(run), Node(e), ps),
         ps \cap (Terminators \cup Counted \cup DormancyOnly \cup {"voidDeclaredTriples"}) = {}
  PROVE  Plain(s, run, e)
  <1>1. \A q \in ToSet(s) : /\ q.graph = RunGraph(run) /\ q.subject = Node(e)
                            /\ q.predicate \notin Terminators /\ q.predicate \notin Counted
                            /\ q.predicate \notin DormancyOnly /\ q.predicate # "voidDeclaredTriples"
    BY DEF Saying
  <1> QED
    BY <1>1, Unclaiming DEF Plain, Saying, Ours, Unmarked, IsStated

LEMMA CopiedIsPlain ==
  ASSUME NEW s, IsList(s), NEW run, NEW e, NEW kind \in CopyKinds,
         \A q \in ToSet(s) : q.graph = CopyGraph(kind, run, e)
  PROVE  Plain(s, run, e)
  <1>1. RunGraph(run) # CopyGraph(kind, run, e)
    BY GraphsDiffer
  <1> QED
    BY <1>1, Unclaiming DEF Plain, Ours, Unmarked, IsCopied

LEMMA Mapped ==
  ASSUME NEW list, IsList(list), NEW q, q = [i \in DOMAIN list |-> q[i]]
  PROVE  IsList(q) /\ DOMAIN q = DOMAIN list /\ ToSet(q) = {q[i] : i \in DOMAIN list}
  <1>1. IsList(q) /\ DOMAIN q = DOMAIN list
    BY ListsHaveALength, FunctionsAreLists
  <1> QED
    BY <1>1 DEF ToSet

LEMMA DeclarationsArePlain ==
  ASSUME NEW run, NEW e, NEW fact, IsList(fact.classes), IsList(fact.properties)
  PROVE  Plain(DeclarationsRead(run, e, fact), run, e)
  <1> DEFINE Says(p, o) == Quad(RunGraph(run), Node(e), p, o)
             Terms(p, terms) == [i \in DOMAIN Writable(terms) |-> Says(p, Node(Writable(terms)[i]))]
             ps == {"declaredClass", "declaredProperty", "declarationsRead", "descriptionSource"}
             A == Terms("declaredClass", fact.classes)
             B == Terms("declaredProperty", fact.properties)
             C == <<Says("declarationsRead", Flag(fact.read))>>
             D == IF fact.source # None /\ IsIri(fact.source)
                  THEN <<Says("descriptionSource", Node(fact.source))>> ELSE <<>>
  <1>1. DeclarationsRead(run, e, fact) = A \o B \o C \o D
    BY DEF DeclarationsRead
  <1>2. ASSUME NEW p \in ps, NEW terms, IsList(terms)
        PROVE  Saying(Terms(p, terms), RunGraph(run), Node(e), ps)
    <2> DEFINE L == Terms(p, terms)
    <2>1. IsList(Writable(terms))
      BY <1>2, WritableIsAList
    <2>2. L = [i \in DOMAIN Writable(terms) |-> L[i]]
      OBVIOUS
    <2>3. \A i \in DOMAIN Writable(terms) :
            L[i].graph = RunGraph(run) /\ L[i].subject = Node(e) /\ L[i].predicate = p
      BY DEF Quad
    <2> HIDE DEF L
    <2>4. IsList(L) /\ ToSet(L) = {L[i] : i \in DOMAIN Writable(terms)}
      BY <2>1, <2>2, Mapped
    <2>5. Saying(L, RunGraph(run), Node(e), ps)
      BY <1>2, <2>3, <2>4 DEF Saying
    <2> QED
      BY <2>5 DEF L
  <1>3. Saying(A, RunGraph(run), Node(e), ps) /\ Saying(B, RunGraph(run), Node(e), ps)
    BY <1>2
  <1>4. Saying(C, RunGraph(run), Node(e), ps)
    BY Singles DEF Saying, Quad
  <1>5. Saying(D, RunGraph(run), Node(e), ps)
    <2>1. Saying(<<Says("descriptionSource", Node(fact.source))>>, RunGraph(run), Node(e), ps)
      BY Singles DEF Saying, Quad
    <2>2. Saying(<<>>, RunGraph(run), Node(e), ps)
      BY EmptyList DEF Saying
    <2> QED
      BY <2>1, <2>2
  <1> HIDE DEF A, B, C, D, ps
  <1>6. Saying(A \o B \o C \o D, RunGraph(run), Node(e), ps)
    BY <1>3, <1>4, <1>5, JoinedSaying
  <1>7. ps \cap (Terminators \cup Counted \cup DormancyOnly \cup {"voidDeclaredTriples"}) = {}
    BY DEF ps, Terminators, Counted, DormancyOnly
  <1> QED
    BY <1>1, <1>6, <1>7, StatedIsPlain

LEMMA CopiedStatements ==
  ASSUME NEW run, NEW e, NEW kind \in CopyKinds, NEW statements, IsList(statements)
  PROVE  LET L == Copied(CopyGraph(kind, run, e), statements) IN
         /\ Plain(L, run, e)
         /\ \A i \in DOMAIN statements :
              Quad(CopyGraph(kind, run, e), statements[i].s, statements[i].p, statements[i].o) \in ToSet(L)
  <1> DEFINE g == CopyGraph(kind, run, e)
             L == Copied(g, statements)
  <1>1. L = [i \in DOMAIN statements |-> L[i]]
    BY DEF Copied
  <1>2. \A i \in DOMAIN statements :
          L[i] = Quad(g, statements[i].s, statements[i].p, statements[i].o)
    BY DEF Copied
  <1> HIDE DEF L, g
  <1>3. \A i \in DOMAIN statements : L[i].graph = g
    <2>1. \A s, p, o : Quad(g, s, p, o).graph = g
      BY DEF Quad
    <2> QED
      BY <1>2, <2>1
  <1>4. IsList(L) /\ ToSet(L) = {L[i] : i \in DOMAIN statements}
    BY <1>1, Mapped
  <1>5. Plain(L, run, e)
    <2>1. \A q \in ToSet(L) : q.graph = CopyGraph(kind, run, e)
      BY <1>3, <1>4 DEF g
    <2> QED
      BY <1>4, <2>1, CopiedIsPlain
  <1>6. \A i \in DOMAIN statements :
          Quad(g, statements[i].s, statements[i].p, statements[i].o) \in ToSet(L)
    BY <1>2, <1>4
  <1> QED
    BY <1>5, <1>6 DEF L, g

LEMMA DescriptionsArePlain ==
  ASSUME NEW run, NEW e, NEW doc, IsList(doc.statements)
  PROVE  Plain(DescriptionDocument(run, e, doc), run, e)
  <1> DEFINE g == CopyGraph("description", run, e)
             A == Copied(g, doc.statements)
             B == <<Quad(RunGraph(run), Node(e), "descriptionGraph", g)>>
  <1>1. Plain(A, run, e)
    BY CopiedStatements DEF CopyKinds
  <1>2. Plain(B, run, e)
    <2>1. Saying(B, RunGraph(run), Node(e), {"descriptionGraph"})
      BY Singles DEF Saying, Quad
    <2> QED
      BY <2>1, StatedIsPlain DEF Terminators, Counted, DormancyOnly
  <1>3. DescriptionDocument(run, e, doc) = IF ~doc.isRdf \/ doc.statements = <<>> THEN <<>> ELSE A \o B
    BY DEF DescriptionDocument
  <1> HIDE DEF A, B
  <1> QED
    BY <1>1, <1>2, <1>3, JoinedPlain, EmptyIsPlain

LEMMA MinIsThere ==
  ASSUME NEW S \in SUBSET Nat, S # {}
  PROVE  Min(S) \in S
  <1>1. \E s \in S : \A t \in S : s <= t
    BY HasSmallest
  <1>2. Min(S) \in S /\ \A t \in S : Min(S) <= t
    BY <1>1 DEF Min
  <1> QED
    BY <1>2

\* The document's own number, with the statement that ties its dataset to the endpoint.
LEMMA VoidsArePlain ==
  ASSUME NEW run, NEW e, NEW doc, IsList(doc.statements)
  PROVE  Plain(VoidDocument(run, e, doc), run, e)
  <1> DEFINE g == CopyGraph("void", run, e)
             st == doc.statements
             Says(p, o) == Quad(RunGraph(run), Node(e), p, o)
             dataset == Described(e, st)
             claims == {i \in DOMAIN st : st[i].p = "triples" /\ st[i].s = dataset}
             tied == {i \in DOMAIN st : st[i].p = "sparqlEndpoint" /\ st[i].o = Node(e)}
             ps == {"voidSource", "voidValid", "voidGraph", "voidDataset", "voidTriples"}
             A == <<Says("voidSource", Node(doc.source)), Says("voidValid", Flag(doc.valid))>>
             B == Copied(g, st)
             C == <<Says("voidGraph", g)>>
             D == <<Says("voidDataset", dataset)>>
             E == <<Says("voidDeclaredTriples", st[Min(claims)].o)>>
             F == <<Says("voidTriples", Number(Len(st)))>>
             Claim == IF claims = {} THEN <<>> ELSE E
             Tie == Optional(dataset, D \o Claim)
  <1>1. VoidDocument(run, e, doc) =
          IF ~IsIri(doc.source) THEN <<>>
          ELSE A \o (IF ~doc.valid \/ ~doc.isRdf THEN <<>> ELSE B \o C \o Tie \o F)
    BY DEF VoidDocument
  <1>2. Plain(A, run, e) /\ Plain(C, run, e) /\ Plain(D, run, e) /\ Plain(F, run, e)
    <2>1. /\ Saying(A, RunGraph(run), Node(e), ps) /\ Saying(C, RunGraph(run), Node(e), ps)
          /\ Saying(D, RunGraph(run), Node(e), ps) /\ Saying(F, RunGraph(run), Node(e), ps)
      BY Singles, Pairs DEF Saying, Quad
    <2>2. ps \cap (Terminators \cup Counted \cup DormancyOnly \cup {"voidDeclaredTriples"}) = {}
      BY DEF Terminators, Counted, DormancyOnly
    <2> HIDE DEF ps, A, C, D, F
    <2> QED
      BY <2>1, <2>2, StatedIsPlain
  <1>3. /\ Plain(B, run, e)
        /\ \A i \in DOMAIN st : Quad(g, st[i].s, st[i].p, st[i].o) \in ToSet(B)
    BY CopiedStatements DEF CopyKinds
  <1>4. tied \in SUBSET Nat /\ claims \in SUBSET Nat
    <2>1. DOMAIN st \in SUBSET Nat
      BY ListsHaveALength
    <2> HIDE DEF st
    <2> QED
      BY <2>1
  <1>5. dataset = IF tied = {} THEN None ELSE st[Min(tied)].s
    BY DEF Described
  <1>6. IsList(E) /\ ToSet(E) = {Says("voidDeclaredTriples", st[Min(claims)].o)}
    BY Singles
  <1>7. \A q \in ToSet(E) : /\ Ours(q, run, e) /\ q.predicate \notin Counted
                            /\ q.subject = Node(e) /\ q.object = st[Min(claims)].o
    <2>0. \A x : Says("voidDeclaredTriples", x).object = x
      BY DEF Quad
    <2>1. \A q \in ToSet(E) : /\ q.graph = RunGraph(run) /\ q.subject = Node(e)
                              /\ q.predicate = "voidDeclaredTriples"
      BY <1>6 DEF Quad
    <2>2. \A q \in ToSet(E) : q.object = st[Min(claims)].o
      BY <1>6, <2>0
    <2> HIDE DEF E
    <2> QED
      BY <2>1, <2>2 DEF Ours, Unmarked, IsStated, Terminators, Counted, DormancyOnly
  <1>8. CASE dataset # None /\ claims # {}
    <2> DEFINE c == Min(claims)
               t == Min(tied)
               claim == Quad(g, st[c].s, st[c].p, st[c].o)
               tie == Quad(g, st[t].s, st[t].p, st[t].o)
    <2>1. tied # {} /\ dataset = st[t].s
      BY <1>5, <1>8
    <2>2. c \in claims /\ t \in tied
      BY <1>4, <1>8, <2>1, MinIsThere
    <2>3. /\ c \in DOMAIN st /\ st[c].p = "triples" /\ st[c].s = st[t].s
          /\ t \in DOMAIN st /\ st[t].p = "sparqlEndpoint" /\ st[t].o = Node(e)
      BY <2>1, <2>2
    <2> HIDE DEF c, t, st, g
    <2>4. claim \in ToSet(B) /\ tie \in ToSet(B)
      BY <1>3, <2>3
    <2>5. /\ claim.predicate = "triples" /\ claim.object = st[c].o
          /\ tie.predicate = "sparqlEndpoint" /\ tie.object = Node(e)
          /\ tie.subject = claim.subject /\ claim.graph = tie.graph
      BY <2>3 DEF Quad
    <2>6. \A q \in ToSet(E) : q.object = st[c].o /\ q.subject = Node(e)
      BY <1>7 DEF c, st
    <2> HIDE DEF B, E, claim, tie
    <2>7. \A S : ToSet(B) \subseteq S => \A q \in ToSet(E) : \E x, z \in S :
            /\ x.predicate = "triples" /\ x.object = q.object
            /\ z.predicate = "sparqlEndpoint" /\ z.object = q.subject
            /\ z.subject = x.subject /\ x.graph = z.graph
      <3> TAKE S
      <3> HAVE ToSet(B) \subseteq S
      <3> TAKE q \in ToSet(E)
      <3>1. claim \in S /\ tie \in S
        BY <2>4
      <3>2. q.object = st[c].o /\ q.subject = Node(e)
        BY <2>6
      <3> QED
        BY <2>5, <3>1, <3>2
    <2> HIDE DEF A, C, D, F, claims, dataset, tied
    <2>8. Claim = E /\ Tie = D \o E
      BY <1>8 DEF Optional
    <2> HIDE DEF Claim, Tie
    <2> DEFINE H == B \o C \o D
    <2>9. Plain(H, run, e)
      BY <1>2, <1>3, JoinedPlain
    <2>10. IsList(B) /\ IsList(C) /\ IsList(D) /\ IsList(E) /\ IsList(B \o C)
      BY <1>2, <1>3, <1>6, JoinedSet DEF Plain
    <2>11. B \o C \o Tie = H \o E /\ ToSet(B) \subseteq ToSet(H)
      <3>1. (B \o C) \o (D \o E) = ((B \o C) \o D) \o E
        <4> DEFINE J == B \o C
        <4>1. IsList(J)
          BY <2>10
        <4> HIDE DEF J
        <4>2. J \o (D \o E) = (J \o D) \o E
          <5>1. IsList(J) /\ IsList(D) /\ IsList(E)
            BY <2>10, <4>1
          <5> HIDE DEF D, E
          <5> QED
            BY <5>1, JoinedThrice
        <4> QED
          BY <4>2 DEF J
      <3>2. ToSet(H) = ToSet(B) \cup ToSet(C) \cup ToSet(D)
        BY <2>10, JoinedSet
      <3> QED
        BY <2>8, <3>1, <3>2
    <2> HIDE DEF H
    <2>12. Plain(H \o E, run, e)
      <3>1. IsList(H)
        BY <2>9 DEF Plain
      <3>2. IsList(H \o E) /\ ToSet(H \o E) = ToSet(H) \cup ToSet(E)
        BY <2>10, <3>1, JoinedSet
      <3>3. ASSUME NEW k \in 0..Len(E)
            PROVE  ClaimsAreTied(ToSet(H \o SubSeq(E, 1, k)), run)
        <4>1. IsList(SubSeq(E, 1, k)) /\ ToSet(SubSeq(E, 1, k)) \subseteq ToSet(E)
          BY <2>10, FirstOnes, FirstOnesAreOfIt
        <4> DEFINE S == ToSet(H \o SubSeq(E, 1, k))
        <4>2. S = ToSet(H) \cup ToSet(SubSeq(E, 1, k))
          BY <3>1, <4>1, JoinedSet
        <4>3. ClaimsAreTied(ToSet(H), run)
          BY <2>9, WholeIsTied DEF Plain
        <4> HIDE DEF S
        <4>4. \A q \in ToSet(SubSeq(E, 1, k)) : \E x, z \in S :
                /\ x.predicate = "triples" /\ x.object = q.object
                /\ z.predicate = "sparqlEndpoint" /\ z.object = q.subject
                /\ z.subject = x.subject /\ x.graph = z.graph
          <5>1. ToSet(B) \subseteq S
            BY <2>11, <4>2
          <5>2. \A q \in ToSet(E) : \E x, z \in S :
                  /\ x.predicate = "triples" /\ x.object = q.object
                  /\ z.predicate = "sparqlEndpoint" /\ z.object = q.subject
                  /\ z.subject = x.subject /\ x.graph = z.graph
            BY <2>7, <5>1
          <5> QED
            BY <4>1, <5>2
        <4>5. ClaimsAreTied(S, run)
          BY <4>2, <4>3, <4>4 DEF ClaimsAreTied
        <4> QED
          BY <4>5 DEF S
      <3>4. ASSUME NEW k \in 0..Len(H \o E)
            PROVE  ClaimsAreTied(ToSet(SubSeq(H \o E, 1, k)), run)
        <4>1. CASE k \in 0..Len(H) /\ SubSeq(H \o E, 1, k) = SubSeq(H, 1, k)
          BY <2>9, <4>1 DEF Plain, AlwaysTied
        <4>2. CASE /\ k - Len(H) \in 0..Len(E)
                   /\ SubSeq(H \o E, 1, k) = H \o SubSeq(E, 1, k - Len(H))
          BY <3>3, <4>2
        <4> QED
          BY <2>10, <3>1, <4>1, <4>2, CutOfJoined
      <3>5. AlwaysTied(H \o E, run)
        BY <3>4 DEF AlwaysTied
      <3>6. \A q \in ToSet(H) \cup ToSet(E) :
              Ours(q, run, e) /\ (q.graph = RunGraph(run) => q.predicate \notin Counted)
        BY <1>7, <2>9 DEF Plain
      <3> QED
        BY <3>2, <3>5, <3>6 DEF Plain
    <2>13. Plain(B \o C \o Tie \o F, run, e)
      BY <1>2, <2>11, <2>12, JoinedPlain
    <2> QED
      BY <1>1, <1>2, <2>13, JoinedPlain, EmptyIsPlain
  <1>9. CASE ~(dataset # None /\ claims # {})
    <2> HIDE DEF A, B, C, D, E, F, claims, dataset, tied
    <2>1. Tie = <<>> \/ Tie = D \o <<>>
      BY <1>9 DEF Optional
    <2>2. Plain(Tie, run, e)
      BY <1>2, <2>1, JoinedPlain, EmptyIsPlain
    <2> HIDE DEF Tie
    <2>3. Plain(B \o C \o Tie \o F, run, e)
      BY <1>2, <1>3, <2>2, JoinedPlain
    <2> QED
      BY <1>1, <1>2, <2>3, JoinedPlain, EmptyIsPlain
  <1> QED
    BY <1>8, <1>9

\* A profile is a copy in a graph of its own, too.
InCopy(s, run, e, kind) ==
  /\ IsList(s)
  /\ \A q \in ToSet(s) : q.graph = CopyGraph(kind, run, e)

LEMMA JoinedCopy ==
  ASSUME NEW s, NEW t, NEW run, NEW e, NEW kind, InCopy(s, run, e, kind), InCopy(t, run, e, kind)
  PROVE  InCopy(s \o t, run, e, kind)
  BY JoinedSet DEF InCopy

LEMMA FlattenedCopy ==
  ASSUME NEW list, IsList(list), NEW p, p = [i \in DOMAIN list |-> p[i]], NEW run, NEW e, NEW kind,
         \A i \in DOMAIN list : InCopy(p[i], run, e, kind)
  PROVE  InCopy(FlattenSeq(p), run, e, kind)
  <1>1. DOMAIN p = DOMAIN list /\ IsList(p)
    BY ListsHaveALength, FunctionsAreLists
  <1>2. Pieces(p)
    BY <1>1 DEF Pieces, InCopy
  <1>3. /\ IsList(FlattenSeq(p))
        /\ ToSet(FlattenSeq(p)) = UNION {ToSet(p[i]) : i \in DOMAIN p}
    BY <1>2, FlattenedSet
  <1> QED
    BY <1>1, <1>3 DEF InCopy

LEMMA PropertyIsACopy ==
  ASSUME NEW run, NEW e, NEW profile, NEW row
  PROVE  InCopy(PropertyQuads(run, e, profile, row), run, e, "profile")
  <1> DEFINE g == CopyGraph("profile", run, e)
             s == Scoped("content-profile", run, e, profile.metric, <<profile.class>>)
             n == Scoped("profile-property", run, e, profile.metric, <<profile.class, row.property>>)
             Holds(p, o) == Quad(g, n, p, o)
             A == <<Quad(g, s, "profileProperty", n), Holds("property", Node(row.property)),
                    Holds("subjectCount", Number(row.subjects)),
                    Holds("datatypeCount", Number(row.datatypes))>>
             B == IF row.datatype # None /\ IsIri(row.datatype)
                  THEN <<Holds("anyDatatype", DatatypeTerm(row.datatype))>> ELSE <<>>
  <1>1. PropertyQuads(run, e, profile, row) = A \o B
    BY DEF PropertyQuads
  <1> HIDE DEF g, s, n
  <1>2. InCopy(A, run, e, "profile")
    BY Fours DEF InCopy, Quad, g
  <1>3. InCopy(B, run, e, "profile")
    <2>1. InCopy(<<Holds("anyDatatype", DatatypeTerm(row.datatype))>>, run, e, "profile")
      BY Singles DEF InCopy, Quad, g
    <2>2. InCopy(<<>>, run, e, "profile")
      BY EmptyList DEF InCopy
    <2> QED
      BY <2>1, <2>2
  <1> QED
    BY <1>1, <1>2, <1>3, JoinedCopy

LEMMA ProfileIsACopy ==
  ASSUME NEW run, NEW e, NEW profile, IsList(profile.rows)
  PROVE  InCopy(ProfileQuads(run, e, profile), run, e, "profile")
  <1> DEFINE g == CopyGraph("profile", run, e)
             s == Scoped("content-profile", run, e, profile.metric, <<profile.class>>)
             Says(p, o) == Quad(g, s, p, o)
             types == {i \in DOMAIN profile.rows : profile.rows[i].property = "rdf:type"}
             denominator == IF types = {} THEN 0 ELSE profile.rows[Min(types)].subjects
             named == {profile.metric, profile.class}
                        \cup {profile.rows[i].property : i \in DOMAIN profile.rows}
             A == <<Says("rdf:type", Text("ContentProfile")), Says("profiledFrom", Node(e)),
                    Says("profiledBy", Node(profile.metric)), Says("profiledClass", Node(profile.class))>>
             p == [i \in DOMAIN profile.rows |-> PropertyQuads(run, e, profile, profile.rows[i])]
             B == FlattenSeq(p)
             C == <<Says("profileSampling", Text(profile.sampling))>>
             D == Optional(profile.prefix, <<Says("profileSamplingPrefix", Text(profile.prefix))>>)
             E == <<Says("profileDenominator", Number(denominator))>>
  <1>1. ProfileQuads(run, e, profile) =
          IF profile.rows = <<>> \/ \E name \in named : ~IsIri(name) THEN <<>>
          ELSE A \o B \o C \o D \o E
    BY DEF ProfileQuads, Each
  <1>2. InCopy(B, run, e, "profile")
    <2>1. p = [i \in DOMAIN profile.rows |-> p[i]]
      OBVIOUS
    <2>2. \A i \in DOMAIN profile.rows : InCopy(p[i], run, e, "profile")
      BY PropertyIsACopy
    <2> HIDE DEF p
    <2> QED
      BY <2>1, <2>2, FlattenedCopy
  <1>3. InCopy(<<>>, run, e, "profile")
    BY EmptyList DEF InCopy
  <1> HIDE DEF g, s, denominator
  <1>4. InCopy(A, run, e, "profile")
    BY Fours DEF InCopy, Quad, g
  <1>5. InCopy(C, run, e, "profile") /\ InCopy(E, run, e, "profile")
    BY Singles DEF InCopy, Quad, g
  <1>6. InCopy(D, run, e, "profile")
    <2>1. InCopy(<<Says("profileSamplingPrefix", Text(profile.prefix))>>, run, e, "profile")
      BY Singles DEF InCopy, Quad, g
    <2> QED
      BY <1>3, <2>1 DEF Optional
  <1> HIDE DEF A, B, C, D, E
  <1>7. InCopy(A \o B \o C \o D \o E, run, e, "profile")
    BY <1>2, <1>4, <1>5, <1>6, JoinedCopy
  <1> QED
    BY <1>1, <1>3, <1>7

LEMMA ProfilesArePlain ==
  ASSUME NEW run, NEW e, NEW profiles, IsList(profiles),
         \A i \in DOMAIN profiles : IsList(profiles[i].rows)
  PROVE  Plain(Profiles(run, e, profiles), run, e)
  <1> DEFINE p == [i \in DOMAIN profiles |-> ProfileQuads(run, e, profiles[i])]
             A == FlattenSeq(p)
             B == <<Quad(RunGraph(run), Node(e), "profileGraph", CopyGraph("profile", run, e))>>
  <1>1. Profiles(run, e, profiles) = A \o (IF A = <<>> THEN <<>> ELSE B)
    BY DEF Profiles, Each
  <1>2. InCopy(A, run, e, "profile")
    <2>1. p = [i \in DOMAIN profiles |-> p[i]]
      OBVIOUS
    <2>2. \A i \in DOMAIN profiles : InCopy(p[i], run, e, "profile")
      BY ProfileIsACopy
    <2> HIDE DEF p
    <2> QED
      BY <2>1, <2>2, FlattenedCopy
  <1>3. Plain(A, run, e)
    <2> HIDE DEF A
    <2>1. "profile" \in CopyKinds
      BY DEF CopyKinds
    <2> QED
      BY <1>2, <2>1, CopiedIsPlain DEF InCopy
  <1>4. Plain(B, run, e)
    <2>1. Saying(B, RunGraph(run), Node(e), {"profileGraph"})
      BY Singles DEF Saying, Quad
    <2> QED
      BY <2>1, StatedIsPlain DEF Terminators, Counted, DormancyOnly
  <1> HIDE DEF A, B
  <1> QED
    BY <1>1, <1>3, <1>4, JoinedPlain, EmptyIsPlain

(***************************************************************************)
(* What must be said once, and how lists that say it of different subjects *)
(* are put together.                                                       *)
(***************************************************************************)
SaidOnce == {"value", "notMeasuredReason", "sampleSize"}

Consistent(s, run) ==
  /\ IsList(s) /\ ClaimsAreTied(ToSet(s), run)
  /\ \A p \in SaidOnce : \A subject : Times(s, RunGraph(run), subject, p) <= 1
  /\ \A q \in ToSet(s) : q.graph = RunGraph(run) /\ q.predicate = "sampleSize" =>
       q.object = Number(Times(s, RunGraph(run), q.subject, "sampledValue"))

\* The loader may end a file at a quad of a copy, never at one of the run's but the last.
Sound(s, run) ==
  /\ Consistent(s, run)
  /\ \A k \in DOMAIN s : s[k].graph # RunGraph(run) => Consistent(SubSeq(s, 1, k), run)

Counts(q, run) == q.graph = RunGraph(run) /\ q.predicate \in Counted
CountedSubjects(s, run) == {q.subject : q \in {r \in ToSet(s) : Counts(r, run)}}

LEMMA NotCounted ==
  ASSUME NEW s, IsList(s), NEW run, NEW subject, subject \notin CountedSubjects(s, run),
         NEW p \in Counted
  PROVE  Times(s, RunGraph(run), subject, p) = 0
  BY NeverSaid DEF CountedSubjects, Counts

LEMMA JoinedConsistent ==
  ASSUME NEW s, NEW t, NEW run, Consistent(s, run), Consistent(t, run),
         CountedSubjects(s, run) \cap CountedSubjects(t, run) = {}
  PROVE  /\ Consistent(s \o t, run)
         /\ CountedSubjects(s \o t, run) = CountedSubjects(s, run) \cup CountedSubjects(t, run)
  <1> DEFINE g == RunGraph(run)
             u == s \o t
  <1>1. IsList(s) /\ IsList(t)
    BY DEF Consistent
  <1>2. IsList(u) /\ ToSet(u) = ToSet(s) \cup ToSet(t)
    BY <1>1, JoinedSet
  <1>3. CountedSubjects(u, run) = CountedSubjects(s, run) \cup CountedSubjects(t, run)
    <2> HIDE DEF u
    <2> QED
      BY <1>2 DEF CountedSubjects
  <1>4. \A subject, p : /\ Times(u, g, subject, p) = Times(s, g, subject, p) + Times(t, g, subject, p)
                        /\ Times(s, g, subject, p) \in Nat /\ Times(t, g, subject, p) \in Nat
    BY <1>1, JoinedTimes, TimesAreCounted
  <1>5. ClaimsAreTied(ToSet(u), run)
    BY <1>2, JoinedClaims DEF Consistent
  <1> HIDE DEF u, g
  <1>6. ASSUME NEW subject
        PROVE  \/ \A p \in Counted : Times(u, g, subject, p) = Times(s, g, subject, p)
               \/ \A p \in Counted : Times(u, g, subject, p) = Times(t, g, subject, p)
    <2>1. CASE subject \notin CountedSubjects(t, run)
      BY <1>1, <1>4, <2>1, NotCounted DEF g
    <2>2. CASE subject \notin CountedSubjects(s, run)
      BY <1>1, <1>4, <2>2, NotCounted DEF g
    <2> QED
      BY <2>1, <2>2
  <1>7. \A p \in SaidOnce : \A subject : Times(u, g, subject, p) <= 1
    <2> SUFFICES ASSUME NEW p \in SaidOnce, NEW subject PROVE Times(u, g, subject, p) <= 1
      OBVIOUS
    <2>1. p \in Counted
      BY DEF SaidOnce, Counted
    <2>2. Times(s, g, subject, p) <= 1 /\ Times(t, g, subject, p) <= 1
      BY DEF Consistent, g
    <2> QED
      BY <1>6, <2>1, <2>2
  <1>8. \A q \in ToSet(u) : q.graph = g /\ q.predicate = "sampleSize" =>
          q.object = Number(Times(u, g, q.subject, "sampledValue"))
    <2> SUFFICES ASSUME NEW q \in ToSet(u), q.graph = g, q.predicate = "sampleSize"
                 PROVE  q.object = Number(Times(u, g, q.subject, "sampledValue"))
      OBVIOUS
    <2>0. "sampledValue" \in Counted /\ "sampleSize" \in Counted
      BY DEF Counted
    <2>1. CASE q \in ToSet(s)
      <3>1. q.subject \in CountedSubjects(s, run)
        BY <2>0, <2>1 DEF CountedSubjects, Counts, g
      <3>2. q.subject \notin CountedSubjects(t, run)
        BY <3>1
      <3>3. Times(t, g, q.subject, "sampledValue") = 0
        BY <1>1, <2>0, <3>2, NotCounted DEF g
      <3>4. Times(u, g, q.subject, "sampledValue") = Times(s, g, q.subject, "sampledValue")
        BY <1>4, <3>3
      <3> QED
        BY <2>1, <3>4 DEF Consistent, g
    <2>2. CASE q \in ToSet(t)
      <3>1. q.subject \in CountedSubjects(t, run)
        BY <2>0, <2>2 DEF CountedSubjects, Counts, g
      <3>2. q.subject \notin CountedSubjects(s, run)
        BY <3>1
      <3>3. Times(s, g, q.subject, "sampledValue") = 0
        BY <1>1, <2>0, <3>2, NotCounted DEF g
      <3>4. Times(u, g, q.subject, "sampledValue") = Times(t, g, q.subject, "sampledValue")
        BY <1>4, <3>3
      <3> QED
        BY <2>2, <3>4 DEF Consistent, g
    <2> QED
      BY <1>2, <2>1, <2>2
  <1> QED
    BY <1>2, <1>3, <1>5, <1>7, <1>8 DEF Consistent, u, g


LEMMA CountedOnesOfIt ==
  ASSUME NEW s, IsList(s), NEW k \in 0..Len(s), NEW run
  PROVE  CountedSubjects(SubSeq(s, 1, k), run) \subseteq CountedSubjects(s, run)
  BY FirstOnesAreOfIt DEF CountedSubjects

LEMMA JoinedSound ==
  ASSUME NEW s, NEW t, NEW run, Sound(s, run), Sound(t, run),
         CountedSubjects(s, run) \cap CountedSubjects(t, run) = {}
  PROVE  /\ Sound(s \o t, run)
         /\ CountedSubjects(s \o t, run) = CountedSubjects(s, run) \cup CountedSubjects(t, run)
  <1> DEFINE u == s \o t
             n == Len(s)
  <1>1. /\ Consistent(s, run) /\ Consistent(t, run) /\ IsList(s) /\ IsList(t)
        /\ n \in Nat /\ DOMAIN s = 1..n /\ Len(t) \in Nat /\ DOMAIN t = 1..Len(t)
    <2>1. Consistent(s, run) /\ Consistent(t, run) /\ IsList(s) /\ IsList(t)
      BY DEF Sound, Consistent
    <2> QED
      BY <2>1, ListsHaveALength
  <1>2. Consistent(u, run) /\ CountedSubjects(u, run) = CountedSubjects(s, run) \cup CountedSubjects(t, run)
    BY <1>1, JoinedConsistent
  <1>3. /\ IsList(u) /\ Len(u) = n + Len(t) /\ DOMAIN u = 1..(n + Len(t))
        /\ \A i \in DOMAIN s : u[i] = s[i]
        /\ \A i \in DOMAIN t : u[n + i] = t[i]
    BY <1>1, JoinedList
  <1>4. \A k \in 0..Len(u) :
          \/ k \in 0..n /\ SubSeq(u, 1, k) = SubSeq(s, 1, k)
          \/ k - n \in 0..Len(t) /\ SubSeq(u, 1, k) = s \o SubSeq(t, 1, k - n)
    BY <1>1, CutOfJoined
  <1> HIDE DEF u, n
  <1>5. ASSUME NEW k \in DOMAIN u, u[k].graph # RunGraph(run)
        PROVE  Consistent(SubSeq(u, 1, k), run)
    <2>1. k \in 0..Len(u) /\ k \in Nat /\ k # 0
      BY <1>1, <1>3
    <2>2. CASE k \in 0..n /\ SubSeq(u, 1, k) = SubSeq(s, 1, k)
      <3>1. k \in DOMAIN s
        BY <1>1, <2>1, <2>2
      <3> QED
        BY <1>3, <1>5, <2>2, <3>1 DEF Sound
    <2>3. CASE k - n \in 0..Len(t) /\ SubSeq(u, 1, k) = s \o SubSeq(t, 1, k - n)
      <3>1. CASE k - n = 0
        <4>1. SubSeq(t, 1, 0) = <<>>
          BY <1>1, FirstOnes
        <4>2. s \o <<>> = s
          BY <1>1, JoinedNothing
        <4> QED
          BY <1>1, <2>3, <3>1, <4>1, <4>2
      <3>2. CASE k - n # 0
        <4> DEFINE j == k - n
        <4>1. j \in 0..Len(t) /\ j \in DOMAIN t /\ k = n + j
          BY <1>1, <2>1, <2>3, <3>2
        <4> HIDE DEF j
        <4>2. t[j].graph # RunGraph(run)
          BY <1>3, <1>5, <4>1
        <4>3. Consistent(SubSeq(t, 1, j), run)
          BY <4>1, <4>2 DEF Sound
        <4>4. CountedSubjects(s, run) \cap CountedSubjects(SubSeq(t, 1, j), run) = {}
          BY <1>1, <4>1, CountedOnesOfIt
        <4>5. Consistent(s \o SubSeq(t, 1, j), run)
          BY <1>1, <4>3, <4>4, JoinedConsistent
        <4> QED
          BY <2>3, <4>5 DEF j
      <3> QED
        BY <3>1, <3>2
    <2> QED
      BY <1>4, <2>1, <2>2, <2>3
  <1> QED
    BY <1>2, <1>5 DEF Sound, u

\* A list with no quad that counts has nothing to say twice.
LEMMA UncountedIsConsistent ==
  ASSUME NEW s, IsList(s), NEW run, ClaimsAreTied(ToSet(s), run),
         \A q \in ToSet(s) : ~Counts(q, run)
  PROVE  Consistent(s, run) /\ CountedSubjects(s, run) = {}
  <1>1. CountedSubjects(s, run) = {}
    BY DEF CountedSubjects
  <1>2. \A p \in Counted : \A subject : Times(s, RunGraph(run), subject, p) = 0
    BY <1>1, NotCounted
  <1>3. SaidOnce \subseteq Counted /\ "sampleSize" \in Counted
    BY DEF SaidOnce, Counted
  <1>4. \A p \in SaidOnce : \A subject : Times(s, RunGraph(run), subject, p) <= 1
    BY <1>2, <1>3
  <1>5. \A q \in ToSet(s) : ~(q.graph = RunGraph(run) /\ q.predicate = "sampleSize")
    BY <1>3 DEF Counts
  <1> QED
    BY <1>1, <1>4, <1>5 DEF Consistent

LEMMA UncountedIsSound ==
  ASSUME NEW s, IsList(s), NEW run, AlwaysTied(s, run),
         \A q \in ToSet(s) : ~Counts(q, run)
  PROVE  Sound(s, run) /\ CountedSubjects(s, run) = {}
  <1>1. ClaimsAreTied(ToSet(s), run)
    BY WholeIsTied
  <1>2. Consistent(s, run) /\ CountedSubjects(s, run) = {}
    BY <1>1, UncountedIsConsistent
  <1>3. ASSUME NEW k \in DOMAIN s PROVE Consistent(SubSeq(s, 1, k), run)
    <2>1. k \in 0..Len(s)
      BY ListsHaveALength
    <2>2. IsList(SubSeq(s, 1, k)) /\ ToSet(SubSeq(s, 1, k)) \subseteq ToSet(s)
      BY <2>1, FirstOnes, FirstOnesAreOfIt
    <2>3. ClaimsAreTied(ToSet(SubSeq(s, 1, k)), run)
      BY <2>1 DEF AlwaysTied
    <2> QED
      BY <2>2, <2>3, UncountedIsConsistent
  <1> QED
    BY <1>2, <1>3 DEF Sound

\* Nor does it matter where a list is cut that is the run's own.
LEMMA StatedIsSound ==
  ASSUME NEW s, NEW run, Consistent(s, run), \A q \in ToSet(s) : q.graph = RunGraph(run)
  PROVE  Sound(s, run)
  BY DEF Sound, ToSet

LEMMA PlainIsSound ==
  ASSUME NEW s, NEW run, NEW e, Plain(s, run, e)
  PROVE  Sound(s, run) /\ CountedSubjects(s, run) = {}
  BY UncountedIsSound DEF Plain, Counts

LEMMA FlattenedSound ==
  ASSUME NEW p, IsList(p), NEW run, \A i \in DOMAIN p : Sound(p[i], run),
         \A i, j \in DOMAIN p : i # j => CountedSubjects(p[i], run) \cap CountedSubjects(p[j], run) = {}
  PROVE  /\ Sound(FlattenSeq(p), run)
         /\ CountedSubjects(FlattenSeq(p), run) = UNION {CountedSubjects(p[i], run) : i \in DOMAIN p}
  <1> DEFINE n == Len(p)
  <1>1. n \in Nat /\ DOMAIN p = 1..n /\ Pieces(p)
    BY ListsHaveALength DEF Pieces, Sound, Consistent
  <1>2. PICK f : /\ f[0] = <<>> /\ \A i \in 1..n : f[i] = f[i - 1] \o p[i]
                 /\ FlattenSeq(p) = f[n] /\ \A i \in 0..n : IsList(f[i])
    BY <1>1, FlattenGrows
  <1> HIDE DEF n
  <1> DEFINE Upto(i) == UNION {CountedSubjects(p[j], run) : j \in 1..i}
             G == {i \in 0..n : Sound(f[i], run) /\ CountedSubjects(f[i], run) = Upto(i)}
  <1>3. 0 \in G
    <2>1. Sound(<<>>, run) /\ CountedSubjects(<<>>, run) = {}
      BY EmptyIsPlain, PlainIsSound
    <2>2. Upto(0) = {}
      OBVIOUS
    <2> QED
      BY <1>1, <1>2, <2>1, <2>2
  <1>4. ASSUME NEW i \in 1..n, i - 1 \in G PROVE i \in G
    <2>1. i \in 0..n /\ Sound(p[i], run) /\ f[i] = f[i - 1] \o p[i]
      <3>1. i \in 0..n /\ i \in DOMAIN p
        BY <1>1
      <3>2. f[i] = f[i - 1] \o p[i]
        BY <1>2
      <3> QED
        BY <3>1, <3>2
    <2>2. Sound(f[i - 1], run) /\ CountedSubjects(f[i - 1], run) = Upto(i - 1)
      BY <1>4
    <2>3. 1..i = (1..(i - 1)) \cup {i} /\ i \notin 1..(i - 1) /\ 1..(i - 1) \subseteq 1..n
      BY <1>1
    <2>4. Upto(i) = Upto(i - 1) \cup CountedSubjects(p[i], run)
      BY <2>3
    <2>5. Upto(i - 1) \cap CountedSubjects(p[i], run) = {}
      <3>1. \A j \in 1..(i - 1) : CountedSubjects(p[j], run) \cap CountedSubjects(p[i], run) = {}
        BY <1>1, <2>3
      <3> QED
        BY <3>1
    <2> HIDE DEF Upto
    <2>6. /\ Sound(f[i - 1] \o p[i], run)
          /\ CountedSubjects(f[i - 1] \o p[i], run) = Upto(i - 1) \cup CountedSubjects(p[i], run)
      <3>1. CountedSubjects(f[i - 1], run) \cap CountedSubjects(p[i], run) = {}
        BY <2>2, <2>5
      <3> QED
        BY <2>1, <2>2, <3>1, JoinedSound
    <2> QED
      BY <2>1, <2>4, <2>6
  <1> HIDE DEF G
  <1>5. n \in G
    <2>1. \A i \in 1..n : i - 1 \in G => i \in G
      BY <1>4
    <2>2. \A i \in 0..n : i \in G
      BY <1>1, <1>3, <2>1, AllOfThem
    <2> QED
      BY <1>1, <2>2
  <1> QED
    BY <1>1, <1>2, <1>5 DEF G

(***************************************************************************)
(* A whole chunk.                                                          *)
(***************************************************************************)
Completed(run, e) == Quad(RunGraph(run), Activity(run), "completedEndpoint", Node(e))

\* The chunk without its terminator.
Body(run, e, f) ==
  <<TypedAs(RunGraph(run), Node(e), "DataService")>>
  \o Measurements(run, e, f.rows) \o Declines(run, e, f.notMeasured)
  \o Samples(run, e, f.samples)
  \o Each(f.declarations, LAMBDA d : DeclarationsRead(run, e, d))
  \o Each(f.descriptions, LAMBDA d : DescriptionDocument(run, e, d))
  \o Each(f.voids, LAMBDA d : VoidDocument(run, e, d))
  \o Profiles(run, e, f.profiles)

LEMMA ChunkIsABody ==
  ASSUME NEW run, NEW e, NEW f
  PROVE  EmitEndpoint(run, e, f) =
           IF ~IsIri(e) THEN <<>> ELSE Body(run, e, f) \o <<Completed(run, e)>>
  BY DEF EmitEndpoint, Body, Completed

LEMMA MintedIsOurs ==
  ASSUME NEW q, NEW run, NEW e, NEW kind \in SubjectKinds, NEW m,
         q.graph = RunGraph(run), q.subject = Subject(kind, run, e, m),
         q.predicate \notin Terminators, q.predicate \notin DormancyOnly
  PROVE  Ours(q, run, e) /\ q.subject[1] = kind /\ q.subject[3] = e
  BY SubjectsAreTheirs DEF Ours, Unmarked, IsStated

LEMMA BodyIsSound ==
  ASSUME NEW run, NEW e, NEW f, AreLists(f)
  PROVE  LET s == Body(run, e, f) IN
         /\ Sound(s, run) /\ \A x \in CountedSubjects(s, run) : x[3] = e
         /\ \A q \in ToSet(s) : Ours(q, run, e)
         /\ TypedAs(RunGraph(run), Node(e), "DataService") \in ToSet(s)
  <1> DEFINE g == RunGraph(run)
             T == <<TypedAs(g, Node(e), "DataService")>>
             M == Measurements(run, e, f.rows)
             N == Declines(run, e, f.notMeasured)
             S == Samples(run, e, f.samples)
             dp == [i \in DOMAIN f.declarations |-> DeclarationsRead(run, e, f.declarations[i])]
             ep == [i \in DOMAIN f.descriptions |-> DescriptionDocument(run, e, f.descriptions[i])]
             vp == [i \in DOMAIN f.voids |-> VoidDocument(run, e, f.voids[i])]
             D == FlattenSeq(dp)
             E == FlattenSeq(ep)
             V == FlattenSeq(vp)
             R == Profiles(run, e, f.profiles)
             Fine(s) == /\ Sound(s, run) /\ \A x \in CountedSubjects(s, run) : x[3] = e
                        /\ \A q \in ToSet(s) : Ours(q, run, e)
             Kinds(s, K) == \A x \in CountedSubjects(s, run) : x[1] \in K
  <1>1. Body(run, e, f) = T \o M \o N \o S \o D \o E \o V \o R
    BY DEF Body, Each
  <1>2. Plain(T, run, e) /\ ToSet(T) = {TypedAs(g, Node(e), "DataService")}
    <2>1. Saying(T, g, Node(e), {"rdf:type"})
      BY Singles DEF Saying, Quad, TypedAs
    <2>2. Plain(T, run, e)
      BY <2>1, StatedIsPlain DEF Terminators, Counted, DormancyOnly
    <2> QED
      BY <2>2, Singles
  <1>3. Plain(D, run, e)
    <2>1. IsList(f.declarations) /\ dp = [i \in DOMAIN f.declarations |-> dp[i]]
      BY DEF AreLists
    <2>2. \A i \in DOMAIN f.declarations : Plain(dp[i], run, e)
      BY DeclarationsArePlain DEF AreLists
    <2> HIDE DEF dp
    <2> QED
      BY <2>1, <2>2, FlattenedPlain
  <1>4. Plain(E, run, e)
    <2>1. IsList(f.descriptions) /\ ep = [i \in DOMAIN f.descriptions |-> ep[i]]
      BY DEF AreLists
    <2>2. \A i \in DOMAIN f.descriptions : Plain(ep[i], run, e)
      BY DescriptionsArePlain DEF AreLists
    <2> HIDE DEF ep
    <2> QED
      BY <2>1, <2>2, FlattenedPlain
  <1>5. Plain(V, run, e)
    <2>1. IsList(f.voids) /\ vp = [i \in DOMAIN f.voids |-> vp[i]]
      BY DEF AreLists
    <2>2. \A i \in DOMAIN f.voids : Plain(vp[i], run, e)
      BY VoidsArePlain DEF AreLists
    <2> HIDE DEF vp
    <2> QED
      BY <2>1, <2>2, FlattenedPlain
  <1>6. Plain(R, run, e)
    BY ProfilesArePlain DEF AreLists
  <1> HIDE DEF T, D, E, V, R, Fine, Kinds
  <1>7. ASSUME NEW s, Plain(s, run, e) PROVE Fine(s) /\ CountedSubjects(s, run) = {}
    BY <1>7, PlainIsSound DEF Plain, Fine
  <1>8. Fine(M) /\ Kinds(M, {"measurement"})
    <2>1. /\ IsList(M)
          /\ \A q \in ToSet(M) : /\ q.graph = g /\ q.predicate \in MeasurementTerms
                                 /\ \E m : q.subject = Subject("measurement", run, e, m)
          /\ \A subject : Times(M, g, subject, "value") <= 1
      BY MeasurementsSay DEF AreLists
    <2> HIDE DEF M
    <2>2. \A q \in ToSet(M) : /\ q.predicate \notin Terminators /\ q.predicate \notin DormancyOnly
                              /\ q.predicate # "notMeasuredReason" /\ q.predicate # "sampleSize"
                              /\ q.predicate # "voidDeclaredTriples"
      <3>1. MeasurementTerms \cap (Terminators \cup DormancyOnly
               \cup {"notMeasuredReason", "sampleSize", "voidDeclaredTriples"}) = {}
        BY DEF MeasurementTerms, Terminators, DormancyOnly
      <3> QED
        BY <2>1, <3>1
    <2>3. \A q \in ToSet(M) : Ours(q, run, e) /\ q.subject[1] = "measurement" /\ q.subject[3] = e
      BY <2>1, <2>2, MintedIsOurs DEF SubjectKinds
    <2>4. \A subject : /\ Times(M, g, subject, "notMeasuredReason") = 0
                       /\ Times(M, g, subject, "sampleSize") = 0
      BY <2>1, <2>2, NeverSaid
    <2>5. \A p \in SaidOnce : \A subject : Times(M, g, subject, p) <= 1
      BY <2>1, <2>4 DEF SaidOnce
    <2>6. Sound(M, run)
      <3>1. Consistent(M, run)
        BY <2>1, <2>2, <2>5 DEF Consistent, ClaimsAreTied
      <3> QED
        BY <2>1, <3>1, StatedIsSound
    <2> QED
      BY <2>3, <2>6 DEF Fine, Kinds, CountedSubjects
  <1>9. Fine(N) /\ Kinds(N, {"not-measured"})
    <2>1. /\ IsList(N)
          /\ \A q \in ToSet(N) : /\ q.graph = g /\ q.predicate \in NotMeasuredTerms
                                 /\ \E m : q.subject = Subject("not-measured", run, e, m)
          /\ \A subject : Times(N, g, subject, "notMeasuredReason") <= 1
      BY DeclinesSay DEF AreLists
    <2> HIDE DEF N
    <2>2. \A q \in ToSet(N) : /\ q.predicate \notin Terminators /\ q.predicate \notin DormancyOnly
                              /\ q.predicate # "value" /\ q.predicate # "sampleSize"
                              /\ q.predicate # "voidDeclaredTriples"
      <3>1. NotMeasuredTerms \cap (Terminators \cup DormancyOnly
               \cup {"value", "sampleSize", "voidDeclaredTriples"}) = {}
        BY DEF NotMeasuredTerms, Terminators, DormancyOnly
      <3> QED
        BY <2>1, <3>1
    <2>3. \A q \in ToSet(N) : Ours(q, run, e) /\ q.subject[1] = "not-measured" /\ q.subject[3] = e
      BY <2>1, <2>2, MintedIsOurs DEF SubjectKinds
    <2>4. \A subject : /\ Times(N, g, subject, "value") = 0
                       /\ Times(N, g, subject, "sampleSize") = 0
      BY <2>1, <2>2, NeverSaid
    <2>5. \A p \in SaidOnce : \A subject : Times(N, g, subject, p) <= 1
      BY <2>1, <2>4 DEF SaidOnce
    <2>6. Sound(N, run)
      <3>1. Consistent(N, run)
        BY <2>1, <2>2, <2>5 DEF Consistent, ClaimsAreTied
      <3> QED
        BY <2>1, <3>1, StatedIsSound
    <2> QED
      BY <2>3, <2>6 DEF Fine, Kinds, CountedSubjects
  <1>10. Fine(S) /\ Kinds(S, {"content-sample"})
    <2>1. /\ IsList(S)
          /\ \A q \in ToSet(S) : /\ q.graph = g /\ q.predicate \in SampleTerms
                                 /\ \E m : q.subject = Subject("content-sample", run, e, m)
                                 /\ q.predicate = "sampleSize" =>
                                      q.object = Number(Times(S, g, q.subject, "sampledValue"))
          /\ \A subject : Times(S, g, subject, "sampleSize") <= 1
      BY SamplesSay DEF AreLists
    <2> HIDE DEF S
    <2>2. \A q \in ToSet(S) : /\ q.predicate \notin Terminators /\ q.predicate \notin DormancyOnly
                              /\ q.predicate # "notMeasuredReason" /\ q.predicate # "value"
                              /\ q.predicate # "voidDeclaredTriples"
      <3>1. SampleTerms \cap (Terminators \cup DormancyOnly
               \cup {"notMeasuredReason", "value", "voidDeclaredTriples"}) = {}
        BY DEF SampleTerms, Terminators, DormancyOnly
      <3> QED
        BY <2>1, <3>1
    <2>3. \A q \in ToSet(S) : Ours(q, run, e) /\ q.subject[1] = "content-sample" /\ q.subject[3] = e
      BY <2>1, <2>2, MintedIsOurs DEF SubjectKinds
    <2>4. \A subject : /\ Times(S, g, subject, "notMeasuredReason") = 0
                       /\ Times(S, g, subject, "value") = 0
      BY <2>1, <2>2, NeverSaid
    <2>5. \A p \in SaidOnce : \A subject : Times(S, g, subject, p) <= 1
      BY <2>1, <2>4 DEF SaidOnce
    <2>6. Sound(S, run)
      <3>1. Consistent(S, run)
        BY <2>1, <2>2, <2>5 DEF Consistent, ClaimsAreTied
      <3> QED
        BY <2>1, <3>1, StatedIsSound
    <2> QED
      BY <2>3, <2>6 DEF Fine, Kinds, CountedSubjects
  <1> HIDE DEF M, N, S, g
  <1>11. ASSUME NEW s, NEW t, NEW K, NEW L, Fine(s), Fine(t), Kinds(s, K), Kinds(t, L), K \cap L = {}
         PROVE  Fine(s \o t) /\ Kinds(s \o t, K \cup L) /\ ToSet(s) \subseteq ToSet(s \o t)
    <2>1. CountedSubjects(s, run) \cap CountedSubjects(t, run) = {}
      BY <1>11 DEF Kinds
    <2>2. /\ Sound(s \o t, run)
          /\ CountedSubjects(s \o t, run) = CountedSubjects(s, run) \cup CountedSubjects(t, run)
      BY <1>11, <2>1, JoinedSound DEF Fine
    <2>3. ToSet(s \o t) = ToSet(s) \cup ToSet(t)
      BY <1>11, JoinedSet DEF Fine, Sound, Consistent
    <2> QED
      BY <1>11, <2>2, <2>3 DEF Fine, Kinds
  <1>12. ASSUME NEW s, NEW t, NEW K, Fine(s), Kinds(s, K), Plain(t, run, e)
         PROVE  Fine(s \o t) /\ Kinds(s \o t, K) /\ ToSet(s) \subseteq ToSet(s \o t)
    <2>1. Fine(t) /\ Kinds(t, {})
      BY <1>7, <1>12 DEF Kinds
    <2>2. K \cap {} = {} /\ K \cup {} = K
      OBVIOUS
    <2>3. /\ Fine(s \o t) /\ Kinds(s \o t, K \cup {}) /\ ToSet(s) \subseteq ToSet(s \o t)
      BY <1>11, <1>12, <2>1, <2>2
    <2> QED
      BY <2>2, <2>3
  <1> DEFINE t == TypedAs(RunGraph(run), Node(e), "DataService")
             KM == {"measurement"}
             KN == {"measurement"} \cup {"not-measured"}
             KS == KN \cup {"content-sample"}
  <1>13. Fine(T) /\ Kinds(T, {}) /\ t \in ToSet(T)
    BY <1>2, <1>7 DEF Kinds, g
  <1> HIDE DEF t
  <1>14. Fine(T \o M) /\ Kinds(T \o M, KM) /\ t \in ToSet(T \o M)
    <2>1. {} \cap KM = {} /\ {} \cup KM = KM
      OBVIOUS
    <2>2. Fine(T \o M) /\ Kinds(T \o M, {} \cup KM) /\ ToSet(T) \subseteq ToSet(T \o M)
      BY <1>8, <1>11, <1>13, <2>1
    <2> QED
      BY <1>13, <2>1, <2>2
  <1>15. Fine(T \o M \o N) /\ Kinds(T \o M \o N, KN) /\ t \in ToSet(T \o M \o N)
    <2>1. KM \cap {"not-measured"} = {}
      OBVIOUS
    <2> QED
      BY <1>9, <1>11, <1>14, <2>1
  <1>16. Fine(T \o M \o N \o S) /\ Kinds(T \o M \o N \o S, KS) /\ t \in ToSet(T \o M \o N \o S)
    <2>1. KN \cap {"content-sample"} = {}
      OBVIOUS
    <2> QED
      BY <1>10, <1>11, <1>15, <2>1
  <1> HIDE DEF KS
  <1>17. Fine(T \o M \o N \o S \o D) /\ Kinds(T \o M \o N \o S \o D, KS) /\ t \in ToSet(T \o M \o N \o S \o D)
    BY <1>3, <1>12, <1>16
  <1>18. /\ Fine(T \o M \o N \o S \o D \o E) /\ Kinds(T \o M \o N \o S \o D \o E, KS)
         /\ t \in ToSet(T \o M \o N \o S \o D \o E)
    BY <1>4, <1>12, <1>17
  <1>19. /\ Fine(T \o M \o N \o S \o D \o E \o V) /\ Kinds(T \o M \o N \o S \o D \o E \o V, KS)
         /\ t \in ToSet(T \o M \o N \o S \o D \o E \o V)
    BY <1>5, <1>12, <1>18
  <1>20. /\ Fine(T \o M \o N \o S \o D \o E \o V \o R) /\ t \in ToSet(T \o M \o N \o S \o D \o E \o V \o R)
    BY <1>6, <1>12, <1>19
  <1>21. Fine(Body(run, e, f)) /\ t \in ToSet(Body(run, e, f))
    BY <1>1, <1>20
  <1> QED
    BY <1>21 DEF Fine, t

(***************************************************************************)
(* A section: but for its last quad nothing in it reads as a terminator,   *)
(* or only a statement that is copied from a vendor's document.            *)
(***************************************************************************)
Closes(s, run) ==
  /\ IsList(s) /\ EndsWell(s)
  /\ \A i \in DOMAIN s : i < Len(s) => Unmarked(s[i], run)

LEMMA Closed ==
  ASSUME NEW s, NEW run, IsList(s), \A q \in ToSet(s) : Unmarked(q, run),
         NEW z, IsTerminator(z)
  PROVE  LET u == s \o <<z>> IN
         Closes(u, run) /\ u # <<>> /\ u[Len(u)] = z /\ ToSet(u) = ToSet(s) \cup {z}
  <1> DEFINE u == s \o <<z>>
             n == Len(s)
  <1>1. IsList(<<z>>) /\ Len(<<z>>) = 1 /\ DOMAIN <<z>> = {1} /\ <<z>>[1] = z /\ ToSet(<<z>>) = {z}
    BY Singles
  <1>2. n \in Nat /\ DOMAIN s = 1..n
    BY ListsHaveALength
  <1>3. /\ IsList(u) /\ Len(u) = n + 1 /\ DOMAIN u = 1..(n + 1)
        /\ \A i \in DOMAIN s : u[i] = s[i]
        /\ u[n + 1] = z
    <2>1. /\ IsList(u) /\ Len(u) = n + Len(<<z>>) /\ DOMAIN u = 1..(n + Len(<<z>>))
          /\ \A i \in DOMAIN s : u[i] = s[i]
          /\ \A i \in DOMAIN <<z>> : u[n + i] = <<z>>[i]
      BY <1>1, JoinedList
    <2> HIDE DEF u, n
    <2> QED
      BY <1>1, <2>1
  <1>4. ToSet(u) = ToSet(s) \cup {z}
    BY <1>1, JoinedSet
  <1> HIDE DEF u, n
  <1>5. u # <<>>
    BY <1>2, <1>3, EmptyList
  <1>6. \A i \in DOMAIN u : i < Len(u) => Unmarked(u[i], run)
    <2> TAKE i \in DOMAIN u
    <2> HAVE i < Len(u)
    <2>1. i \in DOMAIN s
      BY <1>2, <1>3
    <2>2. u[i] = s[i] /\ s[i] \in ToSet(s)
      BY <1>3, <2>1 DEF ToSet
    <2> QED
      BY <2>2
  <1> QED
    BY <1>3, <1>4, <1>5, <1>6 DEF Closes, EndsWell, u

LEMMA TerminatorsEnd ==
  ASSUME NEW run, NEW p \in Terminators, NEW x
  PROVE  IsTerminator(Quad(RunGraph(run), Activity(run), p, x))
  BY DEF IsTerminator, Quad, Activity

(***************************************************************************)
(* What each section says.                                                 *)
(***************************************************************************)
OfChunk(q, run, e) == Ours(q, run, e) \/ q = Completed(run, e)

LEMMA ChunkIsASection ==
  ASSUME NEW run, NEW e, NEW f, AreLists(f)
  PROVE  LET s == EmitEndpoint(run, e, f) IN
         /\ Closes(s, run) /\ Sound(s, run)
         /\ \A x \in CountedSubjects(s, run) : x[3] = e
         /\ \A q \in ToSet(s) : OfChunk(q, run, e)
         /\ IsIri(e) => TypedAs(RunGraph(run), Node(e), "DataService") \in ToSet(s)
  <1> DEFINE s == EmitEndpoint(run, e, f)
             b == Body(run, e, f)
             z == Completed(run, e)
  <1>1. s = IF ~IsIri(e) THEN <<>> ELSE b \o <<z>>
    BY ChunkIsABody
  <1>2. /\ Sound(b, run) /\ \A x \in CountedSubjects(b, run) : x[3] = e
        /\ \A q \in ToSet(b) : Ours(q, run, e)
        /\ TypedAs(RunGraph(run), Node(e), "DataService") \in ToSet(b)
    BY BodyIsSound
  <1>3. IsTerminator(z)
    BY TerminatorsEnd DEF Completed, Terminators
  <1>4. Sound(<<z>>, run) /\ CountedSubjects(<<z>>, run) = {}
    <2>1. IsList(<<z>>) /\ ToSet(<<z>>) = {z}
      BY Singles
    <2>2. z.predicate = "completedEndpoint"
      BY DEF Completed, Quad
    <2>3. \A q \in {z} : q.predicate # "voidDeclaredTriples" /\ ~Counts(q, run)
      BY <2>2 DEF Counts, Counted
    <2>4. AlwaysTied(<<z>>, run)
      BY <2>1, <2>3, Unclaiming
    <2> HIDE DEF z
    <2> QED
      BY <2>1, <2>3, <2>4, UncountedIsSound
  <1> HIDE DEF s, b, z
  <1>5. CASE ~IsIri(e)
    <2>1. s = <<>>
      BY <1>1, <1>5
    <2>2. Sound(<<>>, run) /\ CountedSubjects(<<>>, run) = {}
      BY EmptyIsPlain, PlainIsSound
    <2>3. Closes(<<>>, run) /\ ToSet(<<>>) = {}
      BY EmptyList DEF Closes, EndsWell
    <2> QED
      BY <1>5, <2>1, <2>2, <2>3 DEF s
  <1>6. CASE IsIri(e)
    <2>1. s = b \o <<z>>
      BY <1>1, <1>6
    <2>2. IsList(b) /\ \A q \in ToSet(b) : Unmarked(q, run)
      BY <1>2 DEF Sound, Consistent, Ours
    <2>3. Closes(b \o <<z>>, run) /\ ToSet(b \o <<z>>) = ToSet(b) \cup {z}
      BY <1>3, <2>2, Closed
    <2>4. /\ Sound(b \o <<z>>, run)
          /\ CountedSubjects(b \o <<z>>, run) = CountedSubjects(b, run)
      BY <1>2, <1>4, JoinedSound
    <2>5. \A q \in ToSet(s) : OfChunk(q, run, e)
      BY <1>2, <2>1, <2>3 DEF OfChunk, z
    <2> QED
      BY <1>2, <2>1, <2>3, <2>4, <2>5 DEF s
  <1> QED
    BY <1>5, <1>6

OfHeader(q, run) ==
  /\ q.graph = RunGraph(run) /\ q.subject = Activity(run)
  /\ q.predicate \in {"rdf:type", "generatedAtTime", "metricDefinitionRevision", "maxCost",
                      "concurrency", "emission"}
OfFooter(q, run) ==
  /\ q.graph = RunGraph(run) /\ q.subject = Activity(run)
  /\ q.predicate \in {"failedEndpoints", "finalised"}

LEMMA HeaderIsASection ==
  ASSUME NEW run, NEW header
  PROVE  LET s == EmitHeader(run, header) IN
         Closes(s, run) /\ s # <<>> /\ \A q \in ToSet(s) : OfHeader(q, run)
  <1> DEFINE s == EmitHeader(run, header)
  <1>1. IsList(s) /\ Len(s) = 6 /\ s # <<>>
    BY Sixes DEF EmitHeader
  <1>2. \A q \in ToSet(s) : OfHeader(q, run)
    BY Sixes DEF EmitHeader, Quad, OfHeader
  <1>3. s[6] = Quad(RunGraph(run), Activity(run), "emission", Text("incremental"))
    BY DEF EmitHeader
  <1>4. IsTerminator(s[6])
    BY <1>3, TerminatorsEnd DEF Terminators
  <1>5. \A i \in {1, 2, 3, 4, 5} : s[i].predicate \notin Terminators
    BY DEF EmitHeader, Quad, Terminators
  <1>6. DOMAIN s = 1..6
    BY <1>1, ListsHaveALength
  <1> HIDE DEF s
  <1>7. \A i \in DOMAIN s : i < Len(s) => i \in {1, 2, 3, 4, 5}
    BY <1>1, <1>6
  <1>8. Closes(s, run)
    BY <1>1, <1>4, <1>5, <1>7 DEF Closes, EndsWell, Unmarked
  <1> QED
    BY <1>1, <1>2, <1>8 DEF s

LEMMA FooterIsASection ==
  ASSUME NEW run
  PROVE  LET s == EmitFooter(run, 0) IN
         /\ Closes(s, run) /\ s # <<>> /\ \A q \in ToSet(s) : OfFooter(q, run)
         /\ \E q \in ToSet(s) : q.graph = RunGraph(run) /\ q.predicate = "finalised"
         /\ s[Len(s)].predicate = "finalised"
  <1> DEFINE s == EmitFooter(run, 0)
             y == Quad(RunGraph(run), Activity(run), "failedEndpoints", Number(0))
             z == Quad(RunGraph(run), Activity(run), "finalised", Flag(TRUE))
  <1>1. s = <<y, z>>
    BY DEF EmitFooter
  <1>2. IsList(s) /\ Len(s) = 2 /\ ToSet(s) = {y, z} /\ DOMAIN s = 1..2 /\ s[1] = y /\ s[2] = z
    <2> HIDE DEF s, y, z
    <2>1. IsList(s) /\ Len(s) = 2 /\ ToSet(s) = {y, z} /\ s[1] = y /\ s[2] = z
      BY <1>1, Pairs
    <2> QED
      BY <2>1, ListsHaveALength
  <1>3. IsTerminator(z)
    BY TerminatorsEnd DEF Terminators
  <1>4. /\ y.predicate \notin Terminators /\ z.predicate = "finalised" /\ z.graph = RunGraph(run)
        /\ OfFooter(y, run) /\ OfFooter(z, run)
    BY DEF Quad, Terminators, OfFooter
  <1> HIDE DEF s, y, z
  <1>5. \A i \in DOMAIN s : i < Len(s) => i = 1
    BY <1>2
  <1>6. Closes(s, run) /\ s # <<>>
    BY <1>2, <1>3, <1>4, <1>5, EmptyList DEF Closes, EndsWell, Unmarked
  <1> QED
    BY <1>2, <1>4, <1>6 DEF s

(***************************************************************************)
(* The dormancy section: it names the endpoints that were declined, once   *)
(* each, and its count is of them.                                         *)
(***************************************************************************)
Named == {Node(f.endpoint) : f \in {d \in Dormant : IsIri(d.endpoint)}}
DormancyTerms == {"rdf:type", "dormancyReason", "dormantSince", "lastProbed"}
OfDormant(q, run, f) ==
  /\ q.graph = RunGraph(run)
  /\ \/ q.subject = Activity(run) /\ q.predicate = "dormantEndpoint" /\ q.object = Node(f.endpoint)
     \/ q.subject = Node(f.endpoint) /\ q.predicate \in DormancyTerms
CountOf(run, n) == Quad(RunGraph(run), Activity(run), "dormantCount", Number(n))
OfDormancy(q, run) ==
  \/ q = CountOf(run, Cardinality(Named))
  \/ \E f \in Dormant : IsIri(f.endpoint) /\ OfDormant(q, run, f)

LEMMA DormantQuads ==
  ASSUME NEW run, NEW f
  PROVE  LET s == DormancyQuads(run, f) IN
         /\ IsList(s) /\ \A q \in ToSet(s) : OfDormant(q, run, f)
         /\ ~IsIri(f.endpoint) => s = <<>>
         /\ IsIri(f.endpoint) =>
              /\ s # <<>>
              /\ Quad(RunGraph(run), Activity(run), "dormantEndpoint", Node(f.endpoint)) \in ToSet(s)
  <1> DEFINE e == Node(f.endpoint)
             g == RunGraph(run)
             x == Quad(g, Activity(run), "dormantEndpoint", e)
             y == TypedAs(g, e, "DataService")
             z == Quad(g, e, "dormancyReason", Text(f.reason))
             A == <<x, y, z>>
             v == Quad(g, e, "dormantSince", Text(f.since))
             w == Quad(g, e, "lastProbed", Text(f.probed))
             B == Optional(f.since, <<v>>)
             C == Optional(f.probed, <<w>>)
             s == DormancyQuads(run, f)
  <1>1. s = IF ~IsIri(f.endpoint) THEN <<>> ELSE A \o B \o C
    BY DEF DormancyQuads
  <1>2. /\ OfDormant(x, run, f) /\ OfDormant(y, run, f) /\ OfDormant(z, run, f)
        /\ OfDormant(v, run, f) /\ OfDormant(w, run, f)
    BY DEF OfDormant, Quad, TypedAs, DormancyTerms
  <1> HIDE DEF x, y, z, v, w, s
  <1>3. IsList(A) /\ ToSet(A) = {x, y, z}
    BY Triples
  <1>4. IsList(B) /\ ToSet(B) \subseteq {v}
    BY Singles, EmptyList DEF Optional
  <1>5. IsList(C) /\ ToSet(C) \subseteq {w}
    BY Singles, EmptyList DEF Optional
  <1> HIDE DEF A, B, C
  <1>6. IsList(A \o B) /\ ToSet(A \o B) = ToSet(A) \cup ToSet(B)
    BY <1>3, <1>4, JoinedSet
  <1>7. IsList(A \o B \o C) /\ ToSet(A \o B \o C) = ToSet(A) \cup ToSet(B) \cup ToSet(C)
    BY <1>5, <1>6, JoinedSet
  <1>8. CASE ~IsIri(f.endpoint)
    BY <1>1, <1>8, EmptyList DEF s
  <1>9. CASE IsIri(f.endpoint)
    <2>1. s = A \o B \o C
      BY <1>1, <1>9
    <2>2. x \in ToSet(s) /\ \A q \in ToSet(s) : OfDormant(q, run, f)
      BY <1>2, <1>3, <1>4, <1>5, <1>7, <2>1
    <2>3. s # <<>>
      BY <2>2, EmptyList
    <2> QED
      BY <1>7, <1>9, <2>1, <2>2, <2>3 DEF s, x, g, e
  <1> QED
    BY <1>8, <1>9

LEMMA DormancyIsASection ==
  ASSUME NEW run
  PROVE  LET s == EmitDormancy(run, Dormant) IN
         /\ Closes(s, run) /\ s # <<>> /\ \A q \in ToSet(s) : OfDormancy(q, run)
         /\ CountOf(run, Cardinality(Named)) \in ToSet(s)
         /\ \A n \in Named : Quad(RunGraph(run), Activity(run), "dormantEndpoint", n) \in ToSet(s)
  <1> DEFINE I == {i \in DOMAIN Alphabet : \E f \in Dormant : f.endpoint = Alphabet[i]}
             order == InOrder(Dormant)
             F(i) == CHOOSE f \in Dormant : f.endpoint = order[i]
             p == [i \in DOMAIN order |-> DormancyOf(run, Dormant, order[i])]
             published == {i \in DOMAIN order : DormancyOf(run, Dormant, order[i]) # <<>>}
             s == EmitDormancy(run, Dormant)
             z == CountOf(run, Cardinality(published))
  <1>1. s = FlattenSeq(p) \o <<z>>
    BY DEF EmitDormancy, Each, CountOf
  <1>2. /\ IsList(order) /\ DOMAIN order \in SUBSET Nat /\ IsFiniteSet(DOMAIN order)
        /\ \A k \in DOMAIN order : \E i \in I : order[k] = Alphabet[i]
        /\ \A i \in I : \E k \in DOMAIN order : order[k] = Alphabet[i]
        /\ \A k, l \in DOMAIN order : order[k] = order[l] => k = l
    <2>1. /\ IsList(Alphabet) /\ I \subseteq DOMAIN Alphabet
          /\ \A i, j \in DOMAIN Alphabet : Alphabet[i] = Alphabet[j] => i = j
      BY RunFileAssumption
    <2>2. order = Kept(Alphabet, I)
      BY DEF InOrder
    <2> HIDE DEF I, order
    <2>3. /\ IsList(order) /\ DOMAIN order = 1..Cardinality(I)
          /\ \A k \in DOMAIN order : Position(I, k) \in I /\ order[k] = Alphabet[Position(I, k)]
          /\ \A i \in I : \E k \in DOMAIN order : order[k] = Alphabet[i]
          /\ \A k, l \in DOMAIN order : Position(I, k) = Position(I, l) => k = l
      BY <2>1, <2>2, KeptIsAList
    <2>4. \A k, l \in DOMAIN order : order[k] = order[l] => k = l
      BY <2>1, <2>3
    <2>5. Len(order) \in Nat /\ DOMAIN order = 1..Len(order)
      BY <2>3, ListsHaveALength
    <2>6. IsFiniteSet(1..Len(order))
      BY <2>5, FS_Interval
    <2> QED
      BY <2>3, <2>4, <2>5, <2>6
  <1> HIDE DEF order
  <1>3. \A i \in DOMAIN order : F(i) \in Dormant /\ F(i).endpoint = order[i]
    <2> TAKE i \in DOMAIN order
    <2>1. \E f \in Dormant : f.endpoint = order[i]
      BY <1>2
    <2> QED
      BY <2>1
  <1>4. \A f \in Dormant : \E i \in DOMAIN order : F(i) = f
    <2> TAKE f \in Dormant
    <2>1. PICK j \in DOMAIN Alphabet : Alphabet[j] = f.endpoint
      BY RunFileAssumption DEF ToSet
    <2>2. PICK i \in DOMAIN order : order[i] = f.endpoint
      BY <1>2, <2>1
    <2>3. F(i) = f
      BY <1>3, <2>2, RunFileAssumption
    <2> QED
      BY <2>3
  <1>5. \A i \in DOMAIN order : p[i] = DormancyQuads(run, F(i))
    BY DEF DormancyOf
  <1>6. DOMAIN p = DOMAIN order /\ p = [i \in DOMAIN order |-> p[i]]
    OBVIOUS
  <1>7. published = {i \in DOMAIN order : p[i] # <<>>}
    OBVIOUS
  <1> HIDE DEF p, published, F, z, s
  <1>8. \A i \in DOMAIN order :
          /\ IsList(p[i]) /\ \A q \in ToSet(p[i]) : OfDormant(q, run, F(i))
          /\ p[i] = <<>> <=> ~IsIri(F(i).endpoint)
          /\ IsIri(F(i).endpoint) =>
               Quad(RunGraph(run), Activity(run), "dormantEndpoint", Node(F(i).endpoint)) \in ToSet(p[i])
    BY <1>5, DormantQuads
  <1>9. Pieces(p)
    BY <1>2, <1>6, <1>8, Mapped DEF Pieces
  <1>10. /\ IsList(FlattenSeq(p))
         /\ ToSet(FlattenSeq(p)) = UNION {ToSet(p[i]) : i \in DOMAIN order}
    BY <1>6, <1>9, FlattenedSet
  <1>11. Cardinality(published) = Cardinality(Named)
    <2> DEFINE m == [i \in published |-> Node(order[i])]
    <2>1. \A i, j \in published : m[i] = m[j] => i = j
      <3>1. \A i \in published : m[i][2] = order[i]
        BY DEF Node
      <3>2. published \subseteq DOMAIN order
        BY <1>7
      <3> HIDE DEF m
      <3> QED
        BY <1>2, <3>1, <3>2
    <2>2. \A i \in published : m[i] \in Named
      <3> TAKE i \in published
      <3>1. i \in DOMAIN order /\ IsIri(F(i).endpoint)
        BY <1>7, <1>8
      <3>2. F(i) \in Dormant /\ F(i).endpoint = order[i]
        BY <1>3, <3>1
      <3> QED
        BY <3>1, <3>2 DEF Named
    <2>3. \A n \in Named : \E i \in published : m[i] = n
      <3> TAKE n \in Named
      <3>1. PICK f \in Dormant : IsIri(f.endpoint) /\ n = Node(f.endpoint)
        BY DEF Named
      <3>2. PICK i \in DOMAIN order : F(i) = f
        BY <1>4
      <3>3. i \in published /\ order[i] = f.endpoint
        BY <1>3, <1>7, <1>8, <3>1, <3>2
      <3> QED
        BY <3>1, <3>3
    <2>4. m \in [published -> Named]
      BY <2>2
    <2>5. m \in Bijection(published, Named)
      BY <2>1, <2>3, <2>4 DEF Bijection, Injection, Surjection, IsInjective
    <2>6. IsFiniteSet(published)
      BY <1>2, <1>7, FS_Subset
    <2> QED
      BY <2>5, <2>6, FS_Bijection DEF ExistsBijection
  <1>12. z = CountOf(run, Cardinality(Named)) /\ IsTerminator(z)
    BY <1>11, TerminatorsEnd DEF z, CountOf, Terminators
  <1>13. \A q \in ToSet(FlattenSeq(p)) :
           Unmarked(q, run) /\ \E f \in Dormant : IsIri(f.endpoint) /\ OfDormant(q, run, f)
    <2> TAKE q \in ToSet(FlattenSeq(p))
    <2>1. PICK i \in DOMAIN order : q \in ToSet(p[i])
      BY <1>10
    <2>2. OfDormant(q, run, F(i)) /\ F(i) \in Dormant
      BY <1>3, <1>8, <2>1
    <2>3. IsIri(F(i).endpoint)
      BY <1>8, <2>1, EmptyList
    <2>4. Unmarked(q, run)
      BY <2>2 DEF OfDormant, DormancyTerms, Terminators, Unmarked
    <2> QED
      BY <2>2, <2>3, <2>4
  <1>14. /\ Closes(s, run) /\ s # <<>> /\ ToSet(s) = ToSet(FlattenSeq(p)) \cup {z}
    BY <1>1, <1>10, <1>12, <1>13, Closed
  <1>15. \A q \in ToSet(s) : OfDormancy(q, run)
    BY <1>12, <1>13, <1>14 DEF OfDormancy
  <1>16. \A n \in Named : Quad(RunGraph(run), Activity(run), "dormantEndpoint", n) \in ToSet(s)
    <2> TAKE n \in Named
    <2>1. PICK f \in Dormant : IsIri(f.endpoint) /\ n = Node(f.endpoint)
      BY DEF Named
    <2>2. PICK i \in DOMAIN order : F(i) = f
      BY <1>4
    <2>3. Quad(RunGraph(run), Activity(run), "dormantEndpoint", n) \in ToSet(p[i])
      BY <1>8, <2>1, <2>2
    <2> QED
      BY <1>10, <1>14, <2>3
  <1> QED
    BY <1>12, <1>14, <1>15, <1>16 DEF s

(***************************************************************************)
(* A quad belongs to one section only: the chunks are told apart by the    *)
(* endpoint in what they name, and none of them speaks of the run itself   *)
(* or of an endpoint that was declined.                                    *)
(***************************************************************************)
LEMMA NodesDiffer ==
  ASSUME NEW run, NEW e, NEW e2
  PROVE  Node(e) # Activity(run) /\ (Node(e) = Node(e2) => e = e2)
  <1>1. /\ Node(e)[1] = "iri" /\ Node(e)[2] = e /\ Node(e2)[2] = e2
        /\ Activity(run)[1] = "activity"
    BY DEF Node, Activity
  <1> QED
    BY <1>1

LEMMA MintedIsNoNode ==
  ASSUME NEW run, NEW e, NEW e2, NEW kind \in SubjectKinds, NEW m
  PROVE  Subject(kind, run, e, m) # Activity(run) /\ Subject(kind, run, e, m) # Node(e2)
  <1>1. Node(e2)[1] = "iri" /\ Activity(run)[1] = "activity"
    BY DEF Node, Activity
  <1>2. Subject(kind, run, e, m)[1] = kind
    BY SubjectsAreTheirs
  <1>3. kind # "iri" /\ kind # "activity"
    BY DEF SubjectKinds
  <1> QED
    BY <1>1, <1>2, <1>3

LEMMA MintedDiffer ==
  ASSUME NEW run, NEW e, NEW e2, NEW kind, NEW kind2, NEW m, NEW m2,
         Subject(kind, run, e, m) = Subject(kind2, run, e2, m2)
  PROVE  e = e2
  <1>1. Subject(kind, run, e, m)[3] = e /\ Subject(kind2, run, e2, m2)[3] = e2
    BY SubjectsAreTheirs
  <1> QED
    BY <1>1

LEMMA CopiesDiffer ==
  ASSUME NEW run, NEW e, NEW e2, NEW kind \in CopyKinds, NEW kind2 \in CopyKinds,
         CopyGraph(kind, run, e) = CopyGraph(kind2, run, e2)
  PROVE  e = e2
  <1>1. CopyGraph(kind, run, e)[3] = e /\ CopyGraph(kind2, run, e2)[3] = e2
    BY DEF CopyGraph
  <1> QED
    BY <1>1

LEMMA CompletedSays ==
  ASSUME NEW run, NEW e
  PROVE  /\ Completed(run, e).graph = RunGraph(run) /\ Completed(run, e).subject = Activity(run)
         /\ Completed(run, e).predicate = "completedEndpoint" /\ Completed(run, e).object = Node(e)
  BY DEF Completed, Quad

LEMMA ChunksAreApart ==
  ASSUME NEW q, NEW run, NEW e, NEW e2, OfChunk(q, run, e), OfChunk(q, run, e2)
  PROVE  e = e2
  <1>1. \A e3 : q = Completed(run, e3) =>
          q.graph = RunGraph(run) /\ q.predicate = "completedEndpoint" /\ q.object = Node(e3)
    BY CompletedSays
  <1>2. CASE q = Completed(run, e) \/ q = Completed(run, e2)
    <2>1. q.graph = RunGraph(run) /\ q.predicate \in Terminators
      BY <1>1, <1>2 DEF Terminators
    <2>2. q = Completed(run, e) /\ q = Completed(run, e2)
      BY <2>1 DEF OfChunk, Ours, Unmarked
    <2>3. Node(e) = Node(e2)
      BY <1>1, <2>2
    <2> QED
      BY <2>3 DEF Node
  <1>3. CASE ~(q = Completed(run, e) \/ q = Completed(run, e2))
    <2>1. Ours(q, run, e) /\ Ours(q, run, e2)
      BY <1>3 DEF OfChunk
    <2>2. CASE q.graph = RunGraph(run)
      <3>1. IsStated(q, run, e) /\ IsStated(q, run, e2)
        BY <2>1, <2>2, GraphsDiffer DEF Ours, IsCopied
      <3>3. CASE q.subject = Node(e) /\ q.subject = Node(e2)
        BY <3>3 DEF Node
      <3>4. CASE q.subject = Node(e) /\ q.subject # Node(e2)
        BY <3>1, <3>4, MintedIsNoNode DEF IsStated
      <3>5. CASE q.subject # Node(e) /\ q.subject = Node(e2)
        BY <3>1, <3>5, MintedIsNoNode DEF IsStated
      <3>6. CASE q.subject # Node(e) /\ q.subject # Node(e2)
        <4>1. PICK kind \in SubjectKinds : \E m : q.subject = Subject(kind, run, e, m)
          BY <3>1, <3>6 DEF IsStated
        <4>2. PICK kind2 \in SubjectKinds : \E m : q.subject = Subject(kind2, run, e2, m)
          BY <3>1, <3>6 DEF IsStated
        <4>3. PICK m : q.subject = Subject(kind, run, e, m)
          BY <4>1
        <4>4. PICK m2 : q.subject = Subject(kind2, run, e2, m2)
          BY <4>2
        <4> QED
          BY <4>3, <4>4, MintedDiffer
      <3> QED
        BY <3>3, <3>4, <3>5, <3>6
    <2>3. CASE q.graph # RunGraph(run)
      <3>1. IsCopied(q, run, e) /\ IsCopied(q, run, e2)
        BY <2>1, <2>3 DEF Ours, IsStated
      <3> QED
        BY <3>1, CopiesDiffer DEF IsCopied
    <2> QED
      BY <2>2, <2>3
  <1> QED
    BY <1>2, <1>3

LEMMA ChunksAreTheirs ==
  ASSUME NEW q, NEW run, NEW e \in Planned, OfChunk(q, run, e)
  PROVE  /\ ~OfHeader(q, run) /\ ~OfFooter(q, run) /\ ~OfDormancy(q, run)
         /\ q.graph = RunGraph(run) =>
              q.predicate \notin {"dormantEndpoint", "dormancyReason", "dormantCount", "finalised"}
  <1>1. CASE q = Completed(run, e)
    <2>1. /\ q.graph = RunGraph(run) /\ q.subject = Activity(run)
          /\ q.predicate = "completedEndpoint"
      BY <1>1, CompletedSays
    <2>2. ~OfHeader(q, run) /\ ~OfFooter(q, run)
      BY <2>1 DEF OfHeader, OfFooter
    <2>3. CountOf(run, Cardinality(Named)).predicate = "dormantCount"
      BY DEF CountOf, Quad
    <2>4. \A f : ~OfDormant(q, run, f)
      BY <2>1 DEF OfDormant, DormancyTerms
    <2> QED
      BY <2>1, <2>2, <2>3, <2>4 DEF OfDormancy
  <1>2. CASE Ours(q, run, e) /\ q.graph # RunGraph(run)
    <2>1. CountOf(run, Cardinality(Named)).graph = RunGraph(run)
      BY DEF CountOf, Quad
    <2> QED
      BY <1>2, <2>1 DEF OfHeader, OfFooter, OfDormancy, OfDormant
  <1>3. CASE Ours(q, run, e) /\ q.graph = RunGraph(run)
    <2>1. IsStated(q, run, e) /\ q.predicate \notin Terminators
      BY <1>3, GraphsDiffer DEF Ours, Unmarked, IsCopied
    <2>2. q.subject # Activity(run)
      BY <2>1, NodesDiffer, MintedIsNoNode DEF IsStated
    <2>3. CountOf(run, Cardinality(Named)).subject = Activity(run)
      BY DEF CountOf, Quad
    <2>4. \A f \in Dormant : q.subject # Node(f.endpoint)
      <3> TAKE f \in Dormant
      <3>1. f.endpoint # e
        BY RunFileAssumption DEF Planned
      <3> QED
        BY <2>1, <3>1, NodesDiffer, MintedIsNoNode DEF IsStated
    <2>5. ~OfDormancy(q, run)
      BY <2>2, <2>3, <2>4 DEF OfDormancy, OfDormant
    <2>6. q.predicate \notin {"dormantEndpoint", "dormancyReason", "dormantCount", "finalised"}
      BY <2>1 DEF IsStated, DormancyOnly, Terminators
    <2> QED
      BY <2>2, <2>5, <2>6 DEF OfHeader, OfFooter
  <1> QED
    BY <1>1, <1>2, <1>3 DEF OfChunk

LEMMA DormancyIsApart ==
  ASSUME NEW q, NEW run, OfDormancy(q, run)
  PROVE  ~OfHeader(q, run) /\ ~OfFooter(q, run)
  <1>1. CASE q = CountOf(run, Cardinality(Named))
    <2>1. q.predicate = "dormantCount"
      BY <1>1 DEF CountOf, Quad
    <2> QED
      BY <2>1 DEF OfHeader, OfFooter
  <1>2. ASSUME NEW f \in Dormant, OfDormant(q, run, f)
        PROVE  ~OfHeader(q, run) /\ ~OfFooter(q, run)
    <2>1. Node(f.endpoint) # Activity(run)
      <3>1. Node(f.endpoint)[1] = "iri" /\ Activity(run)[1] = "activity"
        BY DEF Node, Activity
      <3> QED
        BY <3>1
    <2> QED
      BY <1>2, <2>1 DEF OfHeader, OfFooter, OfDormant
  <1> QED
    BY <1>1, <1>2 DEF OfDormancy

(***************************************************************************)
(* A file, of whole sections.                                              *)
(***************************************************************************)
MadeChunk(at, fs, e) == ToSet(EmitEndpoint(at, e, fs[e]))
HeaderOf(at) == ToSet(EmitHeader(at, Header))
DeclinedOf(at) == ToSet(EmitDormancy(at, Dormant))
FooterOf(at) == ToSet(EmitFooter(at, 0))

MadeOf(quads, at, fs, S, H, D, T) ==
  /\ S \subseteq Planned
  /\ H \in {{}, HeaderOf(at)} /\ D \in {{}, DeclinedOf(at)} /\ T \in {{}, FooterOf(at)}
  /\ T # {} => S = Planned
  /\ quads = H \cup D \cup T \cup UNION {MadeChunk(at, fs, e) : e \in S}

LEMMA WhatSectionsSay ==
  ASSUME NEW at, NEW fs, \A e \in Planned : AreLists(fs[e])
  PROVE  /\ \A q \in HeaderOf(at) : OfHeader(q, at)
         /\ \A q \in DeclinedOf(at) : OfDormancy(q, at)
         /\ \A q \in FooterOf(at) : OfFooter(q, at)
         /\ \A e \in Planned : \A q \in MadeChunk(at, fs, e) : OfChunk(q, at, e)
  BY HeaderIsASection, DormancyIsASection, FooterIsASection, ChunkIsASection
     DEF HeaderOf, DeclinedOf, FooterOf, MadeChunk

LEMMA ChunksAreWhole ==
  ASSUME NEW quads, NEW at, NEW fs, NEW S, NEW H, NEW D, NEW T, MadeOf(quads, at, fs, S, H, D, T),
         \A e \in Planned : AreLists(fs[e]), NEW e \in Planned
  PROVE  quads \cap MadeChunk(at, fs, e) \in {{}, MadeChunk(at, fs, e)}
  <1> DEFINE chunk == MadeChunk(at, fs, e)
  <1>1. \A q \in H \cup D \cup T : q \notin chunk
    <2>1. \A q \in chunk : q \notin HeaderOf(at) /\ q \notin DeclinedOf(at) /\ q \notin FooterOf(at)
      BY WhatSectionsSay, ChunksAreTheirs
    <2> HIDE DEF chunk
    <2> QED
      BY <2>1 DEF MadeOf
  <1>2. \A e2 \in S : e2 # e => chunk \cap MadeChunk(at, fs, e2) = {}
    <2> SUFFICES ASSUME NEW e2 \in S, e2 # e, NEW q \in chunk, q \in MadeChunk(at, fs, e2)
                 PROVE  FALSE
      OBVIOUS
    <2>1. e2 \in Planned
      BY DEF MadeOf
    <2>2. OfChunk(q, at, e) /\ OfChunk(q, at, e2)
      BY <2>1, WhatSectionsSay
    <2> QED
      BY <2>2, ChunksAreApart
  <1> HIDE DEF chunk
  <1>3. CASE e \in S
    <2>1. chunk \subseteq quads
      BY <1>3 DEF MadeOf, chunk
    <2> QED
      BY <2>1 DEF chunk
  <1>4. CASE e \notin S
    <2>1. quads \cap chunk = {}
      BY <1>1, <1>2, <1>4 DEF MadeOf
    <2> QED
      BY <2>1 DEF chunk
  <1> QED
    BY <1>3, <1>4

InRun(quads, at, predicate) ==
  {q \in quads : q.graph = RunGraph(at) /\ q.predicate = predicate}

LEMMA DeclinedAreWhole ==
  ASSUME NEW quads, NEW at, NEW fs, NEW S, NEW H, NEW D, NEW T, MadeOf(quads, at, fs, S, H, D, T),
         \A e \in Planned : AreLists(fs[e])
  PROVE  /\ \A p \in {"dormantEndpoint", "dormancyReason", "dormantCount"} :
              InRun(quads, at, p) = InRun(D, at, p)
         /\ D = {} \/ D = DeclinedOf(at)
         /\ InRun(DeclinedOf(at), at, "dormantCount") = {CountOf(at, Cardinality(Named))}
         /\ {q.object : q \in InRun(DeclinedOf(at), at, "dormantEndpoint")} = Named
  <1>1. D \subseteq quads /\ (D = {} \/ D = DeclinedOf(at))
    BY DEF MadeOf
  <1>2. \A q \in quads : q \notin D =>
          q \in HeaderOf(at) \/ q \in FooterOf(at) \/ \E e \in Planned : q \in MadeChunk(at, fs, e)
    BY DEF MadeOf
  <1>3. \A q \in quads : q.graph = RunGraph(at) /\ q \notin D =>
          q.predicate \notin {"dormantEndpoint", "dormancyReason", "dormantCount"}
    <2> TAKE q \in quads
    <2> HAVE q.graph = RunGraph(at) /\ q \notin D
    <2>1. OfHeader(q, at) \/ OfFooter(q, at) \/ \E e \in Planned : OfChunk(q, at, e)
      BY <1>2, WhatSectionsSay
    <2>2. CASE OfHeader(q, at) \/ OfFooter(q, at)
      BY <2>2 DEF OfHeader, OfFooter
    <2>3. CASE \E e \in Planned : OfChunk(q, at, e)
      BY <2>3, ChunksAreTheirs
    <2> QED
      BY <2>1, <2>2, <2>3
  <1>4. \A p \in {"dormantEndpoint", "dormancyReason", "dormantCount"} :
          InRun(quads, at, p) = InRun(D, at, p)
    BY <1>1, <1>3 DEF InRun
  <1> DEFINE z == CountOf(at, Cardinality(Named))
  <1>5. /\ z \in DeclinedOf(at)
        /\ z.graph = RunGraph(at) /\ z.predicate = "dormantCount"
        /\ \A q \in DeclinedOf(at) : OfDormancy(q, at)
    BY DormancyIsASection DEF CountOf, Quad, DeclinedOf
  <1> HIDE DEF z
  <1>6. InRun(DeclinedOf(at), at, "dormantCount") = {z}
    <2>1. \A q \in DeclinedOf(at) : q.predicate = "dormantCount" => q = z
      BY <1>5 DEF OfDormancy, OfDormant, DormancyTerms, z
    <2> QED
      BY <1>5, <2>1 DEF InRun
  <1>7. {q.object : q \in InRun(DeclinedOf(at), at, "dormantEndpoint")} = Named
    <2>1. \A q \in DeclinedOf(at) : q.predicate = "dormantEndpoint" => q.object \in Named
      <3> TAKE q \in DeclinedOf(at)
      <3> HAVE q.predicate = "dormantEndpoint"
      <3>1. PICK f \in Dormant : IsIri(f.endpoint) /\ OfDormant(q, at, f)
        BY <1>5 DEF OfDormancy, z
      <3>2. q.object = Node(f.endpoint)
        BY <3>1 DEF OfDormant, DormancyTerms
      <3> QED
        BY <3>1, <3>2 DEF Named
    <2>2. \A n \in Named : \E q \in InRun(DeclinedOf(at), at, "dormantEndpoint") : q.object = n
      <3> TAKE n \in Named
      <3> DEFINE q == Quad(RunGraph(at), Activity(at), "dormantEndpoint", n)
      <3>1. q \in DeclinedOf(at)
        BY DormancyIsASection DEF DeclinedOf
      <3>2. q.graph = RunGraph(at) /\ q.predicate = "dormantEndpoint" /\ q.object = n
        BY DEF Quad
      <3> HIDE DEF q
      <3> QED
        BY <3>1, <3>2 DEF InRun
    <2> QED
      BY <2>1, <2>2 DEF InRun
  <1> QED
    BY <1>1, <1>4, <1>6, <1>7 DEF z

LEMMA FooterMeansAll ==
  ASSUME NEW quads, NEW at, NEW fs, NEW S, NEW H, NEW D, NEW T, MadeOf(quads, at, fs, S, H, D, T),
         \A e \in Planned : AreLists(fs[e]), InRun(quads, at, "finalised") # {},
         NEW e \in Planned, IsIri(e)
  PROVE  TypedAs(RunGraph(at), Node(e), "DataService") \in quads
  <1>1. PICK q \in quads : q.graph = RunGraph(at) /\ q.predicate = "finalised"
    BY DEF InRun
  <1>2. q \notin H /\ q \notin D
    <2>1. CountOf(at, Cardinality(Named)).predicate = "dormantCount"
      BY DEF CountOf, Quad
    <2>2. ~OfHeader(q, at) /\ ~OfDormancy(q, at)
      BY <1>1, <2>1 DEF OfHeader, OfDormancy, OfDormant, DormancyTerms
    <2> QED
      BY <2>2, WhatSectionsSay DEF MadeOf
  <1>3. \A e2 \in Planned : q \notin MadeChunk(at, fs, e2)
    BY <1>1, WhatSectionsSay, ChunksAreTheirs
  <1>4. q \in T /\ S = Planned
    BY <1>1, <1>2, <1>3 DEF MadeOf
  <1>5. TypedAs(RunGraph(at), Node(e), "DataService") \in MadeChunk(at, fs, e)
    BY ChunkIsASection DEF MadeChunk
  <1> QED
    BY <1>4, <1>5 DEF MadeOf

LEMMA TakenWhole ==
  ASSUME NEW s, IsList(s), EndsWell(s)
  PROVE  Taken(s) = s
  <1>1. CASE s # <<>>
    BY <1>1 DEF Taken, EndsAtTerminator, EndsWell, IsTerminator, Last
  <1>2. CASE s = <<>>
    <2>1. ~EndsAtTerminator(s) /\ ~HoldsEndpointFacts(s)
      BY <1>2 DEF EndsAtTerminator, HoldsEndpointFacts
    <2>2. LastTerminator(s) = 0
      BY <1>2 DEF LastTerminator, SelectLastInSeq
    <2> QED
      BY <1>2, <2>1, <2>2 DEF Taken
  <1> QED
    BY <1>1, <1>2

\* What is left of a file of whole sections and one more, which was cut.
LeftOf(left, s, t, run) ==
  \/ left \in {s, s \o t}
  \/ \E j \in DOMAIN t : t[j].graph # RunGraph(run) /\ left = s \o SubSeq(t, 1, j)

\* A cut in a section loses that section and nothing before it, unless what the loader
\* takes for its terminator is a statement copied from a vendor's document.
LEMMA TakenCut ==
  ASSUME NEW s, IsList(s), EndsWell(s), NEW t, NEW run, Closes(t, run), NEW k \in 0..Len(t),
         s # <<>> \/ \A q \in ToSet(t) : q.subject[1] = "activity" /\ q.graph = RunGraph(run)
  PROVE  LeftOf(Taken(s \o SubSeq(t, 1, k)), s, t, run)
  <1> DEFINE v == SubSeq(t, 1, k)
             u == s \o v
             n == Len(s)
             InACopy(left) == \E j \in DOMAIN t : t[j].graph # RunGraph(run) /\ left = s \o SubSeq(t, 1, j)
  <1>1. /\ n \in Nat /\ DOMAIN s = 1..n /\ IsList(t) /\ EndsWell(t)
        /\ Len(t) \in Nat /\ DOMAIN t = 1..Len(t)
    BY ListsHaveALength DEF Closes
  <1>2. /\ IsList(v) /\ Len(v) = k /\ DOMAIN v = 1..k /\ \A i \in 1..k : v[i] = t[i]
        /\ (k = 0 => v = <<>>) /\ (k = Len(t) => v = t)
    BY <1>1, FirstOnes
  <1> HIDE DEF v, InACopy
  <1> SUFFICES Taken(u) \in {s, s \o t} \/ InACopy(Taken(u))
    BY DEF v, InACopy, LeftOf
  <1>3. CASE k = 0
    <2>1. u = s
      BY <1>2, <1>3, JoinedNothing
    <2> HIDE DEF u
    <2> QED
      BY <2>1, TakenWhole
  <1>4. CASE k = Len(t)
    <2>1. u = s \o t
      BY <1>2, <1>4
    <2>2. IsList(s \o t) /\ EndsWell(s \o t)
      BY <1>1, JoinedSet, JoinedEnds
    <2>3. Taken(s \o t) = s \o t
      BY <2>2, TakenWhole
    <2> QED
      BY <2>1, <2>3
  <1>5. CASE k # 0 /\ k # Len(t)
    <2>0. k \in 1..(Len(t) - 1)
      <3>1. k \in Nat /\ k <= Len(t)
        BY <1>1
      <3> HIDE DEF u, n
      <3> QED
        <4>1. \A a, b \in Nat : a <= b /\ a # 0 /\ a # b => a \in 1..(b - 1)
          OBVIOUS
        <4>2. Len(t) \in Nat
          BY <1>1
        <4> QED
          BY <1>5, <3>1, <4>1, <4>2
    <2>1. /\ IsList(u) /\ Len(u) = n + k /\ DOMAIN u = 1..(n + k)
          /\ \A i \in DOMAIN s : u[i] = s[i]
          /\ \A i \in DOMAIN v : u[n + i] = v[i]
          /\ \A i \in DOMAIN u : \/ i \in DOMAIN s /\ u[i] = s[i]
                                 \/ i - n \in DOMAIN v /\ u[i] = v[i - n]
      BY <1>2, JoinedList
    <2>2. SubSeq(u, 1, n) = s
      BY <1>2, BeginsWith
    <2> HIDE DEF u, n
    <2>3. \A i \in 1..k : i \in DOMAIN t /\ i < Len(t) /\ Unmarked(t[i], run)
      <3>1. \A i \in 1..k : i \in DOMAIN t /\ i < Len(t)
        BY <1>1, <2>0
      <3> QED
        BY <3>1 DEF Closes
    <2>4. u[Len(u)] = t[k] /\ k \in 1..k
      <3>1. k \in 1..k /\ k \in DOMAIN v
        BY <1>2, <2>0
      <3> QED
        BY <1>2, <2>1, <3>1
    <2>5. \A i \in 1..Len(u) : IsTerminator(u[i]) =>
            i \in 1..n \/ (i - n \in 1..k /\ t[i - n].graph # RunGraph(run))
      <3> TAKE i \in 1..Len(u)
      <3> HAVE IsTerminator(u[i])
      <3>1. i \in DOMAIN u
        BY <2>1
      <3>2. CASE i \in DOMAIN s
        BY <1>1, <3>2 DEF n
      <3>3. CASE i - n \in DOMAIN v /\ u[i] = v[i - n]
        <4>1. i - n \in 1..k /\ u[i] = t[i - n]
          BY <1>2, <3>3
        <4> QED
          BY <2>3, <4>1 DEF IsTerminator, Unmarked
      <3> QED
        BY <2>1, <3>1, <3>2, <3>3
    <2> DEFINE I == {i \in 1..Len(u) : IsTerminator(u[i])}
    <2>6. LastTerminator(u) = IF I # {} THEN Max(I) ELSE 0
      BY DEF LastTerminator, SelectLastInSeq
    <2>9. CASE EndsAtTerminator(u)
      <3>1. t[k].graph # RunGraph(run) /\ k \in DOMAIN t
        BY <2>3, <2>4, <2>9 DEF EndsAtTerminator, Last, Unmarked
      <3>2. Taken(u) = u
        BY <2>9 DEF Taken
      <3>3. u = s \o SubSeq(t, 1, k)
        BY DEF u, v
      <3> QED
        BY <3>1, <3>2, <3>3 DEF InACopy
    <2>7. CASE s = <<>> /\ ~EndsAtTerminator(u)
      <3>1. n = 0
        BY <2>7, EmptyList DEF n
      <3>2. \A i \in DOMAIN u : u[i].subject[1] = "activity" /\ u[i].graph = RunGraph(run)
        <4> TAKE i \in DOMAIN u
        <4>1. i - n \in DOMAIN v /\ u[i] = v[i - n]
          BY <1>1, <2>1, <3>1 DEF n
        <4>2. i - n \in DOMAIN t /\ u[i] = t[i - n]
          BY <1>2, <2>3, <4>1
        <4>3. u[i] \in ToSet(t)
          BY <4>2 DEF ToSet
        <4> QED
          BY <2>7, <4>3
      <3>3. \A i \in 1..k : t[i].graph = RunGraph(run)
        <4> TAKE i \in 1..k
        <4>1. t[i] \in ToSet(t)
          BY <2>3 DEF ToSet
        <4> QED
          BY <2>7, <4>1
      <3>4. I = {}
        <4> SUFFICES ASSUME NEW i \in 1..Len(u), IsTerminator(u[i]) PROVE FALSE
          OBVIOUS
        <4>1. i \notin 1..n
          BY <3>1
        <4> QED
          BY <2>5, <3>3, <4>1
      <3>5. LastTerminator(u) = 0
        BY <2>6, <3>4
      <3>6. Taken(u) = <<>>
        BY <2>7, <3>2, <3>5 DEF Taken, HoldsEndpointFacts
      <3> QED
        BY <2>7, <3>6
    <2>8. CASE s # <<>> /\ ~EndsAtTerminator(u)
      <3>1. n \in 1..n /\ IsTerminator(s[n])
        <4>1. n # 0
          BY <1>1, <2>8, ListsHaveALength DEF n
        <4>2. IsTerminator(s[n])
          BY <2>8 DEF EndsWell, n
        <4> QED
          BY <1>1, <4>1, <4>2 DEF n
      <3>2. n \in I /\ n \in Nat /\ I \subseteq 1..Len(u) /\ Len(u) \in Nat
        <4>1. n \in 1..Len(u) /\ n \in DOMAIN s
          BY <1>1, <2>0, <2>1, <3>1 DEF n
        <4>2. u[n] = s[n]
          BY <2>1, <4>1
        <4>3. Len(u) \in Nat
          BY <2>1, ListsHaveALength
        <4> QED
          BY <1>1, <3>1, <4>1, <4>2, <4>3 DEF n
      <3> DEFINE m == Max(I)
      <3>3. m \in I /\ m >= n
        <4> HIDE DEF I
        <4>1. \E x \in I : \A i \in I : x >= i
          BY <3>2, HasLargest
        <4> QED
          BY <3>2, <4>1 DEF Max
      <3>4. LastTerminator(u) = m /\ m # 0 /\ m \in 1..Len(u) /\ IsTerminator(u[m])
        BY <2>6, <3>1, <3>3
      <3> HIDE DEF I, m
      <3>5. Taken(u) = SubSeq(u, 1, m)
        BY <2>8, <3>4 DEF Taken
      <3>6. CASE m = n
        BY <2>2, <3>5, <3>6
      <3>7. CASE m # n
        <4>1. m \in Nat /\ m \in 0..Len(u) /\ m \notin 0..n /\ m \notin 1..n
          BY <3>2, <3>3, <3>4, <3>7
        <4>2. m - n \in 1..k /\ t[m - n].graph # RunGraph(run)
          BY <2>5, <3>4, <4>1
        <4>3. SubSeq(u, 1, m) = s \o SubSeq(v, 1, m - n)
          <5>1. \/ m \in 0..n /\ SubSeq(s \o v, 1, m) = SubSeq(s, 1, m)
                \/ m - n \in 0..Len(v) /\ SubSeq(s \o v, 1, m) = s \o SubSeq(v, 1, m - n)
            BY <1>2, <4>1, CutOfJoined DEF u, n
          <5> QED
            BY <4>1, <5>1 DEF u
        <4> DEFINE j == m - n
        <4> HIDE DEF j
        <4>4. j \in 0..k /\ j \in DOMAIN t
          BY <2>3, <4>2 DEF j
        <4>5. SubSeq(v, 1, j) = SubSeq(t, 1, j)
          BY <1>1, <4>4, CutAgain DEF v
        <4> QED
          BY <3>5, <4>2, <4>3, <4>4, <4>5 DEF InACopy, j
      <3> QED
        BY <3>6, <3>7
    <2> QED
      BY <2>7, <2>8, <2>9
  <1> QED
    BY <1>3, <1>4, <1>5

(***************************************************************************)
(* What a file may hold: the sections in their order, and of the chunks    *)
(* those that were handed over.                                            *)
(***************************************************************************)
Ordered(list) ==
  /\ IsList(list) /\ ToSet(list) \subseteq Planned
  /\ \A i, j \in DOMAIN list : list[i] = list[j] => i = j
ChunksOf(at, list, fs) == [i \in DOMAIN list |-> EmitEndpoint(at, list[i], fs[list[i]])]
Opening(at) == EmitHeader(at, Header) \o EmitDormancy(at, Dormant)
Sections(at, list, fs) == Opening(at) \o FlattenSeq(ChunksOf(at, list, fs))
Finished(at, list, fs) == Sections(at, list, fs) \o EmitFooter(at, 0)
Readable(fs) == \A e \in Planned : AreLists(fs[e])

Whole(quads, at, fs) ==
  \/ quads = <<>>
  \/ quads = EmitHeader(at, Header)
  \/ \E list : /\ Ordered(list)
               /\ \/ quads = Sections(at, list, fs)
                  \/ ToSet(list) = Planned /\ quads = Finished(at, list, fs)

LEMMA OpeningSays ==
  ASSUME NEW at
  PROVE  /\ IsList(Opening(at)) /\ EndsWell(Opening(at)) /\ Opening(at) # <<>>
         /\ ToSet(Opening(at)) = HeaderOf(at) \cup DeclinedOf(at)
         /\ Sound(Opening(at), at) /\ CountedSubjects(Opening(at), at) = {}
         /\ Sound(EmitHeader(at, Header), at)
  <1> DEFINE h == EmitHeader(at, Header)
             d == EmitDormancy(at, Dormant)
  <1>1. Closes(h, at) /\ h # <<>> /\ \A q \in ToSet(h) : OfHeader(q, at)
    BY HeaderIsASection
  <1>2. Closes(d, at) /\ \A q \in ToSet(d) : OfDormancy(q, at)
    BY DormancyIsASection
  <1> HIDE DEF h, d
  <1>3. /\ IsList(h \o d) /\ ToSet(h \o d) = ToSet(h) \cup ToSet(d) /\ EndsWell(h \o d)
    BY <1>1, <1>2, JoinedSet, JoinedEnds DEF Closes
  <1>4. h \o d # <<>>
    <2>1. Len(h) \in Nat /\ Len(h) # 0 /\ Len(d) \in Nat
      BY <1>1, <1>2, ListsHaveALength DEF Closes
    <2>2. Len(h \o d) = Len(h) + Len(d)
      BY <1>1, <1>2, JoinedList DEF Closes
    <2>3. Len(h \o d) # 0
      BY <2>1, <2>2
    <2> QED
      BY <2>3, EmptyList
  <1>5. \A q \in ToSet(h) : ~Counts(q, at) /\ q.predicate # "voidDeclaredTriples"
    BY <1>1 DEF OfHeader, Counts, Counted
  <1>6. \A q \in ToSet(d) : ~Counts(q, at) /\ q.predicate # "voidDeclaredTriples"
    <2> TAKE q \in ToSet(d)
    <2>1. CountOf(at, Cardinality(Named)).predicate = "dormantCount"
      BY DEF CountOf, Quad
    <2>2. q.predicate \in DormancyTerms \cup {"dormantCount", "dormantEndpoint"}
      BY <1>2, <2>1 DEF OfDormancy, OfDormant
    <2> QED
      BY <2>2 DEF DormancyTerms, Counts, Counted
  <1>7. Sound(h, at)
    BY <1>1, <1>5, Unclaiming, UncountedIsSound DEF Closes
  <1>8. Sound(h \o d, at) /\ CountedSubjects(h \o d, at) = {}
    <2>1. \A q \in ToSet(h \o d) : ~Counts(q, at) /\ q.predicate # "voidDeclaredTriples"
      BY <1>3, <1>5, <1>6
    <2> DEFINE u == h \o d
    <2> HIDE DEF u
    <2>2. Sound(u, at) /\ CountedSubjects(u, at) = {}
      BY <1>3, <2>1, Unclaiming, UncountedIsSound DEF u
    <2> QED
      BY <2>2 DEF u
  <1> QED
    BY <1>3, <1>4, <1>7, <1>8 DEF Opening, HeaderOf, DeclinedOf, h, d

LEMMA ChunksOfAList ==
  ASSUME NEW at, NEW list, NEW fs, Ordered(list), Readable(fs)
  PROVE  LET p == ChunksOf(at, list, fs) IN
         /\ IsList(p) /\ Pieces(p) /\ DOMAIN p = DOMAIN list /\ Len(p) = Len(list)
         /\ IsList(FlattenSeq(p)) /\ EndsWell(FlattenSeq(p)) /\ Sound(FlattenSeq(p), at)
         /\ ToSet(FlattenSeq(p)) = UNION {MadeChunk(at, fs, e) : e \in ToSet(list)}
  <1> DEFINE p == ChunksOf(at, list, fs)
  <1>1. /\ p = [i \in DOMAIN list |-> p[i]]
        /\ \A i \in DOMAIN list : p[i] = EmitEndpoint(at, list[i], fs[list[i]])
    BY DEF ChunksOf
  <1> HIDE DEF p
  <1>2. IsList(p) /\ DOMAIN p = DOMAIN list /\ Len(p) = Len(list)
    BY <1>1, ListsHaveALength, FunctionsAreLists DEF Ordered
  <1>3. \A i \in DOMAIN list : list[i] \in Planned
    BY DEF Ordered, ToSet
  <1>4. \A i \in DOMAIN list :
          /\ Closes(p[i], at) /\ Sound(p[i], at)
          /\ \A x \in CountedSubjects(p[i], at) : x[3] = list[i]
    BY <1>1, <1>3, ChunkIsASection DEF Readable
  <1>5. Pieces(p) /\ \A i \in DOMAIN p : EndsWell(p[i])
    BY <1>2, <1>4 DEF Pieces, Closes
  <1>6. \A i, j \in DOMAIN p : i # j => CountedSubjects(p[i], at) \cap CountedSubjects(p[j], at) = {}
    BY <1>2, <1>4 DEF Ordered
  <1>7. EndsWell(FlattenSeq(p))
    BY <1>5, FlattenEnds
  <1>8. Sound(FlattenSeq(p), at)
    BY <1>2, <1>4, <1>6, FlattenedSound
  <1>9. IsList(FlattenSeq(p)) /\ ToSet(FlattenSeq(p)) = UNION {ToSet(p[i]) : i \in DOMAIN p}
    BY <1>5, FlattenedSet
  <1>10. UNION {ToSet(p[i]) : i \in DOMAIN p} = UNION {MadeChunk(at, fs, e) : e \in ToSet(list)}
    <2>1. \A i \in DOMAIN list : ToSet(p[i]) = MadeChunk(at, fs, list[i])
      BY <1>1 DEF MadeChunk
    <2>2. UNION {ToSet(p[i]) : i \in DOMAIN p} \subseteq UNION {MadeChunk(at, fs, e) : e \in ToSet(list)}
      BY <1>2, <2>1 DEF ToSet
    <2>3. UNION {MadeChunk(at, fs, e) : e \in ToSet(list)} \subseteq UNION {ToSet(p[i]) : i \in DOMAIN p}
      <3> SUFFICES ASSUME NEW e \in ToSet(list), NEW q \in MadeChunk(at, fs, e)
                   PROVE  \E i \in DOMAIN p : q \in ToSet(p[i])
        OBVIOUS
      <3>1. PICK i \in DOMAIN list : e = list[i]
        BY DEF ToSet
      <3> QED
        BY <1>2, <2>1, <3>1
    <2> QED
      BY <2>2, <2>3
  <1> QED
    BY <1>2, <1>5, <1>7, <1>8, <1>9, <1>10 DEF p

LEMMA SectionsSay ==
  ASSUME NEW at, NEW list, NEW fs, Ordered(list), Readable(fs)
  PROVE  LET q == Sections(at, list, fs) IN
         /\ IsList(q) /\ EndsWell(q) /\ q # <<>> /\ Sound(q, at)
         /\ ToSet(q) = HeaderOf(at) \cup DeclinedOf(at) \cup UNION {MadeChunk(at, fs, e) : e \in ToSet(list)}
  <1> DEFINE o == Opening(at)
             c == FlattenSeq(ChunksOf(at, list, fs))
  <1>1. /\ IsList(o) /\ EndsWell(o) /\ o # <<>> /\ Sound(o, at) /\ CountedSubjects(o, at) = {}
        /\ ToSet(o) = HeaderOf(at) \cup DeclinedOf(at)
    BY OpeningSays
  <1>2. /\ IsList(c) /\ EndsWell(c) /\ Sound(c, at)
        /\ ToSet(c) = UNION {MadeChunk(at, fs, e) : e \in ToSet(list)}
    BY ChunksOfAList
  <1> HIDE DEF o, c
  <1>3. IsList(o \o c) /\ ToSet(o \o c) = ToSet(o) \cup ToSet(c) /\ EndsWell(o \o c)
    BY <1>1, <1>2, JoinedSet, JoinedEnds
  <1>4. Sound(o \o c, at)
    BY <1>1, <1>2, JoinedSound
  <1>5. o \o c # <<>>
    <2>1. Len(o) \in Nat /\ Len(o) # 0 /\ Len(c) \in Nat
      BY <1>1, <1>2, ListsHaveALength
    <2>2. Len(o \o c) = Len(o) + Len(c)
      BY <1>1, <1>2, JoinedList
    <2>3. Len(o \o c) # 0
      BY <2>1, <2>2
    <2> QED
      BY <2>3, EmptyList
  <1> QED
    BY <1>1, <1>2, <1>3, <1>4, <1>5 DEF Sections, o, c

LEMMA FinishedSays ==
  ASSUME NEW at, NEW list, NEW fs, Ordered(list), Readable(fs)
  PROVE  LET q == Finished(at, list, fs) IN
         /\ IsList(q) /\ EndsWell(q) /\ q # <<>> /\ Sound(q, at)
         /\ ToSet(q) = HeaderOf(at) \cup DeclinedOf(at) \cup FooterOf(at)
                         \cup UNION {MadeChunk(at, fs, e) : e \in ToSet(list)}
         /\ Last(q).predicate = "finalised"
  <1> DEFINE s == Sections(at, list, fs)
             t == EmitFooter(at, 0)
             u == s \o t
  <1>1. /\ IsList(s) /\ EndsWell(s) /\ Sound(s, at)
        /\ ToSet(s) = HeaderOf(at) \cup DeclinedOf(at) \cup UNION {MadeChunk(at, fs, e) : e \in ToSet(list)}
    BY SectionsSay
  <1>2. /\ Closes(t, at) /\ t # <<>> /\ \A q \in ToSet(t) : OfFooter(q, at)
        /\ t[Len(t)].predicate = "finalised"
    BY FooterIsASection
  <1> HIDE DEF s, t
  <1>3. IsList(t) /\ EndsWell(t) /\ Len(t) \in Nat /\ Len(t) # 0 /\ DOMAIN t = 1..Len(t)
    BY <1>2, ListsHaveALength DEF Closes
  <1>4. Sound(t, at) /\ CountedSubjects(t, at) = {}
    <2>1. \A q \in ToSet(t) : ~Counts(q, at) /\ q.predicate # "voidDeclaredTriples"
      BY <1>2 DEF OfFooter, Counts, Counted
    <2> QED
      BY <1>3, <2>1, Unclaiming, UncountedIsSound
  <1>5. /\ IsList(u) /\ ToSet(u) = ToSet(s) \cup ToSet(t) /\ EndsWell(u) /\ Sound(u, at)
    BY <1>1, <1>3, <1>4, JoinedSet, JoinedEnds, JoinedSound
  <1>6. /\ Len(u) = Len(s) + Len(t) /\ Len(s) \in Nat
        /\ \A i \in DOMAIN t : u[Len(s) + i] = t[i]
    BY <1>1, <1>3, JoinedList, ListsHaveALength
  <1> HIDE DEF u
  <1>7. u # <<>> /\ Last(u).predicate = "finalised"
    <2>1. Len(t) \in DOMAIN t
      BY <1>3
    <2>2. u[Len(u)] = t[Len(t)]
      BY <1>6, <2>1
    <2>3. Len(u) # 0
      BY <1>3, <1>6
    <2> QED
      BY <1>2, <2>2, <2>3, EmptyList DEF Last
  <1> QED
    BY <1>1, <1>5, <1>7 DEF Finished, FooterOf, s, t, u

LEMMA WholeIsMade ==
  ASSUME NEW quads, NEW at, NEW fs, Readable(fs), Whole(quads, at, fs)
  PROVE  /\ IsList(quads) /\ Sound(quads, at)
         /\ \E S, H, D, T : MadeOf(ToSet(quads), at, fs, S, H, D, T)
  <1>1. CASE quads = <<>>
    <2>1. MadeOf({}, at, fs, {}, {}, {}, {})
      BY DEF MadeOf
    <2>2. Sound(<<>>, at)
      BY EmptyIsPlain, PlainIsSound
    <2> QED
      BY <1>1, <2>1, <2>2, EmptyList
  <1>2. CASE quads = EmitHeader(at, Header)
    <2>1. MadeOf(ToSet(quads), at, fs, {}, HeaderOf(at), {}, {})
      BY <1>2 DEF MadeOf, HeaderOf
    <2>2. IsList(quads) /\ Sound(quads, at)
      BY <1>2, OpeningSays DEF Sound, Consistent
    <2> QED
      BY <2>1, <2>2
  <1>3. ASSUME NEW list, Ordered(list), quads = Sections(at, list, fs)
        PROVE  /\ IsList(quads) /\ Sound(quads, at)
               /\ \E S, H, D, T : MadeOf(ToSet(quads), at, fs, S, H, D, T)
    <2>1. /\ IsList(quads) /\ Sound(quads, at)
          /\ ToSet(quads) = HeaderOf(at) \cup DeclinedOf(at)
                              \cup UNION {MadeChunk(at, fs, e) : e \in ToSet(list)}
      BY <1>3, SectionsSay
    <2>2. MadeOf(ToSet(quads), at, fs, ToSet(list), HeaderOf(at), DeclinedOf(at), {})
      BY <1>3, <2>1 DEF MadeOf, Ordered
    <2> QED
      BY <2>1, <2>2
  <1>4. ASSUME NEW list, Ordered(list), ToSet(list) = Planned, quads = Finished(at, list, fs)
        PROVE  /\ IsList(quads) /\ Sound(quads, at)
               /\ \E S, H, D, T : MadeOf(ToSet(quads), at, fs, S, H, D, T)
    <2>1. /\ IsList(quads) /\ Sound(quads, at)
          /\ ToSet(quads) = HeaderOf(at) \cup DeclinedOf(at) \cup FooterOf(at)
                              \cup UNION {MadeChunk(at, fs, e) : e \in ToSet(list)}
      BY <1>4, FinishedSays
    <2>2. MadeOf(ToSet(quads), at, fs, Planned, HeaderOf(at), DeclinedOf(at), FooterOf(at))
      BY <1>4, <2>1 DEF MadeOf
    <2> QED
      BY <2>1, <2>2
  <1> QED
    BY <1>1, <1>2, <1>3, <1>4 DEF Whole

(***************************************************************************)
(* How a file grows, and where it may be cut.                              *)
(***************************************************************************)
LEMMA NothingYet ==
  ASSUME NEW at, NEW fs
  PROVE  /\ Ordered(<<>>) /\ ToSet(<<>>) = {}
         /\ Readable(fs) => Sections(at, <<>>, fs) = Opening(at)
  <1>1. Ordered(<<>>) /\ ToSet(<<>>) = {}
    BY EmptyList DEF Ordered
  <1>2. ASSUME Readable(fs) PROVE Sections(at, <<>>, fs) = Opening(at)
    <2> DEFINE p == ChunksOf(at, <<>>, fs)
    <2>1. IsList(p) /\ Len(p) = Len(<<>>)
      BY <1>1, <1>2, ChunksOfAList
    <2> HIDE DEF p
    <2>2. p = <<>>
      BY <2>1, EmptyList, ListsHaveALength
    <2>3. FlattenSeq(p) = <<>>
      BY <2>2, FlattenNothing
    <2>4. Opening(at) \o <<>> = Opening(at)
      BY OpeningSays, JoinedNothing
    <2> QED
      BY <2>3, <2>4 DEF Sections, p
  <1> QED
    BY <1>1, <1>2

LEMMA OneMoreChunk ==
  ASSUME NEW at, NEW list, NEW fs, Ordered(list), Readable(fs),
         NEW e \in Planned, e \notin ToSet(list)
  PROVE  /\ Ordered(Append(list, e)) /\ ToSet(Append(list, e)) = ToSet(list) \cup {e}
         /\ Sections(at, Append(list, e), fs) = Sections(at, list, fs) \o EmitEndpoint(at, e, fs[e])
  <1> DEFINE longer == Append(list, e)
             n == Len(list)
             p == ChunksOf(at, list, fs)
             r == ChunksOf(at, longer, fs)
             s == EmitEndpoint(at, e, fs[e])
  <1>1. IsList(list) /\ n \in Nat /\ DOMAIN list = 1..n /\ \A i \in DOMAIN list : list[i] # e
    BY ListsHaveALength DEF Ordered, ToSet
  <1>2. /\ IsList(longer) /\ Len(longer) = n + 1 /\ DOMAIN longer = 1..(n + 1)
        /\ \A i \in DOMAIN list : longer[i] = list[i]
        /\ longer[n + 1] = e
    BY <1>1, AppendedList
  <1> HIDE DEF longer, n
  <1>3. DOMAIN longer = DOMAIN list \cup {n + 1}
    BY <1>1, <1>2
  <1>4. ToSet(longer) = ToSet(list) \cup {e}
    <2>1. \A i \in DOMAIN longer : longer[i] \in ToSet(list) \cup {e}
      BY <1>2, <1>3 DEF ToSet
    <2>2. \A x \in ToSet(list) : \E i \in DOMAIN longer : longer[i] = x
      BY <1>2, <1>3 DEF ToSet
    <2>3. n + 1 \in DOMAIN longer /\ longer[n + 1] = e
      BY <1>2, <1>3
    <2> QED
      BY <2>1, <2>2, <2>3 DEF ToSet
  <1>5. Ordered(longer)
    <2>1. \A i, j \in DOMAIN longer : longer[i] = longer[j] => i = j
      BY <1>1, <1>2, <1>3 DEF Ordered
    <2> QED
      BY <1>2, <1>4, <2>1 DEF Ordered
  <1>6. IsList(p) /\ Pieces(p) /\ DOMAIN p = DOMAIN list /\ Len(p) = n /\ IsList(FlattenSeq(p))
    BY ChunksOfAList DEF n
  <1>7. IsList(r) /\ DOMAIN r = DOMAIN longer /\ Len(r) = n + 1
    BY <1>2, <1>5, ChunksOfAList
  <1>8. \A i \in DOMAIN list : r[i] = p[i] /\ p[i] = EmitEndpoint(at, list[i], fs[list[i]])
    BY <1>2, <1>3 DEF ChunksOf
  <1>9. r[n + 1] = s
    BY <1>2, <1>3 DEF ChunksOf
  <1>10. IsList(s)
    BY ChunkIsASection DEF Closes, Readable
  <1> HIDE DEF p, r, s
  <1>11. r = Append(p, s)
    <2> DEFINE a == Append(p, s)
    <2>1. /\ IsList(a) /\ Len(a) = n + 1 /\ \A i \in DOMAIN list : a[i] = p[i]
          /\ a[n + 1] = s
      BY <1>6, AppendedList
    <2> HIDE DEF a
    <2>2. \A i \in 1..(n + 1) : i \in DOMAIN list \/ i = n + 1
      <3>1. DOMAIN longer = 1..(n + 1)
        BY <1>2
      <3> QED
        BY <1>3, <3>1
    <2>3. \A i \in 1..(n + 1) : a[i] = r[i]
      BY <1>8, <1>9, <2>1, <2>2
    <2>4. a = [i \in 1..(n + 1) |-> a[i]] /\ r = [i \in 1..(n + 1) |-> r[i]]
      BY <1>7, <2>1, ListsHaveALength
    <2>5. a = r
      BY <2>3, <2>4
    <2> QED
      BY <2>5 DEF a
  <1>12. FlattenSeq(r) = FlattenSeq(p) \o s
    BY <1>6, <1>10, <1>11, FlattenOneMore
  <1>13. Opening(at) \o (FlattenSeq(p) \o s) = (Opening(at) \o FlattenSeq(p)) \o s
    <2> DEFINE o == Opening(at)
               c == FlattenSeq(p)
               A == {o[i] : i \in DOMAIN o} \cup {c[i] : i \in DOMAIN c} \cup {s[i] : i \in DOMAIN s}
    <2>1. IsList(o) /\ IsList(c) /\ IsList(s)
      BY <1>6, <1>10, OpeningSays
    <2> HIDE DEF o, c
    <2>2. o \in Seq(A) /\ c \in Seq(A) /\ s \in Seq(A)
      <3>1. \A l, B : IsList(l) /\ {l[i] : i \in DOMAIN l} \subseteq B => l \in Seq(B)
        BY DEF IsList
      <3> QED
        BY <2>1, <3>1
    <2> HIDE DEF A
    <2>3. o \o (c \o s) = (o \o c) \o s
      BY <2>2
    <2> QED
      BY <2>3 DEF o, c
  <1> QED
    BY <1>4, <1>5, <1>12, <1>13 DEF Sections, longer, p, r, s

\* What is assembled of an endpoint that has no chunk yet changes nothing.
LEMMA SameSections ==
  ASSUME NEW at, NEW list, NEW fs, NEW fs2, Ordered(list),
         \A e \in ToSet(list) : fs2[e] = fs[e]
  PROVE  Sections(at, list, fs2) = Sections(at, list, fs)
  <1>1. \A i \in DOMAIN list : list[i] \in ToSet(list)
    BY DEF ToSet
  <1>2. ChunksOf(at, list, fs2) = ChunksOf(at, list, fs)
    BY <1>1 DEF ChunksOf
  <1> QED
    BY <1>2 DEF Sections

LEMMA OpeningCut ==
  ASSUME NEW at, NEW k \in 0..Len(Opening(at))
  PROVE  Taken(SubSeq(Opening(at), 1, k)) \in {<<>>, EmitHeader(at, Header), Opening(at)}
  <1> DEFINE h == EmitHeader(at, Header)
             d == EmitDormancy(at, Dormant)
  <1>1. /\ Closes(h, at) /\ IsList(h) /\ EndsWell(h) /\ h # <<>>
        /\ \A q \in ToSet(h) : q.subject[1] = "activity" /\ q.graph = RunGraph(at)
    BY HeaderIsASection DEF Closes, OfHeader, Activity
  <1>2. /\ Closes(d, at) /\ IsList(d)
        /\ \A i \in DOMAIN d : d[i].graph = RunGraph(at)
    <2>1. Closes(d, at) /\ IsList(d) /\ \A q \in ToSet(d) : OfDormancy(q, at)
      BY DormancyIsASection DEF Closes
    <2>2. CountOf(at, Cardinality(Named)).graph = RunGraph(at)
      BY DEF CountOf, Quad
    <2>3. \A q \in ToSet(d) : q.graph = RunGraph(at)
      BY <2>1, <2>2 DEF OfDormancy, OfDormant
    <2> HIDE DEF d
    <2> QED
      BY <2>1, <2>3 DEF ToSet
  <1>3. Opening(at) = h \o d
    BY DEF Opening
  <1> HIDE DEF h, d
  <1>4. \/ k \in 0..Len(h) /\ SubSeq(Opening(at), 1, k) = SubSeq(h, 1, k)
        \/ k - Len(h) \in 0..Len(d) /\ SubSeq(Opening(at), 1, k) = h \o SubSeq(d, 1, k - Len(h))
    BY <1>1, <1>2, <1>3, CutOfJoined
  <1>5. CASE k \in 0..Len(h) /\ SubSeq(Opening(at), 1, k) = SubSeq(h, 1, k)
    <2>1. IsList(SubSeq(h, 1, k))
      BY <1>1, <1>5, FirstOnes
    <2>2. <<>> \o SubSeq(h, 1, k) = SubSeq(h, 1, k) /\ <<>> \o h = h
      BY <1>1, <2>1, JoinedNothing
    <2>3. IsList(<<>>) /\ EndsWell(<<>>)
      BY EmptyList DEF EndsWell
    <2>4. \A i \in DOMAIN h : h[i].graph = RunGraph(at)
      BY <1>1 DEF ToSet
    <2>5. LeftOf(Taken(<<>> \o SubSeq(h, 1, k)), <<>>, h, at)
      BY <1>1, <1>5, <2>3, TakenCut
    <2>6. Taken(<<>> \o SubSeq(h, 1, k)) \in {<<>>, <<>> \o h}
      BY <2>4, <2>5 DEF LeftOf
    <2> QED
      BY <1>5, <2>2, <2>6 DEF h
  <1>6. CASE k - Len(h) \in 0..Len(d) /\ SubSeq(Opening(at), 1, k) = h \o SubSeq(d, 1, k - Len(h))
    <2>1. LeftOf(Taken(h \o SubSeq(d, 1, k - Len(h))), h, d, at)
      BY <1>1, <1>2, <1>6, TakenCut
    <2>2. Taken(h \o SubSeq(d, 1, k - Len(h))) \in {h, h \o d}
      BY <1>2, <2>1 DEF LeftOf
    <2> QED
      BY <1>3, <1>6, <2>2 DEF h
  <1> QED
    BY <1>4, <1>5, <1>6

(***************************************************************************)
(* What holds of the files between two steps: a file nobody writes is      *)
(* loaded as whole sections, or up to a statement of a copy; the writer's  *)
(* is whole sections, and what it has pending is the one that comes next;  *)
(* --out is every section.                                                 *)
(***************************************************************************)
NextSection(list) ==
  LET quads == partial[writer]
      chunks == Sections(writer, list, facts[writer])
  IN \/ /\ phase = "open" /\ written = {} /\ list = <<>>
        /\ quads = <<>> /\ pending = Opening(writer)
     \/ /\ phase = "open" /\ written = ToSet(list)
        /\ quads = chunks /\ pending = <<>>
     \/ \E e \in Planned \ ToSet(list) :
          /\ phase = "open" /\ written = ToSet(list) \cup {e}
          /\ quads = chunks /\ pending = EmitEndpoint(writer, e, facts[writer][e]) /\ pending # <<>>
     \/ /\ phase = "closing" /\ written = Planned /\ ToSet(list) = Planned
        /\ \/ quads = chunks /\ pending = EmitFooter(writer, 0)
           \/ quads = Finished(writer, list, facts[writer]) /\ pending = <<>>

\* What the loader takes: whole sections, or what ends in a copy.
CutInACopy(quads, at) ==
  quads # <<>> /\ Last(quads).graph # RunGraph(at) /\ IsList(quads) /\ Consistent(quads, at)
Loads(quads, at, fs) == Whole(quads, at, fs) \/ CutInACopy(quads, at)

FactsOfRuns ==
  /\ facts = [at \in Runs |-> facts[at]]
  /\ \A at \in Runs : /\ facts[at] = [e \in Planned |-> facts[at][e]]
                      /\ \A e \in Planned : facts[at][e] \in Assembled[e] \cup {NoFacts}

LeftAlone(at) == partial[at] # None => IsList(partial[at]) /\ Loads(Taken(partial[at]), at, facts[at])

FileInv ==
  /\ partial = [at \in Runs |-> partial[at]] /\ FactsOfRuns
  /\ \A at \in Runs : at # writer => LeftAlone(at)
  /\ writer # None => /\ writer \in Runs /\ \E list : Ordered(list) /\ NextSection(list)
                      /\ \A e \in written : e \in Planned /\ facts[writer][e] \in Assembled[e]
  /\ out # None => \E at \in Runs : \E list, fs :
                     /\ Ordered(list) /\ ToSet(list) = Planned
                     /\ \A e \in Planned : fs[e] \in Assembled[e]
                     /\ out = [run |-> at, quads |-> Finished(at, list, fs), facts |-> fs]

LEMMA AssembledIsReadable ==
  ASSUME NEW fs, \A e \in Planned : fs[e] \in Assembled[e] \cup {NoFacts}
  PROVE  Readable(fs)
  <1>1. AreLists(NoFacts)
    BY EmptyList DEF AreLists, NoFacts
  <1> QED
    BY <1>1, RunFileAssumption DEF Readable, Planned

LEMMA FactsAreReadable ==
  ASSUME FileInv, NEW at \in Runs
  PROVE  Readable(facts[at])
  BY AssembledIsReadable DEF FileInv, FactsOfRuns

\* What the writer has flushed is a file of whole sections, and so is a cut of it
\* with what it was about to flush.
LEMMA WriterFile ==
  ASSUME FileInv, writer # None
  PROVE  /\ IsList(partial[writer]) /\ Loads(Taken(partial[writer]), writer, facts[writer])
         /\ IsList(pending)
         /\ \A k \in 0..Len(pending) :
              /\ IsList(partial[writer] \o SubSeq(pending, 1, k))
              /\ Loads(Taken(partial[writer] \o SubSeq(pending, 1, k)), writer, facts[writer])
  <1> DEFINE at == writer
             fs == facts[writer]
             quads == partial[writer]
             Fine(s, t) == /\ IsList(s) /\ IsList(t) /\ Loads(Taken(s), at, fs)
                           /\ \A k \in 0..Len(t) : Loads(Taken(s \o SubSeq(t, 1, k)), at, fs)
  <1>1. PICK list : Ordered(list) /\ NextSection(list)
    BY DEF FileInv
  <1>2. at \in Runs /\ Readable(fs)
    BY FactsAreReadable DEF FileInv
  <1> DEFINE chunks == Sections(at, list, fs)
  <1>3. /\ IsList(chunks) /\ EndsWell(chunks) /\ chunks # <<>>
        /\ Whole(chunks, at, fs) /\ Taken(chunks) = chunks
    <2>1. IsList(chunks) /\ EndsWell(chunks) /\ chunks # <<>>
      BY <1>1, <1>2, SectionsSay
    <2>2. Whole(chunks, at, fs)
      BY <1>1 DEF Whole
    <2> HIDE DEF chunks
    <2> QED
      BY <2>1, <2>2, TakenWhole
  <1> HIDE DEF at, fs, chunks, quads
  <1>4. ASSUME NEW s, IsList(s), EndsWell(s), Whole(s, at, fs)
        PROVE  Fine(s, <<>>)
    <2>1. Taken(s) = s
      BY <1>4, TakenWhole
    <2>2. \A k \in 0..Len(<<>>) : SubSeq(<<>>, 1, k) = <<>>
      BY EmptyList, FirstOnes
    <2>3. s \o <<>> = s
      BY <1>4, JoinedNothing
    <2> QED
      BY <1>4, <2>1, <2>2, <2>3, EmptyList DEF Loads
  <1>5. ASSUME NEW t, Closes(t, at), Whole(chunks \o t, at, fs), Sound(chunks \o t, at)
        PROVE  Fine(chunks, t)
    <2>1. ASSUME NEW j \in DOMAIN t, t[j].graph # RunGraph(at)
          PROVE  CutInACopy(chunks \o SubSeq(t, 1, j), at)
      <3> DEFINE n == Len(chunks)
                 u == chunks \o t
                 v == SubSeq(t, 1, j)
                 w == chunks \o v
      <3>1. /\ n \in Nat /\ IsList(t) /\ Len(t) \in Nat /\ DOMAIN t = 1..Len(t)
            /\ j \in 0..Len(t) /\ j \in Nat /\ j # 0
        BY <1>3, <1>5, ListsHaveALength DEF Closes
      <3>2. IsList(v) /\ Len(v) = j /\ DOMAIN v = 1..j /\ \A i \in 1..j : v[i] = t[i]
        BY <3>1, FirstOnes
      <3>3. /\ IsList(u) /\ Len(u) = n + Len(t) /\ DOMAIN u = 1..(n + Len(t))
            /\ \A i \in DOMAIN t : u[n + i] = t[i]
        BY <1>3, <3>1, JoinedList
      <3> HIDE DEF v
      <3>4. /\ IsList(w) /\ Len(w) = n + j /\ \A i \in DOMAIN v : w[n + i] = v[i]
        BY <1>3, <3>2, JoinedList
      <3>5. \/ n + j \in 0..n /\ SubSeq(u, 1, n + j) = SubSeq(chunks, 1, n + j)
            \/ (n + j) - n \in 0..Len(t) /\ SubSeq(u, 1, n + j) = chunks \o SubSeq(t, 1, (n + j) - n)
        <4>1. n + j \in 0..Len(chunks \o t)
          BY <3>1, <3>3
        <4> HIDE DEF n
        <4> QED
          BY <1>3, <3>1, <4>1, CutOfJoined DEF n
      <3> HIDE DEF n, u, w
      <3>6. SubSeq(u, 1, n + j) = w
        <4>1. n + j \notin 0..n /\ (n + j) - n = j
          BY <3>1
        <4> QED
          BY <3>5, <4>1 DEF w, v
      <3>7. n + j \in DOMAIN u /\ u[n + j] = t[j]
        BY <3>1, <3>3
      <3>8. Consistent(w, at)
        BY <1>5, <2>1, <3>6, <3>7 DEF Sound, u
      <3>9. Last(w) = t[j] /\ w # <<>>
        <4>1. j \in DOMAIN v /\ w[n + j] = t[j] /\ Len(w) # 0
          BY <3>1, <3>2, <3>4
        <4> QED
          BY <3>4, <4>1, EmptyList DEF Last
      <3> QED
        BY <2>1, <3>4, <3>8, <3>9 DEF CutInACopy, w, v
    <2>2. \A k \in 0..Len(t) : LeftOf(Taken(chunks \o SubSeq(t, 1, k)), chunks, t, at)
      BY <1>3, <1>5, TakenCut
    <2>3. \A k \in 0..Len(t) : Loads(Taken(chunks \o SubSeq(t, 1, k)), at, fs)
      BY <1>3, <1>5, <2>1, <2>2 DEF Loads, LeftOf
    <2> QED
      BY <1>3, <1>5, <2>3 DEF Closes, Loads
  <1>6. Fine(quads, pending)
    <2>1. CASE quads = <<>> /\ pending = Opening(at)
      <3>1. IsList(Opening(at))
        BY OpeningSays
      <3>2. Whole(<<>>, at, fs) /\ Whole(EmitHeader(at, Header), at, fs)
        BY DEF Whole
      <3>3. Whole(Opening(at), at, fs)
        BY <1>2, NothingYet DEF Whole
      <3>4. IsList(<<>>) /\ EndsWell(<<>>) /\ Taken(<<>>) = <<>>
        BY EmptyList, TakenWhole DEF EndsWell
      <3>5. \A k \in 0..Len(Opening(at)) :
              <<>> \o SubSeq(Opening(at), 1, k) = SubSeq(Opening(at), 1, k)
        BY <3>1, FirstOnes, JoinedNothing
      <3>6. \A k \in 0..Len(Opening(at)) :
              Taken(SubSeq(Opening(at), 1, k)) \in {<<>>, EmitHeader(at, Header), Opening(at)}
        BY OpeningCut
      <3> QED
        BY <2>1, <3>1, <3>2, <3>3, <3>4, <3>5, <3>6 DEF Loads
    <2>2. CASE quads = chunks /\ pending = <<>>
      BY <1>3, <1>4, <2>2
    <2>3. ASSUME NEW e \in Planned \ ToSet(list), quads = chunks,
                 pending = EmitEndpoint(at, e, fs[e])
          PROVE  Fine(quads, pending)
      <3>1. Closes(pending, at)
        BY <1>2, <2>3, ChunkIsASection DEF Readable
      <3>2. Ordered(Append(list, e)) /\ Sections(at, Append(list, e), fs) = chunks \o pending
        BY <1>1, <1>2, <2>3, OneMoreChunk DEF chunks
      <3> DEFINE longer == Append(list, e)
      <3> HIDE DEF longer
      <3>3. Ordered(longer) /\ Sections(at, longer, fs) = chunks \o pending
        BY <3>2 DEF longer
      <3>4. Whole(Sections(at, longer, fs), at, fs)
        BY <3>3 DEF Whole
      <3>5. Sound(Sections(at, longer, fs), at)
        BY <1>2, <3>3, SectionsSay
      <3> QED
        BY <1>5, <2>3, <3>1, <3>3, <3>4, <3>5
    <2>4. CASE ToSet(list) = Planned /\ quads = chunks /\ pending = EmitFooter(at, 0)
      <3>1. Closes(pending, at)
        BY <2>4, FooterIsASection
      <3>2. chunks \o pending = Finished(at, list, fs)
        BY <2>4 DEF Finished, chunks
      <3>3. Whole(chunks \o pending, at, fs) /\ Sound(chunks \o pending, at)
        BY <1>1, <1>2, <2>4, <3>2, FinishedSays DEF Whole
      <3> QED
        BY <1>5, <2>4, <3>1, <3>3
    <2>5. CASE ToSet(list) = Planned /\ quads = Finished(at, list, fs) /\ pending = <<>>
      <3>1. IsList(quads) /\ EndsWell(quads)
        BY <1>1, <1>2, <2>5, FinishedSays
      <3>2. Whole(quads, at, fs)
        BY <1>1, <2>5 DEF Whole
      <3> QED
        BY <1>4, <2>5, <3>1, <3>2
    <2> QED
      BY <1>1, <2>1, <2>2, <2>3, <2>4, <2>5 DEF NextSection, at, fs, quads, chunks
  <1>7. \A k \in 0..Len(pending) : IsList(quads \o SubSeq(pending, 1, k))
    <2> TAKE k \in 0..Len(pending)
    <2>1. IsList(SubSeq(pending, 1, k))
      BY <1>6, FirstOnes
    <2> QED
      BY <1>6, <2>1, JoinedSet
  <1> QED
    BY <1>6, <1>7 DEF at, fs, quads

LEMMA FileInitInv ==
  ASSUME FileInit
  PROVE  FileInv
  <1>1. FactsOfRuns
    BY DEF FileInit, FactsOfRuns
  <1>2. \A at \in Runs : partial[at] = None
    BY DEF FileInit
  <1> QED
    BY <1>1, <1>2 DEF FileInit, FileInv, LeftAlone

OutIsWhole ==
  out # None => \E at \in Runs : \E list, fs :
                  /\ Ordered(list) /\ ToSet(list) = Planned
                  /\ \A e \in Planned : fs[e] \in Assembled[e]
                  /\ out = [run |-> at, quads |-> Finished(at, list, fs), facts |-> fs]

\* A step that has the same writer and touches its file and its facts alone.
LEMMA WriterOnly ==
  ASSUME FileInv, writer # None, writer' = writer,
         partial' = [at \in Runs |-> partial'[at]], FactsOfRuns',
         \A at \in Runs : at # writer => partial'[at] = partial[at] /\ facts'[at] = facts[at],
         OutIsWhole',
         \E list : Ordered(list) /\ NextSection(list)',
         \A e \in written' : e \in Planned /\ facts'[writer][e] \in Assembled[e]
  PROVE  FileInv'
  <1>1. \A at \in Runs : at # writer => LeftAlone(at)'
    BY DEF FileInv, LeftAlone
  <1> QED
    BY <1>1 DEF FileInv, OutIsWhole

\* A step that ends with no writer, where no other file than the writer's changed.
LEMMA NoWriter ==
  ASSUME FileInv, writer' = None,
         partial' = [at \in Runs |-> partial'[at]], facts' = facts, OutIsWhole',
         \A at \in Runs : at # writer => partial'[at] = partial[at] \/ partial'[at] = None,
         \A at \in Runs : at = writer => LeftAlone(at)'
  PROVE  FileInv'
  <1>1. \A at \in Runs : LeftAlone(at)'
    <2> TAKE at \in Runs
    <2>1. CASE at = writer
      BY <2>1
    <2>2. CASE at # writer
      BY <2>2 DEF FileInv, LeftAlone
    <2> QED
      BY <2>1, <2>2
  <1>2. FactsOfRuns'
    BY DEF FileInv, FactsOfRuns
  <1> QED
    BY <1>1, <1>2 DEF FileInv, OutIsWhole

LEMMA OutStays ==
  ASSUME FileInv, out' = out
  PROVE  OutIsWhole'
  <1>1. OutIsWhole
    BY DEF FileInv, OutIsWhole
  <1> QED
    BY <1>1 DEF OutIsWhole

LEMMA CreateInv ==
  ASSUME FileInv, NEW at \in Runs, Create(at)
  PROVE  FileInv'
  <1>1. /\ writer = None /\ writer' = at /\ phase' = "open" /\ written' = {} /\ out' = out
        /\ partial' = [partial EXCEPT ![at] = <<>>]
        /\ pending' = Opening(at)
        /\ facts' = [facts EXCEPT ![at] = [e \in Planned |-> NoFacts]]
    BY DEF Create, Opening
  <1>2. /\ partial = [x \in Runs |-> partial[x]] /\ facts = [x \in Runs |-> facts[x]]
    BY DEF FileInv, FactsOfRuns
  <1>3. /\ partial' = [x \in Runs |-> partial'[x]] /\ facts' = [x \in Runs |-> facts'[x]]
        /\ partial'[at] = <<>> /\ facts'[at] = [e \in Planned |-> NoFacts]
        /\ \A x \in Runs : x # at => partial'[x] = partial[x] /\ facts'[x] = facts[x]
    BY <1>1, <1>2
  <1>4. FactsOfRuns'
    <2>1. ASSUME NEW x \in Runs
          PROVE  /\ facts'[x] = [e \in Planned |-> facts'[x][e]]
                 /\ \A e \in Planned : facts'[x][e] \in Assembled[e] \cup {NoFacts}
      <3>1. CASE x = at
        BY <1>3, <3>1
      <3>2. CASE x # at
        BY <1>3, <3>2 DEF FileInv, FactsOfRuns
      <3> QED
        BY <3>1, <3>2
    <2> QED
      BY <1>3, <2>1 DEF FactsOfRuns
  <1>5. \A x \in Runs : x # at => LeftAlone(x)'
    <2> TAKE x \in Runs
    <2> HAVE x # at
    <2>1. LeftAlone(x)
      BY <1>1, RunFileAssumption DEF FileInv
    <2> QED
      BY <1>3, <2>1 DEF LeftAlone
  <1>6. Ordered(<<>>) /\ NextSection(<<>>)'
    BY <1>1, <1>3, NothingYet DEF NextSection
  <1>7. OutIsWhole'
    BY <1>1, OutStays
  <1> QED
    BY <1>1, <1>3, <1>4, <1>5, <1>6, <1>7 DEF FileInv, OutIsWhole

LEMMA MoveAsideInv ==
  ASSUME FileInv, NEW at \in Runs, MoveAside(at)
  PROVE  FileInv'
  <1>1. /\ writer # at /\ partial' = [partial EXCEPT ![at] = None]
        /\ UNCHANGED <<out, writer, phase, pending, written, facts>>
    BY DEF MoveAside
  <1>2. /\ partial' = [x \in Runs |-> partial'[x]] /\ partial'[at] = None
        /\ \A x \in Runs : x # at => partial'[x] = partial[x]
    BY <1>1 DEF FileInv
  <1>3. \A x \in Runs : x # writer => LeftAlone(x)'
    BY <1>1, <1>2 DEF FileInv, LeftAlone
  <1>4. FactsOfRuns'
    BY <1>1 DEF FileInv, FactsOfRuns
  <1>5. OutIsWhole'
    BY <1>1, OutStays
  <1>6. ASSUME writer # None PROVE \E list : Ordered(list) /\ NextSection(list)'
    <2>1. writer \in Runs
      BY <1>6 DEF FileInv
    <2>2. PICK list : Ordered(list) /\ NextSection(list)
      BY <1>6 DEF FileInv
    <2>3. partial'[writer] = partial[writer]
      BY <1>1, <1>2, <2>1
    <2>4. NextSection(list)'
      BY <1>1, <2>2, <2>3 DEF NextSection
    <2> QED
      BY <2>2, <2>4
  <1>7. writer' # None => /\ writer' \in Runs
                          /\ \A e \in written' : e \in Planned /\ facts'[writer'][e] \in Assembled[e]
    BY <1>1 DEF FileInv
  <1> QED
    BY <1>1, <1>2, <1>3, <1>4, <1>5, <1>6, <1>7 DEF FileInv, OutIsWhole

LEMMA PendingIsEmpty ==
  ASSUME FileInv, writer # None, pending = <<>>, NEW list, Ordered(list), NextSection(list)
  PROVE  \/ /\ phase = "open" /\ written = ToSet(list)
            /\ partial[writer] = Sections(writer, list, facts[writer])
         \/ /\ phase = "closing" /\ written = Planned /\ ToSet(list) = Planned
            /\ partial[writer] = Finished(writer, list, facts[writer])
  <1>1. Opening(writer) # <<>> /\ EmitFooter(writer, 0) # <<>>
    BY OpeningSays, FooterIsASection
  <1> QED
    BY <1>1 DEF NextSection

LEMMA FlushInv ==
  ASSUME FileInv, Flush
  PROVE  FileInv'
  <1>1. /\ writer # None /\ pending # <<>> /\ pending' = <<>>
        /\ partial' = [partial EXCEPT ![writer] = partial[writer] \o pending]
        /\ UNCHANGED <<out, writer, phase, written, facts>>
    BY DEF Flush
  <1>2. writer \in Runs /\ partial = [x \in Runs |-> partial[x]]
    BY <1>1 DEF FileInv
  <1>3. /\ partial' = [x \in Runs |-> partial'[x]]
        /\ partial'[writer] = partial[writer] \o pending
        /\ \A x \in Runs : x # writer => partial'[x] = partial[x]
    BY <1>1, <1>2
  <1>4. FactsOfRuns' /\ OutIsWhole'
    BY <1>1, OutStays DEF FileInv, FactsOfRuns
  <1>5. PICK list : Ordered(list) /\ NextSection(list)
    BY <1>1 DEF FileInv
  <1> DEFINE fs == facts[writer]
             chunks == Sections(writer, list, fs)
  <1>6. Readable(fs)
    BY <1>2, FactsAreReadable
  <1>7. \E longer : Ordered(longer) /\ NextSection(longer)'
    <2>1. CASE /\ phase = "open" /\ written = {} /\ list = <<>>
               /\ partial[writer] = <<>> /\ pending = Opening(writer)
      <3>1. partial'[writer] = Sections(writer, <<>>, fs)
        BY <1>3, <1>6, <2>1, NothingYet, OpeningSays, JoinedNothing
      <3>2. ToSet(<<>>) = {} /\ Ordered(<<>>)
        BY NothingYet
      <3>3. NextSection(<<>>)'
        BY <1>1, <2>1, <3>1, <3>2 DEF NextSection
      <3> QED
        BY <3>2, <3>3
    <2>2. ASSUME NEW e \in Planned \ ToSet(list), phase = "open", written = ToSet(list) \cup {e},
                 partial[writer] = chunks, pending = EmitEndpoint(writer, e, fs[e])
          PROVE  \E longer : Ordered(longer) /\ NextSection(longer)'
      <3> DEFINE longer == Append(list, e)
      <3>1. /\ Ordered(longer) /\ ToSet(longer) = ToSet(list) \cup {e}
            /\ Sections(writer, longer, fs) = chunks \o pending
        <4>1. e \in Planned /\ e \notin ToSet(list)
          BY <2>2
        <4> HIDE DEF fs
        <4>2. /\ Ordered(Append(list, e)) /\ ToSet(Append(list, e)) = ToSet(list) \cup {e}
              /\ Sections(writer, Append(list, e), fs)
                   = Sections(writer, list, fs) \o EmitEndpoint(writer, e, fs[e])
          BY <1>5, <1>6, <4>1, OneMoreChunk
        <4> QED
          BY <2>2, <4>2
      <3> HIDE DEF longer
      <3>2. partial'[writer] = Sections(writer, longer, fs)
        BY <1>3, <2>2, <3>1
      <3>3. NextSection(longer)'
        BY <1>1, <2>2, <3>1, <3>2 DEF NextSection
      <3> QED
        BY <3>1, <3>3
    <2>3. CASE /\ phase = "closing" /\ written = Planned /\ ToSet(list) = Planned
               /\ partial[writer] = chunks /\ pending = EmitFooter(writer, 0)
      <3>1. partial'[writer] = Finished(writer, list, fs)
        BY <1>3, <2>3 DEF Finished
      <3>2. NextSection(list)'
        BY <1>1, <2>3, <3>1 DEF NextSection
      <3> QED
        BY <1>5, <3>2
    <2> QED
      BY <1>1, <1>5, <2>1, <2>2, <2>3 DEF NextSection
  <1>8. \A e \in written' : e \in Planned /\ facts'[writer][e] \in Assembled[e]
    BY <1>1 DEF FileInv
  <1> QED
    BY <1>1, <1>3, <1>4, <1>7, <1>8, WriterOnly

LEMMA WriteEndpointInv ==
  ASSUME FileInv, NEW e \in Planned, NEW f \in Assembled[e], WriteEndpoint(e, f)
  PROVE  FileInv'
  <1>1. /\ writer # None /\ phase = "open" /\ pending = <<>> /\ e \notin written
        /\ written' = written \cup {e} /\ facts' = [facts EXCEPT ![writer][e] = f]
        /\ pending' = EmitEndpoint(writer, e, f)
        /\ UNCHANGED <<partial, out, writer, phase>>
    BY DEF WriteEndpoint
  <1>2. /\ writer \in Runs /\ facts = [x \in Runs |-> facts[x]]
        /\ facts[writer] = [x \in Planned |-> facts[writer][x]]
    BY <1>1 DEF FileInv, FactsOfRuns
  <1>3. /\ facts' = [x \in Runs |-> facts'[x]]
        /\ facts'[writer] = [facts[writer] EXCEPT ![e] = f]
        /\ \A x \in Runs : x # writer => facts'[x] = facts[x]
    BY <1>1, <1>2
  <1> DEFINE fs == facts[writer]
             fs2 == facts'[writer]
  <1>4. /\ fs2 = [x \in Planned |-> fs2[x]] /\ fs2[e] = f
        /\ \A x \in Planned : x # e => fs2[x] = fs[x]
    BY <1>2, <1>3
  <1>5. FactsOfRuns'
    <2>1. ASSUME NEW x \in Runs
          PROVE  /\ facts'[x] = [y \in Planned |-> facts'[x][y]]
                 /\ \A y \in Planned : facts'[x][y] \in Assembled[y] \cup {NoFacts}
      <3>1. CASE x = writer
        <4>1. \A y \in Planned : fs[y] \in Assembled[y] \cup {NoFacts}
          BY <1>2 DEF FileInv, FactsOfRuns
        <4>2. \A y \in Planned : fs2[y] \in Assembled[y] \cup {NoFacts}
          BY <1>4, <4>1
        <4> QED
          BY <1>4, <3>1, <4>2
      <3>2. CASE x # writer
        BY <1>3, <3>2 DEF FileInv, FactsOfRuns
      <3> QED
        BY <3>1, <3>2
    <2> QED
      BY <1>3, <2>1 DEF FactsOfRuns
  <1>6. Readable(fs2)
    <2>1. \A y \in Planned : fs2[y] \in Assembled[y] \cup {NoFacts}
      BY <1>2, <1>5 DEF FactsOfRuns
    <2> HIDE DEF fs2
    <2> QED
      BY <2>1, AssembledIsReadable
  <1>7. PICK list : Ordered(list) /\ NextSection(list)
    BY <1>1 DEF FileInv
  <1>8. written = ToSet(list) /\ partial[writer] = Sections(writer, list, fs)
    BY <1>1, <1>7, PendingIsEmpty
  <1>9. Sections(writer, list, fs2) = Sections(writer, list, fs)
    <2>1. \A x \in ToSet(list) : fs2[x] = fs[x]
      BY <1>1, <1>4, <1>7, <1>8 DEF Ordered
    <2> HIDE DEF fs, fs2
    <2> QED
      BY <1>7, <2>1, SameSections
  <1>10. /\ partial'[writer] = Sections(writer, list, fs2) /\ pending' = EmitEndpoint(writer, e, fs2[e])
         /\ e \in Planned \ ToSet(list)
    BY <1>1, <1>4, <1>8, <1>9
  <1>11. \E longer : Ordered(longer) /\ NextSection(longer)'
    <2>1. CASE pending' # <<>>
      <3>1. NextSection(list)'
        BY <1>1, <1>8, <1>10, <2>1 DEF NextSection
      <3> QED
        BY <1>7, <3>1
    <2>2. CASE pending' = <<>>
      <3> DEFINE longer == Append(list, e)
      <3>1. /\ Ordered(longer) /\ ToSet(longer) = ToSet(list) \cup {e}
            /\ Sections(writer, longer, fs2) = Sections(writer, list, fs2) \o EmitEndpoint(writer, e, fs2[e])
        <4> HIDE DEF fs2
        <4> QED
          BY <1>6, <1>7, <1>10, OneMoreChunk
      <3>2. IsList(Sections(writer, list, fs2))
        <4> HIDE DEF fs2
        <4> QED
          BY <1>6, <1>7, SectionsSay
      <3>3. partial'[writer] = Sections(writer, longer, fs2)
        BY <1>10, <2>2, <3>1, <3>2, JoinedNothing
      <3> HIDE DEF longer
      <3>4. NextSection(longer)'
        BY <1>1, <1>8, <2>2, <3>1, <3>3 DEF NextSection
      <3> QED
        BY <3>1, <3>4
    <2> QED
      BY <2>1, <2>2
  <1>12. \A x \in written' : x \in Planned /\ facts'[writer][x] \in Assembled[x]
    <2>1. \A x \in written : x \in Planned /\ facts[writer][x] \in Assembled[x]
      BY <1>1 DEF FileInv
    <2> QED
      BY <1>1, <1>4, <2>1
  <1>13. OutIsWhole' /\ partial' = [x \in Runs |-> partial'[x]]
    BY <1>1, OutStays DEF FileInv
  <1> QED
    BY <1>1, <1>3, <1>5, <1>11, <1>12, <1>13, WriterOnly

LEMMA FinishFileInv ==
  ASSUME FileInv, FinishFile
  PROVE  FileInv'
  <1>1. /\ writer # None /\ phase = "open" /\ pending = <<>> /\ written = Planned
        /\ phase' = "closing" /\ pending' = EmitFooter(writer, 0)
        /\ UNCHANGED <<partial, out, writer, written, facts>>
    BY DEF FinishFile
  <1>2. PICK list : Ordered(list) /\ NextSection(list)
    BY <1>1 DEF FileInv
  <1>3. ToSet(list) = Planned /\ partial[writer] = Sections(writer, list, facts[writer])
    BY <1>1, <1>2, PendingIsEmpty
  <1>4. NextSection(list)'
    BY <1>1, <1>3 DEF NextSection
  <1>5. FactsOfRuns' /\ OutIsWhole' /\ partial' = [x \in Runs |-> partial'[x]]
    BY <1>1, OutStays DEF FileInv, FactsOfRuns
  <1>6. \A e \in written' : e \in Planned /\ facts'[writer][e] \in Assembled[e]
    BY <1>1 DEF FileInv
  <1> QED
    BY <1>1, <1>2, <1>4, <1>5, <1>6, WriterOnly

LEMMA RefuseInv ==
  ASSUME FileInv, NEW e \in Planned, RefuseEndpoint(e)
  PROVE  FileInv'
  <1>1. /\ writer # None /\ writer' = None
        /\ UNCHANGED <<partial, out, phase, pending, written, facts>>
    BY DEF RefuseEndpoint
  <1>2. \A at \in Runs : at = writer => LeftAlone(at)'
    <2>1. IsList(partial[writer]) /\ Loads(Taken(partial[writer]), writer, facts[writer])
      BY <1>1, WriterFile
    <2> QED
      BY <1>1, <2>1 DEF LeftAlone
  <1>3. OutIsWhole' /\ partial' = [x \in Runs |-> partial'[x]]
    BY <1>1, OutStays DEF FileInv
  <1> QED
    BY <1>1, <1>2, <1>3, NoWriter

LEMMA StopInv ==
  ASSUME FileInv, NEW kept \in 0..Len(pending), Stop(kept)
  PROVE  FileInv'
  <1>1. /\ writer # None /\ writer' = None /\ facts' = facts /\ out' = out
        /\ partial' = [partial EXCEPT ![writer] = partial[writer] \o SubSeq(pending, 1, kept)]
    BY DEF Stop
  <1>2. writer \in Runs /\ partial = [x \in Runs |-> partial[x]]
    BY <1>1 DEF FileInv
  <1>3. /\ partial' = [x \in Runs |-> partial'[x]]
        /\ partial'[writer] = partial[writer] \o SubSeq(pending, 1, kept)
        /\ \A x \in Runs : x # writer => partial'[x] = partial[x]
    BY <1>1, <1>2
  <1>4. \A at \in Runs : at = writer => LeftAlone(at)'
    <2> DEFINE left == partial[writer] \o SubSeq(pending, 1, kept)
    <2>1. IsList(left) /\ Loads(Taken(left), writer, facts[writer])
      BY <1>1, WriterFile
    <2> HIDE DEF left
    <2>2. partial'[writer] = left
      BY <1>3 DEF left
    <2> QED
      BY <1>1, <2>1, <2>2 DEF LeftAlone
  <1>5. OutIsWhole'
    BY <1>1, OutStays
  <1> QED
    BY <1>1, <1>3, <1>4, <1>5, NoWriter

LEMMA RenameInv ==
  ASSUME FileInv, Rename
  PROVE  FileInv'
  <1>1. /\ writer # None /\ phase = "closing" /\ pending = <<>> /\ writer' = None /\ facts' = facts
        /\ out' = [run |-> writer, quads |-> partial[writer], facts |-> facts[writer]]
        /\ partial' = [partial EXCEPT ![writer] = None]
    BY DEF Rename, MayRename
  <1>2. writer \in Runs /\ partial = [x \in Runs |-> partial[x]]
    BY <1>1 DEF FileInv
  <1>3. /\ partial' = [x \in Runs |-> partial'[x]] /\ partial'[writer] = None
        /\ \A x \in Runs : x # writer => partial'[x] = partial[x]
    BY <1>1, <1>2
  <1>4. \A at \in Runs : at = writer => LeftAlone(at)'
    BY <1>3 DEF LeftAlone
  <1>5. PICK list : Ordered(list) /\ NextSection(list)
    BY <1>1 DEF FileInv
  <1>6. /\ written = Planned /\ ToSet(list) = Planned
        /\ partial[writer] = Finished(writer, list, facts[writer])
    BY <1>1, <1>5, PendingIsEmpty
  <1>7. \A e \in Planned : facts[writer][e] \in Assembled[e]
    BY <1>1, <1>6 DEF FileInv
  <1>8. OutIsWhole'
    BY <1>1, <1>2, <1>5, <1>6, <1>7 DEF OutIsWhole
  <1> QED
    BY <1>1, <1>3, <1>4, <1>8, NoWriter

LEMMA FileStepInv ==
  ASSUME FileInv, [FileNext]_fileVars
  PROVE  FileInv'
  <1>1. CASE FileNext
    BY <1>1, CreateInv, MoveAsideInv, FlushInv, FinishFileInv, RenameInv, RefuseInv,
       WriteEndpointInv, StopInv DEF FileNext
  <1>2. CASE UNCHANGED fileVars
    BY <1>2 DEF fileVars, FileInv, FactsOfRuns, LeftAlone, NextSection
  <1> QED
    BY <1>1, <1>2

LEMMA FileInvHolds == FileSpec => []FileInv
  BY FileInitInv, FileStepInv, PTL DEF FileSpec

(***************************************************************************)
(* From the invariant to the properties.                                   *)
(***************************************************************************)
LEMMA LoadableLoads ==
  ASSUME FileInv, NEW loaded \in Loadable
  PROVE  Readable(loaded.facts) /\ Loads(loaded.quads, loaded.run, loaded.facts)
  <1>1. ASSUME NEW at \in Runs, partial[at] # None,
               loaded = [run |-> at, quads |-> Taken(partial[at]), facts |-> facts[at]]
        PROVE  Readable(loaded.facts) /\ Loads(loaded.quads, loaded.run, loaded.facts)
    <2>1. Readable(facts[at])
      BY FactsAreReadable
    <2>2. Loads(Taken(partial[at]), at, facts[at])
      <3>1. CASE at = writer
        <4>1. writer # None
          BY <3>1, RunFileAssumption
        <4> QED
          BY <3>1, <4>1, WriterFile
      <3>2. CASE at # writer
        BY <1>1, <3>2 DEF FileInv, LeftAlone
      <3> QED
        BY <3>1, <3>2
    <2> QED
      BY <1>1, <2>1, <2>2
  <1>2. ASSUME out # None, loaded = out
        PROVE  Readable(loaded.facts) /\ Loads(loaded.quads, loaded.run, loaded.facts)
    <2>1. PICK at \in Runs : \E list, fs :
            /\ Ordered(list) /\ ToSet(list) = Planned /\ \A e \in Planned : fs[e] \in Assembled[e]
            /\ out = [run |-> at, quads |-> Finished(at, list, fs), facts |-> fs]
      BY <1>2 DEF FileInv
    <2>2. PICK list, fs :
            /\ Ordered(list) /\ ToSet(list) = Planned /\ \A e \in Planned : fs[e] \in Assembled[e]
            /\ out = [run |-> at, quads |-> Finished(at, list, fs), facts |-> fs]
      BY <2>1
    <2>3. Readable(fs)
      BY <2>2, AssembledIsReadable
    <2>4. Loads(Finished(at, list, fs), at, fs)
      BY <2>2 DEF Loads, Whole
    <2> QED
      BY <1>2, <2>2, <2>3, <2>4
  <1> QED
    BY <1>1, <1>2 DEF Loadable

LEMMA PlacesAndQuads ==
  ASSUME NEW loaded, NEW p
  PROVE  /\ \A i \in Having(loaded, p) : loaded.quads[i] \in InRun(ToSet(loaded.quads), loaded.run, p)
         /\ \A q \in InRun(ToSet(loaded.quads), loaded.run, p) :
              \E i \in Having(loaded, p) : loaded.quads[i] = q
  BY DEF Having, InRun, ToSet

LEMMA AtMostOne ==
  ASSUME NEW S, IsFiniteSet(S), Cardinality(S) <= 1, NEW i \in S, NEW j \in S
  PROVE  i = j
  <1> SUFFICES ASSUME i # j PROVE FALSE
    OBVIOUS
  <1>1. IsFiniteSet({i}) /\ Cardinality({i}) = 1
    BY FS_Singleton
  <1>2. Cardinality({i} \cup {j}) = 2 /\ IsFiniteSet({i} \cup {j})
    BY <1>1, FS_AddElement
  <1>3. Cardinality({i} \cup {j}) <= Cardinality(S)
    <2>1. {i} \cup {j} \in SUBSET S
      OBVIOUS
    <2> QED
      BY <2>1, FS_Subset
  <1>4. Cardinality(S) \in Nat
    BY FS_CardinalityType
  <1> QED
    BY <1>2, <1>3, <1>4

LEMMA CutsFromInv ==
  ASSUME FileInv
  PROVE  CutsLoseWholeSections
  <1> SUFFICES ASSUME NEW loaded \in Loadable, ~EndsInACopy(loaded) PROVE HoldsWholeSections(loaded)
    BY DEF CutsLoseWholeSections
  <1> DEFINE at == loaded.run
             fs == loaded.facts
             Q == ToSet(loaded.quads)
             named == {loaded.quads[i].object : i \in Having(loaded, "dormantEndpoint")}
  <1>1. Readable(fs) /\ \E S, H, D, T : MadeOf(Q, at, fs, S, H, D, T)
    <2>1. Readable(fs) /\ Whole(loaded.quads, at, fs)
      BY LoadableLoads DEF Loads, CutInACopy, EndsInACopy
    <2> QED
      BY <2>1, WholeIsMade
  <1>2. PICK S, H, D, T : MadeOf(Q, at, fs, S, H, D, T)
    BY <1>1
  <1>3. \A p : /\ \A i \in Having(loaded, p) : loaded.quads[i] \in InRun(Q, at, p)
               /\ \A q \in InRun(Q, at, p) : \E i \in Having(loaded, p) : loaded.quads[i] = q
    BY PlacesAndQuads
  <1>4. \A e \in Planned : Q \cap MadeChunk(at, fs, e) \in {{}, MadeChunk(at, fs, e)}
    <2> HIDE DEF Q, at, fs
    <2> QED
      BY <1>1, <1>2, ChunksAreWhole DEF Readable
  <1>5. IF Having(loaded, "dormantCount") = {}
        THEN named = {} /\ Having(loaded, "dormancyReason") = {}
        ELSE \A i \in Having(loaded, "dormantCount") :
               loaded.quads[i].object = Number(Cardinality(named)) /\ named = Named
    <2> HIDE DEF Q, at, fs
    <2>1. /\ \A p \in {"dormantEndpoint", "dormancyReason", "dormantCount"} :
               InRun(Q, at, p) = InRun(D, at, p)
          /\ D = {} \/ D = DeclinedOf(at)
          /\ InRun(DeclinedOf(at), at, "dormantCount") = {CountOf(at, Cardinality(Named))}
          /\ {q.object : q \in InRun(DeclinedOf(at), at, "dormantEndpoint")} = Named
      BY <1>1, <1>2, DeclinedAreWhole DEF Readable
    <2>2. CASE D = {}
      <3>1. \A p \in {"dormantEndpoint", "dormancyReason", "dormantCount"} : InRun(Q, at, p) = {}
        BY <2>1, <2>2 DEF InRun
      <3>2. \A p \in {"dormantEndpoint", "dormancyReason", "dormantCount"} : Having(loaded, p) = {}
        BY <1>3, <3>1
      <3> QED
        BY <3>2
    <2>3. CASE D = DeclinedOf(at)
      <3>1. named = Named
        <4>1. \A i \in Having(loaded, "dormantEndpoint") : loaded.quads[i].object \in Named
          BY <1>3, <2>1, <2>3
        <4>2. \A n \in Named : \E i \in Having(loaded, "dormantEndpoint") : loaded.quads[i].object = n
          <5> TAKE n \in Named
          <5>1. PICK q \in InRun(DeclinedOf(at), at, "dormantEndpoint") : q.object = n
            BY <2>1
          <5>2. q \in InRun(Q, at, "dormantEndpoint")
            BY <2>1, <2>3
          <5> QED
            BY <1>3, <5>1, <5>2
        <4> QED
          BY <4>1, <4>2
      <3> HIDE DEF named
      <3>2. \A i \in Having(loaded, "dormantCount") : loaded.quads[i] = CountOf(at, Cardinality(Named))
        BY <1>3, <2>1, <2>3
      <3>3. Having(loaded, "dormantCount") # {}
        BY <1>3, <2>1, <2>3
      <3>4. CountOf(at, Cardinality(Named)).object = Number(Cardinality(Named))
        BY DEF CountOf, Quad
      <3>5. \A i \in Having(loaded, "dormantCount") : loaded.quads[i].object = Number(Cardinality(named))
        BY <3>1, <3>2, <3>4
      <3> QED
        BY <3>1, <3>3, <3>5
    <2> QED
      BY <2>1, <2>2, <2>3
  <1>6. ASSUME Having(loaded, "finalised") # {}, NEW e \in Planned, IsIri(e)
        PROVE  Of(loaded, Node(e), "rdf:type") # {}
    <2>1. InRun(Q, at, "finalised") # {}
      BY <1>3, <1>6
    <2> DEFINE t == TypedAs(RunGraph(at), Node(e), "DataService")
    <2>2. t \in Q
      <3> HIDE DEF Q, at, fs
      <3> QED
        BY <1>1, <1>2, <1>6, <2>1, FooterMeansAll DEF Readable
    <2>3. t.graph = RunGraph(at) /\ t.predicate = "rdf:type" /\ t.subject = Node(e)
      BY DEF TypedAs, Quad
    <2> HIDE DEF t
    <2> QED
      BY <2>2, <2>3 DEF Of, Having, ToSet
  <1> QED
    BY <1>4, <1>5, <1>6 DEF HoldsWholeSections, MadeChunk, Named

LEMMA SubjectsFromInv ==
  ASSUME FileInv
  PROVE  SubjectsSayOneThing
  <1> SUFFICES
        ASSUME NEW loaded \in Loadable
        PROVE  LET q == loaded.quads IN
               /\ \A p \in {"value", "notMeasuredReason", "sampleSize"} :
                    \A i, j \in Having(loaded, p) : q[i].subject = q[j].subject => i = j
               /\ \A i \in Having(loaded, "sampleSize") :
                    q[i].object = Number(Cardinality(Of(loaded, q[i].subject, "sampledValue")))
               /\ \A i \in Having(loaded, "voidDeclaredTriples") :
                    \E j, k \in DOMAIN q :
                      /\ q[j].predicate = "triples" /\ q[j].object = q[i].object
                      /\ q[k].predicate = "sparqlEndpoint" /\ q[k].object = q[i].subject
                      /\ q[k].subject = q[j].subject /\ q[j].graph = q[k].graph
    BY DEF SubjectsSayOneThing
  <1> DEFINE q == loaded.quads
             at == loaded.run
             g == RunGraph(at)
  <1>1. IsList(q) /\ Consistent(q, at)
    BY LoadableLoads, WholeIsMade DEF Loads, CutInACopy, Sound
  <1>2. \A subject, p : Of(loaded, subject, p) = Said(q, g, subject, p)
    BY DEF Of, Having, Said
  <1>3. ASSUME NEW p \in {"value", "notMeasuredReason", "sampleSize"},
               NEW i \in Having(loaded, p), NEW j \in Having(loaded, p), q[i].subject = q[j].subject
        PROVE  i = j
    <2> DEFINE S == Said(q, g, q[i].subject, p)
    <2>1. i \in S /\ j \in S
      BY <1>2, <1>3 DEF Of
    <2>2. IsFiniteSet(S)
      BY <1>1, TimesAreCounted
    <2>3. Cardinality(S) <= 1
      BY <1>1 DEF Consistent, SaidOnce, Times
    <2> HIDE DEF S
    <2> QED
      BY <2>1, <2>2, <2>3, AtMostOne
  <1>4. ASSUME NEW i \in Having(loaded, "sampleSize")
        PROVE  q[i].object = Number(Cardinality(Of(loaded, q[i].subject, "sampledValue")))
    <2>1. q[i] \in ToSet(q) /\ q[i].graph = g /\ q[i].predicate = "sampleSize"
      BY <1>4 DEF Having, ToSet
    <2>2. q[i].object = Number(Times(q, g, q[i].subject, "sampledValue"))
      BY <1>1, <2>1 DEF Consistent
    <2> QED
      BY <1>2, <2>2 DEF Times
  <1>5. ASSUME NEW i \in Having(loaded, "voidDeclaredTriples")
        PROVE  \E j, k \in DOMAIN q :
                 /\ q[j].predicate = "triples" /\ q[j].object = q[i].object
                 /\ q[k].predicate = "sparqlEndpoint" /\ q[k].object = q[i].subject
                 /\ q[k].subject = q[j].subject /\ q[j].graph = q[k].graph
    <2>1. q[i] \in ToSet(q) /\ q[i].graph = g /\ q[i].predicate = "voidDeclaredTriples"
      BY <1>5 DEF Having, ToSet
    <2>2. PICK claim \in ToSet(q), tie \in ToSet(q) :
            /\ claim.predicate = "triples" /\ claim.object = q[i].object
            /\ tie.predicate = "sparqlEndpoint" /\ tie.object = q[i].subject
            /\ tie.subject = claim.subject /\ claim.graph = tie.graph
      BY <1>1, <2>1 DEF Consistent, ClaimsAreTied
    <2>3. PICK j \in DOMAIN q : q[j] = claim
      BY DEF ToSet
    <2>4. PICK k \in DOMAIN q : q[k] = tie
      BY DEF ToSet
    <2> QED
      BY <2>2, <2>3, <2>4
  <1> QED
    BY <1>3, <1>4, <1>5

LEMMA OutFromInv ==
  ASSUME FileInv
  PROVE  OutIsAFinishedRun
  <1> SUFFICES
        ASSUME out # None
        PROVE  /\ Last(out.quads).predicate = "finalised"
               /\ ToSet(out.quads) \ ToSet(EmitDormancy(out.run, Dormant))
                    = ToSet(EmitNquads(out.run, Header, Order, out.facts, 0))
    BY DEF OutIsAFinishedRun
  <1>1. PICK at \in Runs : \E list, fs :
          /\ Ordered(list) /\ ToSet(list) = Planned /\ \A e \in Planned : fs[e] \in Assembled[e]
          /\ out = [run |-> at, quads |-> Finished(at, list, fs), facts |-> fs]
    BY DEF FileInv
  <1>2. PICK list, fs :
          /\ Ordered(list) /\ ToSet(list) = Planned /\ \A e \in Planned : fs[e] \in Assembled[e]
          /\ out = [run |-> at, quads |-> Finished(at, list, fs), facts |-> fs]
    BY <1>1
  <1>3. Readable(fs)
    BY <1>2, AssembledIsReadable
  <1> DEFINE C == UNION {MadeChunk(at, fs, e) : e \in Planned}
             q == Finished(at, list, fs)
  <1>4. /\ Last(q).predicate = "finalised"
        /\ ToSet(q) = HeaderOf(at) \cup DeclinedOf(at) \cup FooterOf(at) \cup C
    BY <1>2, <1>3, FinishedSays
  <1>5. \A x \in HeaderOf(at) \cup FooterOf(at) \cup C : x \notin DeclinedOf(at)
    <2>1. \A x \in DeclinedOf(at) : OfDormancy(x, at) /\ ~OfHeader(x, at) /\ ~OfFooter(x, at)
      BY <1>3, WhatSectionsSay, DormancyIsApart DEF Readable
    <2>2. ASSUME NEW x \in C
          PROVE  ~OfDormancy(x, at)
      <3>1. PICK e \in Planned : x \in MadeChunk(at, fs, e)
        OBVIOUS
      <3>2. OfChunk(x, at, e)
        BY <1>3, <3>1, WhatSectionsSay DEF Readable
      <3> QED
        BY <3>2, ChunksAreTheirs
    <2>3. (\A x \in HeaderOf(at) : OfHeader(x, at)) /\ (\A x \in FooterOf(at) : OfFooter(x, at))
      BY <1>3, WhatSectionsSay DEF Readable
    <2> HIDE DEF C
    <2> QED
      BY <2>1, <2>2, <2>3
  <1> DEFINE kept == EndpointOrder(Order, fs)
             I == {i \in DOMAIN Order : HasFacts(fs[Order[i]])}
             p == [i \in DOMAIN kept |-> EmitEndpoint(at, kept[i], fs[kept[i]])]
             r == EmitNquads(at, Header, Order, fs, 0)
  <1>6. IsList(kept) /\ ToSet(kept) = Planned
    <2>1. I = DOMAIN Order
      BY <1>2, RunFileAssumption DEF ToSet, Planned
    <2>2. IsList(Order) /\ I \subseteq DOMAIN Order
      BY RunFileAssumption
    <2>3. kept = Kept(Order, I)
      BY DEF EndpointOrder
    <2> HIDE DEF kept, I
    <2>4. /\ IsList(kept)
          /\ \A k \in DOMAIN kept : Position(I, k) \in I /\ kept[k] = Order[Position(I, k)]
          /\ \A i \in I : \E k \in DOMAIN kept : kept[k] = Order[i]
      BY <2>2, <2>3, KeptIsAList
    <2>5. ToSet(kept) = ToSet(Order)
      BY <2>1, <2>4 DEF ToSet
    <2> QED
      BY <2>4, <2>5 DEF Planned
  <1> HIDE DEF kept
  <1>7. IsList(FlattenSeq(p)) /\ ToSet(FlattenSeq(p)) = C
    <2>1. p = [i \in DOMAIN kept |-> p[i]]
      OBVIOUS
    <2>2. \A i \in DOMAIN kept : p[i] = EmitEndpoint(at, kept[i], fs[kept[i]]) /\ kept[i] \in Planned
      BY <1>6 DEF ToSet
    <2>3. \A e \in Planned : \E i \in DOMAIN kept : kept[i] = e
      BY <1>6 DEF ToSet
    <2> HIDE DEF p
    <2>4. IsList(p) /\ DOMAIN p = DOMAIN kept
      BY <1>6, <2>1, Mapped
    <2>5. Pieces(p)
      BY <1>3, <2>2, <2>4, ChunkIsASection DEF Pieces, Closes, Readable
    <2>6. IsList(FlattenSeq(p)) /\ ToSet(FlattenSeq(p)) = UNION {ToSet(p[i]) : i \in DOMAIN p}
      BY <2>5, FlattenedSet
    <2>7. \A i \in DOMAIN p : ToSet(p[i]) = MadeChunk(at, fs, kept[i])
      BY <2>2, <2>4 DEF MadeChunk
    <2>8. UNION {ToSet(p[i]) : i \in DOMAIN p} \subseteq C
      BY <2>2, <2>4, <2>7
    <2>9. C \subseteq UNION {ToSet(p[i]) : i \in DOMAIN p}
      <3> SUFFICES ASSUME NEW e \in Planned, NEW x \in MadeChunk(at, fs, e)
                   PROVE  \E i \in DOMAIN p : x \in ToSet(p[i])
        OBVIOUS
      <3>1. PICK i \in DOMAIN kept : kept[i] = e
        BY <2>3
      <3> QED
        BY <2>4, <2>7, <3>1
    <2> QED
      BY <2>6, <2>8, <2>9
  <1>8. ToSet(r) = HeaderOf(at) \cup C \cup FooterOf(at)
    <2> DEFINE h == EmitHeader(at, Header)
               t == EmitFooter(at, 0)
               c == FlattenSeq(p)
    <2>1. r = h \o c \o t
      BY DEF EmitNquads, Each, kept
    <2>2. IsList(h) /\ IsList(t)
      BY HeaderIsASection, FooterIsASection DEF Closes
    <2>3. IsList(c) /\ ToSet(c) = C
      BY <1>7
    <2> HIDE DEF h, t, c
    <2>4. IsList(h \o c) /\ ToSet(h \o c) = ToSet(h) \cup ToSet(c)
      BY <2>2, <2>3, JoinedSet
    <2>5. ToSet(h \o c \o t) = ToSet(h) \cup ToSet(c) \cup ToSet(t)
      BY <2>2, <2>4, JoinedSet
    <2> QED
      BY <2>1, <2>3, <2>5 DEF HeaderOf, FooterOf, h, t
  <1> HIDE DEF C, q, r
  <1>9. ToSet(q) \ DeclinedOf(at) = ToSet(r)
    BY <1>4, <1>5, <1>8
  <1> QED
    BY <1>2, <1>4, <1>9 DEF DeclinedOf, q, r

LEMMA OnlyGrows ==
  ASSUME FileInv, [FileNext]_fileVars, NEW at \in Runs, partial[at] # None, partial'[at] # None
  PROVE  IsPrefix(partial[at], partial'[at])
  <1>1. IsList(partial[at])
    <2>1. CASE at = writer
      <3>1. writer # None
        BY <2>1, RunFileAssumption
      <3> QED
        BY <2>1, <3>1, WriterFile
    <2>2. CASE at # writer
      BY <2>2 DEF FileInv, LeftAlone
    <2> QED
      BY <2>1, <2>2
  <1>2. IsPrefix(partial[at], partial[at])
    <2>1. partial[at] \o <<>> = partial[at]
      BY <1>1, JoinedNothing
    <2> QED
      BY <1>1, <2>1, EmptyList, BeginsWith
  <1>3. partial = [x \in Runs |-> partial[x]]
    BY DEF FileInv
  <1>4. CASE UNCHANGED partial
    BY <1>2, <1>4
  <1>5. ASSUME NEW x \in Runs, Create(x) \/ MoveAside(x)
        PROVE  IsPrefix(partial[at], partial'[at])
    <2>1. partial'[x] = None \/ partial[x] = None
      BY <1>3, <1>5 DEF Create, CanCreate, MoveAside
    <2>2. \A y \in Runs : y # x => partial'[y] = partial[y]
      BY <1>3, <1>5 DEF Create, MoveAside
    <2> QED
      BY <1>2, <2>1, <2>2
  <1>6. CASE Flush
    <2>1. /\ writer # None /\ partial' = [partial EXCEPT ![writer] = partial[writer] \o pending]
      BY <1>6 DEF Flush
    <2>2. CASE at = writer
      <3>1. partial'[at] = partial[at] \o pending
        BY <1>3, <2>1, <2>2
      <3>2. IsList(pending)
        BY <2>1, WriterFile
      <3> QED
        BY <1>1, <3>1, <3>2, BeginsWith
    <2>3. CASE at # writer
      BY <1>2, <1>3, <2>1, <2>3
    <2> QED
      BY <2>2, <2>3
  <1>7. ASSUME NEW kept \in 0..Len(pending), Stop(kept)
        PROVE  IsPrefix(partial[at], partial'[at])
    <2>1. writer # None /\ partial' = [partial EXCEPT ![writer] = partial[writer] \o SubSeq(pending, 1, kept)]
      BY <1>7 DEF Stop
    <2>2. CASE at = writer
      <3>1. partial'[at] = partial[at] \o SubSeq(pending, 1, kept)
        BY <1>3, <2>1, <2>2
      <3>2. IsList(SubSeq(pending, 1, kept))
        BY <2>1, WriterFile, FirstOnes
      <3> QED
        BY <1>1, <3>1, <3>2, BeginsWith
    <2>3. CASE at # writer
      BY <1>2, <1>3, <2>1, <2>3
    <2> QED
      BY <2>2, <2>3
  <1>8. CASE Rename
    <2>1. partial' = [partial EXCEPT ![writer] = None]
      BY <1>8 DEF Rename
    <2>2. at # writer /\ partial'[at] = partial[at]
      BY <1>3, <2>1
    <2> QED
      BY <1>2, <2>2
  <1>9. ASSUME NEW e \in Planned, RefuseEndpoint(e) \/ \E f \in Assembled[e] : WriteEndpoint(e, f)
        PROVE  UNCHANGED partial
    BY <1>9 DEF RefuseEndpoint, WriteEndpoint
  <1>10. CASE FinishFile
    BY <1>4, <1>10 DEF FinishFile
  <1>11. CASE UNCHANGED fileVars
    BY <1>4, <1>11 DEF fileVars
  <1> QED
    BY <1>4, <1>5, <1>6, <1>7, <1>8, <1>9, <1>10, <1>11 DEF FileNext

LEMMA OutIsTheFile ==
  ASSUME FileInv, [FileNext]_fileVars, NEW at \in Runs, partial[at] # None, partial'[at] = None,
         out' # out
  PROVE  out'.quads = partial[at]
  <1>1. Rename
    BY DEF FileNext, fileVars, Create, MoveAside, Flush, FinishFile, RefuseEndpoint, WriteEndpoint, Stop
  <1>2. /\ partial' = [partial EXCEPT ![writer] = None] /\ out'.quads = partial[writer]
    BY <1>1 DEF Rename
  <1>3. at = writer
    <2>1. partial = [x \in Runs |-> partial[x]]
      BY DEF FileInv
    <2> QED
      BY <1>2, <2>1
  <1> QED
    BY <1>2, <1>3

(***************************************************************************)
(* Whatever instant a run was stopped at, the loader takes whole sections, *)
(* unless the last statement it takes is one copied from a vendor's        *)
(* document (emit.rs's section protocol; write.rs rule 3).                 *)
(***************************************************************************)
THEOREM CutsAreClean == FileSpec => []CutsLoseWholeSections
  BY FileInvHolds, CutsFromInv, PTL

(***************************************************************************)
(* No file the loader can take says two things of one subject (emit.rs:    *)
(* conflicted, sampleSize, void:sparqlEndpoint).                           *)
(***************************************************************************)
THEOREM FilesSayOneThing == FileSpec => []SubjectsSayOneThing
  BY FileInvHolds, SubjectsFromInv, PTL

(***************************************************************************)
(* --out is a finished run, and says what emit_nquads would say of the     *)
(* same facts (write.rs rule 1).                                           *)
(***************************************************************************)
THEOREM OutIsFinished == FileSpec => []OutIsAFinishedRun
  BY FileInvHolds, OutFromInv, PTL

(***************************************************************************)
(* A partial file only grows until it becomes --out or is moved aside      *)
(* (write.rs rule 2).                                                      *)
(***************************************************************************)
THEOREM NothingIsOverwritten == FileSpec => NothingOnDiskIsOverwritten
  <1>1. ASSUME FileInv, [FileNext]_fileVars
        PROVE  [\A at \in Runs :
                  partial[at] # None =>
                    IF partial'[at] = None THEN out' # out => out'.quads = partial[at]
                    ELSE IsPrefix(partial[at], partial'[at])]_fileVars
    BY <1>1, OnlyGrows, OutIsTheFile
  <1> QED
    BY <1>1, FileInvHolds, PTL DEF FileSpec, NothingOnDiskIsOverwritten
=============================================================================
