----------------------------- MODULE StateFile -----------------------------
(***************************************************************************)
(* prober/src/state_file.rs: how sweeps and operator commands of separate  *)
(* processes rewrite one file.  A lock file created with O_EXCL keeps      *)
(* writers apart, the new contents go to a sibling that is renamed over    *)
(* the file, and a guard removes the lock on every way out but kill -9.    *)
(* Each system call is a step; each may fail, and a process may be killed  *)
(* between any two.                                                        *)
(*                                                                         *)
(* The contents are abstracted to the set of calls whose change they hold. *)
(***************************************************************************)
CONSTANTS
  Writers,    \* calls of merge_state: a sweep's strikes, a wake, a prune...
  Checkers,   \* calls of check_lock, made by a sweep before it probes
  NoOne       \* the lock file does not exist

ASSUME ProcessesAssumption ==
  Writers \cap Checkers = {} /\ NoOne \notin Writers \cup Checkers

Procs == Writers \cup Checkers

VARIABLES
  file,      \* the state file
  partial,   \* its .partial sibling, one path for every writer
  lock,      \* whose lock file is at the .lock sibling
  pc,        \* where each call stands
  armed,     \* its guard's `armed`
  seen,      \* what it read of the file
  init       \* the one `dormancy init` of the deployment

vars == <<file, partial, lock, pc, armed, seen, init>>

\* A torn file is one that was created or truncated and not yet written whole.
Absent == [status |-> "absent", merges |-> {}]
Torn == [status |-> "torn", merges |-> {}]
Whole(ms) == [status |-> "whole", merges |-> ms]

Init ==
  /\ file = Absent
  /\ partial = Absent
  /\ lock = NoOne
  /\ pc = [p \in Procs |-> "start"]
  /\ armed = [p \in Procs |-> FALSE]
  /\ seen = [p \in Procs |-> {}]
  /\ init = "start"

Step(p, from, to) == pc[p] = from /\ pc' = [pc EXCEPT ![p] = to]

----------------------------------------------------------------------------
(***************************************************************************)
(* init_state: create_new in place, then the write.  It takes no lock, and *)
(* a kill in between leaves a file nothing parses.  Every later init finds *)
(* a file and is refused.                                                  *)
(***************************************************************************)
InitCreate ==
  /\ init = "start"
  /\ file = Absent
  /\ init' = "created"
  /\ file' = Torn
  /\ UNCHANGED <<partial, lock, pc, armed, seen>>

InitWrite ==
  /\ init = "created"
  /\ \/ init' = "done" /\ file' = Whole({})
     \/ init' = "failed" /\ UNCHANGED file
  /\ UNCHANGED <<partial, lock, pc, armed, seen>>

(***************************************************************************)
(* Lock::take.  The guard is built after the create has succeeded, so a    *)
(* refused caller owns nothing.  Writing the lock's text may fail with the *)
(* guard already there to clean up.                                        *)
(***************************************************************************)
\* MUTANT: File::create in place of create_new.
TakeNotExclusive(p) ==
  /\ Step(p, "start", "locked")
  /\ lock' = p
  /\ armed' = [armed EXCEPT ![p] = TRUE]
  /\ UNCHANGED <<file, partial, seen, init>>

Take(p) ==
  /\ lock = NoOne
  /\ \/ Step(p, "start", "locked")
     \/ Step(p, "start", "failing")
  /\ lock' = p
  /\ armed' = [armed EXCEPT ![p] = TRUE]
  /\ UNCHANGED <<file, partial, seen, init>>

\* MUTANT: the guard exists before the create, and its drop removes the lock.
RefusedDropsTheLock(p) ==
  /\ lock # NoOne
  /\ Step(p, "start", "refused")
  /\ lock' = NoOne
  /\ UNCHANGED <<file, partial, armed, seen, init>>

\* The lock is there, or creating it fails for some other reason.
Refused(p) ==
  /\ Step(p, "start", "refused")
  /\ UNCHANGED <<file, partial, lock, armed, seen, init>>

(***************************************************************************)
(* merge_state: read_state under the lock, then f; either may refuse.      *)
(***************************************************************************)
\* MUTANT: check_lock goes on to merge.
ReadByAnyone(p) ==
  /\ file.status = "whole"
  /\ Step(p, "locked", "merging")
  /\ seen' = [seen EXCEPT ![p] = file.merges]
  /\ UNCHANGED <<file, partial, lock, armed, init>>

Read(p) ==
  /\ p \in Writers
  /\ \/ /\ file.status = "whole"
        /\ Step(p, "locked", "merging")
        /\ seen' = [seen EXCEPT ![p] = file.merges]
     \/ /\ Step(p, "locked", "failing")
        /\ UNCHANGED seen
  /\ UNCHANGED <<file, partial, lock, armed, init>>

\* write_state: File::create truncates whatever a killed writer left there.
\* Going to failing instead is f's refusal, or the create's, which unlinks.
CreatePartial(p) ==
  /\ \/ Step(p, "merging", "writing") /\ partial' = Torn
     \/ Step(p, "merging", "failing") /\ partial' \in {partial, Absent}
  /\ UNCHANGED <<file, lock, armed, seen, init>>

\* MUTANT: the rename goes ahead after a write that failed half way.
WritePartialUnchecked(p) ==
  /\ Step(p, "writing", "renaming")
  /\ partial' \in {Torn, Whole(seen[p] \cup {p})}
  /\ UNCHANGED <<file, lock, armed, seen, init>>

\* write_all and sync_all.
WritePartial(p) ==
  /\ \/ Step(p, "writing", "renaming") /\ partial' = Whole(seen[p] \cup {p})
     \/ Step(p, "writing", "failing") /\ partial' = Absent
  /\ UNCHANGED <<file, lock, armed, seen, init>>

Rename(p) ==
  /\ \/ Step(p, "renaming", "releasing") /\ file' = partial
     \/ Step(p, "renaming", "failing") /\ UNCHANGED file
  /\ partial' = Absent
  /\ UNCHANGED <<lock, armed, seen, init>>

\* check_lock has nothing to do between take and release.
Checked(p) ==
  /\ p \in Checkers
  /\ Step(p, "locked", "releasing")
  /\ UNCHANGED <<file, partial, lock, armed, seen, init>>

\* MUTANT: the guard stays armed, so its drop removes a lock once more.
ReleaseArmed(p) ==
  /\ Step(p, "releasing", "released")
  /\ lock' = NoOne
  /\ UNCHANGED <<file, partial, armed, seen, init>>

(***************************************************************************)
(* Lock::release: disarm first, then remove whatever lock is at the path.  *)
(* A removal that fails is an Err with the change already written.         *)
(***************************************************************************)
Release(p) ==
  /\ armed' = [armed EXCEPT ![p] = FALSE]
  /\ \/ Step(p, "releasing", "released") /\ lock' = NoOne
     \/ Step(p, "releasing", "stuck") /\ UNCHANGED lock
  /\ UNCHANGED <<file, partial, seen, init>>

\* Drop: an armed guard removes the lock, and ignores being unable to.
DropGuard(p) ==
  /\ \/ Step(p, "released", "done")
     \/ Step(p, "failing", "failed")
  /\ IF armed[p] THEN lock' \in {lock, NoOne} ELSE UNCHANGED lock
  /\ armed' = [armed EXCEPT ![p] = FALSE]
  /\ UNCHANGED <<file, partial, seen, init>>

----------------------------------------------------------------------------
Critical == {"locked", "merging", "writing", "renaming", "releasing", "failing"}
Gone == {"refused", "failed", "done", "stuck", "killed"}

\* kill -9: no drop runs, the lock and the partial stay.  What the process had
\* written, a rename included, the system still has; a power cut, which may take
\* the renamed directory entry back, is not modelled.
Kill(p) ==
  /\ pc[p] \in Critical \cup {"released"}
  /\ pc' = [pc EXCEPT ![p] = "killed"]
  /\ UNCHANGED <<file, partial, lock, armed, seen, init>>

\* A person's rm of a lock whose process has ended, as the refusal asks.
RemoveStaleLock ==
  /\ lock # NoOne
  /\ pc[lock] \in Gone
  /\ lock' = NoOne
  /\ UNCHANGED <<file, partial, pc, armed, seen, init>>

Call(p) ==
  \/ Take(p) \/ Refused(p) \/ Read(p) \/ CreatePartial(p) \/ WritePartial(p)
  \/ Rename(p) \/ Checked(p) \/ Release(p) \/ DropGuard(p)

Next ==
  \/ InitCreate \/ InitWrite
  \/ \E p \in Procs : Call(p) \/ Kill(p)
  \/ RemoveStaleLock

Spec == Init /\ [][Next]_vars

----------------------------------------------------------------------------
File == [status : {"absent", "torn", "whole"}, merges : SUBSET Writers]

\* Types of every variable.
TypeOK ==
  /\ file \in File
  /\ partial \in File
  /\ lock \in Procs \cup {NoOne}
  /\ pc \in [Procs -> Critical \cup Gone \cup {"start", "released"}]
  /\ armed \in [Procs -> BOOLEAN]
  /\ seen \in [Procs -> SUBSET Writers]
  /\ init \in {"start", "created", "done", "failed"}

(***************************************************************************)
(* At most one call is between taking the lock and letting it go, whoever  *)
(* was killed, whatever failed and whichever stale locks were removed.     *)
(***************************************************************************)
MutualExclusion ==
  \A p, q \in Procs : pc[p] \in Critical /\ pc[q] \in Critical => p = q

Committed == {"released", "done", "stuck"}

(***************************************************************************)
(* No lost update: a call that got past its rename, whether it returned Ok *)
(* or the error about the lock it could not remove, has its change in the  *)
(* file for good: no other writer's older copy replaces it.                *)
(***************************************************************************)
NoLostMerge ==
  \A w \in Writers : pc[w] \in Committed => w \in file.merges

(***************************************************************************)
(* A call that reports failure left no trace of itself in the file.        *)
(***************************************************************************)
FailureWritesNothing ==
  \A w \in Writers : pc[w] \in {"refused", "failing", "failed"} => w \notin file.merges

(***************************************************************************)
(* What a call of merge_state reports is what became of its change.        *)
(***************************************************************************)
MergesAreAsReported == NoLostMerge /\ FailureWritesNothing

(***************************************************************************)
(* Once init has written it, the file is only ever replaced by a whole one *)
(* that holds everything the last one held; so a reader that takes no lock *)
(* (a sweep planning, `dormancy list`) never sees half a file.             *)
(***************************************************************************)
WholeAndGrowing ==
  [][file.status = "whole" =>
       file'.status = "whole" /\ file.merges \subseteq file'.merges]_vars

(***************************************************************************)
(* What holds at every step and carries the properties above to the next   *)
(* one: whoever is past take owns the lock file, the holder's copy is the  *)
(* file's current contents until it renames, and init has the file torn in *)
(* between its two steps.                                                  *)
(***************************************************************************)
LockIsHeld ==
  \A p \in Procs :
    /\ pc[p] \in Critical => lock = p
    /\ pc[p] = "released" => ~armed[p]

CopyIsCurrent ==
  \A p \in Procs : pc[p] \in {"merging", "writing", "renaming"} =>
    /\ p \in Writers
    /\ file.status = "whole"
    /\ seen[p] = file.merges

PartialIsMine ==
  \A p \in Procs : pc[p] = "renaming" => partial = Whole(seen[p] \cup {p})

CommitsAtRename ==
  \A w \in Writers :
    /\ pc[w] \in {"start", "locked", "merging", "writing", "renaming", "failing",
                 "refused", "failed"} => w \notin file.merges
    /\ pc[w] \in {"releasing", "released", "done", "stuck"} => w \in file.merges

InitIsFirst ==
  /\ init = "start" => file = Absent
  /\ init = "created" => file = Torn
  /\ file.status # "whole" => file.merges = {}

Safe == /\ TypeOK /\ LockIsHeld /\ CopyIsCurrent
        /\ PartialIsMine /\ CommitsAtRename /\ InitIsFirst

(***************************************************************************)
(* The calls of merge_state implement AtomicMerges.                        *)
(***************************************************************************)
AnswerOf(w) ==
  CASE pc[w] = "done"                 -> "written"
    [] pc[w] = "stuck"                -> "unreleased"
    [] pc[w] \in {"refused", "failed"} -> "refused"
    [] OTHER                          -> "none"

Atomic == INSTANCE AtomicMerges
            WITH merges <- file.merges, answer <- [w \in Writers |-> AnswerOf(w)]
RefinesAtomicMerges == Atomic!Spec
=============================================================================
