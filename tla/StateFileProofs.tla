-------------------------- MODULE StateFileProofs --------------------------
(***************************************************************************)
(* Proofs about StateFile, for any number of writers and checkers: Safe is *)
(* inductive, the properties the runs check follow from it, and the calls  *)
(* of merge_state implement AtomicMerges.                                  *)
(***************************************************************************)
EXTENDS StateFile, TLAPS

LEMMA SafeInit == Init => Safe
  <1> SUFFICES ASSUME Init PROVE Safe
    OBVIOUS
  <1> USE DEF Init, Absent
  <1>1. TypeOK
    BY DEF TypeOK, File, Gone
  <1>2. LockIsHeld /\ CopyIsCurrent /\ PartialIsMine
    BY DEF LockIsHeld, CopyIsCurrent, PartialIsMine, Critical
  <1>3. CommitsAtRename /\ InitIsFirst
    BY DEF CommitsAtRename, InitIsFirst, Procs
  <1> QED
    BY <1>1, <1>2, <1>3 DEF Safe

LEMMA SafeStep == Safe /\ [Next]_vars => Safe'
  <1> SUFFICES ASSUME Safe, [Next]_vars PROVE Safe'
    OBVIOUS
  <1> USE ProcessesAssumption
      DEF Safe, TypeOK, LockIsHeld, CopyIsCurrent, PartialIsMine, CommitsAtRename,
          InitIsFirst, File, Absent, Torn, Whole, Critical, Gone, Procs, Step
  <1>1. CASE InitCreate
    BY <1>1 DEF InitCreate
  <1>2. CASE InitWrite
    BY <1>2 DEF InitWrite
  <1>3. ASSUME NEW p \in Procs, Take(p) PROVE Safe'
    BY <1>3 DEF Take
  <1>4. ASSUME NEW p \in Procs, Refused(p) PROVE Safe'
    BY <1>4 DEF Refused
  <1>5. ASSUME NEW p \in Procs, Read(p) PROVE Safe'
    BY <1>5 DEF Read
  <1>6. ASSUME NEW p \in Procs, CreatePartial(p) PROVE Safe'
    BY <1>6 DEF CreatePartial
  <1>7. ASSUME NEW p \in Procs, WritePartial(p) PROVE Safe'
    BY <1>7 DEF WritePartial
  <1>8. ASSUME NEW p \in Procs, Rename(p) PROVE Safe'
    BY <1>8 DEF Rename
  <1>9. ASSUME NEW p \in Procs, Checked(p) PROVE Safe'
    BY <1>9 DEF Checked
  <1>10. ASSUME NEW p \in Procs, Release(p) PROVE Safe'
    BY <1>10 DEF Release
  <1>11. ASSUME NEW p \in Procs, DropGuard(p) PROVE Safe'
    BY <1>11 DEF DropGuard
  <1>12. ASSUME NEW p \in Procs, Kill(p) PROVE Safe'
    BY <1>12 DEF Kill
  <1>13. CASE RemoveStaleLock
    BY <1>13 DEF RemoveStaleLock
  <1>14. CASE UNCHANGED vars
    BY <1>14 DEF vars
  <1> QED
    BY <1>1, <1>2, <1>3, <1>4, <1>5, <1>6, <1>7, <1>8, <1>9, <1>10, <1>11,
       <1>12, <1>13, <1>14 DEF Next, Call

LEMMA SpecSafe == Spec => []Safe
  BY SafeInit, SafeStep, PTL DEF Spec

(***************************************************************************)
(* Every variable keeps its type.                                          *)
(***************************************************************************)
THEOREM TypeCorrect == Spec => []TypeOK
  BY SpecSafe, PTL DEF Safe

(***************************************************************************)
(* At most one call is between taking the lock and letting it go.          *)
(***************************************************************************)
THEOREM Exclusive == Spec => []MutualExclusion
  <1>1. Safe => MutualExclusion
    BY DEF Safe, LockIsHeld, MutualExclusion
  <1> QED
    BY <1>1, SpecSafe, PTL

(***************************************************************************)
(* No call past its rename ever loses its change to another writer, and a  *)
(* call that fails has written nothing.                                    *)
(***************************************************************************)
THEOREM ReportsAreTrue == Spec => []MergesAreAsReported
  <1>1. Safe => NoLostMerge
    BY DEF Safe, CommitsAtRename, NoLostMerge, Committed
  <1>2. Safe => FailureWritesNothing
    BY DEF Safe, CommitsAtRename, FailureWritesNothing
  <1>3. Safe => MergesAreAsReported
    BY <1>1, <1>2 DEF MergesAreAsReported
  <1> QED
    BY <1>3, SpecSafe, PTL

----------------------------------------------------------------------------
(***************************************************************************)
(* Only init and a rename write the file; init's write finds it torn.      *)
(***************************************************************************)
LEMMA OnlyRenameReplaces ==
  ASSUME Safe, [Next]_vars, file.status = "whole"
  PROVE  \/ file' = file
         \/ \E p \in Procs : /\ pc[p] = "renaming" /\ pc' = [pc EXCEPT ![p] = "releasing"]
                            /\ file' = Whole(file.merges \cup {p})
  <1>1. ASSUME NEW p \in Procs, Rename(p), file' # file
        PROVE  /\ pc[p] = "renaming" /\ pc' = [pc EXCEPT ![p] = "releasing"]
               /\ file' = Whole(file.merges \cup {p})
    BY <1>1 DEF Rename, Step, Safe, PartialIsMine, CopyIsCurrent
  <1>2. CASE InitCreate \/ InitWrite
    BY <1>2 DEF InitCreate, InitWrite, Safe, InitIsFirst, Absent, Torn
  <1>3. CASE \E p \in Procs : Rename(p)
    BY <1>1, <1>3
  <1>4. CASE \E p \in Procs :
               \/ Take(p) \/ Refused(p) \/ Read(p) \/ CreatePartial(p)
               \/ WritePartial(p) \/ Checked(p) \/ Release(p) \/ DropGuard(p) \/ Kill(p)
    BY <1>4 DEF Take, Refused, Read, CreatePartial, WritePartial, Checked, Release,
                DropGuard, Kill
  <1>5. CASE RemoveStaleLock \/ UNCHANGED vars
    BY <1>5 DEF RemoveStaleLock, vars
  <1> QED
    BY <1>2, <1>3, <1>4, <1>5 DEF Next, Call

(***************************************************************************)
(* A file once whole stays whole and only ever gains changes.              *)
(***************************************************************************)
THEOREM FileGrows == Spec => WholeAndGrowing
  <1>1. Safe /\ [Next]_vars =>
          (file.status = "whole" =>
             file'.status = "whole" /\ file.merges \subseteq file'.merges)
    <2> SUFFICES ASSUME Safe, [Next]_vars, file.status = "whole"
                 PROVE  file'.status = "whole" /\ file.merges \subseteq file'.merges
      OBVIOUS
    <2> QED
      BY OnlyRenameReplaces DEF Whole
  <1> QED
    BY <1>1, SpecSafe, PTL DEF Spec, WholeAndGrowing

----------------------------------------------------------------------------
LEMMA AtomicInit == Init => Atomic!Init
  BY DEF Init, Atomic!Init, AnswerOf, Absent, Procs

Answer == [w \in Writers |-> AnswerOf(w)]

\* A step that leaves the file's changes alone and moves one call between two
\* places with no answer is a stutter of AtomicMerges.
LEMMA Unanswered ==
  ASSUME Safe, NEW p \in Procs, NEW to,
         pc' = [pc EXCEPT ![p] = to],
         pc[p] \notin {"done", "stuck", "refused", "failed"},
         to \notin {"done", "stuck", "refused", "failed"}
  PROVE  Answer' = Answer
  BY DEF Answer, AnswerOf, Safe, TypeOK, Procs

\* A step that gives one call of merge_state its answer is a Return.
LEMMA Answered ==
  ASSUME Safe, NEW p \in Procs, NEW to \in {"done", "stuck", "refused", "failed"},
         pc' = [pc EXCEPT ![p] = to],
         pc[p] \notin {"done", "stuck", "refused", "failed"},
         file' = file,
         p \in Writers => (p \in file.merges <=> to \in {"done", "stuck"})
  PROVE  [Atomic!Next]_(Atomic!vars)
  <1>1. CASE p \in Writers
    <2> DEFINE a == CASE to = "done"               -> "written"
                      [] to = "stuck"              -> "unreleased"
                      [] to \in {"refused", "failed"} -> "refused"
    <2>1. Answer[p] = "none"
      BY <1>1 DEF Answer, AnswerOf
    <2>2. Answer' = [Answer EXCEPT ![p] = a]
      BY <1>1 DEF Answer, AnswerOf, Safe, TypeOK, Procs
    <2>3. a \in IF p \in file.merges THEN {"written", "unreleased"} ELSE {"refused"}
      BY <1>1
    <2>4. Atomic!Return(p)
      BY <2>1, <2>2, <2>3 DEF Atomic!Return, Answer
    <2> QED
      BY <1>1, <2>4 DEF Atomic!Next
  <1>2. CASE p \notin Writers
    BY <1>2 DEF Atomic!vars, AnswerOf, Safe, TypeOK, Procs
  <1> QED
    BY <1>1, <1>2

LEMMA AtomicStep == Safe /\ [Next]_vars => [Atomic!Next]_(Atomic!vars)
  <1> SUFFICES ASSUME Safe, [Next]_vars PROVE [Atomic!Next]_(Atomic!vars)
    OBVIOUS
  <1>stutter. Answer' = Answer /\ file'.merges = file.merges
                => [Atomic!Next]_(Atomic!vars)
    BY DEF Atomic!vars, Answer
  <1>1. CASE InitCreate \/ InitWrite
    <2>1. file'.merges = file.merges
      BY <1>1 DEF InitCreate, InitWrite, Safe, InitIsFirst, Absent, Torn, Whole
    <2>2. Answer' = Answer
      BY <1>1 DEF InitCreate, InitWrite, Answer, AnswerOf
    <2> QED
      BY <2>1, <2>2, <1>stutter
  <1>2. ASSUME NEW p \in Procs,
               Take(p) \/ Read(p) \/ CreatePartial(p) \/ WritePartial(p) \/ Checked(p)
        PROVE  [Atomic!Next]_(Atomic!vars)
    <2>1. PICK to \in Critical :
             /\ pc' = [pc EXCEPT ![p] = to]
             /\ pc[p] \in Critical \cup {"start"}
             /\ to # "released" /\ file' = file
      BY <1>2 DEF Take, Read, CreatePartial, WritePartial, Checked, Step, Critical
    <2> QED
      BY <2>1, Unanswered, <1>stutter DEF Critical
  <1>3. ASSUME NEW p \in Procs, Rename(p) PROVE [Atomic!Next]_(Atomic!vars)
    <2>1. Answer' = Answer
      BY <1>3, Unanswered DEF Rename, Step
    <2>2. CASE pc' = [pc EXCEPT ![p] = "releasing"] /\ file' = partial
      <3>1. p \in Writers /\ p \notin file.merges /\ Answer[p] = "none"
        BY <1>3 DEF Rename, Step, Safe, CopyIsCurrent, CommitsAtRename, Answer, AnswerOf
      <3>2. file'.merges = file.merges \cup {p}
        BY <1>3, <2>2 DEF Rename, Step, Safe, CopyIsCurrent, PartialIsMine, Whole
      <3>3. Atomic!Commit(p)
        BY <2>1, <3>1, <3>2 DEF Atomic!Commit, Answer
      <3> QED
        BY <3>1, <3>3 DEF Atomic!Next
    <2>3. CASE file' = file
      BY <2>1, <2>3, <1>stutter
    <2> QED
      BY <1>3, <2>2, <2>3 DEF Rename, Step
  <1>4. ASSUME NEW p \in Procs, Refused(p) PROVE [Atomic!Next]_(Atomic!vars)
    BY <1>4, Answered DEF Refused, Step, Safe, CommitsAtRename
  <1>5. ASSUME NEW p \in Procs, Release(p) PROVE [Atomic!Next]_(Atomic!vars)
    <2>1. CASE pc' = [pc EXCEPT ![p] = "released"]
      BY <1>5, <2>1, Unanswered, <1>stutter DEF Release, Step
    <2>2. CASE pc' = [pc EXCEPT ![p] = "stuck"]
      BY <1>5, <2>2, Answered DEF Release, Step, Safe, CommitsAtRename
    <2> QED
      BY <1>5, <2>1, <2>2 DEF Release, Step
  <1>6. ASSUME NEW p \in Procs, DropGuard(p) PROVE [Atomic!Next]_(Atomic!vars)
    BY <1>6, Answered DEF DropGuard, Step, Safe, CommitsAtRename
  <1>7. ASSUME NEW p \in Procs, Kill(p) PROVE [Atomic!Next]_(Atomic!vars)
    BY <1>7, Unanswered, <1>stutter DEF Kill, Critical
  <1>8. CASE RemoveStaleLock \/ UNCHANGED vars
    BY <1>8, <1>stutter DEF RemoveStaleLock, vars, Answer, AnswerOf
  <1> QED
    BY <1>1, <1>2, <1>3, <1>4, <1>5, <1>6, <1>7, <1>8 DEF Next, Call

(***************************************************************************)
(* merge_state is atomic: every behaviour of the lock, the partial file    *)
(* and the rename is one of AtomicMerges, where a call's change and its    *)
(* answer are single steps.                                                *)
(***************************************************************************)
THEOREM MergesAreAtomic == Spec => RefinesAtomicMerges
  BY AtomicInit, AtomicStep, SpecSafe, PTL DEF Spec, RefinesAtomicMerges, Atomic!Spec
=============================================================================
