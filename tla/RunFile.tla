------------------------------ MODULE RunFile ------------------------------
(***************************************************************************)
(* The file a run is written to (prober/src/write.rs, with the part of     *)
(* prober/src/main.rs that opens and finishes it) and what the loader      *)
(* takes from a file that was cut (web/load_run.py).  A run in progress is *)
(* a sibling of --out, named for the run; each section is flushed whole,   *)
(* but a kill or a full disk may leave any part of the one being written.  *)
(* A cut inside a line is the cut before it: the loader drops both.        *)
(***************************************************************************)
EXTENDS Emission

CONSTANTS Runs,      \* the --at of the runs; a run may be tried again
          Order,     \* plan.probe, in the order of the plan
          Header,    \* the run's parameters
          Dormant,   \* the dormancy facts the header carries
          Assembled  \* for each endpoint, the facts a sweep may assemble of it

\* The facts of a chunk are lists, as are the terms and the statements in them.
AreLists(f) ==
  /\ IsList(f.rows) /\ IsList(f.notMeasured) /\ IsList(f.samples) /\ IsList(f.profiles)
  /\ IsList(f.declarations) /\ IsList(f.voids) /\ IsList(f.descriptions)
  /\ \A i \in DOMAIN f.samples : IsList(f.samples[i].values)
  /\ \A i \in DOMAIN f.declarations : /\ IsList(f.declarations[i].classes)
                                       /\ IsList(f.declarations[i].properties)
  /\ \A i \in DOMAIN f.profiles : IsList(f.profiles[i].rows)
  /\ \A i \in DOMAIN f.voids : IsList(f.voids[i].statements)
  /\ \A i \in DOMAIN f.descriptions : IsList(f.descriptions[i].statements)

\* A swept endpoint has at least the fact whether its description was read, and a lost
\* one a reason for each metric; the plan asks no endpoint that it declines.
ASSUME RunFileAssumption ==
  /\ None \notin Runs
  /\ IsList(Alphabet) /\ \A i, j \in DOMAIN Alphabet : Alphabet[i] = Alphabet[j] => i = j
  /\ IsList(Order)
  /\ \A f \in Dormant : f.endpoint \in ToSet(Alphabet) \ ToSet(Order)
  /\ \A f, g \in Dormant : f.endpoint = g.endpoint => f = g
  /\ \A e \in ToSet(Order) : \A f \in Assembled[e] : HasFacts(f) /\ AreLists(f)

VARIABLES partial,  \* <out>.<at>.partial, a sequence of quads or None
          out,      \* --out: a run with what was assembled of it, or None
          writer,   \* the process: the run it writes, None when there is none
          phase,    \* open, closing
          pending,  \* what is handed to the sink and not flushed
          written,  \* RunWriter.written
          facts     \* what the sweep assembled: the chunks it handed over

fileVars == <<partial, out, writer, phase, pending, written, facts>>

NoFacts == [rows |-> <<>>, notMeasured |-> <<>>, samples |-> <<>>, profiles |-> <<>>,
            declarations |-> <<>>, voids |-> <<>>, descriptions |-> <<>>]
Planned == ToSet(Order)

FileInit == /\ partial = [at \in Runs |-> None] /\ out = None
            /\ writer = None /\ phase = "open" /\ pending = <<>> /\ written = {}
            /\ facts = [at \in Runs |-> [e \in Planned |-> NoFacts]]

\* RunWriter::create: refused while a file of that name is there.
CanCreateOver(at) == TRUE
CanCreate(at) == partial[at] = None

Create(at) ==
  /\ writer = None /\ CanCreate(at)
  /\ writer' = at /\ phase' = "open" /\ written' = {}
  /\ partial' = [partial EXCEPT ![at] = <<>>]
  /\ pending' = EmitHeader(at, Header) \o EmitDormancy(at, Dormant)
  /\ facts' = [facts EXCEPT ![at] = [e \in Planned |-> NoFacts]]
  /\ UNCHANGED out

\* Both sections are handed over before the one flush, and each chunk is flushed.
Flush ==
  /\ writer # None /\ pending # <<>>
  /\ partial' = [partial EXCEPT ![writer] = @ \o pending] /\ pending' = <<>>
  /\ UNCHANGED <<out, writer, phase, written, facts>>

WriteEndpoint(e, f) ==
  /\ writer # None /\ phase = "open" /\ pending = <<>> /\ e \notin written
  /\ written' = written \cup {e}
  /\ facts' = [facts EXCEPT ![writer][e] = f]
  /\ pending' = EmitEndpoint(writer, e, f)
  /\ UNCHANGED <<partial, out, writer, phase>>

\* A second chunk for an endpoint is an error, which ends the run.
RefuseEndpoint(e) ==
  /\ writer # None /\ phase = "open" /\ pending = <<>> /\ e \in written
  /\ writer' = None
  /\ UNCHANGED <<partial, out, phase, pending, written, facts>>

\* RunWriter::finish, after run_sweep has written every endpoint it was given.
FinishFile ==
  /\ writer # None /\ phase = "open" /\ pending = <<>> /\ written = Planned
  /\ phase' = "closing" /\ pending' = EmitFooter(writer, 0)
  /\ UNCHANGED <<partial, out, writer, written, facts>>

\* The footer is flushed before the rename.
MayRenameEarly == phase = "closing"
MayRename == phase = "closing" /\ pending = <<>>

Rename ==
  /\ writer # None /\ MayRename
  /\ out' = [run |-> writer, quads |-> partial[writer], facts |-> facts[writer]]
  /\ partial' = [partial EXCEPT ![writer] = None] /\ writer' = None
  /\ UNCHANGED <<phase, pending, written, facts>>

\* A kill, a panic, or a write that failed: some of what was pending is in the file.
Stop(kept) ==
  /\ writer # None
  /\ partial' = [partial EXCEPT ![writer] = @ \o SubSeq(pending, 1, kept)]
  /\ pending' = <<>> /\ writer' = None
  /\ UNCHANGED <<out, phase, written, facts>>

\* The operator, who has loaded what a stopped run left, moves it aside.
MoveAside(at) ==
  /\ writer # at /\ partial[at] # None
  /\ partial' = [partial EXCEPT ![at] = None]
  /\ UNCHANGED <<out, writer, phase, pending, written, facts>>

FileNext == \/ \E at \in Runs : Create(at) \/ MoveAside(at)
            \/ Flush \/ FinishFile \/ Rename
            \/ \E e \in Planned : RefuseEndpoint(e) \/ \E f \in Assembled[e] : WriteEndpoint(e, f)
            \/ \E kept \in 0..Len(pending) : Stop(kept)

FileSpec == FileInit /\ [][FileNext]_fileVars

(***************************************************************************)
(* What the loader takes from a file: all of it up to its last terminator, *)
(* and nothing of one that holds no terminator, whose every subject is the *)
(* run's activity.                                                         *)
(***************************************************************************)
IsTerminator(quad) == quad.subject[1] = "activity" /\ quad.predicate \in Terminators
LastTerminator(quads) == SelectLastInSeq(quads, IsTerminator)
EndsAtTerminator(quads) == quads # <<>> /\ Last(quads).predicate \in Terminators
HoldsEndpointFacts(quads) == \E i \in DOMAIN quads : quads[i].subject[1] # "activity"

TakenAsItStands(quads) == quads
Taken(quads) ==
  IF EndsAtTerminator(quads) THEN quads
  ELSE IF LastTerminator(quads) = 0 THEN IF HoldsEndpointFacts(quads) THEN quads ELSE <<>>
  ELSE SubSeq(quads, 1, LastTerminator(quads))

\* Where a file's run graph has a predicate, and where it has it of a subject.
Having(file, predicate) ==
  {i \in DOMAIN file.quads : /\ file.quads[i].graph = RunGraph(file.run)
                             /\ file.quads[i].predicate = predicate}
Of(file, subject, predicate) ==
  {i \in Having(file, predicate) : file.quads[i].subject = subject}
Loadable == {[run |-> at, quads |-> Taken(partial[at]), facts |-> facts[at]] :
               at \in {a \in Runs : partial[a] # None}}
            \cup (IF out = None THEN {} ELSE {out})

\* Of each planned endpoint its whole chunk or nothing, the declined endpoints all or
\* none of them with their count, and a footer only with every chunk.
HoldsWholeSections(file) ==
  /\ \A e \in Planned :
       LET chunk == ToSet(EmitEndpoint(file.run, e, file.facts[e]))
       IN ToSet(file.quads) \cap chunk \in {{}, chunk}
  /\ LET named == {file.quads[i].object : i \in Having(file, "dormantEndpoint")}
     IN IF Having(file, "dormantCount") = {}
        THEN named = {} /\ Having(file, "dormancyReason") = {}
        ELSE \A i \in Having(file, "dormantCount") :
               /\ file.quads[i].object = Number(Cardinality(named))
               /\ named = {Node(f.endpoint) : f \in {d \in Dormant : IsIri(d.endpoint)}}
  /\ Having(file, "finalised") # {} =>
       \A e \in Planned : IsIri(e) => Of(file, Node(e), "rdf:type") # {}

\* A copied statement may use any predicate, our terminators' too, in its copy's graph.
EndsInACopy(file) == file.quads # <<>> /\ Last(file.quads).graph # RunGraph(file.run)

(***************************************************************************)
(* Whatever instant a run was stopped at, what the loader takes from its   *)
(* file is whole sections (emit.rs's section protocol; write.rs rule 3),   *)
(* unless the last statement it takes is one copied from a vendor.         *)
(***************************************************************************)
CutsLoseWholeSections ==
  \A file \in Loadable : EndsInACopy(file) \/ HoldsWholeSections(file)

(***************************************************************************)
(* _is_terminator_line: "a terminator predicate on any other subject is    *)
(* not a section boundary this loader put there" (load_run.py).            *)
(***************************************************************************)
OnlyOurTerminatorsCount == \A file \in Loadable : HoldsWholeSections(file)

(***************************************************************************)
(* A published subject never says two things: one verdict or reason, one   *)
(* size that counts the values beside it, and no claim about the endpoint  *)
(* that its VoID document makes of another dataset (emit.rs: conflicted,   *)
(* sampleSize, void:sparqlEndpoint).                                       *)
(***************************************************************************)
SubjectsSayOneThing ==
  \A file \in Loadable :
    LET q == file.quads IN
    /\ \A p \in {"value", "notMeasuredReason", "sampleSize"} :
         \A i, j \in Having(file, p) : q[i].subject = q[j].subject => i = j
    /\ \A i \in Having(file, "sampleSize") :
         q[i].object = Number(Cardinality(Of(file, q[i].subject, "sampledValue")))
    /\ \A i \in Having(file, "voidDeclaredTriples") :
         \E j, k \in DOMAIN q :
           /\ q[j].predicate = "triples" /\ q[j].object = q[i].object
           /\ q[k].predicate = "sparqlEndpoint" /\ q[k].object = q[i].subject
           /\ q[k].subject = q[j].subject /\ q[j].graph = q[k].graph

(***************************************************************************)
(* --out is a finished run or nothing, and holds what the sweep assembled: *)
(* but for the dormancy section it says what emit_nquads makes of the same *)
(* facts (write.rs rule 1).                                                *)
(***************************************************************************)
OutIsAFinishedRun ==
  out # None =>
    /\ Last(out.quads).predicate = "finalised"
    /\ ToSet(out.quads) \ ToSet(EmitDormancy(out.run, Dormant))
         = ToSet(EmitNquads(out.run, Header, Order, out.facts, 0))

(***************************************************************************)
(* What a run has put on disk is never lost to another: a partial file     *)
(* only grows, until the finished run is renamed or the operator moves it  *)
(* (write.rs rule 2: a retry shares the --at).                             *)
(***************************************************************************)
NothingOnDiskIsOverwritten ==
  [][\A at \in Runs :
       partial[at] # None =>
         IF partial'[at] = None THEN out' # out => out'.quads = partial[at]
         ELSE IsPrefix(partial[at], partial'[at])]_fileVars
=============================================================================
