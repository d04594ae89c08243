------------------------------ MODULE Emission ------------------------------
(***************************************************************************)
(* What a run file is made of (prober/src/emit.rs).  A section is a        *)
(* sequence of quads in the order the code pushes them; the four sections  *)
(* each end in their terminator.  Every term is a tuple, so that a node, a *)
(* number and a string can be compared; how a term is spelt (the percent   *)
(* encoding of an endpoint inside a subject, literal datatypes) is left    *)
(* out, and a name the code cannot write as an IRI is a member of NotIris. *)
(* The facts of a chunk all name the chunk's own endpoint, as              *)
(* assemble_endpoint builds them.                                          *)
(***************************************************************************)
EXTENDS Lists, Naturals, Sequences, SequencesExt

CONSTANTS NotIris,    \* the names that do not parse as IRIs, or cannot be part of one
          Alphabet,   \* the endpoints, in the order of their names
          None        \* an Option that is None

IsIri(name) == name \notin NotIris
Writable(names) == Kept(names, {i \in DOMAIN names : IsIri(names[i])})
Optional(value, quads) == IF value = None THEN <<>> ELSE quads
Each(list, Write(_)) == FlattenSeq([i \in DOMAIN list |-> Write(list[i])])

(***************************************************************************)
(* Terms.  subject_iri and subject_iri_scoped put the kind of the fact and *)
(* everything the fact is about in its subject.                            *)
(***************************************************************************)
Activity(run) == <<"activity", run>>
Node(name) == <<"iri", name>>
Number(n) == <<"integer", n>>
Text(t) == <<"text", t>>
Flag(b) == <<"boolean", b>>
Subject(kind, run, e, m) == <<kind, run, e, m>>
Scoped(kind, run, e, m, rest) == Subject(kind, run, e, m) \o rest

RunGraph(run) == <<"run", run>>
CopyGraph(kind, run, e) == <<kind, run, e>>

Quad(g, s, p, o) == [graph |-> g, subject |-> s, predicate |-> p, object |-> o]

TypedAs(g, s, class) == Quad(g, s, "rdf:type", Text(class))

Terminators == {"emission", "dormantCount", "completedEndpoint", "finalised"}

(***************************************************************************)
(* The header: parameters of the run, and nothing about an endpoint.       *)
(***************************************************************************)
EmitHeader(run, header) ==
  LET Says(p, o) == Quad(RunGraph(run), Activity(run), p, Text(o))
  IN <<Says("rdf:type", "Activity"), Says("generatedAtTime", run),
       Says("metricDefinitionRevision", header.revision), Says("maxCost", header.maxCost),
       Quad(RunGraph(run), Activity(run), "concurrency", Number(header.concurrency)),
       Says("emission", "incremental")>>

(***************************************************************************)
(* The dormancy section, by endpoint name.  Its count is of the groups it  *)
(* published, not of the facts it was given.                               *)
(***************************************************************************)
DormancyQuads(run, fact) ==
  LET e == Node(fact.endpoint)
      g == RunGraph(run)
  IN IF ~IsIri(fact.endpoint) THEN <<>>
     ELSE <<Quad(g, Activity(run), "dormantEndpoint", e), TypedAs(g, e, "DataService"),
            Quad(g, e, "dormancyReason", Text(fact.reason))>>
          \o Optional(fact.since, <<Quad(g, e, "dormantSince", Text(fact.since))>>)
          \o Optional(fact.probed, <<Quad(g, e, "lastProbed", Text(fact.probed))>>)

InOrder(dormant) ==
  Kept(Alphabet, {i \in DOMAIN Alphabet : \E f \in dormant : f.endpoint = Alphabet[i]})
DormancyOf(run, dormant, e) == DormancyQuads(run, CHOOSE f \in dormant : f.endpoint = e)

EmitDormancy(run, dormant) ==
  LET order == InOrder(dormant)
      published == {i \in DOMAIN order : DormancyOf(run, dormant, order[i]) # <<>>}
  IN Each(order, LAMBDA e : DormancyOf(run, dormant, e))
     \o <<Quad(RunGraph(run), Activity(run), "dormantCount", Number(Cardinality(published)))>>

(***************************************************************************)
(* The facts of one list that are published: not those whose metric cannot *)
(* be part of a subject, none of a metric whose facts disagree, and one of *)
(* those that agree; said holds the payload of each fact.                  *)
(***************************************************************************)
PublishableAll(list, said) == Kept(list, {i \in DOMAIN list : IsIri(list[i].metric)})

Publishable(list, said) ==
  LET Same(i) == {j \in DOMAIN list : list[j].metric = list[i].metric}
  IN Kept(list, {i \in DOMAIN list : /\ IsIri(list[i].metric)
                                     /\ \A j \in Same(i) : said[j] = said[i] /\ i <= j})

Measurement(run, e, row) ==
  LET s == Subject("measurement", run, e, row.metric)
      Says(p, o) == Quad(RunGraph(run), s, p, o)
  IN <<Says("rdf:type", Text("QualityMeasurement")), Says("computedOn", Node(e)),
       Says("isMeasurementOf", Node(row.metric))>>
     \o Optional(row.declared, <<Says("declaredCount", Number(row.declared))>>)
     \o Optional(row.observed, <<Says("observedCount", Number(row.observed))>>)
     \o <<Says("value", Text(row.verdict)), Says("wasGeneratedBy", Activity(run))>>
     \o Optional(row.elapsed, <<Says("elapsedMs", Number(row.elapsed))>>)
     \o Optional(row.level, <<Says("level", Number(row.level))>>)

Measurements(run, e, rows) ==
  LET said == [i \in DOMAIN rows |-> <<rows[i].verdict, rows[i].level, rows[i].elapsed>>]
  IN Each(Publishable(rows, said), LAMBDA row : Measurement(run, e, row))

NotMeasured(run, e, fact) ==
  LET s == Subject("not-measured", run, e, fact.metric)
      Says(p, o) == Quad(RunGraph(run), s, p, o)
  IN <<Says("rdf:type", Text("NotMeasured")), Says("notMeasuredOn", Node(e)),
       Says("notMeasuredMetric", Node(fact.metric)),
       Says("notMeasuredReason", Text(fact.reason)), Says("wasGeneratedBy", Activity(run))>>

Declines(run, e, facts) ==
  LET said == [i \in DOMAIN facts |-> facts[i].reason]
  IN Each(Publishable(facts, said), LAMBDA fact : NotMeasured(run, e, fact))

(***************************************************************************)
(* A sample: the values that can be written, then what summarises them.    *)
(* One with nothing to write is not published.                             *)
(***************************************************************************)
Sample(run, e, sample) ==
  LET s == Subject("content-sample", run, e, sample.metric)
      Says(p, o) == Quad(RunGraph(run), s, p, o)
      writable == Writable(sample.values)
  IN IF writable = <<>> THEN <<>>
     ELSE <<Says("rdf:type", Text("ContentSample")), Says("sampledFrom", Node(e)),
            Says("sampledBy", Node(sample.metric))>>
          \o [i \in DOMAIN writable |-> Says("sampledValue", Node(writable[i]))]
          \o <<Says("sampleTruncated", Flag(sample.truncated)),
               Says("sampleSize", Number(Len(writable))), Says("wasGeneratedBy", Activity(run))>>

Samples(run, e, samples) ==
  LET said == [i \in DOMAIN samples |-> <<samples[i].values, samples[i].truncated>>]
  IN Each(Publishable(samples, said), LAMBDA sample : Sample(run, e, sample))

(***************************************************************************)
(* What the endpoint's description said, and where it was read from.       *)
(***************************************************************************)
DeclarationsRead(run, e, fact) ==
  LET Says(p, o) == Quad(RunGraph(run), Node(e), p, o)
      Terms(p, terms) == [i \in DOMAIN Writable(terms) |-> Says(p, Node(Writable(terms)[i]))]
  IN Terms("declaredClass", fact.classes) \o Terms("declaredProperty", fact.properties)
     \o <<Says("declarationsRead", Flag(fact.read))>>
     \o (IF fact.source # None /\ IsIri(fact.source)
         THEN <<Says("descriptionSource", Node(fact.source))>> ELSE <<>>)

(***************************************************************************)
(* A vendor's document is copied into a graph of its own: the statements   *)
(* parsed before the first error.  The run graph holds the pointer.        *)
(***************************************************************************)
Copied(g, statements) ==
  [i \in DOMAIN statements |-> Quad(g, statements[i].s, statements[i].p, statements[i].o)]

DescriptionDocument(run, e, doc) ==
  LET g == CopyGraph("description", run, e)
  IN IF ~doc.isRdf \/ doc.statements = <<>> THEN <<>>
     ELSE Copied(g, doc.statements)
          \o <<Quad(RunGraph(run), Node(e), "descriptionGraph", g)>>

\* The dataset the document itself ties to this endpoint: the first one it says so of.
Described(e, statements) ==
  LET tied == {i \in DOMAIN statements :
                 statements[i].p = "sparqlEndpoint" /\ statements[i].o = Node(e)}
  IN IF tied = {} THEN None ELSE statements[Min(tied)].s

VoidDocument(run, e, doc) ==
  LET g == CopyGraph("void", run, e)
      Says(p, o) == Quad(RunGraph(run), Node(e), p, o)
      dataset == Described(e, doc.statements)
      claims == {i \in DOMAIN doc.statements :
                   doc.statements[i].p = "triples" /\ doc.statements[i].s = dataset}
  IN IF ~IsIri(doc.source) THEN <<>>
     ELSE <<Says("voidSource", Node(doc.source)), Says("voidValid", Flag(doc.valid))>>
          \o (IF ~doc.valid \/ ~doc.isRdf THEN <<>>
              ELSE Copied(g, doc.statements) \o <<Says("voidGraph", g)>>
                   \o Optional(dataset, <<Says("voidDataset", dataset)>>
                        \o (IF claims = {} THEN <<>>
                            ELSE <<Says("voidDeclaredTriples", doc.statements[Min(claims)].o)>>))
                   \o <<Says("voidTriples", Number(Len(doc.statements)))>>)

(***************************************************************************)
(* One class profile: the properties, then the summary.  Nothing for one   *)
(* without a property, or with a class or a property that cannot be named. *)
(***************************************************************************)
\* What a property's values are: "IRI" where they are resources, which is no datatype.
DatatypeTerm(datatype) == IF datatype = "IRI" THEN Text(datatype) ELSE Node(datatype)

PropertyQuads(run, e, profile, row) ==
  LET g == CopyGraph("profile", run, e)
      s == Scoped("content-profile", run, e, profile.metric, <<profile.class>>)
      n == Scoped("profile-property", run, e, profile.metric, <<profile.class, row.property>>)
      Holds(p, o) == Quad(g, n, p, o)
  IN <<Quad(g, s, "profileProperty", n), Holds("property", Node(row.property)),
       Holds("subjectCount", Number(row.subjects)), Holds("datatypeCount", Number(row.datatypes))>>
     \o (IF row.datatype # None /\ IsIri(row.datatype)
         THEN <<Holds("anyDatatype", DatatypeTerm(row.datatype))>> ELSE <<>>)

ProfileQuads(run, e, profile) ==
  LET g == CopyGraph("profile", run, e)
      s == Scoped("content-profile", run, e, profile.metric, <<profile.class>>)
      Says(p, o) == Quad(g, s, p, o)
      types == {i \in DOMAIN profile.rows : profile.rows[i].property = "rdf:type"}
      denominator == IF types = {} THEN 0 ELSE profile.rows[Min(types)].subjects
      named == {profile.metric, profile.class} \cup {profile.rows[i].property : i \in DOMAIN profile.rows}
  IN IF profile.rows = <<>> \/ \E name \in named : ~IsIri(name) THEN <<>>
     ELSE <<Says("rdf:type", Text("ContentProfile")), Says("profiledFrom", Node(e)),
            Says("profiledBy", Node(profile.metric)), Says("profiledClass", Node(profile.class))>>
          \o Each(profile.rows, LAMBDA row : PropertyQuads(run, e, profile, row))
          \o <<Says("profileSampling", Text(profile.sampling))>>
          \o Optional(profile.prefix, <<Says("profileSamplingPrefix", Text(profile.prefix))>>)
          \o <<Says("profileDenominator", Number(denominator))>>

\* The profiles, and a pointer to their graph where one of them was written.
Profiles(run, e, profiles) ==
  LET quads == Each(profiles, LAMBDA profile : ProfileQuads(run, e, profile))
  IN quads \o (IF quads = <<>> THEN <<>>
               ELSE <<Quad(RunGraph(run), Node(e), "profileGraph",
                           CopyGraph("profile", run, e))>>)

(***************************************************************************)
(* An endpoint's chunk.  Nothing can be said of one that is not an IRI.    *)
(***************************************************************************)
EmitEndpoint(run, e, facts) ==
  IF ~IsIri(e) THEN <<>>
  ELSE <<TypedAs(RunGraph(run), Node(e), "DataService")>>
       \o Measurements(run, e, facts.rows) \o Declines(run, e, facts.notMeasured)
       \o Samples(run, e, facts.samples)
       \o Each(facts.declarations, LAMBDA f : DeclarationsRead(run, e, f))
       \o Each(facts.descriptions, LAMBDA d : DescriptionDocument(run, e, d))
       \o Each(facts.voids, LAMBDA d : VoidDocument(run, e, d))
       \o Profiles(run, e, facts.profiles)
       \o <<Quad(RunGraph(run), Activity(run), "completedEndpoint", Node(e))>>

EmitFooter(run, failed) ==
  <<Quad(RunGraph(run), Activity(run), "failedEndpoints", Number(failed)),
    Quad(RunGraph(run), Activity(run), "finalised", Flag(TRUE))>>

(***************************************************************************)
(* The same run written from memory (emit_nquads), which has no dormancy   *)
(* section.  An endpoint appears if any of its lists says something of it. *)
(***************************************************************************)
HasFacts(f) ==
  \/ f.rows # <<>> \/ f.notMeasured # <<>> \/ f.samples # <<>> \/ f.profiles # <<>>
  \/ f.declarations # <<>> \/ f.voids # <<>> \/ f.descriptions # <<>>

EndpointOrder(order, facts) == Kept(order, {i \in DOMAIN order : HasFacts(facts[order[i]])})

EmitNquads(run, header, order, facts, failed) ==
  EmitHeader(run, header)
  \o Each(EndpointOrder(order, facts), LAMBDA e : EmitEndpoint(run, e, facts[e]))
  \o EmitFooter(run, failed)
=============================================================================
