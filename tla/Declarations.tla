---------------------------- MODULE Declarations ----------------------------
(***************************************************************************)
(* What an endpoint claims of itself (prober/src/declare.rs), reduced from *)
(* the statements of its description in the order they were parsed.  A     *)
(* statement has a node for its object, or a literal: a number, or None    *)
(* for a literal that is not a count.  Every node is named, none is blank. *)
(***************************************************************************)
EXTENDS Options, Naturals, Sequences, FiniteSets, SequencesExt

CONSTANTS SameUrl   \* each URL without its scheme, user, port, www, slash and fragment

Statement(s, p, o) == [s |-> s, p |-> p, o |-> o, value |-> None]
Stating(s, p, n) == [s |-> s, p |-> p, o |-> None, value |-> n]

SameEndpoint(a, b) == a \in DOMAIN SameUrl /\ SameUrl[a] = SameUrl[b]

Linking == {"void:classPartition", "void:propertyPartition", "sd:defaultDataset",
            "sd:availableGraphs", "sd:namedGraph", "sd:defaultGraph", "sd:graph",
            "sd:graphCollection"}

(***************************************************************************)
(* The subjects the claims are read from: everything when the document     *)
(* presents no service, or one that is not ours; nothing when it presents  *)
(* several and none is; else ours and what they link to, but for a node    *)
(* that is itself another service.                                         *)
(***************************************************************************)
ServicesOf(quads) ==
  {quads[i].s : i \in {j \in DOMAIN quads :
     quads[j].p = "sd:endpoint" \/ (quads[j].p = "rdf:type" /\ quads[j].o = "sd:Service")}}

MatchedIn(quads, endpoints) ==
  {quads[i].s : i \in {j \in DOMAIN quads :
     quads[j].p = "sd:endpoint" /\ \E probed \in endpoints : SameEndpoint(quads[j].o, probed)}}

LinkedFrom(quads, scope) ==
  {quads[i].o : i \in {j \in DOMAIN quads :
     /\ quads[j].p \in Linking /\ quads[j].s \in scope /\ quads[j].o # None
     /\ quads[j].o \notin ServicesOf(quads)}}

ScopeOf(quads, endpoints) ==
  LET matched == MatchedIn(quads, endpoints)
      Reached[n \in 0..Len(quads)] ==
        IF n = 0 THEN matched ELSE Reached[n - 1] \cup LinkedFrom(quads, Reached[n - 1])
  IN IF matched # {} THEN Reached[Len(quads)]
     ELSE IF Cardinality(ServicesOf(quads)) <= 1 THEN {quads[i].s : i \in DOMAIN quads}
     ELSE {}

(***************************************************************************)
(* The claims in scope.  Of the counts a predicate is given the last that  *)
(* is one stands; of named graphs it is their statements that are counted. *)
(***************************************************************************)
Countable == {"void:triples", "void:classes", "void:entities"}

CountOf(claims, predicate) ==
  LET stated == SelectSeq(claims, LAMBDA q : q.p = predicate)
      numbers == SelectSeq(stated, LAMBDA q : q.value # None)
  IN IF predicate = "sd:namedGraph" /\ stated # <<>> THEN Len(stated)
     ELSE IF predicate \in Countable /\ numbers # <<>> THEN Last(numbers).value
     ELSE None

NamedBy(claims, predicates) ==
  {claims[i].o : i \in {j \in DOMAIN claims : claims[j].p \in predicates}} \ {None}

(***************************************************************************)
(* The grade reads the whole document; what the service can do, and how    *)
(* large it is, only what is in scope.                                     *)
(***************************************************************************)
ParseDeclarationsFor(quads, endpoints) ==
  LET scope == ScopeOf(quads, endpoints)
      claims == SelectSeq(quads, LAMBDA q : q.s \in scope)
      Mentions(predicates) == \E i \in DOMAIN quads : quads[i].p \in predicates
  IN [triples |-> Len(quads),
      namesDataset |-> Mentions({"sd:defaultDataset", "sd:graph"}),
      partitions |-> Mentions({"void:classPartition", "void:propertyPartition"}),
      beyond |-> Mentions({"sd:defaultEntailmentRegime", "void:exampleResource",
                           "sd:extensionFunction"}),
      declares |-> NamedBy(claims, {"sd:feature", "sd:extensionFunction", "sd:supportedLanguage"}),
      counts |-> [p \in Countable \cup {"sd:namedGraph"} |-> CountOf(claims, p)],
      classes |-> NamedBy(claims, {"void:class"}),
      properties |-> NamedBy(claims, {"void:property"})]

Empty == ParseDeclarationsFor(<<>>, {})
=============================================================================
