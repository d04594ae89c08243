----------------------------- MODULE MCRunFile -----------------------------
(***************************************************************************)
(* Two endpoints that are asked, one of which may have failed, one whose   *)
(* name is no IRI, and two that the sweep declined.  The chunks hold what  *)
(* the code may not publish as it is: a metric with two answers, one with  *)
(* the same answer twice, values and names that cannot be written, a VoID  *)
(* document of two datasets, and one that uses a predicate of ours.        *)
(***************************************************************************)
EXTENDS RunFile

CONSTANTS a, b, c, d, junk

MCHeader == [revision |-> "rev", maxCost |-> "cheap", concurrency |-> 4]
MCAlphabet == <<a, b, c, d, junk>>
MCOrder == <<b, a, junk>>
MCDormant == {[endpoint |-> c, reason |-> "automatic", since |-> "monday", probed |-> None],
              [endpoint |-> d, reason |-> "inactive", since |-> None, probed |-> None]}

Row(metric, verdict) ==
  [metric |-> metric, verdict |-> verdict, declared |-> None, observed |-> None,
   level |-> None, elapsed |-> 1]
Declaration == [read |-> TRUE, source |-> "here", classes |-> <<"C", junk>>, properties |-> <<>>]
Statement(dataset, predicate, object) == [s |-> Node(dataset), p |-> predicate, o |-> object]
Void(e) ==
  [source |-> "well-known", valid |-> TRUE, isRdf |-> TRUE,
   statements |-> <<Statement("other", "triples", Number(900)),
                    Statement("other", "sparqlEndpoint", Node("elsewhere")),
                    Statement("other", "completedEndpoint", Node("elsewhere")),
                    Statement("mine", "triples", Number(7)),
                    Statement("mine", "sparqlEndpoint", Node(e))>>]
Profile(class, property) ==
  [metric |-> "class-profiles", class |-> class, sampling |-> "exact", prefix |-> None,
   rows |-> <<[property |-> "rdf:type", subjects |-> 2, datatypes |-> 1, datatype |-> "IRI"],
              [property |-> property, subjects |-> 1, datatypes |-> 1, datatype |-> junk]>>]

Measured ==
  [NoFacts EXCEPT
     !.rows = <<Row("live", "verified"), Row("geo", "verified"), Row("geo", "absent"),
                [Row("count", "verified") EXCEPT !.declared = 7, !.observed = 7, !.level = 2]>>,
     !.notMeasured = <<[metric |-> "class-profiles", reason |-> "unchanged"],
                       [metric |-> "class-profiles", reason |-> "unchanged"]>>,
     !.samples = <<[metric |-> "classes", values |-> <<"C", junk, "D">>, truncated |-> TRUE]>>,
     !.declarations = <<Declaration>>, !.voids = <<Void(a)>>,
     !.profiles = <<Profile("C", "name"), Profile("D", junk)>>]
Failed == [NoFacts EXCEPT !.notMeasured = <<[metric |-> "live", reason |-> "prober-failed"]>>]
Described1 ==
  [NoFacts EXCEPT
     !.rows = <<Row("live", "verified")>>,
     !.declarations = <<[Declaration EXCEPT !.source = junk]>>,
     !.samples = <<[metric |-> "classes", values |-> <<junk>>, truncated |-> FALSE]>>,
     !.descriptions = <<[isRdf |-> TRUE, statements |-> <<Statement("svc", "is", Node(b))>>]>>,
     !.voids = <<[source |-> "well-known", valid |-> FALSE, isRdf |-> TRUE, statements |-> <<>>]>>]

MCAssembled == (a :> {Measured, Failed}) @@ (b :> {Described1}) @@ (junk :> {Failed})
=============================================================================
