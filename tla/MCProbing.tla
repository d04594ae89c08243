----------------------------- MODULE MCProbing -----------------------------
(* The kinds of metric in three files, each with its own way to go wrong,  *)
(* and for each kind of request the responses that its reading tells apart.*)
EXTENDS Probing

Metric(id, kind, cost, cadence) ==
  [id |-> id, kind |-> kind, cost |-> cost, cadence |-> cadence, expect |-> None,
   declaredBy |-> None, var |-> None, graded |-> FALSE, sampleLimit |-> None, samplePrefix |-> None,
   tolerance |-> None, fallback |-> FALSE, overlap |-> FALSE, query |-> <<>>]

Availability == Metric("availability", "Liveness", "cheap", "hourly")

Limit(n, code) == [code |-> code, limit |-> n]

MCFiles ==
  {<<Availability,
     Metric("cors", "Cors", "cheap", "hourly"),
     Metric("cors-preflight", "CorsPreflight", "cheap", "hourly"),
     [Metric("service-description", "DereferenceEndpoint", "cheap", "hourly") EXCEPT !.graded = TRUE],
     Metric("void-well-known", "FetchVoid", "cheap", "daily")>>,
   <<[Metric("geo-functions", "AskFilter", "cheap", "daily") EXCEPT !.expect = TRUE, !.declaredBy = "sf"],
     Availability,
     [Metric("geo-data", "AskData", "cheap", "daily") EXCEPT !.var = "v", !.fallback = TRUE],
     [Metric("classes", "SelectIris", "expensive", "daily") EXCEPT !.var = "c", !.sampleLimit = 1,
       !.query = <<Limit(9, TRUE), Limit(1, TRUE), Limit(3, FALSE)>>]>>,
   <<Availability,
     [Metric("class-profiles", "ClassProfile", "exhaustive", "daily") EXCEPT !.sampleLimit = 2,
       !.query = <<Limit(2, TRUE)>>],
     [Metric("vocabulary-described", "VocabularyDescribed", "exhaustive", "daily") EXCEPT
       !.declaredBy = "void:classPartition"],
     [Metric("triple-count", "Counted", "expensive", "daily") EXCEPT !.var = "n", !.tolerance = 5,
       !.declaredBy = "void:triples", !.overlap = TRUE],
     [Metric("class-count", "Counted", "expensive", "daily") EXCEPT !.var = "n", !.tolerance = 5,
       !.declaredBy = "void:classes"]>>}

MCIdentifiers == {file[i].id : file \in MCFiles, i \in 1..4} \cup {"void-well-known", "class-count"}

MCSameUrl == ("https://e/sparql" :> "e/sparql") @@ ("http://e/sparql/" :> "e/sparql")
             @@ ("https://other/sparql" :> "other/sparql")

(* Responses. *)
Answer(status) ==
  [status |-> status, html |-> FALSE, json |-> "none", rows |-> <<>>, quads |-> <<>>,
   typedRdf |-> FALSE, cut |-> FALSE, landed |-> "https://e/sparql", cors |-> FALSE,
   allowOrigin |-> None, allowMethods |-> None]

Page(status) == [Answer(status) EXCEPT !.html = TRUE]
Says(status, json) == [Answer(status) EXCEPT !.json = json]
Cells(status, type, values) ==
  [Says(status, "results") EXCEPT !.rows = [i \in DOMAIN values |-> [type |-> type, value |-> values[i]]]]
Document(status, quads) == [Answer(status) EXCEPT !.typedRdf = TRUE, !.quads = quads]

Ours == <<Statement("s", "sd:endpoint", "http://e/sparql/"), Statement("s", "sd:extensionFunction", "sf"),
          Statement("s", "sd:defaultDataset", "d"), Stating("d", "void:triples", 100),
          Statement("d", "void:classPartition", "p"), Statement("p", "void:class", "C")>>
Theirs == <<Statement("s", "sd:endpoint", "https://other/sparql"), Statement("s", "sd:extensionFunction", "sf"),
            Statement("t", "rdf:type", "sd:Service"), Stating("t", "void:triples", 7)>>

MCResponses ==
  [kind \in {"Liveness", "Cors", "CorsPreflight", "FetchVoid", "AskFilter", "AskData", "SelectIris",
             "Counted", "description", "enumeration", "profile"} |->
     CASE kind = "Liveness" -> {NoResponse, Says(200, "results"), Page(200), Says(500, "results")}
       [] kind = "Cors" -> {NoResponse, [Answer(400) EXCEPT !.cors = TRUE], Answer(200),
                           [Page(200) EXCEPT !.cors = TRUE]}
       [] kind = "CorsPreflight" ->
            {NoResponse, Answer(405), Answer(302), Answer(204),
             [Answer(204) EXCEPT !.cors = TRUE, !.allowOrigin = "*", !.allowMethods = {"GET"}],
             [Page(204) EXCEPT !.cors = TRUE, !.allowOrigin = "us", !.allowMethods = {"POST"}],
             [Page(200) EXCEPT !.cors = TRUE, !.allowOrigin = "us"]}
       [] kind = "FetchVoid" ->
            {NoResponse, Page(404), Page(200), Answer(200), Document(200, Theirs), Document(503, Theirs)}
       [] kind = "description" ->
            {NoResponse, Page(200), Answer(404), Document(200, Ours), Document(200, Theirs),
             [Document(200, Ours) EXCEPT !.cut = TRUE]}
       [] kind = "AskFilter" -> {Says(200, "true"), Says(200, "false"), Says(500, "false"), Says(200, "other")}
       [] kind = "AskData" -> {Cells(200, "literal", <<"l">>), Says(400, "none"), Says(400, "results"),
                               Cells(200, "uri", <<"x">>), NoResponse}
       [] kind = "SelectIris" -> {Cells(200, "uri", <<"A">>), Cells(500, "uri", <<"A">>),
                                  Says(200, "results"), Says(500, "results"), Page(200)}
       [] kind = "Counted" -> {Cells(200, "literal", <<100>>), Cells(200, "literal", <<104>>),
                               Cells(200, "literal", <<0>>), Cells(500, "literal", <<100>>),
                               Says(200, "results")}
       [] kind = "enumeration" -> {Cells(200, "uri", <<"C", "D">>), Says(200, "results"),
                                   Says(500, "results"), Answer(200)}
       [] kind = "profile" -> {Cells(200, "row", <<"property">>), Says(200, "results"), Says(504, "none"),
                               Says(200, "unread"), NoResponse}]

MCRotations == {NewRotation(7, 3), NewRotation(7, 4), NewRotation(7, None)}
MCMemories == {NothingSeen, [triples |-> 100, classes |-> 100, profiledAt |-> 100],
               [triples |-> 100, classes |-> 100, profiledAt |-> 60]}

\* DayIndex counts the days: from each day of four years to the next is one.
Length(y, m) == IF m = 2 THEN (IF y % 4 = 0 /\ (y % 100 # 0 \/ y % 400 = 0) THEN 29 ELSE 28)
                ELSE IF m \in {4, 6, 9, 11} THEN 30 ELSE 31
ASSUME DayIndexCounts ==
  /\ DayIndex(1970, 1, 1) = 0 /\ DayIndex(2024, 13, 1) = None
  /\ \A y \in {1999, 2000, 2023, 2024, 2100}, m \in 1..12 : \A d \in 1..Length(y, m) :
       DayIndex(y, m, d) + 1 =
         IF d < Length(y, m) THEN DayIndex(y, m, d + 1)
         ELSE IF m < 12 THEN DayIndex(y, m + 1, 1) ELSE DayIndex(y + 1, 1, 1)
=============================================================================
