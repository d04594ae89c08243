------------------------------ MODULE Metrics ------------------------------
(***************************************************************************)
(* The metric definitions and what a sweep does with them                  *)
(* (prober/src/metrics.rs, rotation.rs and their use in main.rs).  A       *)
(* definition is a record; an option that is not given is None, and a      *)
(* query is the sequence of its tokens.  The measuring itself is Probing.  *)
(***************************************************************************)
EXTENDS Options, Lists, Integers, Sequences, FiniteSets, SequencesExt

CONSTANTS Identifiers    \* the ids that match [a-z0-9][a-z0-9-]*

ProbeKind == {"AskFilter", "AskData", "FetchVoid", "DereferenceEndpoint", "Cors", "CorsPreflight",
              "Liveness", "Counted", "SelectIris", "VocabularyDescribed", "ClassProfile"}
Cost == {"cheap", "expensive", "exhaustive"}
Cadence == {"hourly", "daily"}

\* Never a measurement per metric: the profile pass, and what is derived from it.
DispatchedPerMetric(kind) == kind \notin {"ClassProfile", "VocabularyDescribed"}

TripleCountMetric == "triple-count"
ClassCountMetric == "class-count"

(***************************************************************************)
(* Loading.  A LIMIT counts only where it is code, not in a comment, an    *)
(* IRI or a string, and the last one decides: it is the outermost.         *)
(***************************************************************************)
SparqlCodeOnly(query) == SelectSeq(query, LAMBDA token : token.code)

QueryLimit(query) ==
  LET limits == SelectSeq(SparqlCodeOnly(query), LAMBDA token : token.limit # None)
  IN IF limits = <<>> THEN None ELSE Last(limits).limit

LoadMetrics(file) ==
  /\ \A i \in DOMAIN file : /\ file[i].id \in Identifiers /\ file[i].kind \in ProbeKind
                            /\ file[i].cost \in Cost /\ file[i].cadence \in Cadence
  /\ \A i, j \in DOMAIN file : file[i].id = file[j].id => i = j
  /\ \A i \in DOMAIN file :
       /\ file[i].kind \in {"AskData", "SelectIris"} => file[i].var # None
       /\ file[i].sampleLimit # None =>
            /\ file[i].kind \in {"SelectIris", "ClassProfile"}
            /\ QueryLimit(file[i].query) = file[i].sampleLimit

(***************************************************************************)
(* What a sweep may afford, and what its cadence carries.                  *)
(***************************************************************************)
WithinCost(def, ceiling) ==
  CASE ceiling = "cheap" -> def.cost = "cheap"
    [] ceiling = "expensive" -> def.cost # "exhaustive"
    [] ceiling = "exhaustive" -> TRUE

Carries(cadence, declared) == cadence = "daily" \/ declared = "hourly"

KeepsVendorDocuments(defs) == \E i \in DOMAIN defs : defs[i].cadence = "daily"

Fact(def, reason) == [metric |-> def.id, reason |-> reason]
Declining(defs, reason) == [i \in DOMAIN defs |-> Fact(defs[i], reason)]

\* The cadence is asked of what the ceiling left, so that no metric is declined twice.
Affordable(file, ceiling) == Kept(file, {i \in DOMAIN file : WithinCost(file[i], ceiling)})
BeyondCost(file, ceiling) == Kept(file, {i \in DOMAIN file : ~WithinCost(file[i], ceiling)})

CarriedOf(file, ceiling, cadence) ==
  LET affordable == Affordable(file, ceiling)
  IN Kept(affordable, {i \in DOMAIN affordable : Carries(cadence, affordable[i].cadence)})

OutOfCadenceOf(file, ceiling, cadence) ==
  LET affordable == Affordable(file, ceiling)
  IN Kept(affordable, {i \in DOMAIN affordable : ~Carries(cadence, affordable[i].cadence)})

DeclinedOf(file, ceiling, cadence) ==
  Declining(BeyondCost(file, ceiling), "cost-ceiling")
  \o Declining(OutOfCadenceOf(file, ceiling, cadence), "cadence")

(***************************************************************************)
(* The rotation: an endpoint has one profile night in every so many, by a  *)
(* hash of its URL.  A sweep at no date it can read, or that asked for     *)
(* fewer than two days, profiles every endpoint.                           *)
(***************************************************************************)
Always == [every |-> 1, day |-> 0]
NewRotation(every, day) == IF every >= 2 /\ day # None THEN [every |-> every, day |-> day] ELSE Always

ProfileNight(rotation, hash) ==
  rotation.every <= 1 \/ hash % rotation.every = rotation.day % rotation.every

DueOf(run, night) == Kept(run, {i \in DOMAIN run : night \/ run[i].cost # "exhaustive"})
HeldOf(run, night) ==
  Declining(Kept(run, {i \in DOMAIN run : ~night /\ run[i].cost = "exhaustive"}), "cadence")

\* The number of a civil date, by eras of 400 years that begin in March; None for
\* what is not one.  A 31st of any month is taken.
DayIndex(y, m, d) ==
  IF m \notin 1..12 \/ d \notin 1..31 THEN None
  ELSE LET year == IF m <= 2 THEN y - 1 ELSE y
           era == year \div 400
           yoe == year - era * 400
           doy == (153 * ((m + 9) % 12) + 2) \div 5 + d - 1
       IN era * 146097 + yoe * 365 + yoe \div 4 - yoe \div 100 + doy - 719468
=============================================================================
