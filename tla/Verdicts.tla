------------------------------ MODULE Verdicts ------------------------------
(***************************************************************************)
(* The verdict on one metric (prober/src/resolve.rs): what the definition  *)
(* asks, what the description claims and what was observed, which is an    *)
(* Observation or Expired.                                                 *)
(***************************************************************************)
EXTENDS Metrics, Answers

\* What there is of a metric whose budget ran out, where the others have an Observation.
Expired == [elapsed |-> TRUE]

Verified == "verified"
UndeclaredButVerified == "undeclared-but-verified"
DeclaredButWrong == "declared-but-wrong"
DeclaredOnly == "declared-only"
Absent == "absent"
Indeterminate == "indeterminate"

NothingDeclared == [claimed |-> FALSE, value |-> None]

Declared(declarations, def) ==
  LET value == IF def.declaredBy \in DOMAIN declarations.counts
               THEN declarations.counts[def.declaredBy] ELSE None
  IN IF def.kind = "Counted" THEN [claimed |-> value # None, value |-> value]
     ELSE [claimed |-> def.declaredBy \in declarations.declares, value |-> None]

AnsweredOk(o) == o.status # None /\ o.status \in 200..299

AnyResult(o) == o.bodyKind = "SparqlJson"
IsAReadableResult(o) == o.bodyKind = "SparqlJson" /\ AnsweredOk(o)

Confirmed(def, declared) ==
  IF def.declaredBy = None \/ declared.claimed THEN Verified ELSE UndeclaredButVerified

Ruling(holds, verdict, otherwise) == IF holds THEN verdict ELSE otherwise

\* The tolerance is in percent of what was stated; nothing is near a stated zero.
WithinTolerance(stated, found, tolerance) ==
  \/ stated = found
  \/ /\ tolerance # None /\ stated # 0
     /\ (IF found > stated THEN found - stated ELSE stated - found) * 100 <= tolerance * stated

\* A count that can be published: a number in a result that was read.
CountOfAnswer(o) ==
  IF o # Expired /\ IsAReadableResult(o) /\ o.bindings # <<>> THEN Head(o.bindings) ELSE None

(***************************************************************************)
(* The rulings, kind by kind.                                              *)
(***************************************************************************)
ResolveAsk(def, declared, o) ==
  IF o.boolean = None THEN Ruling(declared.claimed, DeclaredOnly, Indeterminate)
  ELSE IF ~AnsweredOk(o) THEN Indeterminate
  ELSE IF o.boolean = (IF def.expect = None THEN TRUE ELSE def.expect) THEN Confirmed(def, declared)
  ELSE Ruling(def.expect # None /\ declared.claimed, DeclaredButWrong, Absent)

ResolveVoid(o) ==
  IF ~AnsweredOk(o) THEN Indeterminate
  ELSE Ruling(o.bodyKind = "Rdf", UndeclaredButVerified, DeclaredButWrong)

ResolveCors(def, declared, o) ==
  IF o.cors THEN Confirmed(def, declared) ELSE Ruling(AnsweredOk(o), Absent, Indeterminate)

GrantsOurOrigin(o) == o.allowOrigin \in {"*", OurOrigin}
AllowsGet(o) == o.allowMethods = None \/ {"*", "GET"} \cap o.allowMethods # {}

ResolvePreflight(def, declared, o) ==
  IF o.status \in {405, 501} THEN Absent
  ELSE IF ~AnsweredOk(o) THEN Indeterminate
  ELSE Ruling(GrantsOurOrigin(o) /\ AllowsGet(o), Confirmed(def, declared), Absent)

ResolveLiveness(def, declared, o) ==
  IF ~AnsweredOk(o) THEN Indeterminate
  ELSE Ruling(o.bodyKind = "SparqlJson", Confirmed(def, declared), Absent)

ResolveVocabulary(def, declared, o) ==
  IF o.bindings # <<>> THEN Confirmed(def, declared)
  ELSE IF ~IsAReadableResult(o) THEN Indeterminate
  ELSE Ruling(declared.claimed, DeclaredOnly, Absent)

ResolveCounted(def, declared, o) ==
  LET stated == declared.value
      found == CountOfAnswer(o)
  IN IF found = None THEN Ruling(stated # None, DeclaredOnly, Indeterminate)
     ELSE IF stated # None
       THEN Ruling(WithinTolerance(stated, found, def.tolerance), Verified, DeclaredButWrong)
     ELSE Ruling(found = 0, Absent, Confirmed(def, declared))

ResolveSelect(def, declared, o) ==
  IF o.bindings = <<>> THEN Ruling(IsAReadableResult(o), Absent, Indeterminate)
  ELSE Ruling(AnsweredOk(o), Confirmed(def, declared), Indeterminate)

(***************************************************************************)
(* The endpoint's own address: a verdict and a grade.                      *)
(***************************************************************************)
Grade(declarations) ==
  CASE declarations.triples = 0 -> 0
    [] declarations.triples # 0 /\ declarations.beyond -> 4
    [] declarations.triples # 0 /\ ~declarations.beyond /\ declarations.partitions -> 3
    [] OTHER -> IF declarations.namesDataset THEN 2 ELSE 1

Unread(o) == o = Expired \/ o.error \/ o.bodyKind = "Html"

ResolveFetch(declarations, o) ==
  IF Unread(o) THEN [verdict |-> Indeterminate, level |-> None]
  ELSE IF o.bodyKind = "Rdf" /\ AnsweredOk(o)
    THEN [verdict |-> Verified, level |-> Grade(declarations)]
  ELSE IF o.status \in {404, 410} THEN [verdict |-> Absent, level |-> 0]
  ELSE [verdict |-> Indeterminate, level |-> None]

\* A 404 at the well-known address is an answer even when it is a page.
Resolve(def, declared, o) ==
  IF def.kind = "FetchVoid" /\ o # Expired /\ ~o.error /\ o.status \in {404, 410} THEN Absent
  ELSE IF Unread(o) THEN Indeterminate
  ELSE CASE def.kind \in {"AskFilter", "AskData"} -> ResolveAsk(def, declared, o)
         [] def.kind = "FetchVoid" -> ResolveVoid(o)
         [] def.kind = "Cors" -> ResolveCors(def, declared, o)
         [] def.kind = "CorsPreflight" -> ResolvePreflight(def, declared, o)
         [] def.kind = "Liveness" -> ResolveLiveness(def, declared, o)
         [] def.kind = "VocabularyDescribed" -> ResolveVocabulary(def, declared, o)
         [] def.kind = "Counted" -> ResolveCounted(def, declared, o)
         [] def.kind = "SelectIris" -> ResolveSelect(def, declared, o)
         [] def.kind = "ClassProfile" -> Indeterminate
=============================================================================
