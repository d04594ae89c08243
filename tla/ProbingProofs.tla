--------------------------- MODULE ProbingProofs ---------------------------
(***************************************************************************)
(* Proofs about Probing, for any definitions that load, any plan a sweep   *)
(* makes of them and any responses: what a verdict needs of the answer it  *)
(* is made of; that every definition is accounted for once; that every row *)
(* rests on what was heard for it; and that what is published of one       *)
(* endpoint agrees with itself.  Accounted says where the probing stands,  *)
(* request by request, and Backed what stands behind each fact; together   *)
(* they are inductive.                                                     *)
(***************************************************************************)
EXTENDS Probing, FiniteSetTheorems, WellFoundedInduction, TLAPS

(***************************************************************************)
(* Verdicts, for any definition, claims and responses.  Resolve sees an    *)
(* observation, never the response: these say what the response must have  *)
(* been.                                                                   *)
(***************************************************************************)
\* The ways a response is read for the kinds that are asked of an endpoint.
Readings(r) == {GetWithBody(r), FetchRdf(r), SelectIris(r), LiteralAttempt(r), Preflight(r)}

Asked(def) == def.kind \in ProbeKind \ {"DereferenceEndpoint", "VocabularyDescribed",
                                        "ClassProfile"}

Positive == {Verified, UndeclaredButVerified}
Negative == {Absent, DeclaredButWrong}

\* The statuses that are themselves the answer.
MissingDocument(def, o) == def.kind = "FetchVoid" /\ o.status \in {404, 410}
RefusedOptions(def, o) == def.kind = "CorsPreflight" /\ o.status \in {405, 501}

\* A reading keeps the status and the CORS header, and marks a page but in an OPTIONS.
LEMMA ReadingsKeep ==
  ASSUME NEW r, NEW o \in Readings(r)
  PROVE  /\ r = NoResponse => o.error
         /\ r # NoResponse => /\ o.status = r.status
                              /\ o.cors => r.cors
                              /\ r.html /\ o # Preflight(r) => o.bodyKind = "Html"
  <1>1. CASE r = NoResponse
    <2>1. Failed.error /\ GetWithBody(r) = Failed /\ FetchRdf(r) = Failed /\ Preflight(r) = Failed
      BY <1>1 DEF GetWithBody, FetchRdf, Preflight, Failed, Blank
    <2>2. Failed.bodyKind = "None"
      BY DEF Failed, Blank
    <2>3. SelectIris(r) = Failed /\ LiteralAttempt(r) = Failed
      BY <2>1, <2>2 DEF SelectIris, LiteralAttempt
    <2> QED
      BY <1>1, <2>1, <2>3 DEF Readings
  <1>2. CASE r # NoResponse
    <2> DEFINE body == GetWithBody(r)
    <2>1. /\ body.status = r.status /\ body.cors = r.cors
          /\ r.html => body.bodyKind = "Html"
      BY <1>2 DEF GetWithBody, Blank
    <2>2. /\ FetchRdf(r).status = r.status /\ FetchRdf(r).cors = r.cors
          /\ r.html => FetchRdf(r).bodyKind = "Html"
      BY <1>2 DEF FetchRdf, Blank
    <2>3. Preflight(r).status = r.status /\ Preflight(r).cors = r.cors
      BY <1>2 DEF Preflight, Blank
    <2>4. /\ \A x : [body EXCEPT !.bindings = x].status = body.status
          /\ \A x : [body EXCEPT !.bindings = x].cors = body.cors
          /\ \A x, y : [body EXCEPT !.boolean = x, !.bindings = y].status = body.status
          /\ \A x, y : [body EXCEPT !.boolean = x, !.bindings = y].cors = body.cors
      BY <1>2 DEF GetWithBody, Blank
    <2> HIDE DEF body
    <2>5. /\ SelectIris(r).status = r.status /\ SelectIris(r).cors = r.cors
          /\ r.html => SelectIris(r).bodyKind = "Html"
      <3>1. CASE body.bodyKind = "SparqlJson"
        BY <2>1, <2>4, <3>1 DEF SelectIris, body
      <3>2. CASE body.bodyKind # "SparqlJson"
        BY <2>1, <3>2 DEF SelectIris, body
      <3> QED
        BY <3>1, <3>2
    <2>6. /\ LiteralAttempt(r).status = r.status /\ LiteralAttempt(r).cors = r.cors
          /\ r.html => LiteralAttempt(r).bodyKind = "Html"
      <3>1. CASE body.bodyKind = "SparqlJson"
        BY <2>1, <2>4, <3>1 DEF LiteralAttempt, body
      <3>2. CASE body.bodyKind # "SparqlJson"
        BY <2>1, <3>2 DEF LiteralAttempt, body
      <3> QED
        BY <3>1, <3>2
    <2> QED
      BY <1>2, <2>1, <2>2, <2>3, <2>5, <2>6 DEF Readings, body
  <1> QED
    BY <1>1, <1>2

\* Both answers to one metric are read like one: as the attempt that stands.
LEMMA EitherAttemptIsAReading ==
  /\ \A fallback, first, second :
       AskLiteralWithFallback(fallback, first, second) \in Readings(first) \cup Readings(second)
  /\ \A overlapping, probe, plain, overlap :
       CountedByShape(overlapping, probe, plain, overlap) \in Readings(plain) \cup Readings(overlap)
  BY DEF AskLiteralWithFallback, CountedByShape, Readings

(***************************************************************************)
(* What each ruling needs of the observation.                              *)
(***************************************************************************)
LEMMA VerdictsDiffer ==
  /\ Positive \cap Negative = {}
  /\ DeclaredOnly \notin Positive \cup Negative /\ Indeterminate \notin Positive \cup Negative
  /\ Absent \in Negative /\ Absent \notin Positive
  BY DEF Positive, Negative, Verified, UndeclaredButVerified, DeclaredButWrong, DeclaredOnly,
         Absent, Indeterminate

LEMMA ConfirmedIsPositive ==
  ASSUME NEW def, NEW declared
  PROVE  Confirmed(def, declared) \in Positive
  BY DEF Confirmed, Positive

LEMMA RulingsRest ==
  ASSUME NEW def, NEW declared, NEW o, Asked(def), ~Unread(o)
  PROVE  LET verdict == Resolve(def, declared, o) IN
         /\ verdict \in Positive => AnsweredOk(o) \/ (def.kind = "Cors" /\ o.cors)
         /\ verdict \in Negative =>
              AnsweredOk(o) \/ MissingDocument(def, o) \/ RefusedOptions(def, o)
  <1> DEFINE verdict == Resolve(def, declared, o)
  <1>1. CASE def.kind \in {"AskFilter", "AskData"}
    <2>1. verdict = ResolveAsk(def, declared, o)
      <3>1. CASE def.kind = "AskFilter"
        BY <3>1, Zenon DEF Resolve
      <3>2. CASE def.kind = "AskData"
        BY <3>2, Zenon DEF Resolve
      <3> QED
        BY <1>1, <3>1, <3>2
    <2> QED
      BY <1>1, <2>1, VerdictsDiffer DEF ResolveAsk, Ruling
  <1>2. CASE def.kind = "FetchVoid"
    <2>1. verdict = ResolveVoid(o) \/ (verdict = Absent /\ MissingDocument(def, o))
      BY <1>2, Zenon DEF Resolve, MissingDocument
    <2> QED
      BY <1>2, <2>1, VerdictsDiffer DEF ResolveVoid
  <1>3. CASE def.kind = "Cors"
    <2>1. verdict = ResolveCors(def, declared, o)
      BY <1>3, Zenon DEF Resolve
    <2> QED
      BY <1>3, <2>1, VerdictsDiffer, ConfirmedIsPositive DEF ResolveCors, Ruling
  <1>4. CASE def.kind = "CorsPreflight"
    <2>1. verdict = ResolvePreflight(def, declared, o)
      BY <1>4, Zenon DEF Resolve
    <2> QED
      BY <1>4, <2>1, VerdictsDiffer, ConfirmedIsPositive
         DEF ResolvePreflight, Ruling, RefusedOptions
  <1>5. CASE def.kind = "Liveness"
    <2>1. verdict = ResolveLiveness(def, declared, o)
      BY <1>5, Zenon DEF Resolve
    <2> QED
      BY <2>1, VerdictsDiffer DEF ResolveLiveness
  <1>6. CASE def.kind = "Counted"
    <2>1. verdict = ResolveCounted(def, declared, o)
      BY <1>6, Zenon DEF Resolve
    <2>2. CountOfAnswer(o) # None => AnsweredOk(o)
      BY DEF CountOfAnswer, IsAReadableResult
    <2> QED
      BY <2>1, <2>2, VerdictsDiffer DEF ResolveCounted, Ruling
  <1>7. CASE def.kind = "SelectIris"
    <2>1. verdict = ResolveSelect(def, declared, o)
      BY <1>7, Zenon DEF Resolve
    <2> QED
      BY <2>1, VerdictsDiffer DEF ResolveSelect, Ruling, IsAReadableResult
  <1> QED
    BY <1>1, <1>2, <1>3, <1>4, <1>5, <1>6, <1>7 DEF Asked, ProbeKind

(***************************************************************************)
(* No kind of metric makes a verdict about an endpoint of a budget that    *)
(* ran out, a transport error or a page in place of a result: it stays     *)
(* indeterminate, but for a document that is not there (resolve).          *)
(***************************************************************************)
THEOREM SilenceIsIndeterminate ==
  ASSUME NEW def, NEW declared, NEW r, NEW o \in Readings(r) \cup {Expired},
         \/ o = Expired
         \/ r = NoResponse
         \/ r.html /\ o # Preflight(r) /\ ~MissingDocument(def, o)
  PROVE  Resolve(def, declared, o) = Indeterminate
  <1>1. CASE o = Expired
    BY <1>1, Zenon DEF Resolve, Unread
  <1>2. CASE o # Expired /\ r = NoResponse
    <2>1. o.error
      BY <1>2, ReadingsKeep
    <2> QED
      BY <2>1, Zenon DEF Resolve, Unread
  <1>3. CASE o # Expired /\ r # NoResponse
    <2>1. r.html /\ o # Preflight(r) /\ ~MissingDocument(def, o) /\ o \in Readings(r)
      BY <1>3
    <2>2. o.bodyKind = "Html"
      BY <1>3, <2>1, ReadingsKeep
    <2> QED
      BY <2>1, <2>2, Zenon DEF Resolve, Unread, MissingDocument
  <1> QED
    BY <1>1, <1>2, <1>3

(***************************************************************************)
(* A confirmation needs a 2xx, or the CORS header that is the whole of     *)
(* what was asked; a negative verdict needs a 2xx, or a status that is     *)
(* itself the answer.  Whatever the definition, the claims and the body    *)
(* (answered_ok and the arms of resolve).                                  *)
(***************************************************************************)
THEOREM VerdictsNeedAnswers ==
  ASSUME NEW def, NEW declared, NEW r, NEW o \in Readings(r), Asked(def)
  PROVE  LET verdict == Resolve(def, declared, o) IN
         /\ verdict \in Positive =>
              /\ r # NoResponse
              /\ r.status \in 200..299 \/ (def.kind = "Cors" /\ r.cors)
         /\ verdict \in Negative =>
              /\ r # NoResponse
              /\ \/ r.status \in 200..299
                 \/ def.kind = "FetchVoid" /\ r.status \in {404, 410}
                 \/ def.kind = "CorsPreflight" /\ r.status \in {405, 501}
  <1> DEFINE verdict == Resolve(def, declared, o)
  <1>1. CASE r = NoResponse
    BY <1>1, SilenceIsIndeterminate, VerdictsDiffer
  <1>2. CASE r # NoResponse /\ Unread(o)
    <2>1. verdict = Indeterminate \/ (verdict = Absent /\ MissingDocument(def, o))
      BY <1>2, Zenon DEF Resolve, MissingDocument
    <2>2. o.status = r.status
      BY <1>2, ReadingsKeep
    <2> QED
      BY <1>2, <2>1, <2>2, VerdictsDiffer DEF MissingDocument
  <1>3. CASE r # NoResponse /\ ~Unread(o)
    <2>1. o.status = r.status /\ (o.cors => r.cors)
      BY <1>3, ReadingsKeep
    <2>2. /\ verdict \in Positive => AnsweredOk(o) \/ (def.kind = "Cors" /\ o.cors)
          /\ verdict \in Negative =>
               AnsweredOk(o) \/ MissingDocument(def, o) \/ RefusedOptions(def, o)
      BY <1>3, RulingsRest
    <2> QED
      BY <1>3, <2>1, <2>2 DEF AnsweredOk, MissingDocument, RefusedOptions
  <1> QED
    BY <1>1, <1>2, <1>3
(***************************************************************************)
(* The verdict and the grade of the endpoint's own address, which is       *)
(* graded apart from the other kinds: verified of a 2xx only, absent and   *)
(* grade zero of a missing document only, and otherwise no grade           *)
(* (resolve_fetch).                                                        *)
(***************************************************************************)
THEOREM DescriptionsNeedAnswers ==
  ASSUME NEW declarations, NEW r, NEW o \in {FetchRdf(r), Expired}
  PROVE  LET found == ResolveFetch(declarations, o) IN
         /\ found.verdict = Verified =>
              o # Expired /\ r # NoResponse /\ r.status \in 200..299 /\ ~r.html
         /\ found.verdict = Absent =>
              o # Expired /\ r # NoResponse /\ r.status \in {404, 410} /\ ~r.html /\ found.level = 0
         /\ found.verdict \notin {Verified, Absent} =>
              found.verdict = Indeterminate /\ found.level = None
  <1> DEFINE found == ResolveFetch(declarations, o)
  <1> USE DEF Verified, Absent, Indeterminate
  <1>1. CASE Unread(o)
    BY <1>1 DEF ResolveFetch
  <1>2. CASE ~Unread(o)
    <2>1. o # Expired /\ o.bodyKind # "Html" /\ ~o.error
      BY <1>2 DEF Unread
    <2>2. o = FetchRdf(r) /\ o \in Readings(r)
      BY <2>1 DEF Readings
    <2>3. r # NoResponse
      BY <2>1, <2>2, ReadingsKeep
    <2>4. o.status = r.status
      BY <2>2, <2>3, ReadingsKeep
    <2>5. ~r.html
      BY <2>1, <2>2, <2>3 DEF FetchRdf, Blank
    <2> QED
      BY <1>2, <2>1, <2>3, <2>4, <2>5 DEF ResolveFetch, AnsweredOk
  <1> QED
    BY <1>1, <1>2

(***************************************************************************)
(* A claim confirms nothing: but for a count, which is compared with what  *)
(* was stated, and the address, which is graded by it, whether a verdict   *)
(* is a confirmation is decided by the answer alone (confirmed, which only *)
(* chooses between the two confirmations).                                 *)
(***************************************************************************)
THEOREM ClaimsConfirmNothing ==
  ASSUME NEW def, NEW declared, NEW o,
         def.kind \in ProbeKind \ {"Counted", "DereferenceEndpoint"}
  PROVE  Resolve(def, declared, o) \in Positive
           <=> Resolve(def, NothingDeclared, o) \in Positive
  <1>1. ASSUME NEW d PROVE Confirmed(def, d) \in Positive
    BY ConfirmedIsPositive
  <1>2. /\ Absent \notin Positive /\ Indeterminate \notin Positive
        /\ DeclaredOnly \notin Positive /\ DeclaredButWrong \notin Positive
    BY VerdictsDiffer DEF Negative
  <1>3. CASE Unread(o) \/ (def.kind = "FetchVoid" /\ o # Expired /\ ~o.error
                             /\ o.status \in {404, 410})
    BY <1>3, Zenon DEF Resolve
  <1>4. CASE ~Unread(o) /\ ~(def.kind = "FetchVoid" /\ o.status \in {404, 410})
    <2>1. CASE def.kind = "FetchVoid" \/ def.kind = "ClassProfile"
      BY <1>4, <2>1, Zenon DEF Resolve
    <2>2. CASE def.kind = "AskFilter" \/ def.kind = "AskData"
      <3>1. \A d : Resolve(def, d, o) = ResolveAsk(def, d, o)
        <4>1. CASE def.kind = "AskFilter"
          BY <1>4, <4>1, Zenon DEF Resolve
        <4>2. CASE def.kind = "AskData"
          BY <1>4, <4>2, Zenon DEF Resolve
        <4> QED
          BY <2>2, <4>1, <4>2
      <3> QED
        <4> DEFINE agrees == o.boolean = (IF def.expect = None THEN TRUE ELSE def.expect)
        <4>1. CASE o.boolean = None \/ ~AnsweredOk(o)
          <5>1. \A d : Resolve(def, d, o) = Ruling(d.claimed, DeclaredOnly, Indeterminate)
                       \/ Resolve(def, d, o) = Indeterminate
            BY <3>1, <4>1, Zenon DEF ResolveAsk
          <5> QED
            BY <1>2, <5>1 DEF Ruling
        <4>2. CASE o.boolean # None /\ AnsweredOk(o) /\ agrees
          <5>1. \A d : Resolve(def, d, o) = Confirmed(def, d)
            BY <3>1, <4>2, Zenon DEF ResolveAsk
          <5> QED
            BY <1>1, <5>1
        <4>3. CASE o.boolean # None /\ AnsweredOk(o) /\ ~agrees
          <5>1. \A d : Resolve(def, d, o)
                         = Ruling(def.expect # None /\ d.claimed, DeclaredButWrong, Absent)
            BY <3>1, <4>3, Zenon DEF ResolveAsk
          <5> QED
            BY <1>2, <5>1 DEF Ruling
        <4> QED
          BY <4>1, <4>2, <4>3
    <2>3. CASE def.kind = "Cors"
      <3>1. \A d : Resolve(def, d, o) = ResolveCors(def, d, o)
        BY <1>4, <2>3, Zenon DEF Resolve
      <3> QED
        BY <1>1, <1>2, <3>1 DEF ResolveCors, Ruling
    <2>4. CASE def.kind = "CorsPreflight"
      <3>1. \A d : Resolve(def, d, o) = ResolvePreflight(def, d, o)
        BY <1>4, <2>4, Zenon DEF Resolve
      <3> QED
        BY <1>1, <1>2, <3>1 DEF ResolvePreflight, Ruling
    <2>5. CASE def.kind = "Liveness"
      <3>1. \A d : Resolve(def, d, o) = ResolveLiveness(def, d, o)
        BY <1>4, <2>5, Zenon DEF Resolve
      <3> QED
        BY <1>1, <1>2, <3>1 DEF ResolveLiveness, Ruling
    <2>6. CASE def.kind = "VocabularyDescribed"
      <3>1. \A d : Resolve(def, d, o) = ResolveVocabulary(def, d, o)
        BY <1>4, <2>6, Zenon DEF Resolve
      <3> QED
        BY <1>1, <1>2, <3>1 DEF ResolveVocabulary, Ruling
    <2>7. CASE def.kind = "SelectIris"
      <3>1. \A d : Resolve(def, d, o) = ResolveSelect(def, d, o)
        BY <1>4, <2>7, Zenon DEF Resolve
      <3> QED
        BY <1>1, <1>2, <3>1 DEF ResolveSelect, Ruling
    <2> QED
      BY <2>1, <2>2, <2>3, <2>4, <2>5, <2>6, <2>7 DEF ProbeKind
  <1> QED
    BY <1>3, <1>4 DEF Unread

(***************************************************************************)
(* Lists.  Everything a list of rows, of facts or of samples holds has a   *)
(* metric, which it names.                                                 *)
(***************************************************************************)
Names(list) == {list[i].metric : i \in DOMAIN list}

NamesOnce(list) == /\ IsList(list)
                   /\ \A i, j \in DOMAIN list : list[i].metric = list[j].metric => i = j

LEMMA ListsHaveALength ==
  ASSUME NEW list, IsList(list)
  PROVE  /\ Len(list) \in Nat /\ DOMAIN list = 1..Len(list)
         /\ list = [i \in 1..Len(list) |-> list[i]]
  BY DEF IsList

LEMMA FunctionsAreLists ==
  ASSUME NEW n \in Nat, NEW list, list = [i \in 1..n |-> list[i]]
  PROVE  IsList(list) /\ Len(list) = n /\ DOMAIN list = 1..n
  <1> DEFINE S == {list[i] : i \in DOMAIN list}
  <1>1. DOMAIN list = 1..n
    OBVIOUS
  <1>2. list \in [1..n -> S]
    BY <1>1
  <1>3. list \in Seq(S)
    BY <1>2
  <1> QED
    BY <1>1, <1>3 DEF IsList

LEMMA AppendedList ==
  ASSUME NEW list, NEW e, IsList(list)
  PROVE  LET longer == Append(list, e) IN
         /\ IsList(longer) /\ Len(longer) = Len(list) + 1 /\ DOMAIN longer = 1..(Len(list) + 1)
         /\ \A i \in DOMAIN list : longer[i] = list[i]
         /\ longer[Len(list) + 1] = e
  <1> DEFINE S == {list[i] : i \in DOMAIN list} \cup {e}
             longer == Append(list, e)
  <1>1. list \in Seq(S) /\ e \in S
    BY ListsHaveALength
  <1>2. /\ longer \in Seq(S) /\ Len(longer) = Len(list) + 1
        /\ \A i \in 1..Len(list) : longer[i] = list[i]
        /\ longer[Len(list) + 1] = e
    BY <1>1
  <1> HIDE DEF longer
  <1>3. Len(longer) \in Nat /\ longer = [i \in 1..Len(longer) |-> longer[i]]
    BY <1>2
  <1>4. IsList(longer) /\ DOMAIN longer = 1..(Len(list) + 1)
    BY <1>2, <1>3, FunctionsAreLists
  <1> QED
    BY <1>2, <1>4, ListsHaveALength DEF longer

LEMMA JoinedList ==
  ASSUME NEW s, NEW t, IsList(s), IsList(t)
  PROVE  LET joined == s \o t IN
         /\ IsList(joined) /\ Len(joined) = Len(s) + Len(t) /\ DOMAIN joined = 1..(Len(s) + Len(t))
         /\ \A i \in DOMAIN s : joined[i] = s[i]
         /\ \A i \in DOMAIN t : joined[Len(s) + i] = t[i]
         /\ \A i \in DOMAIN joined : \/ i \in DOMAIN s /\ joined[i] = s[i]
                                     \/ i - Len(s) \in DOMAIN t /\ joined[i] = t[i - Len(s)]
  <1> DEFINE S == {s[i] : i \in DOMAIN s} \cup {t[i] : i \in DOMAIN t}
             joined == s \o t
  <1>0. /\ Len(s) \in Nat /\ DOMAIN s = 1..Len(s)
        /\ Len(t) \in Nat /\ DOMAIN t = 1..Len(t)
    BY ListsHaveALength
  <1>1. s \in Seq(S) /\ t \in Seq(S)
    BY ListsHaveALength
  <1>2. /\ joined \in Seq(S) /\ Len(joined) = Len(s) + Len(t)
        /\ \A i \in 1..(Len(s) + Len(t)) :
             joined[i] = IF i <= Len(s) THEN s[i] ELSE t[i - Len(s)]
    BY <1>1
  <1> HIDE DEF joined
  <1>3. Len(joined) \in Nat /\ joined = [i \in 1..Len(joined) |-> joined[i]]
    BY <1>2
  <1>4. IsList(joined) /\ DOMAIN joined = 1..(Len(s) + Len(t))
    BY <1>2, <1>3, FunctionsAreLists
  <1>5. \A i \in DOMAIN s : joined[i] = s[i]
    BY <1>0, <1>2
  <1>6. ASSUME NEW i \in DOMAIN t PROVE joined[Len(s) + i] = t[i]
    BY <1>0, <1>2
  <1>7. ASSUME NEW i \in DOMAIN joined
        PROVE  \/ i \in DOMAIN s /\ joined[i] = s[i]
               \/ i - Len(s) \in DOMAIN t /\ joined[i] = t[i - Len(s)]
    BY <1>0, <1>2, <1>4
  <1> QED
    BY <1>2, <1>4, <1>5, <1>6, <1>7 DEF joined

LEMMA EmptyListNames == NamesOnce(<<>>) /\ Names(<<>>) = {} /\ Len(<<>>) = 0
  BY DEF NamesOnce, Names, IsList

LEMMA AppendNames ==
  ASSUME NEW list, NEW e, NamesOnce(list), e.metric \notin Names(list)
  PROVE  NamesOnce(Append(list, e)) /\ Names(Append(list, e)) = Names(list) \cup {e.metric}
  <1> DEFINE longer == Append(list, e)
  <1>1. Len(list) \in Nat /\ DOMAIN list = 1..Len(list)
    BY ListsHaveALength DEF NamesOnce
  <1>2. /\ IsList(longer) /\ DOMAIN longer = DOMAIN list \cup {Len(list) + 1}
        /\ \A i \in DOMAIN list : longer[i] = list[i]
        /\ longer[Len(list) + 1] = e
    BY <1>1, AppendedList DEF NamesOnce
  <1> HIDE DEF longer
  <1>3. Names(longer) = Names(list) \cup {e.metric}
    BY <1>2 DEF Names
  <1>4. ASSUME NEW i \in DOMAIN longer, NEW j \in DOMAIN longer, longer[i].metric = longer[j].metric
        PROVE  i = j
    BY <1>2, <1>4 DEF NamesOnce, Names
  <1> QED
    BY <1>2, <1>3, <1>4 DEF NamesOnce, longer

LEMMA JoinedNames ==
  ASSUME NEW s, NEW t, IsList(s), IsList(t)
  PROVE  Names(s \o t) = Names(s) \cup Names(t)
  <1> DEFINE joined == s \o t
  <1>1. Len(s) \in Nat /\ DOMAIN t = 1..Len(t) /\ Len(t) \in Nat /\ DOMAIN s = 1..Len(s)
    BY ListsHaveALength
  <1>2. /\ IsList(joined) /\ DOMAIN joined = 1..(Len(s) + Len(t))
        /\ \A i \in DOMAIN s : joined[i] = s[i]
        /\ \A i \in DOMAIN t : joined[Len(s) + i] = t[i]
        /\ \A i \in DOMAIN joined : \/ i \in DOMAIN s /\ joined[i] = s[i]
                                    \/ i - Len(s) \in DOMAIN t /\ joined[i] = t[i - Len(s)]
    BY JoinedList
  <1> HIDE DEF joined
  <1>3. Names(joined) \subseteq Names(s) \cup Names(t)
    BY <1>2 DEF Names
  <1>4. Names(s) \cup Names(t) \subseteq Names(joined)
    <2>1. Names(s) \subseteq Names(joined)
      BY <1>1, <1>2 DEF Names
    <2>2. \A i \in DOMAIN t : Len(s) + i \in DOMAIN joined
      BY <1>1, <1>2
    <2> QED
      BY <1>2, <2>1, <2>2 DEF Names
  <1> QED
    BY <1>3, <1>4 DEF joined

LEMMA JoinNames ==
  ASSUME NEW s, NEW t, NamesOnce(s), NamesOnce(t), Names(s) \cap Names(t) = {}
  PROVE  NamesOnce(s \o t) /\ Names(s \o t) = Names(s) \cup Names(t)
  <1> DEFINE joined == s \o t
  <1>1. Len(s) \in Nat /\ DOMAIN t = 1..Len(t) /\ Len(t) \in Nat /\ DOMAIN s = 1..Len(s)
    BY ListsHaveALength DEF NamesOnce
  <1>2. /\ IsList(joined) /\ DOMAIN joined = 1..(Len(s) + Len(t))
        /\ \A i \in DOMAIN s : joined[i] = s[i]
        /\ \A i \in DOMAIN t : joined[Len(s) + i] = t[i]
        /\ \A i \in DOMAIN joined : \/ i \in DOMAIN s /\ joined[i] = s[i]
                                    \/ i - Len(s) \in DOMAIN t /\ joined[i] = t[i - Len(s)]
    BY JoinedList DEF NamesOnce
  <1> HIDE DEF joined
  <1>3. Names(joined) = Names(s) \cup Names(t)
    BY JoinedNames DEF NamesOnce, joined
  <1>4. ASSUME NEW i \in DOMAIN joined, NEW j \in DOMAIN joined, joined[i].metric = joined[j].metric
        PROVE  i = j
    <2>1. CASE i \in DOMAIN s /\ j \in DOMAIN s
      BY <1>2, <1>4, <2>1 DEF NamesOnce
    <2>2. CASE i - Len(s) \in DOMAIN t /\ j - Len(s) \in DOMAIN t /\ i \notin DOMAIN s /\ j \notin DOMAIN s
      <3>1. joined[i] = t[i - Len(s)] /\ joined[j] = t[j - Len(s)]
        BY <1>2, <2>2
      <3>2. i - Len(s) = j - Len(s)
        BY <1>4, <2>2, <3>1 DEF NamesOnce
      <3> QED
        BY <1>1, <1>2, <3>2
    <2>3. ASSUME NEW a \in DOMAIN s, NEW b \in DOMAIN t PROVE s[a].metric # t[b].metric
      BY DEF Names
    <2> QED
      BY <1>2, <1>4, <2>1, <2>2, <2>3
  <1> QED
    BY <1>2, <1>3, <1>4 DEF NamesOnce, joined

\* What is told once is counted once, and what is not told is not counted.
LEMMA NamesAreCounted ==
  ASSUME NEW list, NamesOnce(list), NEW metric
  PROVE  Cardinality({i \in DOMAIN list : list[i].metric = metric})
           = IF metric \in Names(list) THEN 1 ELSE 0
  <1> DEFINE I == {i \in DOMAIN list : list[i].metric = metric}
  <1>1. CASE metric \in Names(list)
    <2>1. PICK i \in DOMAIN list : list[i].metric = metric
      BY <1>1 DEF Names
    <2>2. I = {i}
      BY <2>1 DEF NamesOnce
    <2> QED
      BY <1>1, <2>2, FS_Singleton
  <1>2. CASE metric \notin Names(list)
    <2>1. I = {}
      BY <1>2 DEF Names
    <2> QED
      BY <1>2, <2>1, FS_EmptySet
  <1> QED
    BY <1>1, <1>2

(***************************************************************************)
(* What is kept of a list: the members at those positions, each once.      *)
(***************************************************************************)
Rank(positions, i) == Cardinality({j \in positions : j <= i})

LEMMA RanksGrow ==
  ASSUME NEW n \in Nat, NEW I, I \subseteq 1..n
  PROVE  /\ IsFiniteSet(I) /\ Cardinality(I) \in Nat
         /\ \A i \in I : Rank(I, i) \in 1..Cardinality(I)
         /\ \A i, j \in I : i < j => Rank(I, i) < Rank(I, j)
  <1> DEFINE UpTo(i) == {j \in I : j <= i}
  <1>1. IsFiniteSet(1..n) /\ I \in SUBSET (1..n)
    BY FS_Interval
  <1>2. IsFiniteSet(I) /\ Cardinality(I) \in Nat
    BY <1>1, FS_Subset, FS_CardinalityType
  <1>3. ASSUME NEW i \in I
        PROVE  IsFiniteSet(UpTo(i)) /\ Rank(I, i) \in 1..Cardinality(I)
    <2>1. UpTo(i) \in SUBSET I /\ i \in UpTo(i)
      OBVIOUS
    <2>2. IsFiniteSet(UpTo(i)) /\ Cardinality(UpTo(i)) <= Cardinality(I)
      BY <1>2, <2>1, FS_Subset
    <2>3. Cardinality(UpTo(i)) \in Nat /\ Cardinality(UpTo(i)) # 0
      BY <2>1, <2>2, FS_CardinalityType, FS_EmptySet
    <2> QED
      BY <1>2, <2>2, <2>3 DEF Rank
  <1>4. ASSUME NEW i \in I, NEW j \in I, i < j PROVE Rank(I, i) < Rank(I, j)
    <2>1. UpTo(i) \in SUBSET UpTo(j) /\ j \in UpTo(j) /\ j \notin UpTo(i)
      <3>1. i \in Nat /\ j \in Nat /\ \A k \in I : k \in Nat
        OBVIOUS
      <3>2. i <= j /\ ~(j <= i) /\ j <= j /\ \A k \in I : k <= i => k <= j
        BY <1>4, <3>1
      <3> QED
        BY <3>2
    <2>2. UpTo(i) # UpTo(j)
      BY <2>1
    <2>3. Cardinality(UpTo(i)) <= Cardinality(UpTo(j)) /\ Cardinality(UpTo(i)) # Cardinality(UpTo(j))
      BY <1>3, <2>1, <2>2, FS_Subset
    <2>4. Cardinality(UpTo(i)) \in Nat /\ Cardinality(UpTo(j)) \in Nat
      BY <1>3, FS_CardinalityType
    <2> QED
      BY <2>3, <2>4 DEF Rank
  <1> QED
    BY <1>2, <1>3, <1>4

LEMMA PositionsAreRanked ==
  ASSUME NEW n \in Nat, NEW I, I \subseteq 1..n
  PROVE  /\ \A k \in 1..Cardinality(I) : /\ Position(I, k) \in I
                                         /\ Rank(I, Position(I, k)) = k
         /\ \A i \in I : Position(I, Rank(I, i)) = i
  <1> DEFINE c == Cardinality(I)
             f == [i \in I |-> Rank(I, i)]
  <1>1. IsFiniteSet(I) /\ c \in Nat
    BY RanksGrow
  <1>2. \A i \in I : Rank(I, i) \in 1..c
    BY RanksGrow
  <1>3. ASSUME NEW i \in I, NEW j \in I, Rank(I, i) = Rank(I, j) PROVE i = j
    <2>1. i < j => Rank(I, i) < Rank(I, j)
      BY RanksGrow
    <2>2. j < i => Rank(I, j) < Rank(I, i)
      BY RanksGrow
    <2>3. i \in Nat /\ j \in Nat /\ Rank(I, i) \in Nat
      BY <1>1, <1>2
    <2> QED
      BY <1>3, <2>1, <2>2, <2>3
  <1>4. f \in Injection(I, 1..c)
    BY <1>2, <1>3 DEF Injection, IsInjective
  <1>5. IsFiniteSet(1..c) /\ Cardinality(1..c) = c
    BY <1>1, FS_Interval
  <1>6. f \in Surjection(I, 1..c)
    BY <1>4, <1>5, FS_Injection
  <1>7. \A k \in 1..c : \E i \in I : Rank(I, i) = k
    BY <1>6 DEF Surjection
  <1>8. ASSUME NEW k \in 1..c PROVE Position(I, k) \in I /\ Rank(I, Position(I, k)) = k
    BY <1>7 DEF Position, Rank
  <1> QED
    BY <1>2, <1>3, <1>8

LEMMA KeptIsAList ==
  ASSUME NEW n \in Nat, NEW I, I \subseteq 1..n, NEW list
  PROVE  /\ IsList(Kept(list, I))
         /\ \A k \in DOMAIN Kept(list, I) : \E i \in I : Kept(list, I)[k] = list[i]
         /\ \A i \in I : \E k \in DOMAIN Kept(list, I) : Kept(list, I)[k] = list[i]
         /\ (\A i, j \in I : list[i].id = list[j].id => i = j) =>
              \A k, l \in DOMAIN Kept(list, I) : Kept(list, I)[k].id = Kept(list, I)[l].id => k = l
  <1> DEFINE c == Cardinality(I)
             kept == Kept(list, I)
  <1>1. c \in Nat
    BY RanksGrow
  <1>2. kept = [k \in 1..c |-> list[Position(I, k)]]
    BY DEF Kept
  <1>3. IsList(kept)
    <2>1. kept = [k \in 1..c |-> kept[k]]
      BY <1>2
    <2> QED
      BY <1>1, <2>1, FunctionsAreLists
  <1>4. DOMAIN kept = 1..c /\ \A k \in 1..c : kept[k] = list[Position(I, k)]
    BY <1>2
  <1>5. \A k \in DOMAIN kept : \E i \in I : kept[k] = list[i]
    BY <1>4, PositionsAreRanked
  <1>6. \A i \in I : \E k \in DOMAIN kept : kept[k] = list[i]
    <2> TAKE i \in I
    <2>1. Rank(I, i) \in 1..c /\ Position(I, Rank(I, i)) = i
      BY RanksGrow, PositionsAreRanked
    <2> QED
      BY <1>4, <2>1
  <1>7. ASSUME \A i, j \in I : list[i].id = list[j].id => i = j,
               NEW k \in DOMAIN kept, NEW l \in DOMAIN kept, kept[k].id = kept[l].id
        PROVE  k = l
    <2>1. Position(I, k) \in I /\ Position(I, l) \in I
      BY <1>4, PositionsAreRanked
    <2>2. Position(I, k) = Position(I, l)
      BY <1>4, <1>7, <2>1
    <2>3. Rank(I, Position(I, k)) = k /\ Rank(I, Position(I, l)) = l
      BY <1>4, PositionsAreRanked
    <2> QED
      BY <2>2, <2>3
  <1> QED
    BY <1>3, <1>5, <1>6, <1>7

(***************************************************************************)
(* The plan: the definitions due and the facts on the others part the file *)
(* between them.                                                           *)
(***************************************************************************)
Loaded(list) ==
  /\ Len(list) \in Nat /\ DOMAIN list = 1..Len(list)
  /\ \A i, j \in DOMAIN list : list[i].id = list[j].id => i = j
  /\ \A i \in DOMAIN list : list[i].kind \in ProbeKind

Ids(list) == {list[i].id : i \in DOMAIN list}

PlanParts ==
  /\ Loaded(Due) /\ IsList(Due) /\ NamesOnce(plan.declined)
  /\ Names(plan.declined) \cap Ids(Due) = {}
  /\ \A i \in DOMAIN plan.file : \/ plan.file[i].id \in Names(plan.declined)
                                 \/ \E j \in DOMAIN Due : Due[j] = plan.file[i]

LEMMA KeptIsLoaded ==
  ASSUME NEW list, Loaded(list), NEW I \in SUBSET DOMAIN list
  PROVE  /\ Loaded(Kept(list, I)) /\ IsList(Kept(list, I))
         /\ \A k \in DOMAIN Kept(list, I) : \E i \in I : Kept(list, I)[k] = list[i]
         /\ \A i \in I : \E k \in DOMAIN Kept(list, I) : Kept(list, I)[k] = list[i]
         /\ Ids(Kept(list, I)) = {list[i].id : i \in I}
  <1> DEFINE kept == Kept(list, I)
  <1>1. Len(list) \in Nat /\ I \subseteq 1..Len(list)
    BY DEF Loaded
  <1>2. \A i, j \in I : list[i].id = list[j].id => i = j
    BY DEF Loaded
  <1>3. /\ IsList(kept)
        /\ \A k \in DOMAIN kept : \E i \in I : kept[k] = list[i]
        /\ \A i \in I : \E k \in DOMAIN kept : kept[k] = list[i]
        /\ \A k, l \in DOMAIN kept : kept[k].id = kept[l].id => k = l
    BY <1>1, <1>2, KeptIsAList
  <1> HIDE DEF kept
  <1>4. \A k \in DOMAIN kept : kept[k].kind \in ProbeKind
    BY <1>3 DEF Loaded
  <1>5. Loaded(kept)
    BY <1>3, <1>4, ListsHaveALength DEF Loaded
  <1>6. Ids(kept) = {list[i].id : i \in I}
    BY <1>3 DEF Ids
  <1> QED
    BY <1>3, <1>5, <1>6 DEF kept

LEMMA KeptApart ==
  ASSUME NEW list, Loaded(list), NEW I \in SUBSET DOMAIN list, NEW J \in SUBSET DOMAIN list,
         I \cap J = {}
  PROVE  /\ Ids(Kept(list, I)) \cap Ids(Kept(list, J)) = {}
         /\ Ids(Kept(list, I)) \subseteq Ids(list)
  <1>1. /\ Ids(Kept(list, I)) = {list[i].id : i \in I}
        /\ Ids(Kept(list, J)) = {list[j].id : j \in J}
    BY KeptIsLoaded
  <1>2. \A i \in I, j \in J : list[i].id # list[j].id
    BY DEF Loaded
  <1> QED
    BY <1>1, <1>2, Zenon DEF Ids

\* A list made of a list of definitions, member by member, names what they are.
LEMMA MadeOfDefinitions ==
  ASSUME NEW list, Loaded(list), NEW made, made = [i \in DOMAIN list |-> made[i]],
         \A i \in DOMAIN list : made[i].metric = list[i].id
  PROVE  NamesOnce(made) /\ Names(made) = Ids(list)
  <1>1. DOMAIN made = DOMAIN list /\ DOMAIN list = 1..Len(list) /\ Len(list) \in Nat
    BY DEF Loaded
  <1>2. made = [i \in 1..Len(list) |-> made[i]]
    BY <1>1
  <1>3. IsList(made)
    BY <1>1, <1>2, FunctionsAreLists
  <1> QED
    BY <1>1, <1>3 DEF NamesOnce, Names, Ids, Loaded

LEMMA DecliningNames ==
  ASSUME NEW list, Loaded(list), NEW reason
  PROVE  NamesOnce(Declining(list, reason)) /\ Names(Declining(list, reason)) = Ids(list)
  <1> DEFINE facts == Declining(list, reason)
  <1>1. /\ facts = [i \in DOMAIN list |-> facts[i]]
        /\ \A i \in DOMAIN list : facts[i].metric = list[i].id
    BY DEF Declining, Fact
  <1> HIDE DEF facts
  <1> QED
    BY <1>1, MadeOfDefinitions DEF facts

LEMMA FilesAreParted ==
  ASSUME NEW file \in MetricFiles, NEW ceiling, NEW cadence, NEW night
  PROVE  LET run == CarriedOf(file, ceiling, cadence)
             due == DueOf(run, night)
             declined == DeclinedOf(file, ceiling, cadence) \o HeldOf(run, night)
         IN /\ Loaded(due) /\ IsList(due) /\ NamesOnce(declined)
            /\ Names(declined) \cap Ids(due) = {}
            /\ \A i \in DOMAIN file : \/ file[i].id \in Names(declined)
                                      \/ \E j \in DOMAIN due : due[j] = file[i]
  <1> DEFINE affordable == Affordable(file, ceiling)
             beyond == BeyondCost(file, ceiling)
             run == CarriedOf(file, ceiling, cadence)
             out == OutOfCadenceOf(file, ceiling, cadence)
             due == DueOf(run, night)
             Held == {i \in DOMAIN run : ~night /\ run[i].cost = "exhaustive"}
             held == Kept(run, Held)
             Afforded == {i \in DOMAIN file : WithinCost(file[i], ceiling)}
             Costly == {i \in DOMAIN file : ~WithinCost(file[i], ceiling)}
             Carried == {i \in DOMAIN affordable : Carries(cadence, affordable[i].cadence)}
             Uncarried == {i \in DOMAIN affordable : ~Carries(cadence, affordable[i].cadence)}
             Now == {i \in DOMAIN run : night \/ run[i].cost # "exhaustive"}
  <1>1. Loaded(file)
    BY ProbingAssumption DEF Loaded, LoadMetrics
  <1>2. affordable = Kept(file, Afforded) /\ beyond = Kept(file, Costly)
    BY DEF Affordable, BeyondCost
  <1>3. run = Kept(affordable, Carried) /\ out = Kept(affordable, Uncarried)
    BY DEF CarriedOf, OutOfCadenceOf
  <1>4. due = Kept(run, Now)
    BY DEF DueOf
  <1>5. /\ Afforded \in SUBSET DOMAIN file /\ Costly \in SUBSET DOMAIN file
        /\ Afforded \cap Costly = {} /\ DOMAIN file \subseteq Afforded \cup Costly
    OBVIOUS
  <1>6. /\ Carried \in SUBSET DOMAIN affordable /\ Uncarried \in SUBSET DOMAIN affordable
        /\ Carried \cap Uncarried = {} /\ DOMAIN affordable \subseteq Carried \cup Uncarried
    OBVIOUS
  <1>7. /\ Now \in SUBSET DOMAIN run /\ Held \in SUBSET DOMAIN run
        /\ Now \cap Held = {} /\ DOMAIN run \subseteq Now \cup Held
    OBVIOUS
  <1> HIDE DEF affordable, beyond, run, out, due, held, Afforded, Costly, Carried, Uncarried, Now, Held
  <1>8. /\ Loaded(affordable) /\ Loaded(beyond) /\ Ids(affordable) \cap Ids(beyond) = {}
        /\ \A i \in Afforded : \E k \in DOMAIN affordable : affordable[k] = file[i]
        /\ \A i \in Costly : file[i].id \in Ids(beyond)
    BY <1>1, <1>2, <1>5, KeptIsLoaded, KeptApart
  <1>9. /\ Loaded(run) /\ Loaded(out) /\ Ids(run) \cap Ids(out) = {}
        /\ Ids(run) \subseteq Ids(affordable) /\ Ids(out) \subseteq Ids(affordable)
        /\ \A i \in Carried : \E k \in DOMAIN run : run[k] = affordable[i]
        /\ \A i \in Uncarried : affordable[i].id \in Ids(out)
    BY <1>3, <1>6, <1>8, KeptIsLoaded, KeptApart
  <1>10. /\ Loaded(due) /\ IsList(due) /\ Loaded(held) /\ Ids(due) \cap Ids(held) = {}
         /\ Ids(due) \subseteq Ids(run) /\ Ids(held) \subseteq Ids(run)
         /\ \A i \in Now : \E k \in DOMAIN due : due[k] = run[i]
         /\ \A i \in Held : run[i].id \in Ids(held)
    BY <1>4, <1>7, <1>9, KeptIsLoaded, KeptApart DEF held
  <1> DEFINE declined == DeclinedOf(file, ceiling, cadence) \o HeldOf(run, night)
  <1>11. declined = (Declining(beyond, "cost-ceiling") \o Declining(out, "cadence"))
                      \o Declining(held, "cadence")
    BY DEF DeclinedOf, HeldOf, beyond, out, held, Held
  <1>12. /\ NamesOnce(Declining(beyond, "cost-ceiling") \o Declining(out, "cadence"))
         /\ Names(Declining(beyond, "cost-ceiling") \o Declining(out, "cadence"))
              = Ids(beyond) \cup Ids(out)
    BY <1>8, <1>9, DecliningNames, JoinNames
  <1>13. NamesOnce(declined) /\ Names(declined) = Ids(beyond) \cup Ids(out) \cup Ids(held)
    BY <1>8, <1>9, <1>10, <1>11, <1>12, DecliningNames, JoinNames
  <1> HIDE DEF declined
  <1>14. Names(declined) \cap Ids(due) = {}
    BY <1>8, <1>9, <1>10, <1>13
  <1>15. ASSUME NEW i \in DOMAIN file, file[i].id \notin Names(declined)
         PROVE  \E j \in DOMAIN due : due[j] = file[i]
    <2>1. PICK a \in DOMAIN affordable : affordable[a] = file[i]
      BY <1>5, <1>8, <1>13, <1>15
    <2>2. PICK b \in DOMAIN run : run[b] = file[i]
      BY <1>6, <1>9, <1>13, <1>15, <2>1
    <2> QED
      BY <1>7, <1>10, <1>13, <1>15, <2>2
  <1> QED
    BY <1>10, <1>13, <1>14, <1>15 DEF due, declined, run

LEMMA InitParts == Init => PlanParts
  <1> SUFFICES ASSUME Init PROVE PlanParts
    OBVIOUS
  <1>1. PICK file \in MetricFiles, ceiling \in Ceilings, cadence \in Cadences,
             rotation \in Rotations, last \in Memories :
          LET run == CarriedOf(file, ceiling, cadence)
              night == ProfileNight(rotation, HashOfEndpoint)
          IN plan = [due |-> DueOf(run, night), last |-> last, file |-> file,
                     declined |-> DeclinedOf(file, ceiling, cadence) \o HeldOf(run, night)]
    BY DEF Init
  <1> DEFINE run == CarriedOf(file, ceiling, cadence)
             night == ProfileNight(rotation, HashOfEndpoint)
  <1>2. /\ Due = DueOf(run, night) /\ plan.file = file
        /\ plan.declined = DeclinedOf(file, ceiling, cadence) \o HeldOf(run, night)
    BY <1>1 DEF Due
  <1> QED
    BY <1>2, FilesAreParted DEF PlanParts

(***************************************************************************)
(* Where the probing stands: which of the definitions due have a row by    *)
(* then, and which a reason.                                               *)
(***************************************************************************)
Dispatched(due, n) ==
  {due[i].id : i \in {j \in DOMAIN due : j < n /\ DispatchedPerMetric(due[j].kind)}}

OfKind(due, kind, n) == {due[i].id : i \in {j \in DOMAIN due : j < n /\ due[j].kind = kind}}
Passes(due, n) == OfKind(due, "ClassProfile", n)

End == Len(Due) + 1

PassesTold(due, account, n) ==
  /\ Names(account.notMeasured) \subseteq Passes(due, n)
  /\ \A id \in Passes(due, n) : id \in Names(account.notMeasured) \/ account.enumerated

Told(due, account) ==
  /\ Names(account.rows) \cup Names(account.notMeasured) \subseteq Ids(due)
  /\ Names(account.rows) \cap Names(account.notMeasured) = {}
  /\ \A i \in DOMAIN due : \/ due[i].id \in Names(account.rows) \cup Names(account.notMeasured)
                           \/ account.enumerated /\ due[i].kind = "ClassProfile"

Standing ==
  /\ pc \in {"liveness", "describing", "measuring", "enumerating", "profiling", "deriving",
             "done", "expired", "lost"}
  /\ pc = "liveness" => FirstOfKind("Liveness", 1) # None
  /\ pc \in {"liveness", "describing", "lost"} => acc = Nothing
  /\ pc = "measuring" =>
       /\ at \in 1..End /\ Names(acc.rows) = Dispatched(Due, at)
       /\ acc.notMeasured = <<>> /\ acc.profiles = <<>> /\ ~acc.enumerated
  /\ pc \in {"enumerating", "profiling", "deriving", "expired"} =>
       Names(acc.rows) = Dispatched(Due, End)
  /\ pc \in {"enumerating", "profiling"} =>
       at \in DOMAIN Due /\ Due[at].kind = "ClassProfile" /\ PassesTold(Due, acc, at)
  /\ pc = "profiling" => acc.enumerated
  /\ pc = "deriving" => PassesTold(Due, acc, End)
  /\ pc = "expired" => Names(acc.notMeasured) \subseteq Passes(Due, End)
  /\ pc = "done" => Told(Due, acc)

Accounted ==
  /\ PlanParts
  /\ DOMAIN acc = DOMAIN Nothing
  /\ NamesOnce(acc.rows) /\ NamesOnce(acc.notMeasured)
  /\ acc.profiles # <<>> => acc.enumerated
  /\ Standing

Less == OpToRel(<, Nat)

LEMMA HasSmallest ==
  ASSUME NEW S \in SUBSET Nat, S # {}
  PROVE  \E s \in S : \A t \in S : s <= t
  <1>1. IsWellFoundedOn(Less, Nat)
    BY NatLessThanWellFounded DEF Less
  <1>2. PICK s \in S : \A t \in S : ~(<<t, s>> \in Less)
    BY <1>1, WFMin
  <1>3. ASSUME NEW t \in S PROVE s <= t
    <2>1. s \in Nat /\ t \in Nat
      OBVIOUS
    <2>2. <<t, s>> \in Less <=> t < s
      BY <2>1 DEF Less, OpToRel
    <2> QED
      BY <1>2, <2>1, <2>2
  <1> QED
    BY <1>3

LEMMA FirstIsFirst ==
  ASSUME PlanParts, NEW kind, NEW from \in Nat
  PROVE  LET first == FirstOfKind(kind, from) IN
         IF first = None THEN \A i \in from..Len(Due) : Due[i].kind # kind
         ELSE /\ first \in from..Len(Due) /\ Due[first].kind = kind
              /\ \A i \in from..Len(Due) : Due[i].kind = kind => first <= i
  <1> DEFINE found == {i \in from..Len(Due) : Due[i].kind = kind}
             first == FirstOfKind(kind, from)
  <1>1. Len(Due) \in Nat
    BY DEF PlanParts, Loaded
  <1>2. found \in SUBSET Nat
    BY <1>1
  <1>3. CASE found = {}
    BY <1>3 DEF FirstOfKind
  <1>4. CASE found # {}
    <2>1. \E i \in found : \A j \in found : i <= j
      BY <1>2, <1>4, HasSmallest
    <2>2. first = CHOOSE i \in found : \A j \in found : i <= j
      BY <1>4 DEF FirstOfKind
    <2>3. first \in found /\ \A j \in found : first <= j
      BY <2>1, <2>2
    <2>4. first # None
      BY <1>2, <2>3, NoneAssumption
    <2> QED
      BY <2>3, <2>4
  <1> QED
    BY <1>3, <1>4

LEMMA NobodyIsAskedYet ==
  ASSUME NEW due, Loaded(due)
  PROVE  Dispatched(due, 1) = {} /\ \A kind : OfKind(due, kind, 1) = {}
  BY DEF Dispatched, OfKind, Loaded

LEMMA OneMore ==
  ASSUME NEW due, Loaded(due), NEW n \in DOMAIN due
  PROVE  /\ Dispatched(due, n + 1) = Dispatched(due, n) \cup
              (IF DispatchedPerMetric(due[n].kind) THEN {due[n].id} ELSE {})
         /\ \A kind : OfKind(due, kind, n + 1) = OfKind(due, kind, n) \cup
              (IF due[n].kind = kind THEN {due[n].id} ELSE {})
         /\ due[n].id \notin Dispatched(due, n) /\ \A kind : due[n].id \notin OfKind(due, kind, n)
  <1>1. Len(due) \in Nat /\ DOMAIN due = 1..Len(due) /\ n \in Nat
    BY DEF Loaded
  <1>2. \A j \in DOMAIN due : (j < n + 1 <=> j < n \/ j = n) /\ ~(n < n)
    BY <1>1
  <1>3. \A j \in DOMAIN due : due[j].id = due[n].id => j = n
    BY DEF Loaded
  <1> QED
    BY <1>2, <1>3 DEF Dispatched, OfKind

LEMMA KindsApart ==
  ASSUME NEW due, Loaded(due), NEW n
  PROVE  /\ Dispatched(due, n) \subseteq Ids(due) /\ \A kind : OfKind(due, kind, n) \subseteq Ids(due)
         /\ \A kind, m : ~DispatchedPerMetric(kind) => Dispatched(due, n) \cap OfKind(due, kind, m) = {}
         /\ \A kind, other, m : kind # other => OfKind(due, kind, n) \cap OfKind(due, other, m) = {}
         /\ \A i \in DOMAIN due :
              \/ due[i].id \in Dispatched(due, Len(due) + 1)
              \/ due[i].id \in OfKind(due, "ClassProfile", Len(due) + 1)
              \/ due[i].id \in OfKind(due, "VocabularyDescribed", Len(due) + 1)
  <1>1. Dispatched(due, n) \subseteq Ids(due) /\ \A kind : OfKind(due, kind, n) \subseteq Ids(due)
    BY DEF Dispatched, OfKind, Ids
  <1>2. \A i, j \in DOMAIN due : due[i].id = due[j].id => i = j
    BY DEF Loaded
  <1>3. ASSUME NEW kind, NEW m, ~DispatchedPerMetric(kind)
        PROVE  Dispatched(due, n) \cap OfKind(due, kind, m) = {}
    BY <1>2, <1>3 DEF Dispatched, OfKind
  <1>4. ASSUME NEW kind, NEW other, NEW m, kind # other
        PROVE  OfKind(due, kind, n) \cap OfKind(due, other, m) = {}
    BY <1>2, <1>4 DEF OfKind
  <1>5. ASSUME NEW i \in DOMAIN due
        PROVE  \/ due[i].id \in Dispatched(due, Len(due) + 1)
               \/ due[i].id \in OfKind(due, "ClassProfile", Len(due) + 1)
               \/ due[i].id \in OfKind(due, "VocabularyDescribed", Len(due) + 1)
    <2>1. i < Len(due) + 1
      BY DEF Loaded
    <2> QED
      BY <2>1 DEF Dispatched, OfKind, DispatchedPerMetric
  <1> QED
    BY <1>1, <1>3, <1>4, <1>5

LEMMA PlanStays ==
  ASSUME PlanParts, plan' = plan
  PROVE  PlanParts' /\ Due' = Due /\ End' = End
  BY DEF PlanParts, Due, End

\* Of one kind, kept of the definitions due.
LEMMA KeptOfKind ==
  ASSUME PlanParts, NEW kind
  PROVE  LET kept == Kept(Due, {i \in DOMAIN Due : Due[i].kind = kind}) IN
         Loaded(kept) /\ IsList(kept) /\ Ids(kept) = OfKind(Due, kind, End)
  <1> DEFINE I == {i \in DOMAIN Due : Due[i].kind = kind}
  <1>1. Loaded(Due) /\ I \in SUBSET DOMAIN Due
    BY DEF PlanParts
  <1>2. /\ Loaded(Kept(Due, I)) /\ IsList(Kept(Due, I))
        /\ Ids(Kept(Due, I)) = {Due[i].id : i \in I}
    BY <1>1, KeptIsLoaded
  <1>3. \A i \in DOMAIN Due : i < End
    BY <1>1 DEF Loaded, End
  <1> QED
    BY <1>2, <1>3 DEF OfKind

(***************************************************************************)
(* The account is kept, request by request.  First what several requests   *)
(* do: add a row, and go on to the next pass.                              *)
(***************************************************************************)
LEMMA ARowIsTold ==
  ASSUME Accounted, pc = "measuring", at \in DOMAIN Due, DispatchedPerMetric(Due[at].kind),
         plan' = plan, pc' = pc, at' = at + 1, DOMAIN acc' = DOMAIN acc,
         NEW row, row.metric = Due[at].id, acc'.rows = Append(acc.rows, row),
         acc'.notMeasured = acc.notMeasured, acc'.profiles = acc.profiles,
         acc'.enumerated = acc.enumerated
  PROVE  Accounted'
  <1>1. PlanParts' /\ Due' = Due /\ End' = End /\ Loaded(Due)
    BY PlanStays DEF Accounted, PlanParts
  <1>2. Names(acc.rows) = Dispatched(Due, at)
    BY DEF Accounted, Standing
  <1>3. /\ Dispatched(Due, at + 1) = Dispatched(Due, at) \cup {Due[at].id}
        /\ Due[at].id \notin Dispatched(Due, at)
    BY <1>1, OneMore
  <1>4. NamesOnce(acc'.rows) /\ Names(acc'.rows) = Dispatched(Due, at + 1)
    <2>1. NamesOnce(acc.rows) /\ row.metric \notin Names(acc.rows)
      BY <1>2, <1>3 DEF Accounted
    <2>2. /\ NamesOnce(Append(acc.rows, row))
          /\ Names(Append(acc.rows, row)) = Names(acc.rows) \cup {row.metric}
      BY <2>1, AppendNames
    <2> QED
      BY <1>2, <1>3, <2>2
  <1>5. at + 1 \in 1..End
    BY <1>1 DEF Loaded, End
  <1>6. Standing'
    BY <1>1, <1>4, <1>5 DEF Accounted, Standing
  <1> QED
    BY <1>1, <1>4, <1>6 DEF Accounted

LEMMA OnToTheNextPass ==
  ASSUME PlanParts, plan' = plan, NEW from \in 1..End, Profiling(from),
         Names(acc'.rows) = Dispatched(Due, End), PassesTold(Due, acc', from)
  PROVE  Standing'
  <1> DEFINE next == FirstOfKind("ClassProfile", from)
  <1>1. /\ Due' = Due /\ End' = End /\ Loaded(Due) /\ Len(Due) \in Nat /\ DOMAIN Due = 1..Len(Due)
        /\ End = Len(Due) + 1 /\ from \in Nat /\ 1 <= from
    BY PlanStays DEF PlanParts, Loaded, End
  <1>2. CASE next = None
    <2>1. \A i \in DOMAIN Due : Due[i].kind = "ClassProfile" => i < from
      BY <1>1, <1>2, FirstIsFirst
    <2>2. Passes(Due, End) = Passes(Due, from)
      BY <1>1, <2>1 DEF Passes, OfKind
    <2>3. pc' = "deriving"
      BY <1>2 DEF Profiling
    <2> QED
      BY <1>1, <2>2, <2>3 DEF Standing, PassesTold
  <1>3. CASE next # None
    <2>1. /\ next \in DOMAIN Due /\ from <= next /\ Due[next].kind = "ClassProfile"
          /\ \A i \in DOMAIN Due : Due[i].kind = "ClassProfile" /\ i < next => i < from
      BY <1>1, <1>3, FirstIsFirst
    <2>2. Passes(Due, next) = Passes(Due, from)
      BY <1>1, <2>1 DEF Passes, OfKind
    <2>3. pc' = "enumerating" /\ at' = next
      BY <1>3 DEF Profiling
    <2> QED
      BY <1>1, <2>1, <2>2, <2>3 DEF Standing, PassesTold
  <1> QED
    BY <1>2, <1>3

LEMMA FindUnreachableAccounts ==
  ASSUME Accounted, FindUnreachable
  PROVE  Accounted'
  <1> DEFINE first == FirstOfKind("Liveness", 1)
             live == Due[first]
             Others == {i \in DOMAIN Due : Due[i].id # live.id}
             others == Kept(Due, Others)
  <1>1. PlanParts' /\ Due' = Due /\ End' = End /\ Loaded(Due)
    BY PlanStays DEF Accounted, PlanParts, FindUnreachable
  <1>2. first \in DOMAIN Due /\ acc = Nothing
    <2>1. pc = "liveness"
      BY DEF FindUnreachable
    <2>2. first # None /\ PlanParts
      BY <2>1 DEF Accounted, Standing
    <2>3. first \in 1..Len(Due)
      BY <2>2, FirstIsFirst
    <2> QED
      BY <1>1, <2>1, <2>3 DEF Accounted, Standing, Loaded
  <1>3. PICK row : row.metric = live.id /\ acc'.rows = <<row>>
    BY <1>2 DEF FindUnreachable, Row, Nothing
  <1>4. /\ acc'.notMeasured = Declining(others, "liveness-failed") /\ DOMAIN acc' = DOMAIN acc
        /\ acc'.profiles = acc.profiles /\ acc'.profiles = <<>>
    BY <1>2 DEF FindUnreachable, Nothing
  <1>5. NamesOnce(acc'.rows) /\ Names(acc'.rows) = {live.id}
    <2>1. <<row>> = Append(<<>>, row)
      OBVIOUS
    <2>2. row.metric \notin Names(<<>>) /\ NamesOnce(<<>>)
      BY EmptyListNames
    <2>3. NamesOnce(Append(<<>>, row)) /\ Names(Append(<<>>, row)) = Names(<<>>) \cup {row.metric}
      BY <2>2, AppendNames
    <2> QED
      BY <1>3, <2>1, <2>3, EmptyListNames
  <1>6. Loaded(others) /\ Ids(others) = {Due[i].id : i \in Others}
    BY <1>1, KeptIsLoaded
  <1>7. NamesOnce(acc'.notMeasured) /\ Names(acc'.notMeasured) = Ids(others)
    BY <1>4, <1>6, DecliningNames
  <1>8. Told(Due, acc')
    BY <1>2, <1>5, <1>6, <1>7 DEF Told, Ids
  <1>9. pc' = "done"
    BY DEF FindUnreachable
  <1>10. Standing'
    BY <1>1, <1>8, <1>9 DEF Standing
  <1> QED
    BY <1>1, <1>4, <1>5, <1>7, <1>10 DEF Accounted

LEMMA FirstRequestsAccount ==
  ASSUME Accounted, FindReachable \/ FetchDescription
  PROVE  Accounted'
  <1>1. PlanParts' /\ Due' = Due /\ End' = End /\ Loaded(Due)
    BY PlanStays DEF Accounted, PlanParts, FindReachable, FetchDescription
  <1>2. acc = Nothing
    BY DEF Accounted, Standing, FindReachable, FetchDescription
  <1>3. CASE FindReachable
    BY <1>1, <1>2, <1>3, EmptyListNames DEF Accounted, Standing, FindReachable
  <1>4. CASE FetchDescription
    <2>1. /\ acc'.rows = <<>> /\ acc'.notMeasured = <<>> /\ acc'.profiles = <<>>
          /\ ~acc'.enumerated /\ DOMAIN acc' = DOMAIN Nothing
      BY <1>2, <1>4 DEF FetchDescription, Nothing
    <2>2. pc' = "measuring" /\ at' = 1
      BY <1>4 DEF FetchDescription
    <2>3. 1 \in 1..End
      BY <1>1 DEF Loaded, End
    <2>4. Names(acc'.rows) = Dispatched(Due, 1)
      BY <1>1, <2>1, EmptyListNames, NobodyIsAskedYet
    <2>5. Standing'
      BY <1>1, <2>1, <2>2, <2>3, <2>4 DEF Standing
    <2> QED
      BY <1>1, <2>1, <2>5, EmptyListNames DEF Accounted
  <1> QED
    BY <1>3, <1>4

LEMMA MeasuringIsAt ==
  ASSUME Accounted, Measuring
  PROVE  at \in DOMAIN Due /\ pc = "measuring"
  BY DEF Accounted, PlanParts, Loaded, Standing, Measuring, End

LEMMA MeasuredAddsARow ==
  ASSUME DOMAIN acc = DOMAIN Nothing, NEW def, NEW o, acc' = Measured(def, o)
  PROVE  /\ DOMAIN acc' = DOMAIN acc /\ acc'.notMeasured = acc.notMeasured
         /\ acc'.profiles = acc.profiles /\ acc'.enumerated = acc.enumerated
         /\ acc'.described = acc.described
         /\ \E counts : acc'.rows = Append(acc.rows,
              Row(def, Resolve(def, Declared(acc.described, def), o), None, counts[1], counts[2], o))
         /\ acc'.samples = IF MaySample(def, Resolve(def, Declared(acc.described, def), o), o)
                           THEN Append(acc.samples, SampleOf(def, o.bindings)) ELSE acc.samples
  BY DEF Measured, Nothing

LEMMA RatingAddsARow ==
  ASSUME DOMAIN acc = DOMAIN Nothing, RateDescription
  PROVE  /\ DOMAIN acc' = DOMAIN acc /\ acc'.notMeasured = acc.notMeasured
         /\ acc'.profiles = acc.profiles /\ acc'.enumerated = acc.enumerated
         /\ acc'.samples = acc.samples
         /\ \E level, o : acc'.rows = Append(acc.rows,
              Row(Due[at], ResolveFetch(acc.described, Observing(fetched, FetchRdf(fetched))).verdict,
                  level, None, None, o))
  BY DEF RateDescription, Nothing

LEMMA MeasuringAccounts ==
  ASSUME Accounted, RateDescription \/ MeasureLiveness \/ AskMetric
  PROVE  Accounted'
  <1>1. DOMAIN acc = DOMAIN Nothing
    BY DEF Accounted
  <1>2. at \in DOMAIN Due /\ pc = "measuring"
    BY MeasuringIsAt DEF RateDescription, MeasureLiveness, AskMetric
  <1>3. plan' = plan /\ pc' = pc /\ at' = at + 1
    BY DEF RateDescription, MeasureLiveness, AskMetric
  <1>4. DispatchedPerMetric(Due[at].kind)
    BY DEF RateDescription, MeasureLiveness, AskMetric, Asks, AskedPerMetric, UsePrefetched,
           DispatchedPerMetric
  <1>5. \E row : /\ row.metric = Due[at].id /\ acc'.rows = Append(acc.rows, row)
                 /\ DOMAIN acc' = DOMAIN acc /\ acc'.notMeasured = acc.notMeasured
                 /\ acc'.profiles = acc.profiles /\ acc'.enumerated = acc.enumerated
    <2>1. CASE RateDescription
      BY <1>1, <2>1, RatingAddsARow DEF Row
    <2>2. ASSUME NEW o, acc' = Measured(Due[at], o)
          PROVE  \E row : /\ row.metric = Due[at].id /\ acc'.rows = Append(acc.rows, row)
                          /\ DOMAIN acc' = DOMAIN acc /\ acc'.notMeasured = acc.notMeasured
                          /\ acc'.profiles = acc.profiles /\ acc'.enumerated = acc.enumerated
      BY <1>1, <2>2, MeasuredAddsARow DEF Row
    <2> QED
      BY <2>1, <2>2 DEF MeasureLiveness, AskMetric
  <1> QED
    BY <1>2, <1>3, <1>4, <1>5, ARowIsTold

LEMMA PassOverAccounts ==
  ASSUME Accounted, PassOver
  PROVE  Accounted'
  <1>1. PlanParts' /\ Due' = Due /\ End' = End /\ Loaded(Due)
    BY PlanStays DEF Accounted, PlanParts, PassOver
  <1>2. at \in DOMAIN Due /\ pc = "measuring"
    BY MeasuringIsAt DEF PassOver
  <1>3. /\ ~DispatchedPerMetric(Due[at].kind)
        /\ pc' = pc /\ acc' = acc /\ at' = at + 1
    BY DEF PassOver
  <1>4. Dispatched(Due, at + 1) = Dispatched(Due, at)
    BY <1>1, <1>2, <1>3, OneMore
  <1>5. at + 1 \in 1..End
    BY <1>1, <1>2 DEF Loaded, End
  <1>6. Standing'
    BY <1>1, <1>2, <1>3, <1>4, <1>5 DEF Accounted, Standing
  <1> QED
    BY <1>1, <1>3, <1>6 DEF Accounted

LEMMA MeasurementsAreDone ==
  ASSUME Accounted, Measurements
  PROVE  /\ Names(acc.rows) = Dispatched(Due, End) /\ acc.notMeasured = <<>>
         /\ acc.profiles = <<>> /\ ~acc.enumerated /\ pc = "measuring"
  <1>1. at = End
    BY DEF Accounted, Standing, Measurements, PlanParts, Loaded, End
  <1> QED
    BY <1>1 DEF Accounted, Standing, Measurements

LEMMA PassTheGateAccounts ==
  ASSUME Accounted, PassTheGate
  PROVE  Accounted'
  <1>1. PlanParts /\ Loaded(Due) /\ plan' = plan /\ acc' = acc /\ Profiling(1)
    BY DEF Accounted, PlanParts, PassTheGate
  <1>2. Names(acc.rows) = Dispatched(Due, End) /\ acc.notMeasured = <<>>
    BY MeasurementsAreDone DEF PassTheGate
  <1>3. 1 \in 1..End
    BY <1>1 DEF Loaded, End
  <1>4. PassesTold(Due, acc', 1)
    BY <1>1, <1>2, NobodyIsAskedYet, EmptyListNames DEF PassesTold, Passes
  <1>5. Standing'
    BY <1>1, <1>2, <1>3, <1>4, OnToTheNextPass
  <1> QED
    BY <1>1, <1>5, PlanStays DEF Accounted

LEMMA StopAtTheGateAccounts ==
  ASSUME Accounted, StopAtTheGate
  PROVE  Accounted'
  <1> DEFINE passes == Kept(Due, {i \in DOMAIN Due : Due[i].kind = "ClassProfile"})
             derived == Kept(Due, {i \in DOMAIN Due : Due[i].kind = "VocabularyDescribed"})
             facts == Declining(passes, "unchanged") \o Declining(derived, "unchanged")
  <1>1. PlanParts /\ PlanParts' /\ Due' = Due /\ End' = End /\ Loaded(Due)
    BY PlanStays DEF Accounted, PlanParts, StopAtTheGate
  <1>2. /\ Names(acc.rows) = Dispatched(Due, End) /\ acc.notMeasured = <<>>
        /\ acc.profiles = <<>> /\ ~acc.enumerated
    BY MeasurementsAreDone DEF StopAtTheGate
  <1>3. /\ acc'.notMeasured = (<<>> \o Declining(passes, "unchanged")) \o Declining(derived, "unchanged")
        /\ acc'.rows = acc.rows /\ acc'.profiles = acc.profiles /\ DOMAIN acc' = DOMAIN acc
    BY <1>2 DEF StopAtTheGate, Accounted, Nothing
  <1>4. /\ Loaded(passes) /\ Ids(passes) = Passes(Due, End)
        /\ Loaded(derived) /\ Ids(derived) = OfKind(Due, "VocabularyDescribed", End)
    BY <1>1, KeptOfKind DEF Passes
  <1> HIDE DEF passes, derived
  <1>5. /\ NamesOnce(Declining(passes, "unchanged")) /\ NamesOnce(Declining(derived, "unchanged"))
        /\ Names(Declining(passes, "unchanged")) = Passes(Due, End)
        /\ Names(Declining(derived, "unchanged")) = OfKind(Due, "VocabularyDescribed", End)
    BY <1>4, DecliningNames
  <1>6. /\ NamesOnce(<<>> \o Declining(passes, "unchanged"))
        /\ Names(<<>> \o Declining(passes, "unchanged")) = Passes(Due, End)
    BY <1>5, EmptyListNames, JoinNames
  <1>7. Passes(Due, End) \cap OfKind(Due, "VocabularyDescribed", End) = {}
    BY <1>1, KindsApart DEF Passes
  <1>8. /\ NamesOnce(acc'.notMeasured)
        /\ Names(acc'.notMeasured) = Passes(Due, End) \cup OfKind(Due, "VocabularyDescribed", End)
    BY <1>3, <1>5, <1>6, <1>7, JoinNames
  <1>9. Told(Due, acc')
    <2>1. /\ Names(acc'.rows) \cup Names(acc'.notMeasured) \subseteq Ids(Due)
          /\ \A i \in DOMAIN Due : Due[i].id \in Names(acc'.rows) \cup Names(acc'.notMeasured)
      BY <1>1, <1>2, <1>3, <1>8, KindsApart DEF Passes, End
    <2>2. Names(acc'.rows) \cap Names(acc'.notMeasured) = {}
      <3>1. /\ ~DispatchedPerMetric("ClassProfile") /\ ~DispatchedPerMetric("VocabularyDescribed")
        BY DEF DispatchedPerMetric
      <3>2. /\ Dispatched(Due, End) \cap Passes(Due, End) = {}
            /\ Dispatched(Due, End) \cap OfKind(Due, "VocabularyDescribed", End) = {}
        BY <1>1, <3>1, KindsApart DEF Passes
      <3> QED
        BY <1>2, <1>3, <1>8, <3>2
    <2> QED
      BY <2>1, <2>2 DEF Told
  <1>10. Standing'
    BY <1>1, <1>9 DEF Standing, StopAtTheGate
  <1> QED
    BY <1>1, <1>2, <1>3, <1>8, <1>10 DEF Accounted

LEMMA EnumerateAccounts ==
  ASSUME Accounted, Enumerate
  PROVE  Accounted'
  <1>1. PlanParts /\ plan' = plan /\ PlanParts' /\ Due' = Due /\ End' = End /\ Loaded(Due)
    BY PlanStays DEF Accounted, PlanParts, Enumerate
  <1>2. /\ pc = "enumerating" /\ at \in DOMAIN Due /\ Due[at].kind = "ClassProfile"
        /\ Names(acc.rows) = Dispatched(Due, End) /\ PassesTold(Due, acc, at)
        /\ DOMAIN acc = DOMAIN Nothing /\ NamesOnce(acc.rows) /\ NamesOnce(acc.notMeasured)
        /\ acc.profiles # <<>> => acc.enumerated
    BY DEF Accounted, Standing, Enumerate
  <1>3. at + 1 \in 1..End
    BY <1>1, <1>2 DEF Loaded, End
  <1>4. /\ Passes(Due, at + 1) = Passes(Due, at) \cup {Due[at].id}
        /\ Due[at].id \notin Passes(Due, at)
    BY <1>1, <1>2, OneMore DEF Passes
  <1> DEFINE fact == Fact(Due[at], "enumeration-failed")
             Failing == /\ acc' = [acc EXCEPT !.notMeasured = Append(@, fact),
                                     !.unreached = Append(@, [metric |-> Due[at].id, classes |-> <<>>])]
                        /\ Profiling(at + 1)
             Finding(o) == /\ acc' = [acc EXCEPT !.enumerated = TRUE,
                                        !.samples = IF Due[at].sampleLimit = None THEN @
                                                    ELSE Append(@, SampleOf(Due[at], o.bindings))]
                           /\ pc' = "profiling" /\ at' = at
  <1>5. \/ Failing
        \/ acc' = [acc EXCEPT !.enumerated = TRUE] /\ Profiling(at + 1)
        \/ \E o : Finding(o)
    BY DEF Enumerate
  <1>6. CASE Failing
    <2>1. /\ acc'.notMeasured = Append(acc.notMeasured, fact) /\ acc'.rows = acc.rows
          /\ acc'.profiles = acc.profiles /\ acc'.enumerated = acc.enumerated
          /\ DOMAIN acc' = DOMAIN acc
      BY <1>2, <1>6 DEF Nothing
    <2>2. fact.metric = Due[at].id
      BY DEF Fact
    <2> HIDE DEF fact
    <2>3. fact.metric \notin Names(acc.notMeasured)
      BY <1>2, <1>4, <2>2 DEF PassesTold
    <2>4. /\ NamesOnce(acc'.notMeasured)
          /\ Names(acc'.notMeasured) = Names(acc.notMeasured) \cup {Due[at].id}
      BY <1>2, <2>1, <2>2, <2>3, AppendNames
    <2>5. PassesTold(Due, acc', at + 1)
      BY <1>2, <1>4, <2>1, <2>4 DEF PassesTold
    <2>6. Standing'
      BY <1>1, <1>2, <1>3, <1>6, <2>1, <2>5, OnToTheNextPass
    <2> QED
      BY <1>1, <1>2, <2>1, <2>4, <2>6 DEF Accounted
  <1>7. CASE acc' = [acc EXCEPT !.enumerated = TRUE] /\ Profiling(at + 1)
    <2>1. /\ acc'.notMeasured = acc.notMeasured /\ acc'.rows = acc.rows
          /\ acc'.profiles = acc.profiles /\ acc'.enumerated /\ DOMAIN acc' = DOMAIN acc
      BY <1>2, <1>7 DEF Nothing
    <2>2. PassesTold(Due, acc', at + 1)
      BY <1>2, <1>4, <2>1 DEF PassesTold
    <2>3. Standing'
      BY <1>1, <1>2, <1>3, <1>7, <2>1, <2>2, OnToTheNextPass
    <2> QED
      BY <1>1, <1>2, <2>1, <2>3 DEF Accounted
  <1>8. ASSUME NEW o, Finding(o) PROVE Accounted'
    <2>1. /\ acc'.notMeasured = acc.notMeasured /\ acc'.rows = acc.rows
          /\ acc'.profiles = acc.profiles /\ acc'.enumerated /\ DOMAIN acc' = DOMAIN acc
      BY <1>2, <1>8 DEF Nothing
    <2>2. PassesTold(Due, acc', at)
      BY <1>2, <2>1 DEF PassesTold
    <2>3. Standing'
      BY <1>1, <1>2, <1>8, <2>1, <2>2 DEF Standing
    <2> QED
      BY <1>1, <1>2, <2>1, <2>3 DEF Accounted
  <1> QED
    BY <1>5, <1>6, <1>7, <1>8

LEMMA AskClassAccounts ==
  ASSUME Accounted, AskClass
  PROVE  Accounted'
  <1>1. PlanParts /\ plan' = plan /\ PlanParts' /\ Due' = Due /\ End' = End /\ Loaded(Due)
    BY PlanStays DEF Accounted, PlanParts, AskClass
  <1>2. /\ pc = "profiling" /\ at \in DOMAIN Due /\ Due[at].kind = "ClassProfile"
        /\ Names(acc.rows) = Dispatched(Due, End) /\ PassesTold(Due, acc, at)
        /\ DOMAIN acc = DOMAIN Nothing /\ acc.enumerated
    BY DEF Accounted, Standing, AskClass
  <1>3. (\E outcome : acc' = Published(outcome) /\ Profiling(at + 1)) \/ UNCHANGED <<acc, pc, at>>
    BY DEF AskClass
  <1>4. ASSUME NEW outcome, acc' = Published(outcome), Profiling(at + 1) PROVE Accounted'
    <2>1. /\ acc'.notMeasured = acc.notMeasured /\ acc'.rows = acc.rows
          /\ acc'.enumerated = acc.enumerated /\ DOMAIN acc' = DOMAIN acc
      BY <1>2, <1>4 DEF Published, Nothing
    <2>2. at + 1 \in 1..End
      BY <1>1, <1>2 DEF Loaded, End
    <2>3. Passes(Due, at + 1) = Passes(Due, at) \cup {Due[at].id}
      BY <1>1, <1>2, OneMore DEF Passes
    <2>4. PassesTold(Due, acc', at + 1)
      BY <1>2, <2>1, <2>3 DEF PassesTold
    <2>5. Standing'
      BY <1>1, <1>2, <1>4, <2>1, <2>2, <2>4, OnToTheNextPass
    <2> QED
      BY <1>1, <1>2, <2>1, <2>5 DEF Accounted
  <1>5. CASE UNCHANGED <<acc, pc, at>>
    BY <1>1, <1>2, <1>5 DEF Accounted, Standing
  <1> QED
    BY <1>3, <1>4, <1>5

LEMMA DeriveAccounts ==
  ASSUME Accounted, Derive
  PROVE  Accounted'
  <1> DEFINE derived == Kept(Due, {i \in DOMAIN Due : Due[i].kind = "VocabularyDescribed"})
             found == [i \in DOMAIN acc.profiles |-> acc.profiles[i].class]
             claim == [claimed |-> acc.described.classes # {}, value |-> None]
             graded == [i \in DOMAIN derived |->
                          Row(derived[i], Resolve(derived[i], claim, Derived(found, acc.enumerated)),
                              None, None, None, Expired)]
  <1>1. PlanParts /\ PlanParts' /\ Due' = Due /\ End' = End /\ Loaded(Due)
    BY PlanStays DEF Accounted, PlanParts, Derive
  <1>2. /\ Names(acc.rows) = Dispatched(Due, End) /\ PassesTold(Due, acc, End)
        /\ DOMAIN acc = DOMAIN Nothing /\ NamesOnce(acc.rows)
    BY DEF Accounted, Standing, Derive
  <1>3. /\ acc'.rows = acc.rows \o graded /\ acc'.notMeasured = acc.notMeasured
        /\ acc'.profiles = acc.profiles /\ acc'.enumerated = acc.enumerated
        /\ DOMAIN acc' = DOMAIN acc
    BY <1>2 DEF Derive, Nothing
  <1>4. Loaded(derived) /\ Ids(derived) = OfKind(Due, "VocabularyDescribed", End)
    BY <1>1, KeptOfKind
  <1> HIDE DEF derived, claim, found
  <1>5. /\ graded = [i \in DOMAIN derived |-> graded[i]]
        /\ \A i \in DOMAIN derived : graded[i].metric = derived[i].id
    BY DEF Row
  <1> HIDE DEF graded
  <1>6. NamesOnce(graded) /\ Names(graded) = OfKind(Due, "VocabularyDescribed", End)
    BY <1>4, <1>5, MadeOfDefinitions
  <1>7. /\ ~DispatchedPerMetric("ClassProfile") /\ ~DispatchedPerMetric("VocabularyDescribed")
    BY DEF DispatchedPerMetric
  <1>8. /\ Dispatched(Due, End) \cap OfKind(Due, "VocabularyDescribed", End) = {}
        /\ Dispatched(Due, End) \cap Passes(Due, End) = {}
        /\ OfKind(Due, "VocabularyDescribed", End) \cap Passes(Due, End) = {}
    BY <1>1, <1>7, KindsApart DEF Passes
  <1>9. /\ NamesOnce(acc'.rows)
        /\ Names(acc'.rows) = Dispatched(Due, End) \cup OfKind(Due, "VocabularyDescribed", End)
    BY <1>2, <1>3, <1>6, <1>8, JoinNames
  <1>10. Told(Due, acc')
    <2>1. /\ Names(acc'.rows) \cup Names(acc'.notMeasured) \subseteq Ids(Due)
          /\ Names(acc'.rows) \cap Names(acc'.notMeasured) = {}
      BY <1>1, <1>2, <1>3, <1>8, <1>9, KindsApart DEF Passes, PassesTold
    <2>2. ASSUME NEW i \in DOMAIN Due, Due[i].id \notin Names(acc'.rows) \cup Names(acc'.notMeasured)
          PROVE  acc'.enumerated /\ Due[i].kind = "ClassProfile"
      <3>1. Due[i].id \in Passes(Due, End)
        BY <1>1, <1>9, <2>2, KindsApart DEF Passes, End
      <3>2. Due[i].kind = "ClassProfile"
        BY <1>1, <3>1 DEF Passes, OfKind, Loaded
      <3> QED
        BY <1>2, <1>3, <2>2, <3>1, <3>2 DEF PassesTold
    <2> QED
      BY <2>1, <2>2 DEF Told
  <1>11. Standing'
    BY <1>1, <1>10 DEF Standing, Derive
  <1> QED
    BY <1>1, <1>2, <1>3, <1>9, <1>11 DEF Accounted

LEMMA ExpiryAccounts ==
  ASSUME Accounted, ExpireEndpoint
  PROVE  Accounted'
  <1> DEFINE unmeasured == [i \in DOMAIN Unreached |-> UnmeasuredRow(Unreached[i])]
             I == {i \in DOMAIN Due : /\ DispatchedPerMetric(Due[i].kind)
                                      /\ Due[i].id \notin Names(acc.rows)}
  <1>1. PlanParts /\ PlanParts' /\ Due' = Due /\ End' = End /\ Loaded(Due)
    BY PlanStays DEF Accounted, PlanParts, ExpireEndpoint
  <1>2. /\ DOMAIN acc = DOMAIN Nothing /\ NamesOnce(acc.rows)
        /\ acc'.rows = acc.rows \o unmeasured /\ acc'.notMeasured = acc.notMeasured
        /\ acc'.profiles = acc.profiles /\ acc'.enumerated = acc.enumerated
        /\ DOMAIN acc' = DOMAIN acc
    BY DEF Accounted, ExpireEndpoint, Nothing
  <1>3. Unreached = Kept(Due, I)
    BY DEF Unreached, Names
  <1>4. Loaded(Unreached) /\ Ids(Unreached) = {Due[i].id : i \in I}
    BY <1>1, <1>3, KeptIsLoaded
  <1>5. /\ unmeasured = [i \in DOMAIN Unreached |-> unmeasured[i]]
        /\ \A i \in DOMAIN Unreached : unmeasured[i].metric = Unreached[i].id
    BY DEF UnmeasuredRow, Row
  <1> HIDE DEF unmeasured
  <1>6. NamesOnce(unmeasured) /\ Names(unmeasured) = {Due[i].id : i \in I}
    BY <1>4, <1>5, MadeOfDefinitions
  <1>7. NamesOnce(acc'.rows) /\ Names(acc'.rows) = Names(acc.rows) \cup {Due[i].id : i \in I}
    BY <1>2, <1>6, JoinNames
  <1>8. /\ Names(acc.rows) \subseteq Dispatched(Due, End)
        /\ Names(acc.notMeasured) \subseteq Passes(Due, End)
    <2>1. CASE pc \in {"liveness", "describing"}
      BY <2>1, EmptyListNames DEF Accounted, Standing, Nothing
    <2>2. CASE pc = "measuring"
      <3>1. Names(acc.rows) = Dispatched(Due, at) /\ acc.notMeasured = <<>> /\ at \in 1..End
        BY <2>2 DEF Accounted, Standing
      <3>2. \A j \in DOMAIN Due : j < End
        BY <1>1 DEF Loaded, End
      <3> QED
        BY <3>1, <3>2, EmptyListNames DEF Dispatched
    <2>3. CASE pc \in {"enumerating", "profiling"}
      <3>1. /\ Names(acc.rows) = Dispatched(Due, End) /\ PassesTold(Due, acc, at)
        BY <2>3 DEF Accounted, Standing
      <3>2. \A j \in DOMAIN Due : j < End
        BY <1>1 DEF Loaded, End
      <3> QED
        BY <3>1, <3>2 DEF Passes, OfKind, PassesTold
    <2> QED
      BY <2>1, <2>2, <2>3 DEF ExpireEndpoint, Waiting, Measuring
  <1>9. Names(acc'.rows) = Dispatched(Due, End)
    <2>1. \A j \in DOMAIN Due : j < End
      BY <1>1 DEF Loaded, End
    <2> QED
      BY <1>7, <1>8, <2>1 DEF Dispatched
  <1>10. Standing'
    BY <1>1, <1>2, <1>8, <1>9 DEF Standing, ExpireEndpoint
  <1> QED
    BY <1>1, <1>2, <1>7, <1>10 DEF Accounted

LEMMA PanicAccounts ==
  ASSUME Accounted, Panic
  PROVE  Accounted'
  <1>1. PlanParts' /\ Due' = Due /\ End' = End
    BY PlanStays DEF Accounted, Panic
  <1>2. pc' = "lost" /\ acc' = Nothing
    BY DEF Panic
  <1>3. Standing'
    BY <1>1, <1>2 DEF Standing
  <1> QED
    BY <1>1, <1>2, <1>3, EmptyListNames DEF Accounted, Nothing

LEMMA InitAccounts == Init => Accounted
  <1> SUFFICES ASSUME Init PROVE Accounted
    OBVIOUS
  <1>1. PlanParts
    BY InitParts
  <1>2. pc = Start /\ acc = Nothing
    BY DEF Init
  <1>3. Standing
    BY <1>2 DEF Standing, Start
  <1> QED
    BY <1>1, <1>2, <1>3, EmptyListNames DEF Accounted, Nothing

LEMMA StepAccounts == Accounted /\ [Next]_vars => Accounted'
  <1> SUFFICES ASSUME Accounted, [Next]_vars PROVE Accounted'
    OBVIOUS
  <1>1. CASE UNCHANGED vars
    BY <1>1 DEF vars, Accounted, PlanParts, Standing, Due, End, FirstOfKind
  <1>2. CASE Next
    BY <1>2, FindUnreachableAccounts, FirstRequestsAccount, MeasuringAccounts, PassOverAccounts,
       PassTheGateAccounts, StopAtTheGateAccounts, EnumerateAccounts, AskClassAccounts,
       DeriveAccounts, ExpiryAccounts, PanicAccounts DEF Next
  <1> QED
    BY <1>1, <1>2

LEMMA SpecAccounts == Spec => []Accounted
  BY InitAccounts, StepAccounts, PTL DEF Spec

(***************************************************************************)
(* Every metric of the definitions is accounted for once, whatever the     *)
(* endpoint did, for any definitions that load.                            *)
(***************************************************************************)
LEMMA AccountedIsOnce == Accounted => EveryMetricIsAccountedForOnce
  <1> SUFFICES ASSUME Accounted, Ended, NEW i \in DOMAIN plan.file
               PROVE  LET def == plan.file[i]
                          Accounts(list) == Cardinality({k \in DOMAIN list : list[k].metric = def.id})
                          told == Accounts(Facts.rows) + Accounts(Facts.notMeasured)
                      IN \/ told = 1
                         \/ /\ told = 0
                            /\ \/ pc = "expired" /\ ~DispatchedPerMetric(def.kind)
                               \/ acc.enumerated /\ def.kind = "ClassProfile"
    BY DEF EveryMetricIsAccountedForOnce
  <1> DEFINE def == plan.file[i]
             facts == IF pc = "lost" THEN Declining(Due, "prober-failed") ELSE acc.notMeasured
             Accounts(list) == Cardinality({k \in DOMAIN list : list[k].metric = def.id})
  <1>1. Facts.rows = acc.rows /\ Facts.notMeasured = facts \o plan.declined
    BY DEF Facts
  <1>2. /\ PlanParts /\ Loaded(Due) /\ NamesOnce(plan.declined)
        /\ Names(plan.declined) \cap Ids(Due) = {}
        /\ def.id \in Names(plan.declined) \/ \E j \in DOMAIN Due : Due[j] = def
    BY DEF Accounted, PlanParts
  <1>3. /\ NamesOnce(facts) /\ NamesOnce(acc.rows) /\ Names(facts) \subseteq Ids(Due)
        /\ Names(acc.rows) \subseteq Ids(Due) /\ Names(facts) \cap Names(acc.rows) = {}
        /\ \A j \in DOMAIN Due :
             \/ Due[j].id \in Names(acc.rows) \cup Names(facts)
             \/ pc = "expired" /\ ~DispatchedPerMetric(Due[j].kind)
             \/ acc.enumerated /\ Due[j].kind = "ClassProfile"
    <2>1. CASE pc = "lost"
      <3>1. acc.rows = <<>> /\ facts = Declining(Due, "prober-failed")
        BY <2>1 DEF Accounted, Standing, Nothing
      <3>2. NamesOnce(facts) /\ Names(facts) = Ids(Due)
        BY <1>2, <3>1, DecliningNames
      <3> QED
        BY <3>1, <3>2, EmptyListNames DEF Ids
    <2>2. CASE pc = "done"
      BY <2>2 DEF Accounted, Standing, Told
    <2>3. CASE pc = "expired"
      <3>1. /\ facts = acc.notMeasured /\ Names(acc.rows) = Dispatched(Due, End)
            /\ Names(facts) \subseteq Passes(Due, End)
        BY <2>3 DEF Accounted, Standing
      <3>2. ~DispatchedPerMetric("ClassProfile")
        BY DEF DispatchedPerMetric
      <3>3. /\ Dispatched(Due, End) \cap Passes(Due, End) = {}
            /\ Dispatched(Due, End) \subseteq Ids(Due) /\ Passes(Due, End) \subseteq Ids(Due)
        BY <1>2, <3>2, KindsApart DEF Passes
      <3>4. \A j \in DOMAIN Due : j < End
        BY <1>2 DEF Loaded, End
      <3>5. \A j \in DOMAIN Due : DispatchedPerMetric(Due[j].kind) => Due[j].id \in Dispatched(Due, End)
        BY <3>4 DEF Dispatched
      <3> QED
        BY <2>3, <3>1, <3>3, <3>5 DEF Accounted
    <2> QED
      BY <2>1, <2>2, <2>3 DEF Ended
  <1> HIDE DEF facts
  <1>4. /\ NamesOnce(facts \o plan.declined)
        /\ Names(facts \o plan.declined) = Names(facts) \cup Names(plan.declined)
    <2>1. Names(facts) \cap Names(plan.declined) = {}
      BY <1>2, <1>3
    <2> QED
      BY <1>2, <1>3, <2>1, JoinNames
  <1>5. /\ Accounts(Facts.rows) = IF def.id \in Names(acc.rows) THEN 1 ELSE 0
        /\ Accounts(Facts.notMeasured)
             = IF def.id \in Names(facts) \cup Names(plan.declined) THEN 1 ELSE 0
    <2> HIDE DEF def
    <2>1. ASSUME NEW list, NamesOnce(list)
          PROVE  Accounts(list) = IF def.id \in Names(list) THEN 1 ELSE 0
      BY <2>1, NamesAreCounted
    <2> HIDE DEF Accounts
    <2> QED
      BY <1>1, <1>3, <1>4, <2>1
  <1> HIDE DEF Accounts, def
  <1>6. ASSUME def.id \in Names(plan.declined)
        PROVE  Accounts(Facts.rows) + Accounts(Facts.notMeasured) = 1
    <2>1. def.id \notin Names(acc.rows)
      BY <1>2, <1>3, <1>6
    <2> QED
      BY <1>5, <1>6, <2>1
  <1>7. ASSUME NEW j \in DOMAIN Due, Due[j] = def
        PROVE  \/ Accounts(Facts.rows) + Accounts(Facts.notMeasured) = 1
               \/ /\ Accounts(Facts.rows) + Accounts(Facts.notMeasured) = 0
                  /\ \/ pc = "expired" /\ ~DispatchedPerMetric(def.kind)
                     \/ acc.enumerated /\ def.kind = "ClassProfile"
    <2>1. def.id \in Ids(Due) /\ def.id \notin Names(plan.declined)
      BY <1>2, <1>7 DEF Ids
    <2> QED
      BY <1>3, <1>5, <1>7, <2>1
  <1> QED
    BY <1>2, <1>6, <1>7 DEF def, Accounts

(***************************************************************************)
(* Wherever the probing of an endpoint ends, done, expired or lost, every  *)
(* definition of the file has one row or one reason for having none; only  *)
(* a pass that enumerated, or what is no metric of its own when the budget *)
(* expires, may have neither.                                              *)
(***************************************************************************)
THEOREM AllIsAccountedFor == Spec => []EveryMetricIsAccountedForOnce
  BY SpecAccounts, AccountedIsOnce, PTL

(***************************************************************************)
(* A row rests on what was heard.                                          *)
(***************************************************************************)
BodyReadings(r) == {GetWithBody(r), FetchRdf(r), SelectIris(r), LiteralAttempt(r)}

\* Only of an OPTIONS is a page not marked as one.
LEMMA PagesAreMarked ==
  ASSUME NEW r, r # NoResponse, r.html, NEW o \in BodyReadings(r)
  PROVE  o # Preflight(r)
  <1>1. Preflight(r).bodyKind = "None"
    BY DEF Preflight, Blank
  <1>2. GetWithBody(r).bodyKind = "Html" /\ FetchRdf(r).bodyKind = "Html"
    BY DEF GetWithBody, FetchRdf, Blank
  <1>3. SelectIris(r).bodyKind = "Html" /\ LiteralAttempt(r).bodyKind = "Html"
    BY <1>2 DEF SelectIris, LiteralAttempt
  <1> QED
    BY <1>1, <1>2, <1>3 DEF BodyReadings

LEMMA AnAnswerIsRestedOn ==
  ASSUME NEW def, NEW declared, NEW r, NEW o, Asked(def),
         IF def.kind = "CorsPreflight" THEN o = Preflight(r) ELSE o \in BodyReadings(r)
  PROVE  LET verdict == Resolve(def, declared, o) IN
         /\ verdict \in Positive => r # NoResponse /\ (Well(r, def.kind) \/ Grants(r, def.kind))
         /\ verdict \in Negative => r # NoResponse /\ (Well(r, def.kind) \/ Denies(r, def.kind))
  <1> DEFINE verdict == Resolve(def, declared, o)
  <1>1. o \in Readings(r)
    BY DEF Readings, BodyReadings
  <1>2. /\ verdict \in Positive =>
             /\ r # NoResponse
             /\ r.status \in 200..299 \/ (def.kind = "Cors" /\ r.cors)
        /\ verdict \in Negative =>
             /\ r # NoResponse
             /\ \/ r.status \in 200..299
                \/ def.kind = "FetchVoid" /\ r.status \in {404, 410}
                \/ def.kind = "CorsPreflight" /\ r.status \in {405, 501}
    BY <1>1, VerdictsNeedAnswers
  <1>3. CASE def.kind = "CorsPreflight"
    BY <1>2, <1>3 DEF Well, Denies
  <1>4. CASE def.kind # "CorsPreflight" /\ r # NoResponse /\ r.html
    <2>1. o # Preflight(r) /\ o.status = r.status
      BY <1>1, <1>4, PagesAreMarked, ReadingsKeep
    <2>2. CASE MissingDocument(def, o)
      <3>1. Denies(r, def.kind)
        BY <2>1, <2>2 DEF MissingDocument, Denies
      <3>2. verdict \notin Positive
        <4>1. r.status \notin 200..299 /\ def.kind # "Cors"
          BY <2>1, <2>2 DEF MissingDocument
        <4> QED
          BY <1>2, <4>1
      <3> QED
        BY <1>4, <3>1, <3>2
    <2>3. CASE ~MissingDocument(def, o)
      BY <1>1, <1>4, <2>1, <2>3, SilenceIsIndeterminate, VerdictsDiffer
    <2> QED
      BY <2>2, <2>3
  <1>5. CASE def.kind # "CorsPreflight" /\ ~(r # NoResponse /\ r.html)
    BY <1>2, <1>5 DEF Well, Grants, Denies
  <1> QED
    BY <1>3, <1>4, <1>5

LEMMA AnswersAreReadings ==
  ASSUME NEW def, Asks(def), def.kind \in ProbeKind, NEW a \in Answers(def)
  PROVE  \E r \in Responses[def.kind] :
           /\ r \in a.heard
           /\ IF def.kind = "CorsPreflight" THEN a.o = Preflight(r) ELSE a.o \in BodyReadings(r)
  <1>1. CASE def.kind = "AskData"
    <2>0. a \in TwoAttempts(def, Responses[def.kind])
      BY <1>1 DEF Answers
    <2>1. PICK first \in Responses[def.kind], second \in Responses[def.kind] :
            a = [o |-> AskLiteralWithFallback(def.fallback, first, second),
                 heard |-> IF def.fallback /\ Refused(first) THEN {first, second} ELSE {first}]
      BY <2>0 DEF TwoAttempts
    <2>2. \/ a.o = LiteralAttempt(first) /\ first \in a.heard
          \/ a.o = LiteralAttempt(second) /\ second \in a.heard
      BY <2>1 DEF AskLiteralWithFallback
    <2> QED
      BY <1>1, <2>2 DEF BodyReadings
  <1>2. CASE def.kind = "Counted"
    <2>0. a \in TwoShapes(def, Responses[def.kind])
      BY <1>2 DEF Answers
    <2>1. PICK probe \in Responses[def.kind], plain \in Responses[def.kind],
               overlap \in Responses[def.kind] :
            a = [o |-> CountedByShape(def.overlap, probe, plain, overlap),
                 heard |-> {IF def.overlap /\ Overlaps(probe) THEN overlap ELSE plain}]
      BY <2>0 DEF TwoShapes
    <2>2. \/ a.o = LiteralAttempt(plain) /\ plain \in a.heard
          \/ a.o = LiteralAttempt(overlap) /\ overlap \in a.heard
      BY <2>1 DEF CountedByShape
    <2> QED
      BY <1>2, <2>2 DEF BodyReadings
  <1>3. CASE def.kind \notin {"AskData", "Counted"}
    <2>1. a \in {[o |-> ReadAs(def.kind, r), heard |-> {r}] : r \in Responses[def.kind]}
      BY <1>3 DEF Answers
    <2>2. PICK r \in Responses[def.kind] : a.o = ReadAs(def.kind, r) /\ r \in a.heard
      BY <2>1
    <2>3. CASE def.kind \in {"Liveness", "Cors", "AskFilter"}
      <3>1. ReadAs(def.kind, r) = GetWithBody(r)
        BY <2>3, Zenon DEF ReadAs
      <3> QED
        BY <2>2, <2>3, <3>1 DEF BodyReadings
    <2>4. CASE def.kind = "CorsPreflight"
      <3>1. ReadAs(def.kind, r) = Preflight(r)
        BY <2>4, Zenon DEF ReadAs
      <3> QED
        BY <2>2, <2>4, <3>1
    <2>5. CASE def.kind = "FetchVoid"
      <3>1. ReadAs(def.kind, r) = FetchRdf(r)
        BY <2>5, Zenon DEF ReadAs
      <3> QED
        BY <2>2, <2>5, <3>1 DEF BodyReadings
    <2>6. CASE def.kind = "SelectIris"
      <3>1. ReadAs(def.kind, r) = SelectIris(r)
        BY <2>6, Zenon DEF ReadAs
      <3> QED
        BY <2>2, <2>6, <3>1 DEF BodyReadings
    <2> QED
      BY <1>3, <2>3, <2>4, <2>5, <2>6 DEF Asks, AskedPerMetric, DispatchedPerMetric, ProbeKind
  <1> QED
    BY <1>1, <1>2, <1>3

\* What a pass that never looked leaves is no evidence of what it would have found.
LEMMA UnlookedIsIndeterminate ==
  ASSUME NEW def, NEW claim, def.kind = "VocabularyDescribed"
  PROVE  Resolve(def, claim, Derived(<<>>, FALSE)) = Indeterminate
  <1> DEFINE o == Derived(<<>>, FALSE)
  <1>1. o.status = None /\ o.bindings = <<>>
    BY DEF Derived, Blank
  <1> HIDE DEF o
  <1>2. Resolve(def, claim, o) \in {Indeterminate, ResolveVocabulary(def, claim, o)}
    <2>1. def.kind # "FetchVoid"
      OBVIOUS
    <2>2. CASE Unread(o)
      BY <2>1, <2>2, Zenon DEF Resolve
    <2>3. CASE ~Unread(o)
      <3>1. Resolve(def, claim, o) = ResolveVocabulary(def, claim, o)
        BY <2>3, Zenon DEF Resolve
      <3> QED
        BY <3>1
    <2> QED
      BY <2>2, <2>3
  <1>3. ResolveVocabulary(def, claim, o) = Indeterminate
    BY <1>1 DEF ResolveVocabulary, IsAReadableResult, AnsweredOk
  <1> QED
    BY <1>2, <1>3 DEF o

LEMMA KindIsKnown ==
  ASSUME PlanParts, NEW i \in DOMAIN Due, NEW row, row.metric = Due[i].id
  PROVE  KindOf(row) = Due[i].kind
  <1>1. \A j \in DOMAIN Due : Due[j].id = row.metric => j = i
    BY DEF PlanParts, Loaded
  <1>2. (CHOOSE j \in DOMAIN Due : Due[j].id = row.metric) = i
    BY <1>1
  <1> QED
    BY <1>2 DEF KindOf

LEMMA IndeterminateRests ==
  ASSUME NEW said, NEW row, NEW kind, row.verdict = Indeterminate
  PROVE  RestsOn(said, row, kind)
  BY VerdictsDiffer DEF RestsOn, Positive, Negative

LEMMA OneNewRow ==
  ASSUME Accounted, NEW row, acc'.rows = Append(acc.rows, row)
  PROVE  \A i \in (Len(acc.rows) + 1)..Len(acc'.rows) : acc'.rows[i] = row
  <1>1. IsList(acc.rows) /\ Len(acc.rows) \in Nat
    BY ListsHaveALength DEF Accounted, NamesOnce
  <1>2. Len(acc'.rows) = Len(acc.rows) + 1 /\ acc'.rows[Len(acc.rows) + 1] = row
    BY <1>1, AppendedList
  <1> QED
    BY <1>1, <1>2

LEMMA NewRows ==
  ASSUME Accounted, NEW rows, IsList(rows), acc'.rows = acc.rows \o rows
  PROVE  \A i \in (Len(acc.rows) + 1)..Len(acc'.rows) :
           \E k \in DOMAIN rows : acc'.rows[i] = rows[k]
  <1>1. /\ IsList(acc.rows) /\ Len(acc.rows) \in Nat /\ DOMAIN acc.rows = 1..Len(acc.rows)
        /\ Len(rows) \in Nat
    BY ListsHaveALength DEF Accounted, NamesOnce
  <1>2. /\ DOMAIN acc'.rows = 1..(Len(acc.rows) + Len(rows))
        /\ Len(acc'.rows) = Len(acc.rows) + Len(rows)
        /\ \A i \in DOMAIN acc'.rows :
             \/ i \in DOMAIN acc.rows /\ acc'.rows[i] = acc.rows[i]
             \/ i - Len(acc.rows) \in DOMAIN rows /\ acc'.rows[i] = rows[i - Len(acc.rows)]
    BY <1>1, JoinedList
  <1> TAKE i \in (Len(acc.rows) + 1)..Len(acc'.rows)
  <1>3. i \in DOMAIN acc'.rows /\ i \notin DOMAIN acc.rows
    BY <1>1, <1>2
  <1> QED
    BY <1>2, <1>3

\* What every new row of a step rests on.
NewRowsRest ==
  \A i \in (Len(acc.rows) + 1)..Len(acc'.rows) :
    RestsOn(heard' \ {NoResponse, Expired}, acc'.rows[i], KindOf(acc'.rows[i]))

LEMMA AskedRowsRest ==
  ASSUME Accounted, MeasureLiveness \/ AskMetric
  PROVE  NewRowsRest
  <1>1. at \in DOMAIN Due /\ PlanParts /\ DOMAIN acc = DOMAIN Nothing
    BY MeasuringIsAt DEF Accounted, MeasureLiveness, AskMetric
  <1>2. /\ Asks(Due[at]) /\ Due[at].kind \in ProbeKind
    BY <1>1 DEF MeasureLiveness, AskMetric, UsePrefetched, Asks, AskedPerMetric,
                DispatchedPerMetric, PlanParts, Loaded
  <1>3. Asked(Due[at])
    BY <1>2 DEF Asked, Asks, AskedPerMetric, DispatchedPerMetric
  <1> DEFINE def == Due[at]
             declared == Declared(acc.described, def)
             HeardOf(o) == \E r \in heard' \ {Expired} :
                             IF def.kind = "CorsPreflight" THEN o = Preflight(r)
                             ELSE o \in BodyReadings(r)
  <1>4. \E o : acc' = Measured(def, o) /\ (o = Expired \/ HeardOf(o))
    <2>1. CASE MeasureLiveness
      <3>1. acc' = Measured(def, Observing(prefetched, GetWithBody(prefetched)))
        BY <2>1 DEF MeasureLiveness
      <3>2. CASE prefetched = Expired
        BY <3>1, <3>2 DEF Observing
      <3>3. CASE prefetched # Expired
        <4>1. Observing(prefetched, GetWithBody(prefetched)) = GetWithBody(prefetched)
          BY <3>3 DEF Observing
        <4>2. def.kind # "CorsPreflight" /\ heard' = {prefetched}
          BY <2>1 DEF MeasureLiveness, UsePrefetched
        <4>3. HeardOf(GetWithBody(prefetched))
          BY <3>3, <4>2 DEF BodyReadings
        <4> QED
          BY <3>1, <4>1, <4>3
      <3> QED
        BY <3>2, <3>3
    <2>2. CASE AskMetric
      <3>1. PICK a \in Answers(def) \cup {[o |-> Expired, heard |-> {}]} :
              acc' = Measured(def, a.o) /\ heard' = a.heard
        BY <2>2 DEF AskMetric
      <3>2. CASE a \in Answers(def)
        <4>1. PICK r \in Responses[def.kind] :
                /\ r \in a.heard
                /\ IF def.kind = "CorsPreflight" THEN a.o = Preflight(r) ELSE a.o \in BodyReadings(r)
          BY <1>2, <3>2, AnswersAreReadings
        <4>2. r # Expired
          BY <1>2, ProbingAssumption DEF Asks
        <4>3. HeardOf(a.o)
          BY <3>1, <4>1, <4>2
        <4> QED
          BY <3>1, <4>3
      <3>3. CASE a = [o |-> Expired, heard |-> {}]
        BY <3>1, <3>3
      <3> QED
        BY <3>1, <3>2, <3>3
    <2> QED
      BY <2>1, <2>2
  <1>5. PICK o : acc' = Measured(def, o) /\ (o = Expired \/ HeardOf(o))
    BY <1>4
  <1>6. PICK counts : acc'.rows = Append(acc.rows,
          Row(def, Resolve(def, declared, o), None, counts[1], counts[2], o))
    BY <1>1, <1>5, MeasuredAddsARow
  <1> DEFINE row == Row(def, Resolve(def, declared, o), None, counts[1], counts[2], o)
  <1>7. row.metric = def.id /\ row.verdict = Resolve(def, declared, o)
    BY DEF Row
  <1> HIDE DEF row
  <1>8. \A i \in (Len(acc.rows) + 1)..Len(acc'.rows) : acc'.rows[i] = row
    BY <1>6, OneNewRow DEF row
  <1>9. KindOf(row) = def.kind
    BY <1>1, <1>7, KindIsKnown
  <1>10. RestsOn(heard' \ {NoResponse, Expired}, row, def.kind)
    <2>1. CASE o = Expired
      <3>1. Resolve(def, declared, o) = Indeterminate
        BY <2>1, Zenon DEF Resolve, Unread
      <3> QED
        BY <1>7, <3>1, IndeterminateRests
    <2>2. CASE HeardOf(o)
      <3>1. PICK r \in heard' \ {Expired} :
              IF def.kind = "CorsPreflight" THEN o = Preflight(r) ELSE o \in BodyReadings(r)
        BY <2>2
      <3>2. /\ row.verdict \in Positive => r # NoResponse /\ (Well(r, def.kind) \/ Grants(r, def.kind))
            /\ row.verdict \in Negative => r # NoResponse /\ (Well(r, def.kind) \/ Denies(r, def.kind))
        BY <1>3, <1>7, <3>1, AnAnswerIsRestedOn
      <3>3. def.kind # "VocabularyDescribed"
        BY <1>3 DEF Asked
      <3> HIDE DEF def
      <3> QED
        BY <3>2, <3>3 DEF RestsOn, Positive, Negative
    <2> QED
      BY <1>5, <2>1, <2>2
  <1> QED
    BY <1>8, <1>9, <1>10 DEF NewRowsRest

LEMMA RatedRowsRest ==
  ASSUME Accounted, RateDescription
  PROVE  NewRowsRest
  <1>1. at \in DOMAIN Due /\ PlanParts /\ DOMAIN acc = DOMAIN Nothing
    BY MeasuringIsAt DEF Accounted, RateDescription
  <1>2. Due[at].kind = "DereferenceEndpoint" /\ heard' = {fetched}
    BY DEF RateDescription
  <1> DEFINE o == Observing(fetched, FetchRdf(fetched))
             found == ResolveFetch(acc.described, o)
  <1>3. PICK level, spent : acc'.rows = Append(acc.rows,
          Row(Due[at], found.verdict, level, None, None, spent))
    BY <1>1, RatingAddsARow
  <1> DEFINE row == Row(Due[at], found.verdict, level, None, None, spent)
  <1>4. row.metric = Due[at].id /\ row.verdict = found.verdict
    BY DEF Row
  <1>5. o \in {FetchRdf(fetched), Expired} /\ (fetched = Expired => o = Expired)
    BY DEF Observing
  <1> HIDE DEF row, o
  <1>6. /\ found.verdict = Verified => /\ o # Expired /\ fetched # NoResponse
                                       /\ fetched.status \in 200..299 /\ ~fetched.html
        /\ found.verdict = Absent => /\ o # Expired /\ fetched # NoResponse
                                     /\ fetched.status \in {404, 410} /\ ~fetched.html
        /\ found.verdict \notin {Verified, Absent} => found.verdict = Indeterminate
    BY <1>5, DescriptionsNeedAnswers
  <1> HIDE DEF found
  <1>7. \A i \in (Len(acc.rows) + 1)..Len(acc'.rows) : acc'.rows[i] = row
    BY <1>3, OneNewRow DEF row
  <1>8. KindOf(row) = "DereferenceEndpoint"
    BY <1>1, <1>2, <1>4, KindIsKnown
  <1>9. RestsOn(heard' \ {NoResponse, Expired}, row, "DereferenceEndpoint")
    <2>1. CASE found.verdict = Verified
      <3>1. fetched \in heard' \ {NoResponse, Expired} /\ Well(fetched, "DereferenceEndpoint")
        BY <1>2, <1>5, <1>6, <2>1 DEF Well
      <3>2. row.verdict \notin {Absent, DeclaredButWrong}
        BY <1>4, <2>1 DEF Verified, Absent, DeclaredButWrong
      <3> QED
        BY <3>1, <3>2 DEF RestsOn
    <2>2. CASE found.verdict = Absent
      <3>1. fetched \in heard' \ {NoResponse, Expired} /\ Denies(fetched, "DereferenceEndpoint")
        BY <1>2, <1>5, <1>6, <2>2 DEF Denies, Verified, Absent
      <3>2. row.verdict \notin {Verified, UndeclaredButVerified}
        BY <1>4, <2>2 DEF Verified, Absent, UndeclaredButVerified
      <3> QED
        BY <3>1, <3>2 DEF RestsOn
    <2>3. CASE found.verdict \notin {Verified, Absent}
      BY <1>4, <1>6, <2>3, IndeterminateRests
    <2> QED
      BY <2>1, <2>2, <2>3
  <1> QED
    BY <1>7, <1>8, <1>9 DEF NewRowsRest

LEMMA UnreachableRowsRest ==
  ASSUME Accounted, FindUnreachable
  PROVE  NewRowsRest
  <1> DEFINE live == Due[FirstOfKind("Liveness", 1)]
             row == Row(live, Resolve(live, NothingDeclared, Failed), None, None, None, Failed)
  <1>1. acc = Nothing
    BY DEF Accounted, Standing, FindUnreachable
  <1>2. acc'.rows = <<row>> /\ Len(acc.rows) = 0
    BY <1>1 DEF FindUnreachable, Nothing
  <1>3. Failed.error
    BY DEF Failed, Blank
  <1>4. Resolve(live, NothingDeclared, Failed) = Indeterminate
    BY <1>3, Zenon DEF Resolve, Unread
  <1>5. row.verdict = Indeterminate
    BY <1>4 DEF Row
  <1> HIDE DEF row
  <1>6. \A i \in (Len(acc.rows) + 1)..Len(acc'.rows) : acc'.rows[i] = row
    BY <1>2
  <1> QED
    BY <1>5, <1>6, IndeterminateRests DEF NewRowsRest

LEMMA DerivedRowsRest ==
  ASSUME Accounted, Derive
  PROVE  NewRowsRest
  <1> DEFINE I == {i \in DOMAIN Due : Due[i].kind = "VocabularyDescribed"}
             derived == Kept(Due, I)
             found == [i \in DOMAIN acc.profiles |-> acc.profiles[i].class]
             claim == [claimed |-> acc.described.classes # {}, value |-> None]
             graded == [i \in DOMAIN derived |->
                          Row(derived[i], Resolve(derived[i], claim, Derived(found, acc.enumerated)),
                              None, None, None, Expired)]
  <1>1. PlanParts /\ Loaded(Due) /\ DOMAIN acc = DOMAIN Nothing
    BY DEF Accounted, PlanParts
  <1>2. acc'.rows = acc.rows \o graded /\ acc'.enumerated = acc.enumerated
    BY <1>1 DEF Derive, Nothing
  <1>3. /\ Loaded(derived) /\ \A k \in DOMAIN derived : \E i \in I : derived[k] = Due[i]
    <2>1. I \in SUBSET DOMAIN Due
      OBVIOUS
    <2> HIDE DEF I
    <2> QED
      BY <1>1, <2>1, KeptIsLoaded
  <1>4. ~acc.enumerated => found = <<>>
    <2>1. ~acc.enumerated => acc.profiles = <<>>
      BY DEF Accounted
    <2> QED
      BY <2>1
  <1> HIDE DEF I, derived, claim, found
  <1>5. /\ graded = [i \in DOMAIN derived |-> graded[i]]
        /\ \A i \in DOMAIN derived :
             /\ graded[i].metric = derived[i].id
             /\ graded[i].verdict = Resolve(derived[i], claim, Derived(found, acc.enumerated))
    BY DEF Row
  <1>6. DOMAIN graded = DOMAIN derived
    OBVIOUS
  <1> HIDE DEF graded
  <1>7. NamesOnce(graded)
    BY <1>3, <1>5, MadeOfDefinitions
  <1>8. ASSUME NEW k \in DOMAIN graded
        PROVE  RestsOn(heard' \ {NoResponse, Expired}, graded[k], KindOf(graded[k]))
    <2>1. PICK i \in DOMAIN Due : derived[k] = Due[i] /\ Due[i].kind = "VocabularyDescribed"
      BY <1>3, <1>6, <1>8 DEF I
    <2>2. KindOf(graded[k]) = "VocabularyDescribed"
      BY <1>1, <1>5, <1>6, <2>1, KindIsKnown
    <2>3. CASE acc.enumerated
      BY <1>2, <2>2, <2>3 DEF RestsOn
    <2>4. CASE ~acc.enumerated
      <3>1. Derived(found, acc.enumerated) = Derived(<<>>, FALSE)
        BY <1>4, <2>4 DEF Derived
      <3>2. graded[k].verdict = Indeterminate
        BY <1>5, <1>6, <2>1, <3>1, UnlookedIsIndeterminate
      <3> QED
        BY <3>2, IndeterminateRests
    <2> QED
      BY <2>3, <2>4
  <1> QED
    BY <1>2, <1>7, <1>8, NewRows DEF NewRowsRest, NamesOnce

LEMMA ExpiredRowsRest ==
  ASSUME Accounted, ExpireEndpoint
  PROVE  NewRowsRest
  <1> DEFINE I == {i \in DOMAIN Due : /\ DispatchedPerMetric(Due[i].kind)
                                      /\ Due[i].id \notin Names(acc.rows)}
             unmeasured == [i \in DOMAIN Unreached |-> UnmeasuredRow(Unreached[i])]
  <1>1. Loaded(Due) /\ DOMAIN acc = DOMAIN Nothing
    BY DEF Accounted, PlanParts
  <1>2. acc'.rows = acc.rows \o unmeasured
    BY <1>1 DEF ExpireEndpoint, Nothing
  <1>3. Unreached = Kept(Due, I)
    BY DEF Unreached, Names
  <1>4. Loaded(Unreached)
    BY <1>1, <1>3, KeptIsLoaded
  <1>5. ASSUME NEW def PROVE UnmeasuredRow(def).verdict = Indeterminate /\ UnmeasuredRow(def).metric = def.id
    <2>1. Resolve(def, NothingDeclared, Expired) = Indeterminate
      BY Zenon DEF Resolve, Unread
    <2> QED
      BY <2>1 DEF UnmeasuredRow, Row
  <1>6. /\ unmeasured = [i \in DOMAIN Unreached |-> unmeasured[i]]
        /\ DOMAIN unmeasured = DOMAIN Unreached
        /\ \A i \in DOMAIN Unreached : /\ unmeasured[i].metric = Unreached[i].id
                                       /\ unmeasured[i].verdict = Indeterminate
    BY <1>5
  <1> HIDE DEF unmeasured
  <1>7. NamesOnce(unmeasured)
    BY <1>4, <1>6, MadeOfDefinitions
  <1>8. \A i \in (Len(acc.rows) + 1)..Len(acc'.rows) :
          \E k \in DOMAIN unmeasured : acc'.rows[i] = unmeasured[k]
    BY <1>2, <1>7, NewRows DEF NamesOnce
  <1>9. \A i \in (Len(acc.rows) + 1)..Len(acc'.rows) : acc'.rows[i].verdict = Indeterminate
    BY <1>6, <1>8
  <1> QED
    BY <1>9, IndeterminateRests DEF NewRowsRest

LEMMA NoNewRow ==
  ASSUME Accounted, acc'.rows = acc.rows \/ acc' = Nothing
  PROVE  NewRowsRest
  <1>1. Len(acc.rows) \in Nat
    BY ListsHaveALength DEF Accounted, NamesOnce
  <1>2. Len(acc'.rows) = Len(acc.rows) \/ Len(acc'.rows) = 0
    BY DEF Nothing
  <1>3. (Len(acc.rows) + 1)..Len(acc'.rows) = {}
    BY <1>1, <1>2
  <1> QED
    BY <1>3 DEF NewRowsRest

LEMMA StepRests == Accounted /\ Next => NewRowsRest
  <1> SUFFICES ASSUME Accounted, Next PROVE NewRowsRest
    OBVIOUS
  <1>0. DOMAIN acc = DOMAIN Nothing
    BY DEF Accounted
  <1>1. CASE FindReachable \/ PassOver \/ PassTheGate \/ Panic
    BY <1>1, NoNewRow DEF FindReachable, PassOver, PassTheGate, Panic
  <1>2. CASE FetchDescription \/ StopAtTheGate
    <2>1. acc'.rows = acc.rows
      BY <1>0, <1>2 DEF FetchDescription, StopAtTheGate, Nothing
    <2> QED
      BY <2>1, NoNewRow
  <1>3. CASE Enumerate
    <2>1. acc'.rows = acc.rows
      BY <1>0, <1>3 DEF Enumerate, Nothing
    <2> QED
      BY <2>1, NoNewRow
  <1>4. CASE AskClass
    <2>1. acc' = acc \/ \E outcome : acc' = Published(outcome)
      BY <1>4 DEF AskClass
    <2>2. acc'.rows = acc.rows
      BY <1>0, <2>1 DEF Published, Nothing
    <2> QED
      BY <2>2, NoNewRow
  <1> QED
    BY <1>1, <1>2, <1>3, <1>4, UnreachableRowsRest, RatedRowsRest, AskedRowsRest, DerivedRowsRest,
       ExpiredRowsRest DEF Next

(***************************************************************************)
(* No step publishes a verdict about the endpoint that rests on nothing it *)
(* said to that metric: silence, an expiry and an error never become one.  *)
(***************************************************************************)
THEOREM EveryVerdictRests == Spec => VerdictsRestOnAnswers
  <1>1. Accounted /\ [Next]_vars => [NewRowsRest]_vars
    BY StepRests
  <1>2. NewRowsRest <=> \A i \in (Len(acc.rows) + 1)..Len(acc'.rows) :
          RestsOn(heard' \ {NoResponse, Expired}, acc'.rows[i], KindOf(acc'.rows[i]))
    BY DEF NewRowsRest
  <1> QED
    BY <1>1, <1>2, SpecAccounts, PTL DEF Spec, VerdictsRestOnAnswers

(***************************************************************************)
(* What stands behind each fact.  A sample of a metric was kept beside a   *)
(* confirmation of it, one of a pass by a pass that was not declined, which *)
(* is at its classes or over; a profile is of a class that was sampled.    *)
(***************************************************************************)
KeptByAPass(id) ==
  /\ id \in Passes(Due, End) \ Names(acc.notMeasured)
  /\ pc # "measuring"
  /\ pc = "enumerating" => id \in Passes(Due, at)
  /\ pc = "profiling" => id \in Passes(Due, at + 1)

Confirms(rows, id) == \E i \in DOMAIN rows : rows[i].metric = id /\ rows[i].verdict \in Positive

SamplesStand ==
  \A i \in DOMAIN acc.samples :
    LET id == acc.samples[i].metric
    IN (id \in Dispatched(Due, End) /\ Confirms(acc.rows, id)) \/ KeptByAPass(id)

SampledWhere(i, class) ==
  Due[i].sampleLimit # None =>
    \E k \in DOMAIN acc.samples : /\ acc.samples[k].metric = Due[i].id
                                  /\ Contains(acc.samples[k].values, class)

ProfilesStand ==
  \A k \in DOMAIN acc.profiles, i \in DOMAIN Due :
    Due[i].id = acc.profiles[k].metric => SampledWhere(i, acc.profiles[k].class)

PassStands ==
  /\ IsList(pass.classes) /\ pass.class \in DOMAIN pass.classes
  /\ DOMAIN pass = DOMAIN NoPass /\ DOMAIN pass.outcome = DOMAIN NothingProfiled
  /\ IsList(pass.outcome.profiles)
  /\ \A i \in DOMAIN pass.outcome.profiles : Contains(pass.classes, pass.outcome.profiles[i].class)
  /\ \A class : Contains(pass.classes, class) => SampledWhere(at, class)

VocabularyStands ==
  \A i \in DOMAIN Due, k \in DOMAIN acc.rows :
    Due[i].kind = "VocabularyDescribed" /\ acc.rows[k].metric = Due[i].id =>
      (acc.rows[k].verdict \in Positive <=> acc.profiles # <<>>)

Backed ==
  /\ IsList(acc.samples) /\ IsList(acc.profiles)
  /\ SamplesStand /\ ProfilesStand
  /\ pc = "profiling" => PassStands
  /\ pc \in {"done", "expired"} => VocabularyStands

Agreed == Accounted /\ Backed

\* What several requests keep.
LEMMA SamplesStillStand ==
  ASSUME SamplesStand, plan' = plan, acc'.samples = acc.samples,
         \A i \in DOMAIN acc.rows : i \in DOMAIN acc'.rows /\ acc'.rows[i] = acc.rows[i],
         \A id : KeptByAPass(id) => KeptByAPass(id)'
  PROVE  SamplesStand'
  <1>1. Due' = Due /\ End' = End
    BY DEF Due, End
  <1>2. \A id : Confirms(acc.rows, id) => Confirms(acc'.rows, id)
    BY DEF Confirms
  <1>3. ASSUME NEW i \in DOMAIN acc.samples, NEW id, id = acc.samples[i].metric
        PROVE  (id \in Dispatched(Due, End) /\ Confirms(acc'.rows, id)) \/ KeptByAPass(id)'
    BY <1>2, <1>3 DEF SamplesStand
  <1> QED
    BY <1>1, <1>3 DEF SamplesStand

LEMMA SampledStays ==
  ASSUME plan' = plan,
         \A k \in DOMAIN acc.samples : k \in DOMAIN acc'.samples /\ acc'.samples[k] = acc.samples[k],
         NEW i, NEW class, SampledWhere(i, class)
  PROVE  SampledWhere(i, class)'
  BY DEF SampledWhere, Due

LEMMA ProfilesStillStand ==
  ASSUME ProfilesStand, plan' = plan, acc'.profiles = acc.profiles,
         \A k \in DOMAIN acc.samples : k \in DOMAIN acc'.samples /\ acc'.samples[k] = acc.samples[k]
  PROVE  ProfilesStand'
  <1>1. Due' = Due
    BY DEF Due
  <1>2. ASSUME NEW k \in DOMAIN acc.profiles, NEW i \in DOMAIN Due,
               Due[i].id = acc.profiles[k].metric, NEW class, class = acc.profiles[k].class
        PROVE  SampledWhere(i, class)'
    <2>1. SampledWhere(i, class)
      BY <1>2 DEF ProfilesStand
    <2> QED
      BY <2>1, SampledStays
  <1> QED
    BY <1>1, <1>2 DEF ProfilesStand

\* The next pass comes after the one that is at hand, if there is one.
LEMMA TheNextPassIsLater ==
  ASSUME PlanParts, plan' = plan, NEW from \in 1..End, Profiling(from)
  PROVE  /\ pc' \in {"deriving", "enumerating"}
         /\ pc' = "enumerating" => at' \in DOMAIN Due /\ from <= at'
         /\ pc' = "enumerating" => Passes(Due, from) \subseteq Passes(Due, at')
  <1> DEFINE next == FirstOfKind("ClassProfile", from)
  <1>1. Len(Due) \in Nat /\ DOMAIN Due = 1..Len(Due) /\ from \in Nat /\ 1 <= from
    BY DEF PlanParts, Loaded, End
  <1>2. next # None => next \in DOMAIN Due /\ from <= next
    BY <1>1, FirstIsFirst
  <1>3. pc' \in {"deriving", "enumerating"} /\ (pc' = "enumerating" => next # None /\ at' = next)
    BY DEF Profiling
  <1> HIDE DEF next
  <1>4. ASSUME pc' = "enumerating" PROVE Passes(Due, from) \subseteq Passes(Due, at')
    <2>1. at' \in DOMAIN Due /\ from <= at'
      BY <1>2, <1>3, <1>4
    <2>2. \A j \in DOMAIN Due : j < from => j < at'
      BY <1>1, <2>1
    <2> QED
      BY <2>2 DEF Passes, OfKind
  <1> QED
    BY <1>2, <1>3, <1>4

LEMMA NothingIsBacked ==
  ASSUME acc'.samples = <<>>, acc'.profiles = <<>>, pc' # "profiling",
         pc' \in {"done", "expired"} => VocabularyStands'
  PROVE  Backed'
  BY EmptyListNames DEF Backed, SamplesStand, ProfilesStand, NamesOnce

LEMMA NoVocabularyRow ==
  ASSUME PlanParts, NEW rows, Names(rows) \subseteq Dispatched(Due, End)
  PROVE  \A i \in DOMAIN Due, k \in DOMAIN rows :
           Due[i].kind = "VocabularyDescribed" => rows[k].metric # Due[i].id
  <1>1. ASSUME NEW i \in DOMAIN Due, NEW k \in DOMAIN rows, Due[i].kind = "VocabularyDescribed",
               rows[k].metric = Due[i].id
        PROVE  FALSE
    <2>1. Due[i].id \in Dispatched(Due, End)
      BY <1>1 DEF Names
    <2>2. PICK j \in DOMAIN Due : Due[j].id = Due[i].id /\ DispatchedPerMetric(Due[j].kind)
      BY <2>1 DEF Dispatched
    <2>3. j = i
      BY <2>2 DEF PlanParts, Loaded
    <2> QED
      BY <1>1, <2>2, <2>3 DEF DispatchedPerMetric
  <1> QED
    BY <1>1

LEMMA FirstRequestsAreBacked ==
  ASSUME Agreed, FindUnreachable \/ FindReachable \/ FetchDescription \/ Panic
  PROVE  Backed'
  <1>1. DOMAIN acc = DOMAIN Nothing /\ PlanParts
    BY DEF Agreed, Accounted
  <1>2. CASE Panic
    BY <1>2, NothingIsBacked DEF Panic, Nothing
  <1>3. CASE FindReachable \/ FetchDescription
    <2>1. acc = Nothing
      BY <1>3 DEF Agreed, Accounted, Standing, FindReachable, FetchDescription
    <2>2. acc'.samples = <<>> /\ acc'.profiles = <<>>
      <3>1. CASE FindReachable
        BY <2>1, <3>1 DEF FindReachable, Nothing
      <3>2. CASE FetchDescription
        <4>1. acc'.samples = acc.samples /\ acc'.profiles = acc.profiles
          BY <1>1, <3>2 DEF FetchDescription, Nothing
        <4> QED
          BY <2>1, <4>1 DEF Nothing
      <3> QED
        BY <1>3, <3>1, <3>2
    <2> QED
      BY <1>3, <2>2, NothingIsBacked DEF FindReachable, FetchDescription
  <1>4. CASE FindUnreachable
    <2> DEFINE first == FirstOfKind("Liveness", 1)
    <2>1. acc = Nothing /\ first # None /\ Due' = Due
      BY <1>4 DEF Agreed, Accounted, Standing, FindUnreachable, Due
    <2>2. /\ acc'.samples = <<>> /\ acc'.profiles = <<>> /\ pc' = "done"
          /\ acc'.rows = <<Row(Due[first], Resolve(Due[first], NothingDeclared, Failed),
                               None, None, None, Failed)>>
      BY <1>4, <2>1 DEF FindUnreachable, Nothing
    <2>3. first \in DOMAIN Due /\ Due[first].kind = "Liveness"
      <3>1. first \in 1..Len(Due) /\ Due[first].kind = "Liveness"
        BY <1>1, <2>1, FirstIsFirst
      <3> QED
        BY <1>1, <3>1 DEF PlanParts, Loaded
    <2> HIDE DEF first
    <2>4. \A k \in DOMAIN acc'.rows : acc'.rows[k].metric = Due[first].id
      BY <2>2 DEF Row
    <2>5. \A i \in DOMAIN Due : Due[i].id = Due[first].id => Due[i].kind = "Liveness"
      BY <1>1, <2>3 DEF PlanParts, Loaded
    <2>6. VocabularyStands'
      BY <2>1, <2>4, <2>5 DEF VocabularyStands
    <2> QED
      BY <2>2, <2>6, NothingIsBacked
  <1> QED
    BY <1>2, <1>3, <1>4

(***************************************************************************)
(* Each request keeps what stands behind the facts.                        *)
(***************************************************************************)
LEMMA RowsAreOnlyAdded ==
  ASSUME Accounted, NEW rows, IsList(rows), acc'.rows = acc.rows \o rows
  PROVE  \A i \in DOMAIN acc.rows : i \in DOMAIN acc'.rows /\ acc'.rows[i] = acc.rows[i]
  <1>1. /\ IsList(acc.rows) /\ DOMAIN acc.rows = 1..Len(acc.rows)
        /\ Len(acc.rows) \in Nat /\ Len(rows) \in Nat
    BY ListsHaveALength DEF Accounted, NamesOnce
  <1>2. /\ DOMAIN acc'.rows = 1..(Len(acc.rows) + Len(rows))
        /\ \A i \in DOMAIN acc.rows : acc'.rows[i] = acc.rows[i]
    BY <1>1, JoinedList
  <1> QED
    BY <1>1, <1>2

LEMMA ARowIsAdded ==
  ASSUME Accounted, NEW row, acc'.rows = Append(acc.rows, row)
  PROVE  /\ \A i \in DOMAIN acc.rows : i \in DOMAIN acc'.rows /\ acc'.rows[i] = acc.rows[i]
         /\ \E i \in DOMAIN acc'.rows : acc'.rows[i] = row
  <1>1. IsList(acc.rows) /\ DOMAIN acc.rows = 1..Len(acc.rows) /\ Len(acc.rows) \in Nat
    BY ListsHaveALength DEF Accounted, NamesOnce
  <1>2. /\ DOMAIN acc'.rows = 1..(Len(acc.rows) + 1)
        /\ \A i \in DOMAIN acc.rows : acc'.rows[i] = acc.rows[i]
        /\ acc'.rows[Len(acc.rows) + 1] = row
    BY <1>1, AppendedList
  <1> QED
    BY <1>1, <1>2

\* While the metrics are measured there is no profile, and no sample of a pass.
LEMMA MeasuringBacks ==
  ASSUME Agreed, pc = "measuring", pc' \notin {"done", "expired", "profiling"}, plan' = plan,
         acc'.samples = acc.samples, acc'.profiles = acc.profiles,
         \A i \in DOMAIN acc.rows : i \in DOMAIN acc'.rows /\ acc'.rows[i] = acc.rows[i]
  PROVE  Backed'
  <1>1. SamplesStand /\ ProfilesStand /\ \A id : ~KeptByAPass(id)
    BY DEF Agreed, Backed, KeptByAPass
  <1>2. SamplesStand'
    BY <1>1, SamplesStillStand
  <1>3. ProfilesStand'
    BY <1>1, ProfilesStillStand
  <1> QED
    BY <1>2, <1>3 DEF Agreed, Backed

LEMMA AMeasurementIsBacked ==
  ASSUME Agreed, pc = "measuring", pc' = pc, plan' = plan, NEW def, NEW o,
         def.id \in Dispatched(Due, End), acc' = Measured(def, o)
  PROVE  Backed'
  <1> DEFINE verdict == Resolve(def, Declared(acc.described, def), o)
             sample == SampleOf(def, o.bindings)
  <1>1. DOMAIN acc = DOMAIN Nothing /\ Accounted
    BY DEF Agreed, Accounted
  <1>2. /\ acc'.profiles = acc.profiles
        /\ acc'.samples = IF MaySample(def, verdict, o) THEN Append(acc.samples, sample)
                          ELSE acc.samples
    BY <1>1, MeasuredAddsARow
  <1>3. PICK row : row.metric = def.id /\ row.verdict = verdict /\ acc'.rows = Append(acc.rows, row)
    <2>1. PICK counts : acc'.rows = Append(acc.rows,
            Row(def, verdict, None, counts[1], counts[2], o))
      BY <1>1, MeasuredAddsARow
    <2> QED
      BY <2>1 DEF Row
  <1>4. MaySample(def, verdict, o) => verdict \in Positive
    BY DEF MaySample, Positive
  <1>5. sample.metric = def.id
    BY DEF SampleOf
  <1> HIDE DEF verdict, sample
  <1>6. /\ \A i \in DOMAIN acc.rows : i \in DOMAIN acc'.rows /\ acc'.rows[i] = acc.rows[i]
        /\ \E i \in DOMAIN acc'.rows : acc'.rows[i] = row
    BY <1>1, <1>3, ARowIsAdded
  <1>7. CASE acc'.samples = acc.samples
    BY <1>2, <1>6, <1>7, MeasuringBacks
  <1>8. CASE acc'.samples = Append(acc.samples, sample) /\ verdict \in Positive
    <2>1. Due' = Due /\ End' = End
      BY DEF Due, End
    <2>2. IsList(acc.samples) /\ DOMAIN acc.samples = 1..Len(acc.samples) /\ Len(acc.samples) \in Nat
      BY ListsHaveALength DEF Agreed, Backed
    <2>3. /\ IsList(acc'.samples) /\ DOMAIN acc'.samples = 1..(Len(acc.samples) + 1)
          /\ \A i \in DOMAIN acc.samples : acc'.samples[i] = acc.samples[i]
          /\ acc'.samples[Len(acc.samples) + 1] = sample
      BY <1>8, <2>2, AppendedList
    <2>4. \A i \in DOMAIN acc'.samples : \/ i \in DOMAIN acc.samples /\ acc'.samples[i] = acc.samples[i]
                                         \/ acc'.samples[i] = sample
      BY <2>2, <2>3
    <2>5. \A id : Confirms(acc.rows, id) => Confirms(acc'.rows, id)
      BY <1>6 DEF Confirms
    <2>6. Confirms(acc'.rows, def.id)
      BY <1>3, <1>6, <1>8 DEF Confirms
    <2>7. \A i \in DOMAIN acc.samples :
            acc.samples[i].metric \in Dispatched(Due, End) /\ Confirms(acc.rows, acc.samples[i].metric)
      BY DEF Agreed, Backed, SamplesStand, KeptByAPass
    <2>8. SamplesStand'
      BY <1>5, <2>1, <2>4, <2>5, <2>6, <2>7 DEF SamplesStand
    <2>9. ProfilesStand'
      BY <1>2, <2>2, <2>3, ProfilesStillStand DEF Agreed, Backed
    <2> QED
      BY <1>2, <2>3, <2>8, <2>9 DEF Agreed, Backed
  <1> QED
    BY <1>2, <1>4, <1>7, <1>8

LEMMA MeasuringIsBacked ==
  ASSUME Agreed, RateDescription \/ PassOver \/ MeasureLiveness \/ AskMetric \/ PassTheGate
  PROVE  Backed'
  <1>1. Accounted /\ DOMAIN acc = DOMAIN Nothing /\ PlanParts /\ Loaded(Due)
    BY DEF Agreed, Accounted, PlanParts
  <1>2. CASE RateDescription
    <2>1. /\ acc'.samples = acc.samples /\ acc'.profiles = acc.profiles
          /\ \E row : acc'.rows = Append(acc.rows, row)
      BY <1>1, <1>2, RatingAddsARow
    <2>2. \A i \in DOMAIN acc.rows : i \in DOMAIN acc'.rows /\ acc'.rows[i] = acc.rows[i]
      BY <1>1, <2>1, ARowIsAdded
    <2> QED
      BY <1>2, <2>1, <2>2, MeasuringBacks DEF RateDescription, Measuring
  <1>3. CASE PassOver
    BY <1>3, MeasuringBacks DEF PassOver, Measuring
  <1>4. CASE PassTheGate
    <2>1. pc' \in {"deriving", "enumerating"}
      BY <1>4 DEF PassTheGate, Profiling
    <2> QED
      BY <1>4, <2>1, MeasuringBacks DEF PassTheGate, Measurements
  <1>5. CASE MeasureLiveness \/ AskMetric
    <2>1. /\ pc = "measuring" /\ pc' = pc /\ plan' = plan /\ at \in DOMAIN Due
          /\ \E o : acc' = Measured(Due[at], o)
      BY <1>1, <1>5, MeasuringIsAt DEF MeasureLiveness, AskMetric
    <2>2. Due[at].id \in Dispatched(Due, End)
      <3>1. DispatchedPerMetric(Due[at].kind)
        BY <1>5 DEF MeasureLiveness, AskMetric, Asks, AskedPerMetric, UsePrefetched,
                    DispatchedPerMetric
      <3>2. at < End
        BY <1>1, <2>1 DEF Loaded, End
      <3> QED
        BY <2>1, <3>1, <3>2 DEF Dispatched
    <2> QED
      BY <2>1, <2>2, AMeasurementIsBacked
  <1> QED
    BY <1>2, <1>3, <1>4, <1>5

LEMMA StoppingIsBacked ==
  ASSUME Agreed, StopAtTheGate
  PROVE  Backed'
  <1>1. DOMAIN acc = DOMAIN Nothing /\ Accounted /\ PlanParts /\ pc = "measuring"
    BY DEF Agreed, Accounted, StopAtTheGate, Measurements
  <1>2. /\ acc'.rows = acc.rows /\ acc'.samples = acc.samples /\ acc'.profiles = acc.profiles
        /\ plan' = plan /\ pc' = "done" /\ Due' = Due
    BY <1>1 DEF StopAtTheGate, Nothing, Due
  <1>3. SamplesStand'
    <2>1. \A id : ~KeptByAPass(id)
      BY <1>1 DEF KeptByAPass
    <2> QED
      BY <1>2, <2>1, SamplesStillStand DEF Agreed, Backed
  <1>4. ProfilesStand'
    BY <1>2, ProfilesStillStand DEF Agreed, Backed
  <1>5. Names(acc.rows) = Dispatched(Due, End)
    BY <1>1, MeasurementsAreDone DEF StopAtTheGate
  <1>6. VocabularyStands'
    BY <1>1, <1>2, <1>5, NoVocabularyRow DEF VocabularyStands
  <1> QED
    BY <1>2, <1>3, <1>4, <1>6 DEF Agreed, Backed

LEMMA ExpiryIsBacked ==
  ASSUME Agreed, ExpireEndpoint
  PROVE  Backed'
  <1>1. DOMAIN acc = DOMAIN Nothing /\ Accounted /\ PlanParts /\ pc \notin {"done", "expired"}
    BY DEF Agreed, Accounted, ExpireEndpoint, Waiting, Measuring
  <1> DEFINE unmeasured == [i \in DOMAIN Unreached |-> UnmeasuredRow(Unreached[i])]
  <1>2. /\ acc'.rows = acc.rows \o unmeasured /\ acc'.samples = acc.samples
        /\ acc'.profiles = acc.profiles /\ acc'.notMeasured = acc.notMeasured
        /\ plan' = plan /\ pc' = "expired" /\ Due' = Due /\ End' = End
    BY <1>1 DEF ExpireEndpoint, Nothing, Due, End
  <1>3. IsList(unmeasured)
    <2> DEFINE I == {i \in DOMAIN Due : /\ DispatchedPerMetric(Due[i].kind)
                                        /\ Due[i].id \notin Names(acc.rows)}
    <2>1. Unreached = Kept(Due, I) /\ Loaded(Due)
      BY <1>1 DEF Unreached, Names, PlanParts
    <2>2. I \in SUBSET DOMAIN Due
      OBVIOUS
    <2> HIDE DEF I
    <2>3. Len(Unreached) \in Nat /\ DOMAIN Unreached = 1..Len(Unreached)
      BY <2>1, <2>2, KeptIsLoaded DEF Loaded
    <2>4. unmeasured = [i \in 1..Len(Unreached) |-> unmeasured[i]]
      BY <2>3
    <2> HIDE DEF unmeasured
    <2> QED
      BY <2>3, <2>4, FunctionsAreLists
  <1> HIDE DEF unmeasured
  <1>4. SamplesStand'
    <2>1. \A i \in DOMAIN acc.rows : i \in DOMAIN acc'.rows /\ acc'.rows[i] = acc.rows[i]
      BY <1>1, <1>2, <1>3, RowsAreOnlyAdded
    <2>2. \A id : KeptByAPass(id) => KeptByAPass(id)'
      BY <1>2 DEF KeptByAPass
    <2> QED
      BY <1>2, <2>1, <2>2, SamplesStillStand DEF Agreed, Backed
  <1>5. ProfilesStand'
    BY <1>2, ProfilesStillStand DEF Agreed, Backed
  <1>6. Names(acc'.rows) = Dispatched(Due, End)
    <2>1. Accounted'
      BY <1>1, ExpiryAccounts
    <2> QED
      BY <1>2, <2>1 DEF Accounted, Standing
  <1>7. VocabularyStands'
    BY <1>1, <1>2, <1>6, NoVocabularyRow DEF VocabularyStands
  <1> QED
    BY <1>2, <1>4, <1>5, <1>7 DEF Agreed, Backed

\* The cells of one type are a list, in the order of the rows.
LEMMA CellsAreAList ==
  ASSUME NEW r, Len(r.rows) \in Nat, DOMAIN r.rows = 1..Len(r.rows), NEW type
  PROVE  IsList(Extract(r, type))
  <1> DEFINE I == {i \in DOMAIN r.rows : r.rows[i].type = type}
             cells == Kept(r.rows, I)
             values == [i \in DOMAIN cells |-> cells[i].value]
  <1>1. I \subseteq 1..Len(r.rows)
    OBVIOUS
  <1>2. Extract(r, type) = values
    BY DEF Extract
  <1> HIDE DEF I
  <1>3. IsList(cells)
    BY <1>1, KeptIsAList
  <1> HIDE DEF cells
  <1>4. Len(cells) \in Nat /\ DOMAIN cells = 1..Len(cells)
    BY <1>3, ListsHaveALength
  <1>5. values = [i \in 1..Len(cells) |-> values[i]]
    BY <1>4
  <1> HIDE DEF values
  <1> QED
    BY <1>2, <1>4, <1>5, FunctionsAreLists

LEMMA ClassesAreAList ==
  ASSUME NEW r \in Responses["enumeration"], IsAReadableResult(SelectIris(r))
  PROVE  IsList(SelectIris(r).bindings)
  <1>1. SelectIris(r).bodyKind = "SparqlJson"
    BY DEF IsAReadableResult
  <1>2. r # NoResponse
    <2>1. Failed.bodyKind = "None"
      BY DEF Failed, Blank
    <2> SUFFICES ASSUME r = NoResponse PROVE FALSE
      OBVIOUS
    <2>2. SelectIris(r) = Failed
      BY <2>1 DEF SelectIris, GetWithBody
    <2> QED
      BY <1>1, <2>1, <2>2
  <1>3. IsList(Extract(r, "uri"))
    BY <1>2, ProbingAssumption, CellsAreAList
  <1>4. GetWithBody(r).bodyKind = "SparqlJson"
    BY <1>1 DEF SelectIris
  <1>5. "bindings" \in DOMAIN GetWithBody(r)
    BY <1>2 DEF GetWithBody, Blank
  <1>6. SelectIris(r).bindings = Extract(r, "uri")
    BY <1>4, <1>5 DEF SelectIris
  <1> QED
    BY <1>3, <1>6

LEMMA AHeadIsThere ==
  ASSUME NEW list, IsList(list), list # <<>>
  PROVE  1 \in DOMAIN list
  <1>1. Len(list) \in Nat /\ DOMAIN list = 1..Len(list)
    BY ListsHaveALength
  <1>2. Len(list) # 0
    BY DEF IsList
  <1> QED
    BY <1>1, <1>2

\* Of the passes, what is kept of the one at hand and of those before it.
LEMMA PassesStillKept ==
  ASSUME Agreed, plan' = plan, at \in DOMAIN Due, Profiling(at + 1),
         \/ pc = "profiling" /\ acc'.notMeasured = acc.notMeasured
         \/ /\ pc = "enumerating"
            /\ Names(acc'.notMeasured) \subseteq Names(acc.notMeasured) \cup {Due[at].id}
  PROVE  \A id : KeptByAPass(id) => KeptByAPass(id)'
  <1>1. PlanParts /\ Loaded(Due) /\ Due' = Due /\ End' = End
    BY DEF Agreed, Accounted, PlanParts, Due, End
  <1>2. at + 1 \in 1..End
    BY <1>1 DEF Loaded, End
  <1>3. /\ pc' \in {"deriving", "enumerating"}
        /\ pc' = "enumerating" => Passes(Due, at + 1) \subseteq Passes(Due, at')
    BY <1>1, <1>2, TheNextPassIsLater
  <1>4. Passes(Due, at) \subseteq Passes(Due, at + 1) /\ Due[at].id \notin Passes(Due, at)
    BY <1>1, OneMore DEF Passes
  <1>5. ASSUME NEW id, KeptByAPass(id) PROVE KeptByAPass(id)'
    <2>1. id \in Passes(Due, End) /\ id \in Passes(Due, at + 1)
      BY <1>4, <1>5 DEF KeptByAPass
    <2>2. id \notin Names(acc'.notMeasured)
      BY <1>4, <1>5 DEF KeptByAPass
    <2> QED
      BY <1>1, <1>3, <2>1, <2>2 DEF KeptByAPass
  <1> QED
    BY <1>5

LEMMA EnumeratingIsBacked ==
  ASSUME Agreed, Enumerate
  PROVE  Backed'
  <1>1. /\ PlanParts /\ Loaded(Due) /\ plan' = plan /\ DOMAIN acc = DOMAIN Nothing
        /\ pc = "enumerating" /\ at \in DOMAIN Due /\ PassesTold(Due, acc, at)
        /\ Due[at].kind = "ClassProfile" /\ Due' = Due /\ End' = End
    BY DEF Agreed, Accounted, PlanParts, Standing, Enumerate, Due, End
  <1>2. SamplesStand /\ ProfilesStand /\ IsList(acc.samples) /\ IsList(acc.profiles)
    BY DEF Agreed, Backed
  <1> DEFINE Finding(classes) ==
               /\ acc' = [acc EXCEPT !.enumerated = TRUE,
                            !.samples = IF Due[at].sampleLimit = None THEN @
                                        ELSE Append(@, SampleOf(Due[at], classes))]
               /\ pass' = [NoPass EXCEPT !.classes = classes, !.class = 1, !.rung = 1]
               /\ pc' = "profiling" /\ at' = at
  <1>3. \/ /\ acc' = [acc EXCEPT !.notMeasured = Append(@, Fact(Due[at], "enumeration-failed")),
                        !.unreached = Append(@, [metric |-> Due[at].id, classes |-> <<>>])]
           /\ Profiling(at + 1)
        \/ acc' = [acc EXCEPT !.enumerated = TRUE] /\ Profiling(at + 1)
        \/ \E classes : IsList(classes) /\ classes # <<>> /\ Finding(classes)
    <2>1. PICK r \in Responses["enumeration"] \cup {Expired} :
            LET o == Observing(r, SelectIris(r)) IN
            IF o = Expired \/ ~IsAReadableResult(o)
            THEN /\ acc' = [acc EXCEPT !.notMeasured = Append(@, Fact(Due[at], "enumeration-failed")),
                              !.unreached = Append(@, [metric |-> Due[at].id, classes |-> <<>>])]
                 /\ Profiling(at + 1)
            ELSE IF o.bindings = <<>>
            THEN acc' = [acc EXCEPT !.enumerated = TRUE] /\ Profiling(at + 1)
            ELSE Finding(o.bindings)
      BY DEF Enumerate
    <2> DEFINE o == Observing(r, SelectIris(r))
    <2> HIDE DEF Finding
    <2>2. CASE o # Expired /\ IsAReadableResult(o) /\ o.bindings # <<>>
      <3>1. Finding(o.bindings)
        BY <2>1, <2>2
      <3>2. o = SelectIris(r) /\ r \in Responses["enumeration"]
        BY <2>2 DEF Observing
      <3>3. IsList(o.bindings)
        BY <2>2, <3>2, ClassesAreAList
      <3> QED
        BY <2>2, <3>1, <3>3
    <2>3. CASE ~(o # Expired /\ IsAReadableResult(o) /\ o.bindings # <<>>)
      BY <2>1, <2>3
    <2> QED
      BY <2>2, <2>3
  <1>4. ASSUME Profiling(at + 1), acc'.rows = acc.rows, acc'.samples = acc.samples,
               acc'.profiles = acc.profiles,
               Names(acc'.notMeasured) \subseteq Names(acc.notMeasured) \cup {Due[at].id}
        PROVE  Backed'
    <2>1. \A id : KeptByAPass(id) => KeptByAPass(id)'
      BY <1>1, <1>4, PassesStillKept
    <2>2. SamplesStand'
      BY <1>1, <1>2, <1>4, <2>1, SamplesStillStand
    <2>3. ProfilesStand'
      BY <1>1, <1>2, <1>4, ProfilesStillStand
    <2>4. pc' \in {"deriving", "enumerating"}
      BY <1>4 DEF Profiling
    <2> QED
      BY <1>2, <1>4, <2>2, <2>3, <2>4 DEF Backed
  <1>5. CASE /\ acc' = [acc EXCEPT !.notMeasured = Append(@, Fact(Due[at], "enumeration-failed")),
                          !.unreached = Append(@, [metric |-> Due[at].id, classes |-> <<>>])]
             /\ Profiling(at + 1)
    <2> DEFINE fact == Fact(Due[at], "enumeration-failed")
    <2>1. /\ acc'.notMeasured = Append(acc.notMeasured, fact) /\ acc'.rows = acc.rows
          /\ acc'.samples = acc.samples /\ acc'.profiles = acc.profiles
      BY <1>1, <1>5 DEF Nothing
    <2>2. fact.metric = Due[at].id
      BY DEF Fact
    <2> HIDE DEF fact
    <2>3. Due[at].id \notin Names(acc.notMeasured) /\ NamesOnce(acc.notMeasured)
      BY <1>1, OneMore DEF PassesTold, Passes, Agreed, Accounted
    <2>4. Names(acc'.notMeasured) = Names(acc.notMeasured) \cup {Due[at].id}
      BY <2>1, <2>2, <2>3, AppendNames
    <2> QED
      BY <1>4, <1>5, <2>1, <2>4
  <1>6. CASE acc' = [acc EXCEPT !.enumerated = TRUE] /\ Profiling(at + 1)
    <2>1. /\ acc'.notMeasured = acc.notMeasured /\ acc'.rows = acc.rows
          /\ acc'.samples = acc.samples /\ acc'.profiles = acc.profiles
      BY <1>1, <1>6 DEF Nothing
    <2> QED
      BY <1>4, <1>6, <2>1
  <1>7. ASSUME NEW classes, IsList(classes), classes # <<>>, Finding(classes) PROVE Backed'
    <2> DEFINE sample == SampleOf(Due[at], classes)
    <2>1. /\ acc'.notMeasured = acc.notMeasured /\ acc'.rows = acc.rows
          /\ acc'.profiles = acc.profiles /\ pc' = "profiling" /\ at' = at
          /\ acc'.samples = IF Due[at].sampleLimit = None THEN acc.samples
                            ELSE Append(acc.samples, sample)
      BY <1>1, <1>7 DEF Nothing
    <2>2. /\ pass'.classes = classes /\ pass'.class = 1 /\ pass'.outcome = NothingProfiled
          /\ DOMAIN pass' = DOMAIN NoPass
      BY <1>7 DEF NoPass
    <2>3. sample.metric = Due[at].id /\ sample.values = classes
      BY DEF SampleOf
    <2> HIDE DEF sample, Finding
    <2>4. IsList(acc.samples) /\ DOMAIN acc.samples = 1..Len(acc.samples) /\ Len(acc.samples) \in Nat
      BY <1>2, ListsHaveALength
    <2>5. Due[at].sampleLimit # None =>
            /\ IsList(acc'.samples) /\ DOMAIN acc'.samples = 1..(Len(acc.samples) + 1)
            /\ \A i \in DOMAIN acc.samples : acc'.samples[i] = acc.samples[i]
            /\ acc'.samples[Len(acc.samples) + 1] = sample
      BY <2>1, <2>4, AppendedList
    <2>6. /\ IsList(acc'.samples)
          /\ \A i \in DOMAIN acc.samples : i \in DOMAIN acc'.samples /\ acc'.samples[i] = acc.samples[i]
          /\ \A i \in DOMAIN acc'.samples : \/ i \in DOMAIN acc.samples /\ acc'.samples[i] = acc.samples[i]
                                            \/ acc'.samples[i] = sample
          /\ Due[at].sampleLimit # None => \E i \in DOMAIN acc'.samples : acc'.samples[i] = sample
      <3>1. CASE Due[at].sampleLimit = None
        BY <1>2, <2>1, <3>1
      <3>2. CASE Due[at].sampleLimit # None
        BY <2>4, <2>5, <3>2
      <3> QED
        BY <3>1, <3>2
    <2>7. /\ Passes(Due, at + 1) = Passes(Due, at) \cup {Due[at].id}
          /\ Due[at].id \notin Passes(Due, at)
      BY <1>1, OneMore DEF Passes
    <2>8. \A id : KeptByAPass(id) => KeptByAPass(id)'
      BY <1>1, <2>1, <2>7 DEF KeptByAPass
    <2>9. ASSUME NEW id, id = Due[at].id PROVE KeptByAPass(id)'
      <3>1. id \in Passes(Due, End)
        <4>1. at < End
          BY <1>1 DEF Loaded, End
        <4> QED
          BY <1>1, <2>9, <4>1 DEF Passes, OfKind
      <3>2. id \notin Names(acc.notMeasured)
        BY <1>1, <2>7, <2>9 DEF PassesTold
      <3> QED
        BY <1>1, <2>1, <2>7, <2>9, <3>1, <3>2 DEF KeptByAPass
    <2>10. SamplesStand'
      <3>1. ASSUME NEW i \in DOMAIN acc'.samples, NEW id, id = acc'.samples[i].metric
            PROVE  (id \in Dispatched(Due, End) /\ Confirms(acc'.rows, id)) \/ KeptByAPass(id)'
        <4>1. CASE i \in DOMAIN acc.samples /\ acc'.samples[i] = acc.samples[i]
          BY <1>2, <2>1, <2>8, <3>1, <4>1 DEF SamplesStand
        <4>2. CASE acc'.samples[i] = sample
          BY <2>3, <2>9, <3>1, <4>2
        <4> QED
          BY <2>6, <4>1, <4>2
      <3> QED
        BY <1>1, <3>1 DEF SamplesStand
    <2>11. ProfilesStand'
      BY <1>1, <1>2, <2>1, <2>6, ProfilesStillStand
    <2>12. PassStands'
      <3>1. 1 \in DOMAIN classes
        BY <1>7, AHeadIsThere
      <3>2. /\ DOMAIN pass'.outcome = DOMAIN NothingProfiled /\ pass'.outcome.profiles = <<>>
        BY <2>2 DEF NothingProfiled
      <3>3. ASSUME NEW class, Contains(classes, class), NEW i, i = at
            PROVE  SampledWhere(i, class)'
        <4>1. Due'[i].sampleLimit # None => \E k \in DOMAIN acc'.samples : acc'.samples[k] = sample
          BY <1>1, <2>6, <3>3
        <4> QED
          BY <1>1, <2>3, <3>3, <4>1 DEF SampledWhere
      <3> QED
        <4>1. \A class : Contains(pass'.classes, class) => SampledWhere(at, class)'
          BY <2>1, <2>2, <3>3
        <4>2. IsList(pass'.outcome.profiles) /\ DOMAIN pass'.outcome.profiles = {}
          BY <3>2, EmptyListNames DEF NamesOnce
        <4> QED
          BY <1>7, <2>2, <3>1, <3>2, <4>1, <4>2 DEF PassStands
    <2> QED
      BY <1>2, <2>1, <2>6, <2>10, <2>11, <2>12 DEF Backed
  <1> QED
    BY <1>3, <1>5, <1>6, <1>7

LEMMA ProfiledIsBacked ==
  ASSUME PassStands, NEW o
  PROVE  LET outcome == Profiled(o) IN
         /\ DOMAIN outcome = DOMAIN NothingProfiled /\ IsList(outcome.profiles)
         /\ \A i \in DOMAIN outcome.profiles : Contains(pass.classes, outcome.profiles[i].class)
  <1> DEFINE outcome == Profiled(o)
             profile == [class |-> Class, sampling |-> Rungs[pass.rung], rows |-> o.profile]
  <1>1. /\ DOMAIN pass.outcome = DOMAIN NothingProfiled /\ IsList(pass.outcome.profiles)
        /\ \A i \in DOMAIN pass.outcome.profiles :
             Contains(pass.classes, pass.outcome.profiles[i].class)
    BY DEF PassStands
  <1>2. Contains(pass.classes, Class)
    <2>1. DOMAIN pass.classes = 1..Len(pass.classes)
      BY ListsHaveALength DEF PassStands
    <2> QED
      BY <2>1 DEF PassStands, Contains, Class
  <1>3. profile.class = Class
    OBVIOUS
  <1>4. \/ outcome = pass.outcome
        \/ outcome = [pass.outcome EXCEPT !.unreached = Append(@, Class)]
        \/ outcome = [pass.outcome EXCEPT !.profiles = Append(@, profile)]
    BY DEF Profiled
  <1> HIDE DEF outcome, profile
  <1>5. DOMAIN NothingProfiled = {"profiles", "unreached"}
    BY DEF NothingProfiled
  <1>6. CASE outcome = pass.outcome \/ outcome = [pass.outcome EXCEPT !.unreached = Append(@, Class)]
    <2>1. outcome.profiles = pass.outcome.profiles /\ DOMAIN outcome = DOMAIN pass.outcome
      BY <1>1, <1>5, <1>6
    <2> QED
      BY <1>1, <2>1 DEF outcome
  <1>7. CASE outcome = [pass.outcome EXCEPT !.profiles = Append(@, profile)]
    <2>1. outcome.profiles = Append(pass.outcome.profiles, profile) /\ DOMAIN outcome = DOMAIN pass.outcome
      BY <1>1, <1>5, <1>7
    <2>2. /\ DOMAIN pass.outcome.profiles = 1..Len(pass.outcome.profiles)
          /\ Len(pass.outcome.profiles) \in Nat
      BY <1>1, ListsHaveALength
    <2>3. /\ IsList(outcome.profiles)
          /\ DOMAIN outcome.profiles = 1..(Len(pass.outcome.profiles) + 1)
          /\ \A i \in DOMAIN pass.outcome.profiles : outcome.profiles[i] = pass.outcome.profiles[i]
          /\ outcome.profiles[Len(pass.outcome.profiles) + 1] = profile
      BY <1>1, <2>1, AppendedList
    <2>4. \A i \in DOMAIN outcome.profiles :
            \/ i \in DOMAIN pass.outcome.profiles /\ outcome.profiles[i] = pass.outcome.profiles[i]
            \/ outcome.profiles[i] = profile
      BY <2>2, <2>3
    <2>5. \A i \in DOMAIN outcome.profiles : Contains(pass.classes, outcome.profiles[i].class)
      BY <1>1, <1>2, <1>3, <2>4
    <2> QED
      BY <1>1, <2>1, <2>3, <2>5 DEF outcome
  <1> QED
    BY <1>4, <1>6, <1>7

\* What a finished pass publishes: its profiles, of classes that it sampled.
LEMMA PublishedIsBacked ==
  ASSUME DOMAIN acc = DOMAIN Nothing, IsList(acc.profiles), NEW outcome,
         DOMAIN outcome = DOMAIN NothingProfiled, IsList(outcome.profiles),
         acc' = Published(outcome)
  PROVE  /\ acc'.rows = acc.rows /\ acc'.samples = acc.samples
         /\ acc'.notMeasured = acc.notMeasured /\ IsList(acc'.profiles)
         /\ \A k \in DOMAIN acc'.profiles :
              \/ k \in DOMAIN acc.profiles /\ acc'.profiles[k] = acc.profiles[k]
              \/ \E i \in DOMAIN outcome.profiles :
                   /\ acc'.profiles[k].metric = Due[at].id
                   /\ acc'.profiles[k].class = outcome.profiles[i].class
  <1> DEFINE named == NameUnreached(outcome, pass.classes)
             Published1(p) == [metric |-> Due[at].id, class |-> p.class,
                               sampling |-> p.sampling.slug, prefix |-> p.sampling.prefix,
                               rows |-> p.rows]
             added == [i \in DOMAIN named.profiles |-> Published1(named.profiles[i])]
  <1>1. /\ acc'.rows = acc.rows /\ acc'.samples = acc.samples
        /\ acc'.notMeasured = acc.notMeasured /\ acc'.profiles = acc.profiles \o added
    BY DEF Published, Nothing
  <1>2. named.profiles = outcome.profiles
    BY DEF NameUnreached, NothingProfiled
  <1> HIDE DEF named
  <1>3. \A i \in DOMAIN outcome.profiles : /\ added[i].metric = Due[at].id
                                           /\ added[i].class = outcome.profiles[i].class
    BY <1>2
  <1>4. /\ Len(outcome.profiles) \in Nat /\ DOMAIN outcome.profiles = 1..Len(outcome.profiles)
    BY ListsHaveALength
  <1>5. DOMAIN added = DOMAIN outcome.profiles /\ added = [i \in 1..Len(outcome.profiles) |-> added[i]]
    BY <1>2, <1>4
  <1> HIDE DEF added
  <1>6. IsList(added)
    BY <1>4, <1>5, FunctionsAreLists
  <1>7. /\ IsList(acc'.profiles)
        /\ \A k \in DOMAIN acc'.profiles :
             \/ k \in DOMAIN acc.profiles /\ acc'.profiles[k] = acc.profiles[k]
             \/ /\ k - Len(acc.profiles) \in DOMAIN added
                /\ acc'.profiles[k] = added[k - Len(acc.profiles)]
    BY <1>1, <1>6, JoinedList
  <1>8. ASSUME NEW k \in DOMAIN acc'.profiles
        PROVE  \/ k \in DOMAIN acc.profiles /\ acc'.profiles[k] = acc.profiles[k]
               \/ \E i \in DOMAIN outcome.profiles :
                    /\ acc'.profiles[k].metric = Due[at].id
                    /\ acc'.profiles[k].class = outcome.profiles[i].class
    BY <1>3, <1>5, <1>7, <1>8
  <1> QED
    BY <1>1, <1>7, <1>8

LEMMA AskingAClassIsBacked ==
  ASSUME Agreed, AskClass
  PROVE  Backed'
  <1>1. /\ PlanParts /\ Loaded(Due) /\ plan' = plan /\ DOMAIN acc = DOMAIN Nothing
        /\ pc = "profiling" /\ at \in DOMAIN Due /\ Due' = Due /\ End' = End
    BY DEF Agreed, Accounted, PlanParts, Standing, AskClass, Due, End
  <1>2. /\ SamplesStand /\ ProfilesStand /\ IsList(acc.samples) /\ IsList(acc.profiles)
        /\ PassStands
    BY <1>1 DEF Agreed, Backed
  <1>3. PICK o : LET outcome == Profiled(o)
                     settled == outcome # pass.outcome
                 IN IF settled /\ pass.class = Len(pass.classes)
                    THEN acc' = Published(outcome) /\ Profiling(at + 1)
                    ELSE /\ pass' = [pass EXCEPT !.outcome = outcome,
                                       !.class = IF settled THEN @ + 1 ELSE @,
                                       !.rung = IF settled THEN 1 ELSE @ + 1]
                         /\ UNCHANGED <<acc, pc, at>>
    BY DEF AskClass
  <1> DEFINE outcome == Profiled(o)
  <1>4. /\ DOMAIN outcome = DOMAIN NothingProfiled /\ IsList(outcome.profiles)
        /\ \A i \in DOMAIN outcome.profiles : Contains(pass.classes, outcome.profiles[i].class)
    BY <1>2, ProfiledIsBacked
  <1>5. \/ acc' = Published(outcome) /\ Profiling(at + 1)
        \/ /\ pass' = [pass EXCEPT !.outcome = outcome,
                         !.class = IF outcome # pass.outcome THEN @ + 1 ELSE @,
                         !.rung = IF outcome # pass.outcome THEN 1 ELSE @ + 1]
           /\ outcome # pass.outcome => pass.class # Len(pass.classes)
           /\ UNCHANGED <<acc, pc, at>>
    BY <1>3
  <1> HIDE DEF outcome
  <1>6. CASE acc' = Published(outcome) /\ Profiling(at + 1)
    <2>1. /\ acc'.rows = acc.rows /\ acc'.samples = acc.samples
          /\ acc'.notMeasured = acc.notMeasured /\ IsList(acc'.profiles)
          /\ \A k \in DOMAIN acc'.profiles :
               \/ k \in DOMAIN acc.profiles /\ acc'.profiles[k] = acc.profiles[k]
               \/ \E i \in DOMAIN outcome.profiles :
                    /\ acc'.profiles[k].metric = Due[at].id
                    /\ acc'.profiles[k].class = outcome.profiles[i].class
      BY <1>1, <1>2, <1>4, <1>6, PublishedIsBacked
    <2>2. SamplesStand'
      <3>1. \A id : KeptByAPass(id) => KeptByAPass(id)'
        BY <1>1, <1>6, <2>1, PassesStillKept
      <3> QED
        BY <1>1, <1>2, <2>1, <3>1, SamplesStillStand
    <2>3. ASSUME NEW k \in DOMAIN acc'.profiles, NEW i \in DOMAIN Due,
                 Due[i].id = acc'.profiles[k].metric, NEW class, class = acc'.profiles[k].class
          PROVE  SampledWhere(i, class)'
      <3>1. SampledWhere(i, class)
        <4>1. CASE k \in DOMAIN acc.profiles /\ acc'.profiles[k] = acc.profiles[k]
          BY <1>2, <2>3, <4>1 DEF ProfilesStand
        <4>2. CASE \E j \in DOMAIN outcome.profiles :
                     /\ acc'.profiles[k].metric = Due[at].id
                     /\ acc'.profiles[k].class = outcome.profiles[j].class
          <5>1. i = at
            BY <1>1, <2>3, <4>2 DEF Loaded
          <5>2. Contains(pass.classes, class)
            BY <1>4, <2>3, <4>2
          <5> QED
            BY <1>2, <5>1, <5>2 DEF PassStands
        <4> QED
          BY <2>1, <4>1, <4>2
      <3> QED
        BY <1>1, <2>1, <3>1, SampledStays
    <2>4. ProfilesStand'
      BY <1>1, <2>3 DEF ProfilesStand
    <2>5. pc' \in {"deriving", "enumerating"}
      BY <1>6 DEF Profiling
    <2> QED
      BY <1>2, <2>1, <2>2, <2>4, <2>5 DEF Backed
  <1>7. CASE /\ pass' = [pass EXCEPT !.outcome = outcome,
                           !.class = IF outcome # pass.outcome THEN @ + 1 ELSE @,
                           !.rung = IF outcome # pass.outcome THEN 1 ELSE @ + 1]
             /\ outcome # pass.outcome => pass.class # Len(pass.classes)
             /\ UNCHANGED <<acc, pc, at>>
    <2>1. DOMAIN pass = {"classes", "class", "rung", "outcome"}
      BY <1>2 DEF PassStands, NoPass
    <2>2. /\ DOMAIN pass' = DOMAIN pass /\ pass'.classes = pass.classes /\ pass'.outcome = outcome
          /\ pass'.class = IF outcome # pass.outcome THEN pass.class + 1 ELSE pass.class
      BY <1>7, <2>1
    <2>3. pass'.class \in DOMAIN pass'.classes
      <3>1. DOMAIN pass.classes = 1..Len(pass.classes) /\ Len(pass.classes) \in Nat
        BY <1>2, ListsHaveALength DEF PassStands
      <3> QED
        BY <1>2, <1>7, <2>2, <3>1 DEF PassStands
    <2>4. \A class, i : SampledWhere(i, class) => SampledWhere(i, class)'
      BY <1>1, <1>7, SampledStays
    <2>5. \A class : Contains(pass'.classes, class) => SampledWhere(at, class)'
      <3>1. \A class, i : i = at /\ Contains(pass.classes, class) => SampledWhere(i, class)'
        BY <1>2, <2>4 DEF PassStands
      <3> QED
        BY <1>7, <2>2, <3>1
    <2>6. PassStands'
      BY <1>2, <1>4, <2>2, <2>3, <2>5 DEF PassStands
    <2>7. SamplesStand' /\ ProfilesStand'
      <3>1. \A id : KeptByAPass(id) => KeptByAPass(id)'
        BY <1>1, <1>7 DEF KeptByAPass
      <3> QED
        BY <1>1, <1>2, <1>7, <3>1, SamplesStillStand, ProfilesStillStand
    <2> QED
      BY <1>1, <1>2, <1>7, <2>6, <2>7 DEF Backed
  <1> QED
    BY <1>5, <1>6, <1>7

\* The vocabulary is confirmed exactly when the passes found a class.
LEMMA DerivedVerdict ==
  ASSUME NEW def, def.kind = "VocabularyDescribed", NEW claim, NEW found, NEW looked
  PROVE  Resolve(def, claim, Derived(found, looked)) \in Positive <=> found # <<>>
  <1> DEFINE o == Derived(found, looked)
  <1>1. /\ o.bindings = found /\ o.error = FALSE /\ o.bodyKind \in {"SparqlJson", "None"}
        /\ "error" \in DOMAIN o
    BY DEF Derived, Blank
  <1>2. o # Expired
    <2>1. "error" \notin DOMAIN Expired
      BY DEF Expired
    <2> QED
      BY <1>1, <2>1
  <1> HIDE DEF o
  <1>3. ~Unread(o)
    BY <1>1, <1>2 DEF Unread
  <1>4. Resolve(def, claim, o) = ResolveVocabulary(def, claim, o)
    BY <1>3, Zenon DEF Resolve
  <1>5. CASE found # <<>>
    BY <1>1, <1>4, <1>5, ConfirmedIsPositive DEF ResolveVocabulary, o
  <1>6. CASE found = <<>>
    <2>1. Resolve(def, claim, o) \in {Indeterminate, DeclaredOnly, Absent}
      BY <1>1, <1>4, <1>6 DEF ResolveVocabulary, Ruling
    <2> QED
      BY <1>6, <2>1, VerdictsDiffer DEF o
  <1> QED
    BY <1>5, <1>6

LEMMA DerivingIsBacked ==
  ASSUME Agreed, Derive
  PROVE  Backed'
  <1> DEFINE I == {i \in DOMAIN Due : Due[i].kind = "VocabularyDescribed"}
             derived == Kept(Due, I)
             found == [i \in DOMAIN acc.profiles |-> acc.profiles[i].class]
             claim == [claimed |-> acc.described.classes # {}, value |-> None]
             graded == [i \in DOMAIN derived |->
                          Row(derived[i], Resolve(derived[i], claim, Derived(found, acc.enumerated)),
                              None, None, None, Expired)]
  <1>1. /\ Accounted /\ PlanParts /\ Loaded(Due) /\ DOMAIN acc = DOMAIN Nothing /\ pc = "deriving"
        /\ plan' = plan /\ pc' = "done" /\ Due' = Due /\ End' = End
        /\ Names(acc.rows) = Dispatched(Due, End)
    BY DEF Agreed, Accounted, PlanParts, Standing, Derive, Due, End
  <1>2. /\ acc'.rows = acc.rows \o graded /\ acc'.samples = acc.samples
        /\ acc'.profiles = acc.profiles /\ acc'.notMeasured = acc.notMeasured
    BY <1>1 DEF Derive, Nothing
  <1>3. /\ Loaded(derived) /\ \A k \in DOMAIN derived : \E i \in I : derived[k] = Due[i]
    <2>1. I \in SUBSET DOMAIN Due
      OBVIOUS
    <2> HIDE DEF I
    <2> QED
      BY <1>1, <2>1, KeptIsLoaded
  <1>4. found # <<>> <=> acc.profiles # <<>>
    <2>1. IsList(acc.profiles)
      BY DEF Agreed, Backed
    <2>2. Len(acc.profiles) \in Nat /\ DOMAIN acc.profiles = 1..Len(acc.profiles)
      BY <2>1, ListsHaveALength
    <2>3. found = [i \in 1..Len(acc.profiles) |-> found[i]]
      BY <2>2
    <2> HIDE DEF found
    <2>4. IsList(found) /\ Len(found) = Len(acc.profiles)
      BY <2>2, <2>3, FunctionsAreLists
    <2> QED
      BY <2>1, <2>4 DEF IsList
  <1> HIDE DEF I, derived, claim, found
  <1>5. /\ DOMAIN graded = DOMAIN derived
        /\ graded = [i \in DOMAIN derived |-> graded[i]]
        /\ \A i \in DOMAIN derived :
             graded[i].verdict = Resolve(derived[i], claim, Derived(found, acc.enumerated))
    BY DEF Row
  <1> HIDE DEF graded
  <1>6. IsList(graded)
    BY <1>3, <1>5, FunctionsAreLists DEF Loaded
  <1>7. \A k \in DOMAIN graded : graded[k].verdict \in Positive <=> acc.profiles # <<>>
    <2> TAKE k \in DOMAIN graded
    <2>1. derived[k].kind = "VocabularyDescribed"
      BY <1>3, <1>5 DEF I
    <2> QED
      BY <1>4, <1>5, <2>1, DerivedVerdict
  <1>8. \A i \in DOMAIN acc.rows : i \in DOMAIN acc'.rows /\ acc'.rows[i] = acc.rows[i]
    BY <1>1, <1>2, <1>6, RowsAreOnlyAdded
  <1>9. VocabularyStands'
    <2>1. \A k \in DOMAIN acc'.rows : \/ k \in DOMAIN acc.rows /\ acc'.rows[k] = acc.rows[k]
                                      \/ \E l \in DOMAIN graded : acc'.rows[k] = graded[l]
      <3>1. IsList(acc.rows)
        BY <1>1 DEF Accounted, NamesOnce
      <3> QED
        BY <1>2, <1>6, <3>1, JoinedList
    <2>2. \A i \in DOMAIN Due, k \in DOMAIN acc.rows :
            Due[i].kind = "VocabularyDescribed" => acc.rows[k].metric # Due[i].id
      BY <1>1, NoVocabularyRow
    <2>3. ASSUME NEW i \in DOMAIN Due, NEW k \in DOMAIN acc'.rows,
                 Due[i].kind = "VocabularyDescribed", acc'.rows[k].metric = Due[i].id
          PROVE  acc'.rows[k].verdict \in Positive <=> acc'.profiles # <<>>
      BY <1>2, <1>7, <2>1, <2>2, <2>3
    <2> QED
      BY <1>1, <2>3 DEF VocabularyStands
  <1>10. SamplesStand'
    <2>1. \A id : KeptByAPass(id) => KeptByAPass(id)'
      BY <1>1, <1>2 DEF KeptByAPass
    <2> QED
      BY <1>1, <1>2, <1>8, <2>1, SamplesStillStand DEF Agreed, Backed
  <1>11. ProfilesStand'
    BY <1>1, <1>2, ProfilesStillStand DEF Agreed, Backed
  <1> QED
    BY <1>1, <1>2, <1>9, <1>10, <1>11 DEF Agreed, Backed

LEMMA InitIsBacked == Init => Backed
  <1> SUFFICES ASSUME Init PROVE Backed
    OBVIOUS
  <1>1. acc.samples = <<>> /\ acc.profiles = <<>> /\ pc \in {"liveness", "describing"}
    BY DEF Init, Nothing, Start
  <1> QED
    BY <1>1, EmptyListNames DEF Backed, SamplesStand, ProfilesStand, NamesOnce

LEMMA StepAgrees == Agreed /\ [Next]_vars => Agreed'
  <1> SUFFICES ASSUME Agreed, [Next]_vars PROVE Agreed'
    OBVIOUS
  <1>1. Accounted'
    BY StepAccounts DEF Agreed
  <1>2. Backed'
    <2>1. CASE UNCHANGED vars
      BY <2>1 DEF vars, Agreed, Backed, SamplesStand, ProfilesStand, PassStands, VocabularyStands,
                  SampledWhere, KeptByAPass, Due, End
    <2>2. CASE Next
      BY <2>2, FirstRequestsAreBacked, MeasuringIsBacked, StoppingIsBacked, EnumeratingIsBacked,
         AskingAClassIsBacked, DerivingIsBacked, ExpiryIsBacked DEF Next
    <2> QED
      BY <2>1, <2>2
  <1> QED
    BY <1>1, <1>2 DEF Agreed

LEMMA SpecAgrees == Spec => []Agreed
  <1>1. Init => Agreed
    BY InitAccounts, InitIsBacked DEF Agreed
  <1> QED
    BY <1>1, StepAgrees, PTL DEF Spec

LEMMA BackedFactsAgree == Agreed => FactsAgree
  <1> SUFFICES ASSUME Agreed PROVE FactsAgree
    OBVIOUS
  <1> DEFINE Metric(list, metric) == {list[i] : i \in {j \in DOMAIN list : list[j].metric = metric}}
             IsPass(metric) == \E i \in DOMAIN Due : Due[i].id = metric /\ Due[i].kind = "ClassProfile"
  <1>1. /\ Facts.rows = acc.rows /\ Facts.samples = acc.samples /\ Facts.profiles = acc.profiles
        /\ pc # "lost" => Facts.notMeasured = acc.notMeasured \o plan.declined
    BY DEF Facts
  <1>2. /\ PlanParts /\ Loaded(Due) /\ NamesOnce(plan.declined) /\ NamesOnce(acc.notMeasured)
        /\ Names(plan.declined) \cap Ids(Due) = {} /\ SamplesStand /\ ProfilesStand
    BY DEF Agreed, Accounted, Backed, PlanParts
  <1>3. ASSUME NEW i \in DOMAIN acc.samples
        PROVE  IF IsPass(acc.samples[i].metric) THEN Metric(Facts.notMeasured, acc.samples[i].metric) = {}
               ELSE \E row \in Metric(acc.rows, acc.samples[i].metric) :
                      row.verdict \in {Verified, UndeclaredButVerified}
    <2> DEFINE id == acc.samples[i].metric
    <2>1. (id \in Dispatched(Due, End) /\ Confirms(acc.rows, id)) \/ KeptByAPass(id)
      BY <1>2 DEF SamplesStand
    <2>2. IsPass(id) <=> id \in Passes(Due, End)
      <3>1. \A j \in DOMAIN Due : j < End
        BY <1>2 DEF Loaded, End
      <3> QED
        BY <3>1 DEF Passes, OfKind
    <2>3. CASE id \in Dispatched(Due, End) /\ Confirms(acc.rows, id)
      <3>1. ~IsPass(id)
        <4>1. ~DispatchedPerMetric("ClassProfile")
          BY DEF DispatchedPerMetric
        <4> QED
          BY <1>2, <2>2, <2>3, <4>1, KindsApart DEF Passes
      <3>2. PICK j \in DOMAIN acc.rows : acc.rows[j].metric = id /\ acc.rows[j].verdict \in Positive
        BY <2>3 DEF Confirms
      <3>3. acc.rows[j] \in Metric(acc.rows, id)
        BY <3>2
      <3> QED
        BY <3>1, <3>2, <3>3 DEF Positive
    <2>4. CASE KeptByAPass(id)
      <3>1. IsPass(id) /\ id \in Ids(Due) /\ id \notin Names(acc.notMeasured)
        BY <1>2, <2>2, <2>4, KindsApart DEF KeptByAPass, Passes
      <3>2. pc # "lost"
        <4> SUFFICES ASSUME pc = "lost" PROVE FALSE
          OBVIOUS
        <4>1. acc = Nothing
          BY DEF Agreed, Accounted, Standing
        <4> QED
          BY <4>1 DEF Nothing
      <3>3. Names(Facts.notMeasured) = Names(acc.notMeasured) \cup Names(plan.declined)
        <4>1. IsList(acc.notMeasured) /\ IsList(plan.declined)
          BY <1>2 DEF NamesOnce
        <4>2. Names(acc.notMeasured \o plan.declined)
                = Names(acc.notMeasured) \cup Names(plan.declined)
          BY <4>1, JoinedNames
        <4>3. Facts.notMeasured = acc.notMeasured \o plan.declined
          BY <1>1, <3>2
        <4> QED
          BY <4>2, <4>3
      <3>4. id \notin Names(Facts.notMeasured)
        BY <1>2, <3>1, <3>3
      <3>5. Metric(Facts.notMeasured, id) = {}
        BY <3>4 DEF Names
      <3> QED
        BY <3>1, <3>5
    <2> QED
      BY <2>1, <2>3, <2>4
  <1>4. ASSUME NEW k \in DOMAIN acc.profiles, NEW i \in DOMAIN Due,
               Due[i].id = acc.profiles[k].metric, Due[i].sampleLimit # None
        PROVE  \E s \in Metric(acc.samples, acc.profiles[k].metric) :
                 Contains(s.values, acc.profiles[k].class)
    <2>1. SampledWhere(i, acc.profiles[k].class)
      BY <1>2, <1>4 DEF ProfilesStand
    <2>2. PICK l \in DOMAIN acc.samples : /\ acc.samples[l].metric = Due[i].id
                                          /\ Contains(acc.samples[l].values, acc.profiles[k].class)
      BY <1>4, <2>1 DEF SampledWhere
    <2>3. acc.samples[l] \in Metric(acc.samples, acc.profiles[k].metric)
      BY <1>4, <2>2
    <2> QED
      BY <2>2, <2>3
  <1>5. ASSUME Ended, NEW i \in DOMAIN Due, Due[i].kind = "VocabularyDescribed",
               NEW row \in Metric(acc.rows, Due[i].id)
        PROVE  row.verdict \in {Verified, UndeclaredButVerified} <=> acc.profiles # <<>>
    <2>1. PICK k \in DOMAIN acc.rows : acc.rows[k].metric = Due[i].id /\ row = acc.rows[k]
      BY <1>5
    <2>2. CASE pc = "lost"
      <3>1. acc = Nothing
        BY <2>2 DEF Agreed, Accounted, Standing
      <3> QED
        BY <2>1, <3>1 DEF Nothing
    <2>3. CASE pc \in {"done", "expired"}
      BY <1>5, <2>1, <2>3 DEF Agreed, Backed, VocabularyStands, Positive
    <2> QED
      BY <1>5, <2>2, <2>3 DEF Ended
  <1> HIDE DEF Metric, IsPass
  <1>6. \A i \in DOMAIN Facts.samples :
          IF IsPass(Facts.samples[i].metric)
          THEN Metric(Facts.notMeasured, Facts.samples[i].metric) = {}
          ELSE \E row \in Metric(Facts.rows, Facts.samples[i].metric) :
                 row.verdict \in {Verified, UndeclaredButVerified}
    BY <1>1, <1>3
  <1>7. \A k \in DOMAIN Facts.profiles, i \in DOMAIN Due :
          Due[i].id = Facts.profiles[k].metric /\ Due[i].sampleLimit # None =>
            \E s \in Metric(Facts.samples, Facts.profiles[k].metric) :
              Contains(s.values, Facts.profiles[k].class)
    BY <1>1, <1>4
  <1>8. Ended =>
          \A i \in {j \in DOMAIN Due : Due[j].kind = "VocabularyDescribed"} :
            \A row \in Metric(Facts.rows, Due[i].id) :
              row.verdict \in {Verified, UndeclaredButVerified} <=> Facts.profiles # <<>>
    BY <1>1, <1>5
  <1> QED
    BY <1>6, <1>7, <1>8, Zenon DEF FactsAgree, Metric, IsPass

(***************************************************************************)
(* What is published of one endpoint agrees with itself, whatever it       *)
(* answered: each sample stands beside a confirmation or a pass that was   *)
(* not declined, each profile is of a sampled class, and the vocabulary is *)
(* confirmed exactly when a profile is published.                          *)
(***************************************************************************)
THEOREM PublishedFactsAgree == Spec => []FactsAgree
  BY SpecAgrees, BackedFactsAgree, PTL
=============================================================================
