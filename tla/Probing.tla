------------------------------ MODULE Probing ------------------------------
(***************************************************************************)
(* One endpoint in one sweep (prober/src/lib.rs, probe_one_endpoint and    *)
(* probe_endpoint): which metrics are asked, in what order, and what       *)
(* becomes of each.  Every request is one step, in which the endpoint may  *)
(* answer, fail, or keep silent past the metric's budget; at any request   *)
(* the endpoint's own budget may expire, or the task may panic.            *)
(***************************************************************************)
EXTENDS Verdicts, Declarations, Profile, TLC

CONSTANTS Endpoint, MetricFiles, Ceilings, Cadences, Rotations, HashOfEndpoint,
          Memories,    \* what the state file may hold of the endpoint
          Today,       \* the day of the sweep
          Responses    \* to each kind of request, the responses it may have

\* The kinds of metric whose measuring sends a request of its own.
AskedPerMetric(kind) == DispatchedPerMetric(kind) /\ kind # "DereferenceEndpoint"

\* The definitions were loaded, and a response, to the enumeration or any other
\* request, is never what stands for the want of one.
ASSUME ProbingAssumption ==
  /\ \A file \in MetricFiles :
       LoadMetrics(file) /\ Len(file) \in Nat /\ DOMAIN file = 1..Len(file)
  /\ \A kind \in ProbeKind : AskedPerMetric(kind) => Expired \notin Responses[kind]
  /\ \A r \in Responses["enumeration"] \ {NoResponse} :
       Len(r.rows) \in Nat /\ DOMAIN r.rows = 1..Len(r.rows)

VARIABLES plan,        \* the definitions due, the facts on the others, what is remembered
          pc,          \* the request that is next, or how the probing ended
          at,          \* the definition it is for
          prefetched,  \* the liveness response, until it is used or dropped
          fetched,     \* the description, as it was observed
          pass,        \* the profile pass: its classes, the one it is at, the rung, its outcome
          acc,         \* what was earned so far, which outlives the probing
          heard        \* the responses that the rows of the last step rest on

vars == <<plan, pc, at, prefetched, fetched, pass, acc, heard>>

Nothing == [rows |-> <<>>, notMeasured |-> <<>>, samples |-> <<>>, profiles |-> <<>>,
            enumerated |-> FALSE, unreached |-> <<>>, described |-> Empty, read |-> FALSE,
            descriptions |-> <<>>, voids |-> <<>>]

NoPass == [classes |-> <<>>, class |-> 0, rung |-> 0, outcome |-> NothingProfiled]

Due == plan.due
FirstOfKind(kind, from) ==
  LET found == {i \in from..Len(Due) : Due[i].kind = kind}
  IN IF found = {} THEN None ELSE CHOOSE i \in found : \A j \in found : i <= j

Asks(def) == AskedPerMetric(def.kind)

(***************************************************************************)
(* Facts.                                                                  *)
(***************************************************************************)
Spent(o) == IF o = Expired THEN None ELSE "elapsed"

Row(def, verdict, level, stated, counted, o) ==
  [metric |-> def.id, verdict |-> verdict, level |-> level, declared |-> stated,
   observed |-> counted, elapsed |-> Spent(o)]

UnmeasuredRow(def) == Row(def, Resolve(def, NothingDeclared, Expired), None, None, None, Expired)

SampleOf(def, values) ==
  [metric |-> def.id, values |-> values, truncated |-> Len(values) >= def.sampleLimit]

MaySampleUnconfirmed(def, verdict, o) ==
  def.sampleLimit # None /\ o # Expired /\ o.bindings # <<>>

MaySample(def, verdict, o) ==
  /\ def.sampleLimit # None /\ o # Expired /\ o.bindings # <<>>
  /\ verdict \in {Verified, UndeclaredButVerified}

Measured(def, o) ==
  LET declared == Declared(acc.described, def)
      verdict == Resolve(def, declared, o)
      counts == IF def.kind = "Counted" THEN <<declared.value, CountOfAnswer(o)>> ELSE <<None, None>>
      reached == o # Expired /\ ~o.error /\ AnsweredOk(o)
  IN [acc EXCEPT
        !.rows = Append(@, Row(def, verdict, None, counts[1], counts[2], o)),
        !.samples = IF MaySample(def, verdict, o) THEN Append(@, SampleOf(def, o.bindings)) ELSE @,
        !.voids = IF def.kind = "FetchVoid" /\ reached
                  THEN Append(@, [valid |-> o.bodyKind = "Rdf", quads |-> o.body]) ELSE @]

(***************************************************************************)
(* The first gate: one request decides whether the others are worth        *)
(* sending.  An expiry is not an answer that there is nobody.              *)
(***************************************************************************)
Start == IF FirstOfKind("Liveness", 1) = None THEN "describing" ELSE "liveness"

Init ==
  \E file \in MetricFiles, ceiling \in Ceilings, cadence \in Cadences,
     rotation \in Rotations, last \in Memories :
    LET run == CarriedOf(file, ceiling, cadence)
        night == ProfileNight(rotation, HashOfEndpoint)
    IN /\ plan = [due |-> DueOf(run, night), last |-> last, file |-> file,
                  declined |-> DeclinedOf(file, ceiling, cadence) \o HeldOf(run, night)]
       /\ pc = Start /\ at = 0 /\ prefetched = None /\ fetched = None
       /\ pass = NoPass /\ acc = Nothing /\ heard = {}

FindUnreachable ==
  /\ pc = "liveness" /\ NoResponse \in Responses["Liveness"]
  /\ LET live == Due[FirstOfKind("Liveness", 1)]
         others == Kept(Due, {i \in DOMAIN Due : Due[i].id # live.id})
     IN acc' = [acc EXCEPT
          !.rows = <<Row(live, Resolve(live, NothingDeclared, Failed), None, None, None, Failed)>>,
          !.notMeasured = Declining(others, "liveness-failed")]
  /\ pc' = "done" /\ heard' = {NoResponse}
  /\ UNCHANGED <<plan, at, prefetched, fetched, pass>>

FindReachable ==
  /\ pc = "liveness" /\ prefetched' \in (Responses["Liveness"] \ {NoResponse}) \cup {Expired}
  /\ pc' = "describing" /\ heard' = {}
  /\ UNCHANGED <<plan, at, fetched, pass, acc>>

(***************************************************************************)
(* The description, once, for its own row and for every claim.             *)
(***************************************************************************)
Observing(r, o) == IF r = Expired THEN Expired ELSE o

FetchDescription ==
  /\ pc = "describing"
  /\ \E r \in Responses["description"] \cup {Expired} :
       LET o == Observing(r, FetchRdf(r))
           urls == IF o = Expired \/ o.error THEN {Endpoint} ELSE {Endpoint, r.landed}
           described == IF o = Expired THEN Empty ELSE ParseDeclarationsFor(o.body, urls)
           read == described.triples > 0
       IN /\ fetched' = r
          /\ acc' = [acc EXCEPT !.described = described, !.read = read,
                       !.descriptions = IF read /\ KeepsVendorDocuments(Due)
                                        THEN <<o.body>> ELSE <<>>]
  /\ pc' = "measuring" /\ at' = 1 /\ heard' = {}
  /\ UNCHANGED <<plan, prefetched, pass>>

(***************************************************************************)
(* The metrics, in the order of their definitions.                         *)
(***************************************************************************)
Measuring == pc = "measuring" /\ at <= Len(Due)

RateDescription ==
  /\ Measuring /\ Due[at].kind = "DereferenceEndpoint"
  /\ LET o == Observing(fetched, FetchRdf(fetched))
         found == ResolveFetch(acc.described, o)
         level == IF Due[at].graded THEN found.level ELSE None
     IN acc' = [acc EXCEPT !.rows = Append(@, Row(Due[at], found.verdict, level, None, None, o))]
  /\ at' = at + 1 /\ heard' = {fetched}
  /\ UNCHANGED <<plan, pc, prefetched, fetched, pass>>

PassOver ==
  /\ Measuring /\ ~DispatchedPerMetric(Due[at].kind)
  /\ at' = at + 1 /\ heard' = {}
  /\ UNCHANGED <<plan, pc, prefetched, fetched, pass, acc>>

\* The prefetched response is taken by the first metric that is dispatched, and is
\* used only if that one is the liveness.
UsePrefetched == Due[at].kind = "Liveness" /\ prefetched # None

MeasureLiveness ==
  /\ Measuring /\ UsePrefetched
  /\ acc' = Measured(Due[at], Observing(prefetched, GetWithBody(prefetched)))
  /\ at' = at + 1 /\ prefetched' = None /\ heard' = {prefetched}
  /\ UNCHANGED <<plan, pc, fetched, pass>>

ReadAs(kind, r) ==
  CASE kind \in {"Liveness", "Cors", "AskFilter"} -> GetWithBody(r)
    [] kind = "CorsPreflight" -> Preflight(r)
    [] kind = "FetchVoid" -> FetchRdf(r)
    [] kind = "SelectIris" -> SelectIris(r)

TwoAttempts(def, R) ==
  {[o |-> AskLiteralWithFallback(def.fallback, first, second),
    heard |-> IF def.fallback /\ Refused(first) THEN {first, second} ELSE {first}] :
   first, second \in R}

TwoShapes(def, R) ==
  {[o |-> CountedByShape(def.overlap, probe, plain, overlap),
    heard |-> {IF def.overlap /\ Overlaps(probe) THEN overlap ELSE plain}] :
   probe, plain, overlap \in R}

Answers(def) ==
  IF def.kind = "AskData" THEN TwoAttempts(def, Responses[def.kind])
  ELSE IF def.kind = "Counted" THEN TwoShapes(def, Responses[def.kind])
  ELSE {[o |-> ReadAs(def.kind, r), heard |-> {r}] : r \in Responses[def.kind]}

AskMetric ==
  /\ Measuring /\ Asks(Due[at]) /\ ~UsePrefetched
  /\ \E a \in Answers(Due[at]) \cup {[o |-> Expired, heard |-> {}]} :
       acc' = Measured(Due[at], a.o) /\ heard' = a.heard
  /\ at' = at + 1 /\ prefetched' = None
  /\ UNCHANGED <<plan, pc, fetched, pass>>

(***************************************************************************)
(* The second gate, on the counts this sweep is about to publish.          *)
(***************************************************************************)
Counted(metric) ==
  LET rows == SelectSeq(acc.rows, LAMBDA row : row.metric = metric)
  IN IF rows = <<>> THEN None ELSE Head(rows).observed

Reprofile ==
  WorthReprofiling(plan.last, Counted(TripleCountMetric), Counted(ClassCountMetric), Today)

Profiling(from) ==
  LET next == FirstOfKind("ClassProfile", from) IN
  /\ pc' = IF next = None THEN "deriving" ELSE "enumerating"
  /\ at' = IF next = None THEN 0 ELSE next
  /\ pass' = NoPass

Measurements == pc = "measuring" /\ at > Len(Due)

PassTheGate ==
  /\ Measurements /\ Reprofile /\ Profiling(1) /\ heard' = {}
  /\ UNCHANGED <<plan, prefetched, fetched, acc>>

StopAtTheGate ==
  /\ Measurements /\ ~Reprofile
  /\ LET OfKind(kind) == Kept(Due, {i \in DOMAIN Due : Due[i].kind = kind})
     IN acc' = [acc EXCEPT !.notMeasured = @ \o Declining(OfKind("ClassProfile"), "unchanged")
                                              \o Declining(OfKind("VocabularyDescribed"), "unchanged")]
  /\ pc' = "done" /\ heard' = {}
  /\ UNCHANGED <<plan, at, prefetched, fetched, pass>>

(***************************************************************************)
(* The pass: the classes, then a query per class, down the ladder.         *)
(***************************************************************************)
Enumerate ==
  /\ pc = "enumerating" /\ heard' = {}
  /\ \E r \in Responses["enumeration"] \cup {Expired} :
       LET o == Observing(r, SelectIris(r)) IN
       IF o = Expired \/ ~IsAReadableResult(o)
       THEN /\ acc' = [acc EXCEPT !.notMeasured = Append(@, Fact(Due[at], "enumeration-failed")),
                                  !.unreached = Append(@, [metric |-> Due[at].id, classes |-> <<>>])]
            /\ Profiling(at + 1)
       ELSE IF o.bindings = <<>>
       THEN acc' = [acc EXCEPT !.enumerated = TRUE] /\ Profiling(at + 1)
       ELSE /\ acc' = [acc EXCEPT !.enumerated = TRUE,
                         !.samples = IF Due[at].sampleLimit = None THEN @
                                     ELSE Append(@, SampleOf(Due[at], o.bindings))]
            /\ pass' = [NoPass EXCEPT !.classes = o.bindings, !.class = 1, !.rung = 1]
            /\ pc' = "profiling" /\ at' = at
  /\ UNCHANGED <<plan, prefetched, fetched>>

Rungs == LadderFrom(Configured(Due[at].samplePrefix))
Class == pass.classes[pass.class]

GivesUp(o) ==
  \/ o = Expired
  \/ o # Expired /\ o.profile = None /\ (pass.rung = Len(Rungs) \/ ~WorthASmallerSample(o.status))
  \/ o # Expired /\ o.profile = <<>> /\ pass.rung = Len(Rungs)

Profiled(o) ==
  IF GivesUp(o) THEN [pass.outcome EXCEPT !.unreached = Append(@, Class)]
  ELSE IF o.profile \in {None, <<>>} THEN pass.outcome
  ELSE [pass.outcome EXCEPT !.profiles =
          Append(@, [class |-> Class, sampling |-> Rungs[pass.rung], rows |-> o.profile])]

\* What a finished pass publishes: nothing of it outlives an expiry before this.
Published(outcome) ==
  LET named == NameUnreached(outcome, pass.classes)
      Profile(p) == [metric |-> Due[at].id, class |-> p.class, sampling |-> p.sampling.slug,
                     prefix |-> p.sampling.prefix, rows |-> p.rows]
  IN [acc EXCEPT !.profiles = @ \o [i \in DOMAIN named.profiles |-> Profile(named.profiles[i])],
                 !.unreached = IF named.unreached = <<>> THEN @
                               ELSE Append(@, [metric |-> Due[at].id, classes |-> named.unreached])]

AskClass ==
  /\ pc = "profiling" /\ heard' = {}
  /\ \E r \in Responses["profile"] \cup {Expired} :
       LET o == Observing(r, ProfileClass(r))
           outcome == Profiled(o)
           settled == outcome # pass.outcome
       IN IF settled /\ pass.class = Len(pass.classes)
          THEN acc' = Published(outcome) /\ Profiling(at + 1)
          ELSE /\ pass' = [pass EXCEPT !.outcome = outcome,
                             !.class = IF settled THEN @ + 1 ELSE @,
                             !.rung = IF settled THEN 1 ELSE @ + 1]
               /\ UNCHANGED <<acc, pc, at>>
  /\ UNCHANGED <<plan, prefetched, fetched>>

(***************************************************************************)
(* The content verdict, from what the pass found.                          *)
(***************************************************************************)
Derive ==
  /\ pc = "deriving"
  /\ LET derived == Kept(Due, {i \in DOMAIN Due : Due[i].kind = "VocabularyDescribed"})
         found == [i \in DOMAIN acc.profiles |-> acc.profiles[i].class]
         claim == [claimed |-> acc.described.classes # {}, value |-> None]
         Graded(def) == Row(def, Resolve(def, claim, Derived(found, acc.enumerated)),
                            None, None, None, Expired)
     IN acc' = [acc EXCEPT !.rows = @ \o [i \in DOMAIN derived |-> Graded(derived[i])]]
  /\ pc' = "done" /\ heard' = {}
  /\ UNCHANGED <<plan, at, prefetched, fetched, pass>>

(***************************************************************************)
(* The endpoint's budget, which cancels the probing where it waits, and a  *)
(* panic, after which the sweep has nothing of the endpoint.               *)
(***************************************************************************)
Waiting == \/ pc \in {"liveness", "describing", "enumerating", "profiling"}
           \/ Measuring /\ Asks(Due[at]) /\ ~UsePrefetched

UnreachedByPosition == SubSeq(Due, Len(acc.rows) + 1, Len(Due))

Unreached ==
  LET measured == {acc.rows[i].metric : i \in DOMAIN acc.rows}
  IN Kept(Due, {i \in DOMAIN Due : DispatchedPerMetric(Due[i].kind) /\ Due[i].id \notin measured})

ExpireEndpoint ==
  /\ Waiting
  /\ acc' = [acc EXCEPT !.rows = @ \o [i \in DOMAIN Unreached |-> UnmeasuredRow(Unreached[i])]]
  /\ pc' = "expired" /\ heard' = {}
  /\ UNCHANGED <<plan, at, prefetched, fetched, pass>>

Panic ==
  /\ Waiting /\ pc' = "lost" /\ acc' = Nothing /\ heard' = {}
  /\ UNCHANGED <<plan, at, prefetched, fetched, pass>>

Next == \/ FindUnreachable \/ FindReachable \/ FetchDescription
        \/ RateDescription \/ PassOver \/ MeasureLiveness \/ AskMetric
        \/ PassTheGate \/ StopAtTheGate \/ Enumerate \/ AskClass \/ Derive
        \/ ExpireEndpoint \/ Panic

Spec == Init /\ [][Next]_vars

(***************************************************************************)
(* What is published of the endpoint (assemble_endpoint).                  *)
(***************************************************************************)
Ended == pc \in {"done", "expired", "lost"}

Facts ==
  [rows |-> acc.rows, samples |-> acc.samples, profiles |-> acc.profiles,
   notMeasured |-> (IF pc = "lost" THEN Declining(Due, "prober-failed") ELSE acc.notMeasured)
                   \o plan.declined]

(***************************************************************************)
(* Every metric of the definitions is accounted for once, whatever the     *)
(* endpoint did and wherever its budget ended: a row or a reason.  Only    *)
(* the profile pass may publish neither, once it asked what classes there  *)
(* are, and only an expiry may leave it and what is derived from it out    *)
(* (lib.rs:735-762 on the rows an expiry once published twice).            *)
(***************************************************************************)
EveryMetricIsAccountedForOnce ==
  LET Accounts(list, def) == Cardinality({i \in DOMAIN list : list[i].metric = def.id})
      Told(def) == Accounts(Facts.rows, def) + Accounts(Facts.notMeasured, def)
      MayBeSilent(def) == \/ pc = "expired" /\ ~DispatchedPerMetric(def.kind)
                          \/ acc.enumerated /\ def.kind = "ClassProfile"
  IN Ended => \A i \in DOMAIN plan.file :
       LET def == plan.file[i] IN Told(def) = 1 \/ (Told(def) = 0 /\ MayBeSilent(def))

(***************************************************************************)
(* A verdict about an endpoint rests on what it said to that metric.  A    *)
(* confirmation needs a 2xx that is not a page, or the CORS header; a      *)
(* negative one a 2xx, but for the statuses that are themselves the answer *)
(* (a missing document, a refused OPTIONS).  Only the answer to an OPTIONS *)
(* may be a page: its body is not read.  Silence, a budget, a refusal or   *)
(* an error never becomes either (observe.rs:92, resolve.rs:54-118).       *)
(***************************************************************************)
Well(r, kind) == r.status \in 200..299 /\ (r.html => kind = "CorsPreflight")
Grants(r, kind) == kind = "Cors" /\ r.cors /\ ~r.html
Denies(r, kind) == \/ kind = "FetchVoid" /\ r.status \in {404, 410}
                   \/ kind = "DereferenceEndpoint" /\ r.status \in {404, 410} /\ ~r.html
                   \/ kind = "CorsPreflight" /\ r.status \in {405, 501}

RestsOn(said, row, kind) ==
  IF kind = "VocabularyDescribed" THEN row.verdict # Indeterminate => acc'.enumerated
  ELSE /\ row.verdict \in {Verified, UndeclaredButVerified} =>
            \E r \in said : Well(r, kind) \/ Grants(r, kind)
       /\ row.verdict \in {Absent, DeclaredButWrong} =>
            \E r \in said : Well(r, kind) \/ Denies(r, kind)

KindOf(row) == Due[CHOOSE i \in DOMAIN Due : Due[i].id = row.metric].kind

VerdictsRestOnAnswers ==
  [][\A i \in (Len(acc.rows) + 1)..Len(acc'.rows) :
       RestsOn(heard' \ {NoResponse, Expired}, acc'.rows[i], KindOf(acc'.rows[i]))]_vars

(***************************************************************************)
(* What is published of one endpoint agrees with itself: a sample stands   *)
(* beside a positive verdict or a pass that was not declined, a profile is *)
(* of a class that the pass's sample names, and the vocabulary is          *)
(* confirmed exactly when a profile is published (lib.rs:1201-1218,        *)
(* 533-553, 1413-1424).                                                    *)
(***************************************************************************)
FactsAgree ==
  LET Metric(list, metric) == {list[i] : i \in {j \in DOMAIN list : list[j].metric = metric}}
      Positive(row) == row.verdict \in {Verified, UndeclaredButVerified}
      IsPass(metric) == \E i \in DOMAIN Due : Due[i].id = metric /\ Due[i].kind = "ClassProfile"
      SampleHolds(s) == IF IsPass(s.metric) THEN Metric(Facts.notMeasured, s.metric) = {}
                        ELSE \E row \in Metric(Facts.rows, s.metric) : Positive(row)
      ProfileHolds(p) == \A i \in DOMAIN Due : Due[i].id = p.metric /\ Due[i].sampleLimit # None =>
                           \E s \in Metric(Facts.samples, p.metric) : Contains(s.values, p.class)
      Derivations == {i \in DOMAIN Due : Due[i].kind = "VocabularyDescribed"}
  IN Ended =>
       /\ \A i \in DOMAIN Facts.samples : SampleHolds(Facts.samples[i])
       /\ \A i \in DOMAIN Facts.profiles : ProfileHolds(Facts.profiles[i])
       /\ \A i \in Derivations : \A row \in Metric(Facts.rows, Due[i].id) :
            Positive(row) <=> Facts.profiles # <<>>

(***************************************************************************)
(* "The pass ran and found no classes at all" (resolve.rs:470): the        *)
(* vocabulary is absent, or only declared, of an endpoint that was seen to *)
(* hold no class.                                                          *)
(***************************************************************************)
NoVocabularyMeansNoClasses ==
  \A i, j \in DOMAIN Due :
    /\ Due[i].kind = "VocabularyDescribed" /\ Due[j].kind = "ClassProfile"
    /\ \E k \in DOMAIN acc.rows : /\ acc.rows[k].metric = Due[i].id
                                  /\ acc.rows[k].verdict \in {Absent, DeclaredOnly}
    => ~ \E k \in DOMAIN acc.samples : acc.samples[k].metric = Due[j].id
=============================================================================
