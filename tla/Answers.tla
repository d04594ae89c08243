------------------------------ MODULE Answers ------------------------------
(***************************************************************************)
(* What a request brings back (prober/src/client.rs, observe.rs): a        *)
(* response read into an Observation, which holds evidence and no          *)
(* judgement.  A response is what the end of the redirects gave: its       *)
(* status; whether it looks like HTML; its JSON, one of "true", "false",   *)
(* "results" with a list of bindings, "unread" for a boolean or results    *)
(* that hold neither, "other" and None; the cells of its result rows; the  *)
(* RDF that could be read of it; and its CORS headers.  NoResponse is a    *)
(* transport error: refused, cut, or past the request budget.              *)
(***************************************************************************)
EXTENDS Options, Lists, Naturals, Sequences, SequencesExt

CONSTANTS NoResponse,   \* a request that failed
          OurOrigin     \* the Origin the prober sends

Blank == [status |-> None, error |-> FALSE, cors |-> FALSE, boolean |-> None, bindings |-> <<>>,
          bodyKind |-> "None", body |-> <<>>, allowOrigin |-> None, allowMethods |-> None,
          profile |-> None]

Failed == [Blank EXCEPT !.error = TRUE]

\* The evidence for a metric that sent no request: what a pass found, and whether it looked.
Derived(found, looked) ==
  IF looked THEN [Blank EXCEPT !.status = 200, !.bodyKind = "SparqlJson", !.bindings = found]
  ELSE [Blank EXCEPT !.bindings = found]

(***************************************************************************)
(* The three requests: a query, a document, an OPTIONS.                    *)
(***************************************************************************)
GetWithBody(r) ==
  IF r = NoResponse THEN Failed
  ELSE [Blank EXCEPT !.status = r.status, !.cors = r.cors,
          !.boolean = IF r.json \in {"true", "false"} THEN r.json = "true" ELSE None,
          !.bodyKind = IF r.html THEN "Html"
                       ELSE IF r.json \in {"true", "false", "results", "unread"} THEN "SparqlJson" ELSE "Other"]

\* RDF when it was typed as such and all of it parsed; a cut body does not.
FetchRdf(r) ==
  IF r = NoResponse THEN Failed
  ELSE [Blank EXCEPT !.status = r.status, !.cors = r.cors, !.body = r.quads,
          !.bodyKind = IF r.html THEN "Html"
                       ELSE IF r.typedRdf /\ ~r.cut /\ r.quads # <<>> THEN "Rdf" ELSE "Other"]

Preflight(r) ==
  IF r = NoResponse THEN Failed
  ELSE [Blank EXCEPT !.status = r.status, !.cors = r.cors, !.allowOrigin = r.allowOrigin,
          !.allowMethods = r.allowMethods]

(***************************************************************************)
(* The cells of one type in the result rows, which are read only of an     *)
(* answer that is SPARQL JSON.                                             *)
(***************************************************************************)
Extract(r, type) ==
  LET cells == Kept(r.rows, {i \in DOMAIN r.rows : r.rows[i].type = type})
  IN [i \in DOMAIN cells |-> cells[i].value]

SelectIris(r) ==
  LET o == GetWithBody(r)
  IN IF o.bodyKind = "SparqlJson" THEN [o EXCEPT !.bindings = Extract(r, "uri")] ELSE o

LiteralAttempt(r) ==
  LET o == GetWithBody(r)
      found == Extract(r, "literal")
  IN IF o.bodyKind = "SparqlJson" THEN [o EXCEPT !.boolean = found # <<>>, !.bindings = found] ELSE o

\* A row counts when it names a property and a number of subjects.  An answer
\* without a list of bindings is no profile, where an empty list is an empty one.
ProfileClass(r) ==
  LET o == GetWithBody(r)
  IN IF o.bodyKind = "SparqlJson" /\ r.json = "results"
     THEN [o EXCEPT !.profile = Extract(r, "row")] ELSE o

(***************************************************************************)
(* Two queries for one metric.  A refused query is asked again as its      *)
(* fallback, whose answer stands if it is one; a count is asked over all   *)
(* graphs when a probe finds that they overlap.                            *)
(***************************************************************************)
Refused(r) == LET o == LiteralAttempt(r) IN o.status # None /\ o.status \in 400..499

AskLiteralWithFallback(fallback, first, second) ==
  IF fallback /\ Refused(first) /\ LiteralAttempt(second).bodyKind = "SparqlJson"
  THEN LiteralAttempt(second)
  ELSE LiteralAttempt(first)

Overlaps(probe) ==
  LET seen == LiteralAttempt(probe) IN seen.bodyKind = "SparqlJson" /\ seen.bindings # <<>>

CountedByShape(overlapping, probe, plain, overlap) ==
  LiteralAttempt(IF overlapping /\ Overlaps(probe) THEN overlap ELSE plain)
=============================================================================
