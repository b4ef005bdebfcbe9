------------------------------- MODULE Telemetry -------------------------------
(***************************************************************************)
(* Telemetry of agents as evidence: envelopes of spans and of log records   *)
(* are imported (v18_otlp_envelope.py, v18_otel_genai.py), one trace of     *)
(* them is reconstructed as a graph (v18_runtime_reconstruction.py), and    *)
(* logs are correlated with spans.  Whoever holds an import may change what *)
(* was derived from the envelope, with all hashes of it and of its parts.   *)
(*                                                                          *)
(* An item of an envelope is known by its place: resource, scope, index.    *)
(* Of the attributes, the kinds of nodes that they lead to are kept.  A     *)
(* hash is what it hashes.  Sizes, times, versions and encodings are left   *)
(* out, and so are diagnostics that nothing is concluded from.              *)
(***************************************************************************)
EXTENDS Naturals, Sequences, FiniteSets

CONSTANTS
  Trace, Span,  \* identifiers
  None,         \* instead of one that is missing
  Envelopes,    \* of any signal
  MaxItems,     \* spans or log records of an envelope
  MaxEdits      \* bound on changes of imports

VARIABLES
  traces, logs,  \* the imports that somebody holds
  edits,         \* how often they were changed
  result         \* what was last concluded from them

telemetryVars == <<traces, logs, edits, result>>

Derived == {"agent", "retrieval", "tool", "model"}
Item == [trace : Trace \cup {None}, span : Span \cup {None}, parent : Span \cup {None},
         says : SUBSET Derived, sound : BOOLEAN]
IsEnvelope(e) ==
  /\ e.signal \in {"spans", "logs", "none"} /\ e.observed \in BOOLEAN
  /\ DOMAIN e.items \subseteq Nat \X Nat \X Nat /\ IsFiniteSet(DOMAIN e.items)
  /\ \A p \in DOMAIN e.items : e.items[p] \in Item

ASSUME TelemetryAssumption ==
  /\ None \notin Trace \cup Span /\ IsFiniteSet(Span)
  /\ \A e \in Envelopes : IsEnvelope(e)
  /\ MaxItems \in Nat /\ MaxEdits \in Nat

Nothing == [at |-> "nothing"]

TelemetryTypeOK ==
  /\ \A x \in {traces, logs} :
       x = Nothing \/ (x.at = "imported" /\ IsEnvelope(x.raw) /\ Len(x.entries) <= MaxItems + edits)
  /\ edits \in 0..MaxEdits
  /\ result.at \in {"nothing", "graph", "no graph", "report"}

-----------------------------------------------------------------------------
(* Import.                                                                  *)
Context(e, place) == [place |-> place, resource |-> e.resource[place[1]]]

Fields(a) == [trace |-> a.trace, span |-> a.span, parent |-> a.parent, says |-> a.says, raw |-> a.raw]
Hashed(fields) == [trace |-> fields.trace, span |-> fields.span, parent |-> fields.parent,
                   says |-> fields.says, raw |-> fields.raw, hash |-> fields]

AdaptSpan(item) == Hashed([trace |-> item.trace, span |-> item.span, parent |-> item.parent,
                           says |-> item.says, raw |-> item])

(* The record of a log item is bound to its context too.                    *)
LogRecord(item, context) ==
  LET fields == [trace |-> item.trace, span |-> item.span, says |-> item.says,
                 raw |-> item, context |-> context]
  IN  [trace |-> item.trace, span |-> item.span, says |-> item.says,
       raw |-> item, context |-> context, hash |-> fields]

Claims(e) == IF e.observed THEN {"source_bytes_preserved"} ELSE {}

Accepts(e, signal) ==
  /\ e.signal \in {signal, "none"}
  /\ Cardinality(DOMAIN e.items) <= MaxItems
  /\ \A p \in DOMAIN e.items : e.items[p].sound

SpanEntry(e, p) == [adapted |-> AdaptSpan(e.items[p]), context |-> Context(e, p)]
LogEntry(e, p) == LogRecord(e.items[p], Context(e, p))

(* The members of a finite set, in some order.                              *)
Listed(S) ==
  CHOOSE s \in [1..Cardinality(S) -> S] : \A x \in S : \E i \in 1..Cardinality(S) : s[i] = x

SpanEntries(e) == Listed({SpanEntry(e, p) : p \in DOMAIN e.items})
LogEntries(e) == Listed({LogEntry(e, p) : p \in DOMAIN e.items})
TraceIds(entries) == {entries[i].adapted.trace : i \in DOMAIN entries} \ {None}

ImportTraceEnvelope(e) ==
  /\ Accepts(e, "spans")
  /\ traces' = [at |-> "imported", raw |-> e, entries |-> SpanEntries(e),
                ids |-> TraceIds(SpanEntries(e)), claims |-> Claims(e)]
  /\ result' = Nothing /\ UNCHANGED <<logs, edits>>

ImportLogEnvelope(e) ==
  /\ Accepts(e, "logs")
  /\ logs' = [at |-> "imported", raw |-> e, entries |-> LogEntries(e), claims |-> Claims(e)]
  /\ result' = Nothing /\ UNCHANGED <<traces, edits>>

-----------------------------------------------------------------------------
(* Validation replays what was derived.                                     *)

(* Every item of the envelope, in its context, is bound exactly once.       *)
BoundOnce(n, bindings, e) ==
  /\ n = Cardinality(DOMAIN e.items)
  /\ bindings = {<<e.items[p], Context(e, p)>> : p \in DOMAIN e.items}

(* Mutant: it is enough that the adapted span hashes to what it says.       *)
ReplaysItself(a) == a.hash = Fields(a)

Replays(a) == a.hash = Fields(a) /\ a.hash = AdaptSpan(a.raw).hash

ValidTraces(r) ==
  /\ r.at = "imported" /\ r.raw.signal # "logs" /\ r.claims = Claims(r.raw)
  /\ \A i \in DOMAIN r.entries : Replays(r.entries[i].adapted)
  /\ BoundOnce(Len(r.entries), {<<r.entries[i].adapted.raw, r.entries[i].context>> : i \in DOMAIN r.entries}, r.raw)
  /\ r.ids = TraceIds(r.entries)

ValidLogs(r) ==
  /\ r.at = "imported" /\ r.raw.signal # "spans" /\ r.claims = Claims(r.raw)
  /\ \A i \in DOMAIN r.entries : LogRecord(r.entries[i].raw, r.entries[i].context).hash = r.entries[i].hash
  /\ BoundOnce(Len(r.entries), {<<r.entries[i].raw, r.entries[i].context>> : i \in DOMAIN r.entries}, r.raw)

-----------------------------------------------------------------------------
(* Changes.  A hash that is changed is one of what it stands for, or of     *)
(* what it should stand for.                                                *)
Seen(r) == {r.raw.items[p] : p \in DOMAIN r.raw.items}
Contexts(r) == {[place |-> p, resource |-> r.raw.resource[i]] : p \in DOMAIN r.raw.items, i \in DOMAIN r.raw.resource}

ChangedSpan(x, r) ==
  LET f == Fields(x.adapted)
      fields == {f, [f EXCEPT !.span = None], [f EXCEPT !.parent = None],
                 [f EXCEPT !.says = Derived]}
                  \cup {[f EXCEPT !.trace = t] : t \in Trace}
                  \cup {[f EXCEPT !.raw = item] : item \in Seen(r)}
                  \cup {AdaptSpan(item).hash : item \in Seen(r)}
  IN  {[adapted |-> a, context |-> c] :
         a \in {Hashed(g) : g \in fields}
                 \cup {[Hashed(g) EXCEPT !.hash = AdaptSpan(g.raw).hash] : g \in fields},
         c \in Contexts(r)}

Relabelled(x, trace, says) == [x EXCEPT !.trace = trace, !.says = says]
ChangedLog(x, r) ==
  {Relabelled(LogRecord(item, c), t, s) :
     item \in Seen(r), c \in Contexts(r), t \in {x.trace} \cup Trace, s \in {x.says, Derived}}

Without(s, i) == [j \in 1..Len(s) - 1 |-> s[IF j < i THEN j ELSE j + 1]]

(* An entry is replaced, dropped or repeated, or two exchange contexts.      *)
Dropped(s) == {Without(s, i) : i \in DOMAIN s}
Repeated(s) == {Append(s, s[i]) : i \in DOMAIN s}
Placed(x, context) == [x EXCEPT !.context = context]
Swapped(s) ==
  {[[s EXCEPT ![i] = Placed(s[i], s[j].context)] EXCEPT ![j] = Placed(s[j], s[i].context)] :
     i \in DOMAIN s, j \in DOMAIN s}

ChangedSpans(r) ==
  (UNION {{[r.entries EXCEPT ![i] = x] : x \in ChangedSpan(r.entries[i], r)} : i \in DOMAIN r.entries})
    \cup Dropped(r.entries) \cup Repeated(r.entries) \cup Swapped(r.entries)
ChangedLogs(r) ==
  (UNION {{[r.entries EXCEPT ![i] = x] : x \in ChangedLog(r.entries[i], r)} : i \in DOMAIN r.entries})
    \cup Dropped(r.entries) \cup Repeated(r.entries)

(* The rest of an import, or its entries, are changed.                      *)
Changed(r, variants) ==
  {[r EXCEPT !.entries = s] : s \in variants}
    \cup {[r EXCEPT !.raw = e] : e \in Envelopes}
    \cup {[r EXCEPT !.claims = c] : c \in {{"source_bytes_preserved"}, {"collection_complete"}}}

EditTraces ==
  /\ traces.at = "imported" /\ edits < MaxEdits /\ edits' = edits + 1
  /\ \E r \in Changed(traces, ChangedSpans(traces)) :
       \E ids \in {r.ids, TraceIds(r.entries)} : traces' = [r EXCEPT !.ids = ids]
  /\ result' = Nothing /\ UNCHANGED logs

EditLogs ==
  /\ logs.at = "imported" /\ edits < MaxEdits /\ edits' = edits + 1
  /\ \E r \in Changed(logs, ChangedLogs(logs)) : logs' = r
  /\ result' = Nothing /\ UNCHANGED traces

-----------------------------------------------------------------------------
(* Reconstruction of one trace.                                             *)
ById(spans) == {a.span : a \in spans} \ {None}
ParentOf(spans) ==
  [s \in {a.span : a \in {a \in spans : a.span # None /\ a.parent # None}} |->
     (CHOOSE a \in spans : a.span = s).parent]

(* Following parents, one stays among spans with parents for more steps     *)
(* than there are such spans.                                               *)
Walks(parent, n) ==
  {w \in [0..n -> DOMAIN parent] : \A k \in 1..n : w[k] = parent[w[k - 1]]}
Cycle(parent) == Walks(parent, Cardinality(DOMAIN parent)) # {}

OfTrace(r, t) == {i \in DOMAIN r.entries : r.entries[i].adapted.trace = t}
SpansOf(r, t) == {r.entries[i].adapted : i \in OfTrace(r, t)}

(* Mutant: of spans with one identifier the last is taken.                  *)
NoTwins(r, t) == TRUE

(* Each identifier is one span's; a span without one is known by its hash.  *)
Distinct(r, t) ==
  \A i, j \in OfTrace(r, t) : i # j =>
    /\ r.entries[i].adapted.hash # r.entries[j].adapted.hash
    /\ r.entries[i].adapted.span # r.entries[j].adapted.span \/ r.entries[i].adapted.span = None

Named(id) == <<"span", id>>
Name(a) == IF a.span # None THEN Named(a.span) ELSE <<"missing", a.hash>>
GraphEdge(from, to) == [from |-> from, to |-> to]
Base(a) == <<Name(a), "span">>

Graph(spans) ==
  [nodes |-> {Base(a) : a \in spans}
               \cup (UNION {{<<Name(a), kind>> : kind \in a.says \ {"agent"}} : a \in spans}),
   edges |-> (UNION {{GraphEdge(Base(a), <<Name(a), kind>>) : kind \in a.says \ {"agent"}} : a \in spans})
               \cup {GraphEdge(<<Named(a.parent), "span">>, Base(a)) :
                       a \in {a \in spans : a.span # None /\ a.parent \in ById(spans)}},
   orphans |-> {<<a.span, a.parent>> :
                  a \in {a \in spans : a.span # None /\ a.parent \notin ById(spans) \cup {None}}},
   nameless |-> {a \in spans : a.span = None},
   unmapped |-> {Name(a) : a \in {a \in spans : "agent" \notin a.says}}]

ReconstructTrace(t) ==
  /\ traces.at = "imported"
  /\ LET spans == SpansOf(traces, t)
     IN  result' = IF ValidTraces(traces) /\ spans # {} /\ Distinct(traces, t) /\ ~Cycle(ParentOf(spans))
                   THEN [at |-> "graph", trace |-> t, graph |-> Graph(spans)]
                   ELSE [at |-> "no graph", trace |-> t]
  /\ UNCHANGED <<traces, logs, edits>>

-----------------------------------------------------------------------------
(* Correlation by identifiers.                                              *)
SpanPairs(r) ==
  {<<r.entries[i].adapted.trace, r.entries[i].adapted.span>> :
     i \in {i \in DOMAIN r.entries : r.entries[i].adapted.trace # None /\ r.entries[i].adapted.span # None}}

(* Mutant: the identifier of a span is enough.                              *)
LinkStatusBySpan(x, pairs) ==
  IF x.trace = None THEN "unlinked"
  ELSE IF x.span \in {p[2] : p \in pairs} THEN "matched_trace_and_span"
  ELSE IF x.trace \notin {p[1] : p \in pairs} THEN "external_or_unobserved_trace"
  ELSE IF x.span # None THEN "trace_present_span_missing" ELSE "matched_trace_only"

LinkStatus(x, pairs) ==
  IF x.trace = None THEN "unlinked"
  ELSE IF <<x.trace, x.span>> \in pairs THEN "matched_trace_and_span"
  ELSE IF x.trace \notin {p[1] : p \in pairs} THEN "external_or_unobserved_trace"
  ELSE IF x.span # None THEN "trace_present_span_missing" ELSE "matched_trace_only"

CorrelateTraceLogs ==
  /\ traces.at = "imported" /\ logs.at = "imported"
  /\ result' = IF ValidTraces(traces) /\ ValidLogs(logs)
               THEN [at |-> "report",
                     rows |-> {[log |-> logs.entries[i].raw, context |-> logs.entries[i].context,
                                status |-> LinkStatus(logs.entries[i], SpanPairs(traces))] : i \in DOMAIN logs.entries}]
               ELSE Nothing
  /\ UNCHANGED <<traces, logs, edits>>

TelemetryInit ==
  traces = Nothing /\ logs = Nothing /\ edits = 0 /\ result = Nothing

TelemetryNext ==
  \/ \E e \in Envelopes : ImportTraceEnvelope(e) \/ ImportLogEnvelope(e)
  \/ EditTraces \/ EditLogs
  \/ \E t \in Trace : ReconstructTrace(t)
  \/ CorrelateTraceLogs

TelemetrySpec == TelemetryInit /\ [][TelemetryNext]_telemetryVars

-----------------------------------------------------------------------------
(* Properties.                                                              *)

EntriesOf(r) == {r.entries[i] : i \in DOMAIN r.entries}

(* A valid import of spans is the one that its retained envelope leads to,  *)
(* whatever was changed and hashed again ("A caller cannot replace derived  *)
(* context, normalized GenAI fields or a retained span and simply recompute *)
(* the outer record hash", docs/reference/OTLP_ENVELOPE_INTAKE_V1.8.md).    *)
TracesReplay ==
  traces.at = "imported" /\ ValidTraces(traces) =>
    LET e == traces.raw
    IN  /\ EntriesOf(traces) = {SpanEntry(e, p) : p \in DOMAIN e.items}
        /\ Len(traces.entries) = Cardinality(DOMAIN e.items)

(* The same is said of logs ("verifies that the resulting record matches    *)
(* the import").                                                            *)
LogsReplay ==
  logs.at = "imported" /\ ValidLogs(logs) => EntriesOf(logs) = {LogEntry(logs.raw, p) : p \in DOMAIN logs.raw.items}

ParentSteps(items) == {<<i.span, i.parent>> : i \in {i \in items : i.span # None /\ i.parent # None}}

(* In steps one comes from s to s again: it is in each set that s steps     *)
(* into and that is not left.                                               *)
OwnAncestor(steps, s) ==
  \A S \in SUBSET Span : (\A e \in steps : e[1] \in S \cup {s} => e[2] \in S) => s \in S

(* A trace is reconstructed with every span that its envelope has of it,    *)
(* each below the parent it names or told to be an orphan, and is refused   *)
(* just when spans cannot be told apart or are their own ancestors.         *)
GraphsExact ==
  result.at \in {"graph", "no graph"} /\ ValidTraces(traces) =>
    LET e == traces.raw
        places == {p \in DOMAIN e.items : e.items[p].trace = result.trace}
        items == {e.items[p] : p \in places}
        twins == \E p, q \in places :
                   /\ p # q
                   /\ e.items[p] = e.items[q] \/ (e.items[p].span = e.items[q].span /\ e.items[p].span # None)
        circular == \E s \in Span : OwnAncestor(ParentSteps(items), s)
    IN  /\ result.at = "no graph" <=> (places = {} \/ twins \/ circular)
        /\ result.at = "graph" =>
             LET g == result.graph
                 bases == {n \in g.nodes : n[2] = "span"}
             IN  /\ Cardinality(bases) = Cardinality(places) /\ Cardinality(g.nameless) =
                      Cardinality({p \in places : e.items[p].span = None})
                 /\ \A i \in items : i.span # None /\ i.parent # None =>
                      (GraphEdge(<<Named(i.parent), "span">>, <<Named(i.span), "span">>) \in g.edges
                        <=> <<i.span, i.parent>> \notin g.orphans)
                 /\ \A ed \in g.edges : ed.from \in g.nodes /\ ed.to \in g.nodes

(* Of logs as they were imported, what is matched has its span in the       *)
(* envelope of spans, and a log is called external only if no identified    *)
(* span of its trace is there.                                              *)
LinksExact ==
  result.at = "report" /\ EntriesOf(logs) = {LogEntry(logs.raw, p) : p \in DOMAIN logs.raw.items} =>
    LET e == traces.raw
        known == {e.items[p] : p \in {p \in DOMAIN e.items : e.items[p].trace # None /\ e.items[p].span # None}}
    IN  \A row \in result.rows :
          /\ row.status = "matched_trace_and_span" <=>
               \E i \in known : i.trace = row.log.trace /\ i.span = row.log.span
          /\ row.status = "unlinked" <=> row.log.trace = None
          /\ row.status = "external_or_unobserved_trace" <=>
               row.log.trace # None /\ \A i \in known : i.trace # row.log.trace

TelemetryExact == TracesReplay /\ GraphsExact /\ LinksExact
=============================================================================
