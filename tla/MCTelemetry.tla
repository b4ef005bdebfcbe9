------------------------------ MODULE MCTelemetry ------------------------------
(* Envelopes with well-formed and broken traces, and logs that do and do not
   belong to them.                                                          *)
EXTENDS Telemetry

CONSTANTS t1, t2, s1, s2, s3

SpanItem(trace, span, parent, says) ==
  [trace |-> trace, span |-> span, parent |-> parent, says |-> says, sound |-> TRUE]
LogItem(trace, span) == SpanItem(trace, span, None, {})

RootSpan == SpanItem(t1, s1, None, {"agent", "model"})
Child == SpanItem(t1, s2, s1, {"tool"})
Grandchild == SpanItem(t1, s3, s2, {})
Orphan == SpanItem(t2, s3, s2, {"agent"})
Nameless == SpanItem(t1, None, s1, {"retrieval"})

(* Items of one resource, or of two resources.                              *)
OneResource(signal, items) ==
  [signal |-> signal, observed |-> TRUE, resource |-> <<"a">>,
   items |-> [p \in {<<1, 1, i>> : i \in DOMAIN items} |-> items[p[3]]]]
TwoResources(signal, items) ==
  [signal |-> signal, observed |-> FALSE, resource |-> <<"a", "b">>,
   items |-> [p \in {<<IF i = 1 THEN 1 ELSE 2, 1, i>> : i \in DOMAIN items} |-> items[p[3]]]]

MCEnvelopes == {
  TwoResources("spans", <<RootSpan, Child, Orphan>>),
  OneResource("spans", <<RootSpan, Child, Grandchild>>),
  OneResource("spans", <<Nameless, Nameless>>),
  OneResource("spans", <<RootSpan, Nameless>>),
  OneResource("spans", <<RootSpan, SpanItem(t1, s1, s2, {})>>),
  OneResource("spans", <<SpanItem(t1, s1, s2, {}), Child>>),
  OneResource("spans", <<SpanItem(None, s1, None, {}), [RootSpan EXCEPT !.sound = FALSE]>>),
  OneResource("spans", <<SpanItem(None, s1, None, {}), SpanItem(t2, None, None, {})>>),
  OneResource("spans", <<RootSpan, Child, Grandchild, Orphan>>),
  OneResource("none", <<>>),
  TwoResources("logs", <<LogItem(t1, s2), LogItem(t2, s2), LogItem(None, s1)>>),
  OneResource("logs", <<LogItem(t1, None), LogItem(t2, s1)>>)}

ASSUME \A e \in MCEnvelopes : IsEnvelope(e)
=============================================================================
