------------------------------- MODULE MCReplays -------------------------------
(***************************************************************************)
(* Jobs for replays: for every transformation, documents that it takes and  *)
(* that it refuses, and what may become of its files.                       *)
(***************************************************************************)
EXTENDS Replays

Broken == [kind |-> "damaged"]
NoPin == [kind |-> "no pin"]

MCJob(kind, source, second, format, sources, outputs) ==
  [kind |-> kind, source |-> source, second |-> second, output |-> NoFile, format |-> format,
   pin |-> NoPin,
   revisions |-> ("source" :> sources) @@ ("output" :> outputs \ {Invalid})]

-----------------------------------------------------------------------------
(* CloudTrail.                                                              *)
MCTrail(id, readOnly, parameters) ==
  [eventID |-> id, eventVersion |-> "1.08", eventTime |-> "10:00Z", requestID |-> Absent,
   eventType |-> "AwsApiCall", userIdentity |-> "object", readOnly |-> readOnly,
   requestParameters |-> parameters]
MCWrapper(id, readOnly) == [EventId |-> id, ReadOnly |-> readOnly, EventTime |-> Absent]
MCEntry(event, wrapper) == [event |-> event, wrapper |-> wrapper]
MCTrailPage(names, token, entries) ==
  [kind |-> "trail", names |-> names, token |-> token, entries |-> entries]

MCLookups ==
  {MCTrailPage(names, "u", <<MCEntry(MCTrail("t", flag, "v"), MCWrapper(id, said))>>) :
      names \in {{"Events"}, {"Events", "NextToken"}}, flag \in {Absent, "true"},
      id \in {Absent, "u"}, said \in {Absent, "true", "false"}}
    \cup {MCTrailPage({"Events", "NextToken"}, Null, <<>>)}
MCRecordsPages ==
  LET plain == MCEntry(MCTrail("t", "true", "v"), NoWrapper)
      other == MCEntry(MCTrail("u", Absent, Null), NoWrapper)
      bad == MCEntry([MCTrail("u", Absent, Null) EXCEPT !.eventType = "Insight"], NoWrapper)
  IN  {MCTrailPage({"Records"}, Absent, entries) :
         entries \in {<<plain, other>>, <<other, plain>>, <<plain, bad>>, <<other>>}}

MCTrailJobs ==
  {MCJob("cloudtrail", doc, NoFile, "lookup-events", {Broken},
         {CloudTrail(other, "lookup-events") : other \in {d \in MCLookups : d.names = doc.names /\ d # doc}}) :
      doc \in MCLookups}
    \cup {MCJob("cloudtrail", doc, NoFile, format, MCRecordsPages, {Broken}) :
      doc \in MCRecordsPages, format \in {"records", "lookup-events"}}

-----------------------------------------------------------------------------
(* Azure and Google.                                                        *)
MCActivity(id, result, caller) ==
  [eventDataId |-> id, eventTimestamp |-> "10:00Z", submissionTimestamp |-> Absent,
   operationName |-> "t", status |-> result, caller |-> caller]
MCActivityPage(shape, nextLink, events) ==
  [kind |-> "activity", shape |-> shape, nextLink |-> nextLink, events |-> events]
MCActivityPages ==
  {MCActivityPage("page", nextLink, <<MCActivity("t", result, Absent)>>) :
      nextLink \in {Absent, Null, Empty, "t", "9"}, result \in {Absent, "no value", "t", "9"}}
    \cup {MCActivityPage("list", Absent, <<MCActivity("t", "u", Empty), MCActivity("u", Null, caller)>>) :
      caller \in {"u", Null}}
MCActivityJobs ==
  {MCJob("azure", doc, NoFile, format, {[doc EXCEPT !.nextLink = Absent]},
         {AzureActivity([doc EXCEPT !.nextLink = "u"], format)}) :
      doc \in MCActivityPages, format \in {"activity-log", "array"}}

MCAudit(id, delegates, granted) ==
  [payload |-> "audit", logName |-> "activity", insertId |-> id, timestamp |-> "10:00Z",
   methodName |-> "t", resource |-> "object", delegates |-> delegates, granted |-> granted,
   code |-> Absent]
MCAuditPages ==
  {[kind |-> "audit", shape |-> "page", nextPageToken |-> token, entries |-> <<MCAudit(id, ds, <<Absent, "true">>)>>] :
      token \in {Absent, Empty, "t", Null}, id \in {Empty, "t"},
      ds \in {<<{"first"}, {}>>, <<{"first", "third"}>>}}
    \cup {[kind |-> "audit", shape |-> "list", nextPageToken |-> Absent, entries |-> es] :
      es \in {<<MCAudit("t", <<>>, <<>>), MCAudit("u", <<>>, <<>>)>>}}
MCAuditJobs ==
  {MCJob("google", doc, NoFile, format, {[doc EXCEPT !.nextPageToken = Absent]}, {Broken}) :
      doc \in MCAuditPages, format \in {"entries", "array"}}

MCBound(doc, body, status) ==
  [kind |-> "context", status |-> status, bound |-> doc,
   request |-> [method |-> "POST", contentType |-> "application/json", body |-> body]]
MCAuditContextJobs ==
  {LET context(d) == MCBound(d, [n \in names |-> resources], status)
   IN  [MCJob("google-context", doc, context(bound), "entries-list",
              {[doc EXCEPT !.nextPageToken = "u"]}, {Broken})
          EXCEPT !.revisions = @ @@ ("second" :> {MCBound(doc, [n \in {"resourceNames"} |-> <<"t">>], 200)})] :
      doc \in {d \in MCAuditPages : d.shape = "page"}, bound \in {d \in MCAuditPages : d.shape = "page" /\ d.nextPageToken = "t"},
      names \in {{"resourceNames"}, {"resourceNames", "filter"}, {"filter"}}, status \in {200},
      resources \in {<<"t">>}}

-----------------------------------------------------------------------------
(* Log Analytics.  Two tables may exceed the limits that each keeps to.     *)
MCColumns(types) == [i \in DOMAIN types |-> [name |-> i, type |-> types[i]]]
MCTable(types, rows) == [columns |-> MCColumns(types), rows |-> rows]
MCResult(names, tables) == [kind |-> "result", names |-> names, error |-> "PartialError", tables |-> tables]
MCTokens == {Null, "7", "7.0", "'7'", "'2147483648'", "9007199254740993", "1e400", "1e-400", "2147483648"}
MCTyped ==
  {MCTable(<<type, "string">>, <<<<token, "t">>>>) : type \in {"int", "long", "real", "decimal", "dynamic"}, token \in MCTokens}
    \cup {MCTable(<<"bool", "datetime">>, <<<<"true", time>>, <<Null, "10:00Z">>>>) : time \in {"11:00Z", "t"}}
MCShapes ==
  {<<a, b>> : a, b \in {MCTable(<<"bool", "string">>, rows) :
                          rows \in {<<>>, <<<<"true", "t">>>>, <<<<"true", "t">>, <<"false", "u">>>>,
                                    <<<<"true", "t">>, <<"false", "t">>, <<"true", "u">>>>}}}
    \cup {<<[MCTable(<<"bool">>, <<>>) EXCEPT !.columns = <<>>]>>,
          <<[MCTable(<<"bool", "bool">>, <<<<"true", "true">>>>) EXCEPT !.columns[2].name = 1]>>,
          <<MCTable(<<"bool", "bool">>, <<<<"true">>>>)>>}
MCResults ==
  {MCResult(names, <<t>>) : names \in {{"tables"}}, t \in MCTyped}
    \cup {MCResult({"tables"}, ts) : ts \in MCShapes}
    \cup {MCResult(names, <<MCTable(<<"bool">>, <<<<"true">>>>)>>) :
            names \in {{"tables", "error"}, {"tables", "permissions"}, {"error"}}}
MCResultJobs ==
  {MCJob("analytics", doc, NoFile, format, {}, {Broken}) :
      doc \in MCResults, format \in {"tables", "resource-tables"}}
    \cup {MCJob("lossless", doc, NoFile, format,
                {[doc EXCEPT !.names = {"tables", "error"}]},
                {LosslessAnalytics([doc EXCEPT !.tables = <<>>], format)}) :
            doc \in MCResults, format \in {"tables"}}

MCQueries == {<<"a", "+">>, <<"a", " ">>, <<" ">>, <<"*">>}
MCWritten(text, form) == [i \in DOMAIN text |-> Encode(text[i], form)]
MCFields(text, form) ==
  LET query == <<"query", MCWritten(text, form)>>
  IN  {<<query>>, <<<<"timespan", <<"a">>>>, query>>, <<query, query>>, <<query, <<"workspaces", <<"a">>>>>>}
MCRequest(scope, method, body, fields, meant) ==
  [scope |-> scope, method |-> method, contentType |-> "application/json", body |-> body,
   fields |-> fields, meant |-> meant]
MCAsked(scope) ==
  UNION {{MCRequest(scope, "GET", <<>>, fields, text) : fields \in MCFields(text, form)} :
          text \in MCQueries, form \in BOOLEAN}
    \cup {MCRequest(scope, "POST", [n \in names |-> text], <<>>, text) :
          text \in MCQueries, names \in {{"query"}, {"query", "workspaces"}, {"timespan"}}}
MCContext(request, status, doc) == [kind |-> "context", request |-> request, status |-> status, bound |-> doc]
MCContextJobs ==
  LET doc == MCResult({"tables", "error"}, <<MCTable(<<"bool">>, <<<<"true">>>>)>>)
      older == MCResult({"tables"}, <<>>)
      asked(context, format) ==
        [MCJob("analytics-context", doc, context, format, {}, {Broken})
           EXCEPT !.revisions = ("second" :> {[context EXCEPT !.request.method = "PUT"], [context EXCEPT !.bound = older]})]
  IN  {asked(MCContext(request, 200, doc), format) : request \in MCAsked("workspace"),
          format \in {"workspace-post", "workspace-get", "workspace-get-form"}}
        \cup {asked(MCContext(request, status, doc), format) : request \in MCAsked("resource"), status \in {200, 429},
                format \in {"resource-get-form", "resource-get", "resource-post"}}

-----------------------------------------------------------------------------
(* Evidence, structures and packs.                                          *)
MCEvidence(text, parses, records, words) ==
  [kind |-> "evidence", text |-> text, parses |-> parses, size |-> 1, records |-> records, words |-> words]
MCEvidences ==
  {MCEvidence(TRUE, TRUE, <<first, second>>, {"w"}) :
      first \in {[n \in D |-> "string"] : D \in {{"a"}, {"a", "b"}}},
      second \in {[n \in D |-> kind] : D \in {{"a"}, {"b"}, {}}, kind \in {"string", "null"}}}
    \cup {MCEvidence(text, FALSE, <<>>, words) : text \in BOOLEAN, words \in {{}, {"w"}}}
MCRules(expected) ==
  {[kind |-> "rules", format |-> format, expected |-> expected, sizes |-> 0..1, records |-> records,
    required |-> required, types |-> types, extra |-> extra, words |-> words] :
      format \in {"json"}, records \in {TRUE}, required \in {{}, {"a"}},
      types \in {[n \in {"a"} |-> {"string"}], [n \in {"a", "b"} |-> {"string", "null"}]},
      extra \in BOOLEAN, words \in {{"w"}}}
    \cup {[kind |-> "rules", format |-> format, expected |-> expected, sizes |-> 1..2, records |-> FALSE,
          required |-> {}, types |-> <<>>, extra |-> TRUE, words |-> words] :
            format \in {"text", "binary"}, words \in {{}, {"w"}}}
MCAssessJobs ==
  UNION {{[MCJob("assess", raw, rules, "raw", {Broken}, {})
            EXCEPT !.pin = rules, !.revisions = @ @@ ("second" :> {[rules EXCEPT !.extra = ~@]})] :
           rules \in MCRules(raw)} : raw \in MCEvidences}

MCStructure(records) == [kind |-> "structure", parses |-> TRUE, records |-> records]
MCStructures ==
  LET a == [p \in {"x"} |-> <<"number">>]
      b == [p \in {"x", "x[]"} |-> IF p = "x" THEN <<"array">> ELSE <<"number", "null", "number">>]
      c == [p \in {"y"} |-> <<"null">>]
  IN  {MCStructure(rs) : rs \in {<<a, b>>, <<b, a>>, <<a, a>>, <<a, c>>, <<a>>, <<>>}}
        \cup {[MCStructure(<<a>>) EXCEPT !.parses = FALSE]}
MCDriftJobs ==
  {[MCJob("drift", raw, baseline, "json", {}, {Broken}) EXCEPT !.pin = baseline] :
      raw \in MCStructures, baseline \in MCStructures}

MCPacks ==
  {[artifacts |-> {"a", "b"}, mandatory |-> {"a"},
    gates |-> [g \in {"g"} |-> [requires |-> {"a"} \cup also, any |-> any, quality |-> quality,
                               aliases |-> [n \in {"a"} |-> {"b"}]]]] :
      any \in BOOLEAN, quality \in {"PRESENT_UNVALIDATED", "VALIDATED"}, also \in {{}, {"b"}}}
    \cup {[artifacts |-> {"a", "b"}, mandatory |-> {}, gates |-> [g \in {"g"} |->
            [requires |-> {}, any |-> FALSE, quality |-> "VALIDATED", aliases |-> <<>>]]]}
MCQualities == [{"a", "b"} -> {"MISSING", "PRESENT_UNVALIDATED", "VALIDATED"}]
MCAssessment(pack, quality, other) ==
  [kind |-> "assessment", quality |-> quality, summary |-> Summary(pack, other)]
MCPackJobs ==
  {[kind |-> "pack", source |-> NoFile, second |-> [kind |-> "pack", pack |-> pack],
    output |-> MCAssessment(pack, quality, quality), format |-> "pack", pin |-> pin,
    revisions |-> ("output" :> {MCAssessment(pack, quality, [quality EXCEPT !["b"] = "VALIDATED"]),
                            MCAssessment(pack, [quality EXCEPT !["b"] = "MISSING"], quality)})] :
      pack \in MCPacks, quality \in {q \in MCQualities : q["a"] # "PRESENT_UNVALIDATED"},
      pin \in {p \in MCPacks : p.mandatory # {} /\ ~p.gates["g"].any /\ p.gates["g"].requires = {"a"}}}

MCCustomJobs == {MCJob("custom", MCStructure(<<>>), NoFile, "any", {}, {Broken})}

MCRetained ==
  MCTrailJobs \cup MCActivityJobs \cup MCAuditJobs \cup MCAuditContextJobs \cup MCResultJobs
    \cup MCContextJobs \cup MCAssessJobs \cup MCDriftJobs \cup MCPackJobs \cup MCCustomJobs
MCOthers == {{}, {"PASS"}, {"PASS", "UNSUPPORTED"}, {"FAIL"}}

ReplaysSpec == ReplaysInit /\ [][ReplaysNext]_replayVars
=============================================================================
