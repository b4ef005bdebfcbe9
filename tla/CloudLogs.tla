------------------------------- MODULE CloudLogs -------------------------------
(***************************************************************************)
(* Projections of retained cloud logs: CloudTrail (v17_cloudtrail.py), Azure*)
(* activity (v17_azure_activity.py), Google audit (v17_gcp_audit.py) and Log*)
(* Analytics (v17_log_analytics.py, v17_log_analytics_lossless.py), and of   *)
(* the requests that results are bound to (v17_log_analytics_context.py,    *)
(* v17_gcp_logging_context.py).                                             *)
(*                                                                          *)
(* A scalar is a string that stands for one of its kind, and a field that an*)
(* object lacks is Absent; a nested object is flattened into the fields of  *)
(* its owner.  One field stands for all that are treated alike.  A digest is*)
(* what it digests.  Limits on sizes, names and the depth of a document are *)
(* left out, those on tables are parameters.                                *)
(***************************************************************************)
EXTENDS Naturals, Sequences, FiniteSets

CONSTANTS
  MaxRows,   \* rows of all tables, and events of a page
  MaxCells   \* cells of all tables

ASSUME CloudLogsAssumption == MaxRows \in Nat /\ MaxCells \in Nat

IsSequence(s) == Len(s) \in Nat /\ DOMAIN s = 1..Len(s)

Absent == "absent"
Null == "null"
Empty == ""
Word == {"t", "u"}
Flag == {"true", "false"}
Instant == {"10:00Z", "11:00Z"}
Unknown == Null          \* of collection_complete: nothing is claimed
Invalid == [status |-> "invalid"]

Recorded(v) == IF v = Absent THEN Null ELSE v
Marked(v) == [state |-> IF v \in {Absent, Null} THEN v ELSE "present", value |-> v]
Incomplete(more) == IF more THEN "false" ELSE Unknown

(* What every projection tells of its source.                               *)
Projected(kind, doc, format, rows, more) ==
  [status |-> "valid", kind |-> kind, source |-> doc, format |-> format, rows |-> rows,
   complete |-> Incomplete(more)]

-----------------------------------------------------------------------------
(* CloudTrail: records, or answers to lookups, which wrap them.             *)
NoWrapper == [none |-> TRUE]

TrailEventValid(e) ==
  /\ e.eventID \in Word /\ e.eventVersion = "1.08" /\ e.eventTime \in Instant
  /\ e.requestID \in Word \cup {Absent}
  /\ e.eventType # "Insight" /\ e.userIdentity = "object"
  /\ e.readOnly \in Flag \cup {Absent}

(* Mutant: an event without a flag agrees with any.                         *)
LookupAgreesOrUnknown(w, e) ==
  /\ w.EventId \in {Absent, e.eventID}
  /\ w.ReadOnly = Absent \/ (w.ReadOnly \in Flag /\ e.readOnly \in {Absent, w.ReadOnly})
  /\ w.EventTime \in {Absent, e.eventTime}

LookupAgrees(w, e) ==
  /\ w.EventId \in {Absent, e.eventID}
  /\ w.ReadOnly = Absent \/ (w.ReadOnly \in Flag /\ e.readOnly = w.ReadOnly)
  /\ w.EventTime \in {Absent, e.eventTime}

TrailEvent(entry, i) ==
  LET e == entry.event
  IN  [ordinal |-> i, id |-> e.eventID, time |-> e.eventTime, request |-> Recorded(e.requestID),
       readOnly |-> Recorded(e.readOnly), payload |-> Marked(e.requestParameters),
       event |-> e, wrapper |-> entry.wrapper]

CloudTrail(doc, format) ==
  LET lookup == format = "lookup-events"
      valid ==
        /\ doc.names \subseteq (IF lookup THEN {"Events", "NextToken"} ELSE {"Records"})
        /\ doc.names \ {"NextToken"} # {}
        /\ Len(doc.entries) <= MaxRows
        /\ "NextToken" \in doc.names => doc.token \in Word
        /\ \A i \in DOMAIN doc.entries :
             LET entry == doc.entries[i]
             IN  /\ lookup <=> entry.wrapper # NoWrapper
                 /\ TrailEventValid(entry.event)
                 /\ lookup => LookupAgrees(entry.wrapper, entry.event)
  IN  IF valid
      THEN Projected("cloudtrail", doc, format,
                     [i \in DOMAIN doc.entries |-> TrailEvent(doc.entries[i], i)], "NextToken" \in doc.names)
      ELSE Invalid

-----------------------------------------------------------------------------
(* Azure activity: a page with a link to the next one, or a list.           *)
ActivityValid(e) ==
  /\ e.eventDataId \in Word /\ e.eventTimestamp \in Instant
  /\ e.submissionTimestamp \in Instant \cup {Absent}
  /\ e.operationName \in Word
  /\ e.status \in Word \cup {Absent, "no value", Null, Empty}
  /\ e.caller \in Word \cup {Absent, Empty}

Localizable(v) ==
  [recorded |-> v # Absent, value |-> IF v \in {Absent, "no value"} THEN Null ELSE v,
   state |-> Marked(IF v = "no value" THEN Absent ELSE v).state]

ActivityEvent(e, i) ==
  [ordinal |-> i, id |-> e.eventDataId, time |-> e.eventTimestamp,
   submitted |-> Recorded(e.submissionTimestamp), operation |-> Localizable(e.operationName),
   result |-> Localizable(e.status), caller |-> Recorded(e.caller), event |-> e]

(* Mutant: a page whose link is null is taken for one that has a next.      *)
AzureActivityIfNamed(doc, format) ==
  IF /\ format = "activity-log" => doc.shape = "page" /\ doc.nextLink \in Word \cup {Absent, Null, Empty}
     /\ format = "array" => doc.shape = "list"
     /\ Len(doc.events) <= MaxRows /\ \A i \in DOMAIN doc.events : ActivityValid(doc.events[i])
  THEN Projected("azure", doc, format,
                 [i \in DOMAIN doc.events |-> ActivityEvent(doc.events[i], i)], doc.nextLink # Absent)
  ELSE Invalid

AzureActivity(doc, format) ==
  IF /\ format = "activity-log" => doc.shape = "page" /\ doc.nextLink \in Word \cup {Absent, Null, Empty}
     /\ format = "array" => doc.shape = "list"
     /\ Len(doc.events) <= MaxRows /\ \A i \in DOMAIN doc.events : ActivityValid(doc.events[i])
  THEN Projected("azure", doc, format,
                 [i \in DOMAIN doc.events |-> ActivityEvent(doc.events[i], i)], doc.nextLink \in Word)
  ELSE Invalid

-----------------------------------------------------------------------------
(* Google audit entries.  A delegate names the kinds of principals it has.  *)
EntryValid(e) ==
  /\ e.payload = "audit" /\ e.logName \in {"activity", "data_access", "system_event", "policy"}
  /\ e.insertId \in Word \cup {Absent, Empty}
  /\ e.timestamp \in Instant /\ e.methodName \in Word /\ e.resource = "object"
  /\ \A i \in DOMAIN e.delegates : Cardinality(e.delegates[i]) <= 1
  /\ \A i \in DOMAIN e.granted : e.granted[i] \in Flag \cup {Absent}
  /\ e.code \in {Absent, "0", "7"}

AuditEntry(e, i) ==
  [ordinal |-> i, log |-> e.logName, id |-> Recorded(e.insertId), time |-> e.timestamp,
   method |-> e.methodName, code |-> Recorded(e.code),
   delegates |-> [d \in DOMAIN e.delegates |-> IF e.delegates[d] = {} THEN {Null} ELSE e.delegates[d]],
   granted |-> [g \in DOMAIN e.granted |-> Recorded(e.granted[g])], event |-> e]

GoogleAudit(doc, format) ==
  IF /\ format = "entries" => doc.shape = "page" /\ doc.nextPageToken \in Word \cup {Absent, Empty}
     /\ format = "array" => doc.shape = "list"
     /\ Len(doc.entries) <= MaxRows /\ \A i \in DOMAIN doc.entries : EntryValid(doc.entries[i])
  THEN Projected("google", doc, format,
                 [i \in DOMAIN doc.entries |-> AuditEntry(doc.entries[i], i)], doc.nextPageToken \in Word)
  ELSE Invalid
-----------------------------------------------------------------------------
(* Log Analytics: tables with columns of declared types.  A cell is a token;*)
(* the first projection reads numbers as Python does, which refuses some,   *)
(* and writes them as RFC 8785 does.  The lossless one keeps their texts.   *)
NumberToken == {"7", "7.0", "2147483648", "9007199254740993", "1e400", "1e-400"}
Quoted == [token \in {"'7'", "'2147483648'"} |-> IF token = "'7'" THEN "7" ELSE "2147483648"]
Unsafe == {"9007199254740993", "1e400"}  \* not an integer in the safe range, not finite
ReadNumber(token) ==
  CASE token = "7.0" -> "7" [] token = "1e-400" -> "0" [] OTHER -> token

CellTypes == {"bool", "int", "long", "real", "datetime", "string", "dynamic"}
RetainedTypes == {"bool", "int", "long", "real", "datetime"}
NumericTypes == {"int", "long", "real", "decimal"}

CellValid(token, type) ==
  \/ token = Null \/ type = "dynamic"
  \/ type = "bool" /\ token \in Flag
  \/ type = "int" /\ token = "7"
  \/ type = "long" /\ token \in {"7", "2147483648"}
  \/ type = "real" /\ token \in NumberToken
  \/ type = "datetime" /\ token \in Instant
  \/ type = "string" /\ token \in Word \cup Instant \cup DOMAIN Quoted

Cell(token, type) ==
  [state |-> Marked(token).state, retained |-> token # Null /\ type \in RetainedTypes,
   value |-> IF type \in RetainedTypes THEN ReadNumber(token) ELSE Null]

(* Mutant: a real that underflows is kept.                                  *)
NumericTextOfAny(token, type) ==
  LET text == IF token \in DOMAIN Quoted THEN Quoted[token] ELSE token
      valid == /\ text \in NumberToken
               /\ type \in {"int", "long"} => text \in {"7", "2147483648", "9007199254740993"}
               /\ type = "int" => text = "7"
               /\ type \in {"real", "decimal"} => text # "1e400"
  IN  IF valid THEN text ELSE Absent

(* The text of a number in the range of its type, or Absent.                *)
NumericText(token, type) ==
  LET text == IF token \in DOMAIN Quoted THEN Quoted[token] ELSE token
      valid == /\ text \in NumberToken
               /\ type \in {"int", "long"} => text \in {"7", "2147483648", "9007199254740993"}
               /\ type = "int" => text = "7"
               /\ type \in {"real", "decimal"} => text \notin {"1e400", "1e-400"}
  IN  IF valid THEN text ELSE Absent

LosslessCellValid(token, type) ==
  IF type \in NumericTypes
  THEN token = Null \/ NumericText(token, type) # Absent
  ELSE CellValid(token, type)

LosslessCell(token, type) ==
  [state |-> Marked(token).state, retained |-> token # Null /\ type \in RetainedTypes \cup NumericTypes,
   value |-> IF type \in NumericTypes /\ token # Null THEN NumericText(token, type)
             ELSE IF type \in {"bool", "datetime"} THEN token ELSE Null,
   number |-> token \in NumberToken]

(* The tables of a document, however broken they are.                       *)
HasTables(doc) ==
  /\ IsSequence(doc.tables)
  /\ \A t \in DOMAIN doc.tables :
       /\ IsSequence(doc.tables[t].columns) /\ IsSequence(doc.tables[t].rows)
       /\ \A r \in DOMAIN doc.tables[t].rows : IsSequence(doc.tables[t].rows[r])

(* Mutant: the limits hold for every table.                                 *)
TablesValidEach(tables, types) ==
  \A t \in DOMAIN tables :
    LET columns == tables[t].columns
        rows == tables[t].rows
    IN  /\ Len(columns) >= 1
        /\ \A i, j \in DOMAIN columns : columns[i].name = columns[j].name => i = j
        /\ \A i \in DOMAIN columns : columns[i].type \in types
        /\ \A r \in DOMAIN rows : Len(rows[r]) = Len(columns)
        /\ Len(rows) <= MaxRows /\ Len(rows) * Len(columns) <= MaxCells

Total(counts) ==
  LET total[n \in 0..Len(counts)] == IF n = 0 THEN 0 ELSE total[n - 1] + counts[n]
  IN  total[Len(counts)]
RowCount(tables) == Total([t \in DOMAIN tables |-> Len(tables[t].rows)])
CellCount(tables) == Total([t \in DOMAIN tables |-> Len(tables[t].rows) * Len(tables[t].columns)])

TablesValid(tables, types) ==
  /\ \A t \in DOMAIN tables :
       LET columns == tables[t].columns
           rows == tables[t].rows
       IN  /\ Len(columns) >= 1
           /\ \A i, j \in DOMAIN columns : columns[i].name = columns[j].name => i = j
           /\ \A i \in DOMAIN columns : columns[i].type \in types
           /\ \A r \in DOMAIN rows : Len(rows[r]) = Len(columns)
  /\ RowCount(tables) <= MaxRows /\ CellCount(tables) <= MaxCells

QueryResultValid(doc, format) ==
  /\ doc.names \subseteq {"tables", "error"} \cup (IF format = "resource-tables" THEN {"permissions"} ELSE {})
  /\ "tables" \in doc.names
  /\ "error" \in doc.names => doc.error = "PartialError"

Cells(tables) ==
  UNION {{<<tables[t].rows[r][c], tables[t].columns[c].type>> : c \in DOMAIN tables[t].columns,
            r \in DOMAIN tables[t].rows} : t \in DOMAIN tables}

LogAnalytics(doc, format) ==
  IF /\ QueryResultValid(doc, format) /\ TablesValid(doc.tables, CellTypes)
     /\ \A cell \in Cells(doc.tables) : CellValid(cell[1], cell[2]) /\ cell[1] \notin Unsafe
  THEN LET Row(row, columns) == [c \in DOMAIN row |-> Cell(row[c], columns[c].type)]
       IN  Projected("analytics", doc, format,
             [t \in DOMAIN doc.tables |->
                [r \in DOMAIN doc.tables[t].rows |-> Row(doc.tables[t].rows[r], doc.tables[t].columns)]],
             "error" \in doc.names)
  ELSE Invalid

LosslessAnalytics(doc, format) ==
  IF /\ QueryResultValid(doc, format) /\ TablesValid(doc.tables, CellTypes \cup {"decimal"})
     /\ \A cell \in Cells(doc.tables) : LosslessCellValid(cell[1], cell[2])
  THEN LET Row(row, columns) == [c \in DOMAIN row |-> LosslessCell(row[c], columns[c].type)]
       IN  Projected("lossless", doc, format,
             [t \in DOMAIN doc.tables |->
                [r \in DOMAIN doc.tables[t].rows |-> Row(doc.tables[t].rows[r], doc.tables[t].columns)]],
             "error" \in doc.names)
  ELSE Invalid

-----------------------------------------------------------------------------
(* Requests that results are bound to.  The text of a query is a sequence of*)
(* characters, in a URL as they are encoded there.                          *)
Plain == {"a"}
Encoded == {"%2B", "%20"}
FormOnly == {"+", "*"}

(* Mutant: a plus sign is a space, also when it was encoded.                *)
DecodeTwice(piece) ==
  CASE piece \in {"%2B", "%20", "+"} -> " " [] OTHER -> piece

Decode(piece) ==
  CASE piece = "%2B" -> "+" [] piece = "%20" -> " " [] piece = "+" -> " " [] OTHER -> piece

(* How a client encodes a text, of a form or else as a component of a URL.  *)
Character == {"a", "+", " ", "*"}
Encode(c, form) ==
  CASE c = "+" -> "%2B" [] c = " " /\ form -> "+" [] c = " " /\ ~form -> "%20" [] OTHER -> c

IsWritten(pieces, text, form) ==
  text \in Seq(Character) /\ pieces = [i \in DOMAIN text |-> Encode(text[i], form)]

(* A request that was meant to send a query does.                           *)
SendsQuery(request) ==
  /\ request.method = "POST" /\ "query" \in DOMAIN request.body => request.body["query"] = request.meant
  /\ request.method = "GET" => \E form \in BOOLEAN : \A i \in DOMAIN request.fields :
       request.fields[i][1] = "query" => IsWritten(request.fields[i][2], request.meant, form)

ComponentValid(pieces, encoding) ==
  \A i \in DOMAIN pieces : pieces[i] \in Plain \cup Encoded \cup (IF encoding = "form" THEN FormOnly ELSE {})

Component(pieces, encoding) == [i \in DOMAIN pieces |-> Decode(pieces[i])]

Blank(text) == \A i \in DOMAIN text : text[i] = " "

OptionalNames(scope, encoding) ==
  {"timespan"} \cup (IF scope = "workspace" /\ encoding # "percent" THEN {"workspaces"} ELSE {})

PostValid(request) ==
  /\ request.method = "POST" /\ request.contentType = "application/json"
  /\ "query" \in DOMAIN request.body
  /\ DOMAIN request.body \subseteq {"query"} \cup OptionalNames(request.scope, "json")
  /\ ~Blank(request.body["query"])

(* Fields are pairs of a name and an encoded text, in the order of the URL. *)
GetValid(request, encoding) ==
  LET fields == request.fields
      names == {"query"} \cup OptionalNames(request.scope, encoding)
  IN  /\ request.method = "GET" /\ fields # <<>>
      /\ \A i, j \in DOMAIN fields : fields[i][1] = fields[j][1] => i = j
      /\ \A i \in DOMAIN fields : fields[i][1] \in names /\ ComponentValid(fields[i][2], encoding)
      /\ \E i \in DOMAIN fields :
           fields[i][1] = "query" /\ ~Blank(Component(fields[i][2], encoding))

GetParameters(request, encoding) ==
  [name \in {request.fields[i][1] : i \in DOMAIN request.fields} |->
     LET i == CHOOSE k \in DOMAIN request.fields : request.fields[k][1] = name
     IN  Component(request.fields[i][2], encoding)]

EncodingOf(format) == IF format \in {"workspace-get-form", "resource-get-form"} THEN "form" ELSE "percent"
ScopeOf(format) ==
  IF format \in {"workspace-post", "workspace-get", "workspace-get-form"} THEN "workspace" ELSE "resource"

ContextValid(doc, context, format) ==
  /\ context.request.scope = ScopeOf(format)
  /\ IF format \in {"workspace-post", "resource-post"} THEN PostValid(context.request)
     ELSE GetValid(context.request, EncodingOf(format))
  /\ context.status = 200 /\ context.bound = doc

RequestParameters(request, format) ==
  IF request.method = "POST" THEN request.body ELSE GetParameters(request, EncodingOf(format))

(* A projection, with the request that its source answers.                  *)
InContext(kind, result, format, context, parameters) ==
  [status |-> result.status, kind |-> kind, source |-> result.source, format |-> format,
   rows |-> result.rows, complete |-> result.complete, context |-> context, parameters |-> parameters]

AnalyticsContext(doc, context, format) ==
  LET result == LogAnalytics(doc, IF ScopeOf(format) = "resource" THEN "resource-tables" ELSE "tables")
  IN  IF ContextValid(doc, context, format) /\ result # Invalid
      THEN InContext("analytics-context", result, format, context, RequestParameters(context.request, format))
      ELSE Invalid

GoogleContext(doc, context, format) ==
  LET body == context.request.body
      result == GoogleAudit(doc, "entries")
  IN  IF /\ context.request.method = "POST" /\ context.request.contentType = "application/json"
         /\ {"resourceNames"} \subseteq DOMAIN body
         /\ DOMAIN body \subseteq {"resourceNames", "filter", "orderBy", "pageSize", "pageToken"}
         /\ body["resourceNames"] # <<>>
         /\ context.status = 200 /\ context.bound = doc
         /\ result # Invalid
      THEN InContext("google-context", result, format, context, body)
      ELSE Invalid
=============================================================================
