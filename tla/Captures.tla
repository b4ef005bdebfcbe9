------------------------------- MODULE Captures -------------------------------
(***************************************************************************)
(* Captures that publish a directory of their own: one query of a cloud log *)
(* (v17_log_analytics_capture.py, v17_gcp_logging_capture.py), or the pages *)
(* of a PDF or PNG rendered in a container that nothing else uses           *)
(* (v17_pdf_render.py, v17_png_ocr.py).  Commands fail or die at any point, *)
(* may be given one directory, and an operator discards what ended.         *)
(*                                                                          *)
(* Left out is what a response or a page says; what was validated once is   *)
(* valid when it is validated again.  The daemon handles one command before *)
(* the next that names the same container.                                  *)
(***************************************************************************)
EXTENDS Naturals, Sequences, FiniteSets

CONSTANTS
  Capturer,     \* runs of a capture command
  Directory,    \* out_dir
  MaxFaults     \* bound on failing writes and deaths

ASSUME CaptureAssumption == MaxFaults \in Nat

VARIABLES
  capture,      \* how far each capture is, and what it will tell
  container,    \* of each capture
  made,         \* directories there are
  published,    \* files in them
  faults        \* how many writes failed and captures died

captureVars == <<capture, container, made, published, faults>>

Kinds == {"query", "pdf", "png"}

(* The files of an outcome, in the order in which they are written.  The    *)
(* receipt of a query is published by a link to the last of them.           *)
MembersOf ==
  [captured |-> <<"response.json", "context.json", "projection.json">>,
   failed |-> <<"response.json", "capture-observation.json">>,
   pdf |-> <<"source.pdf", "visible.txt", "page-001.png">>,
   png |-> <<"source.png", "bridge.pdf", "visible.txt", "observed.png">>]
Outcomes == DOMAIN MembersOf
ReceiptOf == [query |-> "receipt.json", pdf |-> "render.json", png |-> "png-ocr.json"]
Pending == "receipt.pending.json"
Receipts == {ReceiptOf[kind] : kind \in Kinds}
Names == Receipts \cup {Pending}
           \cup UNION {{MembersOf[o][i] : i \in DOMAIN MembersOf[o]} : o \in Outcomes}

(* Mutant: the receipt is written before the last member.                   *)
FilesOfEarly(kind, outcome) ==
  LET members == MembersOf[outcome]
      receipt == IF kind = "query" THEN Pending ELSE ReceiptOf[kind]
  IN  Append(Append(SubSeq(members, 1, Len(members) - 1), receipt), members[Len(members)])

FilesOf(kind, outcome) ==
  Append(MembersOf[outcome], IF kind = "query" THEN Pending ELSE ReceiptOf[kind])

NoCapture == [at |-> "none"]
Capturing ==
  [at : {"directory", "send", "write", "fill", "link", "unlink", "daemon", "create", "inspect",
         "start", "attached", "remove", "report", "done", "reported", "error", "dead"},
   kind : Kinds, dir : Directory, outcome : Outcomes \cup {"none"}, left : Seq(Names),
   performed : {"no", "unknown", "yes"}, cleaned : BOOLEAN]
File == [dir : Directory, name : Names, by : Capturer, whole : BOOLEAN]

CapturesTypeOK ==
  /\ capture \in [Capturer -> {NoCapture} \cup Capturing]
  /\ container \in [Capturer -> [is : {"none", "created", "running", "exited", "failed"}, ran : BOOLEAN]]
  /\ made \subseteq Directory /\ published \subseteq File
  /\ faults \in 0..MaxFaults

CapturesInit ==
  /\ capture = [c \in Capturer |-> NoCapture]
  /\ container = [c \in Capturer |-> [is |-> "none", ran |-> FALSE]]
  /\ made = {} /\ published = {} /\ faults = 0

Stands(c, at) == capture[c].at = at
Ended(c) == capture[c].at \in {"none", "done", "reported", "error", "dead"}
Move(c, at) == capture' = [capture EXCEPT ![c].at = at]
InDirectory(d, name) == \E f \in published : f.dir = d /\ f.name = name
Written(c, name, whole) == [dir |-> capture[c].dir, name |-> name, by |-> c, whole |-> whole]

(* A query makes its directory before it is sent, a rendering after.        *)
BeginCapture(c, kind, d) ==
  /\ Stands(c, "none")
  /\ capture' = [capture EXCEPT ![c] =
       [at |-> IF kind = "query" THEN "directory" ELSE "daemon", kind |-> kind, dir |-> d,
        outcome |-> "none", left |-> <<>>, performed |-> "no", cleaned |-> TRUE]]
  /\ UNCHANGED <<container, made, published, faults>>

-----------------------------------------------------------------------------
(* Publishing.                                                              *)

(* Mutant: a directory that is there is used.                               *)
MakeDirectoryShared(c) ==
  /\ Stands(c, "directory")
  /\ made' = made \cup {capture[c].dir}
  /\ Move(c, IF capture[c].kind = "query" THEN "send" ELSE "write")
  /\ UNCHANGED <<container, published, faults>>

MakeDirectory(c) ==
  /\ Stands(c, "directory")
  /\ IF capture[c].dir \in made
     THEN Move(c, "error") /\ UNCHANGED made
     ELSE /\ made' = made \cup {capture[c].dir}
          /\ Move(c, IF capture[c].kind = "query" THEN "send" ELSE "write")
  /\ UNCHANGED <<container, published, faults>>

(* One request without retries: no response, one that cannot be normalized, *)
(* or one that is captured.                                                 *)
Send(c) ==
  /\ Stands(c, "send")
  /\ \/ Move(c, "error")
     \/ \E outcome \in {"captured", "failed"} :
          capture' = [capture EXCEPT ![c].at = "write", ![c].outcome = outcome,
                                     ![c].left = FilesOf("query", outcome)]
  /\ UNCHANGED <<container, made, published, faults>>

(* Files are opened exclusively.                                            *)
OpenNew(c) ==
  LET name == Head(capture[c].left)
  IN  /\ Stands(c, "write")
      /\ IF InDirectory(capture[c].dir, name)
         THEN Move(c, "error") /\ UNCHANGED published
         ELSE published' = published \cup {Written(c, name, FALSE)} /\ Move(c, "fill")
      /\ UNCHANGED <<container, made, faults>>

Filled(c) ==
  LET name == Head(capture[c].left)
  IN  (published \ {Written(c, name, FALSE)}) \cup {Written(c, name, TRUE)}

FillFile(c) ==
  /\ Stands(c, "fill")
  /\ published' = Filled(c)
  /\ capture' = [capture EXCEPT ![c].left = Tail(@),
       ![c].at = IF Len(capture[c].left) > 1 THEN "write"
                 ELSE IF capture[c].kind = "query" THEN "link" ELSE "done"]
  /\ UNCHANGED <<container, made, faults>>

(* Writing, flushing or syncing raises, with a part or all in the file.     *)
FillFails(c) ==
  /\ Stands(c, "fill") /\ faults < MaxFaults
  /\ published' \in {published, Filled(c)}
  /\ Move(c, "error")
  /\ faults' = faults + 1
  /\ UNCHANGED <<container, made>>

LinkReceipt(c) ==
  /\ Stands(c, "link")
  /\ IF InDirectory(capture[c].dir, "receipt.json")
     THEN Move(c, "error") /\ UNCHANGED published
     ELSE published' = published \cup {Written(c, "receipt.json", TRUE)} /\ Move(c, "unlink")
  /\ UNCHANGED <<container, made, faults>>

(* Opening a file or linking raises, or a report is too long.               *)
PublishFails(c) ==
  /\ Stands(c, "write") \/ Stands(c, "link")
  /\ faults < MaxFaults
  /\ Move(c, "error")
  /\ faults' = faults + 1
  /\ UNCHANGED <<container, made, published>>

(* That the staging copy cannot be removed is no error.                     *)
UnlinkPending(c) ==
  /\ Stands(c, "unlink")
  /\ published' \in {published, published \ {Written(c, Pending, TRUE)}}
  /\ Move(c, "done")
  /\ UNCHANGED <<container, made, faults>>

-----------------------------------------------------------------------------
(* Rendering.  Whatever raises after a container may have been created goes *)
(* on to its removal.                                                       *)

(* An unsuitable source, daemon or image is reported.                       *)
AskDaemon(c) ==
  /\ Stands(c, "daemon")
  /\ \E at \in {"create", "reported"} : Move(c, at)
  /\ UNCHANGED <<container, made, published, faults>>

CreateContainer(c) ==
  /\ Stands(c, "create")
  /\ \/ container' = [container EXCEPT ![c].is = "created"] /\ Move(c, "inspect")
     \/ /\ container' \in {container, [container EXCEPT ![c].is = "created"]}
        /\ Move(c, "remove")
  /\ UNCHANGED <<made, published, faults>>

InspectContainer(c) ==
  /\ Stands(c, "inspect")
  /\ \E at \in {"start", "remove"} : Move(c, at)
  /\ UNCHANGED <<container, made, published, faults>>

(* Mutant: only what ended well counts as performed.                        *)
StartContainerUnmarked(c) ==
  /\ Stands(c, "start")
  /\ \/ container' = [container EXCEPT ![c] = [is |-> "running", ran |-> TRUE]] /\ Move(c, "attached")
     \/ Move(c, "remove") /\ UNCHANGED container
  /\ UNCHANGED <<made, published, faults>>

(* From here on it is unknown whether something was rendered.               *)
StartContainer(c) ==
  /\ Stands(c, "start")
  /\ \/ /\ container' = [container EXCEPT ![c] = [is |-> "running", ran |-> TRUE]]
        /\ capture' = [capture EXCEPT ![c].performed = "unknown", ![c].at = "attached"]
     \/ /\ capture' = [capture EXCEPT ![c].performed = "unknown", ![c].at = "remove"]
        /\ UNCHANGED container
  /\ UNCHANGED <<made, published, faults>>

ContainerEnds(c) ==
  /\ container[c].is = "running"
  /\ \E end \in {"exited", "failed"} : container' = [container EXCEPT ![c].is = end]
  /\ UNCHANGED <<capture, made, published, faults>>

(* The response counts if the container is stopped, went well and nothing   *)
(* about it changed; waiting for it may take too long.                      *)
TakeResponse(c) ==
  /\ Stands(c, "attached")
  /\ \/ /\ container[c].is = "exited"
        /\ capture' = [capture EXCEPT ![c].outcome = capture[c].kind, ![c].at = "remove"]
     \/ Move(c, "remove")
  /\ UNCHANGED <<container, made, published, faults>>

(* Mutant: removal is taken for granted.                                    *)
RemoveContainerHopefully(c) ==
  /\ Stands(c, "remove")
  /\ \/ container' = [container EXCEPT ![c].is = "none"]
     \/ UNCHANGED container
  /\ Move(c, "report")
  /\ UNCHANGED <<made, published, faults>>

(* The command may fail although the container is gone.                     *)
RemoveContainer(c) ==
  /\ Stands(c, "remove")
  /\ \/ /\ container' = [container EXCEPT ![c].is = "none"]
        /\ Move(c, "report")
     \/ /\ capture' = [capture EXCEPT ![c].cleaned = FALSE, ![c].at = "report"]
        /\ container' \in {container, [container EXCEPT ![c].is = "none"]}
  /\ UNCHANGED <<made, published, faults>>

ReportRendering(c) ==
  LET kind == capture[c].kind
  IN  /\ Stands(c, "report")
      /\ IF capture[c].cleaned /\ capture[c].outcome # "none"
         THEN capture' = [capture EXCEPT ![c].performed = "yes", ![c].at = "directory",
                                         ![c].left = FilesOf(kind, kind)]
         ELSE Move(c, "reported")
      /\ UNCHANGED <<container, made, published, faults>>

-----------------------------------------------------------------------------
(* A capture is killed.                                                     *)
Dies(c) ==
  /\ ~Ended(c) /\ faults < MaxFaults
  /\ Move(c, "dead")
  /\ faults' = faults + 1
  /\ UNCHANGED <<container, made, published>>

(* An operator removes a directory that no capture works on.                *)
Discard(d) ==
  /\ d \in made
  /\ \A c \in Capturer : ~Ended(c) => capture[c].dir # d
  /\ made' = made \ {d}
  /\ published' = {f \in published : f.dir # d}
  /\ UNCHANGED <<capture, container, faults>>

CapturesNext ==
  \/ \E c \in Capturer :
       \/ \E kind \in Kinds, d \in Directory : BeginCapture(c, kind, d)
       \/ MakeDirectory(c) \/ Send(c) \/ OpenNew(c) \/ FillFile(c) \/ FillFails(c)
       \/ LinkReceipt(c) \/ PublishFails(c) \/ UnlinkPending(c)
       \/ AskDaemon(c) \/ CreateContainer(c) \/ InspectContainer(c) \/ StartContainer(c)
       \/ ContainerEnds(c) \/ TakeResponse(c) \/ RemoveContainer(c) \/ ReportRendering(c)
       \/ Dies(c)
  \/ \E d \in Directory : Discard(d)

CapturesSpec == CapturesInit /\ [][CapturesNext]_captureVars

-----------------------------------------------------------------------------
(* Properties.                                                              *)

(* A receipt that is there in full stands beside all that it lists, whole   *)
(* and of the same capture; a rendering it tells of took place, and nothing *)
(* of its container is left.  A directory holds one capture.                *)
CompleteSets ==
  /\ \A f \in published : f.name \in Receipts /\ f.whole =>
       LET members == MembersOf[capture[f.by].outcome]
       IN  /\ \A i \in DOMAIN members : [f EXCEPT !.name = members[i]] \in published
           /\ capture[f.by].kind # "query" =>
                container[f.by].ran /\ container[f.by].is = "none"
  /\ \A f, g \in published : f.dir = g.dir => f.by = g.by

(* A capture that told an outcome told the truth about its container: it    *)
(* says that nothing was rendered only if the container never ran, and that *)
(* it was cleaned up only if it is gone.                                    *)
ContainerReported ==
  \A c \in Capturer : Ended(c) /\ capture[c].at \notin {"none", "dead"} =>
    /\ capture[c].performed = "no" => ~container[c].ran
    /\ capture[c].cleaned => container[c].is = "none"

(* A query that ended in an error has no receipt.                           *)
ErrorsLeaveNoReceipt ==
  \A f \in published :
    f.name = "receipt.json" => ~Stands(f.by, "error")

CapturesSound == CompleteSets /\ ContainerReported /\ ErrorsLeaveNoReceipt
=============================================================================
