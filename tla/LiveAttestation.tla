-------------------------- MODULE LiveAttestation ---------------------------
(***************************************************************************)
(* The log of live attestation (live_attestation.py): probe runs, scheduled *)
(* or by hand, that append to one hash-chained file and end with a head of  *)
(* it.  Nothing locks the file.  A run resumes the chain that it finds and  *)
(* keeps the last hash in memory; a write may fail with nothing, a part or  *)
(* all of the line in the file, and a process may die at any point.         *)
(*                                                                          *)
(* The number of an event stands for its hash, 0 for that of no event.      *)
(* What hooks measure during a probe is left out.                           *)
(***************************************************************************)
EXTENDS Naturals, Sequences, FiniteSets

CONSTANTS
  Process,      \* processes that run probes
  MaxRuns,      \* bound on runs
  Probes,       \* prompts in a run
  MaxMishaps    \* bound on failing writes and deaths

ASSUME AttestationAssumption ==
  MaxRuns \in Nat /\ Probes \in Nat /\ MaxMishaps \in Nat

VARIABLES
  log,        \* complete lines of the file, in order
  garbled,    \* the file holds a line that is not an event
  head,       \* the head file: count and last hash, if it is there and whole
  run,        \* per process, how far its run is
  runs,       \* how many runs there were
  written,    \* how many events were written
  mishaps,    \* how many writes failed and processes died
  appended,   \* history: events whose append returned
  answered,   \* history: requests whose model call returned
  orderly     \* history: no write was cut short or failed, no runs overlapped

attestationVars == <<log, garbled, head, run, runs, written, mishaps, appended, answered, orderly>>

NoRun == [at |-> "none"]
Kind == {"start", "ok", "error", "stop"}
ProbeRequest == [run : 1..MaxRuns, probe : 1..Probes + 1]
Event == [number : Nat \ {0}, prev : Nat, kind : Kind, request : ProbeRequest]

(* at: what the run does next; kind is the event that it appends.           *)
Running ==
  [at : {"append", "cut", "probe", "called", "print", "head"}, kind : Kind,
   request : ProbeRequest, prev : Nat, count : Nat]

AttestationTypeOK ==
  /\ log \in Seq(Event) /\ garbled \in BOOLEAN
  /\ head \in [file : {"none", "torn", "whole"}, count : Nat, last : Nat]
  /\ run \in [Process -> Running \cup {NoRun}]
  /\ runs \in 0..MaxRuns /\ written \in Nat /\ mishaps \in 0..MaxMishaps
  /\ appended \subseteq 1..written /\ answered \subseteq ProbeRequest
  /\ orderly \in BOOLEAN

AttestationInit ==
  /\ log = <<>> /\ garbled = FALSE
  /\ head = [file |-> "none", count |-> 0, last |-> 0]
  /\ run = [p \in Process |-> NoRun]
  /\ runs = 0 /\ written = 0 /\ mishaps = 0
  /\ appended = {} /\ answered = {} /\ orderly = TRUE

Is(p, at) == run[p].at = at
Cutting == {p \in Process : Is(p, "cut")}
LastEvent == IF log = <<>> THEN 0 ELSE log[Len(log)].number

(* verify_log: every line is an event and names the one before it.          *)
LogVerifies ==
  /\ ~garbled /\ Cutting = {}
  /\ \A i \in DOMAIN log : log[i].prev = IF i = 1 THEN 0 ELSE log[i - 1].number


-----------------------------------------------------------------------------
(* Starting, and appending.                                                 *)

(* A run refuses a log that does not verify, and else goes on from its end; *)
(* then hooks are attached, and the start is the first event.               *)
StartRun(p) ==
  /\ Is(p, "none") /\ runs < MaxRuns
  /\ LogVerifies
  /\ runs' = runs + 1
  /\ run' = [run EXCEPT ![p] = [at |-> "append", kind |-> "start", prev |-> LastEvent,
                               count |-> Len(log), request |-> [run |-> runs + 1, probe |-> 1]]]
  /\ orderly' = (orderly /\ \A q \in Process : Is(q, "none"))
  /\ UNCHANGED <<log, garbled, head, written, mishaps, appended, answered>>

(* A long line reaches the file in pieces, which mix with what others write.*)
CutLine(p) ==
  /\ Is(p, "append")
  /\ run' = [run EXCEPT ![p].at = "cut"]
  /\ garbled' = (garbled \/ Cutting # {})
  /\ UNCHANGED <<log, head, runs, written, mishaps, appended, answered, orderly>>

Writing(p) == Is(p, "append") \/ Is(p, "cut")

(* The whole line is in the file, readable unless it mixed with another's.  *)
LineReachesFile(p) ==
  LET mixed == garbled \/ Cutting \ {p} # {}
  IN  /\ garbled' = mixed
      /\ log' = IF mixed THEN log
                ELSE Append(log, [number |-> written + 1, prev |-> run[p].prev,
                                  kind |-> run[p].kind, request |-> run[p].request])
      /\ written' = written + 1

(* What follows an append that returned.                                    *)
AfterAppend ==
  [start |-> "probe", ok |-> "print", error |-> "append", stop |-> "head"]

AppendEvent(p) ==
  /\ Writing(p)
  /\ LineReachesFile(p)
  /\ run' = [run EXCEPT ![p].at = AfterAppend[run[p].kind],
                        ![p].kind = IF @ = "error" THEN "stop" ELSE @,
                        ![p].prev = written + 1, ![p].count = @ + 1]
  /\ appended' = appended \cup {written + 1}
  /\ UNCHANGED <<head, runs, mishaps, answered, orderly>>

(* Goes on to detach, whose event is the stop.                              *)
Detach(p) == run' = [run EXCEPT ![p].at = "append", ![p].kind = "stop"]

(* Writing, flushing or syncing raises; the logger keeps its last hash.     *)
(* While hooks are attached or detached that ends the run.  For a probe the *)
(* handler ends the request again, which resets its token a second time and *)
(* raises before it appends anything: the run detaches.                     *)
FailAppend(p) ==
  /\ Writing(p) /\ mishaps < MaxMishaps
  /\ \/ LineReachesFile(p)
     \/ garbled' = TRUE /\ written' = written + 1 /\ UNCHANGED log
     \/ Is(p, "append") /\ UNCHANGED <<log, garbled, written>>
  /\ IF run[p].kind \in {"start", "stop"}
     THEN run' = [run EXCEPT ![p] = NoRun]
     ELSE Detach(p)
  /\ mishaps' = mishaps + 1 /\ orderly' = FALSE
  /\ UNCHANGED <<head, runs, appended, answered>>

-----------------------------------------------------------------------------
(* Probes.                                                                  *)

(* The prompt is prepared before the request begins: if that raises, the    *)
(* request leaves no event.  No prompt is left, or one raised: detach.      *)
EndProbes(p) ==
  /\ Is(p, "probe")
  /\ Detach(p)
  /\ UNCHANGED <<log, garbled, head, runs, written, mishaps, appended, answered, orderly>>

BeginRequest(p) ==
  /\ Is(p, "probe") /\ run[p].request.probe <= Probes
  /\ run' = [run EXCEPT ![p].at = "called"]
  /\ UNCHANGED <<log, garbled, head, runs, written, mishaps, appended, answered, orderly>>

ModelReturns(p) ==
  /\ Is(p, "called")
  /\ run' = [run EXCEPT ![p].at = "append", ![p].kind = "ok"]
  /\ answered' = answered \cup {run[p].request}
  /\ UNCHANGED <<log, garbled, head, runs, written, mishaps, appended, orderly>>

ModelRaises(p) ==
  /\ Is(p, "called")
  /\ run' = [run EXCEPT ![p].at = "append", ![p].kind = "error"]
  /\ UNCHANGED <<log, garbled, head, runs, written, mishaps, appended, answered, orderly>>

NextProbe(p) ==
  /\ Is(p, "print")
  /\ run' = [run EXCEPT ![p].at = "probe", ![p].request.probe = @ + 1]
  /\ UNCHANGED <<log, garbled, head, runs, written, mishaps, appended, answered, orderly>>

(* Mutant: a request can be ended twice.                                    *)
PrintRaisesEnded(p) ==
  /\ Is(p, "print")
  /\ run' = [run EXCEPT ![p].at = "append", ![p].kind = "error"]
  /\ UNCHANGED <<log, garbled, head, runs, written, mishaps, appended, answered, orderly>>

(* The progress line is printed within the same try: when the reader of the *)
(* output is gone the handler ends the request again, which raises as above.*)
PrintRaises(p) ==
  /\ Is(p, "print")
  /\ Detach(p)
  /\ UNCHANGED <<log, garbled, head, runs, written, mishaps, appended, answered, orderly>>

-----------------------------------------------------------------------------
(* The head is written in place, from what the logger remembers.            *)
WriteHead(p) ==
  /\ Is(p, "head")
  /\ head' = [file |-> "whole", count |-> run[p].count, last |-> run[p].prev]
  /\ run' = [run EXCEPT ![p] = NoRun]
  /\ UNCHANGED <<log, garbled, runs, written, mishaps, appended, answered, orderly>>

(* A run is killed.                                                         *)
Killed(p) ==
  /\ ~Is(p, "none") /\ mishaps < MaxMishaps
  /\ mishaps' = mishaps + 1
  /\ garbled' = (garbled \/ Is(p, "cut"))
  /\ orderly' = (orderly /\ ~Is(p, "cut"))
  /\ \/ UNCHANGED head
     \/ Is(p, "head") /\ head' = [head EXCEPT !.file = "torn"]
  /\ run' = [run EXCEPT ![p] = NoRun]
  /\ UNCHANGED <<log, runs, written, appended, answered>>

AttestationNext ==
  \E p \in Process :
    \/ StartRun(p) \/ CutLine(p) \/ AppendEvent(p) \/ FailAppend(p)
    \/ EndProbes(p) \/ BeginRequest(p) \/ ModelReturns(p) \/ ModelRaises(p)
    \/ NextProbe(p) \/ PrintRaises(p)
    \/ WriteHead(p) \/ Killed(p)

AttestationSpec == AttestationInit /\ [][AttestationNext]_attestationVars

-----------------------------------------------------------------------------
(* Properties.                                                              *)

(* A log that verifies has every event whose append returned, and a head    *)
(* that was written whole names one of its events at its position: whatever *)
(* failed, died or overlapped before, what is missing shows.                *)
VerifiedLogComplete ==
  LogVerifies =>
    /\ \A n \in appended : \E i \in DOMAIN log : log[i].number = n
    /\ head.file = "whole" => log[head.count].number = head.last

(* A request has one outcome in the log at most, and that is the one the    *)
(* model call had, although errors of the log itself reach the handler of   *)
(* the model's.                                                             *)
OneOutcome ==
  \A i \in DOMAIN log : log[i].kind \in {"ok", "error"} =>
    /\ log[i].kind = "ok" <=> log[i].request \in answered
    /\ \A j \in DOMAIN log \ {i} :
         log[j].request = log[i].request => log[j].kind \notin {"ok", "error"}

(* Runs that neither overlap nor have a write cut short leave a log that    *)
(* verifies, so that the next can start: over deaths between two events,    *)
(* failing probes and restarts.                                             *)
OrderlyLogVerifies == orderly /\ Cutting = {} => LogVerifies

AttestationSound == VerifiedLogComplete /\ OneOutcome /\ OrderlyLogVerifies
=============================================================================
