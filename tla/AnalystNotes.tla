------------------------------ MODULE AnalystNotes ------------------------------
(***************************************************************************)
(* The chained logs that analysts keep of a case: signed annotations        *)
(* (analyst_annotations.py) and signed actions (analyst_action_audit.py).   *)
(* Whoever adds a record reads the last hash and then appends a line,       *)
(* without a lock and perhaps not all of it; an analyst's private key is    *)
(* the analyst here.                                                        *)
(*                                                                          *)
(* The hash of a record is its number, 0 is the hash before the first.      *)
(***************************************************************************)
EXTENDS Naturals, Sequences, FiniteSets

CONSTANTS
  Author,
  MaxNotes   \* bound on records that are begun

ASSUME NotesAssumption == MaxNotes \in Nat

VARIABLES
  lines,    \* of the log
  adding,   \* the record that each author is about to append
  begun,    \* how many were begun
  added,    \* records whose authors were told that they are added
  crossed   \* whether one was written that another had overtaken

notesVars == <<lines, adding, begun, added, crossed>>

Record == [id : 1..MaxNotes, prev : 0..MaxNotes, by : Author]
Garbage == [is |-> "garbage"]   \* a line that does not parse
Torn == [is |-> "torn"]         \* one that does not even end

NotAdding == [is |-> "resting"]
Adding == [record : Record, overtaken : BOOLEAN]

NotesTypeOK ==
  /\ lines \in Seq(Record \cup {Garbage, Torn}) /\ Len(lines) <= MaxNotes
  /\ adding \in [Author -> Adding \cup {NotAdding}]
  /\ begun \in 0..MaxNotes /\ added \subseteq Record /\ crossed \in BOOLEAN

NotesInit ==
  /\ lines = <<>> /\ adding = [a \in Author |-> NotAdding]
  /\ begun = 0 /\ added = {} /\ crossed = FALSE

Parse(log) == \A i \in DOMAIN log : log[i] \notin {Garbage, Torn}
LastHashOf(log) == IF log = <<>> THEN 0 ELSE log[Len(log)].id

(* Every line is parsed for the last hash: after one that is cut, nobody    *)
(* adds anything.                                                           *)
BeginNote(a) ==
  /\ adding[a] = NotAdding /\ begun < MaxNotes /\ Parse(lines)
  /\ begun' = begun + 1
  /\ adding' = [adding EXCEPT ![a] =
       [record |-> [id |-> begun', prev |-> LastHashOf(lines), by |-> a], overtaken |-> FALSE]]
  /\ UNCHANGED <<lines, added, crossed>>

(* What is written after an incomplete line becomes part of it.             *)
Write(line) ==
  lines' = IF lines # <<>> /\ lines[Len(lines)] = Torn
           THEN [lines EXCEPT ![Len(lines)] = IF line = Torn THEN Torn ELSE Garbage]
           ELSE Append(lines, line)

Overtaking(a) ==
  adding' = [b \in Author |-> IF b = a \/ adding[b] = NotAdding THEN NotAdding
                              ELSE [adding[b] EXCEPT !.overtaken = TRUE]]

WriteNote(a) ==
  /\ adding[a] # NotAdding /\ Write(adding[a].record) /\ Overtaking(a)
  /\ crossed' = (crossed \/ adding[a].overtaken) /\ UNCHANGED begun
  /\ added' \in {added, added \cup {adding[a].record}}

(* The author's process ends before the line, or in the midst of it.        *)
StopNote(a) ==
  /\ adding[a] # NotAdding
  /\ \/ UNCHANGED lines /\ adding' = [adding EXCEPT ![a] = NotAdding]
     \/ Write(Torn) /\ Overtaking(a)
  /\ UNCHANGED <<begun, added, crossed>>

NotesNext == \E a \in Author : BeginNote(a) \/ WriteNote(a) \/ StopNote(a)

NotesSpec == NotesInit /\ [][NotesNext]_notesVars

-----------------------------------------------------------------------------
(* verify, of one public key (annotations) or of several (actions).         *)

(* Mutant: each record names some record before it.                         *)
ChainedSomewhere(log) ==
  \A i \in DOMAIN log : log[i].prev \in {0} \cup {log[j].id : j \in 1..(i - 1)}

Chained(log) == \A i \in DOMAIN log : log[i].prev = LastHashOf(SubSeq(log, 1, i - 1))

Verifies(log, keys) == Parse(log) /\ Chained(log) /\ \A i \in DOMAIN log : log[i].by \in keys

(* A log verifies for those who know all its authors just when every line   *)
(* was finished and no author was overtaken between reading and writing,    *)
(* and then whoever was told that a record is added finds it, once.         *)
NotesSound ==
  /\ Verifies(lines, Author) <=> Parse(lines) /\ ~crossed
  /\ Verifies(lines, Author) =>
       \A r \in added : Cardinality({i \in DOMAIN lines : lines[i] = r}) = 1
=============================================================================
