----------------------------- MODULE FleetProofs -----------------------------
(***************************************************************************)
(* Theorems about fleet attestation, for every set of nodes, keys and       *)
(* stamps, every recovery rule and every bound.                             *)
(***************************************************************************)
EXTENDS FleetHeartbeat, SequenceTheorems, WellFoundedInduction, TLAPS

(* The digest of the i-th heartbeat that the collector recorded.            *)
StampAt(n, i) == IF i = 0 THEN 0 ELSE heartbeats[n][i].stamp

(* The collector's two tables agree, and every row is the node's own.       *)
TablesOK ==
  \A n \in Node :
    /\ nodeState[n].lastSeq = Len(heartbeats[n])
    /\ nodeState[n].last = StampAt(n, Len(heartbeats[n]))
    /\ \A i \in 1..Len(heartbeats[n]) :
         /\ heartbeats[n][i].node = n /\ heartbeats[n][i].seq = i
         /\ heartbeats[n][i].prev = StampAt(n, i - 1)

(* What an agent has saved is recorded, and at most one more is.            *)
SavedOK ==
  \A n \in Node :
    /\ agent[n].seq <= Len(heartbeats[n]) /\ Len(heartbeats[n]) <= agent[n].seq + 1
    /\ agent[n].last = StampAt(n, agent[n].seq)

(* No request, however late or repeated, is numbered beyond the next        *)
(* heartbeat of its sender, and this is what a running agent waits for.     *)
NumberedOK ==
  /\ \A m \in net \cup verified : m.seq <= agent[m.node].seq + 1
  /\ \A n \in Node :
       ~Idle(n) => posting[n].node = n /\ posting[n].seq = agent[n].seq + 1

(* A receipt is on its way only for what is recorded.                       *)
ReceiptsOK ==
  \A m \in answers :
    m.seq \in 1..Len(heartbeats[m.node]) /\ heartbeats[m.node][m.seq] = m

Clean(n, i) == heartbeats[n][i].severity = "clean"

(* A node that was never in an incident is NORMAL and counts nothing.       *)
NeverBad(n) ==
  /\ \A i \in 1..Len(heartbeats[n]) : Clean(n, i)
  /\ nodeState[n].state = "NORMAL" /\ nodeState[n].streak = 0

(* Else b is the last finding: the node counts the clean heartbeats after   *)
(* it as long as there are too few of them.                                 *)
LastBad(n, b) ==
  /\ ~Clean(n, b)
  /\ \A i \in 1..Len(heartbeats[n]) : i > b => Clean(n, i)
  /\ Len(heartbeats[n]) - b < Needed =>
       /\ nodeState[n].state = ShownFor[heartbeats[n][b].severity]
       /\ nodeState[n].streak = Len(heartbeats[n]) - b
  /\ Len(heartbeats[n]) - b = Needed => nodeState[n].state = "RECOVERED"
  /\ Len(heartbeats[n]) - b > Needed => nodeState[n].state = "NORMAL"

DriftOK ==
  \A n \in Node : NeverBad(n) \/ \E b \in 1..Len(heartbeats[n]) : LastBad(n, b)

Safe == TablesOK /\ SavedOK /\ NumberedOK /\ ReceiptsOK /\ DriftOK

(* The inductive invariant.                                                 *)
IInv == TypeOK /\ Safe

-----------------------------------------------------------------------------
(* Helpers.                                                                 *)

LEMMA LeastNumber ==
  ASSUME NEW S \in SUBSET Nat, S # {}
  PROVE  \E i \in S : \A j \in S : i <= j
<1> DEFINE R == OpToRel(<, Nat)
<1>1. IsWellFoundedOn(R, Nat)
  BY NatLessThanWellFounded
<1>2. PICK i \in S : \A j \in S : ~(<<j, i>> \in R)
  BY <1>1, WFMin, Zenon
<1>3. \A j \in S : ~(j < i)
  BY <1>2 DEF OpToRel
<1> QED
  BY <1>3

(* The stamp of a new payload is one that nothing carries.                  *)
LEMMA FreshIsFresh ==
  ASSUME Stamps \ InUse # {}
  PROVE  Fresh \in Stamps \ InUse
<1> DEFINE free == Stamps \ InUse
<1>1. free \in SUBSET Nat
  BY FleetAssumption
<1>2. \E s \in free : \A t \in free : s <= t
  BY <1>1, LeastNumber
<1> QED
  BY <1>2 DEF Fresh

LEMMA AHeartbeat ==
  ASSUME NEW m \in Heartbeat
  PROVE  /\ m.node \in Node /\ m.seq \in 1..MaxSeq /\ m.prev \in Stamps \cup {0}
         /\ m.stamp \in Stamps /\ m.severity \in Severity /\ m.key \in Key
         /\ m # NoHeartbeat
<1>1. m.stamp \in Stamps /\ 0 \notin Stamps
  BY FleetAssumption DEF Heartbeat
<1>2. m # NoHeartbeat
  BY <1>1 DEF NoHeartbeat
<1> QED
  BY <1>2 DEF Heartbeat

(* aggregate_state yields a drift state and a count.                        *)
LEMMA AggregateTyped ==
  ASSUME NEW severity \in Severity, NEW state \in DriftState, NEW streak \in Nat
  PROVE  /\ Aggregate(severity, state, streak).state \in DriftState
         /\ Aggregate(severity, state, streak).streak \in Nat
BY DEF Aggregate, Severity, DriftState

LEMMA NeededPositive == /\ Needed \in Nat /\ Needed >= 1
                        /\ \A k \in Nat : k >= 1 => (k >= RecoveryRequired <=> k >= Needed)
BY FleetAssumption DEF Needed

-----------------------------------------------------------------------------
(* Each action preserves the invariant.                                     *)

LEMMA Initially == ASSUME Init PROVE IInv
<1> USE FleetAssumption
<1>1. TypeOK
  BY DEF Init, TypeOK, DriftState
<1>2. \A n \in Node : Len(heartbeats[n]) = 0
  BY DEF Init
<1>3. TablesOK /\ SavedOK /\ NumberedOK /\ ReceiptsOK
  BY <1>2 DEF Init, TablesOK, SavedOK, NumberedOK, ReceiptsOK, StampAt, Idle
<1>4. DriftOK
  BY <1>2 DEF Init, DriftOK, NeverBad
<1> QED
  BY <1>1, <1>3, <1>4 DEF IInv, Safe

(* What does not touch the collector's tables or the agents' files keeps    *)
(* all that relates them.                                                   *)
LEMMA TablesKept ==
  ASSUME Safe, UNCHANGED <<agent, collectorVars>>
  PROVE  (TablesOK /\ SavedOK /\ DriftOK)' /\ (answers' \subseteq answers => ReceiptsOK')
<1> USE DEF collectorVars
<1>1. TablesOK'
  BY DEF Safe, TablesOK, StampAt
<1>2. SavedOK'
  BY DEF Safe, SavedOK, StampAt
<1>3. DriftOK'
  BY SMTT(60) DEF Safe, DriftOK, NeverBad, LastBad, Clean
<1>4. ASSUME answers' \subseteq answers PROVE ReceiptsOK'
  BY <1>4 DEF Safe, ReceiptsOK
<1> QED
  BY <1>1, <1>2, <1>3, <1>4

LEMMA PostKeeps ==
  ASSUME IInv, NEW n \in Node, NEW s \in Findings, Post(n, s)
  PROVE  IInv'
<1> USE DEF IInv
<1> DEFINE m == [node |-> n, seq |-> agent[n].seq + 1, prev |-> agent[n].last,
                 stamp |-> Fresh, severity |-> s, key |-> nodeKey[n]]
<1>1. posting' = [posting EXCEPT ![n] = m] /\ net' = net \cup {m}
  BY DEF Post
<1>2. m \in Heartbeat
  <2>1. Fresh \in Stamps
    BY FreshIsFresh DEF Post
  <2>2. agent[n].seq + 1 \in 1..MaxSeq /\ agent[n].last \in Stamps \cup {0} /\ nodeKey[n] \in Key
    BY FleetAssumption DEF Post, TypeOK
  <2>3. s \in Severity
    BY FleetAssumption
  <2> QED
    BY <2>1, <2>2, <2>3 DEF Heartbeat
<1>3. m.node = n /\ m.seq = agent[n].seq + 1
  OBVIOUS
<1> HIDE DEF m
<1>4. TypeOK'
  BY <1>1, <1>2, SMTT(60) DEF Post, TypeOK, collectorVars
<1>5. (TablesOK /\ SavedOK /\ DriftOK /\ ReceiptsOK)'
  BY TablesKept DEF Post
<1>6. NumberedOK'
  BY <1>1, <1>3, SMTT(60) DEF Post, Safe, NumberedOK, Idle, TypeOK
<1> QED
  BY <1>4, <1>5, <1>6 DEF Safe

LEMMA SaveStateKeeps ==
  ASSUME IInv, NEW n \in Node, SaveState(n)
  PROVE  IInv'
<1> USE DEF IInv
<1> DEFINE m == posting[n]
<1>1. m \in Heartbeat /\ m \in answers
  BY DEF SaveState, TypeOK
<1>2. ~Idle(n) /\ m.node = n /\ m.seq = agent[n].seq + 1 /\ m.seq \in 1..MaxSeq /\ m.stamp \in Stamps
  BY <1>1, AHeartbeat DEF Safe, NumberedOK, Idle
<1>3. m.seq \in 1..Len(heartbeats[n]) /\ heartbeats[n][m.seq] = m
  BY <1>1, <1>2 DEF Safe, ReceiptsOK
<1>4. agent' \in [Node -> [seq : 0..MaxSeq, last : Stamps \cup {0}]]
  BY <1>2 DEF SaveState, TypeOK
<1>5. agent'[n].seq = agent[n].seq + 1 /\ agent'[n].last = m.stamp
  BY <1>2 DEF SaveState, TypeOK
<1>6. \A v \in Node \ {n} : agent'[v] = agent[v]
  BY DEF SaveState, TypeOK
<1>7. posting' \in [Node -> Heartbeat \cup {NoHeartbeat}]
  BY DEF SaveState, TypeOK
<1>8. posting'[n] = NoHeartbeat /\ \A v \in Node \ {n} : posting'[v] = posting[v]
  BY DEF SaveState, TypeOK
<1>9. UNCHANGED <<registry, nodeKey, net, verified, nodeState, heartbeats, faults, changes>>
      /\ answers' \subseteq answers
  BY DEF SaveState, collectorVars
<1> HIDE DEF m
<1>10. TypeOK'
  BY <1>4, <1>7, <1>9 DEF TypeOK
<1>11. TablesOK' /\ DriftOK' /\ ReceiptsOK'
  BY <1>9 DEF Safe, TablesOK, StampAt, DriftOK, NeverBad, LastBad, Clean, ReceiptsOK
<1>12. SavedOK'
  <2> SUFFICES ASSUME NEW v \in Node
               PROVE  /\ agent'[v].seq <= Len(heartbeats[v]) /\ Len(heartbeats[v]) <= agent'[v].seq + 1
                      /\ agent'[v].last = StampAt(v, agent'[v].seq)
    BY <1>9 DEF SavedOK, StampAt
  <2>1. CASE v = n
    BY <1>2, <1>3, <1>5, <2>1 DEF Safe, SavedOK, StampAt, TypeOK
  <2>2. CASE v # n
    BY <1>6, <2>2 DEF Safe, SavedOK
  <2> QED
    BY <2>1, <2>2
<1>13. NumberedOK'
  <2>1. \A w \in Node : agent'[w].seq >= agent[w].seq /\ agent'[w].seq \in Nat /\ agent[w].seq \in Nat
    <3> SUFFICES ASSUME NEW w \in Node
                 PROVE  agent'[w].seq >= agent[w].seq /\ agent'[w].seq \in Nat /\ agent[w].seq \in Nat
      OBVIOUS
    <3>1. agent[w].seq \in Nat
      BY FleetAssumption DEF TypeOK
    <3>2. CASE w = n
      BY <1>5, <3>1, <3>2
    <3>3. CASE w # n
      BY <1>6, <3>1, <3>3
    <3> QED
      BY <3>2, <3>3
  <2>2. ASSUME NEW k \in net \cup verified PROVE k.seq <= agent'[k.node].seq + 1
    <3>1. k.node \in Node /\ k.seq \in Nat
      BY AHeartbeat DEF TypeOK
    <3> QED
      BY <2>1, <3>1 DEF Safe, NumberedOK
  <2> QED
    BY <1>6, <1>8, <1>9, <2>2 DEF Safe, NumberedOK, Idle
<1> QED
  BY <1>10, <1>11, <1>12, <1>13 DEF Safe

(* Requests and receipts that disappear, a request that is repeated, and an *)
(* agent that stops waiting.                                                *)
LEMMA TrafficKeeps ==
  ASSUME IInv, UNCHANGED <<registry, nodeKey, agent, collectorVars, changes>>, faults' \in 0..MaxFaults,
         net' \cup verified' \subseteq Heartbeat,
         \A m \in net' \cup verified' : m.seq <= agent[m.node].seq + 1,
         answers' \subseteq answers, posting' \in [Node -> Heartbeat \cup {NoHeartbeat}],
         \A n \in Node : posting'[n] = posting[n] \/ posting'[n] = NoHeartbeat
  PROVE  IInv'
<1> USE DEF IInv
<1>1. TypeOK'
  BY DEF TypeOK, collectorVars
<1>2. (TablesOK /\ SavedOK /\ DriftOK /\ ReceiptsOK)'
  BY TablesKept
<1>3. NumberedOK'
  BY DEF Safe, NumberedOK, Idle
<1> QED
  BY <1>1, <1>2, <1>3 DEF Safe

LEMMA GiveUpKeeps == ASSUME IInv, NEW n \in Node, GiveUp(n) PROVE IInv'
<1>1. posting' \in [Node -> Heartbeat \cup {NoHeartbeat}]
      /\ \A v \in Node : posting'[v] = posting[v] \/ posting'[v] = NoHeartbeat
  BY DEF GiveUp, IInv, TypeOK
<1> QED
  BY <1>1, TrafficKeeps DEF GiveUp, IInv, TypeOK, Safe, NumberedOK

LEMMA AbandonKeeps == ASSUME IInv, NEW n \in Node, Abandon(n) PROVE IInv'
<1>1. posting' \in [Node -> Heartbeat \cup {NoHeartbeat}]
      /\ \A v \in Node : posting'[v] = posting[v] \/ posting'[v] = NoHeartbeat
  BY DEF Abandon, IInv, TypeOK
<1>2. faults' \in 0..MaxFaults
  BY FleetAssumption DEF Abandon, Fault, IInv, TypeOK
<1> QED
  BY <1>1, <1>2, TrafficKeeps DEF Abandon, IInv, TypeOK, Safe, NumberedOK

LEMMA VerifyKeeps == ASSUME IInv, NEW m \in net, Verify(m) PROVE IInv'
<1>1. net' \cup verified' \subseteq net \cup verified
  BY DEF Verify
<1> QED
  BY <1>1, TrafficKeeps DEF Verify, agentVars, IInv, TypeOK, Safe, NumberedOK

LEMMA LossKeeps ==
  ASSUME IInv, (\E m \in net : LoseRequest(m)) \/ (\E m \in answers : LoseAnswer(m)) \/ RestartCollector
  PROVE  IInv'
<1>1. net' \cup verified' \subseteq net \cup verified /\ answers' \subseteq answers
      /\ UNCHANGED <<registry, agentVars, collectorVars, changes>>
  BY DEF LoseRequest, LoseAnswer, RestartCollector
<1>2. faults' \in 0..MaxFaults
  BY FleetAssumption DEF LoseRequest, LoseAnswer, RestartCollector, Fault, IInv, TypeOK
<1> QED
  BY <1>1, <1>2, TrafficKeeps DEF agentVars, IInv, TypeOK, Safe, NumberedOK

LEMMA ReplayKeeps == ASSUME IInv, NEW n \in Node, Replay(n) PROVE IInv'
<1> USE DEF IInv
<1>1. PICK i \in DOMAIN heartbeats[n] : net' = net \cup {heartbeats[n][i]}
  BY DEF Replay
<1>2. heartbeats[n] \in Seq(Heartbeat) /\ i \in 1..Len(heartbeats[n])
  BY LenProperties DEF TypeOK
<1>3. heartbeats[n][i] \in Heartbeat
  BY <1>2, ElementOfSeq
<1>4. heartbeats[n][i].seq <= agent[n].seq + 1 /\ heartbeats[n][i].node = n
  BY <1>2, LenProperties DEF Safe, TablesOK, SavedOK, TypeOK
<1>5. faults' \in 0..MaxFaults
  BY FleetAssumption DEF Replay, Fault, TypeOK
<1> QED
  BY <1>1, <1>3, <1>4, <1>5, TrafficKeeps, ZenonT(60) DEF Replay, agentVars, TypeOK, Safe, NumberedOK

(* The operator.                                                            *)
LEMMA OperatorKeeps == ASSUME IInv, Operator PROVE IInv'
<1> USE DEF IInv
<1>1. UNCHANGED <<agent, posting, net, verified, answers, collectorVars, faults>>
  BY DEF Operator, SetEnabled, InstallKey, RotateKey, agentVars
<1>2. registry' \in [Node -> [enabled : BOOLEAN, key : Key]]
  <2>1. ASSUME NEW n \in Node, SetEnabled(n)
        PROVE  registry' \in [Node -> [enabled : BOOLEAN, key : Key]]
    <3>1. [registry[n] EXCEPT !.enabled = ~@] \in [enabled : BOOLEAN, key : Key]
      BY ZenonT(60) DEF TypeOK
    <3>2. registry' = [registry EXCEPT ![n] = [registry[n] EXCEPT !.enabled = ~@]]
      BY <2>1 DEF SetEnabled, TypeOK
    <3> QED
      BY <3>1, <3>2 DEF TypeOK
  <2>2. ASSUME NEW n \in Node, NEW k \in Key, RotateKey(n, k)
        PROVE  registry' \in [Node -> [enabled : BOOLEAN, key : Key]]
    <3>1. [registry[n] EXCEPT !.key = k] \in [enabled : BOOLEAN, key : Key]
      BY ZenonT(60) DEF TypeOK
    <3>2. registry' = [registry EXCEPT ![n] = [registry[n] EXCEPT !.key = k]]
      BY <2>2 DEF RotateKey, TypeOK
    <3> QED
      BY <3>1, <3>2 DEF TypeOK
  <2>3. ASSUME NEW n \in Node, InstallKey(n)
        PROVE  registry' \in [Node -> [enabled : BOOLEAN, key : Key]]
    BY <2>3 DEF InstallKey, TypeOK
  <2> QED
    BY <2>1, <2>2, <2>3 DEF Operator
<1>3. nodeKey' \in [Node -> Key]
  BY ZenonT(60) DEF Operator, SetEnabled, InstallKey, RotateKey, TypeOK, agentVars
<1>4. changes' \in 0..MaxChanges
  BY FleetAssumption, SMTT(60) DEF Operator, SetEnabled, InstallKey, RotateKey, Change, TypeOK
<1>5. TypeOK'
  BY <1>1, <1>2, <1>3, <1>4 DEF TypeOK, collectorVars
<1>6. (TablesOK /\ SavedOK /\ DriftOK /\ ReceiptsOK)'
  BY <1>1, TablesKept
<1>7. NumberedOK'
  BY <1>1 DEF Safe, NumberedOK, Idle
<1> QED
  BY <1>5, <1>6, <1>7 DEF Safe

-----------------------------------------------------------------------------
(* The ingest transaction.                                                  *)

LEMMA RejectedKeeps ==
  ASSUME IInv, NEW m \in verified, Ingest(m), ~Follows(m)
  PROVE  IInv'
<1>1. UNCHANGED <<registry, agentVars, collectorVars, net, answers, faults, changes>> /\ verified' \subseteq verified
  BY DEF Ingest, collectorVars
<1> QED
  BY <1>1, TrafficKeeps DEF agentVars, IInv, TypeOK, Safe, NumberedOK

(* What an accepted heartbeat does to the tables.                           *)
LEMMA Accepting ==
  ASSUME IInv, NEW m \in verified, Ingest(m), Follows(m)
  PROVE  /\ m \in Heartbeat /\ m.node \in Node
         /\ m.seq = Len(heartbeats[m.node]) + 1 /\ m.prev = StampAt(m.node, Len(heartbeats[m.node]))
         /\ heartbeats' \in [Node -> Seq(Heartbeat)]
         /\ Len(heartbeats'[m.node]) = Len(heartbeats[m.node]) + 1
         /\ \A i \in 1..Len(heartbeats[m.node]) : heartbeats'[m.node][i] = heartbeats[m.node][i]
         /\ heartbeats'[m.node][m.seq] = m
         /\ nodeState'[m.node].lastSeq = m.seq /\ nodeState'[m.node].last = m.stamp
         /\ LET a == Aggregate(m.severity, nodeState[m.node].state, nodeState[m.node].streak)
            IN  nodeState'[m.node].state = a.state /\ nodeState'[m.node].streak = a.streak
         /\ \A v \in Node : v # m.node => heartbeats'[v] = heartbeats[v] /\ nodeState'[v] = nodeState[v]
         /\ nodeState' \in [Node -> [lastSeq : 0..MaxSeq, last : Stamps \cup {0},
                                     state : DriftState, streak : Nat]]
<1> USE DEF IInv
<1> DEFINE n == m.node
           h == heartbeats[m.node]
           a == Aggregate(m.severity, nodeState[n].state, nodeState[n].streak)
           row == [lastSeq |-> m.seq, last |-> m.stamp, state |-> a.state, streak |-> a.streak]
<1>1. m \in Heartbeat /\ n \in Node /\ m.seq \in 1..MaxSeq /\ m.stamp \in Stamps /\ m.severity \in Severity
  BY AHeartbeat DEF TypeOK
<1>2. h \in Seq(Heartbeat)
  BY <1>1 DEF TypeOK
<1>3. Len(h) \in Nat /\ agent[n].seq \in Nat
  BY <1>1, <1>2, LenProperties, FleetAssumption DEF TypeOK
<1>4. m.seq = Len(h) + 1 /\ m.prev = StampAt(n, Len(h))
  <2>1. m.seq <= agent[n].seq + 1 /\ agent[n].seq <= Len(h)
    BY <1>1 DEF Safe, NumberedOK, SavedOK
  <2>2. m.seq > nodeState[n].lastSeq /\ nodeState[n].lastSeq = Len(h)
    BY <1>1 DEF Follows, Safe, TablesOK
  <2>3. m.prev = StampAt(n, Len(h))
    BY <1>1 DEF Follows, Safe, TablesOK
  <2> QED
    BY <1>1, <1>3, <2>1, <2>2, <2>3
<1>5. heartbeats' = [heartbeats EXCEPT ![n] = Append(h, m)]
  BY DEF Ingest
<1>6. /\ Append(h, m) \in Seq(Heartbeat) /\ Len(Append(h, m)) = Len(h) + 1
      /\ \A i \in 1..Len(h) : Append(h, m)[i] = h[i]
      /\ Append(h, m)[Len(h) + 1] = m
  BY <1>1, <1>2, AppendProperties
<1>7. nodeState' = [nodeState EXCEPT ![n] = row]
  BY DEF Ingest
<1>8. a.state \in DriftState /\ a.streak \in Nat
  <2>1. nodeState[n].state \in DriftState /\ nodeState[n].streak \in Nat
    BY <1>1 DEF TypeOK
  <2> QED
    BY <1>1, <2>1, AggregateTyped
<1> HIDE DEF a
<1>9. row \in [lastSeq : 0..MaxSeq, last : Stamps \cup {0}, state : DriftState, streak : Nat]
  BY <1>1, <1>8
<1>10. row.lastSeq = m.seq /\ row.last = m.stamp /\ row.state = a.state /\ row.streak = a.streak
  OBVIOUS
<1> HIDE DEF row
<1>11. nodeState'[n] = row /\ heartbeats'[n] = Append(h, m)
  BY <1>1, <1>5, <1>7 DEF TypeOK
<1>12. \A v \in Node : v # n => heartbeats'[v] = heartbeats[v] /\ nodeState'[v] = nodeState[v]
  BY <1>5, <1>7 DEF TypeOK
<1>13. heartbeats' \in [Node -> Seq(Heartbeat)]
  BY <1>5, <1>6 DEF TypeOK
<1>14. nodeState' \in [Node -> [lastSeq : 0..MaxSeq, last : Stamps \cup {0},
                                state : DriftState, streak : Nat]]
  BY <1>7, <1>9 DEF TypeOK
<1> QED
  BY <1>1, <1>4, <1>6, <1>10, <1>11, <1>12, <1>13, <1>14 DEF a

(* The drift state of the sender goes on following its history.             *)
LEMMA AcceptedDrift ==
  ASSUME IInv, NEW m \in verified, Ingest(m), Follows(m)
  PROVE  DriftOK'
<1>n. PICK n \in Node : n = m.node
  BY Accepting
<1>m. m \in Heartbeat /\ m.severity \in Severity
  BY Accepting, AHeartbeat
<1>len. PICK len \in Nat : len = Len(heartbeats[n])
  BY LenProperties DEF IInv, TypeOK
<1>2. len \in Nat /\ nodeState[n].state \in DriftState /\ nodeState[n].streak \in Nat
  BY LenProperties DEF IInv, TypeOK
<1>3. Len(heartbeats'[n]) = len + 1
  BY <1>len, <1>n, Accepting
<1>4. \A i \in 1..len : Clean(n, i)' <=> Clean(n, i)
  BY <1>len, <1>n, Accepting, SMTT(60) DEF Clean
<1>5. heartbeats'[n][len + 1] = m
  BY <1>len, <1>n, Accepting, SMTT(60)
<1>6. Clean(n, len + 1)' <=> m.severity = "clean"
  BY <1>len, <1>5 DEF Clean
<1>7. /\ nodeState'[n].state = Aggregate(m.severity, nodeState[n].state, nodeState[n].streak).state
      /\ nodeState'[n].streak = Aggregate(m.severity, nodeState[n].state, nodeState[n].streak).streak
  BY <1>len, <1>n, Accepting
<1>8. \A i \in 1..len : heartbeats'[n][i] = heartbeats[n][i]
  BY <1>len, <1>n, Accepting
<1>9. ASSUME NEW v \in Node, v # n
      PROVE  (NeverBad(v) \/ \E b \in 1..Len(heartbeats[v]) : LastBad(v, b))'
  <2>1. heartbeats'[v] = heartbeats[v] /\ nodeState'[v] = nodeState[v]
    BY <1>len, <1>n, <1>9, Accepting
  <2> QED
    BY <1>len, <2>1 DEF IInv, Safe, DriftOK, NeverBad, LastBad, Clean
<1>10. CASE m.severity # "clean"
  <2>1. nodeState'[n].state = ShownFor[m.severity] /\ nodeState'[n].streak = 0
    BY <1>len, <1>m, <1>7, <1>10 DEF Aggregate, Severity, ShownFor
  <2>2. LastBad(n, len + 1)'
    BY <1>len, <1>2, <1>3, <1>5, <1>6, <1>10, <2>1, NeededPositive DEF LastBad
  <2> QED
    BY <1>len, <1>2, <1>3, <1>9, <2>2 DEF DriftOK
<1>11. CASE m.severity = "clean"
  <2>1. CASE NeverBad(n)
    <3>1. nodeState'[n].state = "NORMAL" /\ nodeState'[n].streak = 0
      BY <1>len, <1>7, <1>11, <2>1 DEF NeverBad, Aggregate
    <3>2. NeverBad(n)'
      BY <1>len, <1>2, <1>3, <1>4, <1>6, <1>11, <2>1, <3>1 DEF NeverBad
    <3> QED
      BY <1>len, <1>9, <3>2 DEF DriftOK
  <2>2. ASSUME NEW b \in 1..len, LastBad(n, b) PROVE LastBad(n, b)'
    <3>1. b \in 1..Len(heartbeats'[n]) /\ ~Clean(n, b)'
      BY <1>len, <1>2, <1>3, <1>4, <2>2 DEF LastBad
    <3>2. \A i \in 1..Len(heartbeats'[n]) : i > b => Clean(n, i)'
      BY <1>len, <1>2, <1>3, <1>4, <1>6, <1>11, <2>2 DEF LastBad
    <3>3. heartbeats'[n][b].severity = heartbeats[n][b].severity
      BY <1>len, <1>8
    <3>4. heartbeats[n][b].severity \in Severity \ {"clean"}
      <4>1. heartbeats[n][b] \in Heartbeat
        BY <1>len, ElementOfSeq DEF IInv, TypeOK
      <4> QED
        BY <1>len, <2>2, <4>1, AHeartbeat DEF LastBad, Clean
    <3>5. CASE len - b < Needed
      <4>1. nodeState[n].state = ShownFor[heartbeats[n][b].severity] /\ nodeState[n].streak = len - b
        BY <1>len, <2>2, <3>5 DEF LastBad
      <4>2. nodeState[n].state \in {"CRITICAL", "ALERT", "OBSERVE"}
        BY <1>len, <3>4, <4>1 DEF Severity, ShownFor
      <4>3. /\ nodeState'[n].streak = len - b + 1
            /\ nodeState'[n].state = IF len - b + 1 >= RecoveryRequired THEN "RECOVERED" ELSE nodeState[n].state
        BY <1>len, <1>7, <1>11, <4>1, <4>2 DEF Aggregate
      <4>4. len - b + 1 >= RecoveryRequired <=> len - b + 1 >= Needed
        BY <1>len, <1>2, NeededPositive
      <4> QED
        BY <1>len, <1>2, <1>3, <3>1, <3>2, <3>3, <3>5, <4>1, <4>3, <4>4, NeededPositive, SMTT(60) DEF LastBad
    <3>6. CASE len - b >= Needed
      <4>1. nodeState[n].state \in {"RECOVERED", "NORMAL"}
        BY <1>len, <1>2, <2>2, <3>6, NeededPositive DEF LastBad
      <4>2. nodeState'[n].state = "NORMAL"
        BY <1>len, <1>7, <1>11, <4>1 DEF Aggregate
      <4> QED
        BY <1>len, <1>2, <1>3, <3>1, <3>2, <3>3, <3>6, <4>2, NeededPositive DEF LastBad
    <3> QED
      BY <1>len, <1>2, <3>5, <3>6, NeededPositive
  <2>3. NeverBad(n) \/ \E b \in 1..len : LastBad(n, b)
    BY <1>len DEF IInv, Safe, DriftOK
  <2>4. ASSUME NEW b \in 1..len, LastBad(n, b) PROVE DriftOK'
    <3>1. b \in 1..Len(heartbeats'[n])
      BY <1>len, <1>2, <1>3
    <3> QED
      BY <1>len, <1>9, <2>2, <2>4, <3>1 DEF DriftOK
  <2> QED
    BY <1>len, <2>1, <2>3, <2>4
<1> QED
  BY <1>len, <1>10, <1>11

LEMMA AcceptedKeeps ==
  ASSUME IInv, NEW m \in verified, Ingest(m), Follows(m)
  PROVE  IInv'
<1> USE DEF IInv
<1>n. PICK n \in Node : n = m.node
  BY Accepting
<1>len. PICK len \in Nat : len = Len(heartbeats[n])
  BY LenProperties DEF TypeOK
<1>1. m \in Heartbeat /\ len \in Nat /\ agent[n].seq \in Nat
  BY <1>len, Accepting, LenProperties, FleetAssumption DEF TypeOK
<1>2. UNCHANGED <<registry, agentVars, net, faults, changes>> /\ verified' = verified \ {m}
      /\ answers' = answers \cup ({m} \cap {posting[n]})
  BY <1>len, <1>n DEF Ingest
<1>3. TypeOK'
  BY <1>len, <1>n, <1>1, <1>2, Accepting, ZenonT(60) DEF TypeOK, agentVars
<1>4. NumberedOK'
  BY <1>len, <1>2 DEF Safe, NumberedOK, Idle, agentVars
<1>5. Len(heartbeats'[n]) = len + 1 /\ heartbeats'[n][len + 1] = m /\ m.seq = len + 1
      /\ m.prev = StampAt(n, len) /\ nodeState'[n].lastSeq = m.seq /\ nodeState'[n].last = m.stamp
  BY <1>len, <1>n, Accepting
<1>6. \A i \in 1..len : heartbeats'[n][i] = heartbeats[n][i]
  BY <1>len, <1>n, Accepting
<1>7. \A v \in Node : v # n => heartbeats'[v] = heartbeats[v] /\ nodeState'[v] = nodeState[v]
  BY <1>len, <1>n, Accepting
<1>8. \A i \in 0..len : StampAt(n, i)' = StampAt(n, i)
  BY <1>len, <1>1, <1>6 DEF StampAt
<1>9. \A v \in Node, i \in Nat : v # n => StampAt(v, i)' = StampAt(v, i)
  BY <1>len, <1>7 DEF StampAt
<1>10. StampAt(n, len + 1)' = m.stamp
  BY <1>len, <1>1, <1>5 DEF StampAt
<1>11. TablesOK'
  <2> SUFFICES ASSUME NEW v \in Node
               PROVE  (/\ nodeState[v].lastSeq = Len(heartbeats[v])
                       /\ nodeState[v].last = StampAt(v, Len(heartbeats[v]))
                       /\ \A i \in 1..Len(heartbeats[v]) :
                            /\ heartbeats[v][i].node = v /\ heartbeats[v][i].seq = i
                            /\ heartbeats[v][i].prev = StampAt(v, i - 1))'
    BY <1>len DEF TablesOK
  <2>1. CASE v # n
    <3>1. Len(heartbeats[v]) \in Nat
      BY LenProperties DEF TypeOK
    <3>2. heartbeats'[v] = heartbeats[v] /\ nodeState'[v] = nodeState[v]
      BY <1>len, <1>7, <2>1
    <3> QED
      BY <1>len, <3>2 DEF Safe, TablesOK, StampAt
  <2>2. CASE v = n
    <3>1. ASSUME NEW i \in 1..len + 1
          PROVE  heartbeats'[n][i].node = n /\ heartbeats'[n][i].seq = i
                 /\ heartbeats'[n][i].prev = StampAt(n, i - 1)'
      <4>1. CASE i = len + 1
        <5>1. i - 1 = len /\ len \in 0..len
          BY <1>len, <4>1
        <5>2. StampAt(n, i - 1)' = StampAt(n, len)
          BY <1>8, <5>1
        <5> QED
          BY <1>n, <1>5, <4>1, <5>2
      <4>2. CASE i \in 1..len
        <5>1. heartbeats[n][i].node = n /\ heartbeats[n][i].seq = i
              /\ heartbeats[n][i].prev = StampAt(n, i - 1)
          BY <1>len, <1>1, <4>2 DEF Safe, TablesOK
        <5>2. i - 1 \in 0..len
          BY <1>len, <1>1, <4>2
        <5> QED
          BY <1>len, <1>6, <1>8, <4>2, <5>1, <5>2
      <4> QED
        BY <1>len, <1>1, <4>1, <4>2
    <3> QED
      BY <1>len, <1>5, <1>10, <2>2, <3>1
  <2> QED
    BY <1>len, <2>1, <2>2
<1>12. SavedOK'
  <2> SUFFICES ASSUME NEW v \in Node
               PROVE  (/\ agent[v].seq <= Len(heartbeats[v]) /\ Len(heartbeats[v]) <= agent[v].seq + 1
                       /\ agent[v].last = StampAt(v, agent[v].seq))'
    BY <1>len DEF SavedOK
  <2>1. agent' = agent /\ agent[v].seq \in Nat
    BY <1>len, <1>2, FleetAssumption DEF agentVars, TypeOK
  <2>2. CASE v # n
    BY <1>len, <1>7, <1>9, <2>1, <2>2 DEF Safe, SavedOK
  <2>3. CASE v = n
    <3>1. agent[n].seq <= len /\ agent[n].last = StampAt(n, agent[n].seq)
      BY <1>len, <1>1 DEF Safe, SavedOK
    <3>2. m.seq <= agent[n].seq + 1
      BY <1>len, <1>n DEF Safe, NumberedOK
    <3>3. agent[n].seq \in 0..len
      BY <1>len, <1>1, <3>1
    <3>4. StampAt(n, agent[n].seq)' = StampAt(n, agent[n].seq)
      BY <1>len, <1>8, <2>1, <3>3
    <3> QED
      BY <1>len, <1>1, <1>5, <2>1, <2>3, <3>1, <3>2, <3>4
  <2> QED
    BY <1>len, <2>2, <2>3
<1>13. ReceiptsOK'
  <2> SUFFICES ASSUME NEW k \in answers'
               PROVE  k.seq \in 1..Len(heartbeats'[k.node]) /\ heartbeats'[k.node][k.seq] = k
    BY <1>len DEF ReceiptsOK
  <2>1. CASE k = m
    BY <1>len, <1>n, <1>1, <1>5, <2>1
  <2>2. CASE k # m
    <3>1. k \in answers /\ k.node \in Node
      BY <1>len, <1>2, <2>2, AHeartbeat DEF TypeOK
    <3>2. k.seq \in 1..Len(heartbeats[k.node]) /\ heartbeats[k.node][k.seq] = k
      BY <1>len, <3>1 DEF Safe, ReceiptsOK
    <3>3. CASE k.node = n
      BY <1>len, <1>1, <1>5, <1>6, <3>2, <3>3
    <3>4. CASE k.node # n
      BY <1>len, <1>7, <3>1, <3>2, <3>4
    <3> QED
      BY <1>len, <3>3, <3>4
  <2> QED
    BY <1>len, <2>1, <2>2
<1> QED
  BY <1>len, <1>3, <1>4, <1>11, <1>12, <1>13, AcceptedDrift DEF Safe

-----------------------------------------------------------------------------
(* The invariant and what follows from it.                                  *)

LEMMA Inductive == ASSUME IInv, [Next]_vars PROVE IInv'
<1>1. CASE UNCHANGED vars
  <2>1. UNCHANGED <<registry, nodeKey, agent, posting, net, verified, answers, collectorVars, faults, changes>>
    BY <1>1 DEF vars, collectorVars
  <2>2. TypeOK'
    BY <2>1 DEF IInv, TypeOK, collectorVars
  <2>3. (TablesOK /\ SavedOK /\ DriftOK /\ ReceiptsOK)'
    BY <2>1, TablesKept DEF IInv
  <2>4. NumberedOK'
    BY <2>1 DEF IInv, Safe, NumberedOK, Idle
  <2> QED
    BY <2>2, <2>3, <2>4 DEF IInv, Safe
<1>2. CASE \E n \in Node : Agent(n)
  BY <1>2, PostKeeps, SaveStateKeeps, GiveUpKeeps DEF Agent
<1>3. CASE \E m \in net \cup verified : Collector(m)
  <2>1. ASSUME NEW m \in net \cup verified, Verify(m) PROVE IInv'
    BY <2>1, VerifyKeeps DEF Verify
  <2>2. ASSUME NEW m \in net \cup verified, Ingest(m) PROVE IInv'
    <3>1. m \in verified
      BY <2>2 DEF Ingest
    <3> QED
      BY <2>2, <3>1, RejectedKeeps, AcceptedKeeps
  <2> QED
    BY <1>3, <2>1, <2>2 DEF Collector
<1>4. CASE Environment
  BY <1>4, LossKeeps, AbandonKeeps, ReplayKeeps DEF Environment
<1>5. CASE Operator
  BY <1>5, OperatorKeeps
<1> QED
  BY <1>1, <1>2, <1>3, <1>4, <1>5 DEF Next

LEMMA Invariance == Spec => []IInv
<1>1. Init => IInv
  BY Initially
<1>2. IInv /\ [Next]_vars => IInv'
  BY Inductive
<1> QED
  BY <1>1, <1>2, PTL DEF Spec

(* Every reachable state of agents, network and collector is well typed.    *)
THEOREM TypeCorrect == Spec => []TypeOK
<1>1. IInv => TypeOK
  BY DEF IInv
<1> QED
  BY <1>1, Invariance, PTL

(* Whatever the network and the crashes do to requests and receipts, what   *)
(* the collector has recorded of a node is one chain without gap or branch. *)
THEOREM OneChainAlways == Spec => []OneChain
<1>1. ASSUME IInv PROVE OneChain
  <2> SUFFICES ASSUME NEW n \in Node, NEW i \in DOMAIN heartbeats[n]
               PROVE  /\ heartbeats[n][i].seq = i
                      /\ heartbeats[n][i].prev = IF i = 1 THEN 0 ELSE heartbeats[n][i - 1].stamp
    BY DEF OneChain
  <2>1. i \in 1..Len(heartbeats[n]) /\ Len(heartbeats[n]) \in Nat
    BY <1>1, LenProperties DEF IInv, TypeOK
  <2>2. i - 1 = 0 <=> i = 1
    BY <2>1
  <2> QED
    BY <1>1, <2>1, <2>2 DEF IInv, Safe, TablesOK, StampAt
<1> QED
  BY <1>1, Invariance, PTL

(* An agent never believes recorded what the collector does not have, and   *)
(* lags by one heartbeat at most.                                           *)
THEOREM AgentNeverAhead == Spec => []AgentNotAhead
<1>1. ASSUME IInv PROVE AgentNotAhead
  BY <1>1, SMTT(60) DEF IInv, Safe, TablesOK, SavedOK, AgentNotAhead
<1> QED
  BY <1>1, Invariance, PTL

(* The state shown of a node is the one that its recorded findings call     *)
(* for: released by the required number of clean heartbeats in a row.       *)
THEOREM StateAlwaysFollows == Spec => []StateFollowsHistory
<1>1. ASSUME IInv PROVE StateFollowsHistory
  <2> USE <1>1
  <2> SUFFICES ASSUME NEW n \in Node
               PROVE  LET bad == {i \in DOMAIN heartbeats[n] : heartbeats[n][i].severity # "clean"}
                          last == CHOOSE i \in bad : \A j \in bad : j <= i
                      IN  CASE bad = {} -> nodeState[n].state = "NORMAL"
                            [] bad # {} /\ CleanRun(n, Needed + 1) -> nodeState[n].state = "NORMAL"
                            [] bad # {} /\ CleanRun(n, Needed) /\ ~CleanRun(n, Needed + 1) ->
                                 nodeState[n].state = "RECOVERED"
                            [] OTHER -> nodeState[n].state = ShownFor[heartbeats[n][last].severity]
    BY DEF StateFollowsHistory
  <2>1. PICK len \in Nat : len = Len(heartbeats[n]) /\ DOMAIN heartbeats[n] = 1..len
    BY LenProperties DEF IInv, TypeOK
  <2> DEFINE bad == {i \in DOMAIN heartbeats[n] : heartbeats[n][i].severity # "clean"}
             last == CHOOSE i \in bad : \A j \in bad : j <= i
  <2>2. CASE NeverBad(n)
    <3>1. bad = {}
      BY <2>1, <2>2 DEF NeverBad, Clean
    <3> QED
      BY <2>2, <3>1 DEF NeverBad
  <2>3. ASSUME NEW b \in 1..len, LastBad(n, b)
        PROVE  /\ bad # {} /\ last = b
               /\ \A k \in Nat : CleanRun(n, k) <=> k <= len - b
    <3>1. b \in bad /\ \A j \in bad : j \in 1..len /\ j <= b
      BY <2>1, <2>3 DEF LastBad, Clean
    <3>2. \A i \in bad : (\A j \in bad : j <= i) => i = b
      BY <3>1
    <3>3. last = b
      BY <3>1, <3>2
    <3>4. ASSUME NEW k \in Nat, k <= len - b PROVE CleanRun(n, k)
      BY <2>1, <2>3, <3>4 DEF CleanRun, LastBad, Clean
    <3>5. ASSUME NEW k \in Nat, k > len - b PROVE ~CleanRun(n, k)
      <4>1. k <= len => b \in len - k + 1 .. len
        BY <3>5
      <4>2. heartbeats[n][b].severity # "clean"
        BY <2>3 DEF LastBad, Clean
      <4> QED
        BY <2>1, <4>1, <4>2 DEF CleanRun
    <3> HIDE DEF bad, last
    <3>6. \A k \in Nat : CleanRun(n, k) <=> k <= len - b
      <4> TAKE k \in Nat
      <4>1. k <= len - b \/ k > len - b
        OBVIOUS
      <4> QED
        BY <3>4, <3>5, <4>1
    <3> QED
      BY <3>1, <3>3, <3>6
  <2>4. ASSUME NEW b \in 1..len, LastBad(n, b)
        PROVE  CASE bad = {} -> nodeState[n].state = "NORMAL"
                 [] bad # {} /\ CleanRun(n, Needed + 1) -> nodeState[n].state = "NORMAL"
                 [] bad # {} /\ CleanRun(n, Needed) /\ ~CleanRun(n, Needed + 1) ->
                      nodeState[n].state = "RECOVERED"
                 [] OTHER -> nodeState[n].state = ShownFor[heartbeats[n][last].severity]
    <3>1. bad # {} /\ last = b
      BY <2>3, <2>4
    <3>2. CleanRun(n, Needed) <=> Needed <= len - b
      BY <2>3, <2>4, NeededPositive
    <3>3. CleanRun(n, Needed + 1) <=> Needed + 1 <= len - b
      BY <2>3, <2>4, NeededPositive
    <3> HIDE DEF bad, last
    <3>4. CASE len - b < Needed
      <4>1. ~CleanRun(n, Needed) /\ ~CleanRun(n, Needed + 1)
        BY <3>2, <3>3, <3>4, NeededPositive
      <4>2. nodeState[n].state = ShownFor[heartbeats[n][last].severity]
        BY <2>1, <2>4, <3>1, <3>4 DEF LastBad
      <4> QED
        BY <3>1, <4>1, <4>2
    <3>5. CASE len - b = Needed
      <4>1. CleanRun(n, Needed) /\ ~CleanRun(n, Needed + 1)
        BY <3>2, <3>3, <3>5, NeededPositive
      <4>2. nodeState[n].state = "RECOVERED"
        BY <2>1, <2>4, <3>5 DEF LastBad
      <4> QED
        BY <3>1, <4>1, <4>2
    <3>6. CASE len - b > Needed
      <4>1. CleanRun(n, Needed + 1)
        BY <3>3, <3>6, NeededPositive
      <4>2. nodeState[n].state = "NORMAL"
        BY <2>1, <2>4, <3>6 DEF LastBad
      <4> QED
        BY <3>1, <4>1, <4>2
    <3> QED
      BY <3>4, <3>5, <3>6, NeededPositive
  <2>5. NeverBad(n) \/ \E b \in 1..len : LastBad(n, b)
    BY <2>1 DEF IInv, Safe, DriftOK
  <2> QED
    BY <2>2, <2>4, <2>5, SMTT(60)
<1> QED
  BY <1>1, Invariance, PTL
=============================================================================
