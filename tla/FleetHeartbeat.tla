--------------------------- MODULE FleetHeartbeat ---------------------------
(***************************************************************************)
(* Fleet attestation: the node agent (fleet_agent.py) posts signed, chained *)
(* heartbeats to the central collector (fleet_collector.py), which keeps a  *)
(* drift state per node (fleet_policy.py); nodes are enrolled, disabled and *)
(* re-keyed in a registry file (fleet_registry.py) that the collector reads *)
(* on every request.                                                        *)
(*                                                                          *)
(* A payload is identified by its stamp (in the code its SHA-256, which no  *)
(* two payloads share because each has its own timestamp); 0 stands for the *)
(* digest "0"*64.  What a heartbeat measured is reduced to the severest     *)
(* finding the node's policy makes of it.  A request that arrives outside   *)
(* the clock skew is rejected, and counts here as lost.                     *)
(***************************************************************************)
EXTENDS Naturals, Sequences, FiniteSets

CONSTANTS
  Node,
  Key,              \* signing keys a node may be given
  FirstKey,         \* the key every node is enrolled with
  RecoveryRequired, \* recovery_heartbeats of the policy
  Findings,         \* severities that its measurements can have
  Stamps,           \* identities for payloads
  MaxSeq,           \* heartbeats an agent sends
  MaxFaults,        \* bound on losses, crashes and premature timeouts
  MaxChanges        \* bound on changes of the registry and of node keys

Severity == {"clean", "medium", "high", "critical"}
DriftState == {"NORMAL", "RECOVERED", "OBSERVE", "ALERT", "CRITICAL"}

ASSUME FleetAssumption ==
  /\ FirstKey \in Key
  /\ Findings \subseteq Severity
  /\ RecoveryRequired \in Nat
  /\ Stamps \subseteq Nat \ {0}
  /\ MaxSeq \in Nat /\ MaxFaults \in Nat /\ MaxChanges \in Nat

VARIABLES
  registry,   \* the registry file: who is enabled, with which key
  nodeKey,    \* the private key file of each node
  agent,      \* the state file of each agent: last sequence number and digest
  posting,    \* the heartbeat each running agent waits for an answer to
  net,        \* requests on their way, also those whose sender gave up
  verified,   \* requests a collector thread has checked and not yet ingested
  answers,    \* heartbeats whose receipt is on its way to the agent
  nodeState,  \* table node_state
  heartbeats, \* table heartbeats
  faults, changes

agentVars == <<nodeKey, agent, posting>>
collectorVars == <<nodeState, heartbeats>>
vars == <<registry, nodeKey, agent, posting, net, verified, answers, nodeState,
          heartbeats, faults, changes>>

Heartbeat == [node : Node, seq : 1..MaxSeq, prev : Stamps \cup {0},
              stamp : Stamps, severity : Severity, key : Key]
NoHeartbeat == [stamp |-> 0]

TypeOK ==
  /\ registry \in [Node -> [enabled : BOOLEAN, key : Key]]
  /\ nodeKey \in [Node -> Key]
  /\ agent \in [Node -> [seq : 0..MaxSeq, last : Stamps \cup {0}]]
  /\ posting \in [Node -> Heartbeat \cup {NoHeartbeat}]
  /\ net \subseteq Heartbeat /\ verified \subseteq Heartbeat /\ answers \subseteq Heartbeat
  /\ nodeState \in [Node -> [lastSeq : 0..MaxSeq, last : Stamps \cup {0},
                             state : DriftState, streak : Nat]]
  /\ heartbeats \in [Node -> Seq(Heartbeat)]
  /\ faults \in 0..MaxFaults /\ changes \in 0..MaxChanges

Init ==
  /\ registry = [n \in Node |-> [enabled |-> TRUE, key |-> FirstKey]]
  /\ nodeKey = [n \in Node |-> FirstKey]
  /\ agent = [n \in Node |-> [seq |-> 0, last |-> 0]]
  /\ posting = [n \in Node |-> NoHeartbeat]
  /\ net = {} /\ verified = {} /\ answers = {}
  /\ nodeState = [n \in Node |-> [lastSeq |-> 0, last |-> 0, state |-> "NORMAL", streak |-> 0]]
  /\ heartbeats = [n \in Node |-> <<>>]
  /\ faults = 0 /\ changes = 0

-----------------------------------------------------------------------------
(* The agent.                                                               *)

Idle(n) == posting[n] = NoHeartbeat

InUse ==
  {m.stamp : m \in net \cup verified \cup answers}
    \cup {agent[n].last : n \in Node} \cup {nodeState[n].last : n \in Node}
    \cup UNION {{heartbeats[n][i].stamp : i \in DOMAIN heartbeats[n]} : n \in Node}
Fresh == CHOOSE s \in Stamps \ InUse : \A t \in Stamps \ InUse : s <= t

(* run_once up to the POST: the state file is read, the node is measured,   *)
(* and the heartbeat is numbered, chained and signed.                       *)
Post(n, severity) ==
  /\ Idle(n)
  /\ agent[n].seq < MaxSeq
  /\ Stamps \ InUse # {}
  /\ LET m == [node |-> n, seq |-> agent[n].seq + 1, prev |-> agent[n].last,
               stamp |-> Fresh, severity |-> severity, key |-> nodeKey[n]]
     IN  posting' = [posting EXCEPT ![n] = m] /\ net' = net \cup {m}
  /\ UNCHANGED <<registry, nodeKey, agent, verified, answers, collectorVars, faults, changes>>

(* The receipt arrives; only now the state file is replaced.                *)
SaveState(n) ==
  /\ posting[n] \in answers
  /\ agent' = [agent EXCEPT ![n] = [seq |-> posting[n].seq, last |-> posting[n].stamp]]
  /\ posting' = [posting EXCEPT ![n] = NoHeartbeat]
  /\ answers' = answers \ {posting[n]}
  /\ UNCHANGED <<registry, nodeKey, net, verified, collectorVars, faults, changes>>

(* Mutant: the request has no timeout.                                      *)
GiveUpNever(n) == FALSE /\ UNCHANGED vars

(* No answer, or an HTTP error, raises in run_once; main catches it and     *)
(* goes to sleep without a change of the state file.                        *)
GiveUp(n) ==
  /\ ~Idle(n)
  /\ posting[n] \notin net \cup verified \cup answers
  /\ posting' = [posting EXCEPT ![n] = NoHeartbeat]
  /\ UNCHANGED <<registry, nodeKey, agent, net, verified, answers, collectorVars, faults, changes>>

-----------------------------------------------------------------------------
(* The collector; every request runs on a thread of its own.                *)

Enrolled(m) == registry[m.node].enabled /\ registry[m.node].key = m.key

(* Handler and accept before the lock: the registry is read, the signature  *)
(* is checked and the policy evaluated.                                     *)
Verify(m) ==
  /\ m \in net
  /\ net' = net \ {m}
  /\ verified' = IF Enrolled(m) THEN verified \cup {m} ELSE verified
  /\ UNCHANGED <<registry, agentVars, answers, collectorVars, faults, changes>>

(* Mutant: a medium finding does not interrupt a recovery.                  *)
AggregateKeepsStreak(severity, state, streak) ==
  CASE severity = "critical" -> [state |-> "CRITICAL", streak |-> 0]
    [] severity = "high"     -> [state |-> "ALERT", streak |-> 0]
    [] severity = "medium"   -> [state |-> "OBSERVE", streak |-> streak]
    [] OTHER ->
         IF state \notin {"CRITICAL", "ALERT", "OBSERVE"} THEN [state |-> "NORMAL", streak |-> 0]
         ELSE [state |-> IF streak + 1 >= RecoveryRequired THEN "RECOVERED" ELSE state,
               streak |-> streak + 1]

(* Mutant: the state is named after the finding.                            *)
AggregateSeverity(severity, state, streak) == [state |-> severity, streak |-> streak]

(* aggregate_state.                                                         *)
Aggregate(severity, state, streak) ==
  CASE severity = "critical" -> [state |-> "CRITICAL", streak |-> 0]
    [] severity = "high"     -> [state |-> "ALERT", streak |-> 0]
    [] severity = "medium"   -> [state |-> "OBSERVE", streak |-> 0]
    [] OTHER ->
         IF state \notin {"CRITICAL", "ALERT", "OBSERVE"} THEN [state |-> "NORMAL", streak |-> 0]
         ELSE [state |-> IF streak + 1 >= RecoveryRequired THEN "RECOVERED" ELSE state,
               streak |-> streak + 1]

(* Mutant: only an immediate duplicate is rejected.                         *)
FollowsNotDuplicate(m) == m.seq # nodeState[m.node].lastSeq

(* Replayed, overtaken and branching heartbeats are rejected.               *)
Follows(m) ==
  /\ m.seq > nodeState[m.node].lastSeq
  /\ m.prev = nodeState[m.node].last

(* Mutant: the digest of the heartbeat is not recorded with its number.     *)
IngestForgetsDigest(m) ==
  /\ m \in verified
  /\ verified' = verified \ {m}
  /\ IF Follows(m)
     THEN /\ heartbeats' = [heartbeats EXCEPT ![m.node] = Append(@, m)]
          /\ LET a == Aggregate(m.severity, nodeState[m.node].state, nodeState[m.node].streak)
             IN  nodeState' = [nodeState EXCEPT ![m.node] =
                   [lastSeq |-> m.seq, last |-> @.last, state |-> a.state, streak |-> a.streak]]
          /\ answers' = answers \cup ({m} \cap {posting[m.node]})
     ELSE UNCHANGED <<heartbeats, nodeState, answers>>
  /\ UNCHANGED <<registry, agentVars, net, faults, changes>>

(* Store.ingest: one transaction under the lock, then the answer.           *)
Ingest(m) ==
  /\ m \in verified
  /\ verified' = verified \ {m}
  /\ IF Follows(m)
     THEN /\ heartbeats' = [heartbeats EXCEPT ![m.node] = Append(@, m)]
          /\ LET a == Aggregate(m.severity, nodeState[m.node].state, nodeState[m.node].streak)
             IN  nodeState' = [nodeState EXCEPT ![m.node] =
                   [lastSeq |-> m.seq, last |-> m.stamp, state |-> a.state, streak |-> a.streak]]
          /\ answers' = answers \cup ({m} \cap {posting[m.node]})
     ELSE UNCHANGED <<heartbeats, nodeState, answers>>
  /\ UNCHANGED <<registry, agentVars, net, faults, changes>>

-----------------------------------------------------------------------------
(* The environment.                                                         *)

Fault == faults < MaxFaults /\ faults' = faults + 1

LoseRequest(m) ==
  /\ Fault
  /\ m \in net
  /\ net' = net \ {m}
  /\ UNCHANGED <<registry, agentVars, verified, answers, collectorVars, changes>>

LoseAnswer(m) ==
  /\ Fault
  /\ m \in answers
  /\ answers' = answers \ {m}
  /\ UNCHANGED <<registry, agentVars, net, verified, collectorVars, changes>>

(* The agent is killed, or its HTTP timeout fires, while its request is on  *)
(* its way or being served; the collector does not notice.                  *)
Abandon(n) ==
  /\ Fault
  /\ ~Idle(n)
  /\ posting' = [posting EXCEPT ![n] = NoHeartbeat]
  /\ answers' = answers \ {posting[n]}
  /\ UNCHANGED <<registry, nodeKey, agent, net, verified, collectorVars, changes>>

(* A heartbeat that was accepted is sent once more.                         *)
Replay(n) ==
  /\ Fault
  /\ \E i \in DOMAIN heartbeats[n] : net' = net \cup {heartbeats[n][i]}
  /\ UNCHANGED <<registry, agentVars, verified, answers, collectorVars, changes>>

(* The collector is killed and started again: its threads are gone.         *)
RestartCollector ==
  /\ Fault
  /\ verified # {} \/ answers # {}
  /\ verified' = {} /\ answers' = {}
  /\ UNCHANGED <<registry, agentVars, net, collectorVars, changes>>

Change == changes < MaxChanges /\ changes' = changes + 1

(* set-enabled and rotate-key rewrite the registry.                         *)
SetEnabled(n) ==
  /\ Change
  /\ registry' = [registry EXCEPT ![n].enabled = ~@]
  /\ UNCHANGED <<agentVars, net, verified, answers, collectorVars, faults>>

RotateKey(n, k) ==
  /\ Change
  /\ registry[n].key # k
  /\ registry' = [registry EXCEPT ![n].key = k]
  /\ UNCHANGED <<agentVars, net, verified, answers, collectorVars, faults>>

(* The operator gives the node the key the registry has.                    *)
InstallKey(n) ==
  /\ nodeKey[n] # registry[n].key
  /\ nodeKey' = [nodeKey EXCEPT ![n] = registry[n].key]
  /\ UNCHANGED <<registry, agent, posting, net, verified, answers, collectorVars, faults, changes>>

Agent(n) == (\E s \in Findings : Post(n, s)) \/ SaveState(n) \/ GiveUp(n)
Collector(m) == Verify(m) \/ Ingest(m)
Environment ==
  \/ \E m \in net : LoseRequest(m)
  \/ \E m \in answers : LoseAnswer(m)
  \/ \E n \in Node : Abandon(n) \/ Replay(n)
  \/ RestartCollector
Operator ==
  \E n \in Node : SetEnabled(n) \/ InstallKey(n) \/ \E k \in Key : RotateKey(n, k)

Next ==
  \/ \E n \in Node : Agent(n)
  \/ \E m \in net \cup verified : Collector(m)
  \/ Environment
  \/ Operator

(* Agents loop for ever, and every request is served; an operator who       *)
(* rotates a key also installs it.                                          *)
Fairness ==
  /\ \A n \in Node : WF_vars(Agent(n)) /\ WF_vars(InstallKey(n))
  /\ WF_vars(\E m \in net : Verify(m)) /\ WF_vars(\E m \in verified : Ingest(m))

Spec == Init /\ [][Next]_vars
FairSpec == Spec /\ Fairness

-----------------------------------------------------------------------------
(* Properties.                                                              *)

(* Whatever is lost, replayed, delayed past a later heartbeat, or repeated  *)
(* after a crash, the recorded heartbeats of a node are one chain with no   *)
(* gap and no branch: the i-th has number i and names the one before it.    *)
OneChain ==
  \A n \in Node : \A i \in DOMAIN heartbeats[n] :
    /\ heartbeats[n][i].seq = i
    /\ heartbeats[n][i].prev = IF i = 1 THEN 0 ELSE heartbeats[n][i - 1].stamp

(* The agent's state file is never ahead of the collector, at most one      *)
(* heartbeat behind it, and names the same heartbeat when it is not behind: *)
(* a node never believes attested what the collector has not recorded.      *)
AgentNotAhead ==
  \A n \in Node :
    /\ agent[n].seq <= nodeState[n].lastSeq
    /\ nodeState[n].lastSeq <= agent[n].seq + 1
    /\ agent[n].seq = nodeState[n].lastSeq => agent[n].last = nodeState[n].last

CleanRun(n, k) ==
  /\ k <= Len(heartbeats[n])
  /\ \A i \in Len(heartbeats[n]) - k + 1 .. Len(heartbeats[n]) : heartbeats[n][i].severity = "clean"
Needed == IF RecoveryRequired = 0 THEN 1 ELSE RecoveryRequired

ShownFor == [critical |-> "CRITICAL", high |-> "ALERT", medium |-> "OBSERVE"]

(* Recovery hysteresis, said of the recorded history: a node in incident is *)
(* released by exactly the required number of consecutive clean heartbeats, *)
(* none of them counted twice, and until then shows the last finding.       *)
StateFollowsHistory ==
  \A n \in Node :
    LET bad == {i \in DOMAIN heartbeats[n] : heartbeats[n][i].severity # "clean"}
        last == CHOOSE i \in bad : \A j \in bad : j <= i
    IN  CASE bad = {} -> nodeState[n].state = "NORMAL"
          [] bad # {} /\ CleanRun(n, Needed + 1) -> nodeState[n].state = "NORMAL"
          [] bad # {} /\ CleanRun(n, Needed) /\ ~CleanRun(n, Needed + 1) ->
               nodeState[n].state = "RECOVERED"
          [] OTHER -> nodeState[n].state = ShownFor[heartbeats[n][last].severity]

Orphaned(n) == nodeState[n].lastSeq > agent[n].seq /\ posting[n] \notin answers
InOrder(n) == registry[n].enabled /\ registry[n].key = nodeKey[n]

(* An enabled node goes on attesting after any number of lost requests,     *)
(* rejections and re-keyings, unless it lost the answer to a heartbeat that *)
(* was accepted.                                                            *)
AttestsUnlessOrphaned ==
  \A n \in Node :
    <>[]InOrder(n) => (<>[]Orphaned(n) \/ <>(nodeState[n].lastSeq = MaxSeq))

(* "Each inference worker can continuously attest" (V0.5_RUNBOOK.md): an    *)
(* enabled node with the right key whose network works again goes on.       *)
ContinuouslyAttests ==
  \A n \in Node : <>[]InOrder(n) => <>(nodeState[n].lastSeq = MaxSeq)
=============================================================================
