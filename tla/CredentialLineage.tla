------------------------- MODULE CredentialLineage --------------------------
(***************************************************************************)
(* Lineages of credentials (v18_credential_lineage.py): from observed       *)
(* delegation hops, presentations and token structures a report is built,   *)
(* unless the hops are cyclic, and projected into an execution record       *)
(* (v18_agent_execution_record.py).  The search for a cycle goes step by    *)
(* step, as the recursion of the code does; the report and the record are   *)
(* made in one step each.                                                   *)
(*                                                                          *)
(* Observations are well-formed; audiences, issuers, times and digests are  *)
(* left out.                                                                *)
(***************************************************************************)
EXTENDS Naturals, Sequences, FiniteSets

CONSTANTS
  Credential,   \* identifiers of credentials, in their order
  Principal,    \* identifiers of principals
  Scope,
  Lineages      \* what is given to build_lineage

VARIABLES
  lineage,    \* given
  phase,      \* of the work on it
  path,       \* frames of the search: a credential and the targets left to visit
  explored,   \* credentials whose search is over
  cycle,      \* that was found
  report,     \* diagnostics of the report
  graph       \* nodes and edges of the execution record

lineageVars == <<lineage, phase, path, explored, cycle, report, graph>>

(* A hop is known by what it says here; a presentation is a credential that *)
(* a principal showed.  tokens gives the scopes of the credentials whose    *)
(* structure was seen.                                                      *)
Hop == [from : Credential, to : Credential, source : Principal, target : Principal,
        scopes : SUBSET Scope]
Presentation == [credential : Credential, presenter : Principal]
IsLineage(x) ==
  /\ x.credentials \subseteq Credential /\ x.principals \subseteq Principal
  /\ x.hops \subseteq Hop /\ x.shown \subseteq Presentation
  /\ DOMAIN x.tokens \subseteq Credential /\ \A c \in DOMAIN x.tokens : x.tokens[c] \subseteq Scope

ASSUME LineageAssumption ==
  /\ Credential \subseteq Nat
  /\ \A x \in Lineages : IsLineage(x)

NoReport == [missingCredentials |-> {}, missingPrincipals |-> {}, added |-> <<>>]
NoGraph == [nodes |-> {}, edges |-> {}]

LineageTypeOK ==
  /\ IsLineage(lineage)
  /\ phase \in {"search", "refused", "searched", "reported", "projected", "invalid"}
  /\ path \in Seq([at : Credential, left : SUBSET Credential])
  /\ explored \subseteq Credential /\ cycle \in Seq(Credential)

Unsearched ==
  /\ phase = "search" /\ path = <<>> /\ explored = {} /\ cycle = <<>>
  /\ report = NoReport /\ graph = NoGraph

LineageInit == lineage \in Lineages /\ Unsearched

First(S) == CHOOSE c \in S : \A d \in S : c <= d
Adjacent(x, c) == {h.to : h \in {h \in x.hops : h.from = c}}
Frame(c) == [at |-> c, left |-> Adjacent(lineage, c)]
Active == [i \in DOMAIN path |-> path[i].at]
IsActive(c) == \E i \in DOMAIN path : path[i].at = c
Top == path[Len(path)]
Popped == SubSeq(path, 1, Len(path) - 1)

-----------------------------------------------------------------------------
(* _find_cycle.                                                             *)

(* The next credential that something was delegated from.                   *)
VisitRoot ==
  LET left == {h.from : h \in lineage.hops} \ explored
  IN  /\ phase = "search" /\ path = <<>>
      /\ IF left = {} THEN phase' = "searched" /\ UNCHANGED path
         ELSE path' = <<Frame(First(left))>> /\ UNCHANGED phase
      /\ UNCHANGED <<lineage, explored, cycle, report, graph>>

(* Mutant: what was explored before counts as active.                       *)
VisitTargetSeen ==
  /\ phase = "search" /\ path # <<>> /\ Top.left # {}
  /\ LET next == First(Top.left)
         rest == Append(Popped, [Top EXCEPT !.left = @ \ {next}])
     IN  IF IsActive(next) \/ next \in explored
         THEN phase' = "refused" /\ cycle' = Append(Active, next) /\ UNCHANGED path
         ELSE path' = Append(rest, Frame(next)) /\ UNCHANGED <<phase, cycle>>
  /\ UNCHANGED <<lineage, explored, report, graph>>

VisitTarget ==
  /\ phase = "search" /\ path # <<>> /\ Top.left # {}
  /\ LET next == First(Top.left)
         rest == Append(Popped, [Top EXCEPT !.left = @ \ {next}])
     IN  IF IsActive(next)
         THEN /\ phase' = "refused"
              /\ cycle' = LET i == CHOOSE i \in DOMAIN path : path[i].at = next
                          IN  Append(SubSeq(Active, i, Len(path)), next)
              /\ UNCHANGED path
         ELSE /\ path' = IF next \in explored THEN rest ELSE Append(rest, Frame(next))
              /\ UNCHANGED <<phase, cycle>>
  /\ UNCHANGED <<lineage, explored, report, graph>>

LeaveCredential ==
  /\ phase = "search" /\ path # <<>> /\ Top.left = {}
  /\ path' = Popped
  /\ explored' = explored \cup {Top.at}
  /\ UNCHANGED <<lineage, phase, cycle, report, graph>>

-----------------------------------------------------------------------------
(* build_lineage and to_aer.                                                *)

TokenScopes(x, c) == IF c \in DOMAIN x.tokens THEN x.tokens[c] ELSE {}

(* Mutant: a hop may have asked for more than its input had.                *)
AddedRequested(x, hop) ==
  TokenScopes(x, hop.to) \ (TokenScopes(x, hop.from) \cup hop.scopes)

(* The scopes that the output of a hop has, and its input had not; when no  *)
(* scopes of the input are known, those that were asked for count instead.  *)
Added(x, hop) ==
  LET source == TokenScopes(x, hop.from)
  IN  TokenScopes(x, hop.to) \ (IF source # {} THEN source ELSE hop.scopes)

(* Whatever hops and presentations name should be in the evidence.          *)
CredentialsNamed(x) ==
  {h.from : h \in x.hops} \cup {h.to : h \in x.hops} \cup {s.credential : s \in x.shown}
PrincipalsNamed(x) ==
  {h.source : h \in x.hops} \cup {h.target : h \in x.hops} \cup {s.presenter : s \in x.shown}
ReportOf(x) ==
  [missingCredentials |-> CredentialsNamed(x) \ x.credentials,
   missingPrincipals |-> PrincipalsNamed(x) \ x.principals,
   added |-> [h \in x.hops |-> Added(x, h)]]

BuildReport ==
  /\ phase = "searched"
  /\ report' = ReportOf(lineage)
  /\ phase' = "reported"
  /\ UNCHANGED <<lineage, path, explored, cycle, graph>>

LineageNode(kind, type, id) == [kind |-> kind, type |-> type, id |-> id]
CredentialNode(x, c) == LineageNode(IF c \in x.credentials THEN "identity" ELSE "unknown", "credential", c)
PrincipalNode(x, p) == LineageNode(IF p \in x.principals THEN "identity" ELSE "unknown", "principal", p)
Edge(from, to, relationship) == [from |-> from, to |-> to, relationship |-> relationship]

(* validate_record, of nodes and edges.                                     *)
IsRecord(g) == \A e \in g.edges : e.from \in g.nodes /\ e.to \in g.nodes

(* Mutant: what was only shown counts as delegated.                         *)
EdgesOfShown(x) ==
  {Edge(CredentialNode(x, h.from), CredentialNode(x, h.to), "delegated_authority") : h \in x.hops}
    \cup {Edge(PrincipalNode(x, h.source), CredentialNode(x, h.to), "delegated_authority") : h \in x.hops}
    \cup {Edge(CredentialNode(x, h.to), PrincipalNode(x, h.target), "correlated_with") : h \in x.hops}
    \cup {Edge(PrincipalNode(x, s.presenter), CredentialNode(x, s.credential), "delegated_authority") : s \in x.shown}

EdgesOf(x) ==
  {Edge(CredentialNode(x, h.from), CredentialNode(x, h.to), "delegated_authority") : h \in x.hops}
    \cup {Edge(PrincipalNode(x, h.source), CredentialNode(x, h.to), "delegated_authority") : h \in x.hops}
    \cup {Edge(CredentialNode(x, h.to), PrincipalNode(x, h.target), "correlated_with") : h \in x.hops}
    \cup {Edge(PrincipalNode(x, s.presenter), CredentialNode(x, s.credential), "correlated_with") : s \in x.shown}

GraphOf(x, told) ==
  [nodes |-> {CredentialNode(x, c) : c \in x.credentials \cup told.missingCredentials}
               \cup {PrincipalNode(x, p) : p \in x.principals \cup told.missingPrincipals},
   edges |-> EdgesOf(x)]

Project ==
  /\ phase = "reported"
  /\ LET g == GraphOf(lineage, report)
     IN  IF g.nodes # {} /\ IsRecord(g)
         THEN phase' = "projected" /\ graph' = g
         ELSE phase' = "invalid" /\ UNCHANGED graph
  /\ UNCHANGED <<lineage, path, explored, cycle, report>>

LineageNext ==
  VisitRoot \/ VisitTarget \/ LeaveCredential \/ BuildReport \/ Project

LineageSpec == LineageInit /\ [][LineageNext]_lineageVars

-----------------------------------------------------------------------------
(* Properties.                                                              *)

(* Along edges one comes from m to n: it is in every set that, as m does,   *)
(* has its members' edges lead into it.                                     *)
Reaches(edges, nodes, m, n) ==
  \A S \in SUBSET nodes : (\A e \in edges : e[1] \in S \cup {m} => e[2] \in S) => n \in S

Delegations(x) == {<<h.from, h.to>> : h \in x.hops}
Delegates(x, c, d) == Reaches(Delegations(x), Credential, c, d)

(* Hops are refused just when they are cyclic, whatever is shared between   *)
(* their chains, and the cycle that is told is one.  In any set of          *)
(* credentials that was not refused, one was delegated to none of the set.  *)
(* (v18_credential_lineage.py _find_cycle)                                  *)
CyclesFound ==
  /\ phase = "refused" =>
       /\ Len(cycle) > 1 /\ cycle[1] = cycle[Len(cycle)]
       /\ \A i \in 1..Len(cycle) - 1 : cycle[i + 1] \in Adjacent(lineage, cycle[i])
  /\ phase \notin {"search", "refused"} =>
       \A S \in SUBSET Credential : S # {} => \E c \in S : Adjacent(lineage, c) \cap S = {}

AuthorityFlow(g) ==
  {<<e.from, e.to>> : e \in {e \in g.edges : e.relationship = "delegated_authority"}}

(* In the execution record authority flows along the hops, and along        *)
(* nothing else: a principal that only showed a credential has delegated    *)
(* nothing, and one that is missing from the evidence is no gap in a chain. *)
(* (v18_credential_lineage.py to_aer)                                       *)
AuthorityFromHops ==
  phase = "projected" =>
    \A m, n \in graph.nodes :
      Reaches(AuthorityFlow(graph), graph.nodes, m, n) <=>
        /\ n.type = "credential"
        /\ \/ m.type = "credential" /\ Delegates(lineage, m.id, n.id)
           \/ /\ m.type = "principal"
              /\ \E h \in lineage.hops :
                   h.source = m.id /\ (h.to = n.id \/ Delegates(lineage, h.to, n.id))

(* A record can be made of every lineage that says anything.                *)
RecordsMade ==
  phase = "invalid" => lineage.credentials \cup lineage.principals = {} /\ lineage.hops \cup lineage.shown = {}

(* A scope that the last credential of a chain has, and the first has not,  *)
(* is told as added by a hop of the chain, if the scopes along it are known.*)
ScopesTraced ==
  phase \in {"reported", "projected"} =>
    \A scope \in Scope :
      LET quiet == {h \in lineage.hops : /\ TokenScopes(lineage, h.from) # {}
                                         /\ TokenScopes(lineage, h.to) # {}
                                         /\ scope \notin report.added[h]}
      IN  \A c, d \in Credential :
            Reaches({<<h.from, h.to>> : h \in quiet}, Credential, c, d)
              /\ scope \in TokenScopes(lineage, d) => scope \in TokenScopes(lineage, c)

LineageExact == CyclesFound /\ AuthorityFromHops /\ RecordsMade /\ ScopesTraced
=============================================================================
