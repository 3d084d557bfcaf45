----------------------------- MODULE ArchScenario -----------------------------
(***************************************************************************)
(* A generated scenario as an architecture repository: validation,         *)
(* materialization as two commits, the deterministic SEAF review of        *)
(* base -> head, the repair of the declared edge, the second review and    *)
(* the gate (run_self_evolution_architecture_scenario.py), and the one     *)
(* finding the interface shows beside the repair (self_evolution_ui.py).   *)
(*                                                                         *)
(* A scenario is a graph with numbered edges.  A revision is the function  *)
(* from the edges whose flow it has to the endpoints of the flow; the      *)
(* components are the same in every revision.  The three statuses a        *)
(* component may stay with are one, Stays.                                 *)
(***************************************************************************)
EXTENDS Naturals, FiniteSets, Nothing

CONSTANTS
  Nodes,
  Sources, Targets, Replacements,  \* bound: what the edges of the documents name
  Edges        \* the numbers of the edges

ASSUME ScenarioAssumption == Edges \subseteq Nat /\ IsFiniteSet(Edges)

Rule == "SEAF-004"
Dangling == "SEAF-001"
Stays == "stays"
Eliminate == "eliminate"

VARIABLES
  doc,      \* the scenario document
  stage,    \* how far the run is
  repo,     \* the commits: base, head and, after the repair, patched
  found,    \* the findings of the first review
  again,    \* the findings of the second
  gate,     \* the checks the gate computed
  shown     \* the finding the interface shows with the result

scenarioVars == <<doc, stage, repo, found, again, gate, shown>>

\* The documents with a graph of so many nodes and edges.
Docs(nodes, edges) ==
  [status : [nodes -> {Stays, Eliminate}], successor : [nodes -> Replacements \cup {None}],
   edges : [edges -> [from : Sources, to : Targets, expected : BOOLEAN,
                      replacement : Replacements \cup {None}]],
   counted : BOOLEAN]   \* the summary states the sizes of the graph

ScenarioInit ==
  /\ doc \in Docs(Nodes, Edges)
  /\ stage = "given"
  /\ repo = None
  /\ found = {} /\ again = {}
  /\ gate = None
  /\ shown = None

-----------------------------------------------------------------------------

\* _validate_graph: what the edges name is there.
Resolved(edges) ==
  \A e \in Edges :
    /\ {edges[e].from, edges[e].to} \subseteq Nodes
    /\ edges[e].from # edges[e].to

ValidGraph ==
  /\ \A n \in Nodes : doc.successor[n] = None \/ doc.successor[n] \in Nodes \ {n}
  /\ Resolved(doc.edges)
  /\ \A e \in Edges :
       /\ \/ doc.edges[e].replacement = None
          \/ doc.edges[e].replacement \in Nodes \ {doc.edges[e].from}
       /\ doc.edges[e].expected <=> doc.edges[e].replacement # None

DeclaredEdges == {e \in Edges : doc.edges[e].expected}
TheDeclared == CHOOSE e \in DeclaredEdges : TRUE
Declared == doc.edges[TheDeclared]

\* _declared_edge
Repairable ==
  /\ Cardinality(DeclaredEdges) = 1
  /\ doc.status[Declared.to] = Eliminate
  /\ doc.successor[Declared.to] = Declared.replacement
  /\ doc.status[Declared.replacement] = Stays

Fail ==
  /\ stage' = "failed"
  /\ UNCHANGED <<doc, repo, found, again, gate, shown>>

ValidateScenario ==
  /\ stage = "given"
  /\ IF ValidGraph /\ Repairable
     THEN /\ stage' = "valid"
          /\ UNCHANGED <<doc, repo, found, again, gate, shown>>
     ELSE Fail

Flow(e) == [from |-> doc.edges[e].from, to |-> doc.edges[e].to]

Commits(baseline) ==
  [base |-> [e \in baseline |-> Flow(e)], head |-> [e \in Edges |-> Flow(e)]]

BaseHasTheRest == Commits(Edges \ DeclaredEdges)   \* mutant
\* The base of the local run has no flow at all.
LocalCommits == Commits({})
\* The base of the live run has every flow but the declared one.
LiveCommits == Commits(Edges \ DeclaredEdges)

\* The summary is checked with the rest of the document, after validation and before any file.
Materialize(revisions, next) ==
  /\ stage = "valid"
  /\ IF doc.counted
     THEN /\ repo' = revisions
          /\ stage' = next
          /\ UNCHANGED <<doc, found, again, gate, shown>>
     ELSE Fail

MaterializeLocal == Materialize(LocalCommits, "materialized")
MaterializeLive == Materialize(LiveCommits, "handed_over")

Changed(base, head) == {e \in DOMAIN head : e \notin DOMAIN base \/ base[e] # head[e]}

\* What is wrong at one endpoint of a flow.
DefectAt(component) ==
  IF component \notin Nodes THEN {Dangling}
  ELSE IF doc.status[component] = Eliminate THEN {Rule} ELSE {}

FindingsAt(e, k, component) ==
  {[rule |-> r, edge |-> e, endpoint |-> k] : r \in DefectAt(component)}

\* deterministic_findings: what is wrong with the flows that changed.  There is one finding at an
\* endpoint at the most, so that the set says what the list does.
ReviewFindings(base, head) ==
  UNION {FindingsAt(e, "from", head[e].from) \cup FindingsAt(e, "to", head[e].to) :
           e \in Changed(base, head)}

\* The list has the flows in their order, and the source of a flow before its target.
Precedes(f, g) ==
  f.edge < g.edge \/ (f.edge = g.edge /\ f.endpoint = "from" /\ g.endpoint = "to")
First(fs) == CHOOSE f \in fs : \A g \in fs : ~Precedes(g, f)

\* The findings of the declared edge, and the only one there may be.
OnDeclared(fs) == {f \in fs : f.rule = Rule /\ f.edge = TheDeclared}
TheFinding == CHOOSE f \in OnDeclared(found) : TRUE

Review ==
  /\ stage = "materialized"
  /\ found' = ReviewFindings(repo.base, repo.head)
  /\ stage' = IF /\ Cardinality(OnDeclared(found')) = 1
                /\ \A f \in OnDeclared(found') : f.endpoint = "to"
              THEN "reviewed" ELSE "failed"
  /\ UNCHANGED <<doc, repo, again, gate, shown>>

\* The patch of propose_remediation: the endpoint of one flow goes to the successor.
Reroute(flows) ==
  [flows EXCEPT ![TheDeclared].to = doc.successor[flows[TheDeclared].to]]

\* The patch is committed and the graph read back from it.
Repair ==
  LET patched == Reroute(repo.head) IN
  /\ stage = "reviewed"
  /\ IF Resolved(patched)
     THEN /\ repo' = [base |-> repo.base, head |-> repo.head, patched |-> patched]
          /\ stage' = "patched"
          /\ UNCHANGED <<doc, found, again, gate, shown>>
     ELSE Fail

Rereview ==
  /\ stage = "patched"
  /\ again' = ReviewFindings(repo.base, repo.patched)
  /\ stage' = "rereviewed"
  /\ UNCHANGED <<doc, repo, found, gate, shown>>

OnlyDeclaredChanged ==
  /\ repo.patched[TheDeclared] = [Flow(TheDeclared) EXCEPT !.to = Declared.replacement]
  /\ \A e \in Edges \ {TheDeclared} : repo.patched[e] = repo.head[e]

Checks ==
  [only_target |-> OnlyDeclaredChanged,
   closed |-> TheFinding \notin again,
   no_new |-> again \subseteq found,
   none_left |-> \A f \in again : f.rule # Rule]

Passed(checks) == checks.only_target /\ checks.closed /\ checks.no_new /\ checks.none_left

PassGate ==
  /\ stage = "rereviewed"
  /\ gate' = Checks
  /\ stage' = IF Passed(gate') THEN "completed" ELSE "gate_failed"
  /\ UNCHANGED <<doc, repo, found, again, shown>>

\* The interface takes a completed run only, and shows its first finding.
Show ==
  /\ stage = "completed" /\ shown = None
  /\ shown' = First(found)
  /\ UNCHANGED <<doc, stage, repo, found, again, gate>>

ScenarioNext ==
  \/ ValidateScenario \/ MaterializeLocal \/ MaterializeLive
  \/ Review \/ Repair \/ Rereview \/ PassGate \/ Show

ScenarioSpec == ScenarioInit /\ [][ScenarioNext]_scenarioVars

-----------------------------------------------------------------------------

\* The defects of a graph, stated over all its edges: the flows into or out of a component
\* that is to be eliminated.
Defective(flows) ==
  {e \in Edges : Eliminate \in {doc.status[flows[e].from], doc.status[flows[e].to]}}

\* The repaired graph of a completed run has no flow at an eliminated component, and differs
\* from the scenario in one endpoint.
CompletedIsClean ==
  stage = "completed" =>
    /\ Defective(repo.patched) = {}
    /\ {e \in Edges : repo.patched[e] # Flow(e)} = {TheDeclared}
    /\ repo.patched[TheDeclared].from = Declared.from

\* The finding shown, by its place in the list, is the one that was repaired.
ShownIsRepaired ==
  shown # None => shown = [rule |-> Rule, edge |-> TheDeclared, endpoint |-> "to"]

\* A scenario with the declared defect, a usable successor and nothing else wrong.
Honest ==
  /\ doc.counted /\ ValidGraph /\ Repairable
  /\ Defective([e \in Edges |-> Flow(e)]) = {TheDeclared}
  /\ doc.status[Declared.from] = Stays
HonestNeverRefused == stage \in {"failed", "gate_failed"} => ~Honest

\* Completed means the whole graph is clean, whatever the scenario declared, and differs from
\* the scenario in one endpoint; the finding shown is the one that was repaired, though it is
\* taken from the list by its place: the gate lets no other finding of the list through.  A
\* scenario with the declared defect, a usable successor and nothing else wrong is refused by
\* no stage.
ScenarioIsTrue == CompletedIsClean /\ ShownIsRepaired /\ HonestNeverRefused

\* The base of the live run has the healthy edges of the scenario.
BaseIsHealthy ==
  stage = "handed_over" => \A e \in DOMAIN repo.base : e \notin Defective(repo.head)
===============================================================================
