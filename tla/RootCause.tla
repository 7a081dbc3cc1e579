----------------------------- MODULE RootCause -----------------------------
(***************************************************************************)
(* The dependency graph of the heal pipeline and resolve_root_cause, which *)
(* decides among the targets that fail which is the cause, and which need  *)
(* no healing of their own (healing/dependency_graph.py).  Nodes are added *)
(* and replaced in any order, and may depend on targets that have no node. *)
(***************************************************************************)
EXTENDS Naturals, FiniteSetsExt

CONSTANTS Target,   \* in the order of their names
          MayNeed   \* pairs: the dependencies a configuration may name

ASSUME GraphAssumption == IsFiniteSet(Target) /\ Target \subseteq Nat /\ MayNeed \subseteq Target \X Target

VARIABLES registered,  \* targets that have a node
          dependsOn,   \* depends_on of each of them
          failing      \* failing_targets

graphVars == <<registered, dependsOn, failing>>

GraphTypeOK ==
    /\ registered \subseteq Target /\ failing \subseteq Target
    /\ dependsOn \in [Target -> SUBSET Target]
    /\ \A t \in Target \ registered : dependsOn[t] = {}

GraphInit == registered = {} /\ dependsOn = [t \in Target |-> {}] /\ failing = {}

\* add_node adds or replaces a node.
AddNode(t) ==
    /\ registered' = registered \union {t}
    /\ \E parents \in SUBSET {p \in Target : <<t, p>> \in MayNeed} :
         dependsOn' = [dependsOn EXCEPT ![t] = parents]
    /\ UNCHANGED failing

TargetChanges(t) ==
    /\ failing' \in {failing \union {t}, failing \ {t}}
    /\ UNCHANGED <<registered, dependsOn>>

GraphNext == \E t \in Target : AddNode(t) \/ TargetChanges(t)

GraphSpec == GraphInit /\ [][GraphNext]_graphVars

-----------------------------------------------------------------------------
(* get_ancestors and get_all_descendants share their visited set between    *)
(* the branches of the walk.                                                *)

\* Visits one of todo that was not visited, and what can be reached from it,
\* before the others.
VisitNode(edges, walk, todo, visited) ==
    IF todo \subseteq visited THEN visited
    ELSE LET next == CHOOSE t \in todo \ visited : TRUE
         IN walk[<<todo, walk[<<edges[next], visited \union {next}>>]>>]

Walk(edges) ==
    LET walk[start \in (SUBSET Target) \X (SUBSET Target)] == VisitNode(edges, walk, start[1], start[2])
    IN walk

\* The walk goes through nodes only: get_ancestors leaves out the others.
Ancestors(t) == Walk(dependsOn)[<<dependsOn[t], {}>>] \intersect registered

\* get_dependents.
Dependents == [t \in Target |-> {n \in registered : t \in dependsOn[n]}]

DirectDescendants(t) == Dependents[t]

Descendants(t) == Walk(Dependents)[<<Dependents[t], {}>>]

FailingDescendants(t) == Descendants(t) \intersect failing

\* Failing targets without a failing ancestor, or all of them in a cycle.
CauseCandidates ==
    LET tops == {t \in failing : Ancestors(t) \intersect failing = {}}
    IN IF tops = {} THEN failing ELSE tops

\* The candidate that explains most, by name among equals.
Root ==
    LET most == Max({Cardinality(FailingDescendants(t)) : t \in CauseCandidates})
    IN Min({t \in CauseCandidates : Cardinality(FailingDescendants(t)) = most})

-----------------------------------------------------------------------------
(* Properties. *)

\* The targets that t depends on, in any number of steps: those in every set
\* that has its dependencies and, with a target, that target's.
NeededBy(t) ==
    {f \in Target : \A s \in SUBSET Target :
        dependsOn[t] \subseteq s /\ (\A u \in s : dependsOn[u] \subseteq s) => f \in s}

\* In a graph without cycles the root cause is a failing target that needs no
\* failing one, registered or not; exactly the failing targets that need it are
\* suppressed, and no other root would leave fewer to heal.
RootExplainsMost ==
    failing # {} /\ (\A t \in Target : t \notin NeededBy(t)) =>
        LET explained(t) == {f \in failing : t \in NeededBy(f)} IN
        /\ Root \in failing /\ NeededBy(Root) \intersect failing = {}
        /\ FailingDescendants(Root) = explained(Root)
        /\ \A t \in failing : Cardinality(explained(t)) <= Cardinality(explained(Root))
=============================================================================
