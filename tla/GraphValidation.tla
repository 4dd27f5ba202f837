--------------------------- MODULE GraphValidation ---------------------------
(***************************************************************************)
(* The validation of a proposed task graph (orchestrator-domain,           *)
(* graph.rs), and what it is for: the tasks of an accepted graph may run   *)
(* side by side as soon as their dependencies are done.                    *)
(*                                                                         *)
(* The cycle search, the search for transitive dependencies and the        *)
(* layering are translated as the algorithms they are and compared with    *)
(* definitions by sets and relations.  A node key is a model value, a path *)
(* the sequence of its components.                                         *)
(***************************************************************************)
EXTENDS Naturals, Sequences, FiniteSets, SequencesExt, Relation

CONSTANTS
    Keys,     \* Keys[i]: the key a planner gives to its i-th node
    Scopes    \* the sets of paths a node may claim

VARIABLES
    proposal, \* the proposed nodes and the policy they are checked against
    verdict,  \* the outcome of the validation
    progress  \* progress[i]: "waiting", "running" or "done"

vars == <<proposal, verdict, progress>>

nodes == proposal.nodes
Indexes == 1..Len(nodes)

------------------------------------------------------------------------------
(* The checks, in the order of the code; each is the guard of the next. *)

ValidPolicy == proposal.workers > 0 /\ proposal.limit > 0

NodeError(i) ==
    LET node == nodes[i] IN
    IF node.key = "" THEN "blank_key"
    ELSE IF \E j \in 1..(i - 1) : nodes[j].key = node.key THEN "duplicate_key"
    ELSE IF node.scopes = {} /\ ~node.wide THEN "missing_scope"
    ELSE IF node.scopes # {} /\ node.wide THEN "mixed_scope"
    ELSE IF ~node.eligible THEN "ineligible"
    ELSE "none"

IndexOf(key) == CHOOSE i \in Indexes : nodes[i].key = key

DependencyError(i) ==
    LET deps == nodes[i].deps
        Error(k) == IF deps[k] = nodes[i].key THEN "self_dependency"
                    ELSE IF \A j \in Indexes : nodes[j].key # deps[k]
                         THEN "missing_dependency"
                    ELSE IF \E l \in 1..(k - 1) : deps[l] = deps[k]
                         THEN "duplicate_dependency"
                    ELSE "none"
    IN  FoldLeft(LAMBDA found, k : IF found # "none" THEN found ELSE Error(k),
                 "none", [k \in 1..Len(deps) |-> k])

First(Error(_)) ==
    FoldLeft(LAMBDA found, i : IF found # "none" THEN found ELSE Error(i),
             "none", [i \in Indexes |-> i])

\* find_cycle: a depth-first search; 1 marks a node on the stack, 2 a node
\* that is finished.
RECURSIVE VisitCycle(_, _)
VisitCycle(i, search) ==
    LET entered == [search EXCEPT !.mark[i] = 1, !.stack = Append(@, i)]
        Follow(s, key) ==
            LET d == IndexOf(key) IN
            IF s.path # <<>> THEN s
            ELSE IF s.mark[d] = 0 THEN VisitCycle(d, s)
            ELSE IF s.mark[d] = 2 THEN s
            ELSE LET at == CHOOSE k \in 1..Len(s.stack) : s.stack[k] = d
                 IN  [s EXCEPT !.path =
                        Append(SubSeq(s.stack, at, Len(s.stack)), d)]
        left == FoldLeft(Follow, entered, nodes[i].deps)
    IN  IF left.path # <<>> THEN left
        ELSE [left EXCEPT !.mark[i] = 2, !.stack = Front(@)]

FindCycle ==
    FoldLeft(LAMBDA s, i : IF s.path # <<>> \/ s.mark[i] # 0 THEN s
                           ELSE VisitCycle(i, s),
             [mark |-> [i \in Indexes |-> 0], stack |-> <<>>, path |-> <<>>],
             [i \in Indexes |-> i]).path

\* Faulty variant: only the direct dependencies are followed.
DependsDirectly(start, target) ==
    \E k \in 1..Len(nodes[start].deps) : IndexOf(nodes[start].deps[k]) = target

\* transitively_depends: a worklist of nodes that are still to be looked at.
RECURSIVE Search(_, _, _)
Search(pending, visited, target) ==
    IF pending = <<>> THEN FALSE
    ELSE LET i == Last(pending)
             deps == [k \in 1..Len(nodes[i].deps) |-> IndexOf(nodes[i].deps[k])]
         IN  IF i \in visited THEN Search(Front(pending), visited, target)
             ELSE IF \E k \in 1..Len(deps) : deps[k] = target THEN TRUE
             ELSE Search(Front(pending) \o deps, visited \union {i}, target)

TransitivelyDepends(start, target) == Search(<<start>>, {}, target)

\* overlapping_scope, with repo_paths_overlap on paths.
OverlappingScope(left, right) ==
    \/ left.wide \/ right.wide
    \/ \E p \in left.scopes, q \in right.scopes : IsPrefix(p, q) \/ IsPrefix(q, p)

\* validate_independent_scopes
IndependentScopesValid ==
    \A i, j \in Indexes :
        i < j => \/ TransitivelyDepends(i, j) \/ TransitivelyDepends(j, i)
                 \/ ~OverlappingScope(nodes[i], nodes[j])

\* topological_summary: layer by layer, each in the order of the nodes.
RECURSIVE Layers(_, _, _, _)
Layers(remaining, ready, order, width) ==
    IF ready = {} THEN [order |-> order, width |-> width]
    ELSE LET now == SetToSortSeq(ready, LAMBDA i, j : i < j)
             counted == [i \in Indexes |->
                remaining[i] - Cardinality({k \in 1..Len(nodes[i].deps) :
                                    IndexOf(nodes[i].deps[k]) \in ready})]
         IN  Layers(counted,
                    {i \in Indexes : counted[i] = 0 /\ remaining[i] > 0},
                    order \o now,
                    IF width < Len(now) THEN Len(now) ELSE width)

TopologicalSummary ==
    Layers([i \in Indexes |-> Len(nodes[i].deps)],
           {i \in Indexes : nodes[i].deps = <<>>}, <<>>, 0)

Refused(error, path) == [error |-> error, path |-> path, order |-> <<>>, width |-> 0]

\* validate_task_graph
Validation ==
    IF ~ValidPolicy THEN Refused("policy", <<>>)
    ELSE IF ~proposal.supported THEN Refused("schema", <<>>)
    ELSE IF nodes = <<>> THEN Refused("empty", <<>>)
    ELSE IF First(NodeError) # "none" THEN Refused(First(NodeError), <<>>)
    ELSE IF First(DependencyError) # "none" THEN Refused(First(DependencyError), <<>>)
    ELSE IF FindCycle # <<>> THEN Refused("cycle", FindCycle)
    ELSE IF ~IndependentScopesValid THEN Refused("overlap", <<>>)
    ELSE [error |-> "none", path |-> <<>>] @@ TopologicalSummary

------------------------------------------------------------------------------
Node(key, deps, scopes, wide, eligible) ==
    [key |-> key, deps |-> deps, scopes |-> scopes, wide |-> wide,
     eligible |-> eligible]

\* The dependency lists a planner may write for its i-th node: of any other
\* keys, also of nodes that do not follow, of itself, and one key twice.
DependencyLists(i) ==
    LET others == Range(Keys) \ {Keys[i]} IN
    {SetToSeq(S) : S \in SUBSET others} \union {<<Keys[i]>>}
        \union {<<key, key>> : key \in others}

Claims == {<<s, FALSE>> : s \in Scopes} \union {<<{}, TRUE>>}
BadClaims == {<<{}, FALSE>>} \union {<<s, TRUE>> : s \in Scopes}

\* An empty proposal that the planner goes on to fill, or one that is refused
\* for its policy, its version or a malformed node.
Malformed ==
    LET empty == [supported |-> TRUE, workers |-> 1, limit |-> 1, nodes |-> <<>>]
        s == CHOOSE x \in Scopes : TRUE
        Alone(node) == [empty EXCEPT !.nodes = <<node>>]
    IN  {[empty EXCEPT !.workers = 0], [empty EXCEPT !.limit = 0],
         [empty EXCEPT !.supported = FALSE],
         Alone(Node("", <<>>, s, FALSE, TRUE)),
         Alone(Node(Keys[1], <<>>, s, FALSE, FALSE)),
         [empty EXCEPT !.nodes = <<Node(Keys[1], <<>>, s, FALSE, TRUE),
                                   Node(Keys[1], <<>>, s, FALSE, TRUE)>>]}
        \union {Alone(Node(Keys[1], <<>>, claim[1], claim[2], TRUE)) : claim \in BadClaims}

Init ==
    /\ proposal \in Malformed \union {[supported |-> TRUE, workers |-> 1, limit |-> 1,
                                      nodes |-> <<>>]}
    /\ verdict = [error |-> "pending", path |-> <<>>, order |-> <<>>, width |-> 0]
    /\ progress = <<>>

\* The planner writes its proposal.
AddNode ==
    /\ verdict.error = "pending"
    /\ proposal \notin Malformed
    /\ Len(nodes) < Len(Keys)
    /\ LET i == Len(nodes) + 1 IN
       \E deps \in DependencyLists(i), claim \in Claims :
          proposal' = [proposal EXCEPT !.nodes =
                         Append(@, Node(Keys[i], deps, claim[1], claim[2], TRUE))]
    /\ UNCHANGED <<verdict, progress>>

Validate ==
    /\ verdict.error = "pending"
    /\ verdict' = Validation
    /\ progress' = [i \in Indexes |-> "waiting"]
    /\ UNCHANGED proposal

\* The tasks of an accepted graph start when their dependencies have ended.
Start(i) ==
    /\ verdict.error = "none"
    /\ progress[i] = "waiting"
    /\ \A k \in 1..Len(nodes[i].deps) : progress[IndexOf(nodes[i].deps[k])] = "done"
    /\ progress' = [progress EXCEPT ![i] = "running"]
    /\ UNCHANGED <<proposal, verdict>>

Finish(i) ==
    /\ progress[i] = "running"
    /\ progress' = [progress EXCEPT ![i] = "done"]
    /\ UNCHANGED <<proposal, verdict>>

Next == AddNode \/ Validate \/ \E i \in DOMAIN progress : Start(i) \/ Finish(i)

Spec == Init /\ [][Next]_vars

------------------------------------------------------------------------------
(* What a good graph is, by sets and relations. *)

DependsOn(i, j) == \E k \in 1..Len(nodes[i].deps) : nodes[i].deps[k] = nodes[j].key
Depends == [i, j \in Indexes |-> DependsOn(i, j)]

WellFormed ==
    /\ proposal.workers > 0 /\ proposal.limit > 0 /\ proposal.supported
    /\ nodes # <<>>
    /\ \A i \in Indexes :
          /\ nodes[i].key # "" /\ nodes[i].eligible
          /\ (nodes[i].scopes = {}) = nodes[i].wide
          /\ IsInjective(nodes[i].deps)
          /\ Range(nodes[i].deps) \subseteq {nodes[j].key : j \in Indexes} \ {nodes[i].key}
    /\ \A i, j \in Indexes : nodes[i].key = nodes[j].key => i = j

\* Every non-empty set of nodes has one that depends on none of them.
Acyclic == \A S \in SUBSET Indexes \ {{}} :
              \E i \in S : \A j \in S : ~DependsOn(i, j)

Apart(i, j) ==
    ~OverlappingScope(nodes[i], nodes[j])

\* The validation accepts exactly the well-formed acyclic graphs in which two
\* nodes that no chain of dependencies orders claim disjoint paths; the order it
\* seals has every node once and after its dependencies, and the cycle it
\* reports is one (graph.rs, validate_task_graph).
VerdictCorrect ==
    /\ verdict.error = "none" =>
          /\ Len(verdict.order) = Len(nodes) /\ Range(verdict.order) = Indexes
          /\ \A a, b \in Indexes :
                DependsOn(verdict.order[a], verdict.order[b]) => b < a
    /\ verdict.error = "cycle" =>
          /\ Head(verdict.path) = Last(verdict.path)
          /\ \A k \in 1..(Len(verdict.path) - 1) :
                DependsOn(verdict.path[k], verdict.path[k + 1])
    /\ verdict.error # "pending" /\ progress = [i \in Indexes |-> "waiting"] =>
          (verdict.error = "none") =
              (/\ WellFormed /\ Acyclic
               /\ LET ordered == TransitiveClosure(Depends, Indexes)
                  IN  \A i, j \in Indexes :
                        i = j \/ ordered[i, j] \/ ordered[j, i] \/ Apart(i, j))

\* Tasks of an accepted graph that run at the same time never write to
\* overlapping paths, in whatever order they start and end.
RunningApart ==
    \A i, j \in DOMAIN progress :
        i # j /\ progress[i] = "running" /\ progress[j] = "running" => Apart(i, j)
==============================================================================
