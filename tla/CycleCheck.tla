----------------------------- MODULE CycleCheck -----------------------------
(***************************************************************************)
(* The depth-first search with three colours that the build model uses     *)
(* twice: over the explicit dependencies of the draft's targets            *)
(* (bm_validate_explicit_cycles) and over the targets and build steps of   *)
(* the frozen model (bm_validate_execution_cycles_for_context).            *)
(*                                                                         *)
(* A node is the index of a target (or of a step, after the targets).  The *)
(* C recursion is the call stack `path' with one loop counter `dep' per    *)
(* open call.  `finish' and `clock' are history variables that the code    *)
(* does not keep: they record the order in which the calls return.  That a *)
(* query or an allocation fails, and every open call returns at once, is   *)
(* not modelled.                                                           *)
(***************************************************************************)
EXTENDS Integers, Sequences, FiniteSets

CONSTANTS
    N,       \* the number of nodes
    Graphs   \* the graphs to search: for each node the nodes it depends on, in order

Node == 1 .. N

\* A dependency name that no target has: BM_TARGET_ID_INVALID.
Invalid == 0

ASSUME NAssumption == N \in Nat
ASSUME GraphsAssumption == Graphs \subseteq [Node -> Seq(Node \cup {Invalid})]

White == 0
Gray  == 1
Black == 2

VARIABLES
    succ,       \* the graph that is searched
    colors,     \* colors[n]: not visited, being visited, done
    path,       \* the nodes whose visit has begun and not returned, outermost first
    dep,        \* dep[n]: the next dependency the visit of n looks at
    next_root,  \* the loop counter of the outer loop
    had_error,  \* a cycle was reported
    finish,     \* history: when the visit of a node returned
    clock       \* history: how many visits have returned

vars == <<succ, colors, path, dep, next_root, had_error, finish, clock>>

-----------------------------------------------------------------------------
Top == path[Len(path)]

\* Mutant: The node is painted black when its visit begins.
MutOpenBlack(n) ==
    /\ colors' = [colors EXCEPT ![n] = Black]
    /\ path' = Append(path, n)

\* bm_exec_visit_node and bm_cycle_visit begin by painting the node gray.
Open(n) ==
    /\ colors' = [colors EXCEPT ![n] = Gray]
    /\ path' = Append(path, n)

Init ==
    /\ succ \in Graphs
    /\ colors = [n \in Node |-> White]
    /\ path = <<>>
    /\ dep = [n \in Node |-> 1]
    /\ next_root = 1
    /\ had_error = FALSE
    /\ finish = [n \in Node |-> 0]
    /\ clock = 0

\* The outer loop starts a visit at the next node that is still white.
VisitRoot ==
    /\ path = <<>>
    /\ next_root \in Node
    /\ colors[next_root] = White
    /\ Open(next_root)
    /\ next_root' = next_root + 1
    /\ UNCHANGED <<succ, dep, had_error, finish, clock>>

SkipRoot ==
    /\ path = <<>>
    /\ next_root \in Node
    /\ colors[next_root] # White
    /\ next_root' = next_root + 1
    /\ UNCHANGED <<succ, colors, path, dep, had_error, finish, clock>>

\* The dependency that the innermost visit looks at.
AtEdge == path # <<>> /\ dep[Top] <= Len(succ[Top])
Dependency == succ[Top][dep[Top]]

\* Mutant: Every node that was seen before is taken for a cycle.
MutReportSeen ==
    /\ AtEdge
    /\ Dependency \in Node
    /\ colors[Dependency] # White
    /\ had_error' = TRUE
    /\ dep' = [dep EXCEPT ![Top] = @ + 1]
    /\ UNCHANGED <<succ, colors, path, next_root, finish, clock>>

\* Mutant: A reported cycle is entered again.
MutReportLoop ==
    /\ AtEdge
    /\ Dependency \in Node
    /\ colors[Dependency] = Gray
    /\ had_error' = TRUE
    /\ dep' = [dep EXCEPT ![Top] = 1]
    /\ UNCHANGED <<succ, colors, path, next_root, finish, clock>>

\* A gray dependency is a cycle: report it and go on with the next one.
ReportCycle ==
    /\ AtEdge
    /\ Dependency \in Node
    /\ colors[Dependency] = Gray
    /\ had_error' = TRUE
    /\ dep' = [dep EXCEPT ![Top] = @ + 1]
    /\ UNCHANGED <<succ, colors, path, next_root, finish, clock>>

\* An unresolved name is skipped, and so is a node that is done.
SkipEdge ==
    /\ AtEdge
    /\ IF Dependency \in Node THEN colors[Dependency] = Black ELSE TRUE
    /\ dep' = [dep EXCEPT ![Top] = @ + 1]
    /\ UNCHANGED <<succ, colors, path, next_root, had_error, finish, clock>>

\* A white dependency is visited by a recursive call.
VisitEdge ==
    /\ AtEdge
    /\ Dependency \in Node
    /\ colors[Dependency] = White
    /\ dep' = [dep EXCEPT ![Top] = @ + 1]
    /\ Open(Dependency)
    /\ UNCHANGED <<succ, next_root, had_error, finish, clock>>

\* After the last dependency the node is painted black and the call returns.
Return ==
    /\ path # <<>>
    /\ dep[Top] > Len(succ[Top])
    /\ colors' = [colors EXCEPT ![Top] = Black]
    /\ path' = [i \in 1 .. Len(path) - 1 |-> path[i]]
    /\ clock' = clock + 1
    /\ finish' = [finish EXCEPT ![Top] = clock + 1]
    /\ UNCHANGED <<succ, dep, next_root, had_error>>

Next == VisitRoot \/ SkipRoot \/ ReportCycle \/ SkipEdge \/ VisitEdge \/ Return

Spec == Init /\ [][Next]_vars

\* The search is one sequential loop: it keeps running.
FairSpec == Spec /\ WF_vars(Next)

-----------------------------------------------------------------------------
Done == path = <<>> /\ next_root = N + 1

Edge(n, d) == \E i \in 1 .. Len(succ[n]) : succ[n][i] = d

TypeOK ==
    /\ succ \in [Node -> Seq(Node \cup {Invalid})]
    /\ colors \in [Node -> {White, Gray, Black}]
    /\ path \in Seq(Node)
    /\ dep \in [Node -> Nat \ {0}]
    /\ next_root \in 1 .. N + 1
    /\ had_error \in BOOLEAN
    /\ finish \in [Node -> Nat]
    /\ clock \in Nat

(***************************************************************************)
(* No cycle is missed: when the search ends without an error, every        *)
(* dependency returned before the node that needs it, so the order of the  *)
(* returns is an order in which the targets and steps can be built.        *)
(***************************************************************************)
SilenceMeansOrder ==
    (Done /\ ~had_error) =>
        \A n, d \in Node : Edge(n, d) => finish[d] < finish[n]

(***************************************************************************)
(* No cycle is invented: when an error has been reported there is a set of *)
(* nodes each of which depends on a node of the set, which in a finite     *)
(* graph is a cycle.                                                       *)
(***************************************************************************)
ErrorMeansCycle ==
    had_error =>
        \E S \in SUBSET Node : S # {} /\ \A n \in S : \E d \in S : Edge(n, d)

(***************************************************************************)
(* The recursion and the outer loop end, with or without cycles.           *)
(***************************************************************************)
SearchEnds == <>Done

-----------------------------------------------------------------------------
(* Part of the inductive invariant of CycleCheckProofs.                    *)

\* The gray nodes are the open calls, each of them open once.
OpenCalls ==
    /\ \A n \in Node : colors[n] = Gray <=> \E i \in 1 .. Len(path) : path[i] = n
    /\ \A i, j \in 1 .. Len(path) : path[i] = path[j] => i = j

\* A call was made for the dependency its caller is at.
CallChain ==
    \A i \in 1 .. Len(path) - 1 :
        /\ dep[path[i]] - 1 \in 1 .. Len(succ[path[i]])
        /\ succ[path[i]][dep[path[i]] - 1] = path[i + 1]

\* What is behind an open call is done, except for the call it is waiting for.
Settled(n, last) ==
    \A i \in 1 .. Len(succ[n]) :
        i < last /\ succ[n][i] \in Node =>
            colors[succ[n][i]] = Black /\ finish[succ[n][i]] <= clock

BehindIsDone ==
    ~had_error =>
        /\ \A i \in 1 .. Len(path) - 1 : Settled(path[i], dep[path[i]] - 1)
        /\ path # <<>> => Settled(Top, dep[Top])

\* A node that is done finished after everything it depends on.
BlackIsOrdered ==
    \A n \in Node : colors[n] = Black =>
        /\ finish[n] <= clock
        /\ ~had_error => \A d \in Node : Edge(n, d) => colors[d] = Black /\ finish[d] < finish[n]

\* A white node has not been looked into.
WhiteIsFresh == \A n \in Node : colors[n] = White => dep[n] = 1

RootsVisited == \A n \in Node : n < next_root => colors[n] # White

SearchInv ==
    /\ OpenCalls
    /\ CallChain
    /\ BehindIsDone
    /\ BlackIsOrdered
    /\ WhiteIsFresh
    /\ RootsVisited
    /\ ErrorMeansCycle

=============================================================================
