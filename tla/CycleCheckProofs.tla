-------------------------- MODULE CycleCheckProofs --------------------------
(***************************************************************************)
(* The coloured search is exact on every graph: the inductive invariant is *)
(* TypeOK /\ SearchInv of CycleCheck.  SilenceMeansOrder alone is not      *)
(* inductive: it needs to know that what an open call has passed is done   *)
(* (BehindIsDone), that the gray nodes are the open calls (OpenCalls), and *)
(* that the outer loop leaves no white node behind it (RootsVisited).      *)
(***************************************************************************)
EXTENDS CycleCheck, TLAPS

USE DEF White, Gray, Black

(***************************************************************************)
(* Types: every variable keeps its type (bm_validate_cycles.c).            *)
(***************************************************************************)
LEMMA TypeInit == Init => TypeOK
  <1> SUFFICES ASSUME Init PROVE TypeOK
    OBVIOUS
  <1>1. succ \in [Node -> Seq(Node \cup {Invalid})]
    BY GraphsAssumption DEF Init
  <1>2. next_root \in 1 .. N + 1
    BY NAssumption DEF Init
  <1>3. had_error \in BOOLEAN
    BY DEF Init
  <1>4. /\ colors \in [Node -> {White, Gray, Black}]
        /\ path \in Seq(Node)
        /\ dep \in [Node -> Nat \ {0}]
        /\ finish \in [Node -> Nat]
        /\ clock \in Nat
    BY DEF Init
  <1> QED
    BY <1>1, <1>2, <1>3, <1>4 DEF TypeOK

\* Every step of the search keeps its types.
LEMMA TypeStep == TypeOK /\ [Next]_vars => TypeOK'
  <1> SUFFICES ASSUME TypeOK, [Next]_vars PROVE TypeOK'
    OBVIOUS
  <1> USE DEF TypeOK
  <1> DEFINE Rest ==
        /\ colors \in [Node -> {White, Gray, Black}]
        /\ path \in Seq(Node)
        /\ dep \in [Node -> Nat \ {0}]
        /\ finish \in [Node -> Nat]
        /\ clock \in Nat
  <1>0. path # <<>> => Top \in Node
    BY DEF Top
  <1>1. CASE VisitRoot
    <2>1. Rest'
      BY <1>1 DEF VisitRoot, Open
    <2>2. next_root' \in 1 .. N + 1
      BY <1>1, NAssumption DEF VisitRoot, Node
    <2>3. UNCHANGED <<succ, had_error>>
      BY <1>1 DEF VisitRoot
    <2> QED
      BY <2>1, <2>2, <2>3
  <1>2. CASE SkipRoot
    <2>1. next_root' \in 1 .. N + 1
      BY <1>2, NAssumption DEF SkipRoot, Node
    <2>2. UNCHANGED <<succ, colors, path, dep, had_error, finish, clock>>
      BY <1>2 DEF SkipRoot
    <2> QED
      BY <2>1, <2>2
  <1>3. CASE ReportCycle
    <2>1. Rest'
      BY <1>3, <1>0, SMTT(30) DEF ReportCycle, AtEdge
    <2>2. had_error' \in BOOLEAN
      BY <1>3 DEF ReportCycle
    <2>3. UNCHANGED <<succ, next_root>>
      BY <1>3 DEF ReportCycle
    <2> QED
      BY <2>1, <2>2, <2>3
  <1>4. CASE SkipEdge
    <2>1. Rest'
      BY <1>4, <1>0, SMTT(30) DEF SkipEdge, AtEdge
    <2>2. UNCHANGED <<succ, next_root, had_error>>
      BY <1>4 DEF SkipEdge
    <2> QED
      BY <2>1, <2>2
  <1>5. CASE VisitEdge
    <2>1. Rest'
      BY <1>5, <1>0, SMTT(30) DEF VisitEdge, AtEdge, Open
    <2>2. UNCHANGED <<succ, next_root, had_error>>
      BY <1>5 DEF VisitEdge
    <2> QED
      BY <2>1, <2>2
  <1>6. CASE Return
    <2>1. Rest'
      BY <1>6, <1>0, SMTT(30) DEF Return
    <2>2. UNCHANGED <<succ, next_root, had_error>>
      BY <1>6 DEF Return
    <2> QED
      BY <2>1, <2>2
  <1>7. CASE UNCHANGED vars
    BY <1>7 DEF vars
  <1> QED
    BY <1>1, <1>2, <1>3, <1>4, <1>5, <1>6, <1>7 DEF Next

\* The colours, the call stack and the loop counters of bm_cycle_visit and
\* bm_exec_visit_node keep their types, for every graph.
THEOREM SearchType == Spec => []TypeOK
  BY TypeInit, TypeStep, PTL DEF Spec

\* The invariant holds before the search.
LEMMA InvInit == Init => SearchInv
  BY NAssumption DEF Init, Node, SearchInv, OpenCalls, CallChain, BehindIsDone, BlackIsOrdered,
         WhiteIsFresh, RootsVisited, ErrorMeansCycle, Settled, Top

-----------------------------------------------------------------------------
\* A cycle that was there stays there: the graph does not change.
LEMMA CycleStays ==
  ASSUME ErrorMeansCycle, succ' = succ, had_error' = had_error
  PROVE  ErrorMeansCycle'
  <1>1. \A n, d : Edge(n, d)' <=> Edge(n, d)
    BY DEF Edge
  <1> HIDE DEF Edge
  <1>2. CASE had_error
    <2>1. PICK S \in SUBSET Node : S # {} /\ \A n \in S : \E d \in S : Edge(n, d)
      BY <1>2 DEF ErrorMeansCycle
    <2>2. \A n \in S : \E d \in S : Edge(n, d)'
      BY <2>1, <1>1
    <2> QED
      BY <2>1, <2>2 DEF ErrorMeansCycle
  <1>3. CASE ~had_error
    BY <1>3 DEF ErrorMeansCycle
  <1> QED
    BY <1>2, <1>3

(* Starting a visit: from the outer loop or from an edge of the top call.  *)

\* The call path, after one more call.
LEMMA OpenPath ==
  ASSUME TypeOK, NEW n \in Node, path' = Append(path, n)
  PROVE  /\ Len(path') = Len(path) + 1
         /\ path'[Len(path) + 1] = n
         /\ \A i \in 1 .. Len(path) : path'[i] = path[i] /\ path[i] \in Node
         /\ path' # <<>>
  <1>1. path \in Seq(Node) /\ Len(path) \in Nat
    BY DEF TypeOK
  <1>2. Len(path') = Len(path) + 1 /\ path'[Len(path) + 1] = n
    BY <1>1
  <1>3. \A i \in 1 .. Len(path) : path'[i] = path[i] /\ path[i] \in Node
    BY <1>1
  <1> QED
    BY <1>1, <1>2, <1>3

\* A white root is visited.
LEMMA VisitRootKeeps == TypeOK /\ SearchInv /\ VisitRoot => SearchInv'
  <1> SUFFICES ASSUME TypeOK, SearchInv, VisitRoot PROVE SearchInv'
    OBVIOUS
  <1> DEFINE r == next_root
  <1>1. /\ r \in Node /\ colors[r] = White /\ path = <<>> /\ path' = <<r>>
        /\ colors' = [colors EXCEPT ![r] = Gray] /\ next_root' = r + 1
        /\ UNCHANGED <<succ, dep, had_error, finish, clock>>
    BY DEF VisitRoot, Open, TypeOK
  <1>2. /\ Len(path') = 1 /\ path'[1] = r /\ Len(path) = 0
    BY <1>1
  <1>3. OpenCalls'
    BY <1>1, <1>2 DEF OpenCalls, SearchInv, TypeOK
  <1>4. CallChain'
    BY <1>1, <1>2 DEF CallChain
  <1>5. BehindIsDone'
    BY <1>1, <1>2 DEF BehindIsDone, Settled, Top, SearchInv, WhiteIsFresh, TypeOK
  <1>6. BlackIsOrdered'
    BY <1>1 DEF BlackIsOrdered, SearchInv, TypeOK, Edge
  <1>7. WhiteIsFresh'
    BY <1>1 DEF WhiteIsFresh, SearchInv, TypeOK
  <1>8. RootsVisited'
    BY <1>1, NAssumption DEF RootsVisited, SearchInv, TypeOK, Node
  <1>9. ErrorMeansCycle'
    BY <1>1, CycleStays DEF SearchInv
  <1> QED
    BY <1>3, <1>4, <1>5, <1>6, <1>7, <1>8, <1>9 DEF SearchInv

\* A root that was visited already is passed over.
LEMMA SkipRootKeeps == TypeOK /\ SearchInv /\ SkipRoot => SearchInv'
  <1> SUFFICES ASSUME TypeOK, SearchInv, SkipRoot PROVE SearchInv'
    OBVIOUS
  <1>1. /\ next_root \in Node /\ colors[next_root] # White
        /\ next_root' = next_root + 1
        /\ UNCHANGED <<succ, colors, path, dep, had_error, finish, clock>>
    BY DEF SkipRoot
  <1>2. RootsVisited'
    <2> SUFFICES ASSUME NEW n \in Node, n < next_root + 1 PROVE colors[n] # White
      BY <1>1 DEF RootsVisited
    <2>1. n < next_root \/ n = next_root
      BY <1>1, NAssumption DEF Node
    <2> QED
      BY <1>1, <2>1 DEF RootsVisited, SearchInv
  <1>3. OpenCalls' /\ CallChain' /\ WhiteIsFresh'
    BY <1>1 DEF SearchInv, OpenCalls, CallChain, WhiteIsFresh
  <1>4. BehindIsDone'
    BY <1>1 DEF SearchInv, BehindIsDone, Settled, Top
  <1>5. BlackIsOrdered'
    <2>1. \A n, d : Edge(n, d)' <=> Edge(n, d)
      BY <1>1 DEF Edge
    <2> HIDE DEF Edge
    <2> QED
      BY <1>1, <2>1 DEF SearchInv, BlackIsOrdered
  <1>6. ErrorMeansCycle'
    BY <1>1, CycleStays DEF SearchInv
  <1> QED
    BY <1>2, <1>3, <1>4, <1>5, <1>6 DEF SearchInv

(***************************************************************************)
(* What the three edge steps share: the top call t looks at its dependency *)
(* number k, and afterwards at number k + 1.                               *)
(***************************************************************************)
LEMMA AtEdgeFacts ==
  ASSUME TypeOK, SearchInv, AtEdge
  PROVE  /\ Len(path) \in Nat /\ Len(path) >= 1
         /\ Top \in Node /\ Top = path[Len(path)]
         /\ dep[Top] \in 1 .. Len(succ[Top])
         /\ Len(succ[Top]) \in Nat
         /\ colors[Top] = Gray
         /\ Dependency \in Node \cup {Invalid}
         /\ Dependency \in Node => Edge(Top, Dependency)
         /\ \A i \in 1 .. Len(path) - 1 : path[i] # Top /\ path[i] \in Node
  <1>1. Len(path) \in Nat /\ Len(path) >= 1 /\ \A i \in 1 .. Len(path) : path[i] \in Node
    BY DEF TypeOK, AtEdge
  <1>2. Top \in Node /\ Top = path[Len(path)]
    BY <1>1 DEF Top
  <1>3. succ[Top] \in Seq(Node \cup {Invalid})
    BY <1>2 DEF TypeOK
  <1>4. dep[Top] \in 1 .. Len(succ[Top]) /\ Len(succ[Top]) \in Nat
    BY <1>2, <1>3 DEF TypeOK, AtEdge
  <1>5. Dependency \in Node \cup {Invalid} /\ (Dependency \in Node => Edge(Top, Dependency))
    BY <1>3, <1>4 DEF Dependency, Edge
  <1>6. colors[Top] = Gray
    BY <1>1, <1>2 DEF OpenCalls, SearchInv
  <1>7. \A i \in 1 .. Len(path) - 1 : path[i] # Top
    BY <1>1, <1>2 DEF OpenCalls, SearchInv
  <1> QED
    BY <1>1, <1>2, <1>4, <1>5, <1>6, <1>7

\* An edge to a black node, or to none, is passed over.
LEMMA SkipEdgeKeeps == TypeOK /\ SearchInv /\ SkipEdge => SearchInv'
  <1> SUFFICES ASSUME TypeOK, SearchInv, SkipEdge PROVE SearchInv'
    OBVIOUS
  <1> DEFINE t == Top
  <1>1. /\ AtEdge /\ dep' = [dep EXCEPT ![t] = @ + 1]
        /\ Dependency \in Node => colors[Dependency] = Black
        /\ UNCHANGED <<succ, colors, path, next_root, had_error, finish, clock>>
    BY DEF SkipEdge
  <1>2. /\ Len(path) \in Nat /\ Len(path) >= 1
        /\ t \in Node /\ t = path[Len(path)] /\ t' = t
        /\ dep[t] \in 1 .. Len(succ[t])
        /\ Len(succ[t]) \in Nat
        /\ colors[t] = Gray
        /\ \A i \in 1 .. Len(path) - 1 : path[i] # t /\ path[i] \in Node
    BY <1>1, AtEdgeFacts DEF Top
  <1>3. dep'[t] = dep[t] + 1 /\ \A n \in Node : n # t => dep'[n] = dep[n]
    BY <1>1, <1>2 DEF TypeOK
  <1> HIDE DEF t
  <1>4. CallChain'
    BY <1>1, <1>2, <1>3 DEF CallChain, SearchInv
  <1>5. BehindIsDone'
    <2> SUFFICES ASSUME ~had_error
                 PROVE  /\ \A i \in 1 .. Len(path) - 1 : Settled(path[i], dep[path[i]] - 1)'
                        /\ Settled(t, dep[t])'
      BY <1>1, <1>2 DEF BehindIsDone, t
    <2>1. \A i \in 1 .. Len(path) - 1 : Settled(path[i], dep[path[i]] - 1)
      BY DEF BehindIsDone, SearchInv
    <2>2. Settled(t, dep[t])
      BY <1>2 DEF BehindIsDone, SearchInv, t
    <2>3. \A i \in 1 .. Len(path) - 1 : Settled(path[i], dep[path[i]] - 1)'
      BY <2>1, <1>1, <1>2, <1>3, SMTT(30) DEF Settled
    <2>4. succ[t][dep[t]] \in Node =>
             colors[succ[t][dep[t]]] = Black /\ finish[succ[t][dep[t]]] <= clock
      BY <1>1, <1>2 DEF Dependency, t, BlackIsOrdered, SearchInv
    <2>5. Settled(t, dep[t])'
      BY <2>2, <2>4, <1>1, <1>2, <1>3, SMTT(30) DEF Settled
    <2> QED
      BY <2>3, <2>5
  <1>6. WhiteIsFresh'
    BY <1>1, <1>2, <1>3 DEF WhiteIsFresh, SearchInv
  <1>7. OpenCalls' /\ RootsVisited'
    BY <1>1 DEF SearchInv, OpenCalls, RootsVisited
  <1>8. BlackIsOrdered'
    BY <1>1 DEF SearchInv, BlackIsOrdered, Edge
  <1>9. ErrorMeansCycle'
    BY <1>1, CycleStays DEF SearchInv
  <1> QED
    BY <1>4, <1>5, <1>6, <1>7, <1>8, <1>9 DEF SearchInv

\* An edge to a gray node closes a cycle along the call path.
LEMMA ReportCycleKeeps == TypeOK /\ SearchInv /\ ReportCycle => SearchInv'
  <1> SUFFICES ASSUME TypeOK, SearchInv, ReportCycle PROVE SearchInv'
    OBVIOUS
  <1> DEFINE t == Top
             d == Dependency
  <1>1. /\ AtEdge /\ dep' = [dep EXCEPT ![t] = @ + 1]
        /\ d \in Node /\ colors[d] = Gray /\ had_error' = TRUE
        /\ UNCHANGED <<succ, colors, path, next_root, finish, clock>>
    BY DEF ReportCycle
  <1>2. /\ Len(path) \in Nat /\ Len(path) >= 1
        /\ t \in Node /\ t = path[Len(path)]
        /\ dep[t] \in 1 .. Len(succ[t])
        /\ colors[t] = Gray
        /\ Edge(t, d)
        /\ \A i \in 1 .. Len(path) - 1 : path[i] # t /\ path[i] \in Node
    BY <1>1, AtEdgeFacts
  <1>3. dep'[t] = dep[t] + 1 /\ \A n \in Node : n # t => dep'[n] = dep[n]
    BY <1>1, <1>2 DEF TypeOK
  <1> HIDE DEF t, d
  <1>4. CallChain'
    BY <1>1, <1>2, <1>3 DEF CallChain, SearchInv
  <1>5. PICK b \in 1 .. Len(path) : path[b] = d
    BY <1>1 DEF OpenCalls, SearchInv
  <1>6. ErrorMeansCycle'
    <2> DEFINE S == {path[i] : i \in b .. Len(path)}
    <2>0. b \in 1 .. Len(path) /\ Len(path) \in Nat /\ \A i \in 1 .. Len(path) : path[i] \in Node
      BY <1>2, <1>5 DEF TypeOK
    <2>1. S \in SUBSET Node /\ d \in S
      <3>1. \A i \in b .. Len(path) : path[i] \in Node
        BY <2>0
      <3>2. b \in b .. Len(path)
        BY <2>0
      <3> QED
        BY <3>1, <3>2, <1>5
    <2>2. \A n \in S : \E e \in S : Edge(n, e)
      <3> SUFFICES ASSUME NEW i \in b .. Len(path) PROVE \E e \in S : Edge(path[i], e)
        OBVIOUS
      <3>1. CASE i = Len(path)
        BY <3>1, <2>1, <1>2
      <3>2. CASE i # Len(path)
        <4>1. i \in 1 .. Len(path) - 1 /\ i + 1 \in b .. Len(path)
          BY <3>2, <1>2, <1>5
        <4>2. Edge(path[i], path[i + 1])
          BY <4>1 DEF CallChain, SearchInv, Edge
        <4> QED
          BY <4>1, <4>2
      <3> QED
        BY <3>1, <3>2
    <2>3. S # {}
      BY <2>1
    <2> HIDE DEF S
    <2> QED
      BY <1>1, <2>1, <2>2, <2>3 DEF ErrorMeansCycle, Edge
  <1>7. WhiteIsFresh'
    BY <1>1, <1>2, <1>3 DEF WhiteIsFresh, SearchInv
  <1>8. OpenCalls' /\ BlackIsOrdered' /\ RootsVisited' /\ BehindIsDone'
    BY <1>1 DEF SearchInv, OpenCalls, BlackIsOrdered, RootsVisited, BehindIsDone
  <1> QED
    BY <1>4, <1>6, <1>7, <1>8 DEF SearchInv

\* An edge to a white node is followed.
LEMMA VisitEdgeKeeps == TypeOK /\ SearchInv /\ VisitEdge => SearchInv'
  <1> SUFFICES ASSUME TypeOK, SearchInv, VisitEdge PROVE SearchInv'
    OBVIOUS
  <1> DEFINE t == Top
             d == Dependency
             L == Len(path)
  <1>1. /\ AtEdge /\ dep' = [dep EXCEPT ![t] = @ + 1]
        /\ d \in Node /\ colors[d] = White
        /\ colors' = [colors EXCEPT ![d] = Gray]
        /\ path' = Append(path, d)
        /\ UNCHANGED <<succ, next_root, had_error, finish, clock>>
    BY DEF VisitEdge, Open
  <1>2. /\ L \in Nat /\ L >= 1
        /\ t \in Node /\ t = path[L]
        /\ dep[t] \in 1 .. Len(succ[t])
        /\ Len(succ[t]) \in Nat
        /\ colors[t] = Gray
        /\ d = succ[t][dep[t]]
        /\ \A i \in 1 .. L - 1 : path[i] # t /\ path[i] \in Node
    BY <1>1, AtEdgeFacts DEF Dependency
  <1>3. dep'[t] = dep[t] + 1 /\ \A n \in Node : n # t => dep'[n] = dep[n]
    BY <1>1, <1>2 DEF TypeOK
  <1>4. /\ Len(path') = L + 1 /\ path'[L + 1] = d /\ path' # <<>>
        /\ \A i \in 1 .. L : path'[i] = path[i] /\ path[i] \in Node
    BY <1>1, OpenPath
  <1>5. colors'[d] = Gray /\ d # t /\ \A n \in Node : n # d => colors'[n] = colors[n]
    BY <1>1, <1>2 DEF TypeOK
  <1>6. Top' = d
    BY <1>2, <1>4 DEF Top
  <1>7. \A i \in 1 .. L : path[i] # d
    BY <1>1, <1>4 DEF OpenCalls, SearchInv
  <1> HIDE DEF t, d, L
  <1>8. OpenCalls'
    <2>1. ASSUME NEW n \in Node PROVE (colors[n] = Gray <=> \E i \in 1 .. Len(path) : path[i] = n)'
      <3>0. colors[n] = Gray <=> \E i \in 1 .. L : path[i] = n
        BY DEF OpenCalls, SearchInv, L
      <3>1. CASE n = d
        BY <3>1, <1>2, <1>4, <1>5
      <3>2. CASE n # d
        BY <3>0, <3>2, <1>2, <1>4, <1>5
      <3> QED
        BY <3>1, <3>2
    <2>2. ASSUME NEW i \in 1 .. L + 1, NEW j \in 1 .. L + 1, path'[i] = path'[j] PROVE i = j
      <3>1. \A p, q \in 1 .. L : path[p] = path[q] => p = q
        BY DEF OpenCalls, SearchInv, L
      <3> QED
        BY <2>2, <3>1, <1>2, <1>4, <1>7
    <2> QED
      BY <2>1, <2>2, <1>4 DEF OpenCalls
  <1>9. CallChain'
    <2> SUFFICES ASSUME NEW i \in 1 .. L
                 PROVE  /\ dep'[path[i]] - 1 \in 1 .. Len(succ[path[i]])
                        /\ succ[path[i]][dep'[path[i]] - 1] = path'[i + 1]
      BY <1>1, <1>2, <1>4 DEF CallChain
    <2>1. CASE i = L
      BY <2>1, <1>2, <1>3, <1>4, SMTT(30) DEF TypeOK
    <2>2. CASE i # L
      <3>1. i \in 1 .. L - 1 /\ i + 1 \in 1 .. L
        BY <2>2, <1>2
      <3>2. dep'[path[i]] = dep[path[i]] /\ path'[i + 1] = path[i + 1]
        BY <3>1, <1>2, <1>3, <1>4
      <3> QED
        BY <3>1, <3>2 DEF CallChain, SearchInv, L
    <2> QED
      BY <2>1, <2>2
  <1>10. \A n \in Node : colors[n] = Black => colors'[n] = Black
    BY <1>1, <1>5 DEF TypeOK
  <1>11. BehindIsDone'
    <2> DEFINE After(n, last) ==
          \A i \in 1 .. Len(succ[n]) :
              i < last /\ succ[n][i] \in Node =>
                  colors'[succ[n][i]] = Black /\ finish[succ[n][i]] <= clock
    <2> SUFFICES ASSUME ~had_error
                 PROVE  /\ \A i \in 1 .. L : After(path'[i], dep'[path'[i]] - 1)
                        /\ After(Top', dep'[Top'])
      <3>0. Len(path') - 1 = L
        BY <1>2, <1>4
      <3>1. Len(path') - 1 = L /\ succ' = succ /\ finish' = finish /\ clock' = clock /\ had_error' = had_error
        BY <1>1, <3>0
      <3>2. \A n, last : After(n, last) <=> \A i \in 1 .. Len(succ'[n]) :
              i < last /\ succ'[n][i] \in Node =>
                  colors'[succ'[n][i]] = Black /\ finish'[succ'[n][i]] <= clock'
        BY <3>1
      <3> HIDE DEF After
      <3> QED
        BY <3>1, <3>2 DEF BehindIsDone, Settled
    <2>1. \A i \in 1 .. L - 1 : Settled(path[i], dep[path[i]] - 1)
      BY DEF BehindIsDone, SearchInv, L
    <2>2. Settled(t, dep[t])
      BY <1>1 DEF BehindIsDone, SearchInv, t, AtEdge
    <2>3. ASSUME NEW i \in 1 .. L PROVE After(path'[i], dep'[path'[i]] - 1)
      <3>1. CASE i = L
        <4>1. path'[i] = t /\ dep'[t] - 1 = dep[t]
          BY <3>1, <1>2, <1>3, <1>4 DEF TypeOK
        <4> QED
          BY <4>1, <2>2, <1>10 DEF Settled
      <3>2. CASE i # L
        <4>1. i \in 1 .. L - 1 /\ path'[i] = path[i] /\ dep'[path[i]] = dep[path[i]]
          BY <3>2, <1>2, <1>3, <1>4
        <4>2. Settled(path[i], dep[path[i]] - 1)
          BY <4>1, <2>1
        <4> QED
          BY <4>1, <4>2, <1>10 DEF Settled
      <3> QED
        BY <3>1, <3>2
    <2>4. After(Top', dep'[Top'])
      <3>1. dep'[d] = 1
        BY <1>1, <1>3, <1>5 DEF WhiteIsFresh, SearchInv
      <3> QED
        BY <3>1, <1>1, <1>6 DEF TypeOK
    <2> QED
      BY <2>3, <2>4
  <1>12. BlackIsOrdered'
    BY <1>1, <1>5, <1>10 DEF BlackIsOrdered, SearchInv, TypeOK, Edge
  <1>13. WhiteIsFresh'
    BY <1>1, <1>2, <1>3, <1>5 DEF WhiteIsFresh, SearchInv
  <1>14. RootsVisited'
    BY <1>1, <1>5 DEF RootsVisited, SearchInv
  <1>15. ErrorMeansCycle'
    BY <1>1, CycleStays DEF SearchInv
  <1> QED
    BY <1>8, <1>9, <1>11, <1>12, <1>13, <1>14, <1>15 DEF SearchInv

\* A node whose edges are all followed becomes black.
LEMMA ReturnKeeps == TypeOK /\ SearchInv /\ Return => SearchInv'
  <1> SUFFICES ASSUME TypeOK, SearchInv, Return PROVE SearchInv'
    OBVIOUS
  <1> DEFINE t == Top
             L == Len(path)
  <1>1. /\ path # <<>> /\ dep[t] > Len(succ[t])
        /\ colors' = [colors EXCEPT ![t] = Black]
        /\ path' = [i \in 1 .. L - 1 |-> path[i]]
        /\ clock' = clock + 1
        /\ finish' = [finish EXCEPT ![t] = clock + 1]
        /\ UNCHANGED <<succ, dep, next_root, had_error>>
    BY DEF Return
  <1>2. L \in Nat /\ L >= 1 /\ t = path[L] /\ \A i \in 1 .. L : path[i] \in Node
    BY <1>1 DEF TypeOK, Top
  <1>3. t \in Node /\ colors[t] = Gray /\ \A i \in 1 .. L - 1 : path[i] # t
    BY <1>2 DEF OpenCalls, SearchInv
  <1>4. Len(path') = L - 1 /\ \A i \in 1 .. L - 1 : path'[i] = path[i]
    BY <1>1, <1>2 DEF TypeOK
  <1>5. colors'[t] = Black /\ \A n \in Node : n # t => colors'[n] = colors[n]
    BY <1>1, <1>3 DEF TypeOK
  <1>6. /\ finish'[t] = clock + 1 /\ \A n \in Node : n # t => finish'[n] = finish[n]
        /\ clock \in Nat /\ finish \in [Node -> Nat] /\ finish'[t] \in Nat
    BY <1>1, <1>3 DEF TypeOK
  <1>7. path' # <<>> => L - 1 \in 1 .. L - 1 /\ Top' = path[L - 1]
    BY <1>2, <1>4, <1>1 DEF Top, TypeOK
  <1>8. succ[t] \in Seq(Node \cup {Invalid}) /\ Len(succ[t]) \in Nat /\ dep[t] \in Nat
    BY <1>3 DEF TypeOK
  <1> HIDE DEF t, L
  <1>9. OpenCalls'
    <2>1. \A n \in Node : colors[n] = Gray <=> \E i \in 1 .. L : path[i] = n
      BY DEF OpenCalls, SearchInv, L
    <2>2. \A p, q \in 1 .. L : path[p] = path[q] => p = q
      BY DEF OpenCalls, SearchInv, L
    <2>3. ASSUME NEW n \in Node PROVE colors'[n] = Gray <=> \E i \in 1 .. L - 1 : path'[i] = n
      <3>1. CASE n = t
        BY <3>1, <1>2, <1>3, <1>4, <1>5
      <3>2. CASE n # t
        BY <3>2, <2>1, <1>2, <1>4, <1>5
      <3> QED
        BY <3>1, <3>2
    <2>4. \A i, j \in 1 .. L - 1 : path'[i] = path'[j] => i = j
      BY <2>2, <1>2, <1>4
    <2> QED
      BY <2>3, <2>4, <1>4 DEF OpenCalls
  <1>10. CallChain'
    <2>1. \A i \in 1 .. L - 2 : i \in 1 .. L - 1 /\ i + 1 \in 1 .. L - 1
      BY <1>2
    <2>2. ASSUME NEW i \in 1 .. L - 2
          PROVE  /\ dep[path'[i]] - 1 \in 1 .. Len(succ[path'[i]])
                 /\ succ[path'[i]][dep[path'[i]] - 1] = path'[i + 1]
      <3>1. path'[i] = path[i] /\ path'[i + 1] = path[i + 1] /\ i \in 1 .. L - 1
        BY <2>1, <1>4
      <3> QED
        BY <3>1 DEF CallChain, SearchInv, L
    <2>3. Len(path') - 1 = L - 2 /\ succ' = succ /\ dep' = dep
      BY <1>1, <1>2, <1>4
    <2> QED
      BY <2>2, <2>3 DEF CallChain
  <1>11. \A n \in Node : colors[n] = Black => n # t /\ colors'[n] = Black /\ finish'[n] = finish[n]
    BY <1>3, <1>5, <1>6
  <1>12. BehindIsDone'
    <2> DEFINE After(n, last) ==
          \A i \in 1 .. Len(succ[n]) :
              i < last /\ succ[n][i] \in Node =>
                  colors'[succ[n][i]] = Black /\ finish'[succ[n][i]] <= clock'
    <2> SUFFICES ASSUME ~had_error
                 PROVE  /\ \A i \in 1 .. L - 2 : After(path'[i], dep[path'[i]] - 1)
                        /\ path' # <<>> => After(Top', dep[Top'])
      <3>1. Len(path') - 1 = L - 2 /\ succ' = succ /\ dep' = dep /\ had_error' = had_error
        BY <1>1, <1>2, <1>4
      <3>2. \A n, last : After(n, last) <=> \A i \in 1 .. Len(succ'[n]) :
              i < last /\ succ'[n][i] \in Node =>
                  colors'[succ'[n][i]] = Black /\ finish'[succ'[n][i]] <= clock'
        BY <3>1
      <3> HIDE DEF After
      <3> QED
        BY <3>1, <3>2 DEF BehindIsDone, Settled
    <2>1. \A i \in 1 .. L - 1 : Settled(path[i], dep[path[i]] - 1)
      BY DEF BehindIsDone, SearchInv, L
    <2>2. ASSUME NEW n, NEW k, Settled(n, k) PROVE After(n, k)
      <3> SUFFICES ASSUME NEW i \in 1 .. Len(succ[n]), i < k, succ[n][i] \in Node
                   PROVE  colors'[succ[n][i]] = Black /\ finish'[succ[n][i]] <= clock'
        OBVIOUS
      <3>1. colors[succ[n][i]] = Black /\ finish[succ[n][i]] <= clock
        BY <2>2 DEF Settled
      <3> QED
        BY <3>1, <1>1, <1>6, <1>11
    <2>3. ASSUME NEW i \in 1 .. L - 2 PROVE After(path'[i], dep[path'[i]] - 1)
      <3>1. i \in 1 .. L - 1 /\ path'[i] = path[i]
        BY <1>2, <1>4
      <3>2. Settled(path[i], dep[path[i]] - 1)
        BY <3>1, <2>1
      <3>3. After(path[i], dep[path[i]] - 1)
        BY <3>2, <2>2
      <3> QED
        BY <3>1, <3>3
    <2>4. ASSUME path' # <<>> PROVE After(Top', dep[Top'])
      <3>1. PICK p \in Node : p = path[L - 1] /\ p = Top' /\ L - 1 \in 1 .. L - 1
        BY <2>4, <1>2, <1>7
      <3>2. Settled(p, dep[p] - 1) /\ succ[p][dep[p] - 1] = t /\ dep[p] \in Nat
        <4>1. (L - 1) + 1 = L
          BY <1>2
        <4> QED
          BY <3>1, <4>1, <2>1, <1>2 DEF CallChain, SearchInv, L, TypeOK
      <3>3. After(p, dep[p] - 1)
        BY <3>2, <2>2
      <3>4. colors'[t] = Black /\ finish'[t] <= clock'
        BY <1>1, <1>5, <1>6
      <3>5. ASSUME NEW j \in 1 .. Len(succ[p]), j < dep[p], succ[p][j] \in Node
            PROVE  colors'[succ[p][j]] = Black /\ finish'[succ[p][j]] <= clock'
        <4>1. CASE j < dep[p] - 1
          BY <4>1, <3>3, <3>5
        <4>2. CASE j = dep[p] - 1
          BY <4>2, <3>2, <3>4
        <4> QED
          BY <3>2, <3>5, <4>1, <4>2
      <3> QED
        BY <3>1, <3>5
    <2> QED
      BY <2>3, <2>4
  <1>14. BlackIsOrdered'
    <2> SUFFICES ASSUME NEW n \in Node, colors'[n] = Black
                 PROVE  /\ finish'[n] <= clock'
                        /\ ~had_error => \A d \in Node : Edge(n, d) => colors'[d] = Black /\ finish'[d] < finish'[n]
      BY <1>1 DEF BlackIsOrdered, Edge
    <2>1. CASE n = t
      <3>1. finish'[n] <= clock'
        BY <2>1, <1>1, <1>6
      <3>2. ASSUME ~had_error, NEW d \in Node, Edge(n, d)
            PROVE  colors'[d] = Black /\ finish'[d] < finish'[n]
        <4>1. Settled(t, dep[t])
          BY <3>2, <1>1 DEF BehindIsDone, SearchInv, t
        <4>2. PICK i \in 1 .. Len(succ[t]) : succ[t][i] = d
          BY <3>2, <2>1 DEF Edge
        <4>3. i < dep[t]
          BY <4>2, <1>1, <1>8
        <4>4. colors[d] = Black /\ finish[d] <= clock
          BY <4>1, <4>2, <4>3 DEF Settled
        <4> QED
          BY <4>4, <2>1, <1>6, <1>11
      <3> QED
        BY <3>1, <3>2
    <2>2. CASE n # t
      <3>1. colors[n] = Black /\ finish'[n] = finish[n]
        BY <2>2, <1>5, <1>6
      <3>2. finish[n] <= clock /\ (~had_error => \A d \in Node : Edge(n, d) => colors[d] = Black /\ finish[d] < finish[n])
        BY <3>1 DEF BlackIsOrdered, SearchInv
      <3> QED
        BY <3>1, <3>2, <1>1, <1>6, <1>11
    <2> QED
      BY <2>1, <2>2
  <1>15. WhiteIsFresh'
    BY <1>1, <1>3, <1>5 DEF WhiteIsFresh, SearchInv
  <1>16. RootsVisited'
    BY <1>1, <1>3, <1>5 DEF RootsVisited, SearchInv
  <1>17. ErrorMeansCycle'
    BY <1>1, CycleStays DEF SearchInv
  <1> QED
    BY <1>9, <1>10, <1>12, <1>14, <1>15, <1>16, <1>17 DEF SearchInv

-----------------------------------------------------------------------------
\* Every step of the search keeps the invariant.
LEMMA InvStep == TypeOK /\ SearchInv /\ [Next]_vars => SearchInv'
  <1> SUFFICES ASSUME TypeOK, SearchInv, [Next]_vars PROVE SearchInv'
    OBVIOUS
  <1>1. CASE UNCHANGED vars
    <2>1. OpenCalls' /\ CallChain' /\ WhiteIsFresh' /\ RootsVisited'
      BY <1>1 DEF vars, SearchInv, OpenCalls, CallChain, WhiteIsFresh, RootsVisited
    <2>2. BehindIsDone'
      BY <1>1 DEF vars, SearchInv, BehindIsDone, Settled, Top
    <2>3. BlackIsOrdered'
      BY <1>1 DEF vars, SearchInv, BlackIsOrdered, Edge
    <2>4. ErrorMeansCycle'
      BY <1>1, CycleStays DEF vars, SearchInv
    <2> QED
      BY <2>1, <2>2, <2>3, <2>4 DEF SearchInv
  <1> QED
    BY <1>1, VisitRootKeeps, SkipRootKeeps, ReportCycleKeeps, SkipEdgeKeeps,
       VisitEdgeKeeps, ReturnKeeps DEF Next

\* When the search is over without an error, its finishing order is a topological one.
LEMMA DoneIsOrdered == TypeOK /\ SearchInv => SilenceMeansOrder
  <1> SUFFICES ASSUME TypeOK, SearchInv, Done, ~had_error,
                      NEW n \in Node, NEW d \in Node, Edge(n, d)
               PROVE  finish[d] < finish[n]
    BY DEF SilenceMeansOrder
  <1>1. colors[n] # White
    BY NAssumption DEF Done, RootsVisited, SearchInv, Node
  <1>2. colors[n] # Gray
    BY DEF Done, OpenCalls, SearchInv
  <1>3. colors[n] = Black
    BY <1>1, <1>2 DEF TypeOK
  <1> QED
    BY <1>3 DEF BlackIsOrdered, SearchInv

(***************************************************************************)
(* The colours, the open calls and the finished nodes stay in step         *)
(* (bm_cycle_visit, bm_exec_visit_node).                                   *)
(***************************************************************************)
THEOREM SearchInvariant == Spec => []SearchInv
  BY SearchType, InvInit, InvStep, PTL DEF Spec

(***************************************************************************)
(* For every graph: a search that reports nothing has met every dependency *)
(* before what depends on it, so a draft that passes                       *)
(* bm_validate_explicit_cycles, and a model that passes                    *)
(* bm_validate_execution_cycles, can be built in some order.               *)
(***************************************************************************)
THEOREM NoCycleMissed == Spec => []SilenceMeansOrder
  BY SearchType, SearchInvariant, DoneIsOrdered, PTL

(***************************************************************************)
(* For every graph: a reported cycle is there.                             *)
(***************************************************************************)
THEOREM NoCycleInvented == Spec => []ErrorMeansCycle
  <1>1. SearchInv => ErrorMeansCycle
    BY DEF SearchInv
  <1> QED
    BY <1>1, SearchInvariant, PTL
=============================================================================
