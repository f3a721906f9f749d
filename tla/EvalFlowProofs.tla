---------------------------- MODULE EvalFlowProofs ----------------------------
(***************************************************************************)
(* A return() is consumed by the function or the file it returns from, for *)
(* every script without loops, of any length and depth, with every error,  *)
(* fatal result, stray policy pop and rejected file in between.            *)
(*                                                                         *)
(* A loop looks for the signal at an address taken before its body ran;    *)
(* what that address is after a fatal result or a move of the array is     *)
(* another matter, so loops are left to TLC.                               *)
(***************************************************************************)
EXTENDS EvalFlow, TLAPS

Kinds == {"root", "free", "block"} \cup Files \cup Calls

\* A context while no loop runs.
Contexts == [kind : Kinds, flow : {"none", "return"}, loops : {0}]

\* The contexts that were asked to return are the ones on top, and all but
\* the lowest of them are blocks.
Returns(m, n) ==
    \A i \in 1..n : m[1][i].flow = "return" =>
      \A j \in (i + 1)..n : m[1][j].kind = "block" /\ m[1][j].flow = "return"

\* None was asked.
Quiet(m, n) == \A i \in 1..n : m[1][i].flow # "return"

\* exec_contexts and its count: one array, which never moved.
Array(m, n) ==
    /\ m \in Seq(Seq(Contexts)) /\ Len(m) = 1
    /\ m[1] # <<>>
    /\ n \in 0..Len(m[1])

Good(m, n) == Array(m, n) /\ Returns(m, n)

\* An activation has its fields.
Shape(t) ==
    t = [op |-> t.op, ptr |-> t.ptr, left |-> t.left, err |-> t.err, depth |-> t.depth,
         snap |-> t.snap, open |-> t.open, pushes |-> t.pushes]

\* The root is at the bottom of the C stack, and no loop is on it.
Activations(st) ==
    /\ st \in Seq({st[i] : i \in DOMAIN st})
    /\ st # <<>> /\ st[1].op = "root"
    /\ \A i \in DOMAIN st : Shape(st[i]) /\ st[i].op \notin Loops

\* The inductive invariant.
FlowInv ==
    /\ script \in Scripts /\ script.nodes \cap Loops = {}
    /\ Activations(stack)
    /\ Good(mem, count)
    /\ pc = "run" => Quiet(mem, count)
    /\ pc # "test"

-----------------------------------------------------------------------------
(* The C stack.                                                            *)

\* An error diagnostic marks activations and pushes or pops none.
LEMMA ErrorActivations ==
  ASSUME NEW st, Activations(st), EmitError(st)
  PROVE  Activations(stack')
<1> DEFINE f(i) == [st[i] EXCEPT !.err = (st[i].op \in Files \cup Calls)]
<1>1. stack' = [i \in DOMAIN st |-> f(i)] BY DEF EmitError
<1>2. PICK n \in Nat : DOMAIN st = 1..n /\ n # 0 BY DEF Activations
<1>3. \A i \in 1..n : Shape(f(i)) /\ f(i).op = st[i].op BY <1>2 DEF Activations, Shape
<1> HIDE DEF f
<1>4. DOMAIN stack' = 1..n /\ \A i \in 1..n : stack'[i] = f(i) BY <1>1, <1>2
<1>5. stack' \in Seq({stack'[i] : i \in DOMAIN stack'})
  <2> DEFINE S == {stack'[i] : i \in DOMAIN stack'}
  <2>1. \A i \in 1..n : f(i) \in S BY <1>4
  <2> HIDE DEF S
  <2>2. [i \in 1..n |-> f(i)] \in Seq(S) BY <2>1
  <2> QED BY <1>1, <1>2, <2>2 DEF S
<1> QED BY <1>2, <1>3, <1>4, <1>5 DEF Activations

\* Counting an opened or closed block or policy level keeps the activations.
LEMMA CountActivations ==
  ASSUME NEW st, Activations(st), NEW x
  PROVE  /\ Activations([st EXCEPT ![Len(st)].open = x])
         /\ Activations([st EXCEPT ![Len(st)].pushes = x])
<1> DEFINE n == Len(st)
<1>1. n \in Nat /\ n # 0 /\ DOMAIN st = 1..n BY DEF Activations
<1>2. ASSUME NEW v, Shape(v), v.op = st[n].op, NEW q, q = [st EXCEPT ![n] = v] PROVE Activations(q)
  <2>1. DOMAIN q = 1..n /\ \A i \in 1..n : q[i] = IF i = n THEN v ELSE st[i] BY <1>1, <1>2
  <2>2. q \in Seq({q[i] : i \in DOMAIN q})
    <3> DEFINE S == {q[i] : i \in DOMAIN q}
    <3>1. \A i \in 1..n : q[i] \in S BY <2>1
    <3> HIDE DEF S
    <3>2. [i \in 1..n |-> q[i]] \in Seq(S) BY <1>1, <3>1
    <3>3. q = [i \in 1..n |-> q[i]] BY <1>2, <2>1
    <3> QED BY <3>2, <3>3 DEF S
  <2>3. 1 \in DOMAIN q
    <3>1. 1 \in 1..n BY <1>1
    <3>2. DOMAIN q = 1..n BY <2>1
    <3> HIDE DEF n
    <3> QED BY <3>1, <3>2
  <2>4. q # <<>> BY <2>3
  <2>5. q[1].op = "root" BY <1>1, <1>2, <2>1 DEF Activations
  <2>6. ASSUME NEW i \in DOMAIN q PROVE Shape(q[i]) /\ q[i].op \notin Loops
    <3>1. CASE i = n BY <1>1, <1>2, <2>1, <3>1 DEF Activations
    <3>2. CASE i # n BY <1>1, <2>1, <3>2 DEF Activations
    <3> QED BY <3>1, <3>2
  <2> QED BY <2>2, <2>4, <2>5, <2>6 DEF Activations
<1>3. Shape(st[n]) BY <1>1 DEF Activations
<1>4. Shape([st[n] EXCEPT !.open = x]) /\ [st[n] EXCEPT !.open = x].op = st[n].op BY <1>3 DEF Shape
<1>5. Shape([st[n] EXCEPT !.pushes = x]) /\ [st[n] EXCEPT !.pushes = x].op = st[n].op BY <1>3 DEF Shape
<1>6. [st EXCEPT ![n].open = x] = [st EXCEPT ![n] = [st[n] EXCEPT !.open = x]] OBVIOUS
<1>7. [st EXCEPT ![n].pushes = x] = [st EXCEPT ![n] = [st[n] EXCEPT !.pushes = x]] OBVIOUS
<1> QED BY <1>2, <1>4, <1>5, <1>6, <1>7

\* Entering a construct that is not a loop.
LEMMA EnterActivations ==
  ASSUME Activations(stack), NEW kind, kind \notin Loops
  PROVE  Activations(Append(stack, Op(kind)))
<1> DEFINE n == Len(stack)
           S == {stack[i] : i \in DOMAIN stack}
           v == Op(kind)
           q == Append(stack, v)
<1>1. n \in Nat /\ n # 0 /\ DOMAIN stack = 1..n BY DEF Activations
<1>2. Shape(v) /\ v.op = kind BY DEF Shape, Op
<1> HIDE DEF v
<1>3. stack \in Seq(S \cup {v})
  <2>1. stack \in Seq(S) BY DEF Activations
  <2> HIDE DEF S
  <2> QED BY <2>1
<1>4. q \in Seq(S \cup {v}) /\ Len(q) = n + 1 /\ q[n + 1] = v /\ \A i \in 1..n : q[i] = stack[i]
  <2> HIDE DEF S
  <2> QED BY <1>3
<1> HIDE DEF q
<1>5. DOMAIN q = 1..(n + 1) BY <1>4
<1>6. q \in Seq({q[i] : i \in DOMAIN q})
  <2> DEFINE T == {q[i] : i \in DOMAIN q}
  <2>1. \A i \in 1..(n + 1) : q[i] \in T BY <1>5
  <2> HIDE DEF T
  <2>2. [i \in 1..(n + 1) |-> q[i]] \in Seq(T) BY <1>1, <2>1
  <2>3. q = [i \in 1..(n + 1) |-> q[i]] BY <1>4, <1>5
  <2> QED BY <2>2, <2>3 DEF T
<1>7. \A i \in DOMAIN q : Shape(q[i]) /\ q[i].op \notin Loops BY <1>1, <1>2, <1>4, <1>5 DEF Activations
<1>8. q # <<>> /\ q[1].op = "root" BY <1>1, <1>4, <1>5 DEF Activations
<1> QED BY <1>6, <1>7, <1>8 DEF Activations, q, v

\* Leaving one that is not the root.
LEMMA LeaveActivations ==
  ASSUME Activations(stack), Top.op # "root"
  PROVE  Activations(Front(stack))
<1> DEFINE n == Len(stack)
           q == Front(stack)
<1>1. n \in Nat /\ n # 0 /\ DOMAIN stack = 1..n BY DEF Activations
<1>2. n # 1 BY <1>1 DEF Activations, Top, Last
<1>3. q = [i \in 1..(n - 1) |-> stack[i]]
  <2>1. q = SubSeq(stack, 1, n - 1) BY DEF Front
  <2>2. stack \in Seq({stack[i] : i \in DOMAIN stack}) BY DEF Activations
  <2> QED BY <1>1, <1>2, <2>1, <2>2
<1> HIDE DEF q
<1>4. DOMAIN q = 1..(n - 1) /\ \A i \in 1..(n - 1) : q[i] = stack[i] BY <1>3
<1>5. q \in Seq({q[i] : i \in DOMAIN q})
  <2> DEFINE T == {q[i] : i \in DOMAIN q}
  <2>1. \A i \in 1..(n - 1) : stack[i] \in T BY <1>4
  <2> HIDE DEF T
  <2>2. [i \in 1..(n - 1) |-> stack[i]] \in Seq(T) BY <1>1, <1>2, <2>1
  <2> QED BY <1>3, <2>2 DEF T
<1>6. q # <<>> /\ q[1].op = "root" BY <1>1, <1>2, <1>4 DEF Activations
<1>7. \A i \in DOMAIN q : Shape(q[i]) /\ q[i].op \notin Loops BY <1>1, <1>2, <1>4 DEF Activations
<1>8. Activations(q) BY <1>5, <1>6, <1>7 DEF Activations
<1> QED BY <1>8 DEF q

-----------------------------------------------------------------------------
(* The execution contexts.                                                 *)

\* Another array in the place of the first.
LEMMA ReplaceArray ==
  ASSUME NEW m \in Seq(Seq(Contexts)), Len(m) = 1, NEW a \in Seq(Contexts)
  PROVE  LET q == [m EXCEPT ![Len(m)] = a] IN q \in Seq(Seq(Contexts)) /\ Len(q) = 1 /\ q[1] = a
OBVIOUS

\* The array that is in use.
LEMMA TheArray ==
  ASSUME NEW m, NEW n, Array(m, n)
  PROVE  /\ m[1] \in Seq(Contexts) /\ Len(m) = 1 /\ m[1] # <<>>
         /\ Len(m[1]) \in Nat /\ Len(m[1]) # 0 /\ DOMAIN m[1] = 1..Len(m[1])
         /\ n \in Nat /\ n \in 0..Len(m[1])
         /\ \A i \in 1..Len(m[1]) : m[1][i] \in Contexts
<1>1. m \in Seq(Seq(Contexts)) /\ Len(m) = 1 /\ m[1] # <<>> /\ n \in 0..Len(m[1]) BY DEF Array
<1>2. m[1] \in Seq(Contexts) BY <1>1
<1> HIDE DEF Contexts
<1> QED BY <1>1, <1>2

\* Popping down to n.
LEMMA PopContexts ==
  ASSUME NEW m, NEW n, Good(m, n), NEW k \in 0..n, PopTo(m, k)
  PROVE  Good(mem', count') /\ (Quiet(m, n) => Quiet(mem', count'))
<1> DEFINE a == m[1]
           b == [i \in DOMAIN a |-> IF i > k /\ a[i].loops = 0 THEN Context("free") ELSE a[i]]
<1>1. a \in Seq(Contexts) /\ Len(m) = 1 /\ n \in 0..Len(a) /\ a # <<>> BY TheArray DEF Good
<1>2. Context("free") \in Contexts BY DEF Context, Contexts, Kinds
<1>3. b \in Seq(Contexts) /\ Len(b) = Len(a) BY <1>1, <1>2
<1>4. \A i \in 1..k : b[i] = a[i] BY <1>1
<1>5. count' = k /\ mem' = [m EXCEPT ![Len(m)] = b] BY <1>1 DEF PopTo
<1>6. b # <<>> BY <1>1, <1>3
<1> HIDE DEF b
<1>7. mem' \in Seq(Seq(Contexts)) /\ Len(mem') = 1 /\ mem'[1] = b BY <1>3, <1>5, ReplaceArray DEF Good, Array
<1>8. Array(mem', count') BY <1>1, <1>3, <1>5, <1>6, <1>7 DEF Array
<1>9. Returns(mem', count') BY <1>1, <1>4, <1>5, <1>7 DEF Good, Returns
<1> QED BY <1>1, <1>4, <1>5, <1>7, <1>8, <1>9 DEF Good, Quiet

\* A shorter stack of contexts.
LEMMA FewerContexts ==
  ASSUME NEW m, NEW n, Good(m, n), NEW k \in 0..n
  PROVE  Good(m, k)
BY DEF Good, Array, Returns

\* eval_clear_return_state and the pop after it.
LEMMA ClearContexts ==
  ASSUME NEW m, NEW n, Good(m, n)
  PROVE  Good(ClearReturn(m, n), eval_exec_pop(n))
<1>1. n \in Nat /\ eval_exec_pop(n) \in 0..n BY DEF Good, Array, eval_exec_pop
<1>2. CASE ClearReturn(m, n) = m BY <1>1, <1>2, FewerContexts
<1>3. CASE n > 0 /\ ClearReturn(m, n) = [m EXCEPT ![Len(m)][n].flow = "none"]
  <2> DEFINE a == m[1]
             b == [a EXCEPT ![n].flow = "none"]
  <2>1. a \in Seq(Contexts) /\ Len(m) = 1 /\ n \in 1..Len(a) /\ a # <<>> BY <1>1, <1>3, TheArray DEF Good
  <2>2. a[n] \in Contexts BY <2>1
  <2>3. [a[n] EXCEPT !.flow = "none"] \in Contexts BY <2>2 DEF Contexts
  <2>4. b \in Seq(Contexts) /\ Len(b) = Len(a) /\ \A i \in 1..(n - 1) : b[i] = a[i] BY <2>1, <2>3
  <2>5. ClearReturn(m, n) = [m EXCEPT ![Len(m)] = b] BY <1>3, <2>1
  <2>6. b # <<>> BY <2>1, <2>4
  <2> HIDE DEF b
  <2>7. ClearReturn(m, n) \in Seq(Seq(Contexts)) /\ Len(ClearReturn(m, n)) = 1 /\ ClearReturn(m, n)[1] = b
    BY <2>4, <2>5, ReplaceArray DEF Good, Array
  <2>8. eval_exec_pop(n) = n - 1 BY <1>3 DEF eval_exec_pop
  <2>9. Array(ClearReturn(m, n), n - 1) BY <1>1, <1>3, <2>1, <2>4, <2>6, <2>7 DEF Array
  <2>10. Returns(ClearReturn(m, n), n - 1)
    <3> SUFFICES ASSUME NEW i \in 1..(n - 1), b[i].flow = "return", NEW j \in (i + 1)..(n - 1)
                 PROVE  b[j].kind = "block" /\ b[j].flow = "return"
      BY <2>7 DEF Returns
    <3>1. i \in 1..n /\ j \in (i + 1)..n /\ j \in 1..(n - 1) BY <1>1, <1>3
    <3>2. a[i].flow = "return" BY <2>4
    <3>3. a[j].kind = "block" /\ a[j].flow = "return" BY <3>1, <3>2 DEF Good, Returns
    <3> QED BY <2>4, <3>1, <3>3
  <2> QED BY <2>8, <2>9, <2>10 DEF Good
<1> QED BY <1>2, <1>3 DEF ClearReturn

\* eval_exec_request_return marks the blocks on top and the context below.
LEMMA RequestContexts ==
  ASSUME NEW m, NEW n, Good(m, n)
  PROVE  Good(eval_exec_request_return(m, n), n)
<1> DEFINE a == m[1]
           marked == {i \in 1..n : \A j \in (i + 1)..n : a[j].kind = "block"}
           b == [i \in DOMAIN a |-> IF i \in marked THEN [a[i] EXCEPT !.flow = "return"] ELSE a[i]]
           r == eval_exec_request_return(m, n)
<1>1. a \in Seq(Contexts) /\ Len(m) = 1 /\ n \in 0..Len(a) /\ a # <<>> BY TheArray DEF Good
<1>2. \A i \in DOMAIN a : a[i] \in Contexts BY <1>1
<1>3. \A i \in DOMAIN a : [a[i] EXCEPT !.flow = "return"] \in Contexts BY <1>2 DEF Contexts
<1>4. b \in Seq(Contexts) /\ Len(b) = Len(a) BY <1>1, <1>2, <1>3
<1>5. r = [m EXCEPT ![Len(m)] = b] BY <1>1 DEF eval_exec_request_return
<1>6. \A i \in 1..n : b[i].kind = a[i].kind /\ b[i].flow = IF i \in marked THEN "return" ELSE a[i].flow
  BY <1>1, <1>2 DEF Contexts
<1>7. b # <<>> BY <1>1, <1>4
<1> HIDE DEF b
<1>8. r \in Seq(Seq(Contexts)) /\ Len(r) = 1 /\ r[1] = b BY <1>4, <1>5, ReplaceArray DEF Good, Array
<1> HIDE DEF r
<1>9. Array(r, n) BY <1>1, <1>4, <1>7, <1>8 DEF Array
<1>10. ASSUME NEW i \in 1..n, b[i].flow = "return" PROVE i \in marked
  BY <1>6, <1>10, <1>1 DEF Good, Returns
<1>11. \A i \in marked : \A j \in (i + 1)..n : j \in marked BY <1>1
<1>12. Returns(r, n)
  <2> SUFFICES ASSUME NEW i \in 1..n, b[i].flow = "return", NEW j \in (i + 1)..n
               PROVE  b[j].kind = "block" /\ b[j].flow = "return"
    BY <1>8 DEF Returns
  <2>1. i \in marked /\ j \in marked /\ j \in 1..n BY <1>1, <1>10, <1>11
  <2>2. a[j].kind = "block" BY <2>1
  <2> HIDE DEF marked
  <2> QED BY <1>6, <2>1, <2>2
<1> QED BY <1>9, <1>12 DEF Good, r

\* A new context, while nothing is asked to return.
LEMMA PushContexts ==
  ASSUME Good(mem, count), Quiet(mem, count), Activations(stack),
         NEW kind \in Kinds, eval_exec_push(kind)
  PROVE  Good(mem', count') /\ Quiet(mem', count')
<1> DEFINE a == mem[1]
           c == Context(kind)
<1>1. a \in Seq(Contexts) /\ Len(mem) = 1 /\ count \in 0..Len(a) /\ a # <<>> /\ Cur = a
  BY TheArray DEF Good, Cur
<1>2. c \in Contexts /\ Context("free") \in Contexts /\ c.flow = "none" BY DEF Context, Contexts, Kinds
<1> HIDE DEF c
<1>3. count' = count + 1 BY DEF eval_exec_push
<1>4. ~ \E i \in DOMAIN stack : stack[i].op \in Loops BY DEF Activations
<1>5. ASSUME NEW b, b \in Seq(Contexts), count + 1 <= Len(b), b[count + 1] = c,
             \A i \in 1..count : b[i] = a[i], mem' = [mem EXCEPT ![Len(mem)] = b]
      PROVE  Good(mem', count') /\ Quiet(mem', count')
  <2>1. mem' \in Seq(Seq(Contexts)) /\ Len(mem') = 1 /\ mem'[1] = b
    BY <1>5, ReplaceArray DEF Good, Array
  <2>2. ASSUME NEW i \in 1..count' PROVE mem'[1][i].flow # "return"
    <3>1. CASE i = count + 1 BY <1>2, <1>5, <2>1, <3>1
    <3>2. CASE i # count + 1
      <4>1. i \in 1..count BY <1>1, <1>3, <3>2
      <4>2. b[i] = a[i] BY <1>5, <4>1
      <4>3. a[i].flow # "return" BY <4>1 DEF Quiet
      <4> QED BY <2>1, <4>2, <4>3
    <3> QED BY <3>1, <3>2
  <2>3. b # <<>> BY <1>1, <1>5
  <2>4. Array(mem', count') BY <1>1, <1>3, <1>5, <2>1, <2>3 DEF Array
  <2> QED BY <2>2, <2>4 DEF Good, Quiet, Returns
<1>6. CASE count < Len(a) /\ mem' = [mem EXCEPT ![Len(mem)][count + 1] = c]
  <2> DEFINE b == [a EXCEPT ![count + 1] = c]
  <2>1. b \in Seq(Contexts) /\ count + 1 <= Len(b) /\ b[count + 1] = c /\ \A i \in 1..count : b[i] = a[i]
    BY <1>1, <1>2, <1>6
  <2>2. mem' = [mem EXCEPT ![Len(mem)] = b] BY <1>1, <1>6
  <2> HIDE DEF b
  <2> QED BY <1>5, <2>1, <2>2
<1>7. CASE count = Len(a) /\ mem' = [mem EXCEPT ![Len(mem)] = Doubled(c)]
  <2> DEFINE b == Doubled(c)
  <2>1. b = [i \in 1..(2 * count) |-> IF i <= count THEN a[i] ELSE IF i = count + 1 THEN c ELSE Context("free")]
    BY <1>1 DEF Doubled
  <2>2. count \in Nat /\ count # 0 BY <1>1, <1>7
  <2>3. \A i \in 1..count : a[i] \in Contexts BY <1>1
  <2> HIDE DEF b
  <2>4. b \in Seq(Contexts) /\ Len(b) = 2 * count BY <1>2, <2>1, <2>2, <2>3
  <2>5. b[count + 1] = c /\ \A i \in 1..count : b[i] = a[i] BY <2>1, <2>2
  <2>6. mem' = [mem EXCEPT ![Len(mem)] = b] BY <1>7 DEF b
  <2>7. count + 1 <= Len(b) BY <2>2, <2>4
  <2> QED BY <1>5, <2>4, <2>5, <2>6, <2>7
<1> QED BY <1>1, <1>4, <1>6, <1>7 DEF eval_exec_push, c

-----------------------------------------------------------------------------
(* The steps.                                                              *)

\* Some context asked to return means that the one on top is.
LEMMA TopReturns ==
  ASSUME Good(mem, count), PendingFlow # "return"
  PROVE  Quiet(mem, count)
<1>1. count \in Nat /\ Cur = mem[1] BY DEF Good, Array, Cur
<1>2. CASE count = 0 BY <1>2 DEF Quiet
<1>3. CASE count # 0
  <2>1. mem[1][count].flow # "return" BY <1>1, <1>3 DEF PendingFlow
  <2> SUFFICES ASSUME NEW i \in 1..count, mem[1][i].flow = "return" PROVE FALSE BY DEF Quiet
  <2>2. CASE i = count BY <2>1, <2>2
  <2>3. CASE i # count
    <3>1. count \in (i + 1)..count BY <1>1, <2>3
    <3> QED BY <2>1, <3>1 DEF Good, Returns
  <2> QED BY <2>2, <2>3
<1> QED BY <1>2, <1>3

\* The contexts stay, and the list goes on or ends.
LEMMA LeafInv ==
  ASSUME FlowInv, script' = script, Activations(stack'), mem' = mem, count' = count,
         pc' # "test", pc' = "run" => Quiet(mem, count)
  PROVE  FlowInv'
BY DEF FlowInv, Good, Array, Returns, Quiet

\* The initial state.
LEMMA FlowInit ==
  ASSUME Init, script.nodes \cap Loops = {}
  PROVE  FlowInv
<1>1. Activations(stack)
  <2> DEFINE v == Op("root")
  <2>1. Shape(v) /\ v.op = "root" BY DEF Op, Shape
  <2> HIDE DEF v
  <2>2. stack = <<v>> BY DEF Init, v
  <2>3. DOMAIN stack = {1} /\ stack[1] = v /\ stack # <<>> BY <2>2
  <2>4. stack \in Seq({stack[i] : i \in DOMAIN stack})
    <3>1. {stack[i] : i \in DOMAIN stack} = {v} BY <2>3
    <3> QED BY <2>2, <3>1
  <2> QED BY <2>1, <2>3, <2>4 DEF Activations, Loops
<1>2. Array(mem, count) /\ Quiet(mem, count)
  <2> DEFINE a == [i \in 1..script.capacity |-> Context(IF i = 1 THEN "root" ELSE "free")]
  <2>1. script.capacity \in Nat \ {0} BY FlowAssumption DEF Init
  <2>2. \A i \in 1..script.capacity : Context(IF i = 1 THEN "root" ELSE "free") \in Contexts
    BY DEF Context, Contexts, Kinds
  <2>3. a \in Seq(Contexts) /\ Len(a) = script.capacity BY <2>1, <2>2
  <2>4. a[1].flow = "none" BY <2>1 DEF Context
  <2>5. mem = <<a>> /\ count = 1 BY DEF Init
  <2> HIDE DEF a
  <2>6. a # <<>> BY <2>1, <2>3
  <2> QED BY <2>1, <2>3, <2>4, <2>5, <2>6 DEF Array, Quiet
<1>3. Returns(mem, count) BY <1>2 DEF Quiet, Returns, Array
<1> QED BY <1>1, <1>2, <1>3 DEF FlowInv, Good, Init

\* Commands that leave the contexts alone.
LEMMA CommandsInv ==
  ASSUME FlowInv,
         \/ \E x \in Vals : EvalSet(x)
         \/ EvalError \/ EvalFatal \/ PolicyPush \/ PolicyPop
         \/ AfterNode \/ EndOfList \/ Unwound \/ EvalIf \/ ExitIf
  PROVE  FlowInv'
<1>0. Activations(stack) /\ Good(mem, count) /\ script.nodes \cap Loops = {} BY DEF FlowInv
<1>1. CASE (\E x \in Vals : EvalSet(x)) \/ EvalFatal \/ EndOfList \/ Unwound
  BY <1>0, <1>1, LeafInv DEF EvalSet, EvalFatal, EndOfList, Unwound, Leaf
<1>2. CASE EvalError
  <2>1. Activations(stack') BY <1>0, <1>2, ErrorActivations DEF EvalError
  <2> QED BY <1>2, <2>1, LeafInv DEF EvalError, Leaf
<1>3. CASE PolicyPush
  <2>1. Activations(stack')
    <3> DEFINE x == IF "stray_pop" \in script.nodes THEN stack[Len(stack)].pushes ELSE stack[Len(stack)].pushes + 1
    <3>1. stack' = [stack EXCEPT ![Len(stack)].pushes = x] BY <1>3 DEF PolicyPush
    <3> HIDE DEF x
    <3> QED BY <1>0, <3>1, CountActivations
  <2> QED BY <1>3, <2>1, LeafInv DEF PolicyPush, Leaf
<1>4. CASE PolicyPop
  <2> DEFINE x == IF stack[Len(stack)].pushes = 0 THEN 0 ELSE stack[Len(stack)].pushes - 1
             st == [stack EXCEPT ![Len(stack)].pushes = x]
  <2>1. stack' = st \/ EmitError(st) BY <1>4 DEF PolicyPop
  <2> HIDE DEF x
  <2>2. Activations(st) BY <1>0, CountActivations
  <2> HIDE DEF st
  <2>3. Activations(stack') BY <2>1, <2>2, ErrorActivations
  <2> QED BY <1>4, <2>3, LeafInv DEF PolicyPop, Leaf
<1>5. CASE AfterNode
  <2>1. pc' # "test" BY <1>5 DEF AfterNode
  <2>2. pc' = "run" => PendingFlow # "return" BY <1>5 DEF AfterNode
  <2>3. pc' = "run" => Quiet(mem, count) BY <1>0, <2>2, TopReturns
  <2> QED BY <1>0, <1>5, <2>1, <2>3, LeafInv DEF AfterNode
<1>6. CASE EvalIf
  <2>1. Activations(stack') BY <1>0, <1>6, EnterActivations DEF EvalIf, Loops
  <2> QED BY <1>6, <2>1, LeafInv DEF EvalIf, Enter, FlowInv
<1>7. CASE ExitIf
  <2>1. Activations(stack') BY <1>0, <1>7, LeaveActivations DEF ExitIf
  <2> QED BY <1>7, <2>1, LeafInv DEF ExitIf
<1> QED BY <1>1, <1>2, <1>3, <1>4, <1>5, <1>6, <1>7

\* break() and continue() outside of loops are errors.
LEMMA SignalInv ==
  ASSUME FlowInv, NEW signal, HandleLoopSignal(signal)
  PROVE  FlowInv'
<1>0. Activations(stack) /\ Good(mem, count) BY DEF FlowInv
<1>1. ASSUME NEW i \in 1..count PROVE Cur[i].loops = 0
  <2>1. Cur = mem[1] /\ i \in 1..Len(mem[1]) BY <1>0, TheArray DEF Good, Cur
  <2>2. mem[1][i] \in Contexts BY <1>0, <2>1, TheArray DEF Good
  <2> QED BY <2>1, <2>2 DEF Contexts
<1>2. {0} \cup {i \in 1..count : Cur[i].loops > 0} = {0} BY <1>1
<1>3. eval_exec_find_loop_target = 0 BY <1>2 DEF eval_exec_find_loop_target, Max
<1>4. EmitError(stack) /\ mem' = mem BY <1>3 DEF HandleLoopSignal
<1>5. Activations(stack') BY <1>0, <1>4, ErrorActivations
<1> QED BY <1>4, <1>5, LeafInv DEF HandleLoopSignal, Leaf

\* return(): the blocks on top and the function or file below them.
LEMMA ReturnInv ==
  ASSUME FlowInv, NEW propagate, HandleReturn(propagate)
  PROVE  FlowInv'
<1>0. Good(mem, count) /\ Quiet(mem, count) BY DEF FlowInv, HandleReturn
<1>1. ClearReturn(mem, count) = mem
  <2>1. Len(mem) = 1 /\ count \in Nat BY <1>0 DEF Good, Array
  <2> QED BY <1>0, <2>1 DEF ClearReturn, Quiet
<1>2. Good(mem', count') BY <1>0, <1>1, RequestContexts DEF HandleReturn
<1> QED BY <1>2 DEF FlowInv, HandleReturn

\* block(), a call and a file push a context.
LEMMA EnterInv ==
  ASSUME FlowInv,
         \/ \E b \in script.blocks : HandleBlock(b)
         \/ \E kind \in Calls : EvalCall(kind)
         \/ \E kind \in Files : EvalFile(kind)
  PROVE  FlowInv'
<1>0. Activations(stack) /\ Good(mem, count) /\ (pc = "run" => Quiet(mem, count)) BY DEF FlowInv
<1>1. ASSUME NEW b \in script.blocks, HandleBlock(b) PROVE FlowInv'
  <2> DEFINE x == stack[Len(stack)].open + 1
             st == [stack EXCEPT ![Len(stack)].open = x]
  <2>1. EmitError(st) \/ stack' = st BY <1>1 DEF HandleBlock
  <2> HIDE DEF x
  <2>2. Activations(st) BY <1>0, CountActivations
  <2> HIDE DEF st
  <2>3. Activations(stack') BY <2>1, <2>2, ErrorActivations
  <2>4. Good(mem', count') BY <1>0, <1>1, PushContexts DEF HandleBlock, Leaf, Kinds
  <2> QED BY <1>1, <2>3, <2>4 DEF FlowInv, HandleBlock, Leaf
<1>2. ASSUME NEW kind \in Calls \cup Files, EvalCall(kind) \/ EvalFile(kind) PROVE FlowInv'
  <2>1. pc = "run" /\ pc' = pc /\ script' = script /\ eval_exec_push(kind) /\ stack' = Append(stack, Op(kind))
    BY <1>2 DEF EvalCall, EvalFile, Enter
  <2>2. Good(mem', count') /\ Quiet(mem', count') BY <1>0, <1>2, <2>1, PushContexts DEF Kinds
  <2>3. kind \notin Loops BY <1>2 DEF Calls, Files, Loops
  <2>4. Activations(stack') BY <1>0, <2>1, <2>3, EnterActivations
  <2> QED BY <2>1, <2>2, <2>4 DEF FlowInv
<1> QED BY <1>1, <1>2

\* endblock() and a turn of eval_unwind_blocks_for_return.
LEMMA BlockEndInv ==
  ASSUME FlowInv, HandleEndblock \/ UnwindBlock
  PROVE  FlowInv'
<1>0. Activations(stack) /\ Good(mem, count) /\ count \in Nat /\ eval_exec_pop(count) \in 0..count
  BY DEF FlowInv, Good, Array, eval_exec_pop
<1>1. Good(mem', count')
  <2>1. CASE UNCHANGED <<mem, count>> BY <1>0, <2>1 DEF Good, Array, Returns
  <2>2. CASE PopTo(mem, eval_exec_pop(count)) BY <1>0, <2>2, PopContexts
  <2> QED BY <2>1, <2>2 DEF HandleEndblock, UnwindBlock, PopFrame
<1>2. Activations(stack')
  <2>1. CASE HandleEndblock
    <3> DEFINE x == stack[Len(stack)].open - 1
               st == [stack EXCEPT ![Len(stack)].open = x]
    <3>1. EmitError(st) \/ stack' = st BY <2>1 DEF HandleEndblock
    <3> HIDE DEF x
    <3>2. Activations(st) BY <1>0, CountActivations
    <3> HIDE DEF st
    <3> QED BY <3>1, <3>2, ErrorActivations
  <2>2. CASE UnwindBlock
    <3>1. EmitError(stack) \/ stack' = stack BY <2>2 DEF UnwindBlock
    <3> QED BY <1>0, <3>1, ErrorActivations
  <2> QED BY <2>1, <2>2
<1>3. script' = script /\ pc' \in {"after", "unwind", "exit"} BY DEF HandleEndblock, UnwindBlock, Leaf
<1> QED BY <1>1, <1>2, <1>3 DEF FlowInv

\* The end of a call: a macro hands the return on to its caller.
LEMMA ExitCallInv ==
  ASSUME FlowInv, ExitCall
  PROVE  FlowInv'
<1> DEFINE again == ~(Top.op = "function") /\ PendingFlow = "return"
           kept == IF again THEN mem ELSE ClearReturn(mem, count)
           n == eval_exec_pop(count)
           m == IF again /\ n > 0 THEN eval_exec_request_return(kept, n) ELSE kept
<1>0. Activations(stack) /\ Good(mem, count) /\ n \in 0..count
  BY DEF FlowInv, Good, Array, eval_exec_pop
<1>1. PopTo(m, n) BY DEF ExitCall
<1>2. Good(kept, n) BY <1>0, FewerContexts, ClearContexts
<1> HIDE DEF kept
<1>3. Good(m, n) BY <1>2, RequestContexts
<1>4. n \in 0..n BY <1>0
<1> HIDE DEF m, n
<1>5. Good(mem', count') BY <1>1, <1>3, <1>4, PopContexts
<1>6. Top.op # "root" BY DEF ExitCall, Calls
<1>7. Activations(stack') BY <1>0, <1>6, LeaveActivations DEF ExitCall
<1> QED BY <1>5, <1>7 DEF FlowInv, ExitCall

\* A file that is rejected, its end, and the end of the run.
LEMMA ExitFileInv ==
  ASSUME FlowInv, (\E kind \in Files : EvalFileRejected(kind)) \/ ExitFile \/ ExitRoot
  PROVE  FlowInv'
<1>0. Activations(stack) /\ Good(mem, count) /\ count \in Nat BY DEF FlowInv, Good, Array
<1>1. \A k \in Nat : PopStrayFile(k) \in 0..k BY DEF PopStrayFile
<1>2. eval_exec_pop(count) \in Nat BY <1>0 DEF eval_exec_pop
<1>3. Good(ClearReturn(mem, count), eval_exec_pop(count)) BY <1>0, ClearContexts
<1>4. CASE \E kind \in Files : EvalFileRejected(kind)
  <2>1. PopTo(mem, PopStrayFile(count)) /\ EmitError(stack) /\ pc' = "after" /\ script' = script
    BY <1>4 DEF EvalFileRejected, Leaf
  <2>2. Good(mem', count') BY <1>0, <1>1, <2>1, PopContexts
  <2>3. Activations(stack') BY <1>0, <2>1, ErrorActivations
  <2> QED BY <2>1, <2>2, <2>3 DEF FlowInv
<1>5. CASE ExitFile
  <2>1. PopTo(ClearReturn(mem, count), PopStrayFile(eval_exec_pop(count))) /\ pc' = "after" /\ script' = script
    BY <1>5 DEF ExitFile
  <2>2. Good(mem', count') BY <1>1, <1>2, <1>3, <2>1, PopContexts
  <2>3. Top.op # "root" BY <1>5 DEF ExitFile, Files
  <2>4. Activations(Front(stack)) BY <1>0, <2>3, LeaveActivations
  <2>5. stack' = Front(stack) \/ EmitError(Front(stack)) BY <1>5 DEF ExitFile
  <2>6. Activations(stack') BY <2>4, <2>5, ErrorActivations
  <2> QED BY <2>1, <2>2, <2>6 DEF FlowInv
<1>6. CASE ExitRoot
  <2>1. PopTo(ClearReturn(mem, count), eval_exec_pop(count)) /\ pc' = "done" /\ script' = script /\ stack' = stack
    BY <1>6 DEF ExitRoot
  <2>2. Good(mem', count') BY <1>2, <1>3, <2>1, PopContexts
  <2> QED BY <1>0, <2>1, <2>2 DEF FlowInv
<1> QED BY <1>4, <1>5, <1>6

\* No loop is entered, tested or left.
LEMMA NoLoopSteps ==
  ASSUME FlowInv
  PROVE  /\ \A kind \in Loops : \A n : ~EvalLoop(kind, n)
         /\ \A cond : ~LoopTest(cond)
         /\ ~ExitLoopBody
<1>1. Top.op \notin Loops
  <2>1. Len(stack) \in DOMAIN stack BY DEF FlowInv, Activations
  <2> QED BY <2>1 DEF FlowInv, Activations, Top, Last
<1> QED BY <1>1 DEF FlowInv, EvalLoop, Enter, LoopTest, ExitLoopBody

\* Every step keeps the invariant.
LEMMA FlowStep == FlowInv /\ [Next]_vars => FlowInv'
<1> SUFFICES ASSUME FlowInv, [Next]_vars PROVE FlowInv' OBVIOUS
<1>1. CASE UNCHANGED vars \/ Finished
  BY <1>1, LeafInv DEF vars, Finished, FlowInv
<1>2. CASE Next /\ ~Finished
  BY <1>2, CommandsInv, SignalInv, ReturnInv, EnterInv, BlockEndInv, ExitCallInv, ExitFileInv, NoLoopSteps
     DEF Next, Loops
<1> QED BY <1>1, <1>2

\* In every script without loops, whatever calls, files, blocks, errors,
\* fatal results and returns it is made of, no node runs between a return()
\* and the end of what it returns from, and no caller returns with it
\* (eval_exec_request_return, eval_clear_return_state,
\* eval_unwind_blocks_for_return).
THEOREM ReturnsAreConsumed == Spec => [](script.nodes \cap Loops = {} => ReturnConsumed)
<1>1. Init => (script.nodes \cap Loops = {} => FlowInv) BY FlowInit
<1>2. Next => script' = script
  BY DEF Next, EvalSet, EvalError, EvalFatal, PolicyPush, PolicyPop, HandleLoopSignal, HandleReturn,
         HandleBlock, HandleEndblock, AfterNode, EndOfList, UnwindBlock, Unwound, EvalIf, ExitIf, EvalLoop,
         LoopTest, ExitLoopBody, EvalCall, ExitCall, EvalFile, EvalFileRejected, ExitFile, ExitRoot,
         Finished, vars
<1>3. (script.nodes \cap Loops = {} => FlowInv) /\ [Next]_vars => (script.nodes \cap Loops = {} => FlowInv)'
  BY <1>2, FlowStep DEF vars
<1>4. FlowInv => ReturnConsumed
  BY DEF FlowInv, Good, Array, Returns, Quiet, ReturnConsumed, Cur
<1>5. (script.nodes \cap Loops = {} => FlowInv) => (script.nodes \cap Loops = {} => ReturnConsumed) BY <1>4
<1> QED BY <1>1, <1>3, <1>5, PTL DEF Spec
=============================================================================
