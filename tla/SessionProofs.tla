---------------------------- MODULE SessionProofs ---------------------------
(***************************************************************************)
(* Proofs about Session: whatever the scripts, the files, the tree and the *)
(* packages are, and however often a command fails and goes back to its    *)
(* snapshot, the scopes, the queues of deferred calls, the active packages *)
(* and the active dependencies are those of the commands under way.        *)
(*                                                                         *)
(* A snapshot is put back long after it was taken, so the invariant speaks *)
(* of every snapshot on the stack as well as of the session: each is in    *)
(* step with the frames below the one that holds it (Aligned). What a      *)
(* command does to the session is seen through one relation, Same: the     *)
(* number of scopes, the directories of the queues and the active lists    *)
(* are what they were.                                                     *)
(***************************************************************************)
EXTENDS Session, FiniteSetTheorems, NaturalsInduction, WellFoundedInduction, TLAPS

\* A sequence, of whatever it holds.
IsList(s) == s \in Seq(ToSet(s))

\* The parts of a session state that the invariant is about.
Kept == {"scopes", "deferred", "finding", "making"}

\* A session state whose stacks are sequences.
Formed(st) ==
    /\ Kept \subseteq DOMAIN st
    /\ IsList(st.scopes) /\ IsList(st.deferred) /\ IsList(st.finding) /\ IsList(st.making)
    /\ \A k \in DOMAIN st.deferred : "dir" \in DOMAIN st.deferred[k]

\* The directories of the queues of deferred calls.
QueueDirs(st) == [k \in DOMAIN st.deferred |-> st.deferred[k].dir]

\* The stacks of b are as high as those of a, and hold the same.
Same(a, b) ==
    Formed(a) =>
        /\ Formed(b)
        /\ Len(b.scopes) = Len(a.scopes)
        /\ QueueDirs(b) = QueueDirs(a)
        /\ b.finding = a.finding
        /\ b.making = a.making

\* The session state is in step with the first n frames.
Shape(st, fr, n) ==
    /\ Formed(st)
    /\ Len(st.scopes) = 1 + Cardinality({k \in 1 .. n : HasScope(fr[k])})
    /\ InStep(QueueDirs(st), {k \in 1 .. n : HasQueue(fr[k])}, [k \in 1 .. n |-> fr[k].dir])
    /\ InStep(st.finding, {k \in 1 .. n : IsFinding(fr[k])}, [k \in 1 .. n |-> fr[k].cmd.pkg])
    /\ InStep(st.making, {k \in 1 .. n : IsMaking(fr[k])}, [k \in 1 .. n |-> Head(fr[k].todo.left)])

\* The list has one more member than the other, at its end.
OneMore(large, small) ==
    Len(large) = Len(small) + 1 /\ \A k \in 1 .. Len(small) : large[k] = small[k]

\* The stacks of b are those of a and what frame f keeps open.
Grown(a, b, f) ==
    /\ Formed(a) /\ Formed(b)
    /\ Len(b.scopes) = Len(a.scopes) + IF HasScope(f) THEN 1 ELSE 0
    /\ IF HasQueue(f) THEN OneMore(QueueDirs(b), QueueDirs(a)) ELSE QueueDirs(b) = QueueDirs(a)
    /\ IF IsFinding(f) THEN OneMore(b.finding, a.finding) ELSE b.finding = a.finding
    /\ IF IsMaking(f) THEN OneMore(b.making, a.making) ELSE b.making = a.making

\* The last of each stack of st is what frame f keeps there.
EndsWith(st, f) ==
    /\ HasQueue(f) => QueueDirs(st)[Len(QueueDirs(st))] = f.dir
    /\ IsFinding(f) => st.finding[Len(st.finding)] = f.cmd.pkg
    /\ IsMaking(f) => st.making[Len(st.making)] = Head(f.todo.left)

\* Two frames keep the same open.
Alike(f, g) ==
    /\ HasScope(f) <=> HasScope(g)
    /\ HasQueue(f) <=> HasQueue(g)
    /\ IsFinding(f) <=> IsFinding(g)
    /\ IsMaking(f) <=> IsMaking(g)
    /\ f.dir = g.dir /\ f.cmd.pkg = g.cmd.pkg
    /\ IsMaking(f) => Head(f.todo.left) = Head(g.todo.left)

\* A frame that keeps nothing open.
Quiet(f) == ~HasScope(f) /\ ~HasQueue(f) /\ ~IsFinding(f) /\ ~IsMaking(f)

FrameFields == {"kind", "cmd", "rest", "tx", "before", "preserve", "errors", "dir", "depth", "todo", "pending"}
Stages == [find_package |-> {"stage", "found", "path"}, find_item |-> {"stage", "left"},
           fetch |-> {"stage", "left", "pushed", "verify", "events"},
           ctest_script |-> {"left", "rv", "errors", "running", "before"}]

\* What is known of a frame by itself.
FrameOK(f) ==
    /\ FrameFields = DOMAIN f
    /\ f.tx \in BOOLEAN
    /\ f.kind \in DOMAIN Stages => DOMAIN f.todo = Stages[f.kind]
    /\ f.kind = "fetch" => f.todo.pushed \in BOOLEAN /\ (f.todo.stage = "begin" => ~f.todo.pushed)
    /\ f.kind = "ctest_script" => f.todo.running \in BOOLEAN
    /\ f.kind \in {"project", "find_package", "find_item", "fetch", "ctest_script", "ctest_custom"} => f.tx

\* The k-th frame fits the stack: its snapshot is in step with the frames below.
FrameFits(fr, k) ==
    /\ FrameOK(fr[k])
    /\ fr[k].kind = "top" <=> k = 1
    /\ fr[k].tx => k # 1 /\ Shape(fr[k].before, fr, k - 1)
    /\ k # 1 => fr[k].tx \/ fr[k].kind = "deferred" \/ fr[k - 1].tx
    /\ fr[k].kind = "ctest_script" /\ fr[k].todo.running => Shape(fr[k].todo.before, fr, k - 1)

\* The inductive invariant, of a session state and a stack of frames.
Aligned(st, fr) ==
    /\ IsList(fr)
    /\ Shape(st, fr, Len(fr))
    /\ \A k \in 1 .. Len(fr) : FrameFits(fr, k)

SessionInv == Aligned(now, frames)

\* A handler that leaves the stacks as they were.
Keeps(out) == "st" \in DOMAIN out /\ Same(now, out.st)

-----------------------------------------------------------------------------
(***************************************************************************)
(* Sequences.                                                              *)
(***************************************************************************)

\* A member of Seq(S), for any S, is a list.
LEMMA ListIntro ==
  ASSUME NEW S, NEW s \in Seq(S)
  PROVE  IsList(s)
<1>1. Len(s) \in Nat /\ DOMAIN s = 1 .. Len(s)
  OBVIOUS
<1>2. s \in [1 .. Len(s) -> ToSet(s)]
  BY <1>1 DEF ToSet
<1> QED
  BY <1>1, <1>2 DEF IsList

\* The length and the domain of a list.
LEMMA ListFacts ==
  ASSUME NEW s, IsList(s)
  PROVE  Len(s) \in Nat /\ DOMAIN s = 1 .. Len(s)
BY DEF IsList

\* A list with one more member at its end.
LEMMA ListAppend ==
  ASSUME NEW s, IsList(s), NEW x
  PROVE  /\ IsList(Append(s, x))
         /\ Len(Append(s, x)) = Len(s) + 1
         /\ DOMAIN Append(s, x) = 1 .. (Len(s) + 1)
         /\ \A k \in 1 .. Len(s) : Append(s, x)[k] = s[k]
         /\ Append(s, x)[Len(s) + 1] = x
<1> DEFINE S == ToSet(s) \cup {x}
<1>1. s \in Seq(ToSet(s)) /\ ToSet(s) \subseteq S /\ x \in S
  BY DEF IsList
<1> HIDE DEF S
<1>2. s \in Seq(S) /\ Append(s, x) \in Seq(S)
  BY <1>1
<1>3. IsList(Append(s, x))
  BY <1>2, ListIntro
<1> QED
  BY <1>1, <1>2, <1>3

\* The first members of a list.
LEMMA ListPrefix ==
  ASSUME NEW s, IsList(s), NEW n \in 0 .. Len(s)
  PROVE  /\ IsList(SubSeq(s, 1, n))
         /\ Len(SubSeq(s, 1, n)) = n
         /\ n = Len(s) => SubSeq(s, 1, n) = s
<1>1. s \in Seq(ToSet(s)) /\ Len(s) \in Nat
  BY DEF IsList
<1>2. SubSeq(s, 1, n) \in Seq(ToSet(s)) /\ Len(SubSeq(s, 1, n)) = n
  BY <1>1
<1>3. IsList(SubSeq(s, 1, n))
  BY <1>2, ListIntro
<1> QED
  BY <1>1, <1>2, <1>3

\* A list without its last member.
LEMMA ListFront ==
  ASSUME NEW s, IsList(s), Len(s) > 0
  PROVE  /\ IsList(Front(s))
         /\ Len(Front(s)) = Len(s) - 1
         /\ DOMAIN Front(s) = 1 .. (Len(s) - 1)
         /\ \A k \in 1 .. (Len(s) - 1) : Front(s)[k] = s[k]
<1>1. s \in Seq(ToSet(s)) /\ Len(s) \in Nat
  BY DEF IsList
<1>2. Front(s) = SubSeq(s, 1, Len(s) - 1)
  BY DEF Front
<1>3. Front(s) \in Seq(ToSet(s))
  BY <1>1, <1>2
<1>4. IsList(Front(s))
  BY <1>3, ListIntro
<1>5. Len(Front(s)) = Len(s) - 1
  <2>1. Len(s) - 1 \in 0 .. Len(s)
    BY <1>1
  <2> QED
    BY <1>2, <2>1, ListPrefix
<1>6. DOMAIN Front(s) = 1 .. (Len(s) - 1)
  BY <1>4, <1>5, ListFacts
<1>7. ASSUME NEW k \in 1 .. (Len(s) - 1) PROVE Front(s)[k] = s[k]
  BY <1>1, <1>2
<1> QED
  BY <1>4, <1>5, <1>6, <1>7

\* A list with another member in the place of one.
LEMMA ListExcept ==
  ASSUME NEW s, IsList(s), NEW i, NEW x
  PROVE  /\ IsList([s EXCEPT ![i] = x])
         /\ Len([s EXCEPT ![i] = x]) = Len(s)
         /\ DOMAIN [s EXCEPT ![i] = x] = DOMAIN s
         /\ \A k \in DOMAIN s : k # i => [s EXCEPT ![i] = x][k] = s[k]
         /\ i \in DOMAIN s => [s EXCEPT ![i] = x][i] = x
<1> DEFINE S == ToSet(s) \cup {x}
<1>1. s \in Seq(ToSet(s)) /\ ToSet(s) \subseteq S /\ x \in S /\ Len(s) \in Nat /\ DOMAIN s = 1 .. Len(s)
  BY DEF IsList
<1> HIDE DEF S
<1>2. s \in Seq(S)
  BY <1>1
<1> DEFINE t == [s EXCEPT ![i] = x]
<1>a. DOMAIN t = 1 .. Len(s) /\ \A k \in 1 .. Len(s) : t[k] \in S
  BY <1>1, <1>2
<1>b. t = [k \in 1 .. Len(s) |-> t[k]]
  BY <1>a
<1> HIDE DEF t
<1>c. t \in [1 .. Len(s) -> S]
  BY <1>a, <1>b
<1>3. t \in Seq(S)
  BY <1>1, <1>c
<1> USE DEF t
<1>4. IsList([s EXCEPT ![i] = x])
  BY <1>3, ListIntro
<1>5. Len([s EXCEPT ![i] = x]) = Len(s)
  BY <1>1, <1>2, <1>3
<1> QED
  BY <1>1, <1>4, <1>5

-----------------------------------------------------------------------------
(***************************************************************************)
(* Lists in step with sets of frames.                                      *)
(***************************************************************************)

\* What is above a member does not count for its place.
LEMMA UpToSame ==
  ASSUME NEW n \in Nat, NEW S \in SUBSET (1 .. n), NEW k \in S
  PROVE  {j \in S \cup {n + 1} : j <= k} = {j \in S : j <= k}
<1>1. k \in 1 .. n /\ ~(n + 1 <= k)
  OBVIOUS
<1> QED
  BY <1>1

\* The rank of a member of a set of frames.
LEMMA Rank ==
  ASSUME NEW n \in Nat, NEW S \in SUBSET (1 .. n)
  PROVE  /\ IsFiniteSet(S) /\ Cardinality(S) \in Nat
         /\ \A k \in S : Cardinality({j \in S : j <= k}) \in 1 .. Cardinality(S)
         /\ n + 1 \notin S
         /\ Cardinality(S \cup {n + 1}) = Cardinality(S) + 1
         /\ \A k \in S : {j \in S \cup {n + 1} : j <= k} = {j \in S : j <= k}
         /\ {j \in S \cup {n + 1} : j <= n + 1} = S \cup {n + 1}
<1>1. IsFiniteSet(S) /\ Cardinality(S) \in Nat
  <2>1. IsFiniteSet(1 .. n)
    BY FS_Interval
  <2> QED
    BY <2>1, FS_Subset, FS_CardinalityType
<1>2. ASSUME NEW k \in S PROVE Cardinality({j \in S : j <= k}) \in 1 .. Cardinality(S)
  <2> DEFINE T == {j \in S : j <= k}
  <2>1. T \in SUBSET S /\ k \in T
    OBVIOUS
  <2> HIDE DEF T
  <2>2. IsFiniteSet(T) /\ Cardinality(T) <= Cardinality(S)
    BY <1>1, <2>1, FS_Subset
  <2>3. Cardinality(T) \in Nat /\ Cardinality(T) # 0
    BY <2>1, <2>2, FS_CardinalityType, FS_EmptySet
  <2>4. Cardinality(T) \in 1 .. Cardinality(S)
    BY <1>1, <2>2, <2>3
  <2> QED
    BY <2>4 DEF T
<1>3. n + 1 \notin S
  OBVIOUS
<1>4. Cardinality(S \cup {n + 1}) = Cardinality(S) + 1
  BY <1>1, <1>3, FS_AddElement
<1>5. \A k \in S : {j \in S \cup {n + 1} : j <= k} = {j \in S : j <= k}
  BY UpToSame
<1>6. {j \in S \cup {n + 1} : j <= n + 1} = S \cup {n + 1}
  <2>1. \A j \in S \cup {n + 1} : j <= n + 1
    OBVIOUS
  <2> QED
    BY <2>1
<1> QED
  BY <1>1, <1>2, <1>3, <1>4, <1>5, <1>6

\* A list in step is still so for the same frames with the same values.
LEMMA InStepSame ==
  ASSUME NEW n \in Nat, NEW S \in SUBSET (1 .. n), NEW list, NEW of, NEW of2,
         InStep(list, S, of), \A k \in S : of2[k] = of[k]
  PROVE  InStep(list, S, of2)
BY DEF InStep

\* One more frame, and one more entry.
LEMMA InStepPush ==
  ASSUME NEW n \in Nat, NEW S \in SUBSET (1 .. n), NEW small, NEW large, NEW of, NEW of2,
         InStep(small, S, of), \A k \in S : of2[k] = of[k],
         OneMore(large, small), large[Len(large)] = of2[n + 1]
  PROVE  InStep(large, S \cup {n + 1}, of2)
<1>1. Len(large) = Cardinality(S \cup {n + 1}) /\ Len(large) = Cardinality(S) + 1 /\ Len(small) = Cardinality(S)
  BY Rank DEF InStep, OneMore
<1>2. ASSUME NEW k \in S
      PROVE  large[Cardinality({j \in S \cup {n + 1} : j <= k})] = of2[k]
  <2> DEFINE r == Cardinality({j \in S : j <= k})
  <2>a. {j \in S \cup {n + 1} : j <= k} = {j \in S : j <= k}
    BY UpToSame
  <2>b. r \in 1 .. Cardinality(S)
    BY Rank
  <2>1. Cardinality({j \in S \cup {n + 1} : j <= k}) = r /\ r \in 1 .. Len(small)
    BY <1>1, <2>a, <2>b
  <2>2. small[r] = of[k]
    BY DEF InStep
  <2> HIDE DEF r
  <2>3. large[r] = small[r]
    BY <2>1 DEF OneMore
  <2> QED
    BY <2>1, <2>2, <2>3
<1>3. large[Cardinality({j \in S \cup {n + 1} : j <= n + 1})] = of2[n + 1]
  <2>1. {j \in S \cup {n + 1} : j <= n + 1} = S \cup {n + 1}
    BY Rank
  <2> QED
    BY <2>1, <1>1
<1> QED
  BY <1>1, <1>2, <1>3 DEF InStep

\* One frame less, and one entry less.
LEMMA InStepPop ==
  ASSUME NEW n \in Nat, NEW S \in SUBSET (1 .. n), NEW small, NEW large, NEW of, NEW of2,
         InStep(large, S \cup {n + 1}, of), \A k \in S : of2[k] = of[k],
         OneMore(large, small), Len(small) \in Nat
  PROVE  InStep(small, S, of2)
<1>1. Len(small) = Cardinality(S)
  <2>1. Len(large) = Cardinality(S) + 1 /\ Len(large) = Len(small) + 1 /\ Cardinality(S) \in Nat
    BY Rank DEF InStep, OneMore
  <2> QED
    BY <2>1
<1>2. ASSUME NEW k \in S
      PROVE  small[Cardinality({j \in S : j <= k})] = of2[k]
  <2> DEFINE r == Cardinality({j \in S : j <= k})
  <2>a. {j \in S \cup {n + 1} : j <= k} = {j \in S : j <= k}
    BY UpToSame
  <2>b. r \in 1 .. Cardinality(S)
    BY Rank
  <2>1. Cardinality({j \in S \cup {n + 1} : j <= k}) = r /\ r \in 1 .. Len(small)
    BY <1>1, <2>a, <2>b
  <2>2. large[Cardinality({j \in S \cup {n + 1} : j <= k})] = of[k]
    BY DEF InStep
  <2> HIDE DEF r
  <2>3. large[r] = small[r]
    BY <2>1 DEF OneMore
  <2> QED
    BY <2>1, <2>2, <2>3 DEF r
<1> QED
  BY <1>1, <1>2 DEF InStep

-----------------------------------------------------------------------------
(***************************************************************************)
(* Sessions in step with stacks of frames.                                 *)
(***************************************************************************)

\* The directories of the queues are a list as long as the queues.
LEMMA QueueDirsList ==
  ASSUME NEW st, Formed(st)
  PROVE  /\ IsList(QueueDirs(st))
         /\ Len(QueueDirs(st)) = Len(st.deferred)
         /\ DOMAIN QueueDirs(st) = 1 .. Len(st.deferred)
         /\ \A k \in 1 .. Len(st.deferred) : QueueDirs(st)[k] = st.deferred[k].dir
<1>1. Len(st.deferred) \in Nat /\ DOMAIN st.deferred = 1 .. Len(st.deferred)
  BY ListFacts DEF Formed
<1> DEFINE q == QueueDirs(st)
           n == Len(st.deferred)
           V == {st.deferred[k].dir : k \in 1 .. n}
<1>2. q \in [1 .. n -> V] /\ \A k \in 1 .. n : q[k] = st.deferred[k].dir
  BY <1>1 DEF QueueDirs
<1> HIDE DEF q, n, V
<1>3. q \in Seq(V) /\ Len(q) = n
  BY <1>1, <1>2 DEF n
<1>4. IsList(q)
  BY <1>3, ListIntro
<1> QED
  BY <1>2, <1>3, <1>4 DEF q, n

\* A state with the same stacks is in step with the same frames.
LEMMA ShapeSame ==
  ASSUME NEW a, NEW b, NEW fr, NEW n, Shape(a, fr, n), Same(a, b)
  PROVE  Shape(b, fr, n)
BY DEF Shape, Same

\* The frames may be replaced by others that keep the same open.
LEMMA ShapeAlike ==
  ASSUME NEW st, NEW fr, NEW fr2, NEW n \in Nat, Shape(st, fr, n), \A k \in 1 .. n : Alike(fr[k], fr2[k])
  PROVE  Shape(st, fr2, n)
<1>1. {k \in 1 .. n : HasScope(fr2[k])} = {k \in 1 .. n : HasScope(fr[k])}
  BY DEF Alike
<1>2. {k \in 1 .. n : HasQueue(fr2[k])} = {k \in 1 .. n : HasQueue(fr[k])}
  BY DEF Alike
<1>3. {k \in 1 .. n : IsFinding(fr2[k])} = {k \in 1 .. n : IsFinding(fr[k])}
  BY DEF Alike
<1>4. {k \in 1 .. n : IsMaking(fr2[k])} = {k \in 1 .. n : IsMaking(fr[k])}
  BY DEF Alike
<1>5. InStep(QueueDirs(st), {k \in 1 .. n : HasQueue(fr2[k])}, [k \in 1 .. n |-> fr2[k].dir])
  <2> DEFINE S == {k \in 1 .. n : HasQueue(fr[k])}
             of == [k \in 1 .. n |-> fr[k].dir]
             of2 == [k \in 1 .. n |-> fr2[k].dir]
  <2>1. S \in SUBSET (1 .. n) /\ InStep(QueueDirs(st), S, of)
    BY DEF Shape
  <2>2. \A k \in S : of2[k] = of[k]
    BY DEF Alike
  <2> HIDE DEF S, of, of2
  <2>3. InStep(QueueDirs(st), S, of2)
    BY <2>1, <2>2, InStepSame
  <2> QED
    BY <2>3, <1>2 DEF S, of2
<1>6. InStep(st.finding, {k \in 1 .. n : IsFinding(fr2[k])}, [k \in 1 .. n |-> fr2[k].cmd.pkg])
  <2> DEFINE S == {k \in 1 .. n : IsFinding(fr[k])}
             of == [k \in 1 .. n |-> fr[k].cmd.pkg]
             of2 == [k \in 1 .. n |-> fr2[k].cmd.pkg]
  <2>1. S \in SUBSET (1 .. n) /\ InStep(st.finding, S, of)
    BY DEF Shape
  <2>2. \A k \in S : of2[k] = of[k]
    BY DEF Alike
  <2> HIDE DEF S, of, of2
  <2>3. InStep(st.finding, S, of2)
    BY <2>1, <2>2, InStepSame
  <2> QED
    BY <2>3, <1>3 DEF S, of2
<1>7. InStep(st.making, {k \in 1 .. n : IsMaking(fr2[k])}, [k \in 1 .. n |-> Head(fr2[k].todo.left)])
  <2> DEFINE S == {k \in 1 .. n : IsMaking(fr[k])}
             of == [k \in 1 .. n |-> Head(fr[k].todo.left)]
             of2 == [k \in 1 .. n |-> Head(fr2[k].todo.left)]
  <2>1. S \in SUBSET (1 .. n) /\ InStep(st.making, S, of)
    BY DEF Shape
  <2>2. \A k \in S : of2[k] = of[k]
    BY DEF Alike
  <2> HIDE DEF S, of, of2
  <2>3. InStep(st.making, S, of2)
    BY <2>1, <2>2, InStepSame
  <2> QED
    BY <2>3, <1>4 DEF S, of2
<1> QED
  BY <1>1, <1>5, <1>6, <1>7 DEF Shape

\* One more frame, and a state grown by what it keeps open.
LEMMA ShapePush ==
  ASSUME NEW a, NEW b, NEW fr, NEW n \in Nat, Shape(a, fr, n), Grown(a, b, fr[n + 1]), EndsWith(b, fr[n + 1])
  PROVE  Shape(b, fr, n + 1)
<1>1. {k \in 1 .. (n + 1) : HasScope(fr[k])} = {k \in 1 .. n : HasScope(fr[k])} \cup (IF HasScope(fr[n + 1]) THEN {n + 1} ELSE {})
  OBVIOUS
<1>2. {k \in 1 .. (n + 1) : HasQueue(fr[k])} = {k \in 1 .. n : HasQueue(fr[k])} \cup (IF HasQueue(fr[n + 1]) THEN {n + 1} ELSE {})
  OBVIOUS
<1>3. {k \in 1 .. (n + 1) : IsFinding(fr[k])} = {k \in 1 .. n : IsFinding(fr[k])} \cup (IF IsFinding(fr[n + 1]) THEN {n + 1} ELSE {})
  OBVIOUS
<1>4. {k \in 1 .. (n + 1) : IsMaking(fr[k])} = {k \in 1 .. n : IsMaking(fr[k])} \cup (IF IsMaking(fr[n + 1]) THEN {n + 1} ELSE {})
  OBVIOUS
<1>5. Len(b.scopes) = 1 + Cardinality({k \in 1 .. (n + 1) : HasScope(fr[k])})
  <2> DEFINE S == {k \in 1 .. n : HasScope(fr[k])}
  <2>1. S \in SUBSET (1 .. n) /\ Len(a.scopes) \in Nat
    BY ListFacts DEF Grown, Formed
  <2> HIDE DEF S
  <2>2. Cardinality(S) \in Nat /\ Cardinality(S \cup {n + 1}) = Cardinality(S) + 1
    BY <2>1, Rank
  <2>3. S \cup {} = S
    OBVIOUS
  <2>4. IF HasScope(fr[n + 1]) THEN Cardinality({k \in 1 .. (n + 1) : HasScope(fr[k])}) = Cardinality(S) + 1
                               ELSE Cardinality({k \in 1 .. (n + 1) : HasScope(fr[k])}) = Cardinality(S)
    BY <1>1, <2>2, <2>3 DEF S
  <2>5. IF HasScope(fr[n + 1]) THEN Len(b.scopes) = Len(a.scopes) + 1 ELSE Len(b.scopes) = Len(a.scopes) + 0
    BY DEF Grown
  <2>6. Len(a.scopes) = 1 + Cardinality(S)
    BY DEF Shape, S
  <2>7. CASE HasScope(fr[n + 1])
    BY <2>1, <2>2, <2>4, <2>5, <2>6, <2>7 DEF S
  <2>8. CASE ~HasScope(fr[n + 1])
    BY <2>1, <2>2, <2>4, <2>5, <2>6, <2>8 DEF S
  <2> QED
    BY <2>7, <2>8
<1>6. InStep(QueueDirs(b), {k \in 1 .. (n + 1) : HasQueue(fr[k])}, [k \in 1 .. (n + 1) |-> fr[k].dir])
  <2> DEFINE S == {k \in 1 .. n : HasQueue(fr[k])}
             T == {k \in 1 .. (n + 1) : HasQueue(fr[k])}
             of == [k \in 1 .. n |-> fr[k].dir]
             of2 == [k \in 1 .. (n + 1) |-> fr[k].dir]
  <2>1. S \in SUBSET (1 .. n) /\ InStep(QueueDirs(a), S, of) /\ T = S \cup (IF HasQueue(fr[n + 1]) THEN {n + 1} ELSE {})
    BY <1>2 DEF Shape
  <2>2. \A k \in S : of2[k] = of[k]
    OBVIOUS
  <2>3. of2[n + 1] = fr[n + 1].dir
    OBVIOUS
  <2> HIDE DEF S, T, of, of2
  <2>4. CASE HasQueue(fr[n + 1])
    <3>1. OneMore(QueueDirs(b), QueueDirs(a)) /\ T = S \cup {n + 1}
      BY <2>1, <2>4 DEF Grown
    <3>2. QueueDirs(b)[Len(QueueDirs(b))] = of2[n + 1]
      BY <2>3, <2>4 DEF EndsWith
    <3>3. InStep(QueueDirs(b), S \cup {n + 1}, of2)
      BY <2>1, <2>2, <3>1, <3>2, InStepPush
    <3> QED
      BY <3>1, <3>3 DEF T, of2
  <2>5. CASE ~HasQueue(fr[n + 1])
    <3>1. QueueDirs(b) = QueueDirs(a) /\ T = S
      BY <2>1, <2>5 DEF Grown
    <3>2. InStep(QueueDirs(b), S, of2)
      BY <2>1, <2>2, <3>1, InStepSame
    <3> QED
      BY <3>1, <3>2 DEF S, T, of2
  <2> QED
    BY <2>4, <2>5
<1>7. InStep(b.finding, {k \in 1 .. (n + 1) : IsFinding(fr[k])}, [k \in 1 .. (n + 1) |-> fr[k].cmd.pkg])
  <2> DEFINE S == {k \in 1 .. n : IsFinding(fr[k])}
             T == {k \in 1 .. (n + 1) : IsFinding(fr[k])}
             of == [k \in 1 .. n |-> fr[k].cmd.pkg]
             of2 == [k \in 1 .. (n + 1) |-> fr[k].cmd.pkg]
  <2>1. S \in SUBSET (1 .. n) /\ InStep(a.finding, S, of) /\ T = S \cup (IF IsFinding(fr[n + 1]) THEN {n + 1} ELSE {})
    BY <1>3 DEF Shape
  <2>2. \A k \in S : of2[k] = of[k]
    OBVIOUS
  <2>3. of2[n + 1] = fr[n + 1].cmd.pkg
    OBVIOUS
  <2> HIDE DEF S, T, of, of2
  <2>4. CASE IsFinding(fr[n + 1])
    <3>1. OneMore(b.finding, a.finding) /\ T = S \cup {n + 1}
      BY <2>1, <2>4 DEF Grown
    <3>2. b.finding[Len(b.finding)] = of2[n + 1]
      BY <2>3, <2>4 DEF EndsWith
    <3>3. InStep(b.finding, S \cup {n + 1}, of2)
      BY <2>1, <2>2, <3>1, <3>2, InStepPush
    <3> QED
      BY <3>1, <3>3 DEF T, of2
  <2>5. CASE ~IsFinding(fr[n + 1])
    <3>1. b.finding = a.finding /\ T = S
      BY <2>1, <2>5 DEF Grown
    <3>2. InStep(b.finding, S, of2)
      BY <2>1, <2>2, <3>1, InStepSame
    <3> QED
      BY <3>1, <3>2 DEF S, T, of2
  <2> QED
    BY <2>4, <2>5
<1>8. InStep(b.making, {k \in 1 .. (n + 1) : IsMaking(fr[k])}, [k \in 1 .. (n + 1) |-> Head(fr[k].todo.left)])
  <2> DEFINE S == {k \in 1 .. n : IsMaking(fr[k])}
             T == {k \in 1 .. (n + 1) : IsMaking(fr[k])}
             of == [k \in 1 .. n |-> Head(fr[k].todo.left)]
             of2 == [k \in 1 .. (n + 1) |-> Head(fr[k].todo.left)]
  <2>1. S \in SUBSET (1 .. n) /\ InStep(a.making, S, of) /\ T = S \cup (IF IsMaking(fr[n + 1]) THEN {n + 1} ELSE {})
    BY <1>4 DEF Shape
  <2>2. \A k \in S : of2[k] = of[k]
    OBVIOUS
  <2>3. of2[n + 1] = Head(fr[n + 1].todo.left)
    OBVIOUS
  <2> HIDE DEF S, T, of, of2
  <2>4. CASE IsMaking(fr[n + 1])
    <3>1. OneMore(b.making, a.making) /\ T = S \cup {n + 1}
      BY <2>1, <2>4 DEF Grown
    <3>2. b.making[Len(b.making)] = of2[n + 1]
      BY <2>3, <2>4 DEF EndsWith
    <3>3. InStep(b.making, S \cup {n + 1}, of2)
      BY <2>1, <2>2, <3>1, <3>2, InStepPush
    <3> QED
      BY <3>1, <3>3 DEF T, of2
  <2>5. CASE ~IsMaking(fr[n + 1])
    <3>1. b.making = a.making /\ T = S
      BY <2>1, <2>5 DEF Grown
    <3>2. InStep(b.making, S, of2)
      BY <2>1, <2>2, <3>1, InStepSame
    <3> QED
      BY <3>1, <3>2 DEF S, T, of2
  <2> QED
    BY <2>4, <2>5
<1> QED
  BY <1>5, <1>6, <1>7, <1>8 DEF Shape, Grown

\* One frame less, and a state that lost what it kept open.
LEMMA ShapePop ==
  ASSUME NEW a, NEW b, NEW fr, NEW n \in Nat, Shape(b, fr, n + 1), Grown(a, b, fr[n + 1])
  PROVE  Shape(a, fr, n)
<1>1. {k \in 1 .. (n + 1) : HasScope(fr[k])} = {k \in 1 .. n : HasScope(fr[k])} \cup (IF HasScope(fr[n + 1]) THEN {n + 1} ELSE {})
  OBVIOUS
<1>2. {k \in 1 .. (n + 1) : HasQueue(fr[k])} = {k \in 1 .. n : HasQueue(fr[k])} \cup (IF HasQueue(fr[n + 1]) THEN {n + 1} ELSE {})
  OBVIOUS
<1>3. {k \in 1 .. (n + 1) : IsFinding(fr[k])} = {k \in 1 .. n : IsFinding(fr[k])} \cup (IF IsFinding(fr[n + 1]) THEN {n + 1} ELSE {})
  OBVIOUS
<1>4. {k \in 1 .. (n + 1) : IsMaking(fr[k])} = {k \in 1 .. n : IsMaking(fr[k])} \cup (IF IsMaking(fr[n + 1]) THEN {n + 1} ELSE {})
  OBVIOUS
<1>5. Len(a.scopes) = 1 + Cardinality({k \in 1 .. n : HasScope(fr[k])})
  <2> DEFINE S == {k \in 1 .. n : HasScope(fr[k])}
  <2>1. S \in SUBSET (1 .. n) /\ Len(a.scopes) \in Nat
    BY ListFacts DEF Grown, Formed
  <2> HIDE DEF S
  <2>2. Cardinality(S) \in Nat /\ Cardinality(S \cup {n + 1}) = Cardinality(S) + 1
    BY <2>1, Rank
  <2>3. S \cup {} = S
    OBVIOUS
  <2>4. IF HasScope(fr[n + 1]) THEN Cardinality({k \in 1 .. (n + 1) : HasScope(fr[k])}) = Cardinality(S) + 1
                               ELSE Cardinality({k \in 1 .. (n + 1) : HasScope(fr[k])}) = Cardinality(S)
    BY <1>1, <2>2, <2>3 DEF S
  <2>5. IF HasScope(fr[n + 1]) THEN Len(b.scopes) = Len(a.scopes) + 1 ELSE Len(b.scopes) = Len(a.scopes) + 0
    BY DEF Grown
  <2>6. Len(b.scopes) = 1 + Cardinality({k \in 1 .. (n + 1) : HasScope(fr[k])})
    BY DEF Shape, S
  <2>7. CASE HasScope(fr[n + 1])
    BY <2>1, <2>2, <2>4, <2>5, <2>6, <2>7 DEF S
  <2>8. CASE ~HasScope(fr[n + 1])
    BY <2>1, <2>2, <2>4, <2>5, <2>6, <2>8 DEF S
  <2> QED
    BY <2>7, <2>8
<1>6. InStep(QueueDirs(a), {k \in 1 .. n : HasQueue(fr[k])}, [k \in 1 .. n |-> fr[k].dir])
  <2> DEFINE S == {k \in 1 .. n : HasQueue(fr[k])}
             T == {k \in 1 .. (n + 1) : HasQueue(fr[k])}
             of == [k \in 1 .. (n + 1) |-> fr[k].dir]
             of2 == [k \in 1 .. n |-> fr[k].dir]
  <2>1. S \in SUBSET (1 .. n) /\ InStep(QueueDirs(b), T, of) /\ T = S \cup (IF HasQueue(fr[n + 1]) THEN {n + 1} ELSE {})
    BY <1>2 DEF Shape
  <2>2. \A k \in S : of2[k] = of[k]
    OBVIOUS
  <2> HIDE DEF S, T, of, of2
  <2>4. CASE HasQueue(fr[n + 1])
    <3>1. OneMore(QueueDirs(b), QueueDirs(a)) /\ T = S \cup {n + 1}
      BY <2>1, <2>4 DEF Grown
    <3>2. InStep(QueueDirs(b), S \cup {n + 1}, of)
      BY <2>1, <3>1
    <3>3. Len(QueueDirs(a)) \in Nat
      BY QueueDirsList, ListFacts DEF Grown, Formed
    <3>4. InStep(QueueDirs(a), S, of2)
      BY <2>1, <2>2, <3>1, <3>2, <3>3, InStepPop
    <3> QED
      BY <3>4 DEF S, of2
  <2>5. CASE ~HasQueue(fr[n + 1])
    <3>1. QueueDirs(b) = QueueDirs(a) /\ T = S
      BY <2>1, <2>5 DEF Grown
    <3>2. InStep(QueueDirs(a), S, of2)
      BY <2>1, <2>2, <3>1, InStepSame
    <3> QED
      BY <3>1, <3>2 DEF S, T, of2
  <2> QED
    BY <2>4, <2>5
<1>7. InStep(a.finding, {k \in 1 .. n : IsFinding(fr[k])}, [k \in 1 .. n |-> fr[k].cmd.pkg])
  <2> DEFINE S == {k \in 1 .. n : IsFinding(fr[k])}
             T == {k \in 1 .. (n + 1) : IsFinding(fr[k])}
             of == [k \in 1 .. (n + 1) |-> fr[k].cmd.pkg]
             of2 == [k \in 1 .. n |-> fr[k].cmd.pkg]
  <2>1. S \in SUBSET (1 .. n) /\ InStep(b.finding, T, of) /\ T = S \cup (IF IsFinding(fr[n + 1]) THEN {n + 1} ELSE {})
    BY <1>3 DEF Shape
  <2>2. \A k \in S : of2[k] = of[k]
    OBVIOUS
  <2> HIDE DEF S, T, of, of2
  <2>4. CASE IsFinding(fr[n + 1])
    <3>1. OneMore(b.finding, a.finding) /\ T = S \cup {n + 1}
      BY <2>1, <2>4 DEF Grown
    <3>2. InStep(b.finding, S \cup {n + 1}, of)
      BY <2>1, <3>1
    <3>3. Len(a.finding) \in Nat
      BY QueueDirsList, ListFacts DEF Grown, Formed
    <3>4. InStep(a.finding, S, of2)
      BY <2>1, <2>2, <3>1, <3>2, <3>3, InStepPop
    <3> QED
      BY <3>4 DEF S, of2
  <2>5. CASE ~IsFinding(fr[n + 1])
    <3>1. b.finding = a.finding /\ T = S
      BY <2>1, <2>5 DEF Grown
    <3>2. InStep(a.finding, S, of2)
      BY <2>1, <2>2, <3>1, InStepSame
    <3> QED
      BY <3>1, <3>2 DEF S, T, of2
  <2> QED
    BY <2>4, <2>5
<1>8. InStep(a.making, {k \in 1 .. n : IsMaking(fr[k])}, [k \in 1 .. n |-> Head(fr[k].todo.left)])
  <2> DEFINE S == {k \in 1 .. n : IsMaking(fr[k])}
             T == {k \in 1 .. (n + 1) : IsMaking(fr[k])}
             of == [k \in 1 .. (n + 1) |-> Head(fr[k].todo.left)]
             of2 == [k \in 1 .. n |-> Head(fr[k].todo.left)]
  <2>1. S \in SUBSET (1 .. n) /\ InStep(b.making, T, of) /\ T = S \cup (IF IsMaking(fr[n + 1]) THEN {n + 1} ELSE {})
    BY <1>4 DEF Shape
  <2>2. \A k \in S : of2[k] = of[k]
    OBVIOUS
  <2> HIDE DEF S, T, of, of2
  <2>4. CASE IsMaking(fr[n + 1])
    <3>1. OneMore(b.making, a.making) /\ T = S \cup {n + 1}
      BY <2>1, <2>4 DEF Grown
    <3>2. InStep(b.making, S \cup {n + 1}, of)
      BY <2>1, <3>1
    <3>3. Len(a.making) \in Nat
      BY QueueDirsList, ListFacts DEF Grown, Formed
    <3>4. InStep(a.making, S, of2)
      BY <2>1, <2>2, <3>1, <3>2, <3>3, InStepPop
    <3> QED
      BY <3>4 DEF S, of2
  <2>5. CASE ~IsMaking(fr[n + 1])
    <3>1. b.making = a.making /\ T = S
      BY <2>1, <2>5 DEF Grown
    <3>2. InStep(a.making, S, of2)
      BY <2>1, <2>2, <3>1, InStepSame
    <3> QED
      BY <3>1, <3>2 DEF S, T, of2
  <2> QED
    BY <2>4, <2>5
<1> QED
  BY <1>5, <1>6, <1>7, <1>8 DEF Shape, Grown

\* A frame that keeps nothing open can be left out.
LEMMA ShapeQuiet ==
  ASSUME NEW st, NEW fr, NEW n \in Nat, Quiet(fr[n + 1])
  PROVE  Shape(st, fr, n) <=> Shape(st, fr, n + 1)
<1>1. Formed(st) => Grown(st, st, fr[n + 1])
  <2>1. Formed(st) => Len(st.scopes) + 0 = Len(st.scopes)
    BY ListFacts DEF Formed
  <2> QED
    BY <2>1 DEF Grown, Quiet
<1>2. EndsWith(st, fr[n + 1])
  BY DEF EndsWith, Quiet
<1>3. Shape(st, fr, n) => Formed(st)
  BY DEF Shape
<1>4. Shape(st, fr, n + 1) => Formed(st)
  BY DEF Shape
<1> QED
  BY <1>1, <1>2, <1>3, <1>4, ShapePush, ShapePop

-----------------------------------------------------------------------------
(***************************************************************************)
(* What a step may do to the stack of frames.                              *)
(***************************************************************************)

\* What fits a stack depends only on the frames below.
LEMMA ShapeBelow ==
  ASSUME NEW st, NEW fr, NEW fr2, NEW n \in Nat, Shape(st, fr, n), \A k \in 1 .. n : fr2[k] = fr[k]
  PROVE  Shape(st, fr2, n)
<1>1. \A k \in 1 .. n : Alike(fr[k], fr2[k])
  BY DEF Alike
<1> QED
  BY <1>1, ShapeAlike

\* A frame goes on to fit when the frames above it change.
LEMMA FitsBelow ==
  ASSUME NEW fr, NEW fr2, NEW k \in Nat \ {0}, FrameFits(fr, k), \A j \in 1 .. k : fr2[j] = fr[j]
  PROVE  FrameFits(fr2, k)
<1>1. k - 1 \in Nat /\ \A j \in 1 .. (k - 1) : fr2[j] = fr[j]
  OBVIOUS
<1>2. fr2[k] = fr[k] /\ (k # 1 => fr2[k - 1] = fr[k - 1])
  OBVIOUS
<1>3. \A st : Shape(st, fr, k - 1) => Shape(st, fr2, k - 1)
  BY <1>1, ShapeBelow
<1> HIDE DEF FrameOK, Shape
<1> QED
  BY <1>2, <1>3 DEF FrameFits

\* The innermost frame goes on to another stage.
LEMMA Retop ==
  ASSUME NEW st, NEW fr, Aligned(st, fr), Len(fr) > 0, NEW g, NEW st2,
         FrameOK(g), g.kind = fr[Len(fr)].kind, g.tx = fr[Len(fr)].tx, g.before = fr[Len(fr)].before,
         g.kind = "ctest_script" /\ g.todo.running => Shape(g.todo.before, fr, Len(fr) - 1),
         Shape(st2, [fr EXCEPT ![Len(fr)] = g], Len(fr))
  PROVE  Aligned(st2, [fr EXCEPT ![Len(fr)] = g])
<1> DEFINE n == Len(fr)
           fr2 == [fr EXCEPT ![n] = g]
<1>1. IsList(fr) /\ n \in Nat \ {0} /\ n - 1 \in Nat /\ n \in DOMAIN fr /\ DOMAIN fr = 1 .. n
  BY ListFacts DEF Aligned
<1>2. IsList(fr2) /\ Len(fr2) = n /\ fr2[n] = g /\ \A k \in 1 .. n : k # n => fr2[k] = fr[k]
  BY <1>1, ListExcept
<1>h. /\ Shape(st2, fr2, n) /\ \A k \in 1 .. n : FrameFits(fr, k)
      /\ g.kind = fr[n].kind /\ g.tx = fr[n].tx /\ g.before = fr[n].before
      /\ g.kind = "ctest_script" /\ g.todo.running => Shape(g.todo.before, fr, n - 1)
  BY DEF Aligned
<1> HIDE DEF n, fr2
<1>3. (\A k \in 1 .. (n - 1) : fr2[k] = fr[k]) /\ (n # 1 => fr2[n - 1] = fr[n - 1])
  BY <1>1, <1>2
<1>4. ASSUME NEW k \in 1 .. (n - 1) PROVE FrameFits(fr2, k)
  <2>1. FrameFits(fr, k) /\ k \in Nat \ {0} /\ \A j \in 1 .. k : fr2[j] = fr[j]
    BY <1>1, <1>3, <1>h
  <2> QED
    BY <2>1, FitsBelow
<1>5. FrameFits(fr2, n)
  <2>1. FrameFits(fr, n)
    BY <1>1, <1>h
  <2>2. \A s : Shape(s, fr, n - 1) => Shape(s, fr2, n - 1)
    BY <1>1, <1>3, ShapeBelow
  <2> HIDE DEF FrameOK, Shape
  <2> QED
    BY <2>1, <2>2, <1>2, <1>3, <1>h DEF FrameFits
<1>6. \A k \in 1 .. n : FrameFits(fr2, k)
  <2>1. \A k \in 1 .. n : k = n \/ k \in 1 .. (n - 1)
    BY <1>1
  <2> QED
    BY <2>1, <1>4, <1>5
<1>7. Aligned(st2, fr2)
  BY <1>2, <1>6, <1>h DEF Aligned
<1> QED
  BY <1>7 DEF fr2, n

\* The innermost frame goes on, and keeps open what it did.
LEMMA RetopAlike ==
  ASSUME NEW st, NEW fr, Aligned(st, fr), Len(fr) > 0, NEW g, NEW st2, Same(st, st2),
         FrameOK(g), g.kind = fr[Len(fr)].kind, g.tx = fr[Len(fr)].tx, g.before = fr[Len(fr)].before,
         Alike(fr[Len(fr)], g),
         g.kind = "ctest_script" /\ g.todo.running =>
             fr[Len(fr)].todo.running /\ g.todo.before = fr[Len(fr)].todo.before
  PROVE  Aligned(st2, [fr EXCEPT ![Len(fr)] = g])
<1> DEFINE n == Len(fr)
           fr2 == [fr EXCEPT ![n] = g]
<1>1. IsList(fr) /\ n \in Nat \ {0} /\ n \in DOMAIN fr /\ DOMAIN fr = 1 .. n
  BY ListFacts DEF Aligned
<1>2. fr2[n] = g /\ \A k \in 1 .. n : k # n => fr2[k] = fr[k]
  BY <1>1, ListExcept
<1>3. \A k \in 1 .. n : Alike(fr[k], fr2[k])
  <2>1. ASSUME NEW k \in 1 .. n, k # n PROVE Alike(fr[k], fr2[k])
    BY <2>1, <1>2 DEF Alike
  <2>2. Alike(fr[n], fr2[n])
    BY <1>2
  <2> QED
    BY <2>1, <2>2
<1>4. Shape(st2, fr, n)
  BY ShapeSame DEF Aligned
<1> HIDE DEF fr2
<1>5. Shape(st2, fr2, n)
  BY <1>1, <1>3, <1>4, ShapeAlike
<1>6. g.kind = "ctest_script" /\ g.todo.running => Shape(g.todo.before, fr, n - 1)
  <2>1. FrameFits(fr, n)
    BY <1>1 DEF Aligned
  <2> QED
    BY <2>1 DEF FrameFits
<1>7. Shape(st2, [fr EXCEPT ![Len(fr)] = g], Len(fr))
  BY <1>5 DEF fr2
<1> HIDE DEF n
<1>8. g.kind = "ctest_script" /\ g.todo.running => Shape(g.todo.before, fr, Len(fr) - 1)
  BY <1>6 DEF n
<1> QED
  BY <1>7, <1>8, Retop

\* A new frame.
LEMMA PushFrame ==
  ASSUME NEW st, NEW fr, Aligned(st, fr), Len(fr) > 0, NEW g, NEW st2,
         FrameOK(g), g.kind # "top", g.tx => Shape(g.before, fr, Len(fr)),
         g.tx \/ g.kind = "deferred" \/ fr[Len(fr)].tx,
         g.kind = "ctest_script" => ~g.todo.running,
         Grown(st, st2, g), EndsWith(st2, g)
  PROVE  Aligned(st2, Append(fr, g))
<1> DEFINE n == Len(fr)
           fr2 == Append(fr, g)
<1>1. IsList(fr) /\ n \in Nat \ {0} /\ DOMAIN fr = 1 .. n
  BY ListFacts DEF Aligned
<1>2. IsList(fr2) /\ Len(fr2) = n + 1 /\ fr2[n + 1] = g /\ \A k \in 1 .. n : fr2[k] = fr[k]
  BY <1>1, ListAppend
<1>h. (g.tx => Shape(g.before, fr, n)) /\ (g.tx \/ g.kind = "deferred" \/ fr[n].tx)
  OBVIOUS
<1>3. Shape(st, fr, n) /\ \A k \in 1 .. n : FrameFits(fr, k)
  BY DEF Aligned
<1> HIDE DEF n, fr2
<1>4. \A s : Shape(s, fr, n) => Shape(s, fr2, n)
  BY <1>1, <1>2, ShapeBelow
<1>5. Shape(st2, fr2, n + 1)
  BY <1>1, <1>2, <1>3, <1>4, ShapePush
<1>6. ASSUME NEW k \in 1 .. n PROVE FrameFits(fr2, k)
  <2>1. FrameFits(fr, k) /\ k \in Nat \ {0} /\ \A j \in 1 .. k : fr2[j] = fr[j]
    BY <1>1, <1>2, <1>3
  <2> QED
    BY <2>1, FitsBelow
<1>7. FrameFits(fr2, n + 1)
  <2>1. n + 1 # 1 /\ (n + 1) - 1 = n /\ fr2[n] = fr[n]
    BY <1>1, <1>2
  <2> HIDE DEF FrameOK, Shape
  <2> QED
    BY <1>2, <1>4, <1>h, <2>1 DEF FrameFits
<1>8. \A k \in 1 .. (n + 1) : FrameFits(fr2, k)
  <2>1. \A k \in 1 .. (n + 1) : k = n + 1 \/ k \in 1 .. n
    BY <1>1
  <2> QED
    BY <2>1, <1>6, <1>7
<1>9. Aligned(st2, fr2)
  BY <1>2, <1>5, <1>8 DEF Aligned
<1> QED
  BY <1>9 DEF fr2

\* The innermost frame ends.
LEMMA PopFrame ==
  ASSUME NEW st, NEW fr, Aligned(st, fr), Len(fr) > 0, NEW st2, Shape(st2, fr, Len(fr) - 1)
  PROVE  Aligned(st2, Front(fr))
<1> DEFINE n == Len(fr)
           fr2 == Front(fr)
<1>1. IsList(fr) /\ n \in Nat \ {0} /\ n - 1 \in Nat /\ DOMAIN fr = 1 .. n
  BY ListFacts DEF Aligned
<1>2. IsList(fr2) /\ Len(fr2) = n - 1 /\ \A k \in 1 .. (n - 1) : fr2[k] = fr[k]
  BY <1>1, ListFront
<1>3. Shape(st2, fr, n - 1) /\ \A k \in 1 .. n : FrameFits(fr, k)
  BY DEF Aligned
<1> HIDE DEF n, fr2
<1>4. Shape(st2, fr2, n - 1)
  BY <1>1, <1>2, <1>3, ShapeBelow
<1>5. ASSUME NEW k \in 1 .. (n - 1) PROVE FrameFits(fr2, k)
  <2>1. FrameFits(fr, k) /\ k \in Nat \ {0} /\ \A j \in 1 .. k : fr2[j] = fr[j]
    BY <1>1, <1>2, <1>3
  <2> QED
    BY <2>1, FitsBelow
<1>6. Aligned(st2, fr2)
  BY <1>2, <1>4, <1>5 DEF Aligned
<1> QED
  BY <1>6 DEF fr2

-----------------------------------------------------------------------------
(***************************************************************************)
(* What the operations on the session leave as it was.                     *)
(***************************************************************************)

\* A session has the stacks it has.
LEMMA SameItself == \A st : Same(st, st)
BY DEF Same

\* Two steps that leave the stacks as they were leave them so together.
LEMMA SameTrans == \A a, b, c : Same(a, b) /\ Same(b, c) => Same(a, c)
BY DEF Same

\* A change of something else.
LEMMA SameOther == \A st, f, x : f \notin Kept => Same(st, [st EXCEPT ![f] = x])
<1> SUFFICES ASSUME NEW st, NEW f, NEW x, f \notin Kept, Formed(st)
             PROVE  Same(st, [st EXCEPT ![f] = x])
  BY DEF Same
<1> DEFINE t == [st EXCEPT ![f] = x]
<1>1. DOMAIN t = DOMAIN st /\ Kept \subseteq DOMAIN st
  BY DEF Formed
<1>2. \A g \in Kept : t[g] = st[g]
  BY <1>1
<1>3. t.scopes = st.scopes /\ t.deferred = st.deferred /\ t.finding = st.finding /\ t.making = st.making
  BY <1>2 DEF Kept
<1> HIDE DEF t
<1>4. Formed(t) /\ QueueDirs(t) = QueueDirs(st)
  BY <1>1, <1>3 DEF Formed, QueueDirs
<1>5. Same(st, t)
  BY <1>3, <1>4 DEF Same
<1> QED
  BY <1>5 DEF t

\* Another list of scopes, as long as the one there was.
LEMMA SameScopes ==
  ASSUME NEW st, NEW list, Formed(st) => IsList(list) /\ Len(list) = Len(st.scopes)
  PROVE  Same(st, [st EXCEPT !.scopes = list])
<1> SUFFICES ASSUME Formed(st)
             PROVE  Same(st, [st EXCEPT !.scopes = list])
  BY DEF Same
<1> DEFINE t == [st EXCEPT !.scopes = list]
<1>1. DOMAIN t = DOMAIN st /\ Kept \subseteq DOMAIN st
  BY DEF Formed
<1>2. t.scopes = list /\ t.deferred = st.deferred /\ t.finding = st.finding /\ t.making = st.making
  BY <1>1 DEF Kept
<1> HIDE DEF t
<1>3. Formed(t) /\ QueueDirs(t) = QueueDirs(st)
  BY <1>1, <1>2 DEF Formed, QueueDirs
<1>4. Same(st, t)
  BY <1>2, <1>3 DEF Same
<1> QED
  BY <1>4 DEF t

\* Another scope in the place of one.
LEMMA SameScope == \A st, k, x : Same(st, [st EXCEPT !.scopes[k] = x])
<1> SUFFICES ASSUME NEW st, NEW k, NEW x PROVE Same(st, [st EXCEPT !.scopes[k] = x])
  OBVIOUS
<1> DEFINE list == [st.scopes EXCEPT ![k] = x]
<1>1. Formed(st) => IsList(list) /\ Len(list) = Len(st.scopes)
  <2> SUFFICES ASSUME Formed(st) PROVE IsList(list) /\ Len(list) = Len(st.scopes)
    OBVIOUS
  <2>1. PICK s : s = st.scopes
    OBVIOUS
  <2>2. IsList(s)
    BY <2>1 DEF Formed
  <2>3. IsList([s EXCEPT ![k] = x]) /\ Len([s EXCEPT ![k] = x]) = Len(s)
    BY <2>2, ListExcept
  <2> QED
    BY <2>1, <2>3
<1> HIDE DEF list
<1>2. Same(st, [st EXCEPT !.scopes = list])
  BY <1>1, SameScopes
<1> QED
  BY <1>2 DEF list

\* The operations on variables.
LEMMA SameSet ==
  /\ \A st, k, v, x : Same(st, SetAt(st, k, v, x))
  /\ \A st, v, x : Same(st, Set(st, v, x))
  /\ \A st, v, x : Same(st, SetIf(st, v, x))
  /\ \A st, v : Same(st, Unset(st, v))
  /\ \A st, v : Same(st, UnsetIf(st, v))
  /\ \A st, w : Same(st, Publish(st, w))
<1>1. \A st, k, v, x : Same(st, SetAt(st, k, v, x))
  BY SameScope DEF SetAt
<1>2. \A st, v, x : Same(st, Set(st, v, x))
  BY <1>1 DEF Set
<1>3. \A st, v, x : Same(st, SetIf(st, v, x))
  BY <1>2, SameItself DEF SetIf
<1>4. \A st, v : Same(st, Unset(st, v))
  BY SameScope DEF Unset
<1>5. \A st, v : Same(st, UnsetIf(st, v))
  BY <1>4, SameItself DEF UnsetIf
<1>6. \A st, w : Same(st, Publish(st, w))
  BY <1>2 DEF Publish
<1> QED
  BY <1>1, <1>2, <1>3, <1>4, <1>5, <1>6

\* The same after another operation.
LEMMA SameAfter ==
  /\ \A a, st, k, v, x : Same(a, st) => Same(a, SetAt(st, k, v, x))
  /\ \A a, st, v, x : Same(a, st) => Same(a, Set(st, v, x))
  /\ \A a, st, v, x : Same(a, st) => Same(a, SetIf(st, v, x))
  /\ \A a, st, v : Same(a, st) => Same(a, Unset(st, v))
  /\ \A a, st, v : Same(a, st) => Same(a, UnsetIf(st, v))
  /\ \A a, st, w : Same(a, st) => Same(a, Publish(st, w))
  /\ \A a, st, f, x : Same(a, st) /\ f \notin Kept => Same(a, [st EXCEPT ![f] = x])
BY SameSet, SameOther, SameTrans

\* A directory that becomes known.
LEMMA SameRegistered == \A st, w, dir : Same(st, Registered(st, w, dir))
<1> SUFFICES ASSUME NEW st, NEW w, NEW dir PROVE Same(st, Registered(st, w, dir))
  OBVIOUS
<1>1. "dirs" \notin Kept
  BY DEF Kept
<1>2. \A x : Same(st, [st EXCEPT !.dirs = x])
  BY <1>1, SameOther
<1> QED
  BY <1>2 DEF Registered

\* The variables of a directory, kept for later.
LEMMA SameCaptured == \A st, w : Same(st, ScopeCaptured(st, w))
<1> SUFFICES ASSUME NEW st, NEW w PROVE Same(st, ScopeCaptured(st, w))
  OBVIOUS
<1>1. "dirs" \notin Kept
  BY DEF Kept
<1>2. \A s, x : Same(s, [s EXCEPT !.dirs = x])
  BY <1>1, SameOther
<1>3. \A dir, x : Same(st, [Registered(st, w, dir) EXCEPT !.dirs = x])
  BY <1>2, SameRegistered, SameTrans
<1> QED
  BY <1>3 DEF ScopeCaptured

\* The end of a transaction whose command left the stacks as they were.
LEMMA SameSettle == \A before, after, ok, preserve : Same(before, after) => Same(before, Settle(before, after, ok, preserve))
<1> SUFFICES ASSUME NEW before, NEW after, NEW ok, NEW preserve, Same(before, after)
             PROVE  Same(before, Settle(before, after, ok, preserve))
  OBVIOUS
<1> DEFINE list == SubSeq(after.scopes, 1, Len(before.scopes))
<1>1. Formed(before) => IsList(list) /\ Len(list) = Len(before.scopes)
  <2> SUFFICES ASSUME Formed(before) PROVE IsList(list) /\ Len(list) = Len(before.scopes)
    OBVIOUS
  <2>1. IsList(after.scopes) /\ Len(after.scopes) = Len(before.scopes)
    BY DEF Same, Formed
  <2>2. Len(before.scopes) \in 0 .. Len(after.scopes)
    BY <2>1, ListFacts
  <2> QED
    BY <2>1, <2>2, ListPrefix
<1> HIDE DEF list
<1>2. Same(before, [before EXCEPT !.scopes = list])
  BY <1>1, SameScopes
<1> QED
  BY <1>2, SameItself DEF Settle, list

-----------------------------------------------------------------------------
(***************************************************************************)
(* Commands that run no other command.                                     *)
(***************************************************************************)

\* What a handler leaves may be changed in anything but the session.
LEMMA KeepsExcept == \A out, f, x : Keeps(out) /\ f # "st" => Keeps([out EXCEPT ![f] = x])
<1> SUFFICES ASSUME NEW out, NEW f, NEW x, Keeps(out), f # "st" PROVE Keeps([out EXCEPT ![f] = x])
  OBVIOUS
<1>1. [out EXCEPT ![f] = x].st = out.st /\ "st" \in DOMAIN [out EXCEPT ![f] = x]
  BY DEF Keeps
<1> QED
  BY <1>1 DEF Keeps

\* The ways handlers end.
LEMMA KeepsDone ==
  /\ \A st : Same(now, st) => Keeps(Done(st))
  /\ Keeps(Done(now))
  /\ Keeps(Wrong)
  /\ \A cond, st : Same(now, st) => Keeps(DoneIf(cond, st))
<1>1. \A st : Done(st).st = st /\ "st" \in DOMAIN Done(st)
  BY DEF Done
<1>2. \A st : Same(now, st) => Keeps(Done(st))
  BY <1>1 DEF Keeps
<1>3. Keeps(Done(now))
  BY <1>2, SameItself
<1>4. Keeps(Wrong)
  BY <1>3, KeepsExcept DEF Wrong
<1>5. \A cond, st : Same(now, st) => Keeps(DoneIf(cond, st))
  BY <1>2, <1>4 DEF DoneIf
<1> QED
  BY <1>2, <1>3, <1>4, <1>5

\* The same, with a change of the file tree.
LEMMA KeepsEffect ==
  /\ \A ok, st, disk, acts : Same(now, st) => Keeps(Effect(ok, st, disk, acts))
  /\ \A ok, st, disk : Same(now, st) => Keeps(Unrecorded(ok, st, disk))
<1>1. ASSUME NEW ok, NEW st, NEW disk, NEW acts, Same(now, st) PROVE Keeps(Effect(ok, st, disk, acts))
  <2>1. Keeps(Done(st))
    BY <1>1, KeepsDone
  <2> QED
    BY <2>1, KeepsExcept DEF Effect
<1>2. ASSUME NEW ok, NEW st, NEW disk, Same(now, st) PROVE Keeps(Unrecorded(ok, st, disk))
  <2>1. Keeps(Effect(ok, st, disk, <<>>))
    BY <1>1, <1>2
  <2> QED
    BY <2>1, KeepsExcept DEF Unrecorded
<1> QED
  BY <1>1, <1>2

\* A stack that is not empty.
LEMMA NotEmpty ==
  ASSUME NEW fr, IsList(fr), fr # <<>>
  PROVE  Len(fr) > 0 /\ Len(fr) \in DOMAIN fr /\ Last(fr) = fr[Len(fr)]
<1>1. fr \in Seq(ToSet(fr)) /\ Len(fr) \in Nat /\ DOMAIN fr = 1 .. Len(fr)
  BY DEF IsList
<1>2. Len(fr) # 0
  <2> SUFFICES ASSUME Len(fr) = 0 PROVE FALSE
    OBVIOUS
  <2>1. fr = <<>>
    BY <1>1
  <2> QED
    BY <2>1
<1> QED
  BY <1>1, <1>2 DEF Last

\* The commands the innermost frame has left may change.
LEMMA NewRest ==
  ASSUME NEW st, NEW fr, Aligned(st, fr), Len(fr) > 0, NEW st2, Same(st, st2), NEW r
  PROVE  Aligned(st2, [fr EXCEPT ![Len(fr)].rest = r])
<1> DEFINE n == Len(fr)
           f == fr[n]
           g == [f EXCEPT !.rest = r]
<1>1. IsList(fr) /\ n \in 1 .. n /\ FrameFits(fr, n)
  BY ListFacts DEF Aligned
<1>2. FrameOK(f) /\ DOMAIN f = FrameFields
  BY <1>1 DEF FrameFits, FrameOK
<1> HIDE DEF f
<1>3. /\ DOMAIN g = FrameFields
      /\ g.kind = f.kind /\ g.cmd = f.cmd /\ g.tx = f.tx /\ g.before = f.before /\ g.dir = f.dir /\ g.todo = f.todo
  BY <1>2 DEF FrameFields
<1> HIDE DEF g
<1>4. FrameOK(g)
  BY <1>2, <1>3 DEF FrameOK
<1>5. Alike(f, g)
  BY <1>3 DEF Alike, HasScope, HasQueue, IsFinding, IsMaking, InNewProcess
<1>6. Aligned(st2, [fr EXCEPT ![Len(fr)] = g])
  BY <1>3, <1>4, <1>5, RetopAlike DEF f
<1> QED
  BY <1>6 DEF g, f

\* A command that runs no other one leaves the session in step.
LEMMA LeafKeeps ==
  ASSUME SessionInv, frames # <<>>, NEW c, NEW cmd, NEW out, Keeps(out), Leaf(c, cmd, out)
  PROVE  SessionInv'
<1>1. Len(frames) > 0
  BY NotEmpty DEF SessionInv, Aligned
<1>2. Same(now, Settle(now, out.st, out.ok, out.preserve))
  BY SameSettle DEF Keeps
<1>3. now' = Settle(now, out.st, out.ok, out.preserve) /\ frames' = Ahead
  BY DEF Leaf
<1>4. Aligned(now', frames')
  BY <1>1, <1>2, <1>3, NewRest DEF SessionInv, Ahead
<1> QED
  BY <1>4 DEF SessionInv

\* A change of a field the invariant is not about, by name.
LEMMA SameField ==
  /\ \A a, st, x : Same(a, st) => Same(a, [st EXCEPT !.cache = x])
  /\ \A a, st, x : Same(a, st) => Same(a, [st EXCEPT !.commands = x])
  /\ \A a, st, x : Same(a, st) => Same(a, [st EXCEPT !.watched = x])
  /\ \A a, st, x : Same(a, st) => Same(a, [st EXCEPT !.next_call = x])
  /\ \A a, st, x : Same(a, st) => Same(a, [st EXCEPT !.ids = x])
  /\ \A a, st, x : Same(a, st) => Same(a, [st EXCEPT !.jobs = x])
  /\ \A a, st, x : Same(a, st) => Same(a, [st EXCEPT !.targets = x])
  /\ \A a, st, x : Same(a, st) => Same(a, [st EXCEPT !.tests = x])
  /\ \A a, st, x : Same(a, st) => Same(a, [st EXCEPT !.dirs = x])
  /\ \A a, st, x : Same(a, st) => Same(a, [st EXCEPT !.props = x])
  /\ \A a, st, x : Same(a, st) => Same(a, [st EXCEPT !.defs = x])
  /\ \A a, st, x : Same(a, st) => Same(a, [st EXCEPT !.modules = x])
  /\ \A a, st, x : Same(a, st) => Same(a, [st EXCEPT !.provider = x])
  /\ \A a, st, x : Same(a, st) => Same(a, [st EXCEPT !.found = x])
  /\ \A a, st, x : Same(a, st) => Same(a, [st EXCEPT !.missing = x])
  /\ \A a, st, x : Same(a, st) => Same(a, [st EXCEPT !.registry = x])
  /\ \A a, st, x : Same(a, st) => Same(a, [st EXCEPT !.decls = x])
  /\ \A a, st, x : Same(a, st) => Same(a, [st EXCEPT !.states = x])
  /\ \A a, st, x : Same(a, st) => Same(a, [st EXCEPT !.env = x])
  /\ \A a, st, x : Same(a, st) => Same(a, [st EXCEPT !.steps = x])
<1>2. \A a, st, x : Same(a, st) => Same(a, [st EXCEPT !.cache = x])
  <2>1. "cache" \notin Kept
    BY DEF Kept
  <2> QED
    BY <2>1, SameAfter
<1>3. \A a, st, x : Same(a, st) => Same(a, [st EXCEPT !.commands = x])
  <2>1. "commands" \notin Kept
    BY DEF Kept
  <2> QED
    BY <2>1, SameAfter
<1>4. \A a, st, x : Same(a, st) => Same(a, [st EXCEPT !.watched = x])
  <2>1. "watched" \notin Kept
    BY DEF Kept
  <2> QED
    BY <2>1, SameAfter
<1>5. \A a, st, x : Same(a, st) => Same(a, [st EXCEPT !.next_call = x])
  <2>1. "next_call" \notin Kept
    BY DEF Kept
  <2> QED
    BY <2>1, SameAfter
<1>6. \A a, st, x : Same(a, st) => Same(a, [st EXCEPT !.ids = x])
  <2>1. "ids" \notin Kept
    BY DEF Kept
  <2> QED
    BY <2>1, SameAfter
<1>7. \A a, st, x : Same(a, st) => Same(a, [st EXCEPT !.jobs = x])
  <2>1. "jobs" \notin Kept
    BY DEF Kept
  <2> QED
    BY <2>1, SameAfter
<1>8. \A a, st, x : Same(a, st) => Same(a, [st EXCEPT !.targets = x])
  <2>1. "targets" \notin Kept
    BY DEF Kept
  <2> QED
    BY <2>1, SameAfter
<1>9. \A a, st, x : Same(a, st) => Same(a, [st EXCEPT !.tests = x])
  <2>1. "tests" \notin Kept
    BY DEF Kept
  <2> QED
    BY <2>1, SameAfter
<1>10. \A a, st, x : Same(a, st) => Same(a, [st EXCEPT !.dirs = x])
  <2>1. "dirs" \notin Kept
    BY DEF Kept
  <2> QED
    BY <2>1, SameAfter
<1>11. \A a, st, x : Same(a, st) => Same(a, [st EXCEPT !.props = x])
  <2>1. "props" \notin Kept
    BY DEF Kept
  <2> QED
    BY <2>1, SameAfter
<1>12. \A a, st, x : Same(a, st) => Same(a, [st EXCEPT !.defs = x])
  <2>1. "defs" \notin Kept
    BY DEF Kept
  <2> QED
    BY <2>1, SameAfter
<1>13. \A a, st, x : Same(a, st) => Same(a, [st EXCEPT !.modules = x])
  <2>1. "modules" \notin Kept
    BY DEF Kept
  <2> QED
    BY <2>1, SameAfter
<1>14. \A a, st, x : Same(a, st) => Same(a, [st EXCEPT !.provider = x])
  <2>1. "provider" \notin Kept
    BY DEF Kept
  <2> QED
    BY <2>1, SameAfter
<1>15. \A a, st, x : Same(a, st) => Same(a, [st EXCEPT !.found = x])
  <2>1. "found" \notin Kept
    BY DEF Kept
  <2> QED
    BY <2>1, SameAfter
<1>16. \A a, st, x : Same(a, st) => Same(a, [st EXCEPT !.missing = x])
  <2>1. "missing" \notin Kept
    BY DEF Kept
  <2> QED
    BY <2>1, SameAfter
<1>17. \A a, st, x : Same(a, st) => Same(a, [st EXCEPT !.registry = x])
  <2>1. "registry" \notin Kept
    BY DEF Kept
  <2> QED
    BY <2>1, SameAfter
<1>18. \A a, st, x : Same(a, st) => Same(a, [st EXCEPT !.decls = x])
  <2>1. "decls" \notin Kept
    BY DEF Kept
  <2> QED
    BY <2>1, SameAfter
<1>19. \A a, st, x : Same(a, st) => Same(a, [st EXCEPT !.states = x])
  <2>1. "states" \notin Kept
    BY DEF Kept
  <2> QED
    BY <2>1, SameAfter
<1>20. \A a, st, x : Same(a, st) => Same(a, [st EXCEPT !.env = x])
  <2>1. "env" \notin Kept
    BY DEF Kept
  <2> QED
    BY <2>1, SameAfter
<1>21. \A a, st, x : Same(a, st) => Same(a, [st EXCEPT !.steps = x])
  <2>1. "steps" \notin Kept
    BY DEF Kept
  <2> QED
    BY <2>1, SameAfter
<1> QED
  BY <1>2, <1>3, <1>4, <1>5, <1>6, <1>7, <1>8, <1>9, <1>10, <1>11, <1>12, <1>13, <1>14, <1>15, <1>16, <1>17, <1>18, <1>19, <1>20, <1>21

\* The calls of a queue may change.
LEMMA SameQueue == \A a, st, k, x : Same(a, st) => Same(a, [st EXCEPT !.deferred[k].calls = x])
<1>a. SUFFICES \A st, k, x : Same(st, [st EXCEPT !.deferred[k].calls = x])
  BY SameTrans
<1> SUFFICES ASSUME NEW st, NEW k, NEW x, Formed(st) PROVE Same(st, [st EXCEPT !.deferred[k].calls = x])
  BY DEF Same
<1> DEFINE q == st.deferred
           r == [q[k] EXCEPT !.calls = x]
           p == [q EXCEPT ![k] = r]
           t == [st EXCEPT !.deferred = p]
<1>1. IsList(q) /\ \A j \in DOMAIN q : "dir" \in DOMAIN q[j]
  BY DEF Formed
<1>2. k \in DOMAIN q => r.dir = q[k].dir /\ "dir" \in DOMAIN r
  BY <1>1
<1> HIDE DEF q, r
<1>3. IsList(p) /\ DOMAIN p = DOMAIN q /\ \A j \in DOMAIN q : p[j] = IF j = k THEN r ELSE q[j]
  BY <1>1, ListExcept
<1> HIDE DEF p
<1>4. \A j \in DOMAIN p : p[j].dir = q[j].dir /\ "dir" \in DOMAIN p[j]
  BY <1>1, <1>2, <1>3
<1>5. DOMAIN t = DOMAIN st /\ Kept \subseteq DOMAIN st
  BY DEF Formed
<1>6. t.scopes = st.scopes /\ t.deferred = p /\ t.finding = st.finding /\ t.making = st.making
  BY <1>5 DEF Kept
<1> HIDE DEF t
<1>7. Formed(t)
  BY <1>3, <1>4, <1>5, <1>6 DEF Formed
<1>8. QueueDirs(t) = QueueDirs(st)
  BY <1>3, <1>4, <1>6 DEF QueueDirs, q
<1>9. Same(st, t)
  BY <1>6, <1>7, <1>8 DEF Same
<1> QED
  BY <1>9 DEF t, p, r, q

\* The variables, functions and files of a script.
LEMMA CoreLeaves ==
  ASSUME SessionInv, frames # <<>>, NEW c,
         \/ MinimumRequired(c) \/ CmakePolicy(c)
         \/ SetVariable(c) \/ UnsetVariable(c) \/ OptionCommand(c) \/ MarkAsAdvanced(c) \/ VariableWatch(c)
         \/ ErrorCommand(c) \/ UnknownCommand(c) \/ AddTarget(c) \/ DefineCommand(c)
         \/ DeferCall(c) \/ DeferCancel(c) \/ DeferGet(c) \/ SetProvider(c)
         \/ FileGenerate(c) \/ FileWrite(c) \/ FileLock(c)
  PROVE  SessionInv'
<1>1. ASSUME NEW d, NEW st, NEW floor, Same(now, st) PROVE Keeps(PolicyVersion(d, st, floor))
  <2>1. \A v, x : Keeps(Done(Set(st, v, x)))
    BY <1>1, KeepsDone, SameAfter
  <2> QED
    BY <2>1, KeepsDone, KeepsExcept DEF PolicyVersion
<1>2. CASE MinimumRequired(c)
  <2>1. \A x : Keeps(PolicyVersion(c, Set(now, "CMAKE_MINIMUM_REQUIRED_VERSION", x), PolicyFloor))
    BY <1>1, SameSet
  <2> QED
    BY <1>2, <2>1, LeafKeeps DEF MinimumRequired
<1>3. CASE CmakePolicy(c)
  <2>1. Keeps(PolicyVersion(c, now, PolicyFloor))
    BY <1>1, SameItself
  <2>2. \A cond, v, x : Keeps(DoneIf(cond, Set(now, v, x)))
    BY KeepsDone, SameSet
  <2>3. \A x : Keeps([Done(now) EXCEPT !.world = x])
    BY KeepsDone, KeepsExcept
  <2> QED
    BY <1>3, <2>1, <2>2, <2>3, KeepsDone, LeafKeeps DEF CmakePolicy
<1>4. CASE SetVariable(c)
  <2>1. Same(now, SetCache(c))
    BY SameSet, SameItself, SameField DEF SetCache
  <2>2. \A k, v, x : Keeps(Done(SetAt(now, k, v, x))) /\ Keeps(Done(Set(now, v, x))) /\ Keeps(Done(Unset(now, v)))
    BY SameSet, KeepsDone
  <2> QED
    BY <1>4, <2>1, <2>2, KeepsDone, LeafKeeps DEF SetVariable
<1>5. CASE UnsetVariable(c)
  <2>1. \A x : Keeps(Done([now EXCEPT !.cache = x]))
    BY SameItself, SameField, KeepsDone
  <2>2. \A k, x : Keeps(Done([now EXCEPT !.scopes[k] = x]))
    BY SameScope, KeepsDone
  <2>3. \A v : Keeps(Done(Unset(now, v)))
    BY SameSet, KeepsDone
  <2> QED
    BY <1>5, <2>1, <2>2, <2>3, KeepsDone, LeafKeeps DEF UnsetVariable
<1>6. CASE OptionCommand(c)
  <2>1. \A k, x, y : Keeps(Done([now EXCEPT !.scopes[k] = x])) /\ Keeps(Done([[now EXCEPT !.scopes[k] = x] EXCEPT !.cache = y]))
    BY SameScope, SameField, KeepsDone
  <2>2. \A y : Keeps(Done([now EXCEPT !.cache = y]))
    BY SameItself, SameField, KeepsDone
  <2> QED
    BY <1>6, <2>1, <2>2, KeepsDone, LeafKeeps DEF OptionCommand
<1>7. CASE MarkAsAdvanced(c)
  <2>1. \A y : Keeps(Done([now EXCEPT !.cache = y]))
    BY SameItself, SameField, KeepsDone
  <2> QED
    BY <1>7, <2>1, KeepsDone, LeafKeeps DEF MarkAsAdvanced
<1>8. CASE VariableWatch(c)
  <2>1. \A y : Keeps(Done([now EXCEPT !.watched = y]))
    BY SameItself, SameField, KeepsDone
  <2> QED
    BY <1>8, <2>1, LeafKeeps DEF VariableWatch
<1>9. CASE ErrorCommand(c)
  BY <1>9, KeepsDone, LeafKeeps DEF ErrorCommand
<1>10. CASE UnknownCommand(c)
  BY <1>10, KeepsDone, LeafKeeps DEF UnknownCommand
<1>11. CASE AddTarget(c)
  <2>1. \A w, d, x : Keeps(Done([Registered(now, w, d) EXCEPT !.targets = x]))
    BY SameRegistered, SameField, KeepsDone
  <2>2. \A w, d, x, y, z : Keeps([Done([Registered(now, w, d) EXCEPT !.targets = x]) EXCEPT !.world = y, !.events = z])
    BY <2>1, KeepsExcept
  <2> QED
    BY <1>11, <2>2, KeepsDone, LeafKeeps DEF AddTarget
<1>12. CASE DefineCommand(c)
  <2>1. \A y : Keeps(Done([now EXCEPT !.commands = y]))
    BY SameItself, SameField, KeepsDone
  <2> QED
    BY <1>12, <2>1, LeafKeeps DEF DefineCommand
<1>13. CASE DeferCall(c)
  <2> DEFINE fresh == IF c.id # None THEN now ELSE [now EXCEPT !.next_call = @ + 1]
             id == IF c.id # None THEN c.id ELSE GeneratedId(fresh)
             st == IF c.id # None THEN now ELSE [fresh EXCEPT !.ids = @ \cup {id}]
             k == DeferDirectory(c.dir)
             entry == [id |-> id, call |-> c.call, serial |-> Len(stream) + Len(calls_run)]
             out == [Done(SetIf([st EXCEPT !.deferred[k].calls = Append(@, entry)], c.id_var, id)) EXCEPT
                        !.events = <<[type |-> "DEFER_QUEUE", serial |-> entry.serial]>>]
  <2>1. Same(now, st)
    <3>1. \A i, j : Same(now, [[now EXCEPT !.next_call = i] EXCEPT !.ids = j])
      BY SameItself, SameField
    <3> QED
      BY <3>1, SameItself
  <2>2. \A x, v, y, e : Keeps([Done(SetIf([st EXCEPT !.deferred[k].calls = x], v, y)) EXCEPT !.events = e])
    <3> HIDE DEF st, k
    <3> QED
      BY <2>1, SameQueue, SameAfter, KeepsDone, KeepsExcept
  <2>3. Keeps(out)
    <3> HIDE DEF st, k, id
    <3> QED
      BY <2>2
  <2>4. Leaf(c, "defer", IF k = 0 \/ c.disallowed \/ ~ValidId(st, id) THEN Wrong ELSE out)
    BY <1>13 DEF DeferCall
  <2> HIDE DEF out, k, st, id
  <2> QED
    BY <2>3, <2>4, KeepsDone, LeafKeeps
<1>14. CASE DeferCancel(c)
  <2>1. \A k, x : Keeps(Done([now EXCEPT !.deferred[k].calls = x]))
    BY SameItself, SameQueue, KeepsDone
  <2> QED
    BY <1>14, <2>1, KeepsDone, LeafKeeps DEF DeferCancel
<1>15. CASE DeferGet(c)
  <2>1. \A v, x : Keeps(Done(Set(now, v, x)))
    BY SameSet, KeepsDone
  <2> QED
    BY <1>15, <2>1, KeepsDone, LeafKeeps DEF DeferGet
<1>16. CASE SetProvider(c)
  <2>1. \A x : Keeps(Done([now EXCEPT !.provider = x])) /\ \A cond : Keeps(DoneIf(cond, [now EXCEPT !.provider = x]))
    BY SameItself, SameField, KeepsDone
  <2> QED
    BY <1>16, <2>1, KeepsDone, LeafKeeps DEF SetProvider
<1>17. CASE FileGenerate(c)
  <2>1. \A cond, x : Keeps(DoneIf(cond, [now EXCEPT !.jobs = x]))
    BY SameItself, SameField, KeepsDone
  <2> QED
    BY <1>17, <2>1, LeafKeeps DEF FileGenerate
<1>18. CASE FileWrite(c)
  BY <1>18, SameItself, KeepsEffect, LeafKeeps DEF FileWrite
<1>19. CASE FileLock(c)
  <2>1. \A ok, x, y, disk : Keeps(Unrecorded(ok, SetIf(now, x, y), disk))
    BY SameSet, KeepsEffect
  <2>2. \A x, y, disk, acts, w : Keeps([Effect(TRUE, SetIf(now, x, y), disk, acts) EXCEPT !.world = w])
    BY SameSet, KeepsEffect, KeepsExcept
  <2>3. \A text, disk : Keeps(LockTrouble(c, text, disk))
    BY <2>1 DEF LockTrouble
  <2>4. Keeps(LockRelease(c))
    BY <2>2 DEF LockRelease
  <2> QED
    BY <1>19, <2>2, <2>3, <2>4, LeafKeeps DEF FileLock
<1> QED
  BY <1>2, <1>3, <1>4, <1>5, <1>6, <1>7, <1>8, <1>9, <1>10, <1>11, <1>12, <1>13, <1>14, <1>15, <1>16, <1>17, <1>18, <1>19

\* The files of a script: file() and the commands like it.
LEMMA FileLeaves ==
  ASSUME SessionInv, frames # <<>>, NEW c, FileCommand(c)
  PROVE  SessionInv'
<1>1. \A v, x : Keeps(Done(Set(now, v, x))) /\ \A cond : Keeps(DoneIf(cond, Set(now, v, x)))
  BY SameSet, KeepsDone
<1>2. \A ok, disk, acts : Keeps(Effect(ok, now, disk, acts)) /\ Keeps(Unrecorded(ok, now, disk))
  BY SameItself, KeepsEffect
<1>3. \A ok, disk, acts, v, x : Keeps(Effect(ok, SetIf(now, v, x), disk, acts)) /\ Keeps(Unrecorded(ok, SetIf(now, v, x), disk))
  BY SameSet, KeepsEffect
<1>4. CASE FileRead(c)
  BY <1>4, <1>1, KeepsDone, LeafKeeps DEF FileRead
<1>5. CASE FileStrings(c)
  BY <1>5, <1>1, KeepsDone, LeafKeeps DEF FileStrings
<1>6. CASE FileAsk(c)
  BY <1>6, <1>1, KeepsDone, LeafKeeps DEF FileAsk
<1>7. CASE FileReadSymlink(c)
  BY <1>7, <1>1, KeepsDone, LeafKeeps DEF FileReadSymlink
<1>8. CASE FileRealPath(c)
  BY <1>8, <1>1, KeepsDone, LeafKeeps DEF FileRealPath
<1>9. CASE FileRelativePath(c)
  BY <1>9, <1>1, KeepsDone, LeafKeeps DEF FileRelativePath
<1>10. CASE FileGlob(c)
  BY <1>10, <1>1, KeepsDone, LeafKeeps DEF FileGlob
<1>11. CASE AuxSourceDirectory(c)
  BY <1>11, <1>1, KeepsDone, LeafKeeps DEF AuxSourceDirectory
<1>12. CASE FileMakeDirectory(c)
  BY <1>12, <1>2, KeepsDone, LeafKeeps DEF FileMakeDirectory
<1>13. CASE FileAppend(c)
  BY <1>13, <1>2, KeepsDone, LeafKeeps DEF FileAppend
<1>14. CASE FileRemove(c)
  BY <1>14, <1>2, KeepsDone, LeafKeeps DEF FileRemove
<1>15. CASE FileChmod(c)
  BY <1>15, <1>2, KeepsDone, LeafKeeps DEF FileChmod
<1>16. CASE FileCopy(c)
  BY <1>16, <1>2, KeepsDone, LeafKeeps DEF FileCopy
<1>17. CASE ConfigureFile(c)
  BY <1>17, <1>2, KeepsDone, LeafKeeps DEF ConfigureFile
<1>18. CASE FileConfigure(c)
  BY <1>18, <1>2, KeepsDone, LeafKeeps DEF FileConfigure
<1>19. CASE FileTouch(c)
  BY <1>19, <1>2, KeepsDone, LeafKeeps DEF FileTouch
<1>20. CASE FileArchiveCreate(c)
  BY <1>20, <1>2, KeepsDone, LeafKeeps DEF FileArchiveCreate
<1>21. CASE FileArchiveExtract(c)
  BY <1>21, <1>2, KeepsDone, LeafKeeps DEF FileArchiveExtract
<1>22. CASE FileRename(c)
  BY <1>22, <1>3, KeepsDone, LeafKeeps DEF FileRename
<1>23. CASE FileCopyFile(c)
  BY <1>23, <1>3, KeepsDone, LeafKeeps DEF FileCopyFile
<1>24. CASE FileCreateLink(c)
  <2> DEFINE linked == LinkMade(WithParent(world.disk, c.dst), c.src, c.dst, c.symbolic, c.copy)
             act == Action("FS_CREATE_LINK", FilesystemPhase, <<c.src>>, <<c.dst>>, <<>>,
                           <<Flag(c.symbolic), Flag(c.copy), Flag(c.result # None)>>)
             eff == Effect(TRUE, SetIf(now, c.result, "0"), linked.disk, <<act>>)
             out == [eff EXCEPT !.world.gap = IF c.symbolic THEN @ \cup {"symbolic link"} ELSE @]
             failed == Effect(c.result # None, SetIf(now, c.result, "1"), linked.disk, <<>>)
  <2>1. Keeps(eff) /\ Keeps(failed)
    BY <1>3, Zenon
  <2>2. Keeps(out)
    <3> HIDE DEF eff
    <3> QED
      BY <2>1, KeepsExcept
  <2>3. Leaf(c, "file_create_link",
             IF ~CanMkdir(world.disk, Front(c.dst)) THEN Done(now) ELSE IF linked.ok THEN out ELSE failed)
    BY <1>24, Zenon DEF FileCreateLink
  <2> HIDE DEF linked, out, failed
  <2> QED
    BY <2>1, <2>2, <2>3, KeepsDone, LeafKeeps
<1>25. CASE FileDownload(c)
  <2>1. \A d : Keeps(TransferFails(c, d))
    BY <1>3 DEF TransferFails
  <2>2. \A d, acts : Keeps(TransferDone(c, d, acts))
    BY <1>3 DEF TransferDone
  <2>3. \A d, acts, w : Keeps([TransferDone(c, d, acts) EXCEPT !.world = w])
    BY <2>2, KeepsExcept
  <2>4. \A text : Keeps(Downloaded(c, text))
    BY <2>1, <2>2 DEF Downloaded
  <2> QED
    BY <1>25, <2>1, <2>2, <2>3, <2>4, LeafKeeps DEF FileDownload
<1>26. CASE FileUpload(c)
  <2>1. \A d : Keeps(TransferFails(c, d))
    BY <1>3 DEF TransferFails
  <2>2. \A d, acts : Keeps(TransferDone(c, d, acts))
    BY <1>3 DEF TransferDone
  <2> QED
    BY <1>26, <1>3, <2>1, <2>2, LeafKeeps DEF FileUpload
<1> QED
  BY <1>4, <1>5, <1>6, <1>7, <1>8, <1>9, <1>10, <1>11, <1>12, <1>13, <1>14, <1>15, <1>16, <1>17, <1>18, <1>19, <1>20, <1>21, <1>22, <1>23, <1>24, <1>25, <1>26 DEF FileCommand

\* What the steps of a dashboard are made of.
LEMMA KeepsStep ==
  /\ \A c : Same(now, ResultVariables(c)) /\ Same(now, StepState(c))
  /\ \A st, build, model, group, append : Same(now, st) => Same(now, EnsureTag(st, build, model, group, append).st)
  /\ \A st, part, status, tag, report : Same(now, st) => Same(now, StepRecorded(st, part, status, tag, report))
  /\ \A c, part, st : Same(now, st) => Keeps(StepFailed(c, part, st))
  /\ \A c, part, status, st, content : Same(now, st) => Keeps(StepStaged(c, part, status, st, content))
  /\ \A c, part, status, st, content : Same(now, st) => Keeps(StagedOrFailed(c, part, status, st, content))
  /\ \A out, op : Keeps(out) => Keeps(TestDriver(out, op)) /\ Keeps(Replayed(out, op))
<1>1. \A c : Same(now, ResultVariables(c)) /\ Same(now, StepState(c))
  BY SameItself, SameAfter DEF ResultVariables, StepState
<1>2. ASSUME NEW st, NEW build, NEW model, NEW group, NEW append, Same(now, st)
      PROVE  Same(now, EnsureTag(st, build, model, group, append).st)
  <2>1. \A v1, x1, v2, x2, v3, x3, v4, x4 : Same(now, Set(Set(Set(Set(st, v1, x1), v2, x2), v3, x3), v4, x4))
    BY <1>2, SameAfter
  <2> QED
    BY <2>1 DEF EnsureTag
<1>3. ASSUME NEW st, NEW part, NEW status, NEW tag, NEW report, Same(now, st)
      PROVE  Same(now, StepRecorded(st, part, status, tag, report))
  <2>1. \A x, y, z : Same(now, Set(Set([st EXCEPT !.steps = x], "NOBIFY_CTEST_LAST_COMMAND", y), "NOBIFY_CTEST::STATUS", z))
    BY <1>3, SameField, SameAfter
  <2> QED
    BY <2>1 DEF StepRecorded, StepPublished
<1>4. ASSUME NEW c, NEW part, NEW st, Same(now, st) PROVE Keeps(StepFailed(c, part, st))
  <2>1. \A x, y, tag : Keeps(Done(StepRecorded(Set(st, x, y), part, "FAILED", tag, None)))
    BY <1>3, <1>4, SameAfter, KeepsDone
  <2> QED
    BY <2>1, KeepsDone DEF StepFailed
<1>5. ASSUME NEW c, NEW part, NEW status, NEW st, NEW content, Same(now, st)
      PROVE  Keeps(StepStaged(c, part, status, st, content))
  <2> DEFINE t == EnsureTag(st, BuildDir(c), Model, Track, c.append)
             path == <<t.testing, t.tag, part>>
             xml == [run |-> world.runs + 1, of |-> content]
             wrote == [t.world EXCEPT !.reports = With(@, path, xml), !.runs = @ + 1]
  <2>1. Same(now, t.st)
    BY <1>2, <1>5
  <2>2. StepStaged(c, part, status, st, content) =
          CASE c.staged = "no tag"      -> Done(st)
            [] c.staged = "no report"   -> [Done(t.st) EXCEPT !.world = t.world]
            [] c.staged = "no manifest" -> [Done(t.st) EXCEPT !.world = wrote]
            [] OTHER                    -> [Done(StepRecorded(t.st, part, status, t.tag, path)) EXCEPT
                                               !.world = [wrote EXCEPT !.staged = With(@, part, xml)]]
    BY DEF StepStaged
  <2> HIDE DEF t
  <2>3. \A w : Keeps([Done(t.st) EXCEPT !.world = w]) /\ \A p : Keeps([Done(StepRecorded(t.st, part, status, t.tag, p)) EXCEPT !.world = w])
    BY <1>3, <2>1, KeepsDone, KeepsExcept
  <2>4. Keeps(Done(st))
    BY <1>5, KeepsDone
  <2> HIDE DEF wrote, path, xml
  <2>6. CASE c.staged = "no tag"
    BY <2>2, <2>4, <2>6
  <2>7. CASE c.staged = "no report"
    BY <2>2, <2>3, <2>7
  <2>8. CASE c.staged = "no manifest"
    BY <2>2, <2>3, <2>8
  <2>9. CASE c.staged \notin {"no tag", "no report", "no manifest"}
    <3>1. StepStaged(c, part, status, st, content)
            = [Done(StepRecorded(t.st, part, status, t.tag, path)) EXCEPT !.world = [wrote EXCEPT !.staged = With(@, part, xml)]]
      <4>1. c.staged # "no tag" /\ c.staged # "no report" /\ c.staged # "no manifest"
        BY <2>9
      <4> QED
        BY <2>2, <4>1, Zenon
    <3>2. Keeps([Done(StepRecorded(t.st, part, status, t.tag, path)) EXCEPT !.world = [wrote EXCEPT !.staged = With(@, part, xml)]])
      BY <2>3, Zenon
    <3> QED
      BY <3>1, <3>2, Zenon
  <2> QED
    BY <2>6, <2>7, <2>8, <2>9
<1>6. ASSUME NEW c, NEW part, NEW status, NEW st, NEW content, Same(now, st)
      PROVE  Keeps(StagedOrFailed(c, part, status, st, content))
  <2> DEFINE out == StepStaged(c, part, status, st, content)
  <2>1. Keeps(out)
    BY <1>5, <1>6
  <2>2. StagedOrFailed(c, part, status, st, content) =
          IF c.staged = "yes" THEN out
          ELSE IF c.capture = None THEN [Wrong EXCEPT !.world = out.world]
          ELSE [StepFailed(c, part, SetIf(out.st, c.rv, "-1")) EXCEPT !.world = out.world]
    BY DEF StagedOrFailed
  <2> HIDE DEF out
  <2>3. Keeps(StepFailed(c, part, SetIf(out.st, c.rv, "-1")))
    BY <1>4, <2>1, SameAfter DEF Keeps
  <2> QED
    BY <2>1, <2>2, <2>3, KeepsDone, KeepsExcept
<1>7. ASSUME NEW out, NEW op, Keeps(out) PROVE Keeps(TestDriver(out, op)) /\ Keeps(Replayed(out, op))
  <2>1. Keeps(TestDriver(out, op))
    BY <1>7, KeepsExcept DEF TestDriver
  <2> QED
    BY <1>7, <2>1 DEF Replayed
<1> QED
  BY <1>1, <1>2, <1>3, <1>4, <1>5, <1>6, <1>7


\* The dashboard.
LEMMA DashboardLeaves ==
  ASSUME SessionInv, frames # <<>>, NEW c,
         \/ CtestStart(c) \/ CtestUpdate(c) \/ CtestConfigure(c) \/ CtestBuild(c) \/ CtestTest(c) \/ CtestCoverage(c)
         \/ CtestMemcheck(c) \/ CtestUpload(c) \/ CtestSubmit(c) \/ CtestSleep(c) \/ CtestEmptyBinaryDirectory(c)
         \/ EnableTesting(c) \/ AddTest(c)
  PROVE  SessionInv'
<1>1. \A v, x, w, y, u, z : Same(now, SetIf(StepState(c), v, x)) /\ Same(now, SetIf(SetIf(StepState(c), v, x), w, y))
                              /\ Same(now, SetIf(SetIf(SetIf(StepState(c), v, x), w, y), u, z))
  BY KeepsStep, SameAfter
<1>2. \A part, status, st, content, op :
         Same(now, st) => /\ Keeps(Replayed(StepStaged(c, part, status, st, content), op))
                          /\ Keeps(Replayed(StagedOrFailed(c, part, status, st, content), op))
                          /\ Keeps(Replayed(StepFailed(c, part, st), op))
  BY KeepsStep
<1>3. CASE CtestUpdate(c)
  <2>1. Keeps(Replayed(IF UpdateRan(c)
                       THEN StepStaged(c, "Update", "UPDATED", SetIf(SetIf(StepState(c), c.rv, c.count), c.capture, "0"), UpdateXml(c))
                       ELSE StepFailed(c, "Update", SetIf(StepState(c), c.rv, "-1")),
                       "TEST_DRIVER_REJECT"))
    BY <1>1, <1>2
  <2> QED
    BY <1>3, <2>1, KeepsDone, LeafKeeps DEF CtestUpdate
<1>4. CASE CtestConfigure(c)
  <2>1. Keeps(Replayed(IF Succeeded(c)
                       THEN StepStaged(c, "Configure", "CONFIGURED", SetIf(StepState(c), c.rv, "0"), ConfigureXml(c))
                       ELSE StepFailed(c, "Configure", SetIf(StepState(c), c.rv, FailureCode(c))),
                       "CTEST_CONFIGURE_SELF"))
    BY <1>1, <1>2
  <2> QED
    BY <1>4, <2>1, KeepsDone, LeafKeeps DEF CtestConfigure
<1>5. CASE CtestCoverage(c)
  <2>1. Keeps(Replayed(IF Succeeded(c)
                       THEN StepStaged(c, "Coverage", "COLLECTED", SetIf(StepState(c), c.rv, "0"), CoverageXml(c))
                       ELSE StepFailed(c, "Coverage", SetIf(StepState(c), c.rv, FailureCode(c))),
                       "CTEST_COVERAGE_LOCAL"))
    BY <1>1, <1>2
  <2> QED
    BY <1>5, <2>1, KeepsDone, LeafKeeps DEF CtestCoverage
<1>6. CASE CtestBuild(c)
  <2>1. Keeps(Replayed(IF Ran(c) THEN BuildRan(c) ELSE BuildFailed(c), "CTEST_BUILD_SELF"))
    BY <1>1, <1>2 DEF BuildRan, BuildFailed
  <2> QED
    BY <1>6, <2>1, KeepsDone, LeafKeeps DEF CtestBuild
<1>7. CASE CtestTest(c)
  <2>1. \A failed, ran : Keeps(Replayed(StagedOrFailed(c, "Test", "TESTED", SetIf(SetIf(StepState(c), c.rv, failed), c.capture, "0"),
                                                      TestXml(ran, failed)), "CTEST_TEST"))
    BY <1>1, <1>2
  <2>2. Keeps(Replayed(TestFailed(c), "CTEST_TEST"))
    BY <1>1, <1>2 DEF TestFailed
  <2> QED
    BY <1>7, <2>1, <2>2, KeepsDone, LeafKeeps DEF CtestTest
<1>8. CASE CtestMemcheck(c)
  <2>1. Keeps(Replayed(MemcheckFailed(c), "CTEST_MEMCHECK_LOCAL"))
    BY <1>1, <1>2 DEF MemcheckFailed
  <2>2. \A a, b, d, e : Keeps(StagedOrFailed(c, "MemCheck", "MEMCHECKED",
                                 SetIf(SetIf(SetIf(StepState(c), c.counted, a), c.rv, b), c.capture, "0"), MemcheckXml(d, e)))
    BY <1>1, KeepsStep
  <2>3. Keeps(MemcheckRan(c))
    BY <2>2 DEF MemcheckRan
  <2>4. Keeps(Replayed(MemcheckRan(c), "CTEST_MEMCHECK_LOCAL"))
    BY <2>3, KeepsStep
  <2>5. Keeps(Done(StepState(c)))
    BY KeepsStep, KeepsDone
  <2> DEFINE failing == (TestPlan = <<>> /\ ~ExternalTests(c)) \/ (Selected(c) # <<>> /\ ~c.command)
  <2>6. Leaf(c, "ctest_memcheck",
             IF c.malformed THEN Wrong
             ELSE IF TestPlan = <<>> /\ ~c.command THEN Done(StepState(c))
             ELSE Replayed(IF failing THEN MemcheckFailed(c) ELSE MemcheckRan(c), "CTEST_MEMCHECK_LOCAL"))
    BY <1>8 DEF CtestMemcheck
  <2> HIDE DEF failing
  <2>7. Keeps(Replayed(IF failing THEN MemcheckFailed(c) ELSE MemcheckRan(c), "CTEST_MEMCHECK_LOCAL"))
    BY <2>1, <2>4
  <2> QED
    BY <2>5, <2>6, <2>7, KeepsDone, LeafKeeps
<1>9. CASE CtestUpload(c)
  <2>1. Keeps(Replayed(StepStaged(c, "Upload", "STAGED", ResultVariables(c), UploadXml(c)), "TEST_DRIVER_REJECT"))
    BY <1>2, KeepsStep
  <2> QED
    BY <1>9, <2>1, KeepsDone, LeafKeeps DEF CtestUpload
<1>10. CASE CtestSleep(c)
  BY <1>10, KeepsStep, KeepsDone, LeafKeeps DEF CtestSleep
<1>11. CASE CtestEmptyBinaryDirectory(c)
  <2>1. \A w : Keeps([Wrong EXCEPT !.world = w])
               /\ Keeps(TestDriver([Done(Set(now, "NOBIFY_CTEST_LAST_COMMAND", "empty")) EXCEPT !.world = w], "CTEST_EMPTY_BINARY_DIRECTORY"))
    BY SameSet, KeepsStep, KeepsDone, KeepsExcept
  <2> QED
    BY <1>11, <2>1, KeepsDone, LeafKeeps DEF CtestEmptyBinaryDirectory
<1>12. CASE EnableTesting(c)
  BY <1>12, KeepsDone, KeepsExcept, LeafKeeps DEF EnableTesting
<1>13. CASE AddTest(c)
  <2>1. \A x, v, y, e : Keeps([Done(Set([Registered(now, world, CurrentDir) EXCEPT !.tests = x], v, y)) EXCEPT !.events = e])
    BY SameRegistered, SameField, SameAfter, KeepsDone, KeepsExcept
  <2> QED
    BY <1>13, <2>1, LeafKeeps DEF AddTest
<1>14. CASE CtestStart(c)
  <2> DEFINE build   == IF c.build # None THEN c.build
                        ELSE IF Get(now, "CTEST_BINARY_DIRECTORY") # None THEN Get(now, "CTEST_BINARY_DIRECTORY") ELSE DefaultBuild
             testing == IF Get(now, "SESSION::TESTING_DIR") # None THEN Get(now, "SESSION::TESTING_DIR") ELSE build
             there   == c.append /\ testing \in DOMAIN world.tag_files
             model   == IF c.model = None /\ there THEN world.tag_files[testing].model ELSE c.model
             group   == IF c.group # None THEN c.group ELSE IF there THEN world.tag_files[testing].group ELSE model
             st      == Set(Set(Set(now, "SESSION::MODEL", model), "SESSION::BUILD", build), "SESSION::TRACK", group)
             t       == EnsureTag(st, build, model, group, c.append)
             out     == TestDriver([Done(StepRecorded(Set(Set(t.st, "CTEST_MODEL", model), "CTEST_TRACK", group),
                                                      "Start", "STAGED", t.tag, None)) EXCEPT !.world = t.world],
                                   IF c.checkout = None THEN "CTEST_START_LOCAL" ELSE "NONE")
  <2>1. Leaf(c, "ctest_start",
             IF c.malformed \/ model \notin {"Experimental", "Continuous", "Nightly"} \/ c.checkout = "failed" THEN Wrong
             ELSE IF c.staged # "yes" THEN Done(st)
             ELSE out)
    BY <1>14, Zenon DEF CtestStart
  <2> HIDE DEF build, testing, there, model, group
  <2>2. Same(now, st)
    BY SameSet, SameAfter
  <2> HIDE DEF st
  <2>3. Same(now, t.st)
    BY <2>2, KeepsStep
  <2> HIDE DEF t
  <2>4. Keeps(out)
    BY <2>3, SameAfter, KeepsStep, KeepsDone, KeepsExcept
  <2> HIDE DEF out
  <2> QED
    BY <2>1, <2>2, <2>4, KeepsDone, LeafKeeps
<1>15. CASE CtestSubmit(c)
  <2> DEFINE t      == EnsureTag(ResultVariables(c), BuildDir(c), Model, Track, FALSE)
             remote == IF ~c.url THEN [success |-> FALSE, sent |-> <<>>]
                       ELSE IF c.upload # None THEN CdashDelivery(c, t.tag) ELSE Delivery(c, SubmitParts(c), t.tag)
             w      == [t.world EXCEPT !.sent = @ \o remote.sent]
             st     == SetIf(SetIf(t.st, c.rv, IF remote.success THEN "0" ELSE "1"), c.counted, IF remote.success THEN c.id ELSE "")
             done   == TestDriver([Done(IF remote.success THEN st ELSE SetIf(st, c.capture, "-1")) EXCEPT !.world = w], "NONE")
  <2>1. \A b, m, g, a : Same(now, EnsureTag(ResultVariables(c), b, m, g, a).st)
    BY KeepsStep
  <2>2. Same(now, t.st)
    BY <2>1, Zenon
  <2>3. Leaf(c, "ctest_submit",
             IF SubmitMalformed(c) THEN Wrong
             ELSE IF remote.success \/ c.capture # None THEN done
             ELSE [Wrong EXCEPT !.world = w])
    BY <1>15, Zenon DEF CtestSubmit
  <2> HIDE DEF t
  <2>4. Same(now, st)
    <3> HIDE DEF remote
    <3> QED
      BY <2>2, SameAfter
  <2> HIDE DEF w, st, remote
  <2>5. Keeps(done)
    BY <2>4, SameAfter, KeepsStep, KeepsDone, KeepsExcept
  <2>6. Keeps([Wrong EXCEPT !.world = w])
    BY KeepsDone, KeepsExcept
  <2> HIDE DEF done
  <2> QED
    BY <2>3, <2>5, <2>6, KeepsDone, LeafKeeps
<1> QED
  BY <1>3, <1>4, <1>5, <1>6, <1>7, <1>8, <1>9, <1>10, <1>11, <1>12, <1>13, <1>14, <1>15


\* What FetchContent records and publishes.
LEMMA SameFetch ==
  /\ \A st, name, populated, source : Same(now, st) => Same(now, Published(st, name, populated, source))
  /\ \A st, name, state : Same(now, st) => Same(now, Upserted(st, name, state))
  /\ \A d, saved : Same(now, Content(d, saved).st)
<1>1. \A st, name, populated, source : Same(now, st) => Same(now, Published(st, name, populated, source))
  BY SameAfter DEF Published
<1>2. \A st, name, state : Same(now, st) => Same(now, Upserted(st, name, state))
  BY SameField DEF Upserted
<1>3. ASSUME NEW d, NEW saved PROVE Same(now, Content(d, saved).st)
  <2> DEFINE source == PopulatedDir(d)
             st == IF saved THEN Published(Upserted(now, d.name, StateOf(TRUE, TRUE, source, "fetch")), d.name, TRUE, source)
                   ELSE Set(now, d.name \o "_SOURCE_DIR", source)
  <2>1. Content(d, saved).st = st
    BY DEF Content
  <2> HIDE DEF source
  <2>2. \A state, p : Same(now, Published(Upserted(now, d.name, state), d.name, p, source)) /\ \A v : Same(now, Set(now, v, source))
    BY <1>1, <1>2, SameItself, SameSet
  <2>3. Same(now, st)
    BY <2>2, Zenon
  <2> QED
    BY <2>1, <2>3
<1> QED
  BY <1>1, <1>2, <1>3

\* Packages and dependencies.
LEMMA DependencyLeaves ==
  ASSUME SessionInv, frames # <<>>, NEW c,
         RegistryAdd(c) \/ FetchDeclare(c) \/ FetchGetProperties(c) \/ FetchPopulateCommand(c) \/ FetchSetPopulated(c)
  PROVE  SessionInv'
<1>1. CASE RegistryAdd(c)
  <2>1. \A x : Keeps(Done([now EXCEPT !.registry = x]))
    BY SameItself, SameField, KeepsDone
  <2> QED
    BY <1>1, <2>1, LeafKeeps DEF RegistryAdd
<1>2. CASE FetchDeclare(c)
  <2>1. \A cond, x, state : Keeps(DoneIf(cond, Upserted([now EXCEPT !.decls = x], c.decl.name, state)))
    BY SameItself, SameField, SameFetch, KeepsDone
  <2> QED
    BY <1>2, <2>1, KeepsDone, LeafKeeps, Zenon DEF FetchDeclare
<1>3. CASE FetchGetProperties(c)
  <2>1. \A cond, p, s : Keeps(DoneIf(cond, Published(now, c.name, p, s)))
    BY SameItself, SameFetch, KeepsDone
  <2> QED
    BY <1>3, <2>1, KeepsDone, LeafKeeps, Zenon DEF FetchGetProperties
<1>4. CASE FetchPopulateCommand(c)
  <2> DEFINE saved == c.decl = None
             got   == Content(IF saved THEN now.decls[c.name] ELSE c.decl, saved)
             out   == [Done(got.st) EXCEPT !.ok = got.ok, !.world = got.world, !.events = <<Materialized(c.name)>>]
             early == saved /\ (c.name \notin DOMAIN now.decls \/ now.states[c.name].processed)
  <2>1. \A d, s : Same(now, Content(d, s).st)
    BY SameFetch
  <2>2. Same(now, got.st)
    BY <2>1, Zenon
  <2>3. Leaf(c, "fetch_populate", IF ~ModuleLoaded THEN Wrong ELSE IF early THEN Wrong ELSE out)
    BY <1>4, Zenon DEF FetchPopulateCommand
  <2> HIDE DEF saved, got, early
  <2>4. Keeps(out)
    BY <2>2, KeepsDone, KeepsExcept
  <2> HIDE DEF out
  <2> QED
    BY <2>3, <2>4, KeepsDone, LeafKeeps
<1>5. CASE FetchSetPopulated(c)
  <2>1. \A cond, state, p : Keeps(DoneIf(cond, Published(Upserted(now, c.name, state), c.name, p, c.source)))
    BY SameItself, SameFetch, KeepsDone
  <2> QED
    BY <1>5, <2>1, KeepsDone, LeafKeeps, Zenon DEF FetchSetPopulated
<1> QED
  BY <1>1, <1>2, <1>3, <1>4, <1>5


\* What the commands that run programs publish.
LEMMA KeepsProcess ==
  /\ \A c, r : Same(now, OutputVariables(c, r))
  /\ \A c, r, events : Keeps(ProcessOutcome(c, r, events))
  /\ \A st, c, v, x : Same(now, st) => Same(now, PublishResult(st, c, v, x))
  /\ \A c, ok : Keeps(ProbeFailure(c, ok))
  /\ \A c, r : Same(now, Copied(c, r).st)
  /\ \A c, r : Same(now, RunResult(c, r))
  /\ \A c, r : Same(now, Placeholders(CompilePublished(c, r), c))
  /\ \A c, st, disk : Same(now, st) => Keeps(TryRunOutcome(c, st, disk))
<1>1. ASSUME NEW c, NEW r PROVE Same(now, OutputVariables(c, r))
  <2>1. \A a, b, x, y : Same(now, SetIf(SetIf(SetIf(SetIf(now, c.result, a), c.results, b), c.output, x), c.error, y))
    BY SameSet, SameAfter
  <2> QED
    BY <2>1 DEF OutputVariables
<1>2. ASSUME NEW c, NEW r, NEW events PROVE Keeps(ProcessOutcome(c, r, events))
  <2>1. \A ok, disk, acts : Keeps(Effect(ok, OutputVariables(c, r), disk, acts))
    BY <1>1, KeepsEffect
  <2>2. \A ok, disk, acts, e : Keeps([Effect(ok, OutputVariables(c, r), disk, acts) EXCEPT !.events = e])
    BY <2>1, KeepsExcept
  <2> QED
    BY <2>2 DEF ProcessOutcome
<1>3. ASSUME NEW st, NEW c, NEW v, NEW x, Same(now, st) PROVE Same(now, PublishResult(st, c, v, x))
  <2>1. \A y : Same(now, [st EXCEPT !.cache = y])
    BY <1>3, SameField
  <2> QED
    BY <1>3, <2>1, SameAfter DEF PublishResult
<1>4. ASSUME NEW c, NEW ok PROVE Keeps(ProbeFailure(c, ok))
  <2>1. \A disk, w : Keeps([Unrecorded(ok, now, disk) EXCEPT !.world = w])
    BY SameItself, KeepsEffect, KeepsExcept
  <2> QED
    BY <2>1 DEF ProbeFailure
<1>5. ASSUME NEW c, NEW r PROVE Same(now, Copied(c, r).st)
  <2>1. \A x : Same(now, SetIf(now, c.copy_error, x))
    BY SameSet
  <2> QED
    BY <2>1, SameItself DEF Copied
<1>6. ASSUME NEW c, NEW r PROVE Same(now, CompilePublished(c, r))
  BY <1>3, SameItself, SameAfter DEF CompilePublished
<1>7. ASSUME NEW c, NEW st, NEW result, Same(now, st) PROVE Same(now, WithoutRun(st, c, result))
  BY <1>3, <1>7, SameAfter DEF WithoutRun, ClearOutputs
<1>8. ASSUME NEW c, NEW st, NEW p, Same(now, st) PROVE Same(now, RunPublished(st, c, p))
  <2>1. \A x, y : Same(now, SetIf(SetIf(SetIf(SetIf(PublishResult(st, c, c.run, p.result), c.run_stdout, p.out), c.run_stderr, p.err),
                                       c.run_output, x), c.legacy, y))
    BY <1>3, <1>8, SameAfter
  <2> QED
    BY <2>1 DEF RunPublished
<1>9. ASSUME NEW c, NEW st, Same(now, st) PROVE Same(now, AnswersPublished(st, c))
  <2>1. \A a, x, y, z, u : Same(now, SetIf(SetIf(SetIf(SetIf(PublishResult(st, c, c.run, a), c.run_output, x), c.run_stdout, y),
                                               c.run_stderr, z), c.legacy, u))
    BY <1>3, <1>9, SameAfter
  <2> QED
    BY <2>1 DEF AnswersPublished
<1>10. ASSUME NEW c, NEW r PROVE Same(now, RunResult(c, r))
  <2>1. \A result, p : /\ Same(now, WithoutRun(CompilePublished(c, r), c, result)) /\ Same(now, AnswersPublished(CompilePublished(c, r), c))
                       /\ Same(now, RunPublished(CompilePublished(c, r), c, p))
    BY <1>6, <1>7, <1>8, <1>9
  <2> QED
    BY <2>1, Zenon DEF RunResult
<1>11. ASSUME NEW c, NEW r PROVE Same(now, Placeholders(CompilePublished(c, r), c))
  <2>1. Same(now, UnsetOutputs(CompilePublished(c, r), c))
    BY <1>6, SameAfter DEF UnsetOutputs
  <2>2. \A x : Same(now, [Set(Set(UnsetOutputs(CompilePublished(c, r), c), c.result, "TRUE"), c.run, PlaceholderRun) EXCEPT !.cache = x])
    BY <2>1, SameAfter, SameField
  <2> QED
    BY <2>2 DEF Placeholders
<1>12. ASSUME NEW c, NEW st, NEW disk, Same(now, st) PROVE Keeps(TryRunOutcome(c, st, disk))
  <2>1. \A ok, acts, w : Keeps([Effect(ok, st, disk, acts) EXCEPT !.world = w])
    BY <1>12, KeepsEffect, KeepsExcept
  <2> QED
    BY <2>1, Zenon DEF TryRunOutcome
<1> QED
  BY <1>1, <1>2, <1>3, <1>4, <1>5, <1>10, <1>11, <1>12

\* The commands that run programs.
LEMMA ProcessLeaves ==
  ASSUME SessionInv, frames # <<>>, NEW c,
         SetEnv(c) \/ ExecuteProcess(c) \/ ExecProgram(c) \/ TryCompile(c) \/ TryRun(c) \/ TryRunUnanswered(c)
  PROVE  SessionInv'
<1>1. CASE SetEnv(c)
  <2>1. \A x : Keeps(Done([now EXCEPT !.env = x]))
    BY SameItself, SameField, KeepsDone
  <2> QED
    BY <1>1, <2>1, LeafKeeps DEF SetEnv
<1>2. CASE ExecuteProcess(c)
  BY <1>2, KeepsProcess, KeepsDone, LeafKeeps DEF ExecuteProcess
<1>3. CASE ExecProgram(c)
  BY <1>3, KeepsProcess, KeepsDone, LeafKeeps DEF ExecProgram
<1>4. CASE TryCompile(c)
  <2> DEFINE copy == Copied(c, Compiled(c))
             st   == SetIf(PublishResult(copy.st, c, c.result, Truth(copy.ok)), c.output, c.log)
             op   == "PROBE_TRY_COMPILE_" \o c.signature
             out  == [Effect(TRUE, st, copy.disk, <<Probe(op, c, Compiled(c))>>) EXCEPT !.world = Probed(c, @)]
  <2>1. Same(now, st)
    BY KeepsProcess, SameAfter
  <2>2. Leaf(c, "try_compile",
             IF c.malformed THEN ProbeFailure(c, FALSE)
             ELSE IF ~SourceItems(c).ok THEN ProbeFailure(c, TRUE)
             ELSE out)
    BY <1>4, Zenon DEF TryCompile
  <2> HIDE DEF st
  <2>3. \A ok, disk, acts, w : Keeps([Effect(ok, st, disk, acts) EXCEPT !.world = w])
    BY <2>1, KeepsEffect, KeepsExcept
  <2>4. Keeps(out)
    BY <2>3, Zenon
  <2> HIDE DEF out
  <2>5. \A ok : Keeps(ProbeFailure(c, ok))
    BY KeepsProcess
  <2> QED
    BY <2>2, <2>4, <2>5, LeafKeeps, Zenon
<1>5. CASE TryRun(c)
  <2>1. Keeps(TryRunOutcome(c, RunResult(c, Compiled(c)), Compiled(c).disk))
    BY KeepsProcess
  <2>2. \A ok : Keeps(ProbeFailure(c, ok))
    BY KeepsProcess
  <2> DEFINE out == IF c.malformed THEN ProbeFailure(c, FALSE)
                    ELSE IF ~SourceItems(c).ok THEN ProbeFailure(c, TRUE)
                    ELSE TryRunOutcome(c, RunResult(c, Compiled(c)), Compiled(c).disk)
  <2>3. Leaf(c, "try_run", out)
    BY <1>5, Zenon DEF TryRun
  <2>4. Keeps(out)
    BY <2>1, <2>2, Zenon
  <2> HIDE DEF out
  <2> QED
    BY <2>3, <2>4, LeafKeeps
<1>6. CASE TryRunUnanswered(c)
  <2> DEFINE out == TryRunOutcome(c, Placeholders(CompilePublished(c, Compiled(c)), c),
                                  IF CanWrite(Compiled(c).disk, ResultsFile) THEN ResultsAdded(Compiled(c).disk, c) ELSE Compiled(c).disk)
  <2>1. Keeps(out)
    BY KeepsProcess
  <2>2. now' = out.st /\ frames' = Ahead
    BY <1>6 DEF TryRunUnanswered
  <2> HIDE DEF out
  <2>3. Len(frames) > 0
    BY NotEmpty DEF SessionInv, Aligned
  <2>4. Aligned(now', frames')
    BY <2>1, <2>2, <2>3, NewRest DEF SessionInv, Ahead, Keeps
  <2> QED
    BY <2>4 DEF SessionInv
<1> QED
  BY <1>1, <1>2, <1>3, <1>4, <1>5, <1>6

\* The commands on properties.
LEMMA PropertyLeaves ==
  ASSUME SessionInv, frames # <<>>, NEW c, PropertyCommand(c)
  PROVE  SessionInv'
<1>1. \A out : Keeps(Wrote(out))
  <2>1. \A s, x, e, w : Keeps([Done([WithScope(s) EXCEPT !.props = x]) EXCEPT !.events = e, !.world = w])
    BY SameScope, SameField, KeepsDone, KeepsExcept DEF WithScope
  <2> QED
    BY <2>1 DEF Wrote
<1>2. ASSUME NEW var, NEW key, NEW inherit, NEW mode, NEW missing PROVE Same(now, QueryState(var, key, inherit, mode, missing))
  <2>1. \A x : Same(now, Set(now, var, x)) /\ Same(now, Unset(now, var))
    BY SameSet
  <2> QED
    BY <2>1 DEF QueryState
<1>3. \A st, var : Same(now, st) => Same(now, EmptyIfUnset(st, var))
  BY SameAfter DEF EmptyIfUnset
<1>4. CASE SetProperty(c)
  BY <1>4, <1>1, KeepsDone, LeafKeeps DEF SetProperty
<1>5. CASE SetTargetProperties(c)
  BY <1>5, <1>1, KeepsDone, LeafKeeps DEF SetTargetProperties
<1>6. CASE SetDirectoryProperties(c)
  BY <1>6, <1>1, KeepsDone, LeafKeeps DEF SetDirectoryProperties
<1>7. CASE SetSourceFilesProperties(c)
  BY <1>7, <1>1, KeepsDone, LeafKeeps DEF SetSourceFilesProperties
<1>8. CASE SetTestsProperties(c)
  BY <1>8, <1>1, KeepsDone, LeafKeeps DEF SetTestsProperties
<1>9. CASE DefineProperty(c)
  <2>1. \A x : Keeps(Done([now EXCEPT !.defs = x]))
    BY SameItself, SameField, KeepsDone
  <2> QED
    BY <1>9, <2>1, KeepsDone, LeafKeeps DEF DefineProperty
<1>10. CASE GetProperty(c)
  <2>1. \A key, inherit, x : Same(now, Set(QueryState(c.var, key, inherit, c.mode, None), c.var, x))
    BY <1>2, SameAfter
  <2>2. Same(now, GetPropertyState(c))
    BY <1>2, <1>3, <2>1 DEF GetPropertyState
  <2> QED
    BY <1>10, <2>2, KeepsDone, LeafKeeps DEF GetProperty
<1>11. CASE GetCmakeProperty(c)
  <2>1. \A x : Keeps(Done(Set(QueryState(c.var, GlobalKey(c.prop), None, "VALUE", None), c.var, x)))
               /\ Keeps(Done(QueryState(c.var, GlobalKey(c.prop), None, "VALUE", None))) /\ Keeps(Done(Set(now, c.var, x)))
    BY <1>2, SameAfter, SameSet, KeepsDone
  <2> QED
    BY <1>11, <2>1, KeepsDone, LeafKeeps DEF GetCmakeProperty
<1>12. CASE GetDirectoryProperty(c)
  <2>1. \A x : Keeps(Done(Set(now, c.var, x)))
    BY SameSet, KeepsDone
  <2>2. \A key, inherit : Keeps(Done(EmptyIfUnset(QueryState(c.var, key, inherit, "VALUE", None), c.var)))
    BY <1>2, <1>3, KeepsDone
  <2> QED
    BY <1>12, <2>1, <2>2, KeepsDone, LeafKeeps DEF GetDirectoryProperty
<1>13. CASE GetSourceFileProperty(c)
  BY <1>13, <1>2, KeepsDone, LeafKeeps DEF GetSourceFileProperty
<1>14. CASE GetTargetProperty(c)
  BY <1>14, <1>2, KeepsDone, LeafKeeps DEF GetTargetProperty
<1>15. CASE GetTestProperty(c)
  BY <1>15, <1>2, SameSet, KeepsDone, LeafKeeps DEF GetTestProperty
<1> QED
  BY <1>4, <1>5, <1>6, <1>7, <1>8, <1>9, <1>10, <1>11, <1>12, <1>13, <1>14, <1>15 DEF PropertyCommand


-----------------------------------------------------------------------------
(***************************************************************************)
(* Commands that run other commands.                                       *)
(***************************************************************************)

\* What the invariant says of the innermost frame.
LEMMA Innermost ==
  ASSUME SessionInv, frames # <<>>
  PROVE  /\ IsList(frames) /\ Len(frames) \in Nat \ {0} /\ Len(frames) > 0
         /\ Top = frames[Len(frames)] /\ FrameOK(Top)
         /\ Shape(now, frames, Len(frames)) /\ Formed(now)
         /\ Top.tx => Shape(Top.before, frames, Len(frames) - 1)
         /\ Top.kind = "ctest_script" /\ Top.todo.running => Shape(Top.todo.before, frames, Len(frames) - 1)
<1> DEFINE n == Len(frames)
<1>1. IsList(frames) /\ n \in Nat \ {0} /\ n > 0 /\ Top = frames[n]
  BY NotEmpty, ListFacts DEF SessionInv, Aligned, Top
<1>2. FrameFits(frames, n) /\ Shape(now, frames, n)
  BY <1>1 DEF SessionInv, Aligned
<1> HIDE DEF n
<1>3. /\ FrameOK(frames[n])
      /\ frames[n].tx => Shape(frames[n].before, frames, n - 1)
      /\ frames[n].kind = "ctest_script" /\ frames[n].todo.running => Shape(frames[n].todo.before, frames, n - 1)
  BY <1>2 DEF FrameFits
<1>4. Formed(now)
  BY <1>2 DEF Shape
<1> QED
  BY <1>1, <1>2, <1>3, <1>4 DEF n

\* A frame that keeps nothing open asks nothing of the session.
LEMMA GrownQuiet ==
  ASSUME NEW a, NEW b, NEW f, Formed(a), Same(a, b), Quiet(f)
  PROVE  Grown(a, b, f) /\ EndsWith(b, f)
<1>1. Len(b.scopes) = Len(a.scopes) + 0
  BY ListFacts DEF Formed, Same
<1> QED
  BY <1>1 DEF Grown, EndsWith, Quiet, Same

\* A command that starts others.
LEMMA EnterKeeps ==
  ASSUME SessionInv, frames # <<>>, NEW c, NEW cmd, NEW st, NEW g, NEW events, NEW w, Enter(c, cmd, st, g, events, w),
         FrameOK(g), g.kind # "top", g.tx, g.before = now, g.kind = "ctest_script" => ~g.todo.running,
         Grown(now, st, g), EndsWith(st, g)
  PROVE  SessionInv'
<1>1. now' = st /\ frames' = Append(Ahead, g)
  BY DEF Enter
<1>2. Aligned(now, Ahead)
  BY Innermost, SameItself, NewRest DEF SessionInv, Ahead
<1>3. Len(Ahead) > 0
  <2>1. Len(Ahead) = Len(frames)
    BY Innermost, ListExcept DEF Ahead
  <2> QED
    BY <2>1, Innermost
<1>4. Shape(now, Ahead, Len(Ahead))
  BY <1>2 DEF Aligned
<1>5. Aligned(st, Append(Ahead, g))
  BY <1>2, <1>3, <1>4, PushFrame
<1> QED
  BY <1>1, <1>5 DEF SessionInv

\* The innermost frame goes on to another stage, and keeps open what it did.
LEMMA Restaged ==
  ASSUME SessionInv, frames # <<>>, NEW g, NEW st, Same(now, st),
         DOMAIN g = FrameFields, g.kind = Top.kind, g.cmd = Top.cmd, g.tx = Top.tx, g.before = Top.before, g.dir = Top.dir,
         g.kind # "ctest_script",
         g.kind \in DOMAIN Stages => DOMAIN g.todo = Stages[g.kind],
         g.kind = "find_package" => (IsFinding(g) <=> IsFinding(Top)),
         g.kind = "fetch" => /\ g.todo.pushed = Top.todo.pushed
                             /\ g.todo.pushed => g.todo.left = Top.todo.left /\ g.todo.stage # "begin"
  PROVE  Aligned(st, [frames EXCEPT ![Len(frames)] = g])
<1>1. FrameOK(g)
  BY Innermost DEF FrameOK
<1>2. Alike(Top, g)
  BY DEF Alike, HasScope, HasQueue, IsFinding, IsMaking, InNewProcess
<1> QED
  BY <1>1, <1>2, Innermost, RetopAlike DEF SessionInv

\* A frame with something else to do.
LEMMA NewTodo ==
  ASSUME NEW f, FrameOK(f), NEW todo, NEW rest
  PROVE  LET g == [f EXCEPT !.todo = todo]
             h == [f EXCEPT !.todo = todo, !.rest = rest]
         IN  /\ DOMAIN g = FrameFields /\ g.kind = f.kind /\ g.cmd = f.cmd /\ g.tx = f.tx /\ g.before = f.before
             /\ g.dir = f.dir /\ g.todo = todo
             /\ DOMAIN h = FrameFields /\ h.kind = f.kind /\ h.cmd = f.cmd /\ h.tx = f.tx /\ h.before = f.before
             /\ h.dir = f.dir /\ h.todo = todo
<1>1. DOMAIN f = FrameFields
  BY DEF FrameOK
<1> QED
  BY <1>1 DEF FrameFields

\* What a command makes of its snapshot when it ends.
LEMMA ShapeSettle ==
  ASSUME NEW before, NEW st, NEW fr, NEW n, Shape(before, fr, n), Shape(st, fr, n), NEW ok, NEW preserve
  PROVE  Shape(Settle(before, st, ok, preserve), fr, n)
<1>1. Formed(before) /\ Formed(st) /\ Len(st.scopes) = Len(before.scopes)
  BY DEF Shape
<1>2. IsList(SubSeq(st.scopes, 1, Len(before.scopes))) /\ Len(SubSeq(st.scopes, 1, Len(before.scopes))) = Len(before.scopes)
  <2>1. IsList(st.scopes) /\ Len(before.scopes) \in 0 .. Len(st.scopes)
    BY <1>1, ListFacts DEF Formed
  <2> QED
    BY <2>1, ListPrefix
<1>3. \A x : IsList(x) /\ Len(x) = Len(before.scopes) => Same(before, [before EXCEPT !.scopes = x])
  BY <1>1, SameScopes
<1>4. Shape([before EXCEPT !.scopes = SubSeq(st.scopes, 1, Len(before.scopes))], fr, n)
  BY <1>2, <1>3, ShapeSame
<1> QED
  BY <1>4 DEF Settle

\* A command that ends.
LEMMA LeaveKeeps ==
  ASSUME SessionInv, frames # <<>>, NEW st, NEW w, NEW own_error, NEW immediate, NEW pending,
         LeaveWith(st, w, own_error, immediate, pending), Shape(st, frames, Len(frames) - 1)
  PROVE  SessionInv'
<1>1. frames' = Front(frames) /\ \E ok : now' = IF Top.tx THEN Settle(Top.before, st, ok, Top.preserve) ELSE st
  BY DEF LeaveWith
<1>2. Shape(now', frames, Len(frames) - 1)
  <2>1. PICK ok : now' = IF Top.tx THEN Settle(Top.before, st, ok, Top.preserve) ELSE st
    BY <1>1
  <2>2. CASE Top.tx
    BY <2>1, <2>2, Innermost, ShapeSettle
  <2>3. CASE ~Top.tx
    BY <2>1, <2>3
  <2> QED
    BY <2>2, <2>3
<1>3. Aligned(now', Front(frames))
  BY <1>2, Innermost, PopFrame DEF SessionInv
<1> QED
  BY <1>1, <1>3 DEF SessionInv

\* A command that ends and kept nothing open.
LEMMA LeaveQuiet ==
  ASSUME SessionInv, frames # <<>>, NEW st, Same(now, st), Quiet(Top)
  PROVE  Shape(st, frames, Len(frames) - 1)
<1> DEFINE n == Len(frames) - 1
<1>1. n \in Nat /\ n + 1 = Len(frames) /\ Quiet(frames[n + 1])
  BY Innermost
<1>2. Shape(st, frames, n + 1)
  BY <1>1, Innermost, ShapeSame
<1> HIDE DEF n
<1>3. Shape(st, frames, n)
  BY <1>1, <1>2, ShapeQuiet
<1> QED
  BY <1>3 DEF n

\* A command that ends and kept something open, which st has no more.
LEMMA LeaveGrown ==
  ASSUME SessionInv, frames # <<>>, NEW st, NEW st2, Same(now, st2), Grown(st, st2, Top)
  PROVE  Shape(st, frames, Len(frames) - 1)
<1> DEFINE n == Len(frames) - 1
<1>1. n \in Nat /\ n + 1 = Len(frames) /\ Grown(st, st2, frames[n + 1])
  BY Innermost
<1>2. Shape(st2, frames, n + 1)
  BY <1>1, Innermost, ShapeSame
<1> HIDE DEF n
<1>3. Shape(st, frames, n)
  BY <1>1, <1>2, ShapePop
<1> QED
  BY <1>3 DEF n


\* A frame that a command has just made.
Fresh(g, kind, c, todo, dir) ==
    DOMAIN g = FrameFields /\ g.kind = kind /\ g.cmd = c /\ g.before = now /\ g.todo = todo /\ g.dir = dir

\* The frames that commands make.
LEMMA NewFrames ==
  /\ \A kind, c, rest, preserve :
        LET g == NewFrame(kind, c, rest, preserve) IN Fresh(g, kind, c, None, CurrentDir) /\ g.tx = TRUE
  /\ \A kind, c, rest, preserve, todo :
        LET g == [NewFrame(kind, c, rest, preserve) EXCEPT !.todo = todo] IN Fresh(g, kind, c, todo, CurrentDir) /\ g.tx = TRUE
  /\ \A kind, c, rest, preserve, todo, pending :
        LET g == [NewFrame(kind, c, rest, preserve) EXCEPT !.todo = todo, !.pending = pending]
        IN  Fresh(g, kind, c, todo, CurrentDir) /\ g.tx = TRUE
<1>1. \A kind, c, rest, preserve : Fresh(NewFrame(kind, c, rest, preserve), kind, c, None, CurrentDir) /\ NewFrame(kind, c, rest, preserve).tx = TRUE
  BY DEF NewFrame, Fresh, FrameFields
<1>2. ASSUME NEW kind, NEW c, NEW rest, NEW preserve, NEW todo
      PROVE  LET g == [NewFrame(kind, c, rest, preserve) EXCEPT !.todo = todo] IN Fresh(g, kind, c, todo, CurrentDir) /\ g.tx = TRUE
  <2>1. PICK f : f = NewFrame(kind, c, rest, preserve)
    OBVIOUS
  <2>2. Fresh(f, kind, c, None, CurrentDir) /\ f.tx = TRUE
    BY <2>1, <1>1
  <2>3. LET g == [f EXCEPT !.todo = todo] IN Fresh(g, kind, c, todo, CurrentDir) /\ g.tx = TRUE
    BY <2>2 DEF Fresh, FrameFields
  <2> QED
    BY <2>1, <2>3
<1>3. ASSUME NEW kind, NEW c, NEW rest, NEW preserve, NEW todo, NEW pending
      PROVE  LET g == [NewFrame(kind, c, rest, preserve) EXCEPT !.todo = todo, !.pending = pending]
             IN  Fresh(g, kind, c, todo, CurrentDir) /\ g.tx = TRUE
  <2>1. PICK f : f = NewFrame(kind, c, rest, preserve)
    OBVIOUS
  <2>2. Fresh(f, kind, c, None, CurrentDir) /\ f.tx = TRUE
    BY <2>1, <1>1
  <2>3. LET g == [f EXCEPT !.todo = todo, !.pending = pending] IN Fresh(g, kind, c, todo, CurrentDir) /\ g.tx = TRUE
    BY <2>2 DEF Fresh, FrameFields
  <2> QED
    BY <2>1, <2>3
<1> QED
  BY <1>1, <1>2, <1>3

\* Kinds of frames with nothing particular to do.
PlainKinds == {"function", "macro", "call", "include", "subdirectory", "script", "deferred"}

\* A frame of a plain kind, or of a file that a command runs one by one.
LEMMA PlainFrame ==
  ASSUME NEW g, NEW kind, NEW c, NEW todo, NEW dir, Fresh(g, kind, c, todo, dir), g.tx \in BOOLEAN,
         kind \in PlainKinds \/ (kind \in {"project", "ctest_custom"} /\ g.tx)
  PROVE  /\ FrameOK(g) /\ g.kind # "top" /\ g.kind # "ctest_script"
         /\ kind \notin {"function", "subdirectory"} => Quiet(g)
         /\ kind = "function" => HasScope(g) /\ ~HasQueue(g) /\ ~IsFinding(g) /\ ~IsMaking(g)
         /\ kind = "subdirectory" => HasScope(g) /\ HasQueue(g) /\ ~IsFinding(g) /\ ~IsMaking(g)
<1>1. DOMAIN Stages = {"find_package", "find_item", "fetch", "ctest_script"}
  BY DEF Stages
<1>2. FrameOK(g)
  BY <1>1 DEF FrameOK, Fresh, PlainKinds
<1> QED
  BY <1>2 DEF Fresh, PlainKinds, Quiet, HasScope, HasQueue, IsFinding, IsMaking, InNewProcess

\* A session with another list in the place of one of its stacks.
LEMMA NewStack ==
  ASSUME NEW a, Formed(a), NEW list, IsList(list)
  PROVE  /\ LET b == [a EXCEPT !.scopes = list]
            IN  Formed(b) /\ b.scopes = list /\ QueueDirs(b) = QueueDirs(a) /\ b.finding = a.finding /\ b.making = a.making
                /\ b.deferred = a.deferred
         /\ LET b == [a EXCEPT !.finding = list]
            IN  Formed(b) /\ b.scopes = a.scopes /\ QueueDirs(b) = QueueDirs(a) /\ b.finding = list /\ b.making = a.making
         /\ LET b == [a EXCEPT !.making = list]
            IN  Formed(b) /\ b.scopes = a.scopes /\ QueueDirs(b) = QueueDirs(a) /\ b.finding = a.finding /\ b.making = list
         /\ (\A k \in DOMAIN list : "dir" \in DOMAIN list[k]) =>
                LET b == [a EXCEPT !.deferred = list]
                IN  /\ Formed(b) /\ b.scopes = a.scopes /\ QueueDirs(b) = [k \in DOMAIN list |-> list[k].dir]
                    /\ b.finding = a.finding /\ b.making = a.making
<1>1. /\ {"scopes", "deferred", "finding", "making"} \subseteq DOMAIN a
      /\ IsList(a.scopes) /\ IsList(a.deferred) /\ IsList(a.finding) /\ IsList(a.making)
      /\ \A k \in DOMAIN a.deferred : "dir" \in DOMAIN a.deferred[k]
  BY DEF Formed, Kept
<1>2. ASSUME NEW b, DOMAIN b = DOMAIN a, IsList(b.scopes), b.deferred = a.deferred, IsList(b.finding), IsList(b.making)
      PROVE  Formed(b) /\ QueueDirs(b) = QueueDirs(a)
  BY <1>1, <1>2 DEF Formed, Kept, QueueDirs
<1>3. LET b == [a EXCEPT !.scopes = list]
      IN  /\ DOMAIN b = DOMAIN a /\ b.scopes = list /\ b.deferred = a.deferred /\ b.finding = a.finding /\ b.making = a.making
  BY <1>1
<1>4. LET b == [a EXCEPT !.finding = list]
      IN  /\ DOMAIN b = DOMAIN a /\ b.scopes = a.scopes /\ b.deferred = a.deferred /\ b.finding = list /\ b.making = a.making
  BY <1>1
<1>5. LET b == [a EXCEPT !.making = list]
      IN  /\ DOMAIN b = DOMAIN a /\ b.scopes = a.scopes /\ b.deferred = a.deferred /\ b.finding = a.finding /\ b.making = list
  BY <1>1
<1>6. LET b == [a EXCEPT !.deferred = list]
      IN  /\ DOMAIN b = DOMAIN a /\ b.scopes = a.scopes /\ b.deferred = list /\ b.finding = a.finding /\ b.making = a.making
  BY <1>1
<1>7. ASSUME NEW b, DOMAIN b = DOMAIN a, b.scopes = a.scopes, b.deferred = list, b.finding = a.finding, b.making = a.making,
             \A k \in DOMAIN list : "dir" \in DOMAIN list[k]
      PROVE  Formed(b) /\ QueueDirs(b) = [k \in DOMAIN list |-> list[k].dir]
  BY <1>1, <1>7 DEF Formed, Kept, QueueDirs
<1>8. LET b == [a EXCEPT !.scopes = list]
      IN  Formed(b) /\ b.scopes = list /\ QueueDirs(b) = QueueDirs(a) /\ b.finding = a.finding /\ b.making = a.making
          /\ b.deferred = a.deferred
  BY <1>1, <1>2, <1>3
<1>9. LET b == [a EXCEPT !.finding = list]
      IN  Formed(b) /\ b.scopes = a.scopes /\ QueueDirs(b) = QueueDirs(a) /\ b.finding = list /\ b.making = a.making
  BY <1>1, <1>2, <1>4
<1>10. LET b == [a EXCEPT !.making = list]
      IN  Formed(b) /\ b.scopes = a.scopes /\ QueueDirs(b) = QueueDirs(a) /\ b.finding = a.finding /\ b.making = list
  BY <1>1, <1>2, <1>5
<1>11. ASSUME \A k \in DOMAIN list : "dir" \in DOMAIN list[k]
       PROVE  LET b == [a EXCEPT !.deferred = list]
              IN  /\ Formed(b) /\ b.scopes = a.scopes /\ QueueDirs(b) = [k \in DOMAIN list |-> list[k].dir]
                  /\ b.finding = a.finding /\ b.making = a.making
  BY <1>6, <1>7, <1>11
<1> QED
  BY <1>8, <1>9, <1>10, <1>11


\* The stacks a frame keeps something in are not empty.
LEMMA StackTops ==
  ASSUME NEW st, NEW fr, NEW n \in Nat \ {0}, Shape(st, fr, n)
  PROVE  /\ Len(st.scopes) > 0
         /\ HasQueue(fr[n]) => Len(st.deferred) > 0
         /\ IsFinding(fr[n]) => Len(st.finding) > 0
         /\ IsMaking(fr[n]) => Len(st.making) > 0
<1>1. ASSUME NEW S \in SUBSET (1 .. n) PROVE Cardinality(S) \in Nat /\ (n \in S => Cardinality(S) > 0)
  <2>1. IsFiniteSet(1 .. n)
    BY FS_Interval
  <2>2. IsFiniteSet(S)
    BY <2>1, FS_Subset
  <2> QED
    BY <2>2, FS_CardinalityType, FS_EmptySet
<1>2. n \in 1 .. n
  OBVIOUS
<1>3. Len(st.scopes) > 0
  <2> DEFINE S == {k \in 1 .. n : HasScope(fr[k])}
  <2>1. S \in SUBSET (1 .. n) /\ Len(st.scopes) = 1 + Cardinality(S)
    BY DEF Shape
  <2> HIDE DEF S
  <2> QED
    BY <2>1, <1>1
<1>4. ASSUME HasQueue(fr[n]) PROVE Len(st.deferred) > 0
  <2> DEFINE S == {k \in 1 .. n : HasQueue(fr[k])}
  <2>1. S \in SUBSET (1 .. n) /\ n \in S /\ Len(QueueDirs(st)) = Cardinality(S)
    BY <1>2, <1>4 DEF Shape, InStep
  <2>2. Len(QueueDirs(st)) = Len(st.deferred)
    BY QueueDirsList DEF Shape
  <2> HIDE DEF S
  <2> QED
    BY <2>1, <2>2, <1>1
<1>5. ASSUME IsFinding(fr[n]) PROVE Len(st.finding) > 0
  <2> DEFINE S == {k \in 1 .. n : IsFinding(fr[k])}
  <2>1. S \in SUBSET (1 .. n) /\ n \in S /\ Len(st.finding) = Cardinality(S)
    BY <1>2, <1>5 DEF Shape, InStep
  <2> HIDE DEF S
  <2> QED
    BY <2>1, <1>1
<1>6. ASSUME IsMaking(fr[n]) PROVE Len(st.making) > 0
  <2> DEFINE S == {k \in 1 .. n : IsMaking(fr[k])}
  <2>1. S \in SUBSET (1 .. n) /\ n \in S /\ Len(st.making) = Cardinality(S)
    BY <1>2, <1>6 DEF Shape, InStep
  <2> HIDE DEF S
  <2> QED
    BY <2>1, <1>1
<1> QED
  BY <1>3, <1>4, <1>5, <1>6

\* A scope more.
LEMMA ScopeMore ==
  ASSUME NEW b, Formed(b), NEW x
  PROVE  LET c == [b EXCEPT !.scopes = Append(b.scopes, x)]
         IN  /\ Formed(c) /\ Len(c.scopes) = Len(b.scopes) + 1 /\ QueueDirs(c) = QueueDirs(b)
             /\ c.finding = b.finding /\ c.making = b.making
<1>1. IsList(b.scopes)
  BY DEF Formed
<1>2. PICK s : s = Append(b.scopes, x)
  OBVIOUS
<1>3. IsList(s) /\ Len(s) = Len(b.scopes) + 1
  BY <1>1, <1>2, ListAppend
<1>4. LET c == [b EXCEPT !.scopes = s]
      IN  Formed(c) /\ c.scopes = s /\ QueueDirs(c) = QueueDirs(b) /\ c.finding = b.finding /\ c.making = b.making
  BY <1>3, NewStack, Zenon
<1> QED
  BY <1>2, <1>3, <1>4

\* The scope a function starts with.
LEMMA ScopePush ==
  ASSUME NEW a, NEW b, Formed(a), Same(a, b), NEW x, NEW f, HasScope(f), ~HasQueue(f), ~IsFinding(f), ~IsMaking(f)
  PROVE  LET c == [b EXCEPT !.scopes = Append(b.scopes, x)] IN Grown(a, c, f) /\ EndsWith(c, f)
<1>1. Formed(b)
  BY DEF Same
<1> DEFINE c == [b EXCEPT !.scopes = Append(b.scopes, x)]
<1>2. Formed(c) /\ Len(c.scopes) = Len(b.scopes) + 1 /\ QueueDirs(c) = QueueDirs(b) /\ c.finding = b.finding /\ c.making = b.making
  BY <1>1, ScopeMore
<1> HIDE DEF c
<1>3. Grown(a, c, f) /\ EndsWith(c, f)
  BY <1>1, <1>2 DEF Grown, EndsWith, Same
<1> QED
  BY <1>3 DEF c

\* A scope less, and all else as it was.
LEMMA ScopeLess ==
  ASSUME NEW b, Formed(b), Len(b.scopes) > 0, NEW d, d = [b EXCEPT !.scopes = Front(b.scopes)]
  PROVE  /\ Formed(d) /\ Len(b.scopes) = Len(d.scopes) + 1 /\ QueueDirs(d) = QueueDirs(b)
         /\ d.finding = b.finding /\ d.making = b.making /\ d.deferred = b.deferred
<1>1. /\ {"scopes", "deferred", "finding", "making"} \subseteq DOMAIN b
      /\ IsList(b.scopes) /\ IsList(b.deferred) /\ IsList(b.finding) /\ IsList(b.making)
      /\ \A k \in DOMAIN b.deferred : "dir" \in DOMAIN b.deferred[k]
  BY DEF Formed, Kept
<1>2. IsList(Front(b.scopes)) /\ Len(Front(b.scopes)) = Len(b.scopes) - 1 /\ Len(b.scopes) \in Nat
  BY <1>1, ListFacts, ListFront
<1>3. DOMAIN d = DOMAIN b /\ d.scopes = Front(b.scopes) /\ d.deferred = b.deferred /\ d.finding = b.finding /\ d.making = b.making
  BY <1>1
<1>4. Formed(d) /\ QueueDirs(d) = QueueDirs(b)
  BY <1>1, <1>2, <1>3 DEF Formed, Kept, QueueDirs
<1>5. Len(b.scopes) = Len(d.scopes) + 1
  BY <1>2, <1>3
<1> QED
  BY <1>3, <1>4, <1>5

\* The scope a function ends with.
LEMMA ScopePop ==
  ASSUME NEW b, Formed(b), Len(b.scopes) > 0, NEW f, HasScope(f), ~HasQueue(f), ~IsFinding(f), ~IsMaking(f)
  PROVE  Grown([b EXCEPT !.scopes = Front(b.scopes)], b, f)
<1>1. PICK d : d = [b EXCEPT !.scopes = Front(b.scopes)]
  OBVIOUS
<1>2. /\ Formed(d) /\ Len(b.scopes) = Len(d.scopes) + 1 /\ QueueDirs(d) = QueueDirs(b)
      /\ d.finding = b.finding /\ d.making = b.making
  BY <1>1, ScopeLess
<1>3. Grown(d, b, f)
  BY <1>2 DEF Grown
<1> QED
  BY <1>1, <1>3

\* A queue of deferred calls more.
LEMMA QueuePush ==
  ASSUME NEW b, Formed(b), NEW d, NEW calls
  PROVE  LET c == [b EXCEPT !.deferred = Append(b.deferred, [dir |-> d, calls |-> calls])]
         IN  /\ Formed(c) /\ c.scopes = b.scopes /\ c.finding = b.finding /\ c.making = b.making
             /\ OneMore(QueueDirs(c), QueueDirs(b)) /\ QueueDirs(c)[Len(QueueDirs(c))] = d
<1> DEFINE q == b.deferred
           e == [dir |-> d, calls |-> calls]
           n == Len(q)
<1>1. IsList(q) /\ n \in Nat /\ DOMAIN q = 1 .. n /\ \A k \in DOMAIN q : "dir" \in DOMAIN q[k]
  BY ListFacts DEF Formed
<1>2. e.dir = d /\ "dir" \in DOMAIN e
  OBVIOUS
<1> HIDE DEF e
<1>3. PICK list : list = Append(q, e)
  OBVIOUS
<1> HIDE DEF q
<1>4. IsList(list) /\ Len(list) = n + 1 /\ DOMAIN list = 1 .. (n + 1) /\ list[n + 1] = e /\ \A k \in 1 .. n : list[k] = q[k]
  BY <1>1, <1>3, ListAppend
<1> HIDE DEF n
<1>5. \A k \in DOMAIN list : "dir" \in DOMAIN list[k]
  <2>1. \A k \in 1 .. (n + 1) : k = n + 1 \/ k \in 1 .. n
    BY <1>1
  <2> QED
    BY <2>1, <1>1, <1>2, <1>4
<1> DEFINE c == [b EXCEPT !.deferred = list]
<1>6. /\ Formed(c) /\ c.scopes = b.scopes /\ QueueDirs(c) = [k \in DOMAIN list |-> list[k].dir]
      /\ c.finding = b.finding /\ c.making = b.making
  BY <1>4, <1>5, NewStack, Zenon
<1>7. c.deferred = list
  BY DEF Formed, Kept
<1> HIDE DEF c
<1>8. Len(QueueDirs(c)) = n + 1 /\ \A k \in 1 .. (n + 1) : QueueDirs(c)[k] = list[k].dir
  BY <1>4, <1>6, <1>7, QueueDirsList
<1>9. Len(QueueDirs(b)) = n /\ \A k \in 1 .. n : QueueDirs(b)[k] = q[k].dir
  BY QueueDirsList DEF q, n
<1>10. OneMore(QueueDirs(c), QueueDirs(b))
  BY <1>1, <1>4, <1>8, <1>9 DEF OneMore
<1>11. QueueDirs(c)[Len(QueueDirs(c))] = d
  BY <1>1, <1>2, <1>4, <1>8
<1> QED
  BY <1>3, <1>6, <1>10, <1>11 DEF c, q, e

\* A queue of deferred calls less.
LEMMA QueuePop ==
  ASSUME NEW b, Formed(b), Len(b.deferred) > 0
  PROVE  LET c == [b EXCEPT !.deferred = Front(b.deferred)]
         IN  /\ Formed(c) /\ c.scopes = b.scopes /\ c.finding = b.finding /\ c.making = b.making
             /\ OneMore(QueueDirs(b), QueueDirs(c))
<1> DEFINE q == b.deferred
           n == Len(q)
<1>1. IsList(q) /\ n \in Nat /\ n > 0 /\ DOMAIN q = 1 .. n /\ \A k \in DOMAIN q : "dir" \in DOMAIN q[k]
  BY ListFacts DEF Formed
<1>2. PICK list : list = Front(q)
  OBVIOUS
<1> HIDE DEF q
<1>3. IsList(list) /\ Len(list) = n - 1 /\ DOMAIN list = 1 .. (n - 1) /\ \A k \in 1 .. (n - 1) : list[k] = q[k]
  BY <1>1, <1>2, ListFront
<1> HIDE DEF n
<1>4. \A k \in DOMAIN list : "dir" \in DOMAIN list[k]
  <2>1. \A k \in 1 .. (n - 1) : k \in 1 .. n
    BY <1>1
  <2> QED
    BY <2>1, <1>1, <1>3
<1> DEFINE c == [b EXCEPT !.deferred = list]
<1>5. Formed(c) /\ c.scopes = b.scopes /\ c.finding = b.finding /\ c.making = b.making
  BY <1>3, <1>4, NewStack, Zenon
<1>6. c.deferred = list
  BY DEF Formed, Kept
<1> HIDE DEF c
<1>7. Len(QueueDirs(c)) = n - 1 /\ \A k \in 1 .. (n - 1) : QueueDirs(c)[k] = list[k].dir
  BY <1>3, <1>5, <1>6, QueueDirsList
<1>8. Len(QueueDirs(b)) = n /\ \A k \in 1 .. n : QueueDirs(b)[k] = q[k].dir
  BY QueueDirsList DEF q, n
<1>9. OneMore(QueueDirs(b), QueueDirs(c))
  BY <1>1, <1>3, <1>7, <1>8 DEF OneMore
<1> QED
  BY <1>2, <1>5, <1>9 DEF c, q

\* A call of a function or a macro: its frame and the session it starts in.
LEMMA CallGrown ==
  ASSUME SessionInv, frames # <<>>, NEW c, NEW name, NEW args, NEW g,
         Fresh(g, CallKind(name), c, None, CurrentDir), g.tx \in BOOLEAN
  PROVE  /\ FrameOK(g) /\ g.kind # "top" /\ g.kind # "ctest_script"
         /\ Grown(now, CallState(name, args), g) /\ EndsWith(CallState(name, args), g)
<1>1. CallKind(name) \in {"macro", "function"}
  BY DEF CallKind
<1>2. FrameOK(g) /\ g.kind # "top" /\ g.kind # "ctest_script"
  BY <1>1, PlainFrame DEF PlainKinds
<1>3. CASE CallKind(name) = "macro"
  <2>1. CallState(name, args) = now
    BY <1>3 DEF CallState
  <2>2. Quiet(g)
    BY <1>3, PlainFrame DEF PlainKinds
  <2> QED
    BY <1>2, <2>1, <2>2, Innermost, SameItself, GrownQuiet
<1>4. CASE CallKind(name) = "function"
  <2>1. CallState(name, args) = [now EXCEPT !.scopes = Append(now.scopes, ArgumentScope(now.commands[name].params, args))]
    BY <1>4 DEF CallState
  <2>2. HasScope(g) /\ ~HasQueue(g) /\ ~IsFinding(g) /\ ~IsMaking(g)
    BY <1>4, PlainFrame DEF PlainKinds
  <2>3. \A x : LET s == [now EXCEPT !.scopes = Append(now.scopes, x)] IN Grown(now, s, g) /\ EndsWith(s, g)
    BY <2>2, Innermost, SameItself, ScopePush
  <2> QED
    BY <1>2, <2>1, <2>3
<1> QED
  BY <1>1, <1>3, <1>4

\* A directory that is entered: its scope and its queue.
LEMMA DirectoryGrown ==
  ASSUME SessionInv, frames # <<>>, NEW c, NEW file, NEW g,
         Fresh(g, "subdirectory", c, None, Files[file].dir), g.tx \in BOOLEAN
  PROVE  /\ FrameOK(g) /\ g.kind # "top" /\ g.kind # "ctest_script"
         /\ Grown(now, DirectoryState(file), g) /\ EndsWith(DirectoryState(file), g)
<1> DEFINE d  == Files[file].dir
           s1 == ScopeCaptured(now, world)
           s2 == [s1 EXCEPT !.scopes = Append(s1.scopes, Empty)]
           s3 == Publish(s2, DirectoryWorld(file))
           s4 == Registered(s3, DirectoryWorld(file), d)
           s5 == [s4 EXCEPT !.deferred = Append(s4.deferred, [dir |-> d, calls |-> <<>>])]
<1>1. DirectoryState(file) = s5
  BY DEF DirectoryState
<1>2. Formed(now) /\ Same(now, s1)
  BY Innermost, SameCaptured
<1> HIDE DEF s1
<1>3. Formed(s1)
  BY <1>2 DEF Same
<1>6. /\ Formed(s2) /\ Len(s2.scopes) = Len(s1.scopes) + 1 /\ QueueDirs(s2) = QueueDirs(s1)
      /\ s2.finding = s1.finding /\ s2.making = s1.making
  BY <1>3, ScopeMore
<1> HIDE DEF s2
<1>7. Same(s2, s4)
  BY SameSet, SameRegistered, SameTrans
<1> HIDE DEF s4
<1>8. /\ Formed(s4) /\ Len(s4.scopes) = Len(now.scopes) + 1 /\ QueueDirs(s4) = QueueDirs(now)
      /\ s4.finding = now.finding /\ s4.making = now.making
  BY <1>2, <1>6, <1>7 DEF Same
<1>9. /\ Formed(s5) /\ s5.scopes = s4.scopes /\ s5.finding = s4.finding /\ s5.making = s4.making
      /\ OneMore(QueueDirs(s5), QueueDirs(s4)) /\ QueueDirs(s5)[Len(QueueDirs(s5))] = d
  BY <1>8, QueuePush
<1> HIDE DEF s5
<1>10. /\ FrameOK(g) /\ g.kind # "top" /\ g.kind # "ctest_script"
       /\ HasScope(g) /\ HasQueue(g) /\ ~IsFinding(g) /\ ~IsMaking(g)
  BY PlainFrame DEF PlainKinds
<1>11. g.dir = d
  BY DEF Fresh
<1> HIDE DEF d
<1>12. Grown(now, s5, g) /\ EndsWith(s5, g)
  BY <1>2, <1>8, <1>9, <1>10, <1>11 DEF Grown, EndsWith
<1> QED
  BY <1>1, <1>10, <1>12


\* The frames of calls, files, directories and scripts.
LEMMA CallFrames ==
  /\ \A c, name :
        /\ Fresh(CallFrame(c, name), CallKind(name), c, None, CurrentDir) /\ CallFrame(c, name).tx = TRUE
        /\ LET g == [CallFrame(c, name) EXCEPT !.tx = FALSE] IN Fresh(g, CallKind(name), c, None, CurrentDir) /\ g.tx = FALSE
  /\ \A kind, c, file : Fresh(FileFrame(kind, c, file), kind, c, None, CurrentDir) /\ FileFrame(kind, c, file).tx = TRUE
  /\ \A c, file : Fresh(DirectoryFrame(c, file), "subdirectory", c, None, Files[file].dir) /\ DirectoryFrame(c, file).tx = TRUE
  /\ \A body, file, policy :
        LET g == ScriptFrame(body, file, policy)
        IN  Fresh(g, "script", None, [policy |-> policy, file |-> file], CurrentDir) /\ g.tx = FALSE
  /\ \A rest :
        LET g == [NewFrame("deferred", None, rest, FALSE) EXCEPT !.tx = FALSE]
        IN  Fresh(g, "deferred", None, None, CurrentDir) /\ g.tx = FALSE
<1>0. ASSUME NEW f, NEW kind, NEW c, NEW preserve, NEW rest, f = NewFrame(kind, c, rest, preserve)
      PROVE  Fresh(f, kind, c, None, CurrentDir) /\ f.tx = TRUE
  BY <1>0 DEF NewFrame, Fresh, FrameFields
<1>1. ASSUME NEW c, NEW name
      PROVE  /\ Fresh(CallFrame(c, name), CallKind(name), c, None, CurrentDir) /\ CallFrame(c, name).tx = TRUE
             /\ LET g == [CallFrame(c, name) EXCEPT !.tx = FALSE] IN Fresh(g, CallKind(name), c, None, CurrentDir) /\ g.tx = FALSE
  <2>1. PICK kind, body : kind = CallKind(name) /\ body = now.commands[name].body
    OBVIOUS
  <2>2. PICK f : f = NewFrame(kind, c, body, TRUE)
    OBVIOUS
  <2>3. PICK depth : CallFrame(c, name) = [f EXCEPT !.depth = depth]
    BY <2>1, <2>2, Zenon DEF CallFrame
  <2>4. PICK h : h = CallFrame(c, name)
    OBVIOUS
  <2>5. Fresh(f, kind, c, None, CurrentDir) /\ f.tx = TRUE
    <3>1. \A p : f = NewFrame(kind, c, body, p) => Fresh(f, kind, c, None, CurrentDir) /\ f.tx = TRUE
      BY <1>0
    <3> QED
      BY <2>2, <3>1, Zenon
  <2>6. Fresh(h, kind, c, None, CurrentDir) /\ h.tx = TRUE
    BY <2>3, <2>4, <2>5 DEF Fresh, FrameFields
  <2>7. LET g == [h EXCEPT !.tx = FALSE] IN Fresh(g, kind, c, None, CurrentDir) /\ g.tx = FALSE
    BY <2>6 DEF Fresh, FrameFields
  <2> QED
    BY <2>1, <2>4, <2>6, <2>7
<1>2. ASSUME NEW kind, NEW c, NEW file
      PROVE  Fresh(FileFrame(kind, c, file), kind, c, None, CurrentDir) /\ FileFrame(kind, c, file).tx = TRUE
  <2>1. PICK body : body = Files[file].body
    OBVIOUS
  <2>2. PICK f : f = NewFrame(kind, c, body, FALSE)
    OBVIOUS
  <2>3. PICK depth : FileFrame(kind, c, file) = [f EXCEPT !.depth = depth]
    BY <2>1, <2>2, Zenon DEF FileFrame
  <2>4. Fresh(f, kind, c, None, CurrentDir) /\ f.tx = TRUE
    <3>1. \A p : f = NewFrame(kind, c, body, p) => Fresh(f, kind, c, None, CurrentDir) /\ f.tx = TRUE
      BY <1>0
    <3> QED
      BY <2>2, <3>1, Zenon
  <2> QED
    BY <2>3, <2>4 DEF Fresh, FrameFields
<1>3. ASSUME NEW c, NEW file
      PROVE  Fresh(DirectoryFrame(c, file), "subdirectory", c, None, Files[file].dir) /\ DirectoryFrame(c, file).tx = TRUE
  <2>1. PICK f, dir : f = FileFrame("subdirectory", c, file) /\ dir = Files[file].dir
    OBVIOUS
  <2>2. Fresh(f, "subdirectory", c, None, CurrentDir) /\ f.tx = TRUE
    BY <1>2, <2>1
  <2>3. DirectoryFrame(c, file) = [f EXCEPT !.dir = dir]
    BY <2>1 DEF DirectoryFrame
  <2>4. Fresh(DirectoryFrame(c, file), "subdirectory", c, None, dir) /\ DirectoryFrame(c, file).tx = TRUE
    BY <2>2, <2>3 DEF Fresh, FrameFields
  <2> QED
    BY <2>1, <2>4
<1>4. ASSUME NEW body, NEW file, NEW policy
      PROVE  LET g == ScriptFrame(body, file, policy)
             IN  Fresh(g, "script", None, [policy |-> policy, file |-> file], CurrentDir) /\ g.tx = FALSE
  <2>1. PICK todo : todo = [policy |-> policy, file |-> file]
    OBVIOUS
  <2>2. PICK f : f = NewFrame("script", None, body, FALSE)
    OBVIOUS
  <2>3. PICK depth : ScriptFrame(body, file, policy) = [f EXCEPT !.tx = FALSE, !.depth = depth, !.todo = todo]
    BY <2>1, <2>2, Zenon DEF ScriptFrame
  <2>4. Fresh(f, "script", None, None, CurrentDir) /\ f.tx = TRUE
    <3>1. \A p : f = NewFrame("script", None, body, p) => Fresh(f, "script", None, None, CurrentDir) /\ f.tx = TRUE
      BY <1>0
    <3> QED
      BY <2>2, <3>1, Zenon
  <2>5. LET g == [f EXCEPT !.tx = FALSE, !.depth = depth, !.todo = todo]
        IN  Fresh(g, "script", None, todo, CurrentDir) /\ g.tx = FALSE
    BY <2>4 DEF Fresh, FrameFields
  <2> QED
    BY <2>1, <2>3, <2>5
<1>5. ASSUME NEW rest
      PROVE  LET g == [NewFrame("deferred", None, rest, FALSE) EXCEPT !.tx = FALSE]
             IN  Fresh(g, "deferred", None, None, CurrentDir) /\ g.tx = FALSE
  <2>1. PICK f : f = NewFrame("deferred", None, rest, FALSE)
    OBVIOUS
  <2>2. Fresh(f, "deferred", None, None, CurrentDir)
    <3>1. \A p : f = NewFrame("deferred", None, rest, p) => Fresh(f, "deferred", None, None, CurrentDir)
      BY <1>0
    <3> QED
      BY <2>1, <3>1, Zenon
  <2>3. LET g == [f EXCEPT !.tx = FALSE] IN Fresh(g, "deferred", None, None, CurrentDir) /\ g.tx = FALSE
    BY <2>2 DEF Fresh, FrameFields
  <2> QED
    BY <2>1, <2>3
<1> QED
  BY <1>1, <1>2, <1>3, <1>4, <1>5

\* The commands left of the innermost frame change, and nothing else.
LEMMA RestKeeps ==
  ASSUME SessionInv, frames # <<>>, Same(now, now'), NEW r, frames' = [frames EXCEPT ![Len(frames)].rest = r]
  PROVE  SessionInv'
<1>1. Aligned(now', [frames EXCEPT ![Len(frames)].rest = r])
  BY Innermost, NewRest DEF SessionInv
<1> QED
  BY <1>1 DEF SessionInv

\* A command that starts others and keeps nothing open.
LEMMA EnterQuiet ==
  ASSUME SessionInv, frames # <<>>, NEW c, NEW cmd, NEW st, NEW g, NEW events, NEW w, Enter(c, cmd, st, g, events, w),
         Same(now, st), NEW kind, NEW d, NEW todo, NEW dir, Fresh(g, kind, d, todo, dir), g.tx = TRUE,
         kind \in (PlainKinds \ {"function", "subdirectory"}) \cup {"project", "ctest_custom"}
  PROVE  SessionInv'
<1>1. FrameOK(g) /\ g.kind # "top" /\ g.kind # "ctest_script" /\ Quiet(g)
  BY PlainFrame DEF PlainKinds
<1>2. Grown(now, st, g) /\ EndsWith(st, g)
  BY <1>1, Innermost, GrownQuiet
<1>3. g.before = now
  BY DEF Fresh
<1> QED
  BY <1>1, <1>2, <1>3, EnterKeeps

\* Functions, files, directories, projects and cmake_language().
LEMMA ScriptCommands ==
  ASSUME SessionInv, frames # <<>>, NEW c,
         \/ InvokeCommand(c) \/ ReturnCommand(c) \/ Include(c) \/ AddSubdirectory(c) \/ IncludeGuard(c)
         \/ Project(c) \/ CmakeLanguageCall(c)
  PROVE  SessionInv'
<1>1. CASE InvokeCommand(c)
  <2>1. CASE Enter(c, "invoke", CallState(c.name, c.args), CallFrame(c, c.name), <<>>, CallWorld(c.name))
    <3> DEFINE g == CallFrame(c, c.name)
    <3>1. Fresh(g, CallKind(c.name), c, None, CurrentDir) /\ g.tx = TRUE
      BY CallFrames
    <3> HIDE DEF g
    <3>2. /\ FrameOK(g) /\ g.kind # "top" /\ g.kind # "ctest_script"
          /\ Grown(now, CallState(c.name, c.args), g) /\ EndsWith(CallState(c.name, c.args), g)
      BY <3>1, CallGrown
    <3>3. g.before = now
      BY <3>1 DEF Fresh
    <3>4. Enter(c, "invoke", CallState(c.name, c.args), g, <<>>, CallWorld(c.name))
      BY <2>1 DEF g
    <3> QED
      BY <3>1, <3>2, <3>3, <3>4, EnterKeeps
  <2>2. CASE Leaf(c, "invoke", Done(now))
    BY <2>2, KeepsDone, LeafKeeps
  <2> QED
    BY <1>1, <2>1, <2>2 DEF InvokeCommand
<1>2. CASE ReturnCommand(c)
  <2>1. \A k, x : Same(now, [now EXCEPT !.scopes[k] = x])
    BY SameScope
  <2>2. \E k, x : now' = [now EXCEPT !.scopes[k] = x]
    BY <1>2, Zenon DEF ReturnCommand
  <2>3. PICK k, x : now' = [now EXCEPT !.scopes[k] = x]
    BY <2>2
  <2>4. Same(now, now')
    BY <2>1, <2>3
  <2>5. frames' = [frames EXCEPT ![Len(frames)].rest = <<>>]
    BY <1>2, Zenon DEF ReturnCommand
  <2> QED
    BY <2>4, <2>5, RestKeeps
<1>3. CASE Include(c)
  <2>1. CASE Leaf(c, "include", Done(SetIf([now EXCEPT !.modules = @ \cup {c.file}], c.result, c.file)))
    <3>1. \A x : Keeps(Done(SetIf([now EXCEPT !.modules = x], c.result, c.file)))
      BY SameItself, SameField, SameAfter, KeepsDone
    <3> QED
      BY <2>1, <3>1, LeafKeeps
  <2>2. CASE Leaf(c, "include", [Done(SetIf(now, c.result, "NOTFOUND")) EXCEPT !.ok = c.optional])
    <3>1. Keeps([Done(SetIf(now, c.result, "NOTFOUND")) EXCEPT !.ok = c.optional])
      BY SameSet, KeepsDone, KeepsExcept
    <3> QED
      BY <2>2, <3>1, LeafKeeps
  <2>3. ASSUME NEW w, NEW events,
               Enter(c, "include", Publish(SetIf(now, c.result, c.file), w), FileFrame("include", c, c.file), events, w)
        PROVE  SessionInv'
    <3>1. LET g == FileFrame("include", c, c.file) IN Fresh(g, "include", c, None, CurrentDir) /\ g.tx = TRUE
      BY CallFrames
    <3>2. Same(now, Publish(SetIf(now, c.result, c.file), w))
      BY SameSet, SameAfter
    <3> QED
      BY <2>3, <3>1, <3>2, EnterQuiet DEF PlainKinds
  <2> QED
    BY <1>3, <2>1, <2>2, <2>3 DEF Include
<1>4. CASE AddSubdirectory(c)
  <2>1. CASE c.file \in DOMAIN Files
    <3> DEFINE g == DirectoryFrame(c, c.file)
    <3>1. Fresh(g, "subdirectory", c, None, Files[c.file].dir) /\ g.tx = TRUE
      BY CallFrames
    <3> HIDE DEF g
    <3>2. /\ FrameOK(g) /\ g.kind # "top" /\ g.kind # "ctest_script"
          /\ Grown(now, DirectoryState(c.file), g) /\ EndsWith(DirectoryState(c.file), g)
      BY <3>1, DirectoryGrown
    <3>3. g.before = now
      BY <3>1 DEF Fresh
    <3>4. Enter(c, "add_subdirectory", DirectoryState(c.file), g, <<EnterEvent(Files[c.file].dir)>>, DirectoryWorld(c.file))
      BY <1>4, <2>1 DEF g, AddSubdirectory
    <3> QED
      BY <3>1, <3>2, <3>3, <3>4, EnterKeeps
  <2>2. CASE c.file \notin DOMAIN Files
    <3>1. now' = now /\ frames' = Ahead
      BY <1>4, <2>2 DEF AddSubdirectory
    <3> QED
      BY <3>1, SameItself, RestKeeps DEF Ahead
  <2> QED
    BY <2>1, <2>2
<1>5. CASE IncludeGuard(c)
  <2>1. CASE Leaf(c, "include_guard", Done(GuardState(c)))
    <3>1. \A k, v, x : Same(now, Set(now, v, x)) /\ Same(now, SetAt(now, k, v, x))
      BY SameSet
    <3>2. Keeps(Done(GuardState(c)))
      BY <3>1, KeepsDone DEF GuardState
    <3> QED
      BY <2>1, <3>2, LeafKeeps
  <2>2. CASE frames' = [frames EXCEPT ![Len(frames)].rest = <<>>] /\ now' = now
    BY <2>2, SameItself, RestKeeps
  <2> QED
    BY <1>5, <2>1, <2>2 DEF IncludeGuard
<1>6. CASE Project(c)
  <2>1. CASE Leaf(c, "project", Wrong)
    BY <2>1, KeepsDone, LeafKeeps
  <2>2. CASE Enter(c, "project", ProjectVariables(c), [NewFrame("project", c, <<>>, FALSE) EXCEPT !.todo = ProjectIncludes], <<>>, world)
    <3> DEFINE g == [NewFrame("project", c, <<>>, FALSE) EXCEPT !.todo = ProjectIncludes]
    <3>2. Fresh(g, "project", c, ProjectIncludes, CurrentDir) /\ g.tx = TRUE
      BY NewFrames, Zenon
    <3>3. \A x, y, z : Same(now, Set(Set(now, "PROJECT_NAME", x), "PROJECT_IS_TOP_LEVEL", y))
                       /\ Same(now, Set(Set(Set(now, "PROJECT_NAME", x), "PROJECT_IS_TOP_LEVEL", y), "CMAKE_PROJECT_NAME", z))
      BY SameSet, SameAfter
    <3>4. Same(now, ProjectVariables(c))
      BY <3>3, Zenon DEF ProjectVariables
    <3>5. Enter(c, "project", ProjectVariables(c), g, <<>>, world)
      BY <2>2
    <3> HIDE DEF g
    <3> QED
      BY <3>2, <3>4, <3>5, EnterQuiet
  <2> QED
    BY <1>6, <2>1, <2>2, Zenon DEF Project
<1>7. CASE CmakeLanguageCall(c)
  <2>1. CASE Leaf(c, "cmake_language", Wrong)
    BY <2>1, KeepsDone, LeafKeeps
  <2>2. CASE Enter(c, "cmake_language", now, NewFrame("call", c, c.body, TRUE), <<>>, world)
    <3> DEFINE g == NewFrame("call", c, c.body, TRUE)
    <3>2. Fresh(g, "call", c, None, CurrentDir) /\ g.tx = TRUE
      BY NewFrames, Zenon
    <3>3. Enter(c, "cmake_language", now, g, <<>>, world)
      BY <2>2
    <3> HIDE DEF g
    <3> QED
      BY <3>2, <3>3, SameItself, EnterQuiet DEF PlainKinds
  <2> QED
    BY <1>7, <2>1, <2>2, Zenon DEF CmakeLanguageCall
<1> QED
  BY <1>1, <1>2, <1>3, <1>4, <1>5, <1>6, <1>7

\* A frame of a command with stages, when the command starts.
LEMMA StagedFrame ==
  ASSUME NEW g, NEW kind, NEW c, NEW todo, NEW dir, Fresh(g, kind, c, todo, dir), g.tx = TRUE,
         \/ kind = "find_package" /\ DOMAIN todo = {"stage", "found", "path"} /\ todo.stage \in {"provider", "resolve"}
         \/ kind = "find_item" /\ DOMAIN todo = {"stage", "left"}
         \/ kind = "fetch" /\ DOMAIN todo = {"stage", "left", "pushed", "verify", "events"} /\ todo.pushed = FALSE
         \/ kind = "ctest_script" /\ DOMAIN todo = {"left", "rv", "errors", "running", "before"} /\ todo.running = FALSE
  PROVE  FrameOK(g) /\ g.kind # "top" /\ (g.kind = "ctest_script" => ~g.todo.running) /\ Quiet(g)
<1>1. DOMAIN Stages = {"find_package", "find_item", "fetch", "ctest_script"}
  BY DEF Stages
<1>2. DOMAIN g.todo = Stages[g.kind]
  BY DEF Fresh, Stages
<1>3. FrameOK(g)
  BY <1>1, <1>2 DEF FrameOK, Fresh
<1> QED
  BY <1>3 DEF Fresh, Quiet, HasScope, HasQueue, IsFinding, IsMaking, InNewProcess

\* A command with stages that starts.
LEMMA EnterStaged ==
  ASSUME SessionInv, frames # <<>>, NEW c, NEW cmd, NEW g, NEW events, NEW w, Enter(c, cmd, now, g, events, w),
         NEW kind, NEW todo, Fresh(g, kind, c, todo, CurrentDir), g.tx = TRUE,
         \/ kind = "find_package" /\ DOMAIN todo = {"stage", "found", "path"} /\ todo.stage \in {"provider", "resolve"}
         \/ kind = "find_item" /\ DOMAIN todo = {"stage", "left"}
         \/ kind = "fetch" /\ DOMAIN todo = {"stage", "left", "pushed", "verify", "events"} /\ todo.pushed = FALSE
         \/ kind = "ctest_script" /\ DOMAIN todo = {"left", "rv", "errors", "running", "before"} /\ todo.running = FALSE
  PROVE  SessionInv'
<1>1. FrameOK(g) /\ g.kind # "top" /\ (g.kind = "ctest_script" => ~g.todo.running) /\ Quiet(g)
  BY StagedFrame
<1>2. Grown(now, now, g) /\ EndsWith(now, g)
  BY <1>1, Innermost, SameItself, GrownQuiet
<1>3. g.before = now
  BY DEF Fresh
<1> QED
  BY <1>1, <1>2, <1>3, EnterKeeps

\* Scripts, packages and dependencies.
LEMMA StartingCommands ==
  ASSUME SessionInv, frames # <<>>, NEW c,
         RunScript(c) \/ ReadCustomFiles(c) \/ FindPackage(c) \/ FindItem(c) \/ FetchMakeAvailable(c)
  PROVE  SessionInv'
<1>1. CASE RunScript(c)
  <2>1. PICK todo : todo = [left |-> c.scripts, rv |-> "0", errors |-> errors, running |-> FALSE, before |-> None]
    OBVIOUS
  <2>2. DOMAIN todo = {"left", "rv", "errors", "running", "before"} /\ todo.running = FALSE
    BY <2>1
  <2> DEFINE g == [NewFrame("ctest_script", c, <<>>, TRUE) EXCEPT !.todo = todo, !.pending = Reject]
  <2>3. Fresh(g, "ctest_script", c, todo, CurrentDir) /\ g.tx = TRUE
    BY NewFrames, Zenon
  <2>4. Enter(c, "ctest_run_script", now, g, <<>>, world)
    BY <1>1, <2>1, Zenon DEF RunScript
  <2> HIDE DEF g
  <2> QED
    BY <2>2, <2>3, <2>4, EnterStaged
<1>2. CASE ReadCustomFiles(c)
  <2>1. PICK todo : todo = SelectSeq(c.files, LAMBDA f : f \in DOMAIN Files)
    OBVIOUS
  <2> DEFINE g == [NewFrame("ctest_custom", c, <<>>, FALSE) EXCEPT !.todo = todo, !.pending = Reject]
  <2>2. Fresh(g, "ctest_custom", c, todo, CurrentDir) /\ g.tx = TRUE
    BY NewFrames, Zenon
  <2>3. Enter(c, "ctest_read_custom_files", now, g, <<>>, world)
    BY <1>2, <2>1, Zenon DEF ReadCustomFiles
  <2> HIDE DEF g
  <2> QED
    BY <2>2, <2>3, SameItself, EnterQuiet
<1>3. CASE FindPackage(c)
  <2>1. CASE Leaf(c, "find_package", Wrong)
    BY <2>1, KeepsDone, LeafKeeps
  <2>2. PICK stage : stage = IF ~c.bypass /\ ProviderSupports("FIND_PACKAGE") THEN "provider" ELSE "resolve"
    OBVIOUS
  <2>3. PICK todo : todo = [stage |-> stage, found |-> FALSE, path |-> None]
    OBVIOUS
  <2>4. DOMAIN todo = {"stage", "found", "path"} /\ todo.stage \in {"provider", "resolve"}
    BY <2>2, <2>3
  <2> DEFINE g == [NewFrame("find_package", c, <<>>, FALSE) EXCEPT !.todo = todo]
  <2>5. CASE Enter(c, "find_package", now, g, <<>>, world)
    <3>1. Fresh(g, "find_package", c, todo, CurrentDir) /\ g.tx = TRUE
      BY NewFrames, Zenon
    <3> HIDE DEF g
    <3> QED
      BY <2>4, <2>5, <3>1, EnterStaged
  <2> QED
    BY <1>3, <2>1, <2>2, <2>3, <2>5, Zenon DEF FindPackage
<1>4. CASE FindItem(c)
  <2>1. \A x : Keeps(Done(ItemResult(now, c, x)))
    BY SameSet, KeepsDone DEF ItemResult
  <2>2. \A found, bad : Leaf(c, "find_item", IF bad THEN Wrong ELSE Done(ItemResult(now, c, found))) => SessionInv'
    BY <2>1, KeepsDone, LeafKeeps
  <2>3. \A all : Enter(c, "find_item", now,
                       [NewFrame("find_item", c, <<>>, FALSE) EXCEPT !.todo = [stage |-> "try", left |-> all]], <<>>, world)
                 => SessionInv'
    <3> SUFFICES ASSUME NEW all,
                        Enter(c, "find_item", now,
                              [NewFrame("find_item", c, <<>>, FALSE) EXCEPT !.todo = [stage |-> "try", left |-> all]], <<>>, world)
                 PROVE  SessionInv'
      OBVIOUS
    <3>1. PICK todo : todo = [stage |-> "try", left |-> all]
      OBVIOUS
    <3>2. DOMAIN todo = {"stage", "left"}
      BY <3>1
    <3> DEFINE g == [NewFrame("find_item", c, <<>>, FALSE) EXCEPT !.todo = todo]
    <3>3. Fresh(g, "find_item", c, todo, CurrentDir) /\ g.tx = TRUE
      BY NewFrames, Zenon
    <3>4. Enter(c, "find_item", now, g, <<>>, world)
      BY <3>1, Zenon
    <3> HIDE DEF g
    <3> QED
      BY <3>2, <3>3, <3>4, EnterStaged
  <2> QED
    BY <1>4, <2>2, <2>3, Zenon DEF FindItem
<1>5. CASE FetchMakeAvailable(c)
  <2>1. CASE Leaf(c, "fetch_make_available", Wrong)
    BY <2>1, KeepsDone, LeafKeeps
  <2>2. PICK todo : todo = [Fetching EXCEPT !.left = c.names]
    OBVIOUS
  <2>3. DOMAIN todo = {"stage", "left", "pushed", "verify", "events"} /\ todo.pushed = FALSE
    BY <2>2 DEF Fetching
  <2> DEFINE g == [NewFrame("fetch", c, <<>>, FALSE) EXCEPT !.todo = todo]
  <2>4. CASE Enter(c, "fetch_make_available", now, g, <<>>, world)
    <3>1. Fresh(g, "fetch", c, todo, CurrentDir) /\ g.tx = TRUE
      BY NewFrames, Zenon
    <3> HIDE DEF g
    <3> QED
      BY <2>3, <2>4, <3>1, EnterStaged
  <2> QED
    BY <1>5, <2>1, <2>2, <2>4, Zenon DEF FetchMakeAvailable
<1> QED
  BY <1>1, <1>2, <1>3, <1>4, <1>5

-----------------------------------------------------------------------------
(***************************************************************************)
(* Commands that go on.                                                    *)
(***************************************************************************)

FindingStages == {"version", "versioned", "package", "ran"}

\* What the innermost frame may do next without opening or closing anything.
Onward(todo) ==
    /\ Top.kind \in {"project", "ctest_custom", "find_package", "find_item", "fetch"}
    /\ Top.kind \in DOMAIN Stages => DOMAIN todo = Stages[Top.kind]
    /\ Top.kind = "find_package" => (todo.stage \in FindingStages <=> Top.todo.stage \in FindingStages)
    /\ Top.kind = "fetch" => /\ todo.pushed = Top.todo.pushed
                             /\ todo.pushed => todo.left = Top.todo.left /\ todo.stage # "begin"

\* The innermost frame goes on, and keeps open what it did.
LEMMA OnwardKeeps ==
  ASSUME SessionInv, frames # <<>>, NEW todo, Onward(todo), NEW st, Same(now, st)
  PROVE  /\ Aligned(st, [frames EXCEPT ![Len(frames)].todo = todo])
         /\ \A rest : Aligned(st, [frames EXCEPT ![Len(frames)] = [@ EXCEPT !.todo = todo, !.rest = rest]])
<1> DEFINE n == Len(frames)
<1>1. Top = frames[n] /\ FrameOK(Top) /\ IsList(frames) /\ n \in DOMAIN frames
  BY Innermost, ListFacts
<1>2. PICK f : f = Top
  OBVIOUS
<1>3. ASSUME NEW g, DOMAIN g = FrameFields, g.kind = f.kind, g.cmd = f.cmd, g.tx = f.tx, g.before = f.before, g.dir = f.dir,
             g.todo = todo
      PROVE  Aligned(st, [frames EXCEPT ![n] = g])
  <2>1. IsFinding(g) <=> (g.kind = "find_package" /\ todo.stage \in FindingStages)
    BY <1>3 DEF IsFinding, FindingStages
  <2>2. IsFinding(Top) <=> (Top.kind = "find_package" /\ Top.todo.stage \in FindingStages)
    BY DEF IsFinding, FindingStages
  <2> QED
    BY <1>2, <1>3, <2>1, <2>2, Restaged DEF Onward
<1>4. Aligned(st, [frames EXCEPT ![n] = [f EXCEPT !.todo = todo]])
  <2>1. PICK g : g = [f EXCEPT !.todo = todo]
    OBVIOUS
  <2>2. /\ DOMAIN g = FrameFields /\ g.kind = f.kind /\ g.cmd = f.cmd /\ g.tx = f.tx /\ g.before = f.before /\ g.dir = f.dir
        /\ g.todo = todo
    BY <1>1, <1>2, <2>1, NewTodo
  <2>3. Aligned(st, [frames EXCEPT ![n] = g])
    BY <2>2, <1>3
  <2> QED
    BY <2>1, <2>3
<1>5. ASSUME NEW rest PROVE Aligned(st, [frames EXCEPT ![n] = [f EXCEPT !.todo = todo, !.rest = rest]])
  <2>1. PICK g : g = [f EXCEPT !.todo = todo, !.rest = rest]
    OBVIOUS
  <2>2. /\ DOMAIN g = FrameFields /\ g.kind = f.kind /\ g.cmd = f.cmd /\ g.tx = f.tx /\ g.before = f.before /\ g.dir = f.dir
        /\ g.todo = todo
    BY <1>1, <1>2, <2>1, NewTodo
  <2>3. Aligned(st, [frames EXCEPT ![n] = g])
    BY <2>2, <1>3
  <2> QED
    BY <2>1, <2>3
<1>6. [frames EXCEPT ![Len(frames)].todo = todo] = [frames EXCEPT ![n] = [f EXCEPT !.todo = todo]]
  BY <1>1, <1>2, Zenon
<1>7. ASSUME NEW rest
      PROVE  [frames EXCEPT ![Len(frames)] = [@ EXCEPT !.todo = todo, !.rest = rest]]
               = [frames EXCEPT ![n] = [f EXCEPT !.todo = todo, !.rest = rest]]
  BY <1>1, <1>2, Zenon
<1> QED
  BY <1>4, <1>5, <1>6, <1>7

\* The innermost frame goes on to its next stage.
LEMMA ResumeKeeps ==
  ASSUME SessionInv, frames # <<>>, NEW todo, Onward(todo), NEW st, Same(now, st), NEW rest, Resume(st, todo, rest)
  PROVE  SessionInv'
<1>1. now' = st /\ frames' = [frames EXCEPT ![Len(frames)] = [@ EXCEPT !.todo = todo, !.rest = rest]]
  BY DEF Resume
<1>2. Aligned(st, [frames EXCEPT ![Len(frames)] = [@ EXCEPT !.todo = todo, !.rest = rest]])
  BY OnwardKeeps
<1> QED
  BY <1>1, <1>2 DEF SessionInv

\* A command that runs a file or a function in its own transaction.
LEMMA RunsInside ==
  ASSUME SessionInv, frames # <<>>, NEW todo, Onward(todo), NEW g, NEW st,
         FrameOK(g), g.tx = FALSE, g.kind # "top", g.kind # "ctest_script", Grown(now, st, g), EndsWith(st, g),
         now' = st, frames' = Append([frames EXCEPT ![Len(frames)].todo = todo], g)
  PROVE  SessionInv'
<1> DEFINE n == Len(frames)
<1>1. PICK fr : fr = [frames EXCEPT ![n].todo = todo]
  OBVIOUS
<1>2. Aligned(now, fr)
  BY <1>1, OnwardKeeps, SameItself
<1>3. IsList(frames) /\ n \in DOMAIN frames /\ n > 0 /\ Top = frames[n] /\ FrameOK(Top)
  BY Innermost, ListFacts
<1>4. PICK f : f = Top
  OBVIOUS
<1>5. fr = [frames EXCEPT ![n] = [f EXCEPT !.todo = todo]]
  BY <1>1, <1>3, <1>4, Zenon
<1>6. [f EXCEPT !.todo = todo].tx = f.tx
  BY <1>3, <1>4, NewTodo
<1>7. PICK h : h = [f EXCEPT !.todo = todo]
  OBVIOUS
<1>8. Len(fr) = n /\ fr[n] = h
  BY <1>3, <1>5, <1>7, ListExcept
<1>9. f.tx
  BY <1>3, <1>4 DEF FrameOK, Onward
<1>10. fr[Len(fr)].tx /\ Len(fr) > 0
  BY <1>3, <1>6, <1>7, <1>8, <1>9
<1>11. Aligned(st, Append(fr, g))
  BY <1>2, <1>10, PushFrame
<1> QED
  BY <1>1, <1>11 DEF SessionInv

\* What find_package(), find_item() and FetchContent_MakeAvailable() may do next.
LEMMA NextStage ==
  ASSUME SessionInv, frames # <<>>, NEW todo, DOMAIN todo = DOMAIN Top.todo,
         \/ Top.kind = "find_package" /\ (todo.stage \in FindingStages <=> Top.todo.stage \in FindingStages)
         \/ Top.kind = "find_item"
         \/ Top.kind = "fetch" /\ todo.pushed = Top.todo.pushed
                               /\ (todo.pushed => todo.left = Top.todo.left /\ todo.stage # "begin")
  PROVE  Onward(todo)
<1>1. DOMAIN Stages = {"find_package", "find_item", "fetch", "ctest_script"}
  BY DEF Stages
<1>2. FrameOK(Top)
  BY Innermost
<1> QED
  BY <1>1, <1>2 DEF Onward, FrameOK

\* The fields of what a command has to do.
LEMMA TodoFields ==
  ASSUME SessionInv, frames # <<>>
  PROVE  /\ Top.kind = "find_package" => DOMAIN Top.todo = {"stage", "found", "path"}
         /\ Top.kind = "find_item" => DOMAIN Top.todo = {"stage", "left"}
         /\ Top.kind = "fetch" => /\ DOMAIN Top.todo = {"stage", "left", "pushed", "verify", "events"}
                                  /\ Top.todo.pushed \in BOOLEAN /\ (Top.todo.stage = "begin" => ~Top.todo.pushed)
         /\ Top.kind = "ctest_script" => /\ DOMAIN Top.todo = {"left", "rv", "errors", "running", "before"}
                                         /\ Top.todo.running \in BOOLEAN
<1>1. FrameOK(Top)
  BY Innermost
<1> QED
  BY <1>1 DEF FrameOK, Stages

\* The frame of a script keeps nothing open.
LEMMA ScriptQuiet ==
  ASSUME NEW body, NEW file, NEW policy
  PROVE  LET g == ScriptFrame(body, file, policy)
         IN  FrameOK(g) /\ g.tx = FALSE /\ g.kind # "top" /\ g.kind # "ctest_script" /\ Quiet(g)
<1>1. PICK g : g = ScriptFrame(body, file, policy)
  OBVIOUS
<1>2. PICK t : t = [policy |-> policy, file |-> file]
  OBVIOUS
<1>3. Fresh(g, "script", None, t, CurrentDir) /\ g.tx = FALSE
  BY <1>1, <1>2, CallFrames
<1>4. "script" \in PlainKinds /\ "script" \notin {"function", "subdirectory"} /\ g.tx \in BOOLEAN
  BY <1>3 DEF PlainKinds
<1>5. FrameOK(g) /\ g.kind # "top" /\ g.kind # "ctest_script" /\ Quiet(g)
  BY <1>3, <1>4, PlainFrame
<1> QED
  BY <1>1, <1>3, <1>5

\* A command that runs a file.
LEMMA ScriptInside ==
  ASSUME SessionInv, frames # <<>>, NEW todo, Onward(todo), NEW body, NEW file, NEW policy,
         now' = Publish(now, world'),
         frames' = Append([frames EXCEPT ![Len(frames)].todo = todo], ScriptFrame(body, file, policy))
  PROVE  SessionInv'
<1>1. PICK g : g = ScriptFrame(body, file, policy)
  OBVIOUS
<1>4. FrameOK(g) /\ g.tx = FALSE /\ g.kind # "top" /\ g.kind # "ctest_script" /\ Quiet(g)
  BY <1>1, ScriptQuiet
<1>5. PICK w : w = world'
  OBVIOUS
<1>6. PICK st : st = Publish(now, w)
  OBVIOUS
<1>7. Same(now, st)
  BY <1>6, SameSet
<1>8. Grown(now, st, g) /\ EndsWith(st, g)
  BY <1>4, <1>7, Innermost, GrownQuiet
<1>9. now' = st /\ frames' = Append([frames EXCEPT ![Len(frames)].todo = todo], g)
  BY <1>1, <1>5, <1>6
<1> QED
  BY <1>4, <1>8, <1>9, RunsInside

\* A command that calls the provider.
LEMMA ProviderInside ==
  ASSUME SessionInv, frames # <<>>, NEW todo, Onward(todo), NEW args, InvokeProvider(args, todo)
  PROVE  SessionInv'
<1>1. PICK name, g : name = now.provider.command /\ g = [CallFrame(Top.cmd, name) EXCEPT !.tx = FALSE]
  OBVIOUS
<1>2. Fresh(g, CallKind(name), Top.cmd, None, CurrentDir) /\ g.tx = FALSE
  BY <1>1, CallFrames
<1>3. /\ FrameOK(g) /\ g.kind # "top" /\ g.kind # "ctest_script"
      /\ Grown(now, CallState(name, args), g) /\ EndsWith(CallState(name, args), g)
  BY <1>2, CallGrown
<1>4. now' = CallState(name, args) /\ frames' = Append([frames EXCEPT ![Len(frames)].todo = todo], g)
  BY <1>1, Zenon DEF InvokeProvider
<1> QED
  BY <1>2, <1>3, <1>4, RunsInside

\* The steps in which a command runs something.
LEMMA RunningSteps ==
  ASSUME SessionInv,
         \/ ProjectInclude \/ CustomFile \/ FindVersionFile \/ FindPackageFile \/ FindProvider \/ FetchProvider \/ ItemValidate
  PROVE  SessionInv'
<1>0. frames # <<>>
  BY DEF ProjectInclude, CustomFile, FindVersionFile, FindPackageFile, FindProvider, FetchProvider, ItemValidate, Stage, AtFrame
<1>r. ASSUME NEW file, NEW policy, NEW todo, RunFile(file, policy, todo), Onward(todo)
      PROVE  SessionInv'
  <2>1. PICK body : body = Files[file].body
    OBVIOUS
  <2>2. now' = Publish(now, world') /\ frames' = Append([frames EXCEPT ![Len(frames)].todo = todo], ScriptFrame(body, file, policy))
    BY <1>r, <2>1, Zenon DEF RunFile
  <2> QED
    BY <1>0, <1>r, <2>2, ScriptInside
<1>d. "project" \notin DOMAIN Stages /\ "ctest_custom" \notin DOMAIN Stages
  BY DEF Stages
<1>1. CASE ProjectInclude
  <2>1. \A todo : Onward(todo)
    BY <1>1, <1>d DEF ProjectInclude, AtFrame, Onward
  <2>2. \E file, policy, todo : RunFile(file, policy, todo)
    BY <1>1, Zenon DEF ProjectInclude
  <2> QED
    BY <2>1, <2>2, <1>r
<1>2. CASE CustomFile
  <2>1. \A todo : Onward(todo)
    BY <1>2, <1>d DEF CustomFile, AtFrame, Onward
  <2>2. \E file, policy, todo : RunFile(file, policy, todo)
    BY <1>2, Zenon DEF CustomFile
  <2> QED
    BY <2>1, <2>2, <1>r
<1>3. CASE FindVersionFile
  <2>1. Top.kind = "find_package" /\ Top.todo.stage = "version"
    BY <1>3 DEF FindVersionFile, Stage, AtFrame
  <2>2. PICK todo : todo = [Top.todo EXCEPT !.stage = "versioned"]
    OBVIOUS
  <2>3. DOMAIN todo = DOMAIN Top.todo /\ todo.stage = "versioned"
    BY <1>0, <2>1, <2>2, TodoFields
  <2>4. Onward(todo)
    BY <1>0, <2>1, <2>3, NextStage DEF FindingStages
  <2>5. \E file, policy : RunFile(file, policy, todo)
    BY <1>3, <2>2, Zenon DEF FindVersionFile
  <2> QED
    BY <2>4, <2>5, <1>r
<1>4. CASE FindPackageFile
  <2>1. Top.kind = "find_package" /\ Top.todo.stage = "package"
    BY <1>4 DEF FindPackageFile, Stage, AtFrame
  <2>2. PICK todo : todo = [Top.todo EXCEPT !.stage = "ran"]
    OBVIOUS
  <2>3. DOMAIN todo = DOMAIN Top.todo /\ todo.stage = "ran"
    BY <1>0, <2>1, <2>2, TodoFields
  <2>4. Onward(todo)
    BY <1>0, <2>1, <2>3, NextStage DEF FindingStages
  <2>5. \/ \E file, policy : RunFile(file, policy, todo)
        \/ /\ now' = Publish(now, world')
           /\ \E body, file, policy :
                frames' = Append([frames EXCEPT ![Len(frames)].todo = todo], ScriptFrame(body, file, policy))
    BY <1>4, <2>2, Zenon DEF FindPackageFile
  <2> QED
    BY <1>0, <2>4, <2>5, <1>r, ScriptInside
<1>5. CASE FindProvider
  <2>1. Top.kind = "find_package" /\ Top.todo.stage = "provider"
    BY <1>5 DEF FindProvider, Stage, AtFrame
  <2>2. PICK todo : todo = [Top.todo EXCEPT !.stage = "provided"]
    OBVIOUS
  <2>3. DOMAIN todo = DOMAIN Top.todo /\ todo.stage = "provided"
    BY <1>0, <2>1, <2>2, TodoFields
  <2>4. Onward(todo)
    BY <1>0, <2>1, <2>3, NextStage DEF FindingStages
  <2>5. \E args : InvokeProvider(args, todo)
    BY <1>5, <2>2, Zenon DEF FindProvider
  <2> QED
    BY <1>0, <2>4, <2>5, ProviderInside
<1>6. CASE FetchProvider
  <2>1. Top.kind = "fetch"
    BY <1>6 DEF FetchProvider, Stage, AtFrame
  <2>2. PICK todo : todo = [Top.todo EXCEPT !.stage = "provided"]
    OBVIOUS
  <2>3. DOMAIN todo = DOMAIN Top.todo /\ todo.stage = "provided" /\ todo.pushed = Top.todo.pushed /\ todo.left = Top.todo.left
    BY <1>0, <2>1, <2>2, TodoFields
  <2>4. Onward(todo)
    BY <1>0, <2>1, <2>3, NextStage
  <2>5. \E args : InvokeProvider(args, todo)
    BY <1>6, <2>2, Zenon DEF FetchProvider
  <2> QED
    BY <1>0, <2>4, <2>5, ProviderInside
<1>7. CASE ItemValidate
  <2>1. Top.kind = "find_item"
    BY <1>7 DEF ItemValidate, Stage, AtFrame
  <2>2. PICK t : t = Top.todo
    OBVIOUS
  <2>3. DOMAIN t = {"stage", "left"}
    BY <1>0, <2>1, <2>2, TodoFields
  <2>4. CASE HasValidator(Top.cmd)
    <3>1. PICK todo : todo = [t EXCEPT !.stage = "tried"]
      OBVIOUS
    <3>2. Onward(todo)
      BY <1>0, <2>1, <2>2, <2>3, <3>1, NextStage
    <3>3. PICK name, g : name = Top.cmd.validator /\ g = [CallFrame(Top.cmd, name) EXCEPT !.tx = FALSE]
      OBVIOUS
    <3>4. CallKind(name) = "function"
      BY <2>4, <3>3 DEF HasValidator, CallKind
    <3>5. Fresh(g, "function", Top.cmd, None, CurrentDir) /\ g.tx = FALSE
      BY <3>3, <3>4, CallFrames
    <3>6. /\ FrameOK(g) /\ g.kind # "top" /\ g.kind # "ctest_script"
          /\ HasScope(g) /\ ~HasQueue(g) /\ ~IsFinding(g) /\ ~IsMaking(g)
      BY <3>5, PlainFrame DEF PlainKinds
    <3>7. PICK b : b = Set(now, ValidatorVar, "TRUE")
      OBVIOUS
    <3>8. PICK x : now' = [b EXCEPT !.scopes = Append(b.scopes, x)]
      BY <1>7, <2>4, <3>7 DEF ItemValidate
    <3>9. frames' = Append([frames EXCEPT ![Len(frames)].todo = todo], g)
      BY <1>7, <2>2, <2>4, <3>1, <3>3, Zenon DEF ItemValidate
    <3>10. PICK st : st = [b EXCEPT !.scopes = Append(b.scopes, x)]
      OBVIOUS
    <3>11. Same(now, b)
      BY <3>7, SameSet
    <3>12. Grown(now, st, g) /\ EndsWith(st, g)
      BY <1>0, <3>6, <3>10, <3>11, Innermost, ScopePush
    <3> QED
      BY <1>0, <3>2, <3>5, <3>6, <3>8, <3>9, <3>10, <3>12, RunsInside
  <2>5. CASE ~HasValidator(Top.cmd)
    <3>1. PICK todo : todo = [t EXCEPT !.left = Tail(@)]
      OBVIOUS
    <3>2. Onward(todo)
      BY <1>0, <2>1, <2>2, <2>3, <3>1, NextStage
    <3>3. Resume(now, todo, <<>>)
      BY <1>7, <2>2, <2>5, <3>1, Zenon DEF ItemValidate
    <3> QED
      BY <1>0, <3>2, <3>3, SameItself, ResumeKeeps
  <2> QED
    BY <2>4, <2>5
<1> QED
  BY <1>1, <1>2, <1>3, <1>4, <1>5, <1>6, <1>7

\* The innermost frame goes on and opens or closes something: a is the session
\* without what it keeps open.
LEMMA Reopen ==
  ASSUME SessionInv, frames # <<>>, NEW g, NEW a, NEW st,
         Shape(a, frames, Len(frames) - 1), Grown(a, st, g), EndsWith(st, g),
         FrameOK(g), g.kind = Top.kind, g.tx = Top.tx, g.before = Top.before,
         g.kind = "ctest_script" /\ g.todo.running => Shape(g.todo.before, frames, Len(frames) - 1)
  PROVE  Aligned(st, [frames EXCEPT ![Len(frames)] = g])
<1>1. PICK n : n = Len(frames)
  OBVIOUS
<1>2. IsList(frames) /\ n \in Nat \ {0} /\ n > 0 /\ Top = frames[n] /\ DOMAIN frames = 1 .. n /\ n \in DOMAIN frames
  BY <1>1, Innermost, ListFacts
<1>3. PICK fr : fr = [frames EXCEPT ![n] = g]
  OBVIOUS
<1>4. IsList(fr) /\ fr[n] = g /\ \A k \in 1 .. n : k # n => fr[k] = frames[k]
  BY <1>2, <1>3, ListExcept
<1>5. PICK m : m = n - 1
  OBVIOUS
<1>6. m \in Nat /\ m + 1 = n /\ \A k \in 1 .. m : fr[k] = frames[k]
  BY <1>2, <1>4, <1>5
<1>7. Shape(a, frames, m)
  BY <1>1, <1>5
<1>8. Shape(a, fr, m)
  BY <1>6, <1>7, ShapeBelow
<1>9. Grown(a, st, fr[m + 1]) /\ EndsWith(st, fr[m + 1])
  BY <1>4, <1>6
<1>10. Shape(st, fr, m + 1)
  BY <1>6, <1>8, <1>9, ShapePush
<1>11. Shape(st, [frames EXCEPT ![Len(frames)] = g], Len(frames))
  BY <1>1, <1>3, <1>6, <1>10
<1> QED
  BY <1>1, <1>2, <1>11, Retop DEF SessionInv

\* The same for a stage of find_package() or FetchContent_MakeAvailable().
LEMMA ResumeReopen ==
  ASSUME SessionInv, frames # <<>>, Top.kind \in {"find_package", "fetch"}, NEW todo, DOMAIN todo = DOMAIN Top.todo,
         Top.kind = "fetch" => todo.pushed \in BOOLEAN /\ (todo.stage = "begin" => ~todo.pushed),
         NEW a, NEW st, NEW rest, Shape(a, frames, Len(frames) - 1), Resume(st, todo, rest),
         \A g : g.kind = Top.kind /\ g.cmd = Top.cmd /\ g.todo = todo => Grown(a, st, g) /\ EndsWith(st, g)
  PROVE  SessionInv'
<1> DEFINE n == Len(frames)
<1>1. Top = frames[n] /\ FrameOK(Top) /\ IsList(frames) /\ n \in DOMAIN frames
  BY Innermost, ListFacts
<1>2. PICK f : f = Top
  OBVIOUS
<1>3. PICK g : g = [f EXCEPT !.todo = todo, !.rest = rest]
  OBVIOUS
<1>4. /\ DOMAIN g = FrameFields /\ g.kind = f.kind /\ g.cmd = f.cmd /\ g.tx = f.tx /\ g.before = f.before /\ g.dir = f.dir
      /\ g.todo = todo
  BY <1>1, <1>2, <1>3, NewTodo
<1>5. FrameOK(g)
  BY <1>1, <1>2, <1>4 DEF FrameOK
<1>6. Grown(a, st, g) /\ EndsWith(st, g)
  BY <1>2, <1>4
<1>7. Aligned(st, [frames EXCEPT ![Len(frames)] = g])
  BY <1>2, <1>4, <1>5, <1>6, Reopen
<1>8. now' = st /\ frames' = [frames EXCEPT ![Len(frames)] = [@ EXCEPT !.todo = todo, !.rest = rest]]
  BY DEF Resume
<1>9. frames' = [frames EXCEPT ![Len(frames)] = g]
  BY <1>1, <1>2, <1>3, <1>8, Zenon
<1> QED
  BY <1>7, <1>8, <1>9 DEF SessionInv

\* A package that becomes active.
LEMMA FindingPush ==
  ASSUME NEW a, Formed(a), NEW x, NEW st, Same([a EXCEPT !.finding = Append(a.finding, x)], st), NEW g,
         ~HasScope(g), ~HasQueue(g), IsFinding(g), ~IsMaking(g), g.cmd.pkg = x
  PROVE  Grown(a, st, g) /\ EndsWith(st, g)
<1>1. IsList(a.finding) /\ Len(a.finding) \in Nat /\ Len(a.scopes) \in Nat
  BY ListFacts DEF Formed
<1>2. PICK s : s = Append(a.finding, x)
  OBVIOUS
<1>3. IsList(s) /\ Len(s) = Len(a.finding) + 1 /\ s[Len(a.finding) + 1] = x /\ \A k \in 1 .. Len(a.finding) : s[k] = a.finding[k]
  BY <1>1, <1>2, ListAppend
<1>4. OneMore(s, a.finding) /\ s[Len(s)] = x
  BY <1>3 DEF OneMore
<1>5. LET b == [a EXCEPT !.finding = s]
      IN  Formed(b) /\ b.scopes = a.scopes /\ QueueDirs(b) = QueueDirs(a) /\ b.finding = s /\ b.making = a.making
  <2>1. IsList(s)
    BY <1>3
  <2> QED
    BY <2>1, NewStack, Zenon
<1>6. Formed(st) /\ Len(st.scopes) = Len(a.scopes) /\ QueueDirs(st) = QueueDirs(a) /\ st.finding = s /\ st.making = a.making
  BY <1>2, <1>5 DEF Same
<1>7. Len(st.scopes) = Len(a.scopes) + 0
  BY <1>1, <1>6
<1> QED
  BY <1>4, <1>6, <1>7 DEF Grown, EndsWith

\* A package that is active no more.
LEMMA FindingPop ==
  ASSUME NEW b, Formed(b), Len(b.finding) > 0, NEW g, ~HasScope(g), ~HasQueue(g), IsFinding(g), ~IsMaking(g)
  PROVE  Grown([b EXCEPT !.finding = Front(b.finding)], b, g)
<1>1. IsList(b.finding) /\ Len(b.finding) \in Nat /\ Len(b.scopes) \in Nat
  BY ListFacts DEF Formed
<1>2. PICK s : s = Front(b.finding)
  OBVIOUS
<1>3. IsList(s) /\ Len(s) = Len(b.finding) - 1 /\ \A k \in 1 .. (Len(b.finding) - 1) : s[k] = b.finding[k]
  BY <1>1, <1>2, ListFront
<1>4. OneMore(b.finding, s)
  BY <1>1, <1>3 DEF OneMore
<1>5. LET a == [b EXCEPT !.finding = s]
      IN  Formed(a) /\ a.scopes = b.scopes /\ QueueDirs(a) = QueueDirs(b) /\ a.finding = s /\ a.making = b.making
  <2>1. IsList(s)
    BY <1>3
  <2> QED
    BY <2>1, NewStack, Zenon
<1>6. Len(b.scopes) = Len(b.scopes) + 0
  BY <1>1
<1>7. Grown([b EXCEPT !.finding = s], b, g)
  BY <1>4, <1>5, <1>6 DEF Grown
<1> QED
  BY <1>2, <1>7

\* A dependency that becomes active.
LEMMA MakingPush ==
  ASSUME NEW a, Formed(a), NEW x, NEW st, Same([a EXCEPT !.making = Append(a.making, x)], st), NEW g,
         ~HasScope(g), ~HasQueue(g), ~IsFinding(g), IsMaking(g), Head(g.todo.left) = x
  PROVE  Grown(a, st, g) /\ EndsWith(st, g)
<1>1. IsList(a.making) /\ Len(a.making) \in Nat /\ Len(a.scopes) \in Nat
  BY ListFacts DEF Formed
<1>2. PICK s : s = Append(a.making, x)
  OBVIOUS
<1>3. IsList(s) /\ Len(s) = Len(a.making) + 1 /\ s[Len(a.making) + 1] = x /\ \A k \in 1 .. Len(a.making) : s[k] = a.making[k]
  BY <1>1, <1>2, ListAppend
<1>4. OneMore(s, a.making) /\ s[Len(s)] = x
  BY <1>3 DEF OneMore
<1>5. LET b == [a EXCEPT !.making = s]
      IN  Formed(b) /\ b.scopes = a.scopes /\ QueueDirs(b) = QueueDirs(a) /\ b.finding = a.finding /\ b.making = s
  <2>1. IsList(s)
    BY <1>3
  <2> QED
    BY <2>1, NewStack, Zenon
<1>6. Formed(st) /\ Len(st.scopes) = Len(a.scopes) /\ QueueDirs(st) = QueueDirs(a) /\ st.finding = a.finding /\ st.making = s
  BY <1>2, <1>5 DEF Same
<1>7. Len(st.scopes) = Len(a.scopes) + 0
  BY <1>1, <1>6
<1> QED
  BY <1>4, <1>6, <1>7 DEF Grown, EndsWith

\* A dependency that is active no more.
LEMMA MakingPop ==
  ASSUME NEW b, Formed(b), Len(b.making) > 0, NEW g, ~HasScope(g), ~HasQueue(g), ~IsFinding(g), IsMaking(g)
  PROVE  Grown([b EXCEPT !.making = Front(b.making)], b, g)
<1>1. IsList(b.making) /\ Len(b.making) \in Nat /\ Len(b.scopes) \in Nat
  BY ListFacts DEF Formed
<1>2. PICK s : s = Front(b.making)
  OBVIOUS
<1>3. IsList(s) /\ Len(s) = Len(b.making) - 1 /\ \A k \in 1 .. (Len(b.making) - 1) : s[k] = b.making[k]
  BY <1>1, <1>2, ListFront
<1>4. OneMore(b.making, s)
  BY <1>1, <1>3 DEF OneMore
<1>5. LET a == [b EXCEPT !.making = s]
      IN  Formed(a) /\ a.scopes = b.scopes /\ QueueDirs(a) = QueueDirs(b) /\ a.finding = b.finding /\ a.making = s
  <2>1. IsList(s)
    BY <1>3
  <2> QED
    BY <2>1, NewStack, Zenon
<1>6. Len(b.scopes) = Len(b.scopes) + 0
  BY <1>1
<1>7. Grown([b EXCEPT !.making = s], b, g)
  BY <1>4, <1>5, <1>6 DEF Grown
<1> QED
  BY <1>2, <1>7

\* What is known of a command at the stage it has reached.
LEMMA AtStage ==
  ASSUME SessionInv, NEW kind, NEW stage, Stage(kind, stage)
  PROVE  /\ frames # <<>> /\ Top.kind = kind /\ Top.todo.stage = stage
         /\ kind = "find_package" => /\ ~HasScope(Top) /\ ~HasQueue(Top) /\ ~IsMaking(Top)
                                     /\ IsFinding(Top) <=> stage \in FindingStages
         /\ kind = "fetch" => /\ ~HasScope(Top) /\ ~HasQueue(Top) /\ ~IsFinding(Top)
                              /\ IsMaking(Top) <=> Top.todo.pushed
         /\ kind = "find_item" => Quiet(Top)
BY DEF Stage, AtFrame, HasScope, HasQueue, IsFinding, IsMaking, InNewProcess, FindingStages, Quiet

\* The package find_package() was at work on is active no more.
LEMMA FindClose ==
  ASSUME SessionInv, frames # <<>>, Top.kind = "find_package", Top.todo.stage \in FindingStages,
         NEW todo, DOMAIN todo = DOMAIN Top.todo, todo.stage = "end", NEW rest,
         Resume([now EXCEPT !.finding = Front(@)], todo, rest)
  PROVE  SessionInv'
<1>1. ~HasScope(Top) /\ ~HasQueue(Top) /\ ~IsMaking(Top) /\ IsFinding(Top)
  BY DEF HasScope, HasQueue, IsFinding, IsMaking, InNewProcess, FindingStages
<1>2. Formed(now) /\ Len(now.finding) > 0
  BY <1>1, Innermost, StackTops
<1>3. PICK st : st = [now EXCEPT !.finding = Front(now.finding)]
  OBVIOUS
<1>4. Grown(st, now, Top)
  BY <1>1, <1>2, <1>3, FindingPop
<1>5. Shape(st, frames, Len(frames) - 1)
  BY <1>4, SameItself, LeaveGrown
<1>6. Formed(st)
  BY <1>4 DEF Grown
<1>7. ASSUME NEW g, g.kind = Top.kind, g.cmd = Top.cmd, g.todo = todo PROVE Grown(st, st, g) /\ EndsWith(st, g)
  <2>1. Quiet(g)
    BY <1>7 DEF Quiet, HasScope, HasQueue, IsFinding, IsMaking, InNewProcess
  <2> QED
    BY <2>1, <1>6, SameItself, GrownQuiet
<1>8. Resume(st, todo, rest)
  BY <1>3
<1> QED
  BY <1>5, <1>7, <1>8, ResumeReopen

\* The stages of find_package() and the find commands that run nothing.
LEMMA FindSteps ==
  ASSUME SessionInv, FindProvided \/ FindResolve \/ FindVersion \/ FindRan \/ ItemTried
  PROVE  SessionInv'
<1>0. frames # <<>>
  BY DEF FindProvided, FindResolve, FindVersion, FindRan, ItemTried, Stage, AtFrame
<1>1. CASE FindProvided
  <2>1. Top.kind = "find_package" /\ Top.todo.stage = "provided"
    BY <1>1 DEF FindProvided, Stage, AtFrame
  <2>2. PICK t, found : /\ t = Top.todo
                        /\ Resume(now, [t EXCEPT !.stage = IF found THEN "end" ELSE "resolve", !.found = found], <<>>)
    BY <1>1, Zenon DEF FindProvided
  <2>3. PICK todo : todo = [t EXCEPT !.stage = IF found THEN "end" ELSE "resolve", !.found = found]
    OBVIOUS
  <2>4. DOMAIN t = {"stage", "found", "path"}
    BY <1>0, <2>1, <2>2, TodoFields
  <2>5. DOMAIN todo = DOMAIN t /\ todo.stage \in {"end", "resolve"}
    BY <2>3, <2>4
  <2>6. Onward(todo)
    BY <1>0, <2>1, <2>2, <2>5, NextStage DEF FindingStages
  <2>7. Resume(now, todo, <<>>)
    BY <2>2, <2>3
  <2> QED
    BY <1>0, <2>6, <2>7, SameItself, ResumeKeeps
<1>2. CASE FindResolve
  <2>1. Top.kind = "find_package" /\ Top.todo.stage = "resolve"
    BY <1>2 DEF FindResolve, Stage, AtFrame
  <2>2. PICK t : t = Top.todo
    OBVIOUS
  <2>3. DOMAIN t = {"stage", "found", "path"}
    BY <1>0, <2>1, <2>2, TodoFields
  <2>4. ~HasScope(Top) /\ ~HasQueue(Top) /\ ~IsFinding(Top) /\ ~IsMaking(Top)
    BY <2>1 DEF HasScope, HasQueue, IsFinding, IsMaking, InNewProcess
  <2>5. CASE Resume(now, [t EXCEPT !.stage = "end"], <<>>)
    <3>1. PICK todo : todo = [t EXCEPT !.stage = "end"]
      OBVIOUS
    <3>2. DOMAIN todo = DOMAIN t /\ todo.stage = "end"
      BY <2>3, <3>1
    <3>3. Onward(todo)
      BY <1>0, <2>1, <2>2, <3>2, NextStage DEF FindingStages
    <3> QED
      BY <1>0, <2>5, <3>1, <3>3, SameItself, ResumeKeeps
  <2>6. PICK s1 : s1 = [now EXCEPT !.finding = Append(now.finding, Top.cmd.pkg)]
    OBVIOUS
  <2>7. ASSUME NEW st, NEW todo, Same(s1, st), DOMAIN todo = DOMAIN t, todo.stage \in {"version", "package"},
               Resume(st, todo, <<>>)
        PROVE  SessionInv'
    <3>1. Shape(now, frames, Len(frames) - 1)
      BY <1>0, <2>4, SameItself, LeaveQuiet DEF Quiet
    <3>2. ASSUME NEW g, g.kind = Top.kind, g.cmd = Top.cmd, g.todo = todo PROVE Grown(now, st, g) /\ EndsWith(st, g)
      <4>1. ~HasScope(g) /\ ~HasQueue(g) /\ IsFinding(g) /\ ~IsMaking(g) /\ g.cmd.pkg = Top.cmd.pkg
        BY <2>1, <2>7, <3>2 DEF HasScope, HasQueue, IsFinding, IsMaking, InNewProcess
      <4>2. Formed(now)
        BY <1>0, Innermost
      <4>3. Same([now EXCEPT !.finding = Append(now.finding, Top.cmd.pkg)], st)
        BY <2>6, <2>7
      <4> QED
        BY <4>1, <4>2, <4>3, FindingPush
    <3> QED
      BY <1>0, <2>1, <2>2, <2>7, <3>1, <3>2, ResumeReopen
  <2>8. \A v, x, w, y, z1, z2, z3 :
           /\ Same(s1, Set(Set(s1, v, x), w, y))
           /\ Same(s1, Set(Set(Set(Set(Set(s1, v, x), w, y), "PACKAGE_VERSION", z1), "PACKAGE_VERSION_EXACT", z2),
                           "PACKAGE_VERSION_COMPATIBLE", z3))
    BY SameItself, SameAfter
  <2>9. PICK found, path, asked, st, st2 :
           /\ \/ st2 = st
              \/ \E z1, z2, z3 : st2 = Set(Set(Set(st, "PACKAGE_VERSION", z1), "PACKAGE_VERSION_EXACT", z2),
                                           "PACKAGE_VERSION_COMPATIBLE", z3)
           /\ \E v, w, y : st = Set(Set(s1, v, path), w, y)
           /\ \/ Resume(now, [t EXCEPT !.stage = "end"], <<>>)
              \/ Resume(st2, [t EXCEPT !.stage = IF asked THEN "version" ELSE "package", !.found = found, !.path = path], <<>>)
    <3> DEFINE c       == Top.cmd
               redirect == c.pkg \in world.redirects
               path    == IF redirect THEN None ELSE Resolved(c)
               st      == Set(Set([now EXCEPT !.finding = Append(@, c.pkg)], c.pkg \o "_CONFIG", path),
                              c.pkg \o "_FIND_REQUIRED", c.required)
               asked   == ~redirect /\ c.version # None /\ path \in DOMAIN Packages[c.pkg].versions
               fits    == IF redirect THEN "1" ELSE None
               st2     == IF asked \/ (redirect /\ c.version # None)
                          THEN Set(Set(Set(st, "PACKAGE_VERSION", None), "PACKAGE_VERSION_EXACT", fits),
                                   "PACKAGE_VERSION_COMPATIBLE", fits)
                          ELSE st
    <3>1. \/ Resume(now, [t EXCEPT !.stage = "end"], <<>>)
          \/ Resume(st2, [t EXCEPT !.stage = IF asked THEN "version" ELSE "package", !.found = TRUE, !.path = path], <<>>)
      BY <1>2, <2>2, Zenon DEF FindResolve
    <3>2. s1 = [now EXCEPT !.finding = Append(@, c.pkg)]
      BY <2>6, Zenon
    <3>3. st = Set(Set(s1, c.pkg \o "_CONFIG", path), c.pkg \o "_FIND_REQUIRED", c.required)
      BY <3>2, Zenon
    <3>4. \/ st2 = st
          \/ st2 = Set(Set(Set(st, "PACKAGE_VERSION", None), "PACKAGE_VERSION_EXACT", fits), "PACKAGE_VERSION_COMPATIBLE", fits)
      BY Zenon
    <3>5. /\ st2 = st \/ \E z1, z2, z3 : st2 = Set(Set(Set(st, "PACKAGE_VERSION", z1), "PACKAGE_VERSION_EXACT", z2),
                                                     "PACKAGE_VERSION_COMPATIBLE", z3)
          /\ \E v, w, y : st = Set(Set(s1, v, path), w, y)
      <4> HIDE DEF st2, st, asked, fits, path, redirect
      <4> QED
        BY <3>3, <3>4, Zenon
    <3>6. PICK yes : yes = TRUE
      OBVIOUS
    <3>7. \/ Resume(now, [t EXCEPT !.stage = "end"], <<>>)
          \/ Resume(st2, [t EXCEPT !.stage = IF asked THEN "version" ELSE "package", !.found = yes, !.path = path], <<>>)
      <4> HIDE DEF st2, st, asked, fits, path, redirect, c
      <4> QED
        BY <3>1, <3>6, Zenon
    <3> HIDE DEF st2, st, asked, fits, path, redirect, c
    <3> QED
      BY <3>5, <3>7, Zenon
  <2>10. Same(s1, st2)
    <3>1. PICK v, w, y : st = Set(Set(s1, v, path), w, y)
      BY <2>9
    <3>2. CASE st2 = st
      BY <2>8, <3>1, <3>2
    <3>3. ASSUME NEW z1, NEW z2, NEW z3,
                 st2 = Set(Set(Set(st, "PACKAGE_VERSION", z1), "PACKAGE_VERSION_EXACT", z2), "PACKAGE_VERSION_COMPATIBLE", z3)
          PROVE  Same(s1, st2)
      BY <2>8, <3>1, <3>3
    <3> QED
      BY <2>9, <3>2, <3>3, Zenon
  <2>11. ASSUME Resume(st2, [t EXCEPT !.stage = IF asked THEN "version" ELSE "package", !.found = found, !.path = path], <<>>)
         PROVE  SessionInv'
    <3>1. PICK todo : todo = [t EXCEPT !.stage = IF asked THEN "version" ELSE "package", !.found = found, !.path = path]
      OBVIOUS
    <3>2. DOMAIN todo = DOMAIN t /\ todo.stage \in {"version", "package"}
      BY <2>3, <3>1
    <3>3. Resume(st2, todo, <<>>)
      BY <2>11, <3>1
    <3> QED
      BY <2>7, <2>10, <3>2, <3>3
  <2> QED
    BY <2>5, <2>9, <2>11
<1>3. CASE FindVersion
  <2>1. Top.kind = "find_package" /\ Top.todo.stage = "versioned"
    BY <1>3 DEF FindVersion, Stage, AtFrame
  <2>2. PICK t : t = Top.todo
    OBVIOUS
  <2>3. DOMAIN t = {"stage", "found", "path"}
    BY <1>0, <2>1, <2>2, TodoFields
  <2>4. CASE Resume(now, [t EXCEPT !.stage = "package"], <<>>)
    <3>1. PICK todo : todo = [t EXCEPT !.stage = "package"]
      OBVIOUS
    <3>2. DOMAIN todo = DOMAIN t /\ todo.stage = "package"
      BY <2>3, <3>1
    <3>3. Onward(todo)
      BY <1>0, <2>1, <2>2, <3>2, NextStage DEF FindingStages
    <3> QED
      BY <1>0, <2>4, <3>1, <3>3, SameItself, ResumeKeeps
  <2>5. CASE Resume([now EXCEPT !.finding = Front(@)], [t EXCEPT !.stage = "end", !.found = FALSE], <<>>)
    <3>1. PICK todo : todo = [t EXCEPT !.stage = "end", !.found = FALSE]
      OBVIOUS
    <3>2. DOMAIN todo = DOMAIN t /\ todo.stage = "end"
      BY <2>3, <3>1
    <3>3. Resume([now EXCEPT !.finding = Front(@)], todo, <<>>)
      BY <2>5, <3>1
    <3>4. Top.todo.stage \in FindingStages
      BY <2>1 DEF FindingStages
    <3> QED
      BY <1>0, <2>1, <2>2, <3>2, <3>3, <3>4, FindClose
  <2> QED
    BY <1>3, <2>2, <2>4, <2>5, Zenon DEF FindVersion
<1>4. CASE FindRan
  <2>1. Top.kind = "find_package" /\ Top.todo.stage = "ran"
    BY <1>4 DEF FindRan, Stage, AtFrame
  <2>2. PICK t, x : t = Top.todo /\ Resume([now EXCEPT !.finding = Front(@)], [t EXCEPT !.stage = "end", !.found = x], <<>>)
    BY <1>4, Zenon DEF FindRan
  <2>3. DOMAIN t = {"stage", "found", "path"}
    BY <1>0, <2>1, <2>2, TodoFields
  <2>4. PICK todo : todo = [t EXCEPT !.stage = "end", !.found = x]
    OBVIOUS
  <2>5. DOMAIN todo = DOMAIN t /\ todo.stage = "end"
    BY <2>3, <2>4
  <2>6. Resume([now EXCEPT !.finding = Front(@)], todo, <<>>)
    BY <2>2, <2>4
  <2>7. Top.todo.stage \in FindingStages
    BY <2>1 DEF FindingStages
  <2> QED
    BY <1>0, <2>1, <2>2, <2>5, <2>6, <2>7, FindClose
<1>5. CASE ItemTried
  <2>1. Top.kind = "find_item"
    BY <1>5 DEF ItemTried, Stage, AtFrame
  <2>2. PICK t : t = Top.todo
    OBVIOUS
  <2>3. DOMAIN t = {"stage", "left"}
    BY <1>0, <2>1, <2>2, TodoFields
  <2>4. PICK todo : Resume(now, todo, <<>>) /\ DOMAIN todo = DOMAIN t
    <3>1. \/ Resume(now, [t EXCEPT !.stage = "end"], <<>>)
          \/ Resume(now, [t EXCEPT !.stage = "try", !.left = Tail(@)], <<>>)
      BY <1>5, <2>2, Zenon DEF ItemTried
    <3>2. DOMAIN [t EXCEPT !.stage = "end"] = DOMAIN t /\ DOMAIN [t EXCEPT !.stage = "try", !.left = Tail(@)] = DOMAIN t
      OBVIOUS
    <3> QED
      BY <3>1, <3>2
  <2>5. Onward(todo)
    BY <1>0, <2>1, <2>2, <2>4, NextStage
  <2> QED
    BY <1>0, <2>4, <2>5, SameItself, ResumeKeeps
<1> QED
  BY <1>1, <1>2, <1>3, <1>4, <1>5

\* The cleanup of a dependency takes it off the active ones.
LEMMA CleanedShape ==
  ASSUME SessionInv, frames # <<>>, Top.kind = "fetch", NEW st, Same(now, st)
  PROVE  Shape(Cleaned(st), frames, Len(frames) - 1)
<1>1. PICK b : b = IF Top.todo.verify = None THEN Unset(st, Verify) ELSE Set(st, Verify, Top.todo.verify)
  OBVIOUS
<1>2. Same(now, b)
  BY <1>1, SameAfter
<1>3. Cleaned(st) = Popped(b)
  BY <1>1, Zenon DEF Cleaned
<1>4. ~HasScope(Top) /\ ~HasQueue(Top) /\ ~IsFinding(Top) /\ (IsMaking(Top) <=> Top.todo.pushed)
  BY DEF HasScope, HasQueue, IsFinding, IsMaking, InNewProcess
<1>5. CASE Top.todo.pushed
  <2>1. Formed(b)
    BY <1>2, Innermost DEF Same
  <2>2. Shape(b, frames, Len(frames))
    BY <1>2, Innermost, ShapeSame
  <2>3. Len(b.making) > 0
    BY <1>4, <1>5, <2>2, Innermost, StackTops
  <2>4. PICK a : a = [b EXCEPT !.making = Front(b.making)]
    OBVIOUS
  <2>5. Grown(a, b, Top)
    BY <1>4, <1>5, <2>1, <2>3, <2>4, MakingPop
  <2>6. Popped(b) = a
    BY <1>5, <2>4, Zenon DEF Popped
  <2>7. Shape(a, frames, Len(frames) - 1)
    BY <1>2, <2>5, LeaveGrown
  <2> QED
    BY <1>3, <2>6, <2>7
<1>6. CASE ~Top.todo.pushed
  <2>1. Popped(b) = b
    BY <1>6 DEF Popped
  <2>2. Shape(b, frames, Len(frames) - 1)
    BY <1>2, <1>4, <1>6, LeaveQuiet DEF Quiet
  <2> QED
    BY <1>3, <2>1, <2>2
<1> QED
  BY <1>5, <1>6

\* On to the next dependency.
LEMMA NextNameKeeps ==
  ASSUME SessionInv, frames # <<>>, Top.kind = "fetch", NEW st, Same(now, st), NEW events, NextName(st, events)
  PROVE  SessionInv'
<1>1. PICK todo : todo = [Fetching EXCEPT !.left = Tail(Top.todo.left), !.events = Top.todo.events \o events]
  OBVIOUS
<1>2. DOMAIN todo = {"stage", "left", "pushed", "verify", "events"} /\ todo.pushed = FALSE
  BY <1>1 DEF Fetching
<1>3. DOMAIN todo = DOMAIN Top.todo
  BY <1>2, TodoFields
<1>4. PICK b : b = Cleaned(st)
  OBVIOUS
<1>5. Shape(b, frames, Len(frames) - 1)
  BY <1>4, CleanedShape
<1>6. Formed(b)
  BY <1>5 DEF Shape
<1>7. ASSUME NEW g, g.kind = Top.kind, g.cmd = Top.cmd, g.todo = todo PROVE Grown(b, b, g) /\ EndsWith(b, g)
  <2>1. Quiet(g)
    BY <1>2, <1>7 DEF Quiet, HasScope, HasQueue, IsFinding, IsMaking, InNewProcess
  <2> QED
    BY <2>1, <1>6, SameItself, GrownQuiet
<1>8. Resume(b, todo, <<>>)
  BY <1>1, <1>4, Zenon DEF NextName
<1>9. todo.pushed \in BOOLEAN /\ ~todo.pushed
  BY <1>2
<1> QED
  BY <1>3, <1>5, <1>7, <1>8, <1>9, ResumeReopen

\* The dependency goes on to another stage.
LEMMA FetchOnward ==
  ASSUME SessionInv, frames # <<>>, Top.kind = "fetch", NEW t, t = Top.todo
  PROVE  /\ DOMAIN t = {"stage", "left", "pushed", "verify", "events"}
         /\ \A stage : stage # "begin" => Onward([t EXCEPT !.stage = stage])
         /\ \A events : Onward([t EXCEPT !.stage = "added", !.events = events])
<1>1. DOMAIN t = {"stage", "left", "pushed", "verify", "events"}
  BY TodoFields
<1>2. ASSUME NEW todo, DOMAIN todo = DOMAIN t, todo.pushed = t.pushed, todo.left = t.left, todo.stage # "begin"
      PROVE  Onward(todo)
  BY <1>2, NextStage
<1>3. ASSUME NEW stage, stage # "begin" PROVE Onward([t EXCEPT !.stage = stage])
  <2>1. PICK todo : todo = [t EXCEPT !.stage = stage]
    OBVIOUS
  <2>2. DOMAIN todo = DOMAIN t /\ todo.pushed = t.pushed /\ todo.left = t.left /\ todo.stage # "begin"
    BY <1>1, <1>3, <2>1
  <2> QED
    BY <1>2, <2>1, <2>2
<1>4. ASSUME NEW events PROVE Onward([t EXCEPT !.stage = "added", !.events = events])
  <2>1. PICK todo : todo = [t EXCEPT !.stage = "added", !.events = events]
    OBVIOUS
  <2>2. DOMAIN todo = DOMAIN t /\ todo.pushed = t.pushed /\ todo.left = t.left /\ todo.stage # "begin"
    BY <1>1, <2>1
  <2> QED
    BY <1>2, <2>1, <2>2
<1> QED
  BY <1>1, <1>3, <1>4

\* The dependency becomes active, unless a command around this one has it so.
LEMMA BeginKeeps ==
  ASSUME SessionInv, FetchBegin
  PROVE  SessionInv'
<1>1. frames # <<>> /\ Top.kind = "fetch" /\ Top.todo.stage = "begin"
  BY DEF FetchBegin, Stage, AtFrame
<1>2. PICK t : t = Top.todo
  OBVIOUS
<1>3. DOMAIN t = {"stage", "left", "pushed", "verify", "events"} /\ t.pushed = FALSE
  BY <1>1, <1>2, TodoFields
<1>4. Quiet(Top)
  BY <1>1, <1>2, <1>3 DEF Quiet, HasScope, HasQueue, IsFinding, IsMaking, InNewProcess
<1>5. Shape(now, frames, Len(frames) - 1) /\ Formed(now)
  BY <1>1, <1>4, SameItself, LeaveQuiet, Innermost
<1>6. CASE IsPopulated(now, Dependency)
  <2>1. PICK todo : todo = [t EXCEPT !.left = Tail(@)]
    OBVIOUS
  <2>2. DOMAIN todo = DOMAIN t /\ todo.pushed = FALSE
    BY <1>3, <2>1
  <2>3. Onward(todo)
    BY <1>1, <1>2, <1>3, <2>2, NextStage
  <2>4. PICK st : Same(now, st) /\ Resume(st, todo, <<>>)
    <3>1. Resume(Published(now, Dependency, TRUE, now.states[Dependency].source), [t EXCEPT !.left = Tail(@)], <<>>)
      BY <1>2, <1>6, Zenon DEF FetchBegin
    <3>2. \A p, x : Same(now, Published(now, Dependency, p, x))
      BY SameItself, SameFetch
    <3> QED
      BY <2>1, <3>1, <3>2, Zenon
  <2> QED
    BY <1>1, <2>3, <2>4, ResumeKeeps
<1>7. CASE ~IsPopulated(now, Dependency)
  <2>1. PICK x : x = Dependency
    OBVIOUS
  <2>2. x = Head(t.left)
    BY <1>2, <2>1 DEF Dependency
  <2>3. PICK active, stage, verify, list :
           /\ list = IF active THEN now.making ELSE Append(now.making, x)
           /\ stage \in {"provider", "find"}
           /\ active \in BOOLEAN
           /\ Resume(Set([now EXCEPT !.making = list], Verify, "0"),
                     [t EXCEPT !.stage = stage, !.pushed = ~active, !.verify = verify], <<>>)
    <3> DEFINE active   == Contains(now.making, Dependency)
               provided == ~active /\ SourceOverride(Declared) = None /\ ProviderSupports("FETCHCONTENT_MAKEAVAILABLE_SERIAL")
               stage    == IF provided THEN "provider" ELSE "find"
               verify   == Get(now, Verify)
               list     == IF active THEN now.making ELSE Append(now.making, x)
    <3>1. Resume(Set([now EXCEPT !.making = IF active THEN @ ELSE Append(@, Dependency)], Verify, "0"),
                 [Top.todo EXCEPT !.stage = stage, !.pushed = ~active, !.verify = verify], <<>>)
      BY <1>7, Zenon DEF FetchBegin
    <3>2. Resume(Set([now EXCEPT !.making = list], Verify, "0"), [t EXCEPT !.stage = stage, !.pushed = ~active, !.verify = verify], <<>>)
      BY <1>2, <2>1, <3>1, Zenon
    <3>3. active \in BOOLEAN
      BY DEF Contains
    <3>4. stage \in {"provider", "find"}
      BY Zenon
    <3>5. PICK yes : yes = active
      OBVIOUS
    <3>6. list = IF yes THEN now.making ELSE Append(now.making, x)
      BY <3>5, Zenon
    <3>7. Resume(Set([now EXCEPT !.making = list], Verify, "0"), [t EXCEPT !.stage = stage, !.pushed = ~yes, !.verify = verify], <<>>)
      BY <3>2, <3>5, Zenon
    <3>8. yes \in BOOLEAN
      BY <3>3, <3>5, Zenon
    <3> HIDE DEF active, provided, stage, verify, list
    <3> QED
      BY <3>4, <3>6, <3>7, <3>8, Zenon
  <2>4. PICK todo : todo = [t EXCEPT !.stage = stage, !.pushed = ~active, !.verify = verify]
    OBVIOUS
  <2>5. /\ DOMAIN todo = DOMAIN t /\ todo.left = t.left /\ todo.stage # "begin" /\ todo.pushed \in BOOLEAN
        /\ todo.pushed = ~active
    BY <1>3, <2>3, <2>4
  <2>6. PICK st : st = Set([now EXCEPT !.making = list], Verify, "0")
    OBVIOUS
  <2>7. Resume(st, todo, <<>>)
    BY <2>3, <2>4, <2>6
  <2>8. ASSUME NEW g, g.kind = Top.kind, g.cmd = Top.cmd, g.todo = todo PROVE Grown(now, st, g) /\ EndsWith(st, g)
    <3>1. ~HasScope(g) /\ ~HasQueue(g) /\ ~IsFinding(g) /\ (IsMaking(g) <=> todo.pushed)
      BY <1>1, <2>8 DEF HasScope, HasQueue, IsFinding, IsMaking, InNewProcess
    <3>2. CASE active
      <4>1. list = now.making
        BY <2>3, <3>2
      <4>2. IsList(now.making)
        BY <1>5 DEF Formed
      <4>3. LET b == [now EXCEPT !.making = now.making]
            IN  Formed(b) /\ b.scopes = now.scopes /\ QueueDirs(b) = QueueDirs(now) /\ b.finding = now.finding /\ b.making = now.making
        BY <1>5, <4>2, NewStack, Zenon
      <4>4. Same(now, [now EXCEPT !.making = now.making])
        BY <4>3 DEF Same
      <4>5. Same(now, st)
        BY <2>6, <4>1, <4>4, SameAfter
      <4>6. Quiet(g)
        BY <2>5, <3>1, <3>2 DEF Quiet
      <4> QED
        BY <1>5, <4>5, <4>6, GrownQuiet
    <3>3. CASE ~active
      <4>1. list = Append(now.making, x)
        BY <2>3, <3>3
      <4>2. Same([now EXCEPT !.making = Append(now.making, x)], st)
        BY <2>6, <4>1, SameSet
      <4>3. IsMaking(g) /\ Head(g.todo.left) = x
        BY <2>2, <2>5, <2>8, <3>1, <3>3
      <4> QED
        BY <1>5, <3>1, <4>2, <4>3, MakingPush
    <3> QED
      BY <3>2, <3>3
  <2> QED
    BY <1>1, <1>2, <1>5, <2>5, <2>7, <2>8, ResumeReopen
<1> QED
  BY <1>6, <1>7

\* The other stages of FetchContent_MakeAvailable().
LEMMA FetchSteps ==
  ASSUME SessionInv, FetchProvided \/ FetchFind \/ FetchSought \/ FetchPopulate \/ FetchAdded
  PROVE  SessionInv'
<1>0. frames # <<>> /\ Top.kind = "fetch"
  BY DEF FetchProvided, FetchFind, FetchSought, FetchPopulate, FetchAdded, Stage, AtFrame
<1>1. PICK t : t = Top.todo
  OBVIOUS
<1>2. ASSUME NEW stage, stage # "begin", NEW rest, Resume(now, [t EXCEPT !.stage = stage], rest) PROVE SessionInv'
  <2>1. Onward([t EXCEPT !.stage = stage])
    BY <1>0, <1>1, <1>2, FetchOnward
  <2> QED
    BY <1>0, <1>2, <2>1, SameItself, ResumeKeeps
<1>3. ASSUME NEW st, Same(now, st), NEW events, NextName(st, events) PROVE SessionInv'
  BY <1>0, <1>3, NextNameKeeps
<1>4. \A n, p, x, s : Same(now, Published(now, n, p, x)) /\ Same(now, Published(Upserted(now, n, s), n, p, x))
  BY SameItself, SameFetch
<1>5. CASE FetchProvided
  <2>1. \/ \E p, x, events : NextName(Published(now, Dependency, p, x), events)
        \/ Resume(now, [t EXCEPT !.stage = "find"], <<>>)
    BY <1>1, <1>5, Zenon DEF FetchProvided
  <2> QED
    BY <1>2, <1>3, <1>4, <2>1
<1>6. CASE FetchFind
  <2>1. \E rest : Resume(now, [t EXCEPT !.stage = "sought"], rest) \/ Resume(now, [t EXCEPT !.stage = "populate"], rest)
    BY <1>1, <1>6, Zenon DEF FetchFind
  <2> QED
    BY <1>2, <2>1
<1>7. CASE FetchSought
  <2>1. \/ \E p, x, s, events : NextName(Published(Upserted(now, Dependency, s), Dependency, p, x), events)
        \/ Resume(now, [t EXCEPT !.stage = "populate"], <<>>)
    BY <1>1, <1>7, Zenon DEF FetchSought
  <2> QED
    BY <1>2, <1>3, <1>4, <2>1
<1>8. CASE FetchPopulate
  <2>1. PICK st : st = Content(Declared, TRUE).st
    OBVIOUS
  <2>2. Same(now, st)
    <3>1. \A saved : Same(now, Content(Declared, saved).st)
      BY SameFetch
    <3> QED
      BY <2>1, <3>1, Zenon
  <2>3. \/ \E events : NextName(st, events)
        \/ \E events, rest : Resume(st, [t EXCEPT !.stage = "added", !.events = events], rest)
    <3>1. \/ NextName(st, <<Materialized(Dependency)>>)
          \/ Resume(st, [t EXCEPT !.stage = "added", !.events = Append(t.events, Materialized(Dependency))],
                    <<{[cmd |-> "add_subdirectory", file |-> Declared.file]}>>)
      BY <1>1, <1>8, <2>1, Zenon DEF FetchPopulate
    <3> QED
      BY <3>1, Zenon
  <2>4. \A events : Onward([t EXCEPT !.stage = "added", !.events = events])
    BY <1>0, <1>1, FetchOnward
  <2> QED
    BY <1>0, <1>3, <2>2, <2>3, <2>4, ResumeKeeps
<1>9. CASE FetchAdded
  BY <1>3, <1>9, SameItself DEF FetchAdded
<1> QED
  BY <1>5, <1>6, <1>7, <1>8, <1>9

\* The next call that was deferred to the directory is run.
LEMMA FlushKeeps ==
  ASSUME SessionInv, FlushDeferred
  PROVE  SessionInv'
<1>1. frames # <<>>
  BY DEF FlushDeferred
<1>2. PICK rest, g : rest = <<{Head(CallsLeft).call}>> /\ g = [NewFrame("deferred", None, rest, FALSE) EXCEPT !.tx = FALSE]
  OBVIOUS
<1>3. Fresh(g, "deferred", None, None, CurrentDir) /\ g.tx = FALSE
  BY <1>2, CallFrames
<1>4. "deferred" \in PlainKinds /\ "deferred" \notin {"function", "subdirectory"} /\ g.tx \in BOOLEAN
  BY <1>3 DEF PlainKinds
<1>5. FrameOK(g) /\ g.kind # "top" /\ g.kind # "ctest_script" /\ Quiet(g)
  BY <1>3, <1>4, PlainFrame
<1>6. g.kind = "deferred"
  BY <1>3 DEF Fresh
<1>7. PICK w, k, calls : w = world' /\ k = Len(now.deferred) /\ calls = Tail(now.deferred[k].calls)
  OBVIOUS
<1>8. PICK st : st = Publish([now EXCEPT !.deferred[k].calls = calls], w)
  OBVIOUS
<1>9. Same(now, st)
  BY <1>8, SameItself, SameQueue, SameAfter
<1>10. Grown(now, st, g) /\ EndsWith(st, g)
  BY <1>1, <1>5, <1>9, Innermost, GrownQuiet
<1>11. now' = st
  BY <1>7, <1>8, Zenon DEF FlushDeferred
<1>12. frames' = Append(frames, g)
  BY <1>2, Zenon DEF FlushDeferred
<1>13. Aligned(st, Append(frames, g))
  BY <1>1, <1>3, <1>5, <1>6, <1>10, Innermost, PushFrame DEF SessionInv
<1> QED
  BY <1>11, <1>12, <1>13 DEF SessionInv

\* A script starts, in a scope of its own if it has a process of its own.
LEMMA ScriptBegins ==
  ASSUME SessionInv, ScriptBegin
  PROVE  SessionInv'
<1>1. frames # <<>> /\ Top.kind = "ctest_script" /\ ~Top.todo.running
  BY DEF ScriptBegin, AtFrame
<1> DEFINE n == Len(frames)
<1>2. Top = frames[n] /\ FrameOK(Top) /\ IsList(frames) /\ n \in DOMAIN frames /\ n > 0 /\ Formed(now)
  BY <1>1, Innermost, ListFacts
<1>3. PICK f, t : f = Top /\ t = Top.todo
  OBVIOUS
<1>4. DOMAIN t = {"left", "rv", "errors", "running", "before"}
  BY <1>1, <1>3, TodoFields
<1>5. PICK yes : yes = TRUE
  OBVIOUS
<1>6. PICK todo : todo = [t EXCEPT !.errors = errors, !.running = yes, !.before = now]
  OBVIOUS
<1>7. DOMAIN todo = DOMAIN t /\ todo.running = TRUE /\ todo.before = now
  BY <1>4, <1>5, <1>6
<1>8. PICK g : g = [f EXCEPT !.todo = todo]
  OBVIOUS
<1>9. DOMAIN g = FrameFields /\ g.kind = f.kind /\ g.cmd = f.cmd /\ g.tx = f.tx /\ g.before = f.before /\ g.dir = f.dir /\ g.todo = todo
  BY <1>2, <1>3, <1>8, NewTodo
<1>10. FrameOK(g) /\ g.tx
  BY <1>1, <1>2, <1>3, <1>7, <1>9 DEF FrameOK
<1>11. Quiet(Top)
  BY <1>1 DEF Quiet, HasScope, HasQueue, IsFinding, IsMaking, InNewProcess
<1>12. Shape(now, frames, Len(frames) - 1)
  BY <1>1, <1>11, SameItself, LeaveQuiet
<1>13. PICK st : st = IF Top.cmd.new_process THEN [now EXCEPT !.scopes = Append(now.scopes, Empty)] ELSE now
  OBVIOUS
<1>14. Grown(now, st, g) /\ EndsWith(st, g)
  <2>1. ~HasQueue(g) /\ ~IsFinding(g) /\ ~IsMaking(g) /\ (HasScope(g) <=> Top.cmd.new_process)
    BY <1>1, <1>3, <1>7, <1>9 DEF HasScope, HasQueue, IsFinding, IsMaking, InNewProcess
  <2>2. CASE Top.cmd.new_process
    <3>1. st = [now EXCEPT !.scopes = Append(now.scopes, Empty)]
      BY <1>13, <2>2
    <3> QED
      BY <1>2, <2>1, <2>2, <3>1, SameItself, ScopePush
  <2>3. CASE ~Top.cmd.new_process
    <3>1. st = now
      BY <1>13, <2>3
    <3> QED
      BY <1>2, <2>1, <2>3, <3>1, SameItself, GrownQuiet DEF Quiet
  <2> QED
    BY <2>2, <2>3
<1>15. PICK fr : fr = [frames EXCEPT ![Len(frames)] = g]
  OBVIOUS
<1>16. Aligned(st, fr)
  BY <1>1, <1>3, <1>7, <1>9, <1>10, <1>12, <1>14, <1>15, Reopen
<1>17. Len(fr) = n /\ fr[n] = g
  BY <1>2, <1>15, ListExcept
<1>18. PICK body, file, policy :
          /\ now' = Publish(st, world')
          /\ frames' = Append(fr, ScriptFrame(body, file, policy))
  <2>1. [frames EXCEPT ![Len(frames)].todo = todo] = fr
    BY <1>2, <1>3, <1>8, <1>15, Zenon
  <2>2. now' = Publish(st, world')
    BY <1>13, Zenon DEF ScriptBegin
  <2>3. frames' = Append([frames EXCEPT ![Len(frames)].todo = todo], ScriptFrame(Files[Head(todo.left)].body, Head(todo.left), FALSE))
    BY <1>3, <1>5, <1>6, Zenon DEF ScriptBegin
  <2> QED
    BY <2>1, <2>2, <2>3, Zenon
<1>19. PICK h : h = ScriptFrame(body, file, policy)
  OBVIOUS
<1>20. FrameOK(h) /\ h.tx = FALSE /\ h.kind # "top" /\ h.kind # "ctest_script" /\ Quiet(h)
  BY <1>19, ScriptQuiet
<1>21. PICK w, st2 : w = world' /\ st2 = Publish(st, w)
  OBVIOUS
<1>22. Same(st, st2) /\ Formed(st)
  BY <1>16, <1>21, SameSet DEF Aligned, Shape
<1>23. Grown(st, st2, h) /\ EndsWith(st2, h)
  BY <1>20, <1>22, GrownQuiet
<1>24. fr[Len(fr)].tx /\ Len(fr) > 0
  BY <1>2, <1>10, <1>17
<1>25. Aligned(st2, Append(fr, h))
  BY <1>16, <1>20, <1>23, <1>24, PushFrame
<1> QED
  BY <1>18, <1>19, <1>21, <1>25 DEF SessionInv

\* A process of its own ends: its scope is popped, and what it left active is
\* cut off.
LEMMA ProcessEnds ==
  ASSUME NEW st, NEW before, NEW fr, NEW n, Formed(st), Shape(before, fr, n),
         Shape([st EXCEPT !.scopes = Front(st.scopes)], fr, n)
  PROVE  Shape(NewProcessEnd(st, before), fr, n)
<1>1. PICK s : s = Front(st.scopes)
  OBVIOUS
<1>2. PICK a : a = [st EXCEPT !.scopes = s]
  OBVIOUS
<1>3. Shape(a, fr, n)
  BY <1>1, <1>2
<1>4. DOMAIN a = DOMAIN st /\ a.scopes = s /\ a.deferred = st.deferred /\ a.finding = st.finding /\ a.making = st.making
  BY <1>2 DEF Formed, Kept
<1>5. Formed(a) /\ Formed(before) /\ Len(a.finding) = Len(before.finding) /\ Len(a.making) = Len(before.making)
  BY <1>3 DEF Shape, InStep
<1>6. IsList(a.finding) /\ IsList(a.making) /\ Len(a.finding) \in Nat /\ Len(a.making) \in Nat
  BY <1>5, ListFacts DEF Formed
<1>7. SubSeq(st.finding, 1, Len(before.finding)) = st.finding
  <2>1. Len(st.finding) \in 0 .. Len(st.finding) /\ IsList(st.finding) /\ Len(st.finding) = Len(before.finding)
    BY <1>4, <1>5, <1>6
  <2> QED
    BY <2>1, ListPrefix
<1>8. SubSeq(st.making, 1, Len(before.making)) = st.making
  <2>1. Len(st.making) \in 0 .. Len(st.making) /\ IsList(st.making) /\ Len(st.making) = Len(before.making)
    BY <1>4, <1>5, <1>6
  <2> QED
    BY <2>1, ListPrefix
<1>9. PICK e : e = NewProcessEnd(st, before)
  OBVIOUS
<1>10. /\ DOMAIN e = DOMAIN st /\ e.scopes = s /\ e.deferred = st.deferred
       /\ e.finding = SubSeq(st.finding, 1, Len(before.finding)) /\ e.making = SubSeq(st.making, 1, Len(before.making))
  BY <1>1, <1>9 DEF NewProcessEnd, Formed, Kept
<1>11. Same(a, e)
  BY <1>4, <1>7, <1>8, <1>10 DEF Same, Formed, QueueDirs
<1> QED
  BY <1>3, <1>9, <1>11, ShapeSame

\* A script ends.
LEMMA ScriptEnds ==
  ASSUME SessionInv, ScriptEnd
  PROVE  SessionInv'
<1>1. frames # <<>> /\ Top.kind = "ctest_script" /\ Top.todo.running
  BY DEF ScriptEnd, AtFrame
<1> DEFINE n == Len(frames)
<1>2. Top = frames[n] /\ FrameOK(Top) /\ IsList(frames) /\ n \in DOMAIN frames /\ n > 0 /\ Formed(now)
  BY <1>1, Innermost, ListFacts
<1>3. PICK f, t : f = Top /\ t = Top.todo
  OBVIOUS
<1>4. DOMAIN t = {"left", "rv", "errors", "running", "before"}
  BY <1>1, <1>3, TodoFields
<1>5. PICK no, rv : no = FALSE /\ rv = IF errors > Top.todo.errors THEN "1" ELSE "0"
  OBVIOUS
<1>6. PICK todo : todo = [t EXCEPT !.left = Tail(t.left), !.running = no, !.rv = rv]
  OBVIOUS
<1>7. DOMAIN todo = DOMAIN t /\ todo.running = FALSE
  BY <1>4, <1>5, <1>6
<1>8. PICK g : g = [f EXCEPT !.todo = todo]
  OBVIOUS
<1>9. DOMAIN g = FrameFields /\ g.kind = f.kind /\ g.cmd = f.cmd /\ g.tx = f.tx /\ g.before = f.before /\ g.dir = f.dir /\ g.todo = todo
  BY <1>2, <1>3, <1>8, NewTodo
<1>10. FrameOK(g)
  BY <1>1, <1>2, <1>3, <1>7, <1>9 DEF FrameOK
<1>11. Quiet(g) /\ ~g.todo.running
  BY <1>1, <1>3, <1>7, <1>9 DEF Quiet, HasScope, HasQueue, IsFinding, IsMaking, InNewProcess
<1>12. PICK st : st = IF Top.cmd.new_process THEN NewProcessEnd(now, Top.todo.before) ELSE now
  OBVIOUS
<1>13. ~HasQueue(Top) /\ ~IsFinding(Top) /\ ~IsMaking(Top) /\ (HasScope(Top) <=> Top.cmd.new_process)
  BY <1>1 DEF HasScope, HasQueue, IsFinding, IsMaking, InNewProcess
<1>14. Shape(st, frames, Len(frames) - 1)
  <2>1. CASE Top.cmd.new_process
    <3>1. PICK a : a = [now EXCEPT !.scopes = Front(now.scopes)]
      OBVIOUS
    <3>2. Len(now.scopes) > 0
      BY <1>1, Innermost, StackTops
    <3>3. Grown(a, now, Top)
      BY <1>2, <1>13, <2>1, <3>1, <3>2, ScopePop
    <3>4. Shape(a, frames, Len(frames) - 1)
      BY <1>1, <3>3, SameItself, LeaveGrown
    <3>5. Shape(Top.todo.before, frames, Len(frames) - 1)
      BY <1>1, Innermost
    <3>6. PICK m : m = Len(frames) - 1
      OBVIOUS
    <3>7. Shape(NewProcessEnd(now, Top.todo.before), frames, m)
      BY <1>2, <3>1, <3>4, <3>5, <3>6, ProcessEnds
    <3> QED
      BY <1>12, <2>1, <3>6, <3>7
  <2>2. CASE ~Top.cmd.new_process
    BY <1>1, <1>12, <1>13, <2>2, SameItself, LeaveQuiet DEF Quiet
  <2> QED
    BY <2>1, <2>2
<1>15. Formed(st)
  BY <1>14 DEF Shape
<1>16. Grown(st, st, g) /\ EndsWith(st, g)
  BY <1>11, <1>15, SameItself, GrownQuiet
<1>17. Aligned(st, [frames EXCEPT ![Len(frames)] = g])
  BY <1>1, <1>3, <1>9, <1>10, <1>11, <1>14, <1>16, Reopen
<1>18. frames' = [frames EXCEPT ![Len(frames)].todo = todo]
  <2>1. frames' = [frames EXCEPT ![Len(frames)].todo =
                     [t EXCEPT !.left = Tail(t.left), !.running = FALSE, !.rv = IF errors > Top.todo.errors THEN "1" ELSE "0"]]
    BY <1>3, Zenon DEF ScriptEnd
  <2>2. frames' = [frames EXCEPT ![Len(frames)].todo = [t EXCEPT !.left = Tail(t.left), !.running = FALSE, !.rv = rv]]
    BY <1>5, <2>1, Zenon
  <2>3. frames' = [frames EXCEPT ![Len(frames)].todo = [t EXCEPT !.left = Tail(t.left), !.running = no, !.rv = rv]]
    BY <1>5, <2>2, Zenon
  <2> QED
    BY <1>6, <2>3, Zenon
<1>19. frames' = [frames EXCEPT ![Len(frames)] = g]
  BY <1>2, <1>3, <1>8, <1>18, Zenon
<1>20. now' = st
  BY <1>12, Zenon DEF ScriptEnd
<1> QED
  BY <1>17, <1>19, <1>20 DEF SessionInv

-----------------------------------------------------------------------------
(***************************************************************************)
(* Commands that end.                                                      *)
(***************************************************************************)

\* The innermost frame ends, and st is the session its handler leaves.
Ends(st) == \E w, own_error, immediate, pending : LeaveWith(st, w, own_error, immediate, pending)

\* A command that ends and kept nothing open.
LEMMA QuietEnds ==
  ASSUME SessionInv, frames # <<>>, Quiet(Top), NEW st, Same(now, st), Ends(st)
  PROVE  SessionInv'
<1>1. PICK w, own_error, immediate, pending : LeaveWith(st, w, own_error, immediate, pending)
  BY DEF Ends
<1> QED
  BY <1>1, LeaveQuiet, LeaveKeeps

\* A command that ends and kept something open, which st has no more.
LEMMA ShapeEnds ==
  ASSUME SessionInv, frames # <<>>, NEW st, Shape(st, frames, Len(frames) - 1), Ends(st)
  PROVE  SessionInv'
<1>1. PICK w, own_error, immediate, pending : LeaveWith(st, w, own_error, immediate, pending)
  BY DEF Ends
<1> QED
  BY <1>1, LeaveKeeps

\* The ends of the commands that keep nothing open.
LEMMA PlainEnds ==
  ASSUME SessionInv,
         \/ LeaveMacro \/ LeaveInclude \/ LeaveCall \/ LeaveScript \/ LeaveDeferred \/ ProjectEnd
         \/ LeaveRunScript \/ LeaveCustomFiles \/ LeaveFindItem
  PROVE  SessionInv'
<1>1. \A st, v, x, w : /\ Same(st, Set(st, v, x)) /\ Same(st, SetIf(st, v, x)) /\ Same(st, Publish(st, w))
                       /\ \A c : Same(st, ItemResult(st, c, x))
  BY SameSet, SameItself DEF ItemResult, SetIf
<1>2. CASE LeaveMacro
  <2>1. frames # <<>> /\ Quiet(Top)
    BY <1>2 DEF LeaveMacro, Quiet, HasScope, HasQueue, IsFinding, IsMaking, InNewProcess
  <2>2. Ends(now)
    BY <1>2, Zenon DEF LeaveMacro, Leave, Ends
  <2> QED
    BY <2>1, <2>2, SameItself, QuietEnds
<1>3. CASE LeaveInclude
  <2>1. frames # <<>> /\ Quiet(Top)
    BY <1>3 DEF LeaveInclude, FileIsOver, Quiet, HasScope, HasQueue, IsFinding, IsMaking, InNewProcess
  <2>2. Ends(Publish(now, FileLeft))
    BY <1>3, Zenon DEF LeaveInclude, Leave, Ends
  <2> QED
    BY <1>1, <2>1, <2>2, QuietEnds
<1>4. CASE LeaveCall
  <2>1. frames # <<>> /\ Quiet(Top)
    BY <1>4 DEF LeaveCall, Quiet, HasScope, HasQueue, IsFinding, IsMaking, InNewProcess
  <2>2. Ends(now)
    BY <1>4, Zenon DEF LeaveCall, Leave, Ends
  <2> QED
    BY <2>1, <2>2, SameItself, QuietEnds
<1>5. CASE LeaveScript
  <2>1. frames # <<>> /\ Quiet(Top)
    BY <1>5 DEF LeaveScript, FileIsOver, Quiet, HasScope, HasQueue, IsFinding, IsMaking, InNewProcess
  <2>2. Ends(Publish(now, FileLeft))
    BY <1>5, Zenon DEF LeaveScript, Leave, Ends
  <2> QED
    BY <1>1, <2>1, <2>2, QuietEnds
<1>6. CASE LeaveDeferred
  <2>1. frames # <<>> /\ Quiet(Top)
    BY <1>6 DEF LeaveDeferred, Quiet, HasScope, HasQueue, IsFinding, IsMaking, InNewProcess
  <2>2. Ends(Publish(now, ExecPop(world)))
    BY <1>6, Zenon DEF LeaveDeferred, Leave, Ends
  <2> QED
    BY <1>1, <2>1, <2>2, QuietEnds
<1>7. CASE ProjectEnd
  <2>1. frames # <<>> /\ Quiet(Top)
    BY <1>7 DEF ProjectEnd, AtFrame, Quiet, HasScope, HasQueue, IsFinding, IsMaking, InNewProcess
  <2>2. Ends(now) \/ Ends(Set(now, "NOBIFY_ENABLED_LANGUAGES", Top.cmd.languages))
    BY <1>7, Zenon DEF ProjectEnd, Leave, Ends
  <2> QED
    BY <1>1, <2>1, <2>2, SameItself, QuietEnds
<1>8. CASE LeaveRunScript
  <2>1. frames # <<>> /\ Quiet(Top)
    BY <1>8 DEF LeaveRunScript, AtFrame, Quiet, HasScope, HasQueue, IsFinding, IsMaking, InNewProcess
  <2>2. Ends(SetIf(now, Top.cmd.rv, Top.todo.rv))
    BY <1>8, Zenon DEF LeaveRunScript, Leave, Ends
  <2> QED
    BY <1>1, <2>1, <2>2, QuietEnds
<1>9. CASE LeaveCustomFiles
  <2>1. frames # <<>> /\ Quiet(Top)
    BY <1>9 DEF LeaveCustomFiles, AtFrame, Quiet, HasScope, HasQueue, IsFinding, IsMaking, InNewProcess
  <2>2. Ends(Set(now, "NOBIFY_CTEST_LAST_COMMAND", "custom"))
    BY <1>9, Zenon DEF LeaveCustomFiles, Leave, Ends
  <2> QED
    BY <1>1, <2>1, <2>2, QuietEnds
<1>10. CASE LeaveFindItem
  <2>1. frames # <<>> /\ Quiet(Top)
    BY <1>10, AtStage DEF LeaveFindItem
  <2>2. Ends(ItemResult(now, Top.cmd, Head(Top.todo.left))) \/ Ends(ItemResult(now, Top.cmd, None))
    BY <1>10, Zenon DEF LeaveFindItem, Leave, Ends
  <2> QED
    BY <1>1, <2>1, <2>2, QuietEnds
<1> QED
  BY <1>2, <1>3, <1>4, <1>5, <1>6, <1>7, <1>8, <1>9, <1>10

\* The ends of find_package() and FetchContent_MakeAvailable().
LEMMA DependencyEnds ==
  ASSUME SessionInv, LeaveFindPackage \/ LeaveFetch
  PROVE  SessionInv'
<1>1. CASE LeaveFindPackage
  <2>1. frames # <<>> /\ Quiet(Top)
    BY <1>1, AtStage DEF LeaveFindPackage, FindingStages, Quiet
  <2>2. PICK pkg, found, var, x : Ends(FindRecorded(Set(now, var, x), pkg, found))
    BY <1>1, Zenon DEF LeaveFindPackage, Ends
  <2>3. PICK st : st = FindRecorded(Set(now, var, x), pkg, found)
    OBVIOUS
  <2>4. Same(now, st)
    <3>1. PICK b : b = Set(now, var, x)
      OBVIOUS
    <3>2. Same(now, b)
      BY <3>1, SameSet
    <3>3. st = FindRecorded(b, pkg, found)
      BY <2>3, <3>1
    <3>4. PICK y, z : st = [b EXCEPT !.found = y, !.missing = z]
      BY <3>3, Zenon DEF FindRecorded
    <3>5. PICK e : e = [b EXCEPT !.found = y]
      OBVIOUS
    <3>6. Same(now, e)
      BY <3>2, <3>5, SameField
    <3>7. Same(now, [e EXCEPT !.missing = z])
      BY <3>6, SameField
    <3>8. st = [e EXCEPT !.missing = z]
      BY <3>4, <3>5, Zenon
    <3> QED
      BY <3>7, <3>8, Zenon
  <2> QED
    BY <2>1, <2>2, <2>3, <2>4, QuietEnds
<1>2. CASE LeaveFetch
  <2>1. CASE \E stage : Stage("fetch", stage) /\ stage # "begin" /\ Ends(Cleaned(now))
    <3>1. frames # <<>> /\ Top.kind = "fetch"
      BY <2>1 DEF Stage, AtFrame
    <3>2. Shape(Cleaned(now), frames, Len(frames) - 1)
      BY <3>1, SameItself, CleanedShape
    <3> QED
      BY <2>1, <3>1, <3>2, ShapeEnds
  <2>2. CASE Stage("fetch", "begin") /\ Ends(now)
    <3>1. frames # <<>> /\ Top.kind = "fetch" /\ Top.todo.stage = "begin" /\ ~HasScope(Top) /\ ~HasQueue(Top) /\ ~IsFinding(Top)
          /\ (IsMaking(Top) <=> Top.todo.pushed)
      BY <2>2, AtStage
    <3>2. ~Top.todo.pushed
      BY <3>1, Innermost DEF FrameOK
    <3>3. Quiet(Top)
      BY <3>1, <3>2 DEF Quiet
    <3> QED
      BY <2>2, <3>1, <3>3, SameItself, QuietEnds
  <2>3. \/ Stage("fetch", "begin") /\ Ends(now)
        \/ Stage("fetch", "sought") /\ Ends(Cleaned(now))
        \/ Stage("fetch", "added") /\ Ends(Cleaned(now))
        \/ Stage("fetch", "populate") /\ Ends(Cleaned(now))
    BY <1>2, Zenon DEF LeaveFetch, Ends
  <2> QED
    BY <2>1, <2>2, <2>3
<1> QED
  BY <1>1, <1>2

\* The end of a function: its scope is popped.
LEMMA FunctionEnds ==
  ASSUME SessionInv, LeaveFunction
  PROVE  SessionInv'
<1>1. frames # <<>> /\ Top.kind = "function"
  BY DEF LeaveFunction
<1>2. HasScope(Top) /\ ~HasQueue(Top) /\ ~IsFinding(Top) /\ ~IsMaking(Top)
  BY <1>1 DEF HasScope, HasQueue, IsFinding, IsMaking, InNewProcess
<1>3. Formed(now) /\ Len(now.scopes) > 0
  BY <1>1, Innermost, StackTops
<1>4. PICK st : st = [now EXCEPT !.scopes = Front(now.scopes)]
  OBVIOUS
<1>5. Grown(st, now, Top)
  BY <1>2, <1>3, <1>4, ScopePop
<1>6. Shape(st, frames, Len(frames) - 1)
  BY <1>1, <1>5, SameItself, LeaveGrown
<1>7. Ends(st)
  BY <1>4, Zenon DEF LeaveFunction, Leave, Ends
<1> QED
  BY <1>1, <1>6, <1>7, ShapeEnds

\* The end of a directory: its scope and its queue are popped.
LEMMA DirectoryEnds ==
  ASSUME SessionInv, LeaveSubdirectory
  PROVE  SessionInv'
<1>1. frames # <<>> /\ Top.kind = "subdirectory"
  BY DEF LeaveSubdirectory, FileIsOver
<1>2. HasScope(Top) /\ HasQueue(Top) /\ ~IsFinding(Top) /\ ~IsMaking(Top)
  BY <1>1 DEF HasScope, HasQueue, IsFinding, IsMaking, InNewProcess
<1>3. PICK b : b = ScopeCaptured(now, world)
  OBVIOUS
<1>4. Same(now, b) /\ Formed(b)
  BY <1>1, <1>3, SameCaptured, Innermost DEF Same
<1>5. Shape(b, frames, Len(frames))
  BY <1>1, <1>4, Innermost, ShapeSame
<1>6. Len(b.scopes) > 0 /\ Len(b.deferred) > 0
  BY <1>1, <1>2, <1>5, Innermost, StackTops
<1>7. PICK d : d = [b EXCEPT !.scopes = Front(b.scopes)]
  OBVIOUS
<1>8. /\ Formed(d) /\ Len(b.scopes) = Len(d.scopes) + 1 /\ QueueDirs(d) = QueueDirs(b) /\ d.finding = b.finding
      /\ d.making = b.making /\ d.deferred = b.deferred
  BY <1>4, <1>6, <1>7, ScopeLess
<1>9. PICK e : e = [d EXCEPT !.deferred = Front(d.deferred)]
  OBVIOUS
<1>10. /\ Formed(e) /\ e.scopes = d.scopes /\ e.finding = d.finding /\ e.making = d.making
       /\ OneMore(QueueDirs(d), QueueDirs(e))
  BY <1>6, <1>8, <1>9, QueuePop
<1>11. Len(b.scopes) = Len(e.scopes) + 1
  BY <1>8, <1>10
<1>12. Grown(e, b, Top)
  BY <1>2, <1>4, <1>8, <1>10, <1>11 DEF Grown
<1>13. Shape(e, frames, Len(frames) - 1)
  BY <1>1, <1>4, <1>12, LeaveGrown
<1>14. PICK st : st = Publish(e, FileLeft)
  OBVIOUS
<1>15. Shape(st, frames, Len(frames) - 1)
  <2>1. Same(e, st)
    BY <1>14, SameSet
  <2> QED
    BY <1>13, <2>1, ShapeSame
<1>16. Ends(st)
  <2>1. Ends(Publish([ScopeCaptured(now, world) EXCEPT !.scopes = Front(@), !.deferred = Front(@)], FileLeft))
    BY Zenon DEF LeaveSubdirectory, Leave, Ends
  <2>2. Ends(Publish([b EXCEPT !.scopes = Front(@), !.deferred = Front(@)], FileLeft))
    BY <1>3, <2>1, Zenon
  <2>3. Ends(Publish([d EXCEPT !.deferred = Front(d.deferred)], FileLeft))
    BY <1>7, <2>2, Zenon
  <2> QED
    BY <1>9, <1>14, <2>3, Zenon
<1> QED
  BY <1>1, <1>15, <1>16, ShapeEnds

-----------------------------------------------------------------------------
(***************************************************************************)
(* The end of the run.                                                     *)
(***************************************************************************)

\* The least of a set of numbers.
LEMMA LeastIn ==
  ASSUME NEW S, S \subseteq Nat, S # {}
  PROVE  Min(S) \in S /\ \A k \in S : Min(S) <= k
<1> DEFINE R == {ss \in Nat \X Nat : ss[1] < ss[2]}
<1>1. IsWellFoundedOn(R, Nat)
  BY NatLessThanWellFounded DEF OpToRel
<1>2. PICK x \in S : \A y \in S : ~(<<y, x>> \in R)
  BY <1>1, WFMin
<1>3. ASSUME NEW y \in S PROVE x <= y
  <2>1. x \in Nat /\ y \in Nat /\ ~(<<y, x>> \in R)
    BY <1>2
  <2>2. ~(y < x)
    BY <2>1
  <2> QED
    BY <2>1, <2>2
<1> QED
  BY <1>2, <1>3 DEF Min

\* Frames that keep nothing open above the first ask nothing of the session.
LEMMA ShapeFirst ==
  ASSUME NEW st, NEW fr, NEW n \in Nat \ {0}, Shape(st, fr, n), \A k \in 2 .. n : Quiet(fr[k])
  PROVE  Shape(st, fr, 1)
<1> DEFINE R == {ss \in Nat \X Nat : ss[1] < ss[2]}
           S == {k \in 1 .. n : Shape(st, fr, k)}
<1>1. S \subseteq Nat /\ n \in S
  OBVIOUS
<1>2. Min(S) \in S /\ \A k \in S : Min(S) <= k
  BY <1>1, LeastIn
<1>3. PICK m : m = Min(S)
  OBVIOUS
<1>4. m \in 1 .. n /\ Shape(st, fr, m) /\ \A k \in S : m <= k
  BY <1>2, <1>3
<1>5. CASE m = 1
  BY <1>4, <1>5
<1>6. CASE m # 1
  <2>1. m - 1 \in Nat /\ m - 1 \in 1 .. n /\ (m - 1) + 1 = m /\ m \in 2 .. n
    BY <1>4, <1>6
  <2>2. Shape(st, fr, (m - 1) + 1) /\ Quiet(fr[(m - 1) + 1])
    BY <1>4, <2>1
  <2>3. Shape(st, fr, m - 1)
    BY <2>1, <2>2, ShapeQuiet
  <2>4. m <= m - 1
    BY <1>4, <2>1, <2>3
  <2> QED
    BY <2>1, <2>4
<1> QED
  BY <1>5, <1>6

\* The run ends with the queue of its first file.
LEMMA LastQueue ==
  ASSUME NEW st, NEW fr, Shape(st, fr, 1), fr[1].kind = "top"
  PROVE  Aligned([st EXCEPT !.deferred = Front(st.deferred)], <<>>) /\ Len(st.scopes) = 1
<1> DEFINE f == fr[1]
<1>1. ~HasScope(f) /\ HasQueue(f) /\ ~IsFinding(f) /\ ~IsMaking(f)
  BY DEF HasScope, HasQueue, IsFinding, IsMaking, InNewProcess
<1>2. Formed(st) /\ Len(st.deferred) > 0
  <2>1. Formed(st)
    BY DEF Shape
  <2> QED
    BY <1>1, <2>1, StackTops
<1>3. PICK e : e = [st EXCEPT !.deferred = Front(st.deferred)]
  OBVIOUS
<1>4. Formed(e) /\ e.scopes = st.scopes /\ e.finding = st.finding /\ e.making = st.making /\ OneMore(QueueDirs(st), QueueDirs(e))
  BY <1>2, <1>3, QueuePop
<1>5. Len(st.scopes) = Len(e.scopes) + 0
  BY <1>2, <1>4, ListFacts DEF Formed
<1>6. Grown(e, st, f)
  BY <1>1, <1>2, <1>4, <1>5 DEF Grown
<1>7. Shape(e, fr, 0)
  BY <1>6, ShapePop
<1>8. PICK none : none = <<>>
  OBVIOUS
<1>9. Shape(e, none, 0)
  <2>1. \A k \in 1 .. 0 : none[k] = fr[k]
    OBVIOUS
  <2> QED
    BY <1>7, <2>1, ShapeBelow
<1>10. IsList(none) /\ Len(none) = 0
  BY <1>8 DEF IsList, ToSet
<1>11. Aligned(e, none)
  BY <1>9, <1>10 DEF Aligned
<1>12. Len(st.scopes) = 1
  <2> DEFINE S == {k \in 1 .. 1 : HasScope(fr[k])}
  <2>1. S = {}
    BY <1>1
  <2>2. Len(st.scopes) = 1 + Cardinality(S)
    BY DEF Shape
  <2>3. Cardinality({}) = 0
    BY FS_EmptySet
  <2> HIDE DEF S
  <2> QED
    BY <2>1, <2>2, <2>3
<1> QED
  BY <1>3, <1>8, <1>11, <1>12

\* The run ends when its first file does.
LEMMA RunEnds ==
  ASSUME SessionInv, EndOfRun
  PROVE  SessionInv'
<1>1. frames # <<>> /\ Top.kind = "top"
  BY DEF EndOfRun, FileIsOver
<1>2. Len(frames) = 1 /\ frames[1].kind = "top"
  <2>1. Len(frames) \in Nat \ {0} /\ Top = frames[Len(frames)]
    BY <1>1, Innermost
  <2>2. PICK n : n = Len(frames)
    OBVIOUS
  <2>3. FrameFits(frames, n)
    BY <2>1, <2>2 DEF SessionInv, Aligned
  <2>4. frames[n].kind = "top" <=> n = 1
    BY <2>3 DEF FrameFits
  <2> QED
    BY <1>1, <2>1, <2>2, <2>4
<1>3. PICK st : st = [now EXCEPT !.jobs = <<>>]
  OBVIOUS
<1>4. Same(now, st) /\ Formed(now)
  BY <1>1, <1>3, Innermost, SameItself, SameField
<1>5. Shape(st, frames, 1)
  BY <1>1, <1>2, <1>4, Innermost, ShapeSame
<1>6. now' = [st EXCEPT !.deferred = Front(st.deferred)]
  BY <1>3, Zenon DEF EndOfRun
<1>7. frames' = <<>>
  BY DEF EndOfRun
<1> QED
  BY <1>2, <1>5, <1>6, <1>7, LastQueue DEF SessionInv

\* A frame without a transaction that is above another such frame is that of a
\* deferred call.
LEMMA Untransacted ==
  ASSUME SessionInv, NEW k \in 2 .. Len(frames), ~frames[k].tx, ~frames[k - 1].tx
  PROVE  Quiet(frames[k])
<1>1. Len(frames) \in Nat
  BY ListFacts DEF SessionInv, Aligned
<1>2. FrameFits(frames, k) /\ k # 1
  BY <1>1 DEF SessionInv, Aligned
<1>3. frames[k].kind = "deferred"
  BY <1>2 DEF FrameFits
<1> QED
  BY <1>3 DEF Quiet, HasScope, HasQueue, IsFinding, IsMaking, InNewProcess

\* A snapshot on the stack.
LEMMA Snapshots ==
  ASSUME SessionInv, NEW k \in 1 .. Len(frames), frames[k].tx
  PROVE  k \in 2 .. Len(frames) /\ Shape(frames[k].before, frames, k - 1)
<1>1. Len(frames) \in Nat
  BY ListFacts DEF SessionInv, Aligned
<1>2. FrameFits(frames, k)
  BY <1>1 DEF SessionInv, Aligned
<1>3. k # 1 /\ Shape(frames[k].before, frames, k - 1)
  BY <1>2 DEF FrameFits
<1> QED
  BY <1>1, <1>3

\* When the run is stopped, the session is in step with its first file alone.
LEMMA UnwoundShape ==
  ASSUME SessionInv, frames # <<>>, NEW st, Same(now, st)
  PROVE  Shape(Unwound(st), frames, 1)
<1> DEFINE n == Len(frames)
           open == {k \in DOMAIN frames : frames[k].tx}
           undoing == {k \in open : ~frames[k].preserve}
           kept == IF undoing = {} THEN st ELSE frames[Min(undoing)].before
<1>1. n \in Nat \ {0} /\ DOMAIN frames = 1 .. n /\ Shape(st, frames, n)
  BY Innermost, ListFacts, ShapeSame
<1>2. open \subseteq Nat /\ undoing \subseteq Nat /\ undoing \subseteq open
  BY <1>1
<1>3. CASE open = {}
  <2>1. \A k \in 1 .. n : ~frames[k].tx
    BY <1>1, <1>3
  <2>2. ASSUME NEW k \in 2 .. n PROVE Quiet(frames[k])
    <3>1. k \in 1 .. n /\ k - 1 \in 1 .. n
      BY <1>1
    <3> QED
      BY <2>1, <3>1, Untransacted
  <2>3. Shape(st, frames, 1)
    BY <1>1, <2>2, ShapeFirst
  <2>4. Unwound(st) = st
    BY <1>3, Zenon DEF Unwound
  <2> QED
    BY <2>3, <2>4
<1>4. CASE open # {}
  <2>1. PICK m : m = Min(open)
    OBVIOUS
  <2>2. m \in open /\ \A k \in open : m <= k
    BY <1>2, <1>4, <2>1, LeastIn
  <2>3. m \in 1 .. n /\ frames[m].tx
    BY <1>1, <2>2
  <2>4. PICK first : first = frames[m].before
    OBVIOUS
  <2>5. m \in 2 .. n /\ Shape(first, frames, m - 1)
    BY <2>3, <2>4, Snapshots
  <2>6. ASSUME NEW k \in 2 .. (m - 1) PROVE Quiet(frames[k])
    <3>1. k \in 2 .. n /\ k \in 1 .. n /\ k - 1 \in 1 .. n /\ k < m /\ k - 1 < m
      BY <1>1, <2>5
    <3>2. \A j \in 1 .. n : j < m => ~frames[j].tx
      BY <1>1, <2>2, <2>5
    <3> QED
      BY <3>1, <3>2, Untransacted
  <2>7. Shape(first, frames, 1)
    <3>1. m - 1 \in Nat \ {0}
      BY <1>1, <2>5
    <3> QED
      BY <2>5, <2>6, <3>1, ShapeFirst
  <2>8. IsList(kept.scopes) /\ Len(kept.scopes) > 0
    <3>1. ASSUME NEW s, NEW j \in Nat \ {0}, Shape(s, frames, j) PROVE IsList(s.scopes) /\ Len(s.scopes) > 0
      <4>1. Formed(s)
        BY <3>1 DEF Shape
      <4>2. IsList(s.scopes)
        BY <4>1 DEF Formed
      <4> QED
        BY <3>1, <4>2, StackTops
    <3>2. CASE undoing = {}
      BY <1>1, <3>1, <3>2
    <3>3. CASE undoing # {}
      <4>1. PICK u : u = Min(undoing)
        OBVIOUS
      <4>2. u \in 1 .. n /\ frames[u].tx
        BY <1>1, <1>2, <3>3, <4>1, LeastIn
      <4>3. u \in 2 .. n /\ Shape(frames[u].before, frames, u - 1)
        BY <4>2, Snapshots
      <4>4. u - 1 \in Nat \ {0}
        BY <1>1, <4>3
      <4>5. kept = frames[u].before
        BY <3>3, <4>1
      <4> QED
        BY <3>1, <4>3, <4>4, <4>5
    <3> QED
      BY <3>2, <3>3
  <2>9. Len(first.scopes) = 1
    <3>1. FrameFits(frames, 1)
      BY <1>1 DEF SessionInv, Aligned
    <3>2. frames[1].kind = "top"
      BY <3>1 DEF FrameFits
    <3> QED
      BY <2>7, <3>2, LastQueue
  <2>10. PICK list : list = SubSeq(kept.scopes, 1, Len(first.scopes))
    OBVIOUS
  <2>11. IsList(list) /\ Len(list) = Len(first.scopes)
    <3>1. 1 \in 0 .. Len(kept.scopes)
      BY <2>8, ListFacts
    <3> HIDE DEF kept
    <3> QED
      BY <2>8, <2>9, <2>10, <3>1, ListPrefix
  <2>12. Shape([first EXCEPT !.scopes = list], frames, 1)
    BY <2>7, <2>11, SameScopes, ShapeSame
  <2>13. Unwound(st) = [first EXCEPT !.scopes = list]
    BY <1>4, <2>1, <2>4, <2>10, Zenon DEF Unwound
  <2> QED
    BY <2>12, <2>13
<1> QED
  BY <1>3, <1>4

\* A process whose failure is fatal stops the run.
LEMMA RunStops ==
  ASSUME SessionInv, frames # <<>>, NEW c, ExecuteProcessFatal(c)
  PROVE  SessionInv'
<1>1. PICK r, events : Halt(c, "execute_process", ProcessOutcome(c, r, events))
  BY Zenon DEF ExecuteProcessFatal
<1>2. PICK out : out = ProcessOutcome(c, r, events)
  OBVIOUS
<1>3. Same(now, out.st)
  BY <1>2, KeepsProcess DEF Keeps
<1>4. PICK st : st = Settle(now, out.st, FALSE, TRUE)
  OBVIOUS
<1>5. Same(now, st)
  <2>1. \A ok, preserve : Same(now, Settle(now, out.st, ok, preserve))
    BY <1>3, SameSettle
  <2> QED
    BY <1>4, <2>1, Zenon
<1>6. PICK u : u = Unwound(st)
  OBVIOUS
<1>7. Shape(u, frames, 1)
  BY <1>5, <1>6, UnwoundShape
<1>8. frames[1].kind = "top"
  <2>1. Len(frames) \in Nat \ {0}
    BY Innermost
  <2>2. FrameFits(frames, 1)
    BY <2>1 DEF SessionInv, Aligned
  <2> QED
    BY <2>2 DEF FrameFits
<1>9. now' = [u EXCEPT !.deferred = Front(u.deferred)] /\ frames' = <<>>
  BY <1>1, <1>2, <1>4, <1>6, Zenon DEF Halt
<1> QED
  BY <1>7, <1>8, <1>9, LastQueue DEF SessionInv

-----------------------------------------------------------------------------
(***************************************************************************)
(* The theorems.                                                           *)
(***************************************************************************)

\* The session starts with its root scope and the queue of its first file.
LEMMA InitAligned ==
  ASSUME Init
  PROVE  SessionInv
<1>1. now = InitialState
  BY DEF Init
<1>2. PICK f, body : frames = <<f>> /\ f = TopFrame(body)
  BY DEF Init
<1>3. /\ DOMAIN f = FrameFields /\ f.kind = "top" /\ f.tx = FALSE /\ f.dir = Root
  BY <1>2 DEF TopFrame, FrameFields
<1>4. PICK fr : fr = <<f>>
  OBVIOUS
<1>5. IsList(fr) /\ Len(fr) = 1 /\ fr[1] = f
  <2>1. fr \in Seq({f}) /\ Len(fr) = 1 /\ fr[1] = f
    BY <1>4
  <2> QED
    BY <2>1, ListIntro
<1>6. FrameFits(fr, 1)
  <2>1. DOMAIN Stages = {"find_package", "find_item", "fetch", "ctest_script"}
    BY DEF Stages
  <2>2. FrameOK(f)
    BY <1>3, <2>1 DEF FrameOK
  <2> QED
    BY <1>3, <1>5, <2>2 DEF FrameFits
<1>7. PICK st : st = now
  OBVIOUS
<1>8. Shape(st, fr, 1)
  <2>1. /\ {"scopes", "deferred", "finding", "making"} \subseteq DOMAIN st
        /\ st.finding = <<>> /\ st.making = <<>>
        /\ st.scopes = <<[CMAKE_CURRENT_SOURCE_DIR |-> Root]>> /\ st.deferred = <<[dir |-> Root, calls |-> <<>>]>>
    BY <1>1, <1>7 DEF InitialState
  <2>2. IsList(st.finding) /\ IsList(st.making) /\ Len(st.finding) = 0 /\ Len(st.making) = 0
    <3>1. <<>> \in Seq({}) /\ Len(<<>>) = 0
      OBVIOUS
    <3>2. PICK none : none = <<>>
      OBVIOUS
    <3>3. IsList(none) /\ Len(none) = 0
      BY <3>1, <3>2, ListIntro
    <3> QED
      BY <2>1, <3>2, <3>3
  <2>3. IsList(st.scopes) /\ Len(st.scopes) = 1
    <3>1. PICK x : st.scopes = <<x>>
      BY <2>1
    <3>2. st.scopes \in Seq({x}) /\ Len(st.scopes) = 1
      BY <3>1
    <3> QED
      BY <3>2, ListIntro
  <2>4. IsList(st.deferred) /\ Len(st.deferred) = 1 /\ st.deferred[1].dir = Root /\ "dir" \in DOMAIN st.deferred[1]
    <3>1. PICK x : st.deferred = <<x>> /\ x.dir = Root /\ "dir" \in DOMAIN x
      BY <2>1
    <3>2. st.deferred \in Seq({x}) /\ Len(st.deferred) = 1 /\ st.deferred[1] = x
      BY <3>1
    <3> QED
      BY <3>1, <3>2, ListIntro
  <2>5. DOMAIN st.deferred = 1 .. 1
    BY <2>4, ListFacts
  <2>6. Formed(st)
    BY <2>1, <2>2, <2>3, <2>4, <2>5 DEF Formed, Kept
  <2>7. Len(QueueDirs(st)) = 1 /\ QueueDirs(st)[1] = Root
    BY <2>4, <2>5, <2>6, QueueDirsList
  <2>8. ~HasScope(f) /\ HasQueue(f) /\ ~IsFinding(f) /\ ~IsMaking(f)
    BY <1>3 DEF HasScope, HasQueue, IsFinding, IsMaking, InNewProcess
  <2>9. /\ {k \in 1 .. 1 : HasScope(fr[k])} = {} /\ {k \in 1 .. 1 : HasQueue(fr[k])} = {1}
        /\ {k \in 1 .. 1 : IsFinding(fr[k])} = {} /\ {k \in 1 .. 1 : IsMaking(fr[k])} = {}
    BY <1>5, <2>8
  <2>10. Cardinality({}) = 0 /\ Cardinality({1}) = 1
    BY FS_EmptySet, FS_Singleton
  <2>11. InStep(QueueDirs(st), {1}, [k \in 1 .. 1 |-> fr[k].dir])
    <3>1. {j \in {1} : j <= 1} = {1}
      OBVIOUS
    <3>2. [k \in 1 .. 1 |-> fr[k].dir][1] = Root
      BY <1>3, <1>5
    <3> QED
      BY <2>7, <2>10, <3>1, <3>2 DEF InStep
  <2>12. \A list, of : Len(list) = 0 => InStep(list, {}, of)
    BY <2>10 DEF InStep
  <2>13. Len(st.scopes) = 1 + Cardinality({k \in 1 .. 1 : HasScope(fr[k])})
    <3>1. Len(st.scopes) = 1 + Cardinality({})
      BY <2>3, <2>10
    <3> QED
      BY <2>9, <3>1, Zenon
  <2>14. InStep(QueueDirs(st), {k \in 1 .. 1 : HasQueue(fr[k])}, [k \in 1 .. 1 |-> fr[k].dir])
    BY <2>9, <2>11, Zenon
  <2>15. InStep(st.finding, {k \in 1 .. 1 : IsFinding(fr[k])}, [k \in 1 .. 1 |-> fr[k].cmd.pkg])
    BY <2>2, <2>9, <2>12, Zenon
  <2>16. InStep(st.making, {k \in 1 .. 1 : IsMaking(fr[k])}, [k \in 1 .. 1 |-> Head(fr[k].todo.left)])
    BY <2>2, <2>9, <2>12, Zenon
  <2> QED
    BY <2>6, <2>13, <2>14, <2>15, <2>16, Zenon DEF Shape
<1>9. Aligned(st, fr)
  BY <1>5, <1>6, <1>8 DEF Aligned
<1> QED
  BY <1>2, <1>4, <1>7, <1>9 DEF SessionInv

\* Every command and every step keeps the session in step with the frames.
LEMMA StepAligned ==
  ASSUME SessionInv, [Next]_vars
  PROVE  SessionInv'
<1>1. ASSUME NEW c \in Coming,
             CoreCommand(c) \/ FileCommand(c) \/ DashboardCommand(c) \/ DependencyCommand(c) \/ ProcessCommand(c) \/ PropertyCommand(c)
      PROVE  SessionInv'
  <2>1. frames # <<>>
    BY DEF Coming
  <2>2. CASE CoreCommand(c)
    BY <2>1, <2>2, CoreLeaves, ScriptCommands DEF CoreCommand
  <2>3. CASE FileCommand(c)
    BY <2>1, <2>3, FileLeaves
  <2>4. CASE DashboardCommand(c)
    BY <2>1, <2>4, DashboardLeaves, StartingCommands DEF DashboardCommand
  <2>5. CASE DependencyCommand(c)
    BY <2>1, <2>5, DependencyLeaves, StartingCommands DEF DependencyCommand
  <2>6. CASE ProcessCommand(c)
    BY <2>1, <2>6, ProcessLeaves, RunStops DEF ProcessCommand
  <2>7. CASE PropertyCommand(c)
    BY <2>1, <2>7, PropertyLeaves
  <2> QED
    BY <1>1, <2>2, <2>3, <2>4, <2>5, <2>6, <2>7
<1>2. CASE CoreStep
  BY <1>2, FunctionEnds, PlainEnds, DirectoryEnds, FlushKeeps, RunningSteps, RunEnds DEF CoreStep
<1>3. CASE DashboardStep
  BY <1>3, ScriptBegins, ScriptEnds, PlainEnds, RunningSteps DEF DashboardStep
<1>4. CASE DependencyStep
  BY <1>4, RunningSteps, FindSteps, PlainEnds, DependencyEnds, BeginKeeps, FetchSteps DEF DependencyStep
<1>5. CASE Finished
  BY <1>5 DEF Finished, vars, SessionInv
<1>6. CASE UNCHANGED vars
  BY <1>6 DEF vars, SessionInv
<1> QED
  BY <1>1, <1>2, <1>3, <1>4, <1>5, <1>6 DEF Next

\* The inductive invariant holds of every run.
LEMMA AlwaysAligned == Spec => []SessionInv
<1>1. Init => SessionInv
  BY InitAligned
<1>2. SessionInv /\ [Next]_vars => SessionInv'
  BY StepAligned
<1> QED
  BY <1>1, <1>2, PTL DEF Spec

\* Every scope but the root's belongs to a function, a directory or a new
\* process under way, and the queues of deferred calls are those of the
\* directories under way, in order: whatever a script includes, calls, defers
\* and fails at, eval_command_tx_finish and the ends of the frames agree on
\* what there is to pop.
THEOREM StacksStayAligned == Spec => []StacksAligned
<1>1. SessionInv => StacksAligned
  <2> SUFFICES ASSUME SessionInv
               PROVE  StacksAligned
    OBVIOUS
  <2> DEFINE n == Len(frames)
  <2>1. DOMAIN frames = 1 .. n /\ Shape(now, frames, n)
    BY ListFacts DEF SessionInv, Aligned
  <2>2. /\ Len(now.scopes) = 1 + Cardinality({k \in 1 .. n : HasScope(frames[k])})
        /\ InStep(QueueDirs(now), {k \in 1 .. n : HasQueue(frames[k])}, [k \in 1 .. n |-> frames[k].dir])
    BY <2>1 DEF Shape
  <2> HIDE DEF n
  <2> QED
    BY <2>1, <2>2, Zenon DEF StacksAligned, QueueDirs
<1> QED
  BY <1>1, AlwaysAligned, PTL

\* The packages find_package() is running the files of, and the dependencies
\* FetchContent_MakeAvailable() is working on, are those of the commands under
\* way, in order, whichever way the commands inside ended.
THEOREM ActivesStayAligned == Spec => []ActivesAligned
<1>1. SessionInv => ActivesAligned
  <2> SUFFICES ASSUME SessionInv
               PROVE  ActivesAligned
    OBVIOUS
  <2> DEFINE n == Len(frames)
             active == {k \in 1 .. n : IsFinding(frames[k])}
             made   == {k \in 1 .. n : IsMaking(frames[k])}
  <2>1. DOMAIN frames = 1 .. n /\ Shape(now, frames, n)
    BY ListFacts DEF SessionInv, Aligned
  <2>2. /\ InStep(now.finding, active, [k \in 1 .. n |-> frames[k].cmd.pkg])
        /\ InStep(now.making, made, [k \in 1 .. n |-> Head(frames[k].todo.left)])
    BY <2>1 DEF Shape
  <2>3. InStep(now.finding, active, [k \in active |-> frames[k].cmd.pkg])
    BY <2>2 DEF InStep
  <2>4. InStep(now.making, made, [k \in made |-> Head(frames[k].todo.left)])
    BY <2>2 DEF InStep
  <2> HIDE DEF n
  <2> QED
    BY <2>1, <2>3, <2>4, Zenon DEF ActivesAligned
<1> QED
  BY <1>1, AlwaysAligned, PTL

=============================================================================
