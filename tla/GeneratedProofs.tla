--------------------------- MODULE GeneratedProofs ---------------------------
(***************************************************************************)
(* Proofs about the generated program: a target or a step is never entered *)
(* again before it is left, and two configurations never meet in one tree. *)
(*                                                                         *)
(* Both are about the order of the operations that are still to do, which  *)
(* is where the emitted functions put them; the lemmas in the first part   *)
(* say what each operator of the model puts there.                         *)
(***************************************************************************)
EXTENDS GeneratedProgram, NaturalsInduction, WellFoundedInduction, TLAPS

\* Operations that compile, run commands, or lead to them ...
Work == {"call", "guard", "compile", "command"}

\* ... those after which every stamp is the one of the configuration being
\* built, and those after which this is not known.
Settles == {"configure", "stamp"}

Breaks == {"config", "driver", "main"}

\* Operations that can come between clean_all and the stamp.
Prep == {"remove state", "remove", "cleaned", "replay"}

Elsewhere == {"prefix", "staging", "registry", "export", "report", "package"}

\* What an operation can do to the disk and to the operations after it.
OpOK(op) ==
    /\ op.do = "copy" => op.y[1] \in Elsewhere
    /\ op.do = "copy tree" => op.x[1] \in Elsewhere
    /\ op.do = "write" => op.x[1] \in Elsewhere
    /\ op.do = "pack" => op.y[1] \in Elsewhere
    /\ op.do = "remove" => \A p \in op.set : p[1] # "program"
    /\ op.do = "guard" => op.x \in DOMAIN Project.step
    /\ op.do = "driver" => op.y \in DOMAIN Project.driver
    /\ op.do = "main" => op.x \in Commands

\* A sequence of operations of the kinds K.
Ops(q, K) ==
    /\ Sequence(q)
    /\ \A i \in DOMAIN q : q[i].do \in K /\ OpOK(q[i])

\* The stamps on the disk are those of the configuration at hand.
Settled == \A p \in DOMAIN files : p[1] = "stamp" => p = Stamp(job.config)

\* Each operation of Work comes after one of Settles, or after none of
\* Breaks when the stamps are settled already.
Ready(q, settled) ==
    \A i \in DOMAIN q : q[i].do \in Work =>
      \/ \E j \in 1 .. (i - 1) :
           q[j].do \in Settles /\ \A k \in (j + 1) .. (i - 1) : q[k].do \notin Breaks
      \/ settled /\ \A k \in 1 .. (i - 1) : q[k].do \notin Breaks

\* Whether the stamps are settled once the operations of q are done.
Leaves(q, settled) ==
    \/ \E j \in DOMAIN q :
         q[j].do \in Settles /\ \A k \in (j + 1) .. Len(q) : q[k].do \notin Breaks
    \/ settled /\ \A k \in DOMAIN q : q[k].do \notin Breaks

\* The functions that are still to return are open, and each is there once.
Returning(q, open) ==
    /\ \A i \in DOMAIN q : q[i].do = "return" => q[i].x \in open
    /\ \A i, j \in DOMAIN q :
         i # j /\ q[i].do = "return" /\ q[j].do = "return" => q[i].x # q[j].x

StateFile(p) == p[1] \in {"stamp", "object"}

Removes(op, p) == op.do = "remove state" \/ (op.do = "remove" /\ p \in op.set)

Rewrites(op, p) ==
    /\ op.do = "replay"
    /\ Project.configure[op.y].op # "remove"
    /\ p = Output(Project.configure[op.y].path)

\* Before a configure action and before the stamp comes only what clean_all
\* and the configure actions do, and all objects and stamps are removed by
\* then; before the stamp, each guarded file is written again.
Cleaning(q) ==
    \A i \in DOMAIN q : q[i].do \in {"replay", "stamp"} =>
      /\ \A k \in 1 .. (i - 1) : q[k].do \in Prep
      /\ \A p \in DOMAIN files : StateFile(p) => \E k \in 1 .. (i - 1) : Removes(q[k], p)
      /\ q[i].do = "stamp" =>
           \A p \in Guarded \cap DOMAIN files :
             \/ files[p].text.config = job.config
             \/ \E k \in 1 .. (i - 1) : Rewrites(q[k], p)

\* Nothing of q needs a clean tree.
Free(q) == \A i \in DOMAIN q : q[i].do \notin {"replay", "stamp"}

\* The configure outputs are the same in all versions of a project.
ConfigureOutputs(project) ==
    LET actions == ToSet(project.configure)
    IN {Output(a.path) : a \in {b \in actions : b.op # "remove"}}
       \ {Output(a.path) : a \in {b \in actions : b.op = "remove"}}

SameOutputs ==
    \A p \in Plans : \A v, w \in DOMAIN p : ConfigureOutputs(p[v]) = ConfigureOutputs(p[w])

\* Files of which the stamp tells the configuration.
Vouched(p) == p[1] = "object" \/ (SameOutputs /\ p \in Guarded)

\* ConfigsApart, for any path.
Apart ==
    \A p \in DOMAIN files : p[1] = "stamp" =>
      \A q \in DOMAIN files :
        /\ q[1] = "stamp" => q = p
        /\ Vouched(q) => files[q].text.config = p[2]

JobShape ==
    /\ job = [running |-> job.running, cmd |-> job.cmd, arg |-> job.arg, config |-> job.config,
              todo |-> job.todo, open |-> job.open, done |-> job.done, made |-> job.made,
              failed |-> job.failed]
    /\ job.running \in BOOLEAN
    /\ ~job.running => job = Idle

PlanShape ==
    /\ plan \in Plans
    /\ binary \in 1 .. Len(plan)
    /\ Program \in DOMAIN files
    /\ files[Program].text.version \in 1 .. Len(plan)

Kinds(q) == {q[i].do : i \in DOMAIN q}

TodoOK ==
    /\ Ops(job.todo, Kinds(job.todo))
    /\ Returning(job.todo, job.open)
    /\ Ready(job.todo, Settled)
    /\ Cleaning(job.todo)

\* The inductive invariant.
ProgramInv == PlanShape /\ JobShape /\ TodoOK /\ Apart

-----------------------------------------------------------------------------
(***************************************************************************)
(* Sequences.                                                              *)
(***************************************************************************)

\* Induction up to n, from a least counterexample.
LEMMA UpTo ==
  ASSUME NEW n \in Nat, NEW S, 0 \in S, \A i \in 0 .. (n - 1) : i \in S => i + 1 \in S
  PROVE  \A i \in 0 .. n : i \in S
<1> DEFINE R == {ss \in Nat \X Nat : ss[1] < ss[2]}
           Bad == {i \in 0 .. n : i \notin S}
<1>1. IsWellFoundedOn(R, Nat)
  BY NatLessThanWellFounded DEF OpToRel
<1>2. ASSUME Bad # {} PROVE FALSE
  <2>1. Bad \subseteq Nat
    OBVIOUS
  <2>2. PICK x \in Bad : \A y \in Bad : ~(<<y, x>> \in R)
    BY <1>1, <1>2, <2>1, WFMin
  <2>3. x \in 1 .. n
    BY <2>2
  <2>4. x - 1 \in S
    <3>1. <<x - 1, x>> \in R
      BY <2>3
    <3>2. x - 1 \notin Bad
      BY <2>2, <3>1
    <3> QED
      BY <2>3, <3>2
  <2> QED
    BY <2>2, <2>3, <2>4
<1> QED
  BY <1>2

\* A member of Seq(S), for any S, is a sequence in the sense of the model.
LEMMA SequenceIntro ==
  ASSUME NEW S, NEW q \in Seq(S)
  PROVE  Sequence(q) /\ Len(q) \in Nat /\ DOMAIN q = 1 .. Len(q) /\ \A i \in 1 .. Len(q) : q[i] \in S
<1>1. Len(q) \in Nat /\ DOMAIN q = 1 .. Len(q) /\ \A i \in 1 .. Len(q) : q[i] \in S
  OBVIOUS
<1>2. q \in [1 .. Len(q) -> ToSet(q)]
  BY <1>1 DEF ToSet
<1> QED
  BY <1>1, <1>2 DEF Sequence

\* The length and the domain of a sequence.
LEMMA SequenceElim ==
  ASSUME NEW q, Sequence(q)
  PROVE  q \in Seq(ToSet(q)) /\ Len(q) \in Nat /\ DOMAIN q = 1 .. Len(q)
BY DEF Sequence

\* A function on an interval from one is a sequence.
LEMMA SequenceOf ==
  ASSUME NEW n \in Nat, NEW q, DOMAIN q = 1 .. n, q = [i \in 1 .. n |-> q[i]]
  PROVE  Sequence(q) /\ Len(q) = n
<1>1. q \in [1 .. n -> ToSet(q)]
  BY DEF ToSet
<1>2. q \in Seq(ToSet(q))
  BY <1>1
<1> QED
  BY <1>2 DEF Sequence

\* What a concatenation holds.
LEMMA Concat ==
  ASSUME NEW p, NEW q, Sequence(p), Sequence(q)
  PROVE  /\ Sequence(p \o q)
         /\ Len(p \o q) = Len(p) + Len(q)
         /\ \A i \in 1 .. Len(p) : (p \o q)[i] = p[i]
         /\ \A i \in (Len(p) + 1) .. (Len(p) + Len(q)) : (p \o q)[i] = q[i - Len(p)]
<1> DEFINE S == ToSet(p) \cup ToSet(q)
<1>1. p \in Seq(S) /\ q \in Seq(S)
  <2>1. p \in Seq(ToSet(p)) /\ q \in Seq(ToSet(q))
    BY DEF Sequence
  <2>2. ToSet(p) \subseteq S /\ ToSet(q) \subseteq S
    OBVIOUS
  <2> HIDE DEF S
  <2> QED
    BY <2>1, <2>2
<1>2. p \o q \in Seq(S)
  BY <1>1
<1>3. Sequence(p \o q)
  BY <1>2, SequenceIntro
<1> QED
  BY <1>1, <1>3

\* What is left of a sequence after its first member.
LEMMA TailOf ==
  ASSUME NEW q, Sequence(q), q # << >>
  PROVE  /\ Sequence(Tail(q))
         /\ Len(q) \in Nat \ {0}
         /\ Len(Tail(q)) = Len(q) - 1
         /\ Head(q) = q[1]
         /\ \A i \in 1 .. (Len(q) - 1) : Tail(q)[i] = q[i + 1]
<1>1. q \in Seq(ToSet(q)) /\ Len(q) \in Nat
  BY SequenceElim
<1>2. Tail(q) \in Seq(ToSet(q))
  BY <1>1
<1>3. Sequence(Tail(q))
  BY <1>2, SequenceIntro
<1> QED
  BY <1>1, <1>3


\* Keep returns a sequence of members of the sequence it is given.
LEMMA KeepSequence ==
  ASSUME NEW s, NEW P, Sequence(s)
  PROVE  Sequence(Keep(s, P)) /\ Keep(s, P) \in Seq(ToSet(s))
<1> DEFINE n == Len(s)
           Next1(v, i) == IF i \in P THEN Append(v, s[i]) ELSE v
           Is(f) == f = [i \in 0 .. n |-> IF i = 0 THEN << >>
                                          ELSE IF i \in P THEN Append(f[i - 1], s[i]) ELSE f[i - 1]]
           Part(f, m) == /\ f = [i \in 0 .. m |-> f[i]]
                         /\ f[0] = << >>
                         /\ \A i \in 1 .. m : f[i] = Next1(f[i - 1], i)
           E == {m \in Nat : \E f : Part(f, m)}
<1>1. n \in Nat /\ DOMAIN s = 1 .. n /\ s \in Seq(ToSet(s))
  BY SequenceElim
<1>2. 0 \in E
  <2> DEFINE g == [i \in 0 .. 0 |-> << >>]
  <2>1. Part(g, 0)
    OBVIOUS
  <2> HIDE DEF g, Part
  <2> QED
    BY <2>1
<1>3. ASSUME NEW m \in 0 .. (n - 1), m \in E
      PROVE  m + 1 \in E
  <2>1. PICK f : Part(f, m)
    BY <1>3
  <2> DEFINE g == [i \in 0 .. (m + 1) |-> IF i = m + 1 THEN Next1(f[m], m + 1) ELSE f[i]]
  <2>2. g = [i \in 0 .. (m + 1) |-> g[i]] /\ g[0] = << >>
    BY <1>1, <2>1
  <2>3. \A i \in 1 .. (m + 1) : g[i] = Next1(g[i - 1], i)
    <3> TAKE i \in 1 .. (m + 1)
    <3>1. CASE i = m + 1
      <4>1. g[i - 1] = f[m] /\ g[i] = Next1(f[m], m + 1)
        BY <1>1, <3>1
      <4> HIDE DEF g
      <4> QED
        BY <3>1, <4>1
    <3>2. CASE i # m + 1
      <4>1. i \in 1 .. m /\ g[i - 1] = f[i - 1] /\ g[i] = f[i]
        BY <1>1, <3>2
      <4> HIDE DEF g
      <4> QED
        BY <2>1, <4>1
    <3> QED
      BY <3>1, <3>2
  <2>4. Part(g, m + 1) /\ m + 1 \in Nat
    <3> HIDE DEF g
    <3> QED
      BY <1>1, <2>2, <2>3
  <2> HIDE DEF g, Part
  <2> QED
    BY <2>4
<1>4. n \in E
  <2> HIDE DEF E, n
  <2>1. \A i \in 0 .. (n - 1) : i \in E => i + 1 \in E
    BY <1>3
  <2>2. \A i \in 0 .. n : i \in E
    BY <1>1, <1>2, <2>1, UpTo
  <2> QED
    BY <1>1, <2>2
<1>5. \E f : Is(f)
  <2>1. PICK f : Part(f, n)
    BY <1>4
  <2>2. \A i \in 0 .. n :
          f[i] = IF i = 0 THEN << >> ELSE IF i \in P THEN Append(f[i - 1], s[i]) ELSE f[i - 1]
    BY <1>1, <2>1
  <2>3. f = [i \in 0 .. n |-> IF i = 0 THEN << >>
                              ELSE IF i \in P THEN Append(f[i - 1], s[i]) ELSE f[i - 1]]
    BY <2>1, <2>2
  <2> QED
    BY <2>3
<1> DEFINE kept == CHOOSE f : Is(f)
<1>6. Is(kept)
  BY <1>5
<1>7. Keep(s, P) = kept[n]
  BY DEF Keep
<1> HIDE DEF kept
<1> DEFINE M == {i \in 0 .. n : kept[i] \in Seq(ToSet(s))}
<1>8. 0 \in M
  BY <1>1, <1>6
<1>9. ASSUME NEW i \in 0 .. (n - 1), i \in M
      PROVE  i + 1 \in M
  <2>1. kept[i + 1] = IF i + 1 \in P THEN Append(kept[i], s[i + 1]) ELSE kept[i]
    <3>1. i + 1 \in 0 .. n /\ i + 1 # 0 /\ (i + 1) - 1 = i
      BY <1>1
    <3> HIDE DEF n
    <3> QED
      BY <1>6, <3>1
  <2>2. s[i + 1] \in ToSet(s) /\ kept[i] \in Seq(ToSet(s))
    BY <1>1, <1>9
  <2>3. kept[i + 1] \in Seq(ToSet(s))
    BY <2>1, <2>2
  <2> QED
    BY <1>1, <2>3
<1>10. n \in M
  <2> HIDE DEF M, n
  <2>1. \A i \in 0 .. (n - 1) : i \in M => i + 1 \in M
    BY <1>9
  <2>2. \A i \in 0 .. n : i \in M
    BY <1>1, <1>8, <2>1, UpTo
  <2> QED
    BY <1>1, <2>2
<1> QED
  BY <1>7, <1>10, SequenceIntro


\* FlattenSeq returns a sequence of members of the sequences it is given.
LEMMA FlattenSequence ==
  ASSUME NEW U, NEW s, Sequence(s), \A i \in DOMAIN s : s[i] \in Seq(U)
  PROVE  FlattenSeq(s) \in Seq(U)
<1> DEFINE n == Len(s)
           Next1(f, i) == IF i = 1 THEN s[i] ELSE f[i - 1] \o s[i]
           Is(f) == f = [i \in 1 .. n |-> IF i = 1 THEN s[i] ELSE f[i - 1] \o s[i]]
           Part(f, m) == /\ f = [i \in 1 .. m |-> f[i]]
                         /\ \A i \in 1 .. m : f[i] = Next1(f, i)
           E == {m \in Nat : \E f : Part(f, m)}
<1>1. n \in Nat /\ DOMAIN s = 1 .. n
  BY SequenceElim
<1>2. 0 \in E
  <2> DEFINE g == [i \in 1 .. 0 |-> << >>]
  <2>1. Part(g, 0)
    OBVIOUS
  <2> HIDE DEF g, Part
  <2> QED
    BY <2>1
<1>3. ASSUME NEW m \in 0 .. (n - 1), m \in E
      PROVE  m + 1 \in E
  <2>1. PICK f : Part(f, m)
    BY <1>3
  <2> DEFINE last == IF m = 0 THEN s[1] ELSE f[m] \o s[m + 1]
             g == [i \in 1 .. (m + 1) |-> IF i = m + 1 THEN last ELSE f[i]]
  <2>2. g = [i \in 1 .. (m + 1) |-> g[i]]
    BY <1>1
  <2>3. \A i \in 1 .. (m + 1) : g[i] = Next1(g, i)
    <3> TAKE i \in 1 .. (m + 1)
    <3>1. CASE i = m + 1
      <4>1. g[i] = last
        BY <3>1
      <4>2. m # 0 => g[i - 1] = f[m]
        BY <1>1, <3>1
      <4>3. i = 1 <=> m = 0
        BY <1>1, <3>1
      <4> HIDE DEF g
      <4>4. CASE m = 0
        BY <3>1, <4>1, <4>3, <4>4
      <4>5. CASE m # 0
        BY <3>1, <4>1, <4>2, <4>3, <4>5
      <4> QED
        BY <4>4, <4>5
    <3>2. CASE i # m + 1
      <4>1. i \in 1 .. m /\ g[i] = f[i]
        BY <1>1, <3>2
      <4>2. i # 1 => g[i - 1] = f[i - 1]
        BY <1>1, <3>2
      <4> HIDE DEF g
      <4> QED
        BY <2>1, <4>1, <4>2
    <3> QED
      BY <3>1, <3>2
  <2>4. m + 1 \in Nat
    BY <1>1
  <2>5. Part(g, m + 1)
    <3> HIDE DEF g, Next1
    <3> QED
      BY <2>2, <2>3, Zenon
  <2> HIDE DEF g, Part
  <2> QED
    BY <2>4, <2>5
<1>4. n \in E
  <2> HIDE DEF E, n
  <2>1. \A i \in 0 .. (n - 1) : i \in E => i + 1 \in E
    BY <1>3
  <2>2. \A i \in 0 .. n : i \in E
    BY <1>1, <1>2, <2>1, UpTo
  <2> QED
    BY <1>1, <2>2
<1>5. \E f : Is(f)
  <2>1. PICK f : Part(f, n)
    BY <1>4
  <2>2. f = [i \in 1 .. n |-> IF i = 1 THEN s[i] ELSE f[i - 1] \o s[i]]
    BY <2>1
  <2> QED
    BY <2>2
<1> DEFINE flat == CHOOSE f : Is(f)
<1>6. Is(flat)
  BY <1>5
<1>7. FlattenSeq(s) = IF n = 0 THEN s ELSE flat[n]
  BY DEF FlattenSeq
<1> HIDE DEF flat
<1> DEFINE M == {i \in 0 .. n : i = 0 \/ flat[i] \in Seq(U)}
<1>8. 0 \in M
  BY <1>1
<1>9. ASSUME NEW i \in 0 .. (n - 1), i \in M
      PROVE  i + 1 \in M
  <2>1. flat[i + 1] = IF i = 0 THEN s[i + 1] ELSE flat[i] \o s[i + 1]
    <3>1. i + 1 \in 1 .. n /\ (i + 1) - 1 = i /\ (i + 1 = 1 <=> i = 0)
      BY <1>1
    <3> HIDE DEF n
    <3> QED
      BY <1>6, <3>1
  <2>2. s[i + 1] \in Seq(U) /\ (i # 0 => flat[i] \in Seq(U))
    BY <1>1, <1>9
  <2>3. flat[i + 1] \in Seq(U)
    BY <2>1, <2>2
  <2> QED
    BY <1>1, <2>3
<1>10. n \in M
  <2> HIDE DEF M, n
  <2>1. \A i \in 0 .. (n - 1) : i \in M => i + 1 \in M
    BY <1>9
  <2>2. \A i \in 0 .. n : i \in M
    BY <1>1, <1>8, <2>1, UpTo
  <2> QED
    BY <1>1, <2>2
<1>11. n = 0 => s \in Seq(U)
  BY <1>1 DEF Sequence
<1> QED
  BY <1>7, <1>10, <1>11

\* The members of a concatenation.
LEMMA OpsConcat ==
  ASSUME NEW K, NEW p, NEW q, Ops(p, K), Ops(q, K)
  PROVE  Ops(p \o q, K)
<1>1. Sequence(p) /\ Sequence(q)
  BY DEF Ops
<1>2. /\ Sequence(p \o q) /\ Len(p \o q) = Len(p) + Len(q)
      /\ \A i \in 1 .. Len(p) : (p \o q)[i] = p[i]
      /\ \A i \in (Len(p) + 1) .. (Len(p) + Len(q)) : (p \o q)[i] = q[i - Len(p)]
  BY <1>1, Concat
<1>3. /\ Len(p) \in Nat /\ DOMAIN p = 1 .. Len(p) /\ Len(q) \in Nat /\ DOMAIN q = 1 .. Len(q)
      /\ DOMAIN (p \o q) = 1 .. Len(p \o q)
  BY <1>1, <1>2, SequenceElim
<1>4. ASSUME NEW i \in DOMAIN (p \o q)
      PROVE  (p \o q)[i].do \in K /\ OpOK((p \o q)[i])
  <2>1. CASE i <= Len(p)
    BY <1>2, <1>3, <2>1 DEF Ops
  <2>2. CASE i > Len(p)
    <3>1. (p \o q)[i] = q[i - Len(p)] /\ i - Len(p) \in DOMAIN q
      BY <1>2, <1>3, <2>2
    <3> QED
      BY <3>1 DEF Ops
  <2> QED
    BY <1>3, <2>1, <2>2
<1> QED
  BY <1>2, <1>4 DEF Ops

\* The members of a flattened sequence.
LEMMA OpsFlatten ==
  ASSUME NEW K, NEW s, Sequence(s), \A i \in DOMAIN s : Ops(s[i], K)
  PROVE  Ops(FlattenSeq(s), K)
<1> DEFINE U == UNION {ToSet(s[i]) : i \in DOMAIN s}
<1>1. \A x \in U : x.do \in K /\ OpOK(x)
  BY DEF Ops, ToSet
<1>2. \A i \in DOMAIN s : s[i] \in Seq(U)
  <2> TAKE i \in DOMAIN s
  <2>1. s[i] \in Seq(ToSet(s[i])) /\ ToSet(s[i]) \subseteq U
    BY DEF Ops, Sequence
  <2> HIDE DEF U
  <2> QED
    BY <2>1
<1> HIDE DEF U
<1>3. FlattenSeq(s) \in Seq(U)
  BY <1>2, FlattenSequence
<1>4. Sequence(FlattenSeq(s)) /\ \A i \in DOMAIN FlattenSeq(s) : FlattenSeq(s)[i] \in U
  BY <1>3, SequenceIntro
<1> QED
  BY <1>1, <1>4 DEF Ops

\* A function on the positions of a sequence that returns operations.
LEMMA OpsMap ==
  ASSUME NEW K, NEW n \in Nat, NEW q, q = [i \in 1 .. n |-> q[i]],
         \A i \in 1 .. n : q[i].do \in K /\ OpOK(q[i])
  PROVE  Ops(q, K)
<1>1. DOMAIN q = 1 .. n
  OBVIOUS
<1>2. Sequence(q)
  BY <1>1, SequenceOf
<1> QED
  BY <1>1, <1>2 DEF Ops

\* More kinds.
LEMMA OpsMore ==
  ASSUME NEW K, NEW L, NEW q, Ops(q, K), K \subseteq L
  PROVE  Ops(q, L)
BY DEF Ops

\* No operation, and one.
LEMMA OpsEmpty ==
  ASSUME NEW K
  PROVE  Ops(<< >>, K)
BY DEF Ops, Sequence, ToSet

\* One operation.
LEMMA OpsOne ==
  ASSUME NEW K, NEW op, op.do \in K, OpOK(op)
  PROVE  Ops(<<op>>, K)
<1>1. <<op>> \in Seq({op})
  OBVIOUS
<1>2. Sequence(<<op>>)
  BY <1>1, SequenceIntro
<1> QED
  BY <1>2 DEF Ops


\* Two operations, and three.
LEMMA OpsTwo ==
  ASSUME NEW K, NEW a, NEW b, a.do \in K, OpOK(a), b.do \in K, OpOK(b)
  PROVE  Ops(<<a, b>>, K)
<1>1. <<a, b>> \in Seq({a, b}) /\ DOMAIN <<a, b>> = 1 .. 2
  OBVIOUS
<1>2. Sequence(<<a, b>>)
  BY <1>1, SequenceIntro
<1> QED
  BY <1>1, <1>2 DEF Ops

\* Three operations.
LEMMA OpsThree ==
  ASSUME NEW K, NEW a, NEW b, NEW c, a.do \in K, OpOK(a), b.do \in K, OpOK(b), c.do \in K, OpOK(c)
  PROVE  Ops(<<a, b, c>>, K)
<1>1. <<a, b, c>> \in Seq({a, b, c}) /\ DOMAIN <<a, b, c>> = 1 .. 3
  OBVIOUS
<1>2. Sequence(<<a, b, c>>)
  BY <1>1, SequenceIntro
<1> QED
  BY <1>1, <1>2 DEF Ops

\* The first member of a path tells the kinds of files apart.
LEMMA PathKinds ==
  /\ Program[1] = "program"
  /\ \A a : Source(a)[1] = "source" /\ Output(a)[1] = "output" /\ Stamp(a)[1] = "stamp"
  /\ \A a, b : Object(a, b)[1] = "object" /\ Artifact(a, b)[1] = "artifact"
  /\ \A a : Stamp(a)[2] = a
  /\ \A a : Metadata(a)[1] = "metadata"
BY DEF Program, Source, Output, Stamp, Object, Artifact, Metadata

-----------------------------------------------------------------------------
(***************************************************************************)
(* What the functions of the program put in front.                         *)
(***************************************************************************)
BodyKinds == {"call", "compile", "archive", "link", "require", "guard"}

StepKinds == {"command", "verify"}

InstallKinds == {"call", "copy", "copy tree", "write"}

PackageKinds == InstallKinds \cup {"unstage", "remove", "pack", "metadata", "refuse"}

TestKinds == {"refuse", "test", "sum up", "write"}

\* One call for each name.
LEMMA CallsOps ==
  ASSUME NEW names, Sequence(names), NEW K, "call" \in K
  PROVE  Ops(Calls(names), K)
<1>1. Len(names) \in Nat /\ DOMAIN names = 1 .. Len(names)
  BY SequenceElim
<1>2. Calls(names) = [i \in 1 .. Len(names) |-> Calls(names)[i]]
  BY <1>1 DEF Calls
<1>3. \A i \in 1 .. Len(names) : Calls(names)[i].do \in K /\ OpOK(Calls(names)[i])
  BY <1>1 DEF Calls, Op, OpOK
<1> QED
  BY <1>1, <1>2, <1>3, OpsMap

\* Calling a target puts calls, compilations, a link or an archive in front.
LEMMA TargetBodyOps ==
  ASSUME NEW t, GoodTarget(Project.target[t])
  PROVE  Ops(TargetBody(t), BodyKinds)
<1> DEFINE d == Project.target[t]
<1>1. /\ Ops(Calls(d.explicit), BodyKinds) /\ Ops(Calls(d.custom), BodyKinds)
      /\ Ops(Calls(d.pre_build), BodyKinds) /\ Ops(Calls(d.generated), BodyKinds)
      /\ Ops(Calls(d.link), BodyKinds) /\ Ops(Calls(d.pre_link), BodyKinds)
      /\ Ops(Calls(d.post_build), BodyKinds)
  <2>1. "call" \in BodyKinds
    BY DEF BodyKinds
  <2> QED
    BY <2>1, CallsOps DEF GoodTarget
<1>2. Ops(CompileOps(t), BodyKinds)
  <2>1. Len(d.sources) \in Nat /\ DOMAIN d.sources = 1 .. Len(d.sources)
    BY SequenceElim DEF GoodTarget
  <2>2. CompileOps(t) = [i \in 1 .. Len(d.sources) |-> CompileOps(t)[i]]
    BY <2>1 DEF CompileOps
  <2>3. \A i \in 1 .. Len(d.sources) : CompileOps(t)[i].do \in BodyKinds /\ OpOK(CompileOps(t)[i])
    BY <2>1 DEF CompileOps, Op, OpOK, BodyKinds
  <2> QED
    BY <2>1, <2>2, <2>3, OpsMap
<1>3. Ops(JoinOps(t), BodyKinds)
  <2>1. CASE d.kind = "static"
    <3>1. Op("archive", t, "").do \in BodyKinds /\ OpOK(Op("archive", t, ""))
      BY DEF Op, OpOK, BodyKinds
    <3> QED
      BY <2>1, <3>1, OpsOne DEF JoinOps
  <2>2. CASE d.kind # "static"
    <3> DEFINE a == Op("link", t, "")
               b == SetOp("require", {Artifact(t, job.config)})
    <3>1. a.do \in BodyKinds /\ OpOK(a) /\ b.do \in BodyKinds /\ OpOK(b)
      BY DEF Op, SetOp, OpOK, BodyKinds
    <3>2. JoinOps(t) = <<a, b>>
      BY <2>2 DEF JoinOps
    <3> HIDE DEF a, b
    <3> QED
      BY <3>1, <3>2, OpsTwo
  <2> QED
    BY <2>1, <2>2
<1> DEFINE full == Calls(d.explicit) \o Calls(d.pre_build) \o Calls(d.generated)
                     \o CompileOps(t)
                     \o Calls(d.link) \o Calls(d.pre_link) \o JoinOps(t)
                     \o Calls(d.post_build)
<1>4. Ops(full, BodyKinds)
  BY <1>1, <1>2, <1>3, OpsConcat
<1>5. Ops(Calls(d.explicit) \o Calls(d.custom), BodyKinds)
  BY <1>1, OpsConcat
<1>6. TargetBody(t) \in {Calls(d.explicit), Calls(d.explicit) \o Calls(d.custom), full}
  BY DEF TargetBody
<1> QED
  BY <1>1, <1>4, <1>5, <1>6

\* Calling a step puts calls and its guard in front ...
LEMMA StepBodyOps ==
  ASSUME NEW s \in DOMAIN Project.step, GoodStep(Project.step[s])
  PROVE  Ops(StepBody(s), BodyKinds)
<1> DEFINE d == Project.step[s]
           g == Op("guard", s, "")
<1>1. Ops(Calls(d.targets), BodyKinds) /\ Ops(Calls(d.producers), BodyKinds)
  <2>1. "call" \in BodyKinds
    BY DEF BodyKinds
  <2> QED
    BY <2>1, CallsOps DEF GoodStep
<1>2. g.do \in BodyKinds /\ OpOK(g)
  BY DEF Op, OpOK, BodyKinds
<1>3. StepBody(s) = (Calls(d.targets) \o Calls(d.producers)) \o <<g>>
  BY DEF StepBody
<1> HIDE DEF g
<1>4. Ops(<<g>>, BodyKinds)
  BY <1>2, OpsOne
<1> QED
  BY <1>1, <1>3, <1>4, OpsConcat

\* ... and the guard its commands and the check of what they made.
LEMMA CommandOpsOps ==
  ASSUME NEW s, GoodStep(Project.step[s])
  PROVE  Ops(CommandOps(s), StepKinds)
<1> DEFINE n == Len(Project.step[s].writes)
           q == [k \in 1 .. n |-> Op("command", s, k)]
           v == [SetOp("verify", Outputs(s)) EXCEPT !.x = s]
<1>1. n \in Nat
  BY SequenceElim DEF GoodStep
<1>2. Ops(q, StepKinds)
  <2>1. q = [k \in 1 .. n |-> q[k]]
    OBVIOUS
  <2>2. \A k \in 1 .. n : q[k].do \in StepKinds /\ OpOK(q[k])
    BY DEF Op, OpOK, StepKinds
  <2> HIDE DEF q, n
  <2> QED
    BY <1>1, <2>1, <2>2, OpsMap
<1>3. v.do \in StepKinds /\ OpOK(v)
  BY DEF SetOp, OpOK, StepKinds
<1>4. CommandOps(s) = q \o <<v>>
  BY DEF CommandOps
<1> HIDE DEF q, v
<1>5. Ops(<<v>>, StepKinds)
  BY <1>3, OpsOne
<1> QED
  BY <1>2, <1>4, <1>5, OpsConcat


\* Copies of the items of a rule.
LEMMA CopyOpsOps ==
  ASSUME NEW prefix, prefix[1] \in Elsewhere, NEW items, Sequence(items)
  PROVE  Ops(CopyOps(prefix, items), InstallKinds)
<1>1. Len(items) \in Nat /\ DOMAIN items = 1 .. Len(items)
  BY SequenceElim
<1> DEFINE q == CopyOps(prefix, items)
<1>2. q = [i \in 1 .. Len(items) |-> q[i]]
  BY <1>1 DEF CopyOps
<1>3. \A i \in 1 .. Len(items) : q[i].do \in InstallKinds /\ OpOK(q[i])
  BY <1>1 DEF CopyOps, Op, OpOK, InstallKinds, Destination
<1>4. Ops(q, InstallKinds)
  <2> HIDE DEF q
  <2> QED
    BY <1>1, <1>2, <1>3, OpsMap
<1> QED
  BY <1>4

\* install_all builds, copies and writes, and only below its prefix.
LEMMA RuleOpsOps ==
  ASSUME NEW prefix, prefix[1] \in Elsewhere, NEW component, NEW r, GoodRule(r)
  PROVE  Ops(RuleOps(prefix, component, r), InstallKinds)
<1>1. Ops(<< >>, InstallKinds) /\ Ops(CopyOps(prefix, r.items), InstallKinds)
  BY OpsEmpty, CopyOpsOps DEF GoodRule
<1>2. CASE r.kind = "target"
  <2> DEFINE a == Op("call", r.target, "")
             b == Op("copy", Artifact(r.target, job.config), Destination(prefix, r.target))
  <2>1. a.do \in InstallKinds /\ OpOK(a) /\ b.do \in InstallKinds /\ OpOK(b)
    BY DEF Op, OpOK, InstallKinds, Destination
  <2>2. \E p, q \in {<< >>, <<a, b>>, CopyOps(prefix, r.items)} :
          RuleOps(prefix, component, r) = p \o q
    BY <1>2 DEF RuleOps, TargetRuleOps
  <2> HIDE DEF a, b
  <2>3. Ops(<<a, b>>, InstallKinds)
    BY <2>1, OpsTwo
  <2> QED
    BY <1>1, <2>2, <2>3, OpsConcat
<1>3. CASE r.kind = "file"
  <2>1. RuleOps(prefix, component, r) \in {<< >>, CopyOps(prefix, r.items)}
    BY <1>3 DEF RuleOps, FileRuleOps
  <2> QED
    BY <1>1, <2>1
<1>4. CASE r.kind = "directory"
  <2> DEFINE a == [Op("copy tree", prefix, "") EXCEPT !.set = {Source(f) : f \in ToSet(r.items)}]
  <2>1. a.do \in InstallKinds /\ OpOK(a)
    BY DEF Op, OpOK, InstallKinds
  <2>2. RuleOps(prefix, component, r) \in {<< >>, <<a>>}
    BY <1>4 DEF RuleOps, DirectoryRuleOps
  <2> HIDE DEF a
  <2> QED
    BY <1>1, <2>1, <2>2, OpsOne
<1>5. r.kind \in {"target", "file", "directory"}
  BY DEF GoodRule
<1> QED
  BY <1>2, <1>3, <1>4, <1>5

\* The files of an export that is installed.
LEMMA InstallExportOpsOps ==
  ASSUME NEW prefix, prefix[1] \in Elsewhere, NEW component, NEW e
  PROVE  Ops(InstallExportOps(prefix, component, e), InstallKinds)
<1> DEFINE a == Op("write", Destination(prefix, e.name), "")
           b == Op("write", Destination(prefix, e.name \o "-noconfig"), "")
<1>1. a.do \in InstallKinds /\ OpOK(a) /\ b.do \in InstallKinds /\ OpOK(b)
  BY DEF Op, OpOK, InstallKinds, Destination
<1>2. \/ InstallExportOps(prefix, component, e) = << >>
      \/ InstallExportOps(prefix, component, e) = <<a>> \o <<b>>
      \/ InstallExportOps(prefix, component, e) = <<a>> \o << >>
  BY DEF InstallExportOps
<1> HIDE DEF a, b
<1>3. Ops(<<a>>, InstallKinds) /\ Ops(<<b>>, InstallKinds) /\ Ops(<< >>, InstallKinds)
  BY <1>1, OpsOne, OpsEmpty
<1> QED
  BY <1>2, <1>3, OpsConcat

\* install_all.
LEMMA InstallOpsOps ==
  ASSUME GoodProject(Project), NEW prefix, prefix[1] \in Elsewhere, NEW component
  PROVE  Ops(InstallOps(prefix, component), InstallKinds)
<1> DEFINE rules == [i \in DOMAIN Project.install |-> RuleOps(prefix, component, Project.install[i])]
           others == [i \in DOMAIN Project.exports |->
                        InstallExportOps(prefix, component, Project.exports[i])]
<1>1. /\ Len(Project.install) \in Nat /\ DOMAIN Project.install = 1 .. Len(Project.install)
      /\ Len(Project.exports) \in Nat /\ DOMAIN Project.exports = 1 .. Len(Project.exports)
  BY SequenceElim DEF GoodProject
<1>2. Sequence(rules) /\ DOMAIN rules = DOMAIN Project.install
  <2>1. DOMAIN rules = 1 .. Len(Project.install) /\ rules = [i \in 1 .. Len(Project.install) |-> rules[i]]
    BY <1>1
  <2> HIDE DEF rules
  <2> QED
    BY <1>1, <2>1, SequenceOf
<1>3. Sequence(others) /\ DOMAIN others = DOMAIN Project.exports
  <2>1. DOMAIN others = 1 .. Len(Project.exports) /\ others = [i \in 1 .. Len(Project.exports) |-> others[i]]
    BY <1>1
  <2> HIDE DEF others
  <2> QED
    BY <1>1, <2>1, SequenceOf
<1>4. \A i \in DOMAIN rules : Ops(rules[i], InstallKinds)
  BY <1>2, RuleOpsOps DEF GoodProject
<1>5. \A i \in DOMAIN others : Ops(others[i], InstallKinds)
  BY <1>3, InstallExportOpsOps
<1>6. InstallOps(prefix, component) = FlattenSeq(rules) \o FlattenSeq(others)
  BY DEF InstallOps
<1> HIDE DEF rules, others
<1>7. Ops(FlattenSeq(rules), InstallKinds) /\ Ops(FlattenSeq(others), InstallKinds)
  BY <1>2, <1>3, <1>4, <1>5, OpsFlatten
<1> QED
  BY <1>6, <1>7, OpsConcat

\* export_all writes export files and registry entries.
LEMMA ExportOpsOps ==
  ASSUME GoodProject(Project)
  PROVE  Ops(ExportOps, {"write"})
<1> DEFINE one(e) == CASE e.kind = "tree"     -> <<Op("write", <<"export", e.name, "">>, "")>>
                       [] e.kind = "registry" -> RegistryOps(e)
                       [] e.kind = "install"  -> << >>
           q == [i \in DOMAIN Project.exports |-> one(Project.exports[i])]
<1>1. Len(Project.exports) \in Nat /\ DOMAIN Project.exports = 1 .. Len(Project.exports)
  BY SequenceElim DEF GoodProject
<1>2. ASSUME NEW e, e.kind \in {"tree", "registry", "install"}
      PROVE  Ops(one(e), {"write"})
  <2> DEFINE a == Op("write", <<"export", e.name, "">>, "")
             b == Op("write", <<"registry", e.name, "">>, "")
  <2>1. a.do \in {"write"} /\ OpOK(a) /\ b.do \in {"write"} /\ OpOK(b)
    BY DEF Op, OpOK, Elsewhere
  <2>2. one(e) \in {<<a>>, <<b>>, << >>}
    BY <1>2 DEF RegistryOps
  <2> HIDE DEF a, b, one
  <2> QED
    BY <2>1, <2>2, OpsOne, OpsEmpty
<1>3. \A i \in DOMAIN Project.exports : Ops(one(Project.exports[i]), {"write"})
  <2> HIDE DEF one
  <2> QED
    BY <1>2 DEF GoodProject
<1>4. ExportOps = FlattenSeq(q)
  BY DEF ExportOps
<1>5. Sequence(q) /\ \A i \in DOMAIN q : Ops(q[i], {"write"})
  <2> HIDE DEF one
  <2>1. DOMAIN q = 1 .. Len(Project.exports) /\ q = [i \in 1 .. Len(Project.exports) |-> q[i]]
    BY <1>1
  <2>2. \A i \in DOMAIN q : Ops(q[i], {"write"})
    BY <1>3
  <2> HIDE DEF q
  <2> QED
    BY <1>1, <2>1, <2>2, SequenceOf
<1> HIDE DEF q
<1> QED
  BY <1>4, <1>5, OpsFlatten


\* A function on the positions of a sequence is a sequence.
LEMMA SequenceMap ==
  ASSUME NEW s, Sequence(s), NEW q, q = [i \in DOMAIN s |-> q[i]]
  PROVE  Sequence(q) /\ DOMAIN q = DOMAIN s
<1>1. Len(s) \in Nat /\ DOMAIN s = 1 .. Len(s)
  BY SequenceElim
<1>2. DOMAIN q = 1 .. Len(s) /\ q = [i \in 1 .. Len(s) |-> q[i]]
  BY <1>1
<1> QED
  BY <1>1, <1>2, SequenceOf

\* The components of a package are a sequence.
LEMMA ComponentsSequence ==
  ASSUME GoodProject(Project), NEW k, GoodPackage(k)
  PROVE  Sequence(Components(k))
<1>1. ASSUME NEW names, Sequence(names) PROVE Sequence(Unique(names))
  BY <1>1, KeepSequence DEF Unique
<1> DEFINE U == UNION {{Named(Project.install[i].component), Project.install[i].header_component} :
                         i \in DOMAIN Project.install}
           q == [i \in DOMAIN Project.install |->
                  LET r == Project.install[i]
                  IN <<Named(r.component)>>
                     \o (IF r.header_component = "" THEN << >> ELSE <<r.header_component>>)]
<1>2. Sequence(q)
  <2>1. Sequence(Project.install)
    BY DEF GoodProject
  <2>2. q = [i \in DOMAIN Project.install |-> q[i]]
    OBVIOUS
  <2> HIDE DEF q
  <2> QED
    BY <2>1, <2>2, SequenceMap
<1>3. \A i \in DOMAIN q : q[i] \in Seq(U)
  <2> TAKE i \in DOMAIN q
  <2> DEFINE a == Named(Project.install[i].component)
             b == Project.install[i].header_component
  <2>1. a \in U /\ b \in U
    OBVIOUS
  <2>2. q[i] \in {<<a>> \o << >>, <<a>> \o <<b>>}
    OBVIOUS
  <2> HIDE DEF a, b, U, q
  <2>3. <<a>> \in Seq(U) /\ <<b>> \in Seq(U) /\ << >> \in Seq(U)
    BY <2>1
  <2>4. <<a>> \o << >> \in Seq(U) /\ <<a>> \o <<b>> \in Seq(U)
    BY <2>3
  <2> QED
    BY <2>2, <2>4
<1>4. Sequence(FlattenSeq(q))
  <2> HIDE DEF q, U
  <2>1. FlattenSeq(q) \in Seq(U)
    BY <1>2, <1>3, FlattenSequence
  <2> QED
    BY <2>1, SequenceIntro
<1>5. Components(k) \in {Unique(k.components), Unique(Project.components), Unique(FlattenSeq(q))}
  BY DEF Components
<1> HIDE DEF q
<1>6. Sequence(k.components) /\ Sequence(Project.components)
  BY DEF GoodPackage, GoodProject
<1>7. /\ Sequence(Unique(k.components)) /\ Sequence(Unique(Project.components))
      /\ Sequence(Unique(FlattenSeq(q)))
  BY <1>1, <1>4, <1>6
<1> QED
  BY <1>5, <1>7

\* The archive units of a package are a sequence, with sequences of
\* components.
LEMMA UnitsSequence ==
  ASSUME GoodProject(Project), NEW k, GoodPackage(k)
  PROVE  Sequence(Units(k)) /\ \A j \in DOMAIN Units(k) : Sequence(Units(k)[j].components)
<1> DEFINE all == Components(k)
           names == [i \in DOMAIN all |-> UnitKey(k, all[i])]
           keys == Unique(names)
           part(i) == Keep(all, {j \in DOMAIN all : UnitKey(k, all[j]) = keys[i]})
           whole == [name |-> "", components |-> << >>]
           q == [i \in DOMAIN keys |-> [name |-> keys[i], components |-> part(i)]]
<1>1. Sequence(all)
  BY ComponentsSequence
<1>2. Sequence(names)
  <2>1. names = [i \in DOMAIN all |-> names[i]]
    OBVIOUS
  <2> HIDE DEF names, all
  <2> QED
    BY <1>1, <2>1, SequenceMap
<1>3. Sequence(keys)
  <2> HIDE DEF names
  <2> QED
    BY <1>2, KeepSequence DEF Unique
<1>4. \A i : Sequence(part(i))
  <2> HIDE DEF all, keys
  <2> QED
    BY <1>1, KeepSequence
<1>5. Units(k) = IF ~k.by_component \/ all = << >> THEN <<whole>> ELSE q
  BY DEF Units
<1> HIDE DEF all, keys, part
<1>6. Sequence(q) /\ \A i \in DOMAIN q : Sequence(q[i].components)
  <2>1. q = [i \in DOMAIN keys |-> q[i]]
    OBVIOUS
  <2>2. \A i \in DOMAIN q : Sequence(q[i].components)
    BY <1>4
  <2> HIDE DEF q
  <2> QED
    BY <1>3, <2>1, <2>2, SequenceMap
<1>7. Sequence(<<whole>>) /\ \A j \in DOMAIN <<whole>> : Sequence(<<whole>>[j].components)
  <2>1. Sequence(<< >>)
    BY DEF Sequence
  <2>2. Sequence(whole.components)
    BY <2>1
  <2> HIDE DEF whole
  <2>3. <<whole>> \in Seq({whole}) /\ \A j \in DOMAIN <<whole>> : <<whole>>[j] = whole
    OBVIOUS
  <2>4. Sequence(<<whole>>)
    BY <2>3, SequenceIntro
  <2> QED
    BY <2>2, <2>3, <2>4
<1> HIDE DEF q, whole
<1>8. CASE ~k.by_component \/ all = << >>
  BY <1>5, <1>7, <1>8
<1>9. CASE ~(~k.by_component \/ all = << >>)
  BY <1>5, <1>6, <1>9
<1> QED
  BY <1>8, <1>9


\* The payload of an archive: the staging directory is emptied and filled.
LEMMA PayloadOpsOps ==
  ASSUME GoodProject(Project), NEW k, NEW u, Sequence(u.components)
  PROVE  Ops(PayloadOps(k, u), PackageKinds)
<1> DEFINE a == Op("unstage", k.name, "")
           all == InstallOps(Staging(k.name), "")
           q == [i \in DOMAIN u.components |-> InstallOps(Staging(k.name), u.components[i])]
<1>1. a.do \in PackageKinds /\ OpOK(a)
  BY DEF Op, OpOK, PackageKinds
<1>2. Staging(k.name)[1] \in Elsewhere
  BY DEF Staging, Elsewhere
<1>3. \A c : Ops(InstallOps(Staging(k.name), c), PackageKinds)
  <2>1. \A c : Ops(InstallOps(Staging(k.name), c), InstallKinds)
    BY <1>2, InstallOpsOps
  <2>2. InstallKinds \subseteq PackageKinds
    BY DEF PackageKinds
  <2> QED
    BY <2>1, <2>2, OpsMore
<1>4. Sequence(q) /\ \A i \in DOMAIN q : Ops(q[i], PackageKinds)
  <2>1. q = [i \in DOMAIN u.components |-> q[i]]
    OBVIOUS
  <2>2. \A i \in DOMAIN q : Ops(q[i], PackageKinds)
    BY <1>3
  <2> HIDE DEF q
  <2> QED
    BY <2>1, <2>2, SequenceMap
<1>5. PayloadOps(k, u) \in {<<a>> \o all, <<a>> \o FlattenSeq(q)}
  BY DEF PayloadOps
<1>6. Ops(all, PackageKinds)
  BY <1>3
<1> HIDE DEF a, q, all
<1>7. Ops(<<a>>, PackageKinds) /\ Ops(FlattenSeq(q), PackageKinds)
  BY <1>1, <1>4, OpsOne, OpsFlatten
<1>8. Ops(<<a>> \o all, PackageKinds) /\ Ops(<<a>> \o FlattenSeq(q), PackageKinds)
  BY <1>6, <1>7, OpsConcat
<1> QED
  BY <1>5, <1>8

\* A removal that spares the program.
LEMMA RemoveOK ==
  ASSUME NEW P, \A p \in P : p[1] # "program"
  PROVE  SetOp("remove", P).do = "remove" /\ OpOK(SetOp("remove", P))
BY DEF SetOp, OpOK

\* One archive, and the line of the metadata.
LEMMA ArchiveOpsOps ==
  ASSUME NEW k, NEW g, NEW u
  PROVE  Ops(ArchiveOps(k, g, u), PackageKinds)
<1> DEFINE path == Archive(k.name, g, u.name)
           a == SetOp("remove", {path})
           b == Op("pack", k.name, path)
           c == Op("metadata", k.name, path)
<1>1. path[1] = "package"
  BY DEF Archive
<1>2. ArchiveOps(k, g, u) = <<a, b, c>>
  BY DEF ArchiveOps
<1> HIDE DEF path
<1>3. /\ a.do \in PackageKinds /\ OpOK(a) /\ b.do \in PackageKinds /\ OpOK(b)
      /\ c.do \in PackageKinds /\ OpOK(c)
  BY <1>1 DEF Op, SetOp, OpOK, PackageKinds, Elsewhere
<1> HIDE DEF a, b, c
<1> QED
  BY <1>2, <1>3, OpsThree

\* One package: for each generator and unit, the payload and the archive.
LEMMA PlanOpsOps ==
  ASSUME GoodProject(Project), NEW k, GoodPackage(k)
  PROVE  Ops(PlanOps(k), PackageKinds)
<1> DEFINE a == SetOp("remove", {Metadata(k.name)})
           unit(g, j) == PayloadOps(k, Units(k)[j]) \o ArchiveOps(k, g, Units(k)[j])
           units(g) == [j \in DOMAIN Units(k) |-> unit(g, j)]
           one(g) == IF ~Selected(g) THEN << >> ELSE FlattenSeq(units(g))
           q == [i \in DOMAIN k.generators |-> one(k.generators[i])]
<1>1. a.do \in PackageKinds /\ OpOK(a)
  <2>1. \A p \in {Metadata(k.name)} : p[1] # "program"
    BY PathKinds
  <2>2. "remove" \in PackageKinds
    BY DEF PackageKinds
  <2> QED
    BY <2>1, <2>2, RemoveOK
<1>2. ASSUME NEW g, NEW j \in DOMAIN Units(k) PROVE Ops(unit(g, j), PackageKinds)
  <2>1. Sequence(Units(k)[j].components)
    BY UnitsSequence
  <2>2. Ops(PayloadOps(k, Units(k)[j]), PackageKinds)
    BY <2>1, PayloadOpsOps
  <2>3. Ops(ArchiveOps(k, g, Units(k)[j]), PackageKinds)
    BY ArchiveOpsOps
  <2> QED
    BY <2>2, <2>3, OpsConcat
<1>3. PlanOps(k) = <<a>> \o FlattenSeq(q)
  BY DEF PlanOps
<1> HIDE DEF a, unit
<1>4. ASSUME NEW g PROVE Ops(one(g), PackageKinds)
  <2>1. units(g) = [j \in DOMAIN Units(k) |-> units(g)[j]]
    OBVIOUS
  <2>2. \A j \in DOMAIN units(g) : Ops(units(g)[j], PackageKinds)
    BY <1>2
  <2> HIDE DEF units
  <2>3. Sequence(units(g))
    BY <2>1, UnitsSequence, SequenceMap
  <2>4. Ops(FlattenSeq(units(g)), PackageKinds)
    BY <2>2, <2>3, OpsFlatten
  <2>5. Ops(<< >>, PackageKinds)
    BY OpsEmpty
  <2> QED
    BY <2>4, <2>5
<1> HIDE DEF one
<1>5. Sequence(q) /\ \A i \in DOMAIN q : Ops(q[i], PackageKinds)
  <2>1. q = [i \in DOMAIN k.generators |-> q[i]]
    OBVIOUS
  <2>2. \A i \in DOMAIN q : Ops(q[i], PackageKinds)
    BY <1>4
  <2> HIDE DEF q
  <2>3. Sequence(k.generators)
    BY DEF GoodPackage
  <2> QED
    BY <2>1, <2>2, <2>3, SequenceMap
<1> HIDE DEF q
<1>6. Ops(<<a>>, PackageKinds) /\ Ops(FlattenSeq(q), PackageKinds)
  BY <1>1, <1>5, OpsOne, OpsFlatten
<1> QED
  BY <1>3, <1>6, OpsConcat

\* package_all.
LEMMA PackageOpsOps ==
  ASSUME GoodProject(Project)
  PROVE  Ops(PackageOps, PackageKinds)
<1> DEFINE a == Op("refuse", "", "")
           q == [i \in DOMAIN Project.packages |-> PlanOps(Project.packages[i])]
<1>1. a.do \in PackageKinds /\ OpOK(a)
  BY DEF Op, OpOK, PackageKinds
<1>2. PackageOps \in {<<a>>, FlattenSeq(q) \o << >>, FlattenSeq(q) \o <<a>>}
  BY DEF PackageOps
<1>3. Sequence(q) /\ \A i \in DOMAIN q : Ops(q[i], PackageKinds)
  <2>1. q = [i \in DOMAIN Project.packages |-> q[i]]
    OBVIOUS
  <2>2. \A i \in DOMAIN q : Ops(q[i], PackageKinds)
    BY PlanOpsOps DEF GoodProject
  <2> HIDE DEF q
  <2>3. Sequence(Project.packages)
    BY DEF GoodProject
  <2> QED
    BY <2>1, <2>2, <2>3, SequenceMap
<1> HIDE DEF a, q
<1>4. Ops(<<a>>, PackageKinds) /\ Ops(<< >>, PackageKinds) /\ Ops(FlattenSeq(q), PackageKinds)
  BY <1>1, <1>3, OpsOne, OpsEmpty, OpsFlatten
<1>5. Ops(FlattenSeq(q) \o << >>, PackageKinds) /\ Ops(FlattenSeq(q) \o <<a>>, PackageKinds)
  BY <1>4, OpsConcat
<1> QED
  BY <1>2, <1>4, <1>5


\* The selected tests are positions of tests; their programs are called.
LEMMA TestsSequence ==
  ASSUME GoodProject(Project)
  PROVE  Sequence(SelectedTests) /\ Sequence(DefaultTargets)
<1> DEFINE q == [i \in DOMAIN Project.tests |-> i]
<1>1. Sequence(Project.tests) /\ Sequence(Project.order)
  BY DEF GoodProject
<1>2. Sequence(q)
  <2>1. q = [i \in DOMAIN Project.tests |-> q[i]]
    OBVIOUS
  <2> HIDE DEF q
  <2> QED
    BY <1>1, <2>1, SequenceMap
<1> QED
  BY <1>1, <1>2, KeepSequence DEF SelectedTests, DefaultTargets

\* The program of a test.
LEMMA TestTargetOps ==
  ASSUME NEW i, NEW K, "call" \in K
  PROVE  Ops(TestTarget(i), K)
<1> DEFINE name == Project.tests[i].target
<1>1. TestTarget(i) = << >> \/ TestTarget(i) = Calls(<<name>>)
  BY DEF TestTarget
<1> HIDE DEF name
<1>2. <<name>> \in Seq({name})
  OBVIOUS
<1>3. Sequence(<<name>>)
  BY <1>2, SequenceIntro
<1> QED
  BY <1>1, <1>3, CallsOps, OpsEmpty

\* The programs of the selected tests.
LEMMA BuildTestOpsOps ==
  ASSUME GoodProject(Project)
  PROVE  Ops(BuildTestOps, {"call"})
<1> DEFINE q == [i \in DOMAIN SelectedTests |-> TestTarget(SelectedTests[i])]
<1>1. BuildTestOps = FlattenSeq(q)
  BY DEF BuildTestOps
<1>2. Sequence(q) /\ \A i \in DOMAIN q : Ops(q[i], {"call"})
  <2>1. q = [i \in DOMAIN SelectedTests |-> q[i]]
    OBVIOUS
  <2>2. \A i \in DOMAIN q : Ops(q[i], {"call"})
    BY TestTargetOps
  <2> HIDE DEF q
  <2> QED
    BY <2>1, <2>2, TestsSequence, SequenceMap
<1> HIDE DEF q
<1> QED
  BY <1>1, <1>2, OpsFlatten

\* run_registered_tests calls targets only when it builds.
LEMMA RegisteredOpsOps ==
  ASSUME GoodProject(Project), NEW auto \in BOOLEAN, NEW reports, NEW K, TestKinds \subseteq K,
         auto => "call" \in K, Ops(reports, K)
  PROVE  Ops(RegisteredOps(auto, reports), K)
<1> DEFINE refuse == Op("refuse", "", "")
           sum == Op("sum up", "", "")
           test(i) == Op("test", SelectedTests[i], "")
           one(i) == (IF auto THEN TestTarget(SelectedTests[i]) ELSE << >>) \o <<test(i)>>
           q == [i \in DOMAIN SelectedTests |-> one(i)]
           rest == IF SelectedTests = << >> THEN << >> ELSE reports
<1>1. refuse.do \in K /\ OpOK(refuse) /\ sum.do \in K /\ OpOK(sum)
  BY DEF Op, OpOK, TestKinds
<1>2. \A i : test(i).do \in K /\ OpOK(test(i))
  BY DEF Op, OpOK, TestKinds
<1>3. RegisteredOps(auto, reports) = IF UnknownTest THEN <<refuse>>
                                     ELSE FlattenSeq(q) \o rest \o <<sum>>
  BY DEF RegisteredOps
<1> HIDE DEF refuse, sum, test
<1>4. ASSUME NEW i PROVE Ops(one(i), K)
  <2>1. Ops(<<test(i)>>, K) /\ Ops(<< >>, K) /\ (auto => Ops(TestTarget(SelectedTests[i]), K))
    BY <1>2, OpsOne, OpsEmpty, TestTargetOps
  <2>2. CASE auto
    BY <2>1, <2>2, OpsConcat
  <2>3. CASE ~auto
    BY <2>1, <2>3, OpsConcat
  <2> QED
    BY <2>2, <2>3
<1> HIDE DEF one
<1>5. Sequence(q) /\ \A i \in DOMAIN q : Ops(q[i], K)
  <2>1. q = [i \in DOMAIN SelectedTests |-> q[i]]
    OBVIOUS
  <2>2. \A i \in DOMAIN q : Ops(q[i], K)
    BY <1>4
  <2> HIDE DEF q
  <2> QED
    BY <2>1, <2>2, TestsSequence, SequenceMap
<1>6. Ops(rest, K)
  BY OpsEmpty
<1> HIDE DEF q, rest
<1>7. Ops(FlattenSeq(q), K) /\ Ops(<<refuse>>, K) /\ Ops(<<sum>>, K)
  BY <1>1, <1>5, OpsOne, OpsFlatten
<1>8. Ops(FlattenSeq(q) \o rest \o <<sum>>, K)
  BY <1>6, <1>7, OpsConcat
<1> QED
  BY <1>3, <1>7, <1>8

\* A report is three files.
LEMMA ReportOpsOps ==
  ASSUME NEW name, NEW K, "write" \in K
  PROVE  Ops(ReportOps(name), K)
<1> DEFINE a == Op("write", <<"report", "TAG", "">>, "")
           b == Op("write", <<"report", job.config, name>>, "")
           c == Op("write", <<"report", job.config, name \o "Manifest">>, "")
<1>1. a.do \in K /\ OpOK(a) /\ b.do \in K /\ OpOK(b) /\ c.do \in K /\ OpOK(c)
  BY DEF Op, OpOK, Elsewhere
<1>2. ReportOps(name) = <<a, b, c>>
  BY DEF ReportOps
<1> HIDE DEF a, b, c
<1> QED
  BY <1>1, <1>2, OpsThree

\* ctest_memcheck.
LEMMA MemCheckOpsOps ==
  ASSUME GoodProject(Project), NEW d
  PROVE  Ops(MemCheckOps(d), TestKinds \cup {"memcheck"})
<1> DEFINE K == TestKinds \cup {"memcheck"}
           refuse == Op("refuse", "", "")
           sum == Op("sum up", "", "")
           check(i) == [Op("memcheck", SelectedTests[i], d.count) EXCEPT !.set = {d.repeat, d.stop}]
           q == [i \in DOMAIN SelectedTests |-> check(i)]
           rest == IF SelectedTests = << >> THEN << >> ELSE MemCheckReportOps
<1>1. refuse.do \in K /\ OpOK(refuse) /\ sum.do \in K /\ OpOK(sum)
  BY DEF Op, OpOK, TestKinds
<1>2. \A i : check(i).do \in K /\ OpOK(check(i))
  BY DEF Op, OpOK
<1>3. MemCheckOps(d) = IF UnknownTest THEN <<refuse>> ELSE q \o rest \o <<sum>>
  BY DEF MemCheckOps
<1>4. "write" \in K
  BY DEF TestKinds
<1>5. Ops(rest, K)
  <2>1. Ops(MemCheckReportOps, K)
    BY <1>4, ReportOpsOps DEF MemCheckReportOps
  <2>2. Ops(<< >>, K)
    BY OpsEmpty
  <2> HIDE DEF K
  <2> QED
    BY <2>1, <2>2
<1> HIDE DEF refuse, sum, check, K, rest
<1>6. Ops(q, K)
  <2>1. Len(SelectedTests) \in Nat /\ DOMAIN SelectedTests = 1 .. Len(SelectedTests)
    BY TestsSequence, SequenceElim
  <2>2. q = [i \in 1 .. Len(SelectedTests) |-> q[i]]
    BY <2>1
  <2>3. \A i \in 1 .. Len(SelectedTests) : q[i].do \in K /\ OpOK(q[i])
    BY <1>2, <2>1
  <2> HIDE DEF q
  <2> QED
    BY <2>1, <2>2, <2>3, OpsMap
<1> HIDE DEF q
<1>7. Ops(<<refuse>>, K) /\ Ops(<<sum>>, K)
  BY <1>1, OpsOne
<1>8. Ops(q \o rest \o <<sum>>, K)
  BY <1>5, <1>6, <1>7, OpsConcat
<1>9. Ops(MemCheckOps(d), K)
  BY <1>3, <1>7, <1>8
<1> QED
  BY <1>9 DEF K


\* clean_all starts with the state directory.
LEMMA CleanOpsOps ==
  /\ Ops(CleanOps, {"remove state", "remove", "cleaned"})
  /\ Len(CleanOps) = 6 /\ CleanOps[1].do = "remove state"
<1> DEFINE K == {"remove state", "remove", "cleaned"}
           artifacts == {Artifact(t, c) : t \in {u \in DOMAIN Project.target : Joined(u)}, c \in Configs}
           outputs == UNION {Outputs(s) : s \in DOMAIN Project.step}
           configured == {Output(a.path) : a \in {b \in ToSet(Project.configure) : b.inside}}
           packages == {p \in DOMAIN files : p[1] = "package"}
           a1 == Op("remove state", "", "")
           a2 == SetOp("remove", artifacts)
           a3 == SetOp("remove", outputs)
           a4 == SetOp("remove", configured)
           a5 == SetOp("remove", packages)
           a6 == Op("cleaned", "", "")
<1>1. CleanOps = <<a1, a2, a3, a4, a5, a6>>
  BY DEF CleanOps
<1>2. /\ \A p \in artifacts : p[1] # "program"
      /\ \A p \in outputs : p[1] # "program"
      /\ \A p \in configured : p[1] # "program"
      /\ \A p \in packages : p[1] # "program"
  BY PathKinds DEF Outputs
<1> HIDE DEF artifacts, outputs, configured, packages
<1>3. a1.do = "remove state" /\ OpOK(a1) /\ a6.do = "cleaned" /\ OpOK(a6)
  BY DEF Op, OpOK
<1>4. /\ a2.do = "remove" /\ OpOK(a2) /\ a3.do = "remove" /\ OpOK(a3)
      /\ a4.do = "remove" /\ OpOK(a4) /\ a5.do = "remove" /\ OpOK(a5)
  BY <1>2, RemoveOK
<1> HIDE DEF a1, a2, a3, a4, a5, a6
<1> DEFINE S == {a1, a2, a3, a4, a5, a6}
<1>5. <<a1, a2, a3, a4, a5, a6>> \in Seq(S) /\ Len(<<a1, a2, a3, a4, a5, a6>>) = 6
      /\ <<a1, a2, a3, a4, a5, a6>>[1] = a1
  OBVIOUS
<1>6. \A x \in S : x.do \in K /\ OpOK(x)
  BY <1>3, <1>4
<1> HIDE DEF S, K
<1>7. CleanOps \in Seq(S) /\ Len(CleanOps) = 6 /\ CleanOps[1] = a1
  BY <1>1, <1>5
<1>8. Sequence(CleanOps) /\ \A i \in DOMAIN CleanOps : CleanOps[i] \in S
  BY <1>7, SequenceIntro
<1>9. Ops(CleanOps, K)
  BY <1>6, <1>8 DEF Ops
<1> QED
  BY <1>3, <1>7, <1>9 DEF K

\* The operations of configure_all: clean_all, the actions, the stamp.
LEMMA ConfigureOpsShape ==
  ASSUME GoodProject(Project)
  PROVE  /\ Ops(ConfigureOps, Prep \cup {"stamp"})
         /\ Len(ConfigureOps) = 7 + Len(Project.configure)
         /\ Len(Project.configure) \in Nat
         /\ DOMAIN Project.configure = 1 .. Len(Project.configure)
         /\ ConfigureOps[1].do = "remove state"
         /\ \A i \in 1 .. 6 : ConfigureOps[i].do \in Prep \ {"replay"}
         /\ \A k \in DOMAIN Project.configure : ConfigureOps[6 + k] = Op("replay", "", k)
         /\ ConfigureOps[7 + Len(Project.configure)].do = "stamp"
<1> DEFINE n == Len(Project.configure)
           K == Prep \cup {"stamp"}
           q == [k \in DOMAIN Project.configure |-> Op("replay", "", k)]
           last == Op("stamp", "", "")
<1>1. n \in Nat /\ DOMAIN Project.configure = 1 .. n
  BY SequenceElim DEF GoodProject
<1>2. ConfigureOps = (CleanOps \o q) \o <<last>>
  BY DEF ConfigureOps
<1>3. Ops(q, K) /\ Len(q) = n /\ DOMAIN q = 1 .. n
  <2>1. DOMAIN q = 1 .. n /\ q = [k \in 1 .. n |-> q[k]]
    BY <1>1
  <2>2. \A k \in 1 .. n : q[k].do \in K /\ OpOK(q[k])
    BY <1>1 DEF Op, OpOK, Prep
  <2> HIDE DEF q, K
  <2>3. Len(q) = n
    BY <1>1, <2>1, SequenceOf
  <2> QED
    BY <1>1, <2>1, <2>2, <2>3, OpsMap
<1>4. last.do = "stamp" /\ OpOK(last)
  BY DEF Op, OpOK
<1>5. \A k \in 1 .. n : q[k] = Op("replay", "", k)
  BY <1>1
<1> HIDE DEF q, last, n
<1>6. Ops(<<last>>, K) /\ Len(<<last>>) = 1 /\ <<last>>[1] = last
  BY <1>4, OpsOne
<1>7. Ops(CleanOps, K)
  <2>1. {"remove state", "remove", "cleaned"} \subseteq K
    BY DEF Prep
  <2> QED
    BY <2>1, CleanOpsOps, OpsMore
<1> HIDE DEF K
<1>8. Ops(CleanOps \o q, K) /\ Ops(ConfigureOps, K)
  BY <1>2, <1>3, <1>6, <1>7, OpsConcat
<1>9. Len(CleanOps) = 6
  BY CleanOpsOps
<1>10. /\ Sequence(CleanOps) /\ Sequence(q) /\ Sequence(<<last>>) /\ Sequence(CleanOps \o q)
       /\ DOMAIN CleanOps = 1 .. 6
  BY <1>3, <1>6, <1>7, <1>8, <1>9, SequenceElim DEF Ops
<1>11. /\ Len(CleanOps \o q) = 6 + n
       /\ \A i \in 1 .. 6 : (CleanOps \o q)[i] = CleanOps[i]
       /\ \A i \in 7 .. (6 + n) : (CleanOps \o q)[i] = q[i - 6]
  <2>1. /\ Len(CleanOps \o q) = Len(CleanOps) + Len(q)
        /\ \A i \in 1 .. Len(CleanOps) : (CleanOps \o q)[i] = CleanOps[i]
        /\ \A i \in (Len(CleanOps) + 1) .. (Len(CleanOps) + Len(q)) :
             (CleanOps \o q)[i] = q[i - Len(CleanOps)]
    BY <1>10, Concat
  <2>2. Len(CleanOps) + 1 = 7
    BY <1>9
  <2> QED
    BY <1>3, <1>9, <2>1, <2>2
<1>12. /\ Len(ConfigureOps) = 7 + n
       /\ \A i \in 1 .. (6 + n) : ConfigureOps[i] = (CleanOps \o q)[i]
       /\ ConfigureOps[7 + n] = last
  <2>1. /\ Len(ConfigureOps) = Len(CleanOps \o q) + Len(<<last>>)
        /\ \A i \in 1 .. Len(CleanOps \o q) : ConfigureOps[i] = (CleanOps \o q)[i]
        /\ \A i \in (Len(CleanOps \o q) + 1) .. (Len(CleanOps \o q) + Len(<<last>>)) :
             ConfigureOps[i] = <<last>>[i - Len(CleanOps \o q)]
    BY <1>2, <1>10, Concat
  <2>2. ConfigureOps[7 + n] = <<last>>[(7 + n) - (6 + n)]
    BY <1>1, <1>6, <1>11, <2>1
  <2> QED
    BY <1>1, <1>6, <1>11, <2>1, <2>2
<1>13. \A i \in 1 .. 6 : ConfigureOps[i] = CleanOps[i]
  BY <1>1, <1>11, <1>12
<1>14. \A i \in 1 .. 6 : CleanOps[i].do \in Prep \ {"replay"}
  BY <1>10, CleanOpsOps DEF Ops, Prep
<1>15. ASSUME NEW k \in 1 .. n PROVE ConfigureOps[6 + k] = Op("replay", "", k)
  <2>1. 6 + k \in 7 .. (6 + n) /\ (6 + k) - 6 = k /\ 6 + k \in 1 .. (6 + n)
    BY <1>1
  <2>2. (CleanOps \o q)[6 + k] = q[k]
    BY <1>11, <2>1
  <2> QED
    BY <1>5, <1>12, <2>1, <2>2
<1>16. ConfigureOps[1].do = "remove state"
  <2>1. ConfigureOps[1] = CleanOps[1]
    BY <1>13
  <2> QED
    BY <2>1, CleanOpsOps
<1> QED
  BY <1>1, <1>4, <1>8, <1>12, <1>13, <1>14, <1>15, <1>16 DEF K, n


-----------------------------------------------------------------------------
(***************************************************************************)
(* The order of the operations.                                            *)
(***************************************************************************)

\* Where nothing is of Work nothing has to come before it; where nothing is
\* of Breaks, settled stamps stay so.
LEMMA ReadyIdle ==
  ASSUME NEW K, NEW q, Ops(q, K), K \cap Work = {}, NEW settled
  PROVE  Ready(q, settled)
BY DEF Ops, Ready

\* Where nothing breaks, what was settled stays so.
LEMMA ReadyPlain ==
  ASSUME NEW K, NEW q, Ops(q, K), K \cap Breaks = {}
  PROVE  Ready(q, TRUE) /\ Leaves(q, TRUE)
<1>1. Len(q) \in Nat /\ DOMAIN q = 1 .. Len(q)
  BY SequenceElim DEF Ops
<1>2. \A i \in 1 .. Len(q) : q[i].do \notin Breaks
  BY <1>1 DEF Ops
<1>3. Ready(q, TRUE)
  BY <1>1, <1>2 DEF Ready
<1>4. Leaves(q, TRUE)
  BY <1>1, <1>2 DEF Leaves
<1> QED
  BY <1>3, <1>4

\* Settled stamps are no worse.
LEMMA ReadyMore ==
  ASSUME NEW q, NEW a \in BOOLEAN, NEW b \in BOOLEAN, Ready(q, a), a => b
  PROVE  Ready(q, b)
BY DEF Ready

\* The operations of q come after those of p.
LEMMA ReadyConcat ==
  ASSUME NEW p, NEW q, Sequence(p), Sequence(q), NEW a \in BOOLEAN, NEW b \in BOOLEAN,
         Ready(p, a), Ready(q, b), b => Leaves(p, a)
  PROVE  Ready(p \o q, a)
<1> DEFINE r == p \o q
           m == Len(p)
<1>1. /\ m \in Nat /\ DOMAIN p = 1 .. m /\ Len(q) \in Nat /\ DOMAIN q = 1 .. Len(q)
  BY SequenceElim
<1>2. /\ Sequence(r) /\ Len(r) = m + Len(q)
      /\ \A i \in 1 .. m : r[i] = p[i]
      /\ \A i \in (m + 1) .. (m + Len(q)) : r[i] = q[i - m]
  BY Concat
<1>3. DOMAIN r = 1 .. (m + Len(q))
  BY <1>2, SequenceElim
<1> HIDE DEF r, m
<1> DEFINE Fine(i) == \/ \E j \in 1 .. (i - 1) :
                           r[j].do \in Settles /\ \A k \in (j + 1) .. (i - 1) : r[k].do \notin Breaks
                      \/ a /\ \A k \in 1 .. (i - 1) : r[k].do \notin Breaks
<1>4. ASSUME NEW i \in 1 .. m, r[i].do \in Work PROVE Fine(i)
  <2>1. p[i].do \in Work
    BY <1>2, <1>4
  <2>2. \A k \in 1 .. (i - 1) : r[k] = p[k] /\ k \in 1 .. m
    BY <1>1, <1>2
  <2>3. CASE a /\ \A k \in 1 .. (i - 1) : p[k].do \notin Breaks
    BY <2>2, <2>3
  <2>4. CASE \E j \in 1 .. (i - 1) :
               p[j].do \in Settles /\ \A k \in (j + 1) .. (i - 1) : p[k].do \notin Breaks
    <3>1. PICK j \in 1 .. (i - 1) :
               p[j].do \in Settles /\ \A k \in (j + 1) .. (i - 1) : p[k].do \notin Breaks
      BY <2>4
    <3>2. \A k \in (j + 1) .. (i - 1) : k \in 1 .. (i - 1)
      BY <1>1, <3>1
    <3> QED
      BY <2>2, <3>1, <3>2
  <2> QED
    BY <1>1, <2>1, <2>3, <2>4 DEF Ready
<1>5. ASSUME NEW i \in (m + 1) .. (m + Len(q)), r[i].do \in Work PROVE Fine(i)
  <2>1. i - m \in 1 .. Len(q) /\ q[i - m].do \in Work
    BY <1>1, <1>2, <1>5
  <2>2. \A k \in (m + 1) .. (i - 1) : r[k] = q[k - m] /\ k - m \in 1 .. (i - m - 1)
    BY <1>1, <1>2
  <2>3. CASE \E j \in 1 .. (i - m - 1) :
               q[j].do \in Settles /\ \A k \in (j + 1) .. (i - m - 1) : q[k].do \notin Breaks
    <3>1. PICK j \in 1 .. (i - m - 1) :
               q[j].do \in Settles /\ \A k \in (j + 1) .. (i - m - 1) : q[k].do \notin Breaks
      BY <2>3
    <3>2. m + j \in (m + 1) .. (i - 1) /\ (m + j) - m = j /\ m + j \in 1 .. (i - 1)
      BY <1>1, <3>1
    <3>3. r[m + j].do \in Settles
      BY <2>2, <3>1, <3>2
    <3>4. ASSUME NEW k \in (m + j + 1) .. (i - 1) PROVE r[k].do \notin Breaks
      <4>1. k \in (m + 1) .. (i - 1) /\ k - m \in (j + 1) .. (i - m - 1)
        BY <1>1, <3>1
      <4> QED
        BY <2>2, <3>1, <4>1
    <3> QED
      BY <3>2, <3>3, <3>4
  <2>4. CASE b /\ \A k \in 1 .. (i - m - 1) : q[k].do \notin Breaks
    <3>1. \A k \in (m + 1) .. (i - 1) : r[k].do \notin Breaks
      BY <2>2, <2>4
    <3>2. Leaves(p, a)
      BY <2>4
    <3>3. \A k \in 1 .. m : r[k] = p[k] /\ k \in 1 .. (i - 1)
      BY <1>1, <1>2
    <3>4. CASE a /\ \A k \in DOMAIN p : p[k].do \notin Breaks
      <4>1. ASSUME NEW k \in 1 .. (i - 1) PROVE r[k].do \notin Breaks
        <5>1. k \in 1 .. m \/ k \in (m + 1) .. (i - 1)
          BY <1>1
        <5> QED
          BY <1>1, <3>1, <3>3, <3>4, <5>1
      <4> QED
        BY <3>4, <4>1
    <3>5. CASE \E j \in DOMAIN p :
                 p[j].do \in Settles /\ \A k \in (j + 1) .. m : p[k].do \notin Breaks
      <4>1. PICK j \in 1 .. m :
                 p[j].do \in Settles /\ \A k \in (j + 1) .. m : p[k].do \notin Breaks
        BY <1>1, <3>5
      <4>2. ASSUME NEW k \in (j + 1) .. (i - 1) PROVE r[k].do \notin Breaks
        <5>1. (k \in (j + 1) .. m /\ k \in 1 .. m) \/ k \in (m + 1) .. (i - 1)
          BY <1>1, <4>1
        <5> QED
          BY <3>1, <3>3, <4>1, <5>1
      <4> QED
        BY <3>3, <4>1, <4>2
    <3> QED
      BY <3>2, <3>4, <3>5 DEF Leaves, m
  <2> QED
    BY <1>1, <2>1, <2>3, <2>4 DEF Ready
<1>6. \A i \in DOMAIN r : r[i].do \in Work => Fine(i)
  <2> HIDE DEF Fine
  <2>1. \A i \in DOMAIN r : i \in 1 .. m \/ i \in (m + 1) .. (m + Len(q))
    BY <1>1, <1>3
  <2> QED
    BY <1>4, <1>5, <2>1
<1>7. Ready(r, a)
  BY <1>6 DEF Ready
<1> QED
  BY <1>7 DEF r

\* What is left after the first operation.
LEMMA ReadyTail ==
  ASSUME NEW q, Sequence(q), q # << >>, NEW a \in BOOLEAN, NEW b \in BOOLEAN, Ready(q, a),
         Head(q).do \in Settles => b,
         a /\ Head(q).do \notin Breaks => b
  PROVE  Ready(Tail(q), b)
<1> DEFINE r == Tail(q)
<1>1. /\ Sequence(r) /\ Len(q) \in Nat \ {0} /\ Len(r) = Len(q) - 1 /\ Head(q) = q[1]
      /\ \A i \in 1 .. (Len(q) - 1) : r[i] = q[i + 1]
  BY TailOf
<1>2. DOMAIN r = 1 .. (Len(q) - 1) /\ DOMAIN q = 1 .. Len(q)
  BY <1>1, SequenceElim
<1> HIDE DEF r
<1> DEFINE Fine(i) == \/ \E j \in 1 .. (i - 1) :
                           r[j].do \in Settles /\ \A k \in (j + 1) .. (i - 1) : r[k].do \notin Breaks
                      \/ b /\ \A k \in 1 .. (i - 1) : r[k].do \notin Breaks
<1>3. ASSUME NEW i \in 1 .. (Len(q) - 1), r[i].do \in Work PROVE Fine(i)
  <2>1. i + 1 \in DOMAIN q /\ q[i + 1].do \in Work
    BY <1>1, <1>2, <1>3
  <2>2. \A k \in 1 .. (i - 1) : r[k] = q[k + 1] /\ k + 1 \in 2 .. i
    BY <1>1
  <2>3. CASE a /\ \A k \in 1 .. i : q[k].do \notin Breaks
    <3>1. b
      BY <1>1, <2>3
    <3>2. \A k \in 1 .. (i - 1) : r[k].do \notin Breaks
      BY <2>2, <2>3
    <3> QED
      BY <3>1, <3>2
  <2>4. CASE \E j \in 1 .. i :
               q[j].do \in Settles /\ \A k \in (j + 1) .. i : q[k].do \notin Breaks
    <3>1. PICK j \in 1 .. i :
               q[j].do \in Settles /\ \A k \in (j + 1) .. i : q[k].do \notin Breaks
      BY <2>4
    <3>2. CASE j = 1
      <4>1. b
        BY <1>1, <3>1, <3>2
      <4>2. \A k \in 1 .. (i - 1) : r[k].do \notin Breaks
        BY <2>2, <3>1, <3>2
      <4> QED
        BY <4>1, <4>2
    <3>3. CASE j # 1
      <4>1. j - 1 \in 1 .. (i - 1) /\ (j - 1) + 1 = j
        BY <3>1, <3>3
      <4>2. r[j - 1].do \in Settles
        BY <2>2, <3>1, <4>1
      <4>3. ASSUME NEW k \in j .. (i - 1) PROVE r[k].do \notin Breaks
        <5>1. k \in 1 .. (i - 1) /\ k + 1 \in (j + 1) .. i
          BY <3>1
        <5> QED
          BY <2>2, <3>1, <5>1
      <4> QED
        BY <4>1, <4>2, <4>3
    <3> QED
      BY <3>2, <3>3
  <2>5. (i + 1) - 1 = i
    OBVIOUS
  <2> HIDE DEF Fine
  <2> QED
    BY <2>1, <2>3, <2>4, <2>5 DEF Ready
<1>4. Ready(r, b)
  BY <1>2, <1>3 DEF Ready
<1> QED
  BY <1>4 DEF r


\* Functions that are still to return, in two parts.
LEMMA ReturningConcat ==
  ASSUME NEW p, NEW q, Sequence(p), Sequence(q), NEW A, NEW B, A \cap B = {},
         Returning(p, A), Returning(q, B)
  PROVE  Returning(p \o q, A \cup B)
<1> DEFINE r == p \o q
           m == Len(p)
<1>1. m \in Nat /\ DOMAIN p = 1 .. m /\ Len(q) \in Nat /\ DOMAIN q = 1 .. Len(q)
  BY SequenceElim
<1>2. /\ Sequence(r) /\ Len(r) = m + Len(q)
      /\ \A i \in 1 .. m : r[i] = p[i]
      /\ \A i \in (m + 1) .. (m + Len(q)) : r[i] = q[i - m]
  BY Concat
<1>3. DOMAIN r = 1 .. (m + Len(q))
  BY <1>2, SequenceElim
<1> HIDE DEF r, m
<1>4. ASSUME NEW i \in DOMAIN r, r[i].do = "return"
      PROVE  \/ i \in DOMAIN p /\ r[i] = p[i] /\ r[i].x \in A
             \/ i - m \in DOMAIN q /\ r[i] = q[i - m] /\ r[i].x \in B
  <2>1. CASE i \in 1 .. m
    BY <1>1, <1>2, <1>4, <2>1 DEF Returning
  <2>2. CASE i \in (m + 1) .. (m + Len(q))
    <3>1. i - m \in DOMAIN q /\ r[i] = q[i - m]
      BY <1>1, <1>2, <2>2
    <3> QED
      BY <1>4, <3>1 DEF Returning
  <2> QED
    BY <1>1, <1>3, <2>1, <2>2
<1>5. ASSUME NEW i \in DOMAIN r, NEW j \in DOMAIN r, i # j, r[i].do = "return", r[j].do = "return"
      PROVE  r[i].x # r[j].x
  <2>1. CASE i \in DOMAIN p /\ r[i] = p[i] /\ j \in DOMAIN p /\ r[j] = p[j]
    BY <1>5, <2>1 DEF Returning
  <2>2. CASE i - m \in DOMAIN q /\ r[i] = q[i - m] /\ j - m \in DOMAIN q /\ r[j] = q[j - m]
    <3>1. i - m # j - m
      BY <1>1, <1>3, <1>5
    <3> QED
      BY <1>5, <2>2, <3>1 DEF Returning
  <2>3. CASE r[i].x \in A /\ r[j].x \in B
    BY <2>3
  <2>4. CASE r[i].x \in B /\ r[j].x \in A
    BY <2>4
  <2> QED
    BY <1>4, <1>5, <2>1, <2>2, <2>3, <2>4
<1>6. Returning(r, A \cup B)
  BY <1>4, <1>5 DEF Returning
<1> QED
  BY <1>6 DEF r

\* After the first operation, which may itself be a return.
LEMMA ReturningTail ==
  ASSUME NEW q, Sequence(q), q # << >>, NEW A, Returning(q, A)
  PROVE  /\ Returning(Tail(q), A)
         /\ Head(q).do = "return" => Returning(Tail(q), A \ {Head(q).x})
<1> DEFINE r == Tail(q)
<1>1. /\ Sequence(r) /\ Len(q) \in Nat \ {0} /\ Len(r) = Len(q) - 1 /\ Head(q) = q[1]
      /\ \A i \in 1 .. (Len(q) - 1) : r[i] = q[i + 1]
  BY TailOf
<1>2. DOMAIN r = 1 .. (Len(q) - 1) /\ DOMAIN q = 1 .. Len(q)
  BY <1>1, SequenceElim
<1> HIDE DEF r
<1>3. \A i \in DOMAIN r : i + 1 \in DOMAIN q /\ i + 1 # 1 /\ r[i] = q[i + 1]
  BY <1>1, <1>2
<1>4. \A i, j \in DOMAIN r : i # j => i + 1 # j + 1
  BY <1>2
<1>5. 1 \in DOMAIN q
  BY <1>1, <1>2
<1>6. Returning(r, A)
  BY <1>3, <1>4 DEF Returning
<1>7. Head(q).do = "return" => Returning(r, A \ {Head(q).x})
  BY <1>1, <1>3, <1>5, <1>6 DEF Returning
<1> QED
  BY <1>6, <1>7 DEF r

\* Operations that return from nothing.
LEMMA ReturningNone ==
  ASSUME NEW K, NEW q, Ops(q, K), "return" \notin K
  PROVE  Returning(q, {})
BY DEF Ops, Returning

\* Behind an operation that clean_all does not make, nothing needs a clean
\* tree.
LEMMA FreeTail ==
  ASSUME NEW q, Sequence(q), q # << >>, Cleaning(q), Head(q).do \notin Prep
  PROVE  Free(Tail(q))
<1> DEFINE r == Tail(q)
<1>1. /\ Sequence(r) /\ Len(q) \in Nat \ {0} /\ Len(r) = Len(q) - 1 /\ Head(q) = q[1]
      /\ \A i \in 1 .. (Len(q) - 1) : r[i] = q[i + 1]
  BY TailOf
<1>2. DOMAIN r = 1 .. (Len(q) - 1) /\ DOMAIN q = 1 .. Len(q)
  BY <1>1, SequenceElim
<1> HIDE DEF r
<1>3. ASSUME NEW i \in DOMAIN r, r[i].do \in {"replay", "stamp"} PROVE FALSE
  <2>1. i + 1 \in DOMAIN q /\ r[i] = q[i + 1] /\ 1 \in 1 .. ((i + 1) - 1)
    BY <1>1, <1>2
  <2>2. q[1].do \in Prep
    BY <1>3, <2>1 DEF Cleaning
  <2> QED
    BY <1>1, <2>2
<1>4. Free(r)
  BY <1>3 DEF Free
<1> QED
  BY <1>4 DEF r

\* Two parts that need no clean tree.
LEMMA FreeConcat ==
  ASSUME NEW p, NEW q, Sequence(p), Sequence(q), Free(p), Free(q)
  PROVE  Free(p \o q)
<1> DEFINE r == p \o q
           m == Len(p)
<1>1. m \in Nat /\ DOMAIN p = 1 .. m /\ Len(q) \in Nat /\ DOMAIN q = 1 .. Len(q)
  BY SequenceElim
<1>2. /\ Sequence(r) /\ Len(r) = m + Len(q)
      /\ \A i \in 1 .. m : r[i] = p[i]
      /\ \A i \in (m + 1) .. (m + Len(q)) : r[i] = q[i - m]
  BY Concat
<1>3. DOMAIN r = 1 .. (m + Len(q))
  BY <1>2, SequenceElim
<1> HIDE DEF r, m
<1>4. ASSUME NEW i \in DOMAIN r PROVE r[i].do \notin {"replay", "stamp"}
  <2>1. CASE i \in 1 .. m
    BY <1>1, <1>2, <2>1 DEF Free
  <2>2. CASE i \in (m + 1) .. (m + Len(q))
    <3>1. i - m \in DOMAIN q /\ r[i] = q[i - m]
      BY <1>1, <1>2, <2>2
    <3> QED
      BY <3>1 DEF Free
  <2> QED
    BY <1>1, <1>3, <2>1, <2>2
<1>5. Free(r)
  BY <1>4 DEF Free
<1> QED
  BY <1>5 DEF r

\* The tail of operations.
LEMMA OpsTail ==
  ASSUME NEW K, NEW q, Ops(q, K), q # << >>
  PROVE  Ops(Tail(q), K) /\ Head(q).do \in K /\ OpOK(Head(q))
<1>1. Sequence(q)
  BY DEF Ops
<1>2. /\ Sequence(Tail(q)) /\ Len(q) \in Nat \ {0} /\ Len(Tail(q)) = Len(q) - 1 /\ Head(q) = q[1]
      /\ \A i \in 1 .. (Len(q) - 1) : Tail(q)[i] = q[i + 1]
  BY <1>1, TailOf
<1>3. DOMAIN Tail(q) = 1 .. (Len(q) - 1) /\ DOMAIN q = 1 .. Len(q)
  BY <1>1, <1>2, SequenceElim
<1>4. \A i \in DOMAIN Tail(q) : i + 1 \in DOMAIN q /\ Tail(q)[i] = q[i + 1]
  BY <1>2, <1>3
<1>5. 1 \in DOMAIN q
  BY <1>2, <1>3
<1> QED
  BY <1>2, <1>4, <1>5 DEF Ops

\* Operations are of their own kinds.
LEMMA OpsKinds ==
  ASSUME NEW K, NEW q, Ops(q, K)
  PROVE  Ops(q, Kinds(q))
BY DEF Ops, Kinds

\* What is in front of the rest is sound when both are, for one of the three
\* ways in which an operation can leave the stamps.
LEMMA Spliced ==
  ASSUME NEW K, NEW L, NEW p, NEW q, Ops(p, K), Ops(q, L), NEW a \in BOOLEAN, NEW b \in BOOLEAN,
         Ready(p, a), Ready(q, b), b => Leaves(p, a)
  PROVE  /\ Ops(p \o q, Kinds(p \o q))
         /\ Ready(p \o q, a)
<1>1. Ops(p, K \cup L) /\ Ops(q, K \cup L)
  BY OpsMore
<1>2. Ops(p \o q, K \cup L)
  BY <1>1, OpsConcat
<1>3. Sequence(p) /\ Sequence(q)
  BY DEF Ops
<1> QED
  BY <1>2, <1>3, OpsKinds, ReadyConcat


-----------------------------------------------------------------------------
(***************************************************************************)
(* The invariant: the disk.                                                *)
(***************************************************************************)

\* The plan's project is a good one.
LEMMA ProjectGood ==
  ASSUME PlanShape
  PROVE  /\ GoodProject(Project) /\ Len(plan) \in Nat /\ DOMAIN plan = 1 .. Len(plan)
         /\ binary \in DOMAIN plan
<1>1. Sequence(plan) /\ \A v \in DOMAIN plan : GoodProject(plan[v])
  BY PlansAssumption DEF PlanShape
<1>2. Len(plan) \in Nat /\ DOMAIN plan = 1 .. Len(plan)
  BY <1>1, SequenceElim
<1>3. binary \in DOMAIN plan
  BY <1>2 DEF PlanShape
<1> QED
  BY <1>1, <1>2, <1>3 DEF Project

\* Guarded paths are outputs.
LEMMA GuardedOutputs ==
  \A p \in Guarded : p[1] = "output"
BY PathKinds DEF Guarded

\* What the stamp tells of stays the same with the program.
LEMMA VouchedSame ==
  ASSUME plan' = plan, binary' = binary
  PROVE  Guarded' = Guarded /\ \A p : Vouched(p)' <=> Vouched(p)
<1>1. Guarded' = Guarded
  BY DEF Guarded, Project
<1>2. SameOutputs' <=> SameOutputs
  BY DEF SameOutputs, ConfigureOutputs, Output
<1> QED
  BY <1>1, <1>2 DEF Vouched

\* A step that makes no stamp, and objects and configure outputs only of
\* the configuration all stamps are of.
LEMMA DiskStep ==
  ASSUME PlanShape, Apart, plan' = plan, binary' = binary, job'.config = job.config,
         Program \in DOMAIN files', files'[Program].text.version \in 1 .. Len(plan),
         \A p \in DOMAIN files' : p[1] = "stamp" => p \in DOMAIN files,
         \A p \in DOMAIN files' : p[1] = "object" \/ p \in Guarded =>
            \/ p \in DOMAIN files /\ files'[p].text = files[p].text
            \/ Settled /\ files'[p].text.config = job.config
  PROVE  PlanShape' /\ Apart' /\ (Settled => Settled')
<1>1. PlanShape'
  BY DEF PlanShape, Program
<1>2. Guarded' = Guarded /\ \A p : Vouched(p)' <=> Vouched(p)
  BY VouchedSame
<1>3. ASSUME Settled PROVE Settled'
  <2>1. \A c : Stamp(c)' = Stamp(c)
    BY DEF Stamp
  <2> QED
    BY <1>3 DEF Settled, Stamp
<1>4. ASSUME NEW p \in DOMAIN files', p[1] = "stamp", NEW q \in DOMAIN files'
      PROVE  /\ q[1] = "stamp" => q = p
             /\ Vouched(q) => files'[q].text.config = p[2]
  <2>1. p \in DOMAIN files
    BY <1>4
  <2>2. q[1] = "stamp" => q = p
    BY <1>4, <2>1 DEF Apart
  <2>3. ASSUME Vouched(q) PROVE files'[q].text.config = p[2]
    <3>1. CASE q \in DOMAIN files /\ files'[q].text = files[q].text
      BY <1>4, <2>1, <2>3, <3>1 DEF Apart
    <3>2. CASE Settled /\ files'[q].text.config = job.config
      <4>1. p = Stamp(job.config)
        BY <1>4, <2>1, <3>2 DEF Settled
      <4> QED
        BY <3>2, <4>1, PathKinds
    <3> QED
      BY <2>3, <3>1, <3>2 DEF Vouched
  <2> QED
    BY <2>2, <2>3
<1>5. Apart'
  BY <1>2, <1>4 DEF Apart
<1> QED
  BY <1>1, <1>3, <1>5

\* A written file of no interest, a removal, and nothing at all.
LEMMA DiskWrite ==
  ASSUME PlanShape, NEW path, path[1] \notin {"stamp", "object", "output", "program"}, NEW t,
         files' = With(files, path, t)
  PROVE  /\ Program \in DOMAIN files' /\ files'[Program].text.version \in 1 .. Len(plan)
         /\ \A p \in DOMAIN files' : p[1] = "stamp" => p \in DOMAIN files
         /\ \A p \in DOMAIN files' : p[1] = "object" \/ p \in Guarded =>
              p \in DOMAIN files /\ files'[p].text = files[p].text
<1>1. /\ DOMAIN files' = DOMAIN files \cup {path}
      /\ \A p \in DOMAIN files : p # path => files'[p] = files[p]
  BY DEF With
<1>2. Program # path
  BY PathKinds
<1>3. files'[Program] = files[Program] /\ Program \in DOMAIN files'
  BY <1>1, <1>2 DEF PlanShape
<1>4. \A p \in DOMAIN files' : p[1] \in {"stamp", "object", "output"} => p \in DOMAIN files /\ files'[p] = files[p]
  BY <1>1
<1> QED
  BY <1>3, <1>4, GuardedOutputs DEF PlanShape

\* A removal that spares the program.
LEMMA DiskRemove ==
  ASSUME PlanShape, NEW P, \A p \in P : p[1] # "program",
         files' = Without(files, P)
  PROVE  /\ Program \in DOMAIN files' /\ files'[Program].text.version \in 1 .. Len(plan)
         /\ \A p \in DOMAIN files' : p[1] = "stamp" => p \in DOMAIN files
         /\ \A p \in DOMAIN files' : p[1] = "object" \/ p \in Guarded =>
              p \in DOMAIN files /\ files'[p].text = files[p].text
<1>1. DOMAIN files' = DOMAIN files \ P /\ \A p \in DOMAIN files \ P : files'[p] = files[p]
  BY DEF Without
<1>2. Program \notin P
  BY PathKinds
<1> QED
  BY <1>1, <1>2 DEF PlanShape

\* A disk that stays as it is.
LEMMA DiskSame ==
  ASSUME PlanShape, files' = files
  PROVE  /\ Program \in DOMAIN files' /\ files'[Program].text.version \in 1 .. Len(plan)
         /\ \A p \in DOMAIN files' : p[1] = "stamp" => p \in DOMAIN files
         /\ \A p \in DOMAIN files' : p[1] = "object" \/ p \in Guarded =>
              p \in DOMAIN files /\ files'[p].text = files[p].text
BY DEF PlanShape

-----------------------------------------------------------------------------
(***************************************************************************)
(* The invariant: the operations.                                          *)
(***************************************************************************)

\* The operations still to do, after a step that puts none in front that
\* needs a clean tree.
LEMMA FreeTodo ==
  ASSUME plan' = plan, binary' = binary, NEW q, job'.todo = q,
         Ops(q, Kinds(q)), Returning(q, job'.open), Free(q),
         NEW a \in BOOLEAN, Ready(q, a), a => Settled'
  PROVE  TodoOK'
<1>1. Project' = Project
  BY DEF Project
<1>2. (\A op : OpOK(op) => OpOK(op)')
  BY <1>1 DEF OpOK
<1>3. Ops(job.todo, Kinds(job.todo))'
  BY <1>2 DEF Ops, Kinds, Sequence
<1>4. Returning(job.todo, job.open)'
  BY DEF Returning
<1>5. Ready(job.todo, Settled)'
  BY DEF Ready, Work, Settles, Breaks
<1>6. Cleaning(job.todo)'
  BY DEF Cleaning, Free
<1> QED
  BY <1>3, <1>4, <1>5, <1>6 DEF TodoOK

\* The program is over.
LEMMA NoTodo ==
  ASSUME job' = Idle
  PROVE  JobShape' /\ TodoOK'
<1>1. job'.todo = << >> /\ DOMAIN << >> = {}
  <2>1. << >> \in Seq({}) /\ Len(<< >>) = 0
    OBVIOUS
  <2>2. DOMAIN << >> = 1 .. 0
    BY <2>1, SequenceIntro
  <2>3. 1 .. 0 = {}
    OBVIOUS
  <2>4. job'.todo = << >>
    BY DEF Idle
  <2> QED
    BY <2>2, <2>3, <2>4
<1>2. JobShape'
  BY DEF JobShape, Idle
<1>3. Ops(job.todo, Kinds(job.todo))'
  BY <1>1 DEF Ops, Sequence
<1> QED
  BY <1>1, <1>2, <1>3 DEF TodoOK, Returning, Ready, Cleaning

\* A running program has done its first operation.
LEMMA JobStep ==
  ASSUME JobShape, job.running, NEW q, job' = [job EXCEPT !.todo = q]
  PROVE  /\ JobShape' /\ job'.todo = q /\ job'.open = job.open /\ job'.config = job.config
         /\ job'.running
BY DEF JobShape

\* An operation of no special kind, with what it puts in front.
LEMMA PlainStep ==
  ASSUME ProgramInv, job.todo # << >>,
         Now.do \notin Prep \cup Settles \cup Breaks \cup {"return"},
         NEW K, NEW ops, Ops(ops, K), K \cap (Breaks \cup {"return", "replay", "stamp"}) = {},
         Now.do \in Work \/ K \cap Work = {},
         JobShape', job'.todo = ops \o Rest, job'.open = job.open, job'.config = job.config,
         plan' = plan, binary' = binary, PlanShape', Apart', Settled => Settled'
  PROVE  ProgramInv'
<1> DEFINE todo == job.todo
           st == Settled
<1>1. /\ Ops(todo, Kinds(todo)) /\ Returning(todo, job.open) /\ Ready(todo, st) /\ Cleaning(todo)
      /\ todo # << >> /\ Now = Head(todo) /\ Rest = Tail(todo)
  BY DEF ProgramInv, TodoOK, Now, Rest
<1>2. st \in BOOLEAN
  BY DEF Settled
<1>3. Sequence(todo) /\ Sequence(ops)
  BY <1>1 DEF Ops
<1> HIDE DEF todo, st
<1>4. Ops(Rest, Kinds(todo))
  BY <1>1, OpsTail
<1>5. Ready(Rest, st)
  BY <1>1, <1>2, <1>3, ReadyTail
<1>6. Returning(Rest, job.open) /\ Free(Rest)
  BY <1>1, <1>3, ReturningTail, FreeTail
<1>7. Ready(ops, TRUE) /\ Leaves(ops, TRUE)
  BY ReadyPlain
<1>8. Ready(ops, st) /\ (st => Leaves(ops, st))
  <2>1. CASE st
    BY <1>2, <1>7, <2>1, ReadyMore
  <2>2. CASE ~st
    <3>1. Now.do \notin Work
      <4>1. /\ Head(todo) = todo[1] /\ Len(todo) \in Nat \ {0} /\ DOMAIN todo = 1 .. Len(todo)
        BY <1>1, <1>3, TailOf, SequenceElim
      <4>2. 1 \in DOMAIN todo /\ 1 .. (1 - 1) = {}
        BY <4>1
      <4> QED
        BY <1>1, <2>2, <4>1, <4>2 DEF Ready
    <3>2. Ready(ops, st)
      BY <3>1, ReadyIdle
    <3> QED
      BY <2>2, <3>2
  <2> QED
    BY <1>2, <2>1, <2>2
<1> DEFINE q == ops \o Rest
<1>9. Ops(q, Kinds(q)) /\ Ready(q, st)
  BY <1>2, <1>4, <1>5, <1>8, Spliced
<1>10. Returning(q, job.open)
  <2>1. Returning(ops, {})
    BY ReturningNone
  <2>2. Sequence(Rest)
    BY <1>4 DEF Ops
  <2>3. Returning(q, {} \cup job.open)
    BY <1>3, <1>6, <2>1, <2>2, ReturningConcat
  <2> QED
    BY <2>3
<1>11. Free(q)
  <2>1. Free(ops)
    BY DEF Free, Ops
  <2>2. Sequence(Rest)
    BY <1>4 DEF Ops
  <2> QED
    BY <1>3, <1>6, <2>1, <2>2, FreeConcat
<1> HIDE DEF q
<1>12. TodoOK'
  <2>1. job'.todo = q /\ Returning(q, job'.open) /\ (st => Settled')
    BY <1>10 DEF q, st
  <2> QED
    BY <1>2, <1>9, <1>11, <2>1, FreeTodo
<1> QED
  BY <1>12 DEF ProgramInv


\* A step that ends the program, or that is not a step of the program.
LEMMA EndStep ==
  ASSUME ProgramInv, job' = Idle, plan' = plan, binary' = binary, files' = files
  PROVE  ProgramInv'
<1>1. PlanShape' /\ Apart'
  BY VouchedSame DEF ProgramInv, PlanShape, Apart, Program
<1>2. JobShape' /\ TodoOK'
  BY NoTodo
<1> QED
  BY <1>1, <1>2 DEF ProgramInv

\* One that does nothing to the disk.
LEMMA QuietStep ==
  ASSUME ProgramInv, job.running, job.todo # << >>,
         Now.do \notin Prep \cup Settles \cup Breaks \cup {"return"},
         NEW K, NEW ops, Ops(ops, K), K \cap (Breaks \cup {"return", "replay", "stamp"}) = {},
         Now.do \in Work \/ K \cap Work = {},
         Proceed(ops), Quiet
  PROVE  ProgramInv'
<1>1. PlanShape /\ Apart /\ JobShape
  BY DEF ProgramInv
<1>2. files' = files /\ plan' = plan /\ binary' = binary
  BY DEF Quiet, Kept
<1>3. JobShape' /\ job'.todo = ops \o Rest /\ job'.open = job.open /\ job'.config = job.config
  BY <1>1, JobStep DEF Proceed
<1>4. PlanShape' /\ Apart' /\ (Settled => Settled')
  BY <1>1, <1>2, <1>3, DiskSame, DiskStep
<1> QED
  BY <1>2, <1>3, <1>4, PlainStep

\* One that writes or removes files, and puts nothing in front.
LEMMA DiskOnlyStep ==
  ASSUME ProgramInv, job.running, job.todo # << >>,
         Now.do \notin Prep \cup Settles \cup Breaks \cup {"return"},
         Proceed(<< >>), plan' = plan, binary' = binary,
         Program \in DOMAIN files', files'[Program].text.version \in 1 .. Len(plan),
         \A p \in DOMAIN files' : p[1] = "stamp" => p \in DOMAIN files,
         \A p \in DOMAIN files' : p[1] = "object" \/ p \in Guarded =>
            \/ p \in DOMAIN files /\ files'[p].text = files[p].text
            \/ Settled /\ files'[p].text.config = job.config
  PROVE  ProgramInv'
<1>1. PlanShape /\ Apart /\ JobShape
  BY DEF ProgramInv
<1>2. JobShape' /\ job'.todo = << >> \o Rest /\ job'.open = job.open /\ job'.config = job.config
  BY <1>1, JobStep DEF Proceed
<1>3. PlanShape' /\ Apart' /\ (Settled => Settled')
  BY <1>1, <1>2, DiskStep
<1>4. Ops(<< >>, {})
  BY OpsEmpty
<1> QED
  BY <1>2, <1>3, <1>4, PlainStep

\* Work at the front means that all stamps are settled.
LEMMA WorkSettled ==
  ASSUME ProgramInv, job.todo # << >>, Now.do \in Work
  PROVE  Settled
<1>1. Ready(job.todo, Settled) /\ Sequence(job.todo)
  BY DEF ProgramInv, TodoOK, Ops
<1>2. /\ Head(job.todo) = job.todo[1] /\ Len(job.todo) \in Nat \ {0}
      /\ DOMAIN job.todo = 1 .. Len(job.todo)
  BY <1>1, TailOf, SequenceElim
<1>3. 1 \in DOMAIN job.todo /\ 1 .. (1 - 1) = {}
  BY <1>2
<1> QED
  BY <1>1, <1>2, <1>3 DEF Ready, Now

\* The first operation is sound.
LEMMA NowOK ==
  ASSUME ProgramInv, job.todo # << >>
  PROVE  OpOK(Now)
BY OpsTail DEF ProgramInv, TodoOK, Now


\* An operation at the front that may come before the stamp: what it does
\* for the operations behind it, it has done.
LEMMA CleaningStep ==
  ASSUME NEW q, Sequence(q), q # << >>, Cleaning(q), NEW K, NEW ops, Ops(ops, K),
         K \subseteq {"remove"},
         plan' = plan, binary' = binary, job'.config = job.config,
         \A p \in DOMAIN files' : StateFile(p) =>
            /\ p \in DOMAIN files
            /\ Removes(Head(q), p) => \E k \in DOMAIN ops : Removes(ops[k], p),
         \A p \in Guarded \cap DOMAIN files' :
            \/ files'[p].text.config = job.config
            \/ p \in DOMAIN files /\ files'[p].text = files[p].text /\ ~Rewrites(Head(q), p)
  PROVE  Cleaning(ops \o Tail(q))'
<1> DEFINE t == Tail(q)
           r == ops \o t
           m == Len(ops)
<1>1. Sequence(ops)
  BY DEF Ops
<1>2. /\ Sequence(t) /\ Len(q) \in Nat \ {0} /\ Len(t) = Len(q) - 1 /\ Head(q) = q[1]
      /\ \A i \in 1 .. (Len(q) - 1) : t[i] = q[i + 1]
  BY TailOf
<1>3. m \in Nat /\ DOMAIN ops = 1 .. m /\ DOMAIN q = 1 .. Len(q)
  BY <1>1, SequenceElim
<1> HIDE DEF t
<1>4. /\ Sequence(r) /\ Len(r) = m + Len(t)
      /\ \A i \in 1 .. m : r[i] = ops[i]
      /\ \A i \in (m + 1) .. (m + Len(t)) : r[i] = t[i - m]
  BY <1>1, <1>2, Concat
<1>5. DOMAIN r = 1 .. (m + Len(q) - 1)
  BY <1>2, <1>3, <1>4, SequenceElim
<1> HIDE DEF m, r
<1>6. ASSUME NEW i \in (m + 1) .. (m + Len(q) - 1)
      PROVE  r[i] = q[i - m + 1] /\ i - m + 1 \in 2 .. Len(q)
  BY <1>2, <1>3, <1>4
<1>7. \A i \in 1 .. m : r[i].do = "remove"
  BY <1>3, <1>4 DEF Ops
<1>8. Guarded' = Guarded /\ Project' = Project
  BY DEF Guarded, Project
<1>9. ASSUME NEW i \in DOMAIN r, r[i].do \in {"replay", "stamp"}
      PROVE  /\ \A k \in 1 .. (i - 1) : r[k].do \in Prep
             /\ \A p \in DOMAIN files' : StateFile(p) => \E k \in 1 .. (i - 1) : Removes(r[k], p)
             /\ r[i].do = "stamp" =>
                  \A p \in Guarded \cap DOMAIN files' :
                    \/ files'[p].text.config = job.config
                    \/ \E k \in 1 .. (i - 1) : Rewrites(r[k], p)
  <2>1. i \in (m + 1) .. (m + Len(q) - 1)
    BY <1>3, <1>5, <1>7, <1>9
  <2> DEFINE j == i - m + 1
  <2>2. r[i] = q[j] /\ j \in DOMAIN q /\ j \in 2 .. Len(q)
    BY <1>3, <1>6, <2>1
  <2>3. /\ \A k \in 1 .. (j - 1) : q[k].do \in Prep
        /\ \A p \in DOMAIN files : StateFile(p) => \E k \in 1 .. (j - 1) : Removes(q[k], p)
        /\ q[j].do = "stamp" =>
             \A p \in Guarded \cap DOMAIN files :
               \/ files[p].text.config = job.config
               \/ \E k \in 1 .. (j - 1) : Rewrites(q[k], p)
    <3> HIDE DEF j
    <3> QED
      BY <1>9, <2>2 DEF Cleaning
  <2>4. ASSUME NEW k \in (m + 1) .. (i - 1)
        PROVE  r[k] = q[k - m + 1] /\ k - m + 1 \in 1 .. (j - 1)
    <3>1. k \in (m + 1) .. (m + Len(q) - 1)
      BY <1>2, <1>3, <2>1
    <3> QED
      BY <1>2, <1>3, <1>6, <2>1, <3>1
  <2>5. ASSUME NEW k \in 2 .. (j - 1)
        PROVE  k + m - 1 \in (m + 1) .. (i - 1) /\ r[k + m - 1] = q[k] /\ k + m - 1 \in 1 .. (i - 1)
    <3>1. k + m - 1 \in (m + 1) .. (i - 1) /\ (k + m - 1) - m + 1 = k /\ k + m - 1 \in 1 .. (i - 1)
      BY <1>2, <1>3, <2>1
    <3>2. r[k + m - 1] = q[(k + m - 1) - m + 1]
      BY <2>4, <3>1
    <3> QED
      BY <3>1, <3>2
  <2>6. \A k \in 1 .. m : k \in 1 .. (i - 1)
    BY <1>3, <2>1
  <2>7. j \in Int /\ i \in Int
    BY <1>3, <2>1
  <2> HIDE DEF j
  <2>8. \A k \in 1 .. (i - 1) : r[k].do \in Prep
    <3> TAKE k \in 1 .. (i - 1)
    <3>1. CASE k \in 1 .. m
      BY <1>7, <3>1 DEF Prep
    <3>2. CASE k \in (m + 1) .. (i - 1)
      BY <2>3, <2>4, <3>2
    <3> QED
      BY <1>3, <2>1, <3>1, <3>2
  <2>9. ASSUME NEW p \in DOMAIN files', StateFile(p) PROVE \E k \in 1 .. (i - 1) : Removes(r[k], p)
    <3>1. PICK k \in 1 .. (j - 1) : Removes(q[k], p)
      BY <2>3, <2>9
    <3>2. CASE k = 1
      <4>1. PICK l \in DOMAIN ops : Removes(ops[l], p)
        BY <1>2, <2>9, <3>1, <3>2
      <4> QED
        BY <1>3, <1>4, <2>6, <4>1
    <3>3. CASE k # 1
      <4>1. k \in 2 .. (j - 1)
        BY <2>7, <3>1, <3>3
      <4> QED
        BY <2>5, <3>1, <4>1
    <3> QED
      BY <3>2, <3>3
  <2>10. ASSUME r[i].do = "stamp", NEW p \in Guarded \cap DOMAIN files', files'[p].text.config # job.config
         PROVE  \E k \in 1 .. (i - 1) : Rewrites(r[k], p)
    <3>1. p \in DOMAIN files /\ files'[p].text = files[p].text /\ ~Rewrites(q[1], p)
      BY <1>2, <2>10
    <3>2. PICK k \in 1 .. (j - 1) : Rewrites(q[k], p)
      BY <2>2, <2>3, <2>10, <3>1
    <3>3. k \in 2 .. (j - 1)
      BY <2>7, <3>1, <3>2
    <3> QED
      BY <2>5, <3>2, <3>3
  <2> QED
    BY <2>8, <2>9, <2>10
<1>10. Cleaning(r)'
  <2> SUFFICES ASSUME NEW s, s = r PROVE Cleaning(s)'
    OBVIOUS
  <2>1. \A op, p : Rewrites(op, p) <=> Rewrites(op, p)'
    BY <1>8 DEF Rewrites, Output
  <2>2. ASSUME NEW i \in DOMAIN s, s[i].do \in {"replay", "stamp"}
        PROVE  /\ \A k \in 1 .. (i - 1) : s[k].do \in Prep
               /\ \A p \in DOMAIN files' : StateFile(p) => \E k \in 1 .. (i - 1) : Removes(s[k], p)
    BY <1>9, <2>2
  <2>3. ASSUME NEW i \in DOMAIN s, s[i].do = "stamp", NEW p \in Guarded' \cap DOMAIN files'
        PROVE  \/ files'[p].text.config = job'.config
               \/ \E k \in 1 .. (i - 1) : Rewrites(s[k], p)'
    BY <1>8, <1>9, <2>1, <2>3
  <2> QED
    BY <2>2, <2>3 DEF Cleaning, Prep, Removes, StateFile
<1> QED
  BY <1>10 DEF r, t


\* The operations still to do, after a step that leaves them clean.
LEMMA CleanTodo ==
  ASSUME plan' = plan, binary' = binary, NEW q, job'.todo = q,
         Ops(q, Kinds(q)), Returning(q, job'.open), Cleaning(q)',
         NEW a \in BOOLEAN, Ready(q, a), a => Settled'
  PROVE  TodoOK'
<1>1. Project' = Project
  BY DEF Project
<1>2. \A op : OpOK(op) => OpOK(op)'
  BY <1>1 DEF OpOK
<1>3. Ops(job.todo, Kinds(job.todo))'
  BY <1>2 DEF Ops, Kinds, Sequence
<1>4. Returning(job.todo, job.open)'
  BY DEF Returning
<1>5. Ready(job.todo, Settled)'
  BY DEF Ready, Work, Settles, Breaks
<1>6. Cleaning(job.todo)'
  BY DEF Cleaning
<1> QED
  BY <1>3, <1>4, <1>5, <1>6 DEF TodoOK

\* The operations of clean_all and the configure actions.
LEMMA PrepStep ==
  ASSUME ProgramInv, job.running, job.todo # << >>, Now.do \in Prep,
         NEW K, NEW ops, Ops(ops, K), K \subseteq {"remove"}, Proceed(ops),
         plan' = plan, binary' = binary,
         Program \in DOMAIN files', files'[Program].text.version \in 1 .. Len(plan),
         \A p \in DOMAIN files' : StateFile(p) =>
            /\ p \in DOMAIN files /\ files'[p].text = files[p].text
            /\ Removes(Now, p) => \E k \in DOMAIN ops : Removes(ops[k], p),
         \A p \in Guarded \cap DOMAIN files' :
            \/ Settled /\ files'[p].text.config = job.config
            \/ p \in DOMAIN files /\ files'[p].text = files[p].text /\ ~Rewrites(Now, p)
  PROVE  ProgramInv'
<1>1. PlanShape /\ Apart /\ JobShape
  BY DEF ProgramInv
<1>2. PICK todo : todo = job.todo
  OBVIOUS
<1>3. PICK st : st = Settled
  OBVIOUS
<1>4. /\ Ops(todo, Kinds(todo)) /\ Returning(todo, job.open) /\ Ready(todo, st) /\ Cleaning(todo)
      /\ todo # << >> /\ Now = Head(todo) /\ Rest = Tail(todo)
  BY <1>2, <1>3 DEF ProgramInv, TodoOK, Now, Rest
<1>5. st \in BOOLEAN
  BY <1>3 DEF Settled
<1>6. Sequence(todo) /\ Sequence(ops)
  BY <1>4 DEF Ops
<1> DEFINE q == ops \o Tail(todo)
<1>7. JobShape' /\ job'.todo = q /\ job'.open = job.open /\ job'.config = job.config
  BY <1>1, <1>4, JobStep DEF Proceed
<1>8. PlanShape' /\ Apart' /\ (Settled => Settled')
  <2>1. \A p \in DOMAIN files' : p[1] = "stamp" => p \in DOMAIN files
    BY DEF StateFile
  <2>2. \A p \in DOMAIN files' : p[1] = "object" \/ p \in Guarded =>
            \/ p \in DOMAIN files /\ files'[p].text = files[p].text
            \/ Settled /\ files'[p].text.config = job.config
    BY DEF StateFile
  <2> QED
    BY <1>1, <1>7, <2>1, <2>2, DiskStep
<1>9. Cleaning(q)'
  <2>1. \A p \in DOMAIN files' : StateFile(p) =>
          /\ p \in DOMAIN files
          /\ Removes(Head(todo), p) => \E k \in DOMAIN ops : Removes(ops[k], p)
    BY <1>4
  <2>2. \A p \in Guarded \cap DOMAIN files' :
          \/ files'[p].text.config = job.config
          \/ p \in DOMAIN files /\ files'[p].text = files[p].text /\ ~Rewrites(Head(todo), p)
    BY <1>4
  <2> QED
    BY <1>4, <1>6, <1>7, <2>1, <2>2, CleaningStep
<1>10. Ops(Tail(todo), Kinds(todo)) /\ Ready(Tail(todo), st) /\ Returning(Tail(todo), job.open)
  <2>1. Head(todo).do \notin Settles
    BY <1>4 DEF Prep, Settles
  <2> QED
    BY <1>4, <1>5, <1>6, <2>1, OpsTail, ReadyTail, ReturningTail
<1>11. Ops(q, Kinds(q)) /\ Ready(q, st)
  <2>1. K \cap Work = {} /\ K \cap Breaks = {} /\ "return" \notin K
    BY DEF Work, Breaks
  <2>2. Ready(ops, st) /\ Leaves(ops, TRUE)
    BY <2>1, ReadyIdle, ReadyPlain
  <2>3. st => Leaves(ops, st)
    BY <1>5, <2>2
  <2> QED
    BY <1>5, <1>10, <2>2, <2>3, Spliced
<1>12. Returning(q, job.open)
  <2>1. "return" \notin K
    OBVIOUS
  <2>2. Returning(ops, {}) /\ Sequence(Tail(todo))
    BY <1>10, <2>1, ReturningNone DEF Ops
  <2>3. Returning(q, {} \cup job.open)
    BY <1>6, <1>10, <2>2, ReturningConcat
  <2> QED
    BY <2>3
<1> HIDE DEF q
<1>13. TodoOK'
  <2>1. Returning(q, job'.open) /\ (st => Settled')
    BY <1>3, <1>7, <1>8, <1>12
  <2> QED
    BY <1>5, <1>7, <1>9, <1>11, <2>1, CleanTodo
<1> QED
  BY <1>7, <1>8, <1>13 DEF ProgramInv


-----------------------------------------------------------------------------
(***************************************************************************)
(* The invariant: the steps of GeneratedBuild.                             *)
(***************************************************************************)

\* What Doing says.
LEMMA DoingNow ==
  ASSUME NEW k, Doing(k)
  PROVE  job.running /\ job.todo # << >> /\ Now.do = k
BY DEF Doing

\* A failure ends the program.
LEMMA FailInv ==
  ASSUME ProgramInv, Fail
  PROVE  ProgramInv'
BY EndStep DEF Fail, Finished, Kept

\* A tool that wrote a file of no interest.
LEMMA MadeInv ==
  ASSUME ProgramInv, job.running, job.todo # << >>,
         Now.do \notin Prep \cup Settles \cup Breaks \cup {"return"},
         NEW path, path[1] \notin {"stamp", "object", "output", "program"}, NEW t, Made(path, t)
  PROVE  ProgramInv'
<1>1. PlanShape /\ plan' = plan /\ binary' = binary /\ files' = With(files, path, t) /\ Proceed(<< >>)
  BY DEF ProgramInv, Made, Kept
<1>2. /\ Program \in DOMAIN files' /\ files'[Program].text.version \in 1 .. Len(plan)
      /\ \A p \in DOMAIN files' : p[1] = "stamp" => p \in DOMAIN files
      /\ \A p \in DOMAIN files' : p[1] = "object" \/ p \in Guarded =>
              p \in DOMAIN files /\ files'[p].text = files[p].text
  BY <1>1, DiskWrite
<1> QED
  BY <1>1, <1>2, DiskOnlyStep

\* An operation of no special kind that only goes on.
LEMMA GoOnInv ==
  ASSUME ProgramInv, job.running, job.todo # << >>,
         Now.do \notin Prep \cup Settles \cup Breaks \cup {"return"},
         Proceed(<< >>), Quiet
  PROVE  ProgramInv'
<1>1. Ops(<< >>, {}) /\ {} \cap (Breaks \cup {"return", "replay", "stamp"}) = {} /\ {} \cap Work = {}
  BY OpsEmpty
<1> QED
  BY <1>1, QuietStep

\* Calling a target or a step opens it: its return is new.
LEMMA CallInv ==
  ASSUME ProgramInv, CallNode
  PROVE  ProgramInv'
<1>1. job.running /\ job.todo # << >> /\ Now.do = "call" /\ Node(Now.x) /\ Now.x \notin job.open /\ Quiet
  BY DoingNow DEF CallNode
<1>2. Now.do \notin Prep \cup Settles \cup Breaks \cup {"return"} /\ Now.do \in Work
  BY <1>1 DEF Prep, Settles, Breaks, Work
<1>3. CASE Now.x \in job.done /\ Proceed(<< >>)
  BY <1>1, <1>2, <1>3, GoOnInv
<1> DEFINE body == IF Now.x \in DOMAIN Project.step THEN StepBody(Now.x) ELSE TargetBody(Now.x)
<1>4. CASE job' = [job EXCEPT !.open = @ \cup {Now.x}, !.todo = body \o <<Op("return", Now.x, "")>> \o Rest]
  <2>1. PICK todo : todo = job.todo
    OBVIOUS
  <2>2. PICK x : x = Now.x
    OBVIOUS
  <2>3. PICK ret : ret = Op("return", x, "")
    OBVIOUS
  <2>4. PlanShape /\ Apart /\ JobShape /\ GoodProject(Project)
    BY ProjectGood DEF ProgramInv
  <2>5. PICK b : b = body /\ Ops(b, BodyKinds)
    <3>1. CASE x \in DOMAIN Project.step
      BY <2>2, <2>4, <3>1, StepBodyOps DEF GoodProject
    <3>2. CASE x \notin DOMAIN Project.step
      <4>1. GoodTarget(Project.target[x])
        BY <1>1, <2>2, <2>4, <3>2 DEF Node, GoodProject
      <4> QED
        BY <2>2, <3>2, <4>1, TargetBodyOps
    <3> QED
      BY <3>1, <3>2
  <2> HIDE DEF body
  <2>6. /\ Ops(todo, Kinds(todo)) /\ Returning(todo, job.open) /\ Ready(todo, TRUE) /\ Cleaning(todo)
        /\ todo # << >> /\ Now = Head(todo) /\ Rest = Tail(todo) /\ Settled
    <3>1. Settled
      BY <1>1, <1>2, WorkSettled
    <3>2. Ready(todo, Settled)
      BY <2>1 DEF ProgramInv, TodoOK
    <3>3. Ready(todo, TRUE)
      BY <3>1, <3>2 DEF Ready
    <3> QED
      BY <1>1, <2>1, <3>1, <3>3 DEF ProgramInv, TodoOK, Now, Rest
  <2>7. Sequence(todo)
    BY <2>6 DEF Ops
  <2>8. Ops(Tail(todo), Kinds(todo)) /\ Ready(Tail(todo), TRUE) /\ Returning(Tail(todo), job.open)
        /\ Free(Tail(todo))
    <3>1. Head(todo).do \notin Prep
      BY <1>2, <2>6
    <3> QED
      BY <2>6, <2>7, <3>1, OpsTail, ReadyTail, ReturningTail, FreeTail
  <2> DEFINE K == BodyKinds \cup {"return"}
             ops == b \o <<ret>>
             q == ops \o Tail(todo)
  <2>9. ret.do = "return" /\ ret.x = x /\ OpOK(ret)
    BY <2>3 DEF Op, OpOK
  <2>10. Ops(<<ret>>, K) /\ Ops(b, K)
    BY <2>5, <2>9, OpsOne, OpsMore
  <2>11. Ops(ops, K)
    BY <2>10, OpsConcat
  <2>12. K \cap Breaks = {} /\ "return" \notin BodyKinds
    BY DEF Breaks, BodyKinds
  <2>13. Returning(ops, {x})
    <3>1. Returning(b, {})
      BY <2>5, <2>12, ReturningNone
    <3>2. Returning(<<ret>>, {x})
      <4>1. DOMAIN <<ret>> = {1} /\ <<ret>>[1] = ret
        OBVIOUS
      <4> QED
        BY <2>9, <4>1 DEF Returning
    <3>3. Sequence(b) /\ Sequence(<<ret>>)
      BY <2>10 DEF Ops
    <3>4. Returning(b \o <<ret>>, {} \cup {x})
      BY <3>1, <3>2, <3>3, ReturningConcat
    <3> QED
      BY <3>4
  <2>14. Free(ops)
    BY <2>11 DEF Ops, Free, BodyKinds
  <2> HIDE DEF K, ops
  <2>15. Sequence(ops) /\ Sequence(Tail(todo))
    BY <2>8, <2>11 DEF Ops
  <2>16. Returning(q, {x} \cup job.open) /\ Free(q)
    BY <1>1, <2>2, <2>8, <2>13, <2>14, <2>15, ReturningConcat, FreeConcat
  <2>17. Ops(q, Kinds(q)) /\ Ready(q, TRUE)
    BY <2>8, <2>11, <2>12, ReadyPlain, Spliced
  <2>18. JobShape' /\ job'.todo = q /\ job'.open = {x} \cup job.open /\ job'.config = job.config
    <3>1. job'.todo = q
      BY <1>4, <2>2, <2>3, <2>4, <2>5, <2>6 DEF JobShape, ops
    <3> QED
      BY <1>1, <1>4, <2>2, <2>4, <3>1 DEF JobShape
  <2> HIDE DEF q
  <2>19. plan' = plan /\ binary' = binary /\ files' = files
    BY <1>1 DEF Quiet, Kept
  <2>20. PlanShape' /\ Apart' /\ Settled'
    BY <2>4, <2>6, <2>18, <2>19, DiskSame, DiskStep
  <2>21. TodoOK'
    BY <2>16, <2>17, <2>18, <2>19, <2>20, FreeTodo
  <2> QED
    BY <2>18, <2>20, <2>21 DEF ProgramInv
<1> QED
  BY <1>3, <1>4 DEF CallNode

\* Returning closes what was open.
LEMMA ReturnNodeInv ==
  ASSUME ProgramInv, ReturnNode
  PROVE  ProgramInv'
<1>1. job.running /\ job.todo # << >> /\ Now.do = "return" /\ Quiet
  BY DoingNow DEF ReturnNode
<1>2. PICK todo : todo = job.todo
  OBVIOUS
<1>3. PICK st : st = Settled
  OBVIOUS
<1>4. /\ Ops(todo, Kinds(todo)) /\ Returning(todo, job.open) /\ Ready(todo, st) /\ Cleaning(todo)
      /\ todo # << >> /\ Now = Head(todo) /\ Rest = Tail(todo) /\ st \in BOOLEAN
  BY <1>1, <1>2, <1>3 DEF ProgramInv, TodoOK, Now, Rest, Settled
<1>5. Sequence(todo)
  BY <1>4 DEF Ops
<1>6. Head(todo).do \notin Prep \cup Settles \cup Breaks
  BY <1>1, <1>4 DEF Prep, Settles, Breaks
<1> DEFINE q == Tail(todo)
<1>7. Ops(q, Kinds(todo)) /\ Ready(q, st) /\ Returning(q, job.open \ {Now.x}) /\ Free(q)
  BY <1>1, <1>4, <1>5, <1>6, OpsTail, ReadyTail, ReturningTail, FreeTail
<1>8. PlanShape /\ Apart /\ JobShape
  BY DEF ProgramInv
<1>9. JobShape' /\ job'.todo = q /\ job'.open = job.open \ {Now.x} /\ job'.config = job.config
  <2>1. job' = [job EXCEPT !.todo = Rest, !.open = @ \ {Now.x}, !.done = @ \cup {Now.x},
                         !.made = @ \cup {<<Now.x, job.config>>}]
    BY DEF ReturnNode
  <2> QED
    BY <1>1, <1>4, <1>8, <2>1 DEF JobShape
<1> HIDE DEF q
<1>10. plan' = plan /\ binary' = binary /\ files' = files
  BY <1>1 DEF Quiet, Kept
<1>11. PlanShape' /\ Apart' /\ (Settled => Settled')
  BY <1>8, <1>9, <1>10, DiskSame, DiskStep
<1>12. Ops(q, Kinds(q)) /\ Returning(q, job'.open) /\ (st => Settled')
  BY <1>3, <1>7, <1>9, <1>11, OpsKinds
<1>13. TodoOK'
  BY <1>4, <1>7, <1>9, <1>10, <1>12, FreeTodo
<1> QED
  BY <1>9, <1>11, <1>13 DEF ProgramInv


\* A compilation writes an object of the configuration all stamps are of.
LEMMA CompileInv ==
  ASSUME ProgramInv, Compile
  PROVE  ProgramInv'
<1>1. job.running /\ job.todo # << >> /\ Now.do = "compile"
  BY DoingNow DEF Compile
<1>2. Now.do \notin Prep \cup Settles \cup Breaks \cup {"return"} /\ Now.do \in Work
  BY <1>1 DEF Prep, Settles, Breaks, Work
<1> DEFINE object == Object(Now.x, Now.y)
           text == CompileText(Now.x, Now.y, job.config)
<1>3. CASE Proceed(<< >>) /\ Quiet
  BY <1>1, <1>2, <1>3, GoOnInv
<1>4. CASE Made(object, text)
  <2>1. PlanShape /\ plan' = plan /\ binary' = binary /\ files' = With(files, object, text) /\ Proceed(<< >>)
    BY <1>4 DEF ProgramInv, Made, Kept
  <2>2. object[1] = "object" /\ text.config = job.config
    BY PathKinds DEF CompileText, Text
  <2> HIDE DEF object, text
  <2>3. /\ DOMAIN files' = DOMAIN files \cup {object}
        /\ \A p \in DOMAIN files : p # object => files'[p] = files[p]
        /\ files'[object].text = text
    BY <2>1 DEF With
  <2>4. Settled
    BY <1>1, <1>2, WorkSettled
  <2>5. files'[Program] = files[Program] /\ Program \in DOMAIN files'
    BY <2>1, <2>2, <2>3, PathKinds DEF PlanShape
  <2>6. \A p \in DOMAIN files' : p[1] = "stamp" => p \in DOMAIN files
    BY <2>2, <2>3
  <2>7. \A p \in DOMAIN files' : p[1] = "object" \/ p \in Guarded =>
            \/ p \in DOMAIN files /\ files'[p].text = files[p].text
            \/ Settled /\ files'[p].text.config = job.config
    BY <2>2, <2>3, <2>4
  <2>8. files'[Program].text.version \in 1 .. Len(plan)
    BY <2>1, <2>5 DEF PlanShape
  <2> QED
    BY <1>1, <1>2, <2>1, <2>5, <2>6, <2>7, <2>8, DiskOnlyStep
<1>5. CASE Fail
  BY <1>5, FailInv
<1> QED
  BY <1>3, <1>4, <1>5 DEF Compile

\* Archives and links write artifacts.
LEMMA JoinInv ==
  ASSUME ProgramInv, Join
  PROVE  ProgramInv'
<1>1. PICK t : /\ job.running /\ job.todo # << >> /\ Now.do \in {"archive", "link"}
               /\ Made(Artifact(Now.x, job.config), t)
  BY DoingNow DEF Join
<1>2. Now.do \notin Prep \cup Settles \cup Breaks \cup {"return"}
  BY <1>1 DEF Prep, Settles, Breaks
<1>3. Artifact(Now.x, job.config)[1] \notin {"stamp", "object", "output", "program"}
  BY PathKinds
<1> QED
  BY <1>1, <1>2, <1>3, MadeInv

\* require_paths goes on or fails.
LEMMA RequireInv ==
  ASSUME ProgramInv, Require
  PROVE  ProgramInv'
<1>1. job.running /\ job.todo # << >> /\ Now.do \in {"require", "verify"}
  BY DoingNow DEF Require
<1>2. Now.do \notin Prep \cup Settles \cup Breaks \cup {"return"}
  BY <1>1 DEF Prep, Settles, Breaks
<1>3. CASE Proceed(<< >>) /\ Quiet
  BY <1>1, <1>2, <1>3, GoOnInv
<1>4. CASE Fail
  BY <1>4, FailInv
<1> QED
  BY <1>3, <1>4 DEF Require

\* The guard of a step puts its commands in front, or nothing.
LEMMA GuardInv ==
  ASSUME ProgramInv, Guard
  PROVE  ProgramInv'
<1>1. job.running /\ job.todo # << >> /\ Now.do = "guard" /\ Quiet
  BY DoingNow DEF Guard
<1>2. Now.do \notin Prep \cup Settles \cup Breaks \cup {"return"} /\ Now.do \in Work
  BY <1>1 DEF Prep, Settles, Breaks, Work
<1>3. PICK ops \in {<< >>, CommandOps(Now.x)} : Proceed(ops)
  BY DEF Guard
<1>4. GoodStep(Project.step[Now.x])
  <2>1. Now.x \in DOMAIN Project.step
    BY <1>1, NowOK DEF OpOK
  <2> QED
    BY <2>1, ProjectGood DEF ProgramInv, GoodProject
<1>5. Ops(ops, StepKinds)
  BY <1>3, <1>4, OpsEmpty, CommandOpsOps
<1>6. StepKinds \cap (Breaks \cup {"return", "replay", "stamp"}) = {}
  BY DEF StepKinds, Breaks
<1> QED
  BY <1>1, <1>2, <1>3, <1>5, <1>6, QuietStep

\* A command writes outputs of the configuration all stamps are of.
LEMMA CommandInv ==
  ASSUME ProgramInv, Command
  PROVE  ProgramInv'
<1>1. job.running /\ job.todo # << >> /\ Now.do = "command" /\ Proceed(<< >>) /\ plan' = plan /\ binary' = binary
  BY DoingNow DEF Command, Kept
<1>2. Now.do \notin Prep \cup Settles \cup Breaks \cup {"return"} /\ Now.do \in Work
  BY <1>1 DEF Prep, Settles, Breaks, Work
<1> DEFINE W == Project.step[Now.x].writes[Now.y]
           new == {Output(o) : o \in W}
           text == CommandText(Now.x, job.config)
<1>3. /\ DOMAIN files' = DOMAIN files \cup new
      /\ \A p \in DOMAIN files' :
           files'[p] = IF p[1] = "output" /\ p[2] \in W THEN [time |-> clock, text |-> text] ELSE files[p]
  BY DEF Command
<1>4. text.config = job.config
  BY DEF CommandText, Text
<1>5. \A p \in new : p[1] = "output" /\ p[2] \in W
  <2>1. \A o : Output(o)[1] = "output" /\ Output(o)[2] = o
    BY DEF Output
  <2> QED
    BY <2>1
<1> HIDE DEF W, new, text
<1>6. Settled
  BY <1>1, <1>2, WorkSettled
<1>7. ASSUME NEW p \in DOMAIN files'
      PROVE  \/ p[1] = "output" /\ files'[p].text.config = job.config
             \/ p \in DOMAIN files /\ files'[p] = files[p]
  <2>1. CASE p[1] = "output" /\ p[2] \in W
    <3>1. files'[p] = [time |-> clock, text |-> text]
      BY <1>3, <2>1
    <3> QED
      BY <1>4, <2>1, <3>1
  <2>2. CASE ~(p[1] = "output" /\ p[2] \in W)
    BY <1>3, <1>5, <2>2
  <2> QED
    BY <2>1, <2>2
<1>8. Program \in DOMAIN files' /\ files'[Program].text.version \in 1 .. Len(plan)
  <2>1. Program \in DOMAIN files'
    BY <1>3 DEF ProgramInv, PlanShape
  <2>2. files'[Program] = files[Program]
    BY <1>7, <2>1, PathKinds
  <2> QED
    BY <2>1, <2>2 DEF ProgramInv, PlanShape
<1>9. \A p \in DOMAIN files' : p[1] = "stamp" => p \in DOMAIN files
  BY <1>7
<1>10. \A p \in DOMAIN files' : p[1] = "object" \/ p \in Guarded =>
            \/ p \in DOMAIN files /\ files'[p].text = files[p].text
            \/ Settled /\ files'[p].text.config = job.config
  BY <1>6, <1>7
<1> QED
  BY <1>1, <1>2, <1>8, <1>9, <1>10, DiskOnlyStep

\* Ends of the program.
LEMMA EndInv ==
  ASSUME ProgramInv, CallRefused \/ ToolFails \/ Return
  PROVE  ProgramInv'
BY FailInv, EndStep DEF CallRefused, ToolFails, Return, Finished, Kept

\* Removals.
LEMMA RemoveInv ==
  ASSUME ProgramInv, RemovePath
  PROVE  ProgramInv'
<1>1. /\ job.running /\ job.todo # << >> /\ Now.do = "remove" /\ Proceed(<< >>) /\ plan' = plan /\ binary' = binary
      /\ files' = Without(files, Now.set) /\ PlanShape
  BY DoingNow DEF RemovePath, Kept, ProgramInv
<1>2. Now.do \in Prep
  BY <1>1 DEF Prep
<1>3. \A p \in Now.set : p[1] # "program"
  BY <1>1, NowOK DEF OpOK
<1>4. Program \in DOMAIN files' /\ files'[Program].text.version \in 1 .. Len(plan)
  BY <1>1, <1>3, DiskRemove
<1>5. DOMAIN files' = DOMAIN files \ Now.set /\ \A p \in DOMAIN files' : files'[p] = files[p]
  BY <1>1 DEF Without
<1>6. Ops(<< >>, {}) /\ {} \subseteq {"remove"}
  BY OpsEmpty
<1>7. \A p \in DOMAIN files' : StateFile(p) =>
            /\ p \in DOMAIN files /\ files'[p].text = files[p].text
            /\ Removes(Now, p) => \E k \in DOMAIN << >> : Removes(<< >>[k], p)
  BY <1>1, <1>5 DEF Removes
<1>8. \A p \in Guarded \cap DOMAIN files' :
            \/ Settled /\ files'[p].text.config = job.config
            \/ p \in DOMAIN files /\ files'[p].text = files[p].text /\ ~Rewrites(Now, p)
  BY <1>1, <1>5 DEF Rewrites
<1> QED
  BY <1>1, <1>2, <1>4, <1>6, <1>7, <1>8, PrepStep

\* The end of clean_all.
LEMMA CleanedInv ==
  ASSUME ProgramInv, Cleaned
  PROVE  ProgramInv'
<1>1. /\ job.running /\ job.todo # << >> /\ Now.do = "cleaned" /\ Proceed(<< >>) /\ plan' = plan /\ binary' = binary
      /\ files' = files /\ PlanShape
  BY DoingNow DEF Cleaned, Kept, ProgramInv
<1>2. Now.do \in Prep
  BY <1>1 DEF Prep
<1>3. Program \in DOMAIN files' /\ files'[Program].text.version \in 1 .. Len(plan)
  BY <1>1 DEF PlanShape
<1>4. Ops(<< >>, {}) /\ {} \subseteq {"remove"}
  BY OpsEmpty
<1>5. \A p \in DOMAIN files' : StateFile(p) =>
            /\ p \in DOMAIN files /\ files'[p].text = files[p].text
            /\ Removes(Now, p) => \E k \in DOMAIN << >> : Removes(<< >>[k], p)
  BY <1>1 DEF Removes
<1>6. \A p \in Guarded \cap DOMAIN files' :
            \/ Settled /\ files'[p].text.config = job.config
            \/ p \in DOMAIN files /\ files'[p].text = files[p].text /\ ~Rewrites(Now, p)
  BY <1>1 DEF Rewrites
<1> QED
  BY <1>1, <1>2, <1>3, <1>4, <1>5, <1>6, PrepStep

\* The state directory goes in two parts, in either order.
LEMMA RemoveStateInv ==
  ASSUME ProgramInv, RemoveState
  PROVE  ProgramInv'
<1>1. /\ job.running /\ job.todo # << >> /\ Now.do = "remove state" /\ plan' = plan /\ binary' = binary
      /\ files' = files /\ PlanShape
  BY DoingNow DEF RemoveState, Quiet, Kept, ProgramInv
<1>2. Now.do \in Prep
  BY <1>1 DEF Prep
<1>3. PICK first \in SUBSET StateFiles :
        Proceed(<<SetOp("remove", first), SetOp("remove", StateFiles \ first)>>)
  BY DEF RemoveState
<1>4. PICK a, b : a = SetOp("remove", first) /\ b = SetOp("remove", StateFiles \ first)
  OBVIOUS
<1>5. \A p \in StateFiles : p[1] # "program"
  BY DEF StateFiles
<1>6. a.do = "remove" /\ OpOK(a) /\ b.do = "remove" /\ OpOK(b)
  BY <1>4, <1>5, RemoveOK
<1>7. a.set = first /\ b.set = StateFiles \ first
  BY <1>4 DEF SetOp
<1>8. Ops(<<a, b>>, {"remove"}) /\ Proceed(<<a, b>>)
  BY <1>3, <1>4, <1>6, OpsTwo
<1>9. DOMAIN <<a, b>> = {1, 2} /\ <<a, b>>[1] = a /\ <<a, b>>[2] = b
  OBVIOUS
<1>10. Program \in DOMAIN files' /\ files'[Program].text.version \in 1 .. Len(plan)
  BY <1>1 DEF PlanShape
<1>11. \A p \in DOMAIN files' : StateFile(p) =>
            /\ p \in DOMAIN files /\ files'[p].text = files[p].text
            /\ Removes(Now, p) => \E k \in DOMAIN <<a, b>> : Removes(<<a, b>>[k], p)
  <2> TAKE p \in DOMAIN files'
  <2> HAVE StateFile(p)
  <2>1. p \in StateFiles
    BY <1>1 DEF StateFile, StateFiles
  <2>2. Removes(a, p) \/ Removes(b, p)
    BY <1>6, <1>7, <2>1 DEF Removes
  <2> QED
    BY <1>1, <1>9, <2>2
<1>12. \A p \in Guarded \cap DOMAIN files' :
            \/ Settled /\ files'[p].text.config = job.config
            \/ p \in DOMAIN files /\ files'[p].text = files[p].text /\ ~Rewrites(Now, p)
  BY <1>1 DEF Rewrites
<1> QED
  BY <1>1, <1>2, <1>8, <1>10, <1>11, <1>12, PrepStep

\* At a configure action and at the stamp the tree is clean, and at the stamp
\* each guarded file is of the configuration at hand.
LEMMA CleanNow ==
  ASSUME ProgramInv, job.todo # << >>, Now.do \in {"replay", "stamp"}
  PROVE  /\ \A p \in DOMAIN files : ~StateFile(p)
         /\ Now.do = "stamp" => \A p \in Guarded \cap DOMAIN files : files[p].text.config = job.config
<1>1. Cleaning(job.todo) /\ Sequence(job.todo)
  BY DEF ProgramInv, TodoOK, Ops
<1>2. /\ Head(job.todo) = job.todo[1] /\ Len(job.todo) \in Nat \ {0}
      /\ DOMAIN job.todo = 1 .. Len(job.todo)
  BY <1>1, TailOf, SequenceElim
<1>3. 1 \in DOMAIN job.todo /\ 1 .. (1 - 1) = {}
  BY <1>2
<1> QED
  BY <1>1, <1>2, <1>3 DEF Cleaning, Now

\* A configure action works in a clean tree, for the configuration at hand.
LEMMA ReplayInv ==
  ASSUME ProgramInv, Replay
  PROVE  ProgramInv'
<1>1. /\ job.running /\ job.todo # << >> /\ Now.do = "replay" /\ plan' = plan /\ binary' = binary
      /\ Proceed(<< >>) /\ PlanShape
  BY DoingNow DEF Replay, Kept, ProgramInv
<1>2. Now.do \in Prep
  BY <1>1 DEF Prep
<1>3. PICK a : a = Project.configure[Now.y]
  OBVIOUS
<1>4. PICK out : out = Output(a.path)
  OBVIOUS
<1>5. out[1] = "output"
  BY <1>4, PathKinds
<1>6. PICK text : /\ text.config = job.config
                  /\ files' = IF a.op = "remove" THEN Without(files, {out}) ELSE With(files, out, text)
  <2> DEFINE old == IF a.op = "append" /\ Exists(out) THEN Reading({out}) ELSE {}
             new == Text(a.op, job.config, binary, old)
  <2>1. new.config = job.config
    BY DEF Text
  <2>2. files' = IF a.op = "remove" THEN Without(files, {out}) ELSE With(files, out, new)
    BY <1>3, <1>4 DEF Replay
  <2> HIDE DEF new
  <2> QED
    BY <2>1, <2>2
<1>7. \A p \in DOMAIN files' : \/ p = out /\ a.op # "remove" /\ files'[p].text = text
                               \/ p # out /\ p \in DOMAIN files /\ files'[p] = files[p]
  BY <1>6 DEF With, Without
<1>8. \A p \in DOMAIN files : p # out => p \in DOMAIN files'
  BY <1>6 DEF With, Without
<1>9. \A p \in DOMAIN files : ~StateFile(p)
  BY <1>1, CleanNow
<1>10. \A p \in DOMAIN files' : ~StateFile(p)
  BY <1>5, <1>7, <1>9 DEF StateFile
<1>11. Program # out /\ Program \in DOMAIN files
  BY <1>1, <1>5, PathKinds DEF PlanShape
<1>12. Program \in DOMAIN files' /\ files'[Program].text.version \in 1 .. Len(plan)
  BY <1>1, <1>7, <1>8, <1>11 DEF PlanShape
<1>13. Settled
  BY <1>9 DEF Settled, StateFile
<1>14. \A p \in Guarded \cap DOMAIN files' :
            \/ Settled /\ files'[p].text.config = job.config
            \/ p \in DOMAIN files /\ files'[p].text = files[p].text /\ ~Rewrites(Now, p)
  BY <1>3, <1>4, <1>6, <1>7, <1>13 DEF Rewrites
<1>15. Ops(<< >>, {}) /\ {} \subseteq {"remove"}
  BY OpsEmpty
<1>16. \A p \in DOMAIN files' : StateFile(p) =>
            /\ p \in DOMAIN files /\ files'[p].text = files[p].text
            /\ Removes(Now, p) => \E k \in DOMAIN << >> : Removes(<< >>[k], p)
  BY <1>10
<1> QED
  BY <1>1, <1>2, <1>12, <1>14, <1>15, <1>16, PrepStep

\* After configure_all, whether it found all in place or wrote the stamp.
LEMMA SettledStep ==
  ASSUME ProgramInv, job.todo # << >>, Now.do \in Settles, plan' = plan, binary' = binary,
         JobShape', job'.todo = << >> \o Rest, job'.open = job.open, Settled', PlanShape', Apart'
  PROVE  ProgramInv'
<1>1. PICK todo : todo = job.todo
  OBVIOUS
<1>2. PICK st : st = Settled
  OBVIOUS
<1>3. /\ Ops(todo, Kinds(todo)) /\ Returning(todo, job.open) /\ Ready(todo, st) /\ Cleaning(todo)
      /\ todo # << >> /\ Now = Head(todo) /\ Rest = Tail(todo) /\ st \in BOOLEAN
  BY <1>1, <1>2 DEF ProgramInv, TodoOK, Now, Rest, Settled
<1>4. Sequence(todo) /\ Head(todo).do \notin Prep
  BY <1>3 DEF Ops, Prep, Settles
<1> DEFINE q == Tail(todo)
<1>5. Ops(q, Kinds(todo)) /\ Ready(q, TRUE) /\ Returning(q, job.open) /\ Free(q)
  BY <1>3, <1>4, OpsTail, ReadyTail, ReturningTail, FreeTail
<1>6. q \in Seq(ToSet(q))
  BY <1>5 DEF Ops, Sequence
<1> HIDE DEF q
<1>7. << >> \o q = q
  BY <1>6
<1>8. job'.todo = q
  BY <1>3, <1>7 DEF q
<1>9. Ops(q, Kinds(q)) /\ Returning(q, job'.open)
  BY <1>5, OpsKinds
<1>10. TodoOK'
  BY <1>5, <1>8, <1>9, FreeTodo
<1> QED
  BY <1>10 DEF ProgramInv

\* The stamp is written into a tree without another, whose configure
\* outputs are all of its configuration.
LEMMA WriteStampInv ==
  ASSUME ProgramInv, WriteStamp
  PROVE  ProgramInv'
<1>1. /\ job.running /\ job.todo # << >> /\ Now.do = "stamp" /\ plan' = plan /\ binary' = binary
      /\ Proceed(<< >>) /\ PlanShape /\ JobShape /\ Apart
  BY DoingNow DEF WriteStamp, Made, Kept, ProgramInv
<1>2. PICK stamp : stamp = Stamp(job.config)
  OBVIOUS
<1>3. stamp[1] = "stamp" /\ stamp[2] = job.config
  BY <1>2, PathKinds
<1>4. PICK text : files' = With(files, stamp, text)
  BY <1>2 DEF WriteStamp, Made
<1>5. /\ DOMAIN files' = DOMAIN files \cup {stamp}
      /\ \A p \in DOMAIN files : p # stamp => files'[p] = files[p]
  BY <1>4 DEF With
<1>6. /\ \A p \in DOMAIN files : ~StateFile(p)
      /\ \A p \in Guarded \cap DOMAIN files : files[p].text.config = job.config
  BY <1>1, CleanNow
<1>7. JobShape' /\ job'.todo = << >> \o Rest /\ job'.open = job.open /\ job'.config = job.config
  BY <1>1, JobStep DEF Proceed
<1>8. PlanShape'
  <2>1. Program # stamp
    BY <1>3, PathKinds
  <2> QED
    BY <1>1, <1>5, <2>1 DEF PlanShape, Program
<1>9. \A p \in DOMAIN files' : p[1] = "stamp" => p = stamp
  BY <1>5, <1>6 DEF StateFile
<1>10. Settled'
  BY <1>2, <1>7, <1>9 DEF Settled, Stamp
<1>11. Apart'
  <2>1. \A p : Vouched(p)' <=> Vouched(p)
    BY <1>1, VouchedSame
  <2>2. \A q \in DOMAIN files' : Vouched(q) => files'[q].text.config = job.config
    BY <1>3, <1>5, <1>6, GuardedOutputs DEF StateFile, Vouched
  <2> QED
    BY <1>3, <1>9, <2>1, <2>2 DEF Apart
<1> QED
  BY <1>1, <1>7, <1>8, <1>10, <1>11, SettledStep DEF Settles

\* What configure_all puts in front: the tree is clean before the actions,
\* and each guarded file is written before the stamp.
LEMMA ConfigureCleans ==
  ASSUME GoodProject(Project), NEW q, Sequence(q), Free(q)
  PROVE  Cleaning(ConfigureOps \o q)
<1>1. PICK c : c = ConfigureOps
  OBVIOUS
<1>2. PICK n : n = Len(Project.configure)
  OBVIOUS
<1>3. /\ Sequence(c) /\ Len(c) = 7 + n /\ n \in Nat /\ DOMAIN Project.configure = 1 .. n
      /\ c[1].do = "remove state"
      /\ \A i \in 1 .. 6 : c[i].do \in Prep \ {"replay"}
      /\ \A k \in 1 .. n : c[6 + k] = Op("replay", "", k)
      /\ c[7 + n].do = "stamp"
  BY <1>1, <1>2, ConfigureOpsShape DEF Ops
<1> DEFINE r == c \o q
           m == Len(c)
<1>4. Len(q) \in Nat /\ DOMAIN q = 1 .. Len(q)
  BY SequenceElim
<1>5. /\ Sequence(r) /\ Len(r) = m + Len(q)
      /\ \A i \in 1 .. m : r[i] = c[i]
      /\ \A i \in (m + 1) .. (m + Len(q)) : r[i] = q[i - m]
  <2>1. Sequence(c) /\ Sequence(q)
    BY <1>3
  <2> QED
    BY <2>1, Concat
<1>6. DOMAIN r = 1 .. (m + Len(q)) /\ m = 7 + n /\ m \in Nat /\ n \in Nat
  <2>1. DOMAIN r = 1 .. Len(r)
    BY <1>5, SequenceElim
  <2>2. m = 7 + n /\ n \in Nat
    BY <1>3
  <2> HIDE DEF m, r
  <2> QED
    BY <1>5, <2>1, <2>2
<1> HIDE DEF r, m
<1>7. \A k \in 1 .. n : c[6 + k].do = "replay" /\ c[6 + k].y = k
  <2>1. \A k : Op("replay", "", k).do = "replay" /\ Op("replay", "", k).y = k
    BY DEF Op
  <2> QED
    BY <1>3, <2>1
<1>8. \A k \in 7 .. (6 + n) : c[k].do = "replay"
  <2> TAKE k \in 7 .. (6 + n)
  <2>1. k - 6 \in 1 .. n /\ 6 + (k - 6) = k
    BY <1>6
  <2> QED
    BY <1>7, <2>1
<1>9. \A k \in 1 .. (6 + n) : c[k].do \in Prep
  <2> TAKE k \in 1 .. (6 + n)
  <2>1. CASE k \in 1 .. 6
    BY <1>3, <2>1
  <2>2. CASE k \in 7 .. (6 + n)
    BY <1>8, <2>2 DEF Prep
  <2> QED
    BY <1>6, <2>1, <2>2
<1>10. ASSUME NEW i \in DOMAIN r, r[i].do \in {"replay", "stamp"}
       PROVE  /\ \A k \in 1 .. (i - 1) : r[k].do \in Prep
              /\ \A p \in DOMAIN files : StateFile(p) => \E k \in 1 .. (i - 1) : Removes(r[k], p)
              /\ r[i].do = "stamp" =>
                   \A p \in Guarded \cap DOMAIN files :
                     \/ files[p].text.config = job.config
                     \/ \E k \in 1 .. (i - 1) : Rewrites(r[k], p)
  <2>1. i \in 1 .. m
    <3>1. CASE i \in (m + 1) .. (m + Len(q))
      <4>1. i - m \in DOMAIN q /\ r[i] = q[i - m]
        BY <1>4, <1>5, <1>6, <3>1
      <4> QED
        BY <1>10, <4>1 DEF Free
    <3> QED
      BY <1>4, <1>6, <3>1
  <2>2. r[i] = c[i]
    BY <1>5, <2>1
  <2>3. i \in 7 .. (7 + n)
    <3>1. i \notin 1 .. 6
      BY <1>3, <1>10, <2>2 DEF Prep
    <3> QED
      BY <1>6, <2>1, <3>1
  <2>4. \A k \in 1 .. (i - 1) : r[k] = c[k] /\ k \in 1 .. (6 + n)
    BY <1>5, <1>6, <2>3
  <2>5. \A k \in 1 .. (i - 1) : r[k].do \in Prep
    BY <1>9, <2>4
  <2>6. 1 \in 1 .. (i - 1)
    BY <1>6, <2>3
  <2>7. \A p : Removes(r[1], p)
    BY <1>3, <2>4, <2>6 DEF Removes
  <2>8. ASSUME r[i].do = "stamp", NEW p \in Guarded PROVE \E k \in 1 .. (i - 1) : Rewrites(r[k], p)
    <3>1. i = 7 + n
      <4>1. i \notin 7 .. (6 + n)
        BY <1>8, <2>2, <2>8
      <4> QED
        BY <1>6, <2>3, <4>1
    <3>2. PICK a \in ToSet(Project.configure) : a.op # "remove" /\ p = Output(a.path)
      BY <2>8 DEF Guarded
    <3>3. PICK k \in 1 .. n : a = Project.configure[k]
      BY <1>3, <3>2 DEF ToSet
    <3>4. 6 + k \in 1 .. (i - 1) /\ r[6 + k] = c[6 + k]
      BY <1>6, <2>4, <3>1
    <3>5. Rewrites(r[6 + k], p)
      BY <1>7, <3>2, <3>3, <3>4 DEF Rewrites
    <3> QED
      BY <3>4, <3>5
  <2> QED
    BY <2>5, <2>6, <2>7, <2>8
<1>11. Cleaning(r)
  BY <1>10 DEF Cleaning
<1> QED
  BY <1>1, <1>11 DEF r

\* configure_all.
LEMMA ConfigureRunInv ==
  ASSUME ProgramInv, ConfigureRun
  PROVE  ProgramInv'
<1>1. /\ job.running /\ job.todo # << >> /\ Now.do = "configure" /\ plan' = plan /\ binary' = binary
      /\ files' = files /\ PlanShape /\ JobShape /\ Apart
  BY DoingNow DEF ConfigureRun, Quiet, Kept, ProgramInv
<1>2. PICK ops : /\ Proceed(ops)
                 /\ \/ Exists(Stamp(job.config)) /\ ops = << >>
                    \/ ops = ConfigureOps
  <2> DEFINE ops == IF Configured(Now.x = "force") THEN << >> ELSE ConfigureOps
  <2>1. Proceed(ops)
    BY DEF ConfigureRun
  <2>2. (Exists(Stamp(job.config)) /\ ops = << >>) \/ ops = ConfigureOps
    BY DEF Configured
  <2> HIDE DEF ops
  <2> QED
    BY <2>1, <2>2
<1>3. JobShape' /\ job'.todo = ops \o Rest /\ job'.open = job.open /\ job'.config = job.config
  BY <1>1, <1>2, JobStep DEF Proceed
<1>4. PlanShape' /\ Apart' /\ (Settled => Settled')
  BY <1>1, <1>3, DiskSame, DiskStep
<1>5. CASE Exists(Stamp(job.config)) /\ ops = << >>
  <2>1. Stamp(job.config)[1] = "stamp"
    BY PathKinds
  <2>2. Settled
    BY <1>1, <1>5, <2>1 DEF Settled, Apart, Exists
  <2> QED
    BY <1>1, <1>3, <1>4, <1>5, <2>2, SettledStep DEF Settles
<1>6. CASE ops = ConfigureOps
  <2>1. PICK todo : todo = job.todo
    OBVIOUS
  <2>2. PICK st : st = Settled
    OBVIOUS
  <2>3. /\ Ops(todo, Kinds(todo)) /\ Returning(todo, job.open) /\ Ready(todo, st) /\ Cleaning(todo)
        /\ todo # << >> /\ Now = Head(todo) /\ Rest = Tail(todo) /\ st \in BOOLEAN
    BY <1>1, <2>1, <2>2 DEF ProgramInv, TodoOK, Now, Rest, Settled
  <2>4. Sequence(todo) /\ Head(todo).do \notin Prep
    BY <1>1, <2>3 DEF Ops, Prep
  <2>5. Ops(Rest, Kinds(todo)) /\ Ready(Rest, TRUE) /\ Returning(Rest, job.open) /\ Free(Rest)
    BY <2>3, <2>4, OpsTail, ReadyTail, ReturningTail, FreeTail
  <2>6. PICK K : K = Prep \cup {"stamp"}
    OBVIOUS
  <2>7. Ops(ops, K) /\ K \cap Work = {} /\ "return" \notin K
    BY <1>1, <1>6, <2>6, ProjectGood, ConfigureOpsShape DEF Prep, Work
  <2>8. Leaves(ops, st)
    <3>1. /\ Len(ops) = 7 + Len(Project.configure) /\ Len(Project.configure) \in Nat
          /\ ops[7 + Len(Project.configure)].do = "stamp"
      BY <1>1, <1>6, ProjectGood, ConfigureOpsShape
    <3>2. DOMAIN ops = 1 .. Len(ops)
      BY <2>7, SequenceElim DEF Ops
    <3>3. Len(ops) \in DOMAIN ops /\ ops[Len(ops)].do \in Settles /\ (Len(ops) + 1) .. Len(ops) = {}
      BY <3>1, <3>2 DEF Settles
    <3> QED
      BY <3>3 DEF Leaves
  <2> DEFINE q == ops \o Rest
  <2>9. Ops(q, Kinds(q)) /\ Ready(q, st)
    <3>1. Ready(ops, st)
      BY <2>7, ReadyIdle
    <3> QED
      BY <2>3, <2>5, <2>7, <2>8, <3>1, Spliced
  <2>10. Returning(q, job.open)
    <3>1. Returning(ops, {}) /\ Sequence(ops) /\ Sequence(Rest)
      BY <2>5, <2>7, ReturningNone DEF Ops
    <3>2. Returning(q, {} \cup job.open)
      BY <2>5, <3>1, ReturningConcat
    <3> QED
      BY <3>2
  <2>11. Cleaning(q)
    <3>1. Sequence(Rest)
      BY <2>5 DEF Ops
    <3> QED
      BY <1>1, <1>6, <2>5, <3>1, ProjectGood, ConfigureCleans
  <2>12. PICK todo1 : todo1 = q
    OBVIOUS
  <2>13. Cleaning(todo1)'
    <3>1. Guarded' = Guarded /\ Project' = Project
      BY <1>1 DEF Guarded, Project
    <3>2. Cleaning(todo1)
      BY <2>11, <2>12
    <3>3. \A op, p : Rewrites(op, p) <=> Rewrites(op, p)'
      BY <3>1 DEF Rewrites, Output
    <3> QED
      BY <1>1, <1>3, <3>1, <3>2, <3>3 DEF Cleaning, Prep, Removes, StateFile
  <2>14. job'.todo = todo1 /\ Ops(todo1, Kinds(todo1)) /\ Ready(todo1, st) /\ Returning(todo1, job'.open)
    BY <1>3, <2>9, <2>10, <2>12
  <2>15. TodoOK'
    BY <1>1, <1>4, <2>2, <2>3, <2>13, <2>14, CleanTodo
  <2> QED
    BY <1>3, <1>4, <2>15 DEF ProgramInv
<1> QED
  BY <1>2, <1>5, <1>6

-----------------------------------------------------------------------------
(***************************************************************************)
(* The invariant: the other steps of the program.                          *)
(***************************************************************************)

\* An operation after which the stamps are not known to be settled: what it
\* puts in front settles them before it works.
LEMMA BreakStep ==
  ASSUME ProgramInv, job.running, job.todo # << >>, Now.do \in Breaks,
         NEW K, NEW ops, Ops(ops, K), K \cap {"return", "replay", "stamp"} = {}, Ready(ops, FALSE),
         JobShape', job'.todo = ops \o Rest, job'.open = job.open, Quiet
  PROVE  ProgramInv'
<1>1. PICK todo : todo = job.todo
  OBVIOUS
<1>2. PICK st : st = Settled
  OBVIOUS
<1>3. /\ Ops(todo, Kinds(todo)) /\ Returning(todo, job.open) /\ Ready(todo, st) /\ Cleaning(todo)
      /\ todo # << >> /\ Now = Head(todo) /\ Rest = Tail(todo) /\ st \in BOOLEAN
  BY <1>1, <1>2 DEF ProgramInv, TodoOK, Now, Rest, Settled
<1>4. Sequence(todo) /\ Head(todo).do \notin Prep \cup Settles /\ Head(todo).do \in Breaks
  BY <1>3 DEF Ops, Prep, Settles, Breaks
<1>5. Ops(Rest, Kinds(todo)) /\ Ready(Rest, FALSE) /\ Returning(Rest, job.open) /\ Free(Rest)
  BY <1>3, <1>4, OpsTail, ReadyTail, ReturningTail, FreeTail
<1> DEFINE q == ops \o Rest
<1>6. Ops(q, Kinds(q)) /\ Ready(q, FALSE)
  BY <1>5, Spliced
<1>7. Sequence(ops) /\ Sequence(Rest)
  BY <1>5 DEF Ops
<1>8. Returning(q, job.open)
  <2>1. Returning(ops, {})
    BY ReturningNone
  <2>2. Returning(q, {} \cup job.open)
    BY <1>5, <1>7, <2>1, ReturningConcat
  <2> QED
    BY <2>2
<1>9. Free(q)
  <2>1. Free(ops)
    BY DEF Free, Ops
  <2> QED
    BY <1>5, <1>7, <2>1, FreeConcat
<1>10. PICK todo1 : todo1 = q
  OBVIOUS
<1>11. plan' = plan /\ binary' = binary /\ files' = files
  BY DEF Quiet, Kept
<1>12. TodoOK'
  <2>1. /\ job'.todo = todo1 /\ Ops(todo1, Kinds(todo1)) /\ Ready(todo1, FALSE)
        /\ Returning(todo1, job'.open) /\ Free(todo1)
    BY <1>6, <1>8, <1>9, <1>10
  <2> QED
    BY <1>11, <2>1, FreeTodo
<1>13. PlanShape' /\ Apart'
  BY <1>11, VouchedSame DEF ProgramInv, PlanShape, Apart, Program
<1> QED
  BY <1>12, <1>13 DEF ProgramInv

\* The configuration of a dashboard step.
LEMMA SetConfigInv ==
  ASSUME ProgramInv, SetConfig
  PROVE  ProgramInv'
<1>1. job.running /\ job.todo # << >> /\ Now.do = "config" /\ Quiet /\ JobShape
      /\ job' = [job EXCEPT !.todo = Rest, !.config = Now.x]
  BY DoingNow DEF SetConfig, ProgramInv
<1>2. JobShape' /\ job'.todo = Rest /\ job'.open = job.open
  BY <1>1 DEF JobShape
<1>3. << >> \o Rest = Rest
  <2>1. Ops(job.todo, Kinds(job.todo))
    BY DEF ProgramInv, TodoOK
  <2>2. Rest \in Seq(ToSet(Rest))
    BY <1>1, <2>1, OpsTail DEF Ops, Rest, Sequence
  <2> QED
    BY <2>2
<1>4. Ops(<< >>, {}) /\ {} \cap {"return", "replay", "stamp"} = {}
  BY OpsEmpty
<1>5. Ready(<< >>, FALSE)
  BY <1>4, ReadyIdle
<1>6. Now.do \in Breaks /\ job'.todo = << >> \o Rest
  BY <1>1, <1>2, <1>3 DEF Breaks
<1> QED
  BY <1>1, <1>2, <1>4, <1>5, <1>6, BreakStep

\* The installed, exported and packaged files are elsewhere.
LEMMA CopyInv ==
  ASSUME ProgramInv, Copy \/ Write \/ Pack \/ AppendMetadata
  PROVE  ProgramInv'
<1>1. CASE Fail
  BY <1>1, FailInv
<1>2. ASSUME job.running, job.todo # << >>, Now.do \in {"copy", "write", "pack", "metadata"},
             NEW path, path[1] \in Elsewhere \cup {"metadata"}, NEW t, Made(path, t)
      PROVE  ProgramInv'
  <2>1. Now.do \notin Prep \cup Settles \cup Breaks \cup {"return"}
    BY <1>2 DEF Prep, Settles, Breaks
  <2>2. path[1] \notin {"stamp", "object", "output", "program"}
    BY <1>2 DEF Elsewhere
  <2> QED
    BY <1>2, <2>1, <2>2, MadeInv
<1>3. job.todo # << >> => OpOK(Now)
  BY NowOK
<1>4. CASE Copy
  <2>1. job.running /\ job.todo # << >> /\ Now.do = "copy"
    BY <1>4, DoingNow DEF Copy
  <2>2. Now.y[1] \in Elsewhere
    BY <1>3, <2>1 DEF OpOK
  <2>3. Made(Now.y, files[Now.x].text) \/ Fail
    BY <1>4 DEF Copy
  <2> QED
    BY <1>1, <1>2, <2>1, <2>2, <2>3
<1>5. CASE Write
  <2>1. job.running /\ job.todo # << >> /\ Now.do = "write"
    BY <1>5, DoingNow DEF Write
  <2>2. Now.x[1] \in Elsewhere
    BY <1>3, <2>1 DEF OpOK
  <2>3. Made(Now.x, Text("write", job.config, binary, {}))
    BY <1>5 DEF Write
  <2> QED
    BY <1>2, <2>1, <2>2, <2>3
<1>6. CASE Pack
  <2>1. job.running /\ job.todo # << >> /\ Now.do = "pack"
    BY <1>6, DoingNow DEF Pack
  <2>2. Now.y[1] \in Elsewhere
    BY <1>3, <2>1 DEF OpOK
  <2>3. PICK t : Made(Now.y, t)
    BY <1>6 DEF Pack
  <2> QED
    BY <1>2, <2>1, <2>2, <2>3
<1>7. CASE AppendMetadata
  <2>1. job.running /\ job.todo # << >> /\ Now.do = "metadata"
    BY <1>7, DoingNow DEF AppendMetadata
  <2>2. Metadata(Now.x)[1] = "metadata"
    BY DEF Metadata
  <2>3. PICK t : Made(Metadata(Now.x), t)
    BY <1>7 DEF AppendMetadata
  <2> QED
    BY <1>2, <2>1, <2>2, <2>3
<1> QED
  BY <1>4, <1>5, <1>6, <1>7

\* An operation of no special kind whose outcome is counted.
LEMMA CountedInv ==
  ASSUME ProgramInv, job.running, job.todo # << >>,
         Now.do \notin Prep \cup Settles \cup Breaks \cup {"return"},
         NEW failed, job' = [job EXCEPT !.todo = Rest, !.failed = failed], Quiet
  PROVE  ProgramInv'
<1>1. PlanShape /\ Apart /\ JobShape
  BY DEF ProgramInv
<1>2. JobShape' /\ job'.todo = Rest /\ job'.open = job.open /\ job'.config = job.config
  BY <1>1 DEF JobShape
<1>3. << >> \o Rest = Rest
  <2>1. Ops(job.todo, Kinds(job.todo))
    BY DEF ProgramInv, TodoOK
  <2>2. Rest \in Seq(ToSet(Rest))
    BY <2>1, OpsTail DEF Ops, Rest, Sequence
  <2> QED
    BY <2>2
<1>4. files' = files /\ plan' = plan /\ binary' = binary
  BY DEF Quiet, Kept
<1>5. PlanShape' /\ Apart' /\ (Settled => Settled')
  BY <1>1, <1>2, <1>4, DiskSame, DiskStep
<1>6. Ops(<< >>, {}) /\ {} \cap (Breaks \cup {"return", "replay", "stamp"}) = {} /\ {} \cap Work = {}
  BY OpsEmpty
<1>7. job'.todo = << >> \o Rest
  BY <1>2, <1>3
<1> QED
  BY <1>2, <1>4, <1>5, <1>6, <1>7, PlainStep

\* A directory is copied elsewhere too.
LEMMA CopyTreeInv ==
  ASSUME ProgramInv, CopyTree
  PROVE  ProgramInv'
<1>1. /\ job.running /\ job.todo # << >> /\ Now.do = "copy tree" /\ Proceed(<< >>) /\ plan' = plan
      /\ binary' = binary /\ PlanShape
  BY DoingNow DEF CopyTree, Kept, ProgramInv
<1>2. Now.do \notin Prep \cup Settles \cup Breaks \cup {"return"}
  BY <1>1 DEF Prep, Settles, Breaks
<1>3. Now.x[1] \in Elsewhere
  BY <1>1, NowOK DEF OpOK
<1> DEFINE found == Now.set \cap DOMAIN files
           to(p) == Destination(Now.x, p[2])
           new == {to(p) : p \in found}
<1>4. /\ DOMAIN files' = DOMAIN files \cup new
      /\ \A q \in DOMAIN files' : ~(\E p \in found : q = to(p)) => files'[q] = files[q]
  BY DEF CopyTree
<1>5. \A n : Destination(Now.x, n)[1] \in Elsewhere
  <2>1. \A n : Destination(Now.x, n)[1] = Now.x[1]
    BY DEF Destination
  <2> QED
    BY <1>3, <2>1
<1>6. \A q \in new : q[1] \in Elsewhere
  BY <1>5
<1>7. \A q \in DOMAIN files' : q[1] \notin Elsewhere => q \in DOMAIN files /\ files'[q] = files[q]
  BY <1>4, <1>5, <1>6
<1>8. DOMAIN files \subseteq DOMAIN files'
  BY <1>4
<1> HIDE DEF found, to, new
<1>9. Program[1] \notin Elsewhere
  BY PathKinds DEF Elsewhere
<1>10. Program \in DOMAIN files' /\ files'[Program].text.version \in 1 .. Len(plan)
  BY <1>1, <1>7, <1>8, <1>9 DEF PlanShape
<1>11. \A p \in DOMAIN files' : p[1] \in {"stamp", "object", "output"} => p \in DOMAIN files /\ files'[p] = files[p]
  BY <1>7 DEF Elsewhere
<1>12. /\ \A p \in DOMAIN files' : p[1] = "stamp" => p \in DOMAIN files
       /\ \A p \in DOMAIN files' : p[1] = "object" \/ p \in Guarded =>
              p \in DOMAIN files /\ files'[p].text = files[p].text
  BY <1>11, GuardedOutputs
<1> QED
  BY <1>1, <1>2, <1>10, <1>12, DiskOnlyStep

\* The staging directory of a package is emptied.
LEMMA UnstageInv ==
  ASSUME ProgramInv, Unstage
  PROVE  ProgramInv'
<1>1. /\ job.running /\ job.todo # << >> /\ Now.do = "unstage" /\ Proceed(<< >>) /\ plan' = plan
      /\ binary' = binary /\ PlanShape
  BY DoingNow DEF Unstage, Kept, ProgramInv
<1>2. Now.do \notin Prep \cup Settles \cup Breaks \cup {"return"}
  BY <1>1 DEF Prep, Settles, Breaks
<1>3. PICK P : files' = Without(files, P) /\ \A p \in P : p[1] # "program"
  <2> DEFINE P == {p \in DOMAIN files : p[1] = "staging" /\ p[2] = Now.x}
  <2>1. files' = Without(files, P) /\ \A p \in P : p[1] # "program"
    BY DEF Unstage
  <2> HIDE DEF P
  <2> QED
    BY <2>1
<1>4. /\ Program \in DOMAIN files' /\ files'[Program].text.version \in 1 .. Len(plan)
      /\ \A p \in DOMAIN files' : p[1] = "stamp" => p \in DOMAIN files
      /\ \A p \in DOMAIN files' : p[1] = "object" \/ p \in Guarded =>
              p \in DOMAIN files /\ files'[p].text = files[p].text
  BY <1>1, <1>3, DiskRemove
<1> QED
  BY <1>1, <1>2, <1>4, DiskOnlyStep

\* A test runs and is counted; the other steps of the tests change nothing.
LEMMA TestInv ==
  ASSUME ProgramInv, RunTest \/ SumUp \/ RunTool \/ Refuse \/ HostToolFails
  PROVE  ProgramInv'
<1>1. CASE Fail
  BY <1>1, FailInv
<1>2. ASSUME job.running, job.todo # << >>, Now.do \in {"sum up", "tool"}, Proceed(<< >>), Quiet
      PROVE  ProgramInv'
  <2>1. Now.do \notin Prep \cup Settles \cup Breaks \cup {"return"}
    BY <1>2 DEF Prep, Settles, Breaks
  <2> QED
    BY <1>2, <2>1, GoOnInv
<1>3. CASE SumUp \/ RunTool \/ Refuse \/ HostToolFails
  BY <1>1, <1>2, <1>3, DoingNow DEF SumUp, RunTool, Refuse, HostToolFails
<1>4. CASE RunTest
  <2>1. /\ job.running /\ job.todo # << >> /\ Now.do = "test" /\ Quiet
    BY <1>4, DoingNow DEF RunTest
  <2>2. PICK failed : job' = [job EXCEPT !.todo = Rest, !.failed = failed]
    BY <1>4 DEF RunTest
  <2>3. Now.do \notin Prep \cup Settles \cup Breaks \cup {"return"}
    BY <2>1 DEF Prep, Settles, Breaks
  <2> QED
    BY <2>1, <2>2, <2>3, CountedInv
<1> QED
  BY <1>3, <1>4

\* The operations behind the first n, which are memory checks.
LEMMA Dropped ==
  ASSUME NEW K, NEW q, Ops(q, K), NEW n \in 0 .. Len(q), \A i \in 1 .. n : q[i].do = "memcheck",
         NEW open, Returning(q, open), NEW a \in BOOLEAN, Ready(q, a), Free(q)
  PROVE  /\ Ops(SubSeq(q, n + 1, Len(q)), K) /\ Returning(SubSeq(q, n + 1, Len(q)), open)
         /\ Ready(SubSeq(q, n + 1, Len(q)), a) /\ Free(SubSeq(q, n + 1, Len(q)))
<1>1. PICK d : d = SubSeq(q, n + 1, Len(q))
  OBVIOUS
<1>2. PICK m : m = Len(q)
  OBVIOUS
<1>3. q \in Seq(ToSet(q)) /\ m \in Nat /\ DOMAIN q = 1 .. m /\ n \in Nat /\ n <= m
  BY <1>2, SequenceElim DEF Ops, Sequence
<1>4. /\ d \in Seq(ToSet(q)) /\ Len(d) = m - n
      /\ \A i \in 1 .. (m - n) : d[i] = q[n + i]
  <2>1. \A i \in 1 .. (m - n) : n + i \in 1 .. m /\ n + 1 + i - 1 = n + i
    BY <1>3
  <2>2. d = [i \in 1 .. (m - n) |-> q[n + i]]
    <3>1. d = [i \in 1 .. (m - (n + 1) + 1) |-> q[i + (n + 1) - 1]]
      BY <1>1, <1>2
    <3>2. m - (n + 1) + 1 = m - n
      BY <1>3
    <3>3. d = [i \in 1 .. (m - n) |-> q[i + (n + 1) - 1]]
      BY <3>1, <3>2
    <3>4. \A i \in 1 .. (m - n) : q[i + (n + 1) - 1] = q[n + i]
      BY <1>3
    <3> QED
      BY <3>3, <3>4
  <2>3. \A i \in 1 .. (m - n) : q[n + i] \in ToSet(q)
    BY <1>3, <2>1 DEF ToSet
  <2>4. m - n \in Nat
    BY <1>3
  <2> QED
    BY <2>2, <2>3, <2>4
<1>5. Sequence(d) /\ DOMAIN d = 1 .. (m - n)
  BY <1>4, SequenceIntro
<1>6. \A i \in DOMAIN d : n + i \in DOMAIN q /\ d[i] = q[n + i]
  BY <1>3, <1>4, <1>5
<1>7. Ops(d, K)
  BY <1>5, <1>6 DEF Ops
<1>8. \A i, j \in DOMAIN d : i # j => n + i # n + j
  BY <1>3, <1>5
<1>9. Returning(d, open)
  BY <1>6, <1>8 DEF Returning
<1>10. Free(d)
  BY <1>6 DEF Free
<1>11. ASSUME NEW i \in DOMAIN d, d[i].do \in Work
       PROVE  \/ \E j \in 1 .. (i - 1) :
                   d[j].do \in Settles /\ \A k \in (j + 1) .. (i - 1) : d[k].do \notin Breaks
              \/ a /\ \A k \in 1 .. (i - 1) : d[k].do \notin Breaks
  <2>1. PICK l \in DOMAIN q : l = n + i /\ q[l].do \in Work
    BY <1>6, <1>11
  <2>2. \A k \in 1 .. (i - 1) : d[k] = q[n + k] /\ n + k \in 1 .. (l - 1)
    BY <1>3, <1>5, <1>6, <2>1
  <2>3. i \in Nat /\ l \in Nat /\ l = n + i
    BY <1>3, <1>5, <2>1
  <2>4. CASE \E j \in 1 .. (l - 1) :
               q[j].do \in Settles /\ \A k \in (j + 1) .. (l - 1) : q[k].do \notin Breaks
    <3>1. PICK j \in 1 .. (l - 1) :
               q[j].do \in Settles /\ \A k \in (j + 1) .. (l - 1) : q[k].do \notin Breaks
      BY <2>4
    <3>2. j \notin 1 .. n
      BY <3>1 DEF Settles
    <3>3. j - n \in 1 .. (i - 1) /\ n + (j - n) = j
      BY <1>3, <2>3, <3>1, <3>2
    <3>4. d[j - n].do \in Settles
      BY <2>2, <3>1, <3>3
    <3>5. \A k \in ((j - n) + 1) .. (i - 1) : k \in 1 .. (i - 1) /\ n + k \in (j + 1) .. (l - 1)
      BY <1>3, <2>3, <3>1, <3>3
    <3>6. \A k \in ((j - n) + 1) .. (i - 1) : d[k].do \notin Breaks
      BY <2>2, <3>1, <3>5
    <3> QED
      BY <3>3, <3>4, <3>6
  <2>5. CASE a /\ \A k \in 1 .. (l - 1) : q[k].do \notin Breaks
    BY <2>2, <2>5
  <2> QED
    BY <2>1, <2>4, <2>5 DEF Ready
<1>12. Ready(d, a)
  BY <1>11 DEF Ready
<1> QED
  BY <1>1, <1>7, <1>9, <1>10, <1>12

\* A memory check is tried again, is over, or is the last of its loop.
LEMMA MemCheckInv ==
  ASSUME ProgramInv, MemCheck
  PROVE  ProgramInv'
<1>1. job.running /\ job.todo # << >> /\ Now.do = "memcheck" /\ Quiet
  BY DoingNow DEF MemCheck
<1>2. Now.do \notin Prep \cup Settles \cup Breaks \cup {"return"}
  BY <1>1 DEF Prep, Settles, Breaks
<1>3. CASE Proceed(<<[Op("memcheck", Now.x, Now.y - 1) EXCEPT !.set = Now.set]>>)
  <2>1. PICK op : op = [Op("memcheck", Now.x, Now.y - 1) EXCEPT !.set = Now.set]
    OBVIOUS
  <2>2. op.do = "memcheck" /\ OpOK(op)
    BY <2>1 DEF Op, OpOK
  <2>3. Ops(<<op>>, {"memcheck"})
    BY <2>2, OpsOne
  <2>4. {"memcheck"} \cap (Breaks \cup {"return", "replay", "stamp"}) = {} /\ {"memcheck"} \cap Work = {}
    BY DEF Breaks, Work
  <2> QED
    BY <1>1, <1>2, <1>3, <2>1, <2>3, <2>4, QuietStep
<1>4. CASE \E failed : job' = [job EXCEPT !.todo = Rest, !.failed = failed]
  BY <1>1, <1>2, <1>4, CountedInv
<1>5. ASSUME NEW n \in 0 .. Len(Rest), Remaining(n),
             job' = [job EXCEPT !.failed = TRUE, !.todo = SubSeq(Rest, n + 1, Len(Rest))]
      PROVE  ProgramInv'
  <2>1. PICK todo : todo = job.todo
    OBVIOUS
  <2>2. PICK st : st = Settled
    OBVIOUS
  <2>3. /\ Ops(todo, Kinds(todo)) /\ Returning(todo, job.open) /\ Ready(todo, st) /\ Cleaning(todo)
        /\ todo # << >> /\ Now = Head(todo) /\ Rest = Tail(todo) /\ st \in BOOLEAN
    BY <1>1, <2>1, <2>2 DEF ProgramInv, TodoOK, Now, Rest, Settled
  <2>4. Sequence(todo)
    BY <2>3 DEF Ops
  <2>5. Ops(Rest, Kinds(todo)) /\ Ready(Rest, st) /\ Returning(Rest, job.open) /\ Free(Rest)
    BY <1>2, <2>3, <2>4, OpsTail, ReadyTail, ReturningTail, FreeTail
  <2>6. PICK q : q = SubSeq(Rest, n + 1, Len(Rest))
    OBVIOUS
  <2>7. \A i \in 1 .. n : Rest[i].do = "memcheck"
    BY <1>5 DEF Remaining
  <2>8. Ops(q, Kinds(todo)) /\ Ready(q, st) /\ Returning(q, job.open) /\ Free(q)
    BY <1>5, <2>3, <2>5, <2>6, <2>7, Dropped
  <2>9. PlanShape /\ Apart /\ JobShape
    BY DEF ProgramInv
  <2>10. JobShape' /\ job'.todo = q /\ job'.open = job.open /\ job'.config = job.config
    BY <1>1, <1>5, <2>6, <2>9 DEF JobShape
  <2>11. plan' = plan /\ binary' = binary /\ files' = files
    BY <1>1 DEF Quiet, Kept
  <2>12. PlanShape' /\ Apart' /\ (Settled => Settled')
    BY <2>9, <2>10, <2>11, DiskSame, DiskStep
  <2>13. Ops(q, Kinds(q)) /\ Returning(q, job'.open) /\ (st => Settled')
    BY <2>2, <2>8, <2>10, <2>12, OpsKinds
  <2>14. TodoOK'
    BY <2>3, <2>8, <2>10, <2>11, <2>13, FreeTodo
  <2> QED
    BY <2>10, <2>12, <2>14 DEF ProgramInv
<1> QED
  BY <1>3, <1>4, <1>5 DEF MemCheck

-----------------------------------------------------------------------------
(***************************************************************************)
(* What the command line and the dashboard ask for.                        *)
(***************************************************************************)
ScriptKinds == TestKinds \cup {"remove", "cleaned", "configure", "config", "call", "tool", "memcheck"}

\* configure_all comes before what needs it.
LEMMA EnsuredReady ==
  ASSUME NEW op, op.do = "configure", OpOK(op), NEW K, NEW q, Ops(q, K), Ready(q, TRUE)
  PROVE  Ops(<<op>> \o q, K \cup {"configure"}) /\ Ready(<<op>> \o q, FALSE)
<1>1. Ops(<<op>>, {"configure"}) /\ {"configure"} \cap Work = {}
  BY OpsOne DEF Work
<1>2. Ready(<<op>>, FALSE)
  BY <1>1, ReadyIdle
<1>3. Leaves(<<op>>, FALSE)
  <2>1. Len(<<op>>) = 1 /\ DOMAIN <<op>> = {1} /\ <<op>>[1] = op /\ (1 + 1) .. 1 = {}
    OBVIOUS
  <2> QED
    BY <2>1 DEF Leaves, Settles
<1>4. Sequence(<<op>>) /\ Sequence(q)
  BY <1>1 DEF Ops
<1>5. Ready(<<op>> \o q, FALSE)
  BY <1>2, <1>3, <1>4, ReadyConcat
<1>6. Ops(<<op>>, K \cup {"configure"}) /\ Ops(q, K \cup {"configure"})
  BY <1>1, OpsMore
<1> QED
  BY <1>5, <1>6, OpsConcat

\* ctest_empty_binary_directory and ctest_start.
LEMMA EmptyAndStartOps ==
  ASSUME NEW d
  PROVE  Ops(EmptyOps, {"remove", "cleaned"}) /\ Ops(StartOps(d), {"remove", "write"})
<1>1. Ops(EmptyOps, {"remove", "cleaned"})
  <2> DEFINE P == {p \in DOMAIN files : p[1] \notin {"source", "program", "prefix", "registry"}}
             a == SetOp("remove", P)
             b == Op("cleaned", "", "")
  <2>1. \A p \in P : p[1] # "program"
    OBVIOUS
  <2> HIDE DEF P
  <2>2. a.do = "remove" /\ OpOK(a)
    BY <2>1, RemoveOK
  <2>3. b.do = "cleaned" /\ OpOK(b)
    BY DEF Op, OpOK
  <2>4. EmptyOps = <<a, b>>
    BY DEF EmptyOps, P
  <2> HIDE DEF a, b
  <2> QED
    BY <2>2, <2>3, <2>4, OpsTwo
<1>2. Ops(StartOps(d), {"remove", "write"})
  <2> DEFINE P == IF d.append THEN {} ELSE {p \in DOMAIN files : p[1] = "report"}
             a == SetOp("remove", P)
  <2>1. \A p \in P : p[1] # "program"
    OBVIOUS
  <2> HIDE DEF P
  <2>2. a.do = "remove" /\ OpOK(a)
    BY <2>1, RemoveOK
  <2>3. StartOps(d) = <<a>> \o ReportOps("Start")
    BY DEF StartOps, P
  <2> HIDE DEF a
  <2>4. Ops(<<a>>, {"remove", "write"}) /\ Ops(ReportOps("Start"), {"remove", "write"})
    BY <2>2, OpsOne, ReportOpsOps
  <2> QED
    BY <2>3, <2>4, OpsConcat
<1> QED
  BY <1>1, <1>2

\* ctest_build puts configure_all between the change of the configuration
\* and the targets.
LEMMA BuildSelfOpsOps ==
  ASSUME GoodProject(Project), NEW d
  PROVE  /\ Ops(BuildSelfOps(d), {"config", "configure", "call", "write"})
         /\ Ready(BuildSelfOps(d), FALSE)
<1> DEFINE K == {"config", "configure", "call", "write"}
<1>1. PICK a, b, c : /\ a = Op("config", IF d.config = "" THEN job.config ELSE d.config, "")
                     /\ b = Op("configure", "", "")
                     /\ c = Op("config", job.config, "")
  OBVIOUS
<1>2. PICK names : Sequence(names) /\ Calls(names) = (IF d.target = "" THEN Calls(DefaultTargets)
                                                      ELSE Calls(<<d.target>>))
  <2>1. Sequence(DefaultTargets)
    BY TestsSequence
  <2>2. <<d.target>> \in Seq({d.target})
    OBVIOUS
  <2>3. Sequence(<<d.target>>)
    BY <2>2, SequenceIntro
  <2> QED
    BY <2>1, <2>3
<1>3. /\ a.do = "config" /\ OpOK(a) /\ b.do = "configure" /\ OpOK(b) /\ c.do = "config" /\ OpOK(c)
  BY <1>1 DEF Op, OpOK
<1>4. PICK calls, reports : calls = Calls(names) /\ reports = ReportOps("Build")
  OBVIOUS
<1>5. BuildSelfOps(d) = ((<<a, b>> \o calls) \o <<c>>) \o reports
  BY <1>1, <1>2, <1>4 DEF BuildSelfOps
<1>6. /\ Ops(<<a, b>>, {"config", "configure"}) /\ Ops(calls, {"call"})
      /\ Ops(<<c>>, {"config"}) /\ Ops(reports, {"write"})
  <2>1. Ops(<<a, b>>, {"config", "configure"})
    BY <1>3, OpsTwo
  <2>2. Ops(calls, {"call"})
    BY <1>2, <1>4, CallsOps
  <2>3. Ops(<<c>>, {"config"})
    BY <1>3, OpsOne
  <2>4. Ops(reports, {"write"})
    BY <1>4, ReportOpsOps
  <2> QED
    BY <2>1, <2>2, <2>3, <2>4
<1>7. Ops(<<a, b>>, K) /\ Ops(calls, K) /\ Ops(<<c>>, K) /\ Ops(reports, K)
  BY <1>6, OpsMore
<1>8. Ready(<<a, b>>, FALSE) /\ Ready(<<c>>, FALSE) /\ Ready(reports, FALSE)
  <2>1. {"config", "configure"} \cap Work = {} /\ {"config"} \cap Work = {} /\ {"write"} \cap Work = {}
    BY DEF Work
  <2> QED
    BY <1>6, <2>1, ReadyIdle
<1>9. Ready(calls, TRUE)
  <2>1. {"call"} \cap Breaks = {}
    BY DEF Breaks
  <2> QED
    BY <1>6, <2>1, ReadyPlain
<1>10. Leaves(<<a, b>>, FALSE)
  <2>1. Len(<<a, b>>) = 2 /\ DOMAIN <<a, b>> = {1, 2} /\ <<a, b>>[2] = b /\ (2 + 1) .. 2 = {}
    OBVIOUS
  <2> QED
    BY <1>3, <2>1 DEF Leaves, Settles
<1> HIDE DEF K
<1>11. Ops(<<a, b>> \o calls, K) /\ Ready(<<a, b>> \o calls, FALSE)
  BY <1>7, <1>8, <1>9, <1>10, OpsConcat, ReadyConcat DEF Ops
<1>12. Ops((<<a, b>> \o calls) \o <<c>>, K) /\ Ready((<<a, b>> \o calls) \o <<c>>, FALSE)
  BY <1>7, <1>8, <1>11, OpsConcat, ReadyConcat DEF Ops
<1>13. Ops(BuildSelfOps(d), K) /\ Ready(BuildSelfOps(d), FALSE)
  <2>1. PICK p : p = (<<a, b>> \o calls) \o <<c>>
    OBVIOUS
  <2>2. Ops(p, K) /\ Ready(p, FALSE) /\ BuildSelfOps(d) = p \o reports
    BY <1>5, <1>12, <2>1
  <2>3. Sequence(p) /\ Sequence(reports)
    BY <1>7, <2>2 DEF Ops
  <2> QED
    BY <1>7, <1>8, <2>2, <2>3, OpsConcat, ReadyConcat
<1> QED
  BY <1>13 DEF K

\* A step of the dashboard.
LEMMA DriverOpsOps ==
  ASSUME GoodProject(Project), NEW d, d.op \in DriverKinds
  PROVE  Ops(DriverOps(d), ScriptKinds) /\ Ready(DriverOps(d), FALSE)
<1>1. ASSUME NEW K, NEW q, Ops(q, K), K \cap Work = {}, K \subseteq ScriptKinds, DriverOps(d) = q
      PROVE  Ops(DriverOps(d), ScriptKinds) /\ Ready(DriverOps(d), FALSE)
  BY <1>1, OpsMore, ReadyIdle
<1>2. CASE d.op = "empty"
  <2>1. {"remove", "cleaned"} \cap Work = {} /\ {"remove", "cleaned"} \subseteq ScriptKinds
    BY DEF Work, ScriptKinds
  <2> QED
    BY <1>1, <1>2, <2>1, EmptyAndStartOps DEF DriverOps
<1>3. CASE d.op = "start"
  <2>1. {"remove", "write"} \cap Work = {} /\ {"remove", "write"} \subseteq ScriptKinds
    BY DEF Work, ScriptKinds, TestKinds
  <2> QED
    BY <1>1, <1>3, <2>1, EmptyAndStartOps DEF DriverOps
<1>4. CASE d.op = "configure"
  <2> DEFINE op == Op("configure", "force", "")
             K == {"configure", "write"}
  <2>1. op.do = "configure" /\ OpOK(op)
    BY DEF Op, OpOK
  <2>2. DriverOps(d) = <<op>> \o ReportOps("Configure")
    BY <1>4 DEF DriverOps, ConfigureSelfOps
  <2> HIDE DEF op
  <2>3. Ops(<<op>>, K) /\ Ops(ReportOps("Configure"), K)
    BY <2>1, OpsOne, ReportOpsOps
  <2>4. K \cap Work = {} /\ K \subseteq ScriptKinds
    BY DEF Work, ScriptKinds, TestKinds
  <2> HIDE DEF K
  <2>5. Ops(<<op>> \o ReportOps("Configure"), K)
    BY <2>3, OpsConcat
  <2> QED
    BY <1>1, <2>2, <2>4, <2>5
<1>5. CASE d.op = "build"
  <2>1. DriverOps(d) = BuildSelfOps(d)
    BY <1>5 DEF DriverOps
  <2>2. {"config", "configure", "call", "write"} \subseteq ScriptKinds
    BY DEF ScriptKinds, TestKinds
  <2> QED
    BY <2>1, <2>2, BuildSelfOpsOps, OpsMore
<1>6. CASE d.op = "test"
  <2>1. DriverOps(d) = RegisteredOps(FALSE, TestReportOps)
    BY <1>6 DEF DriverOps
  <2>2. TestKinds \cap Work = {} /\ TestKinds \subseteq ScriptKinds /\ "write" \in TestKinds
    BY DEF Work, ScriptKinds, TestKinds
  <2>3. Ops(TestReportOps, TestKinds)
    BY <2>2, ReportOpsOps DEF TestReportOps
  <2>4. Ops(RegisteredOps(FALSE, TestReportOps), TestKinds)
    BY <2>3, RegisteredOpsOps
  <2> QED
    BY <1>1, <2>1, <2>2, <2>4
<1>7. CASE d.op = "coverage"
  <2> DEFINE op == Op("tool", "", "")
             K == {"tool", "write"}
  <2>1. op.do = "tool" /\ OpOK(op)
    BY DEF Op, OpOK
  <2>2. DriverOps(d) = <<op>> \o CoverageReportOps
    BY <1>7 DEF DriverOps
  <2> HIDE DEF op
  <2>3. Ops(<<op>>, K) /\ Ops(CoverageReportOps, K)
    BY <2>1, OpsOne, ReportOpsOps DEF CoverageReportOps
  <2>4. K \cap Work = {} /\ K \subseteq ScriptKinds
    BY DEF Work, ScriptKinds, TestKinds
  <2> HIDE DEF K
  <2>5. Ops(<<op>> \o CoverageReportOps, K)
    BY <2>3, OpsConcat
  <2> QED
    BY <1>1, <2>2, <2>4, <2>5
<1>8. CASE d.op = "memcheck"
  <2>1. DriverOps(d) = MemCheckOps(d)
    BY <1>8 DEF DriverOps
  <2> DEFINE K == TestKinds \cup {"memcheck"}
  <2>2. K \cap Work = {} /\ K \subseteq ScriptKinds
    BY DEF Work, ScriptKinds, TestKinds
  <2>3. Ops(MemCheckOps(d), K)
    BY MemCheckOpsOps
  <2> HIDE DEF K
  <2> QED
    BY <1>1, <2>1, <2>2, <2>3
<1>9. CASE d.op = "sleep"
  <2>1. DriverOps(d) = << >>
    BY <1>9 DEF DriverOps
  <2>2. Ops(<< >>, ScriptKinds) /\ Ops(<< >>, {}) /\ {} \cap Work = {}
    BY OpsEmpty
  <2>3. Ready(<< >>, FALSE)
    BY <2>2, ReadyIdle
  <2> QED
    BY <2>1, <2>2, <2>3
<1> QED
  BY <1>2, <1>3, <1>4, <1>5, <1>6, <1>7, <1>8, <1>9 DEF DriverKinds

\* The dashboard goes on with what its step asks for.
LEMMA DriverInv ==
  ASSUME ProgramInv, Driver
  PROVE  ProgramInv'
<1>1. job.running /\ job.todo # << >> /\ Now.do = "driver" /\ Quiet /\ PlanShape /\ JobShape
  BY DoingNow DEF Driver, ProgramInv
<1>2. PICK ops : ops = DriverOps(Project.driver[Now.y]) /\ Proceed(ops)
  BY DEF Driver
<1>3. GoodProject(Project)
  BY <1>1, ProjectGood
<1>4. Project.driver[Now.y].op \in DriverKinds
  <2>1. Now.y \in DOMAIN Project.driver
    BY <1>1, NowOK DEF OpOK
  <2> QED
    BY <1>3, <2>1 DEF GoodProject
<1>5. Ops(ops, ScriptKinds) /\ Ready(ops, FALSE)
  BY <1>2, <1>3, <1>4, DriverOpsOps
<1>6. ScriptKinds \cap {"return", "replay", "stamp"} = {} /\ Now.do \in Breaks
  BY <1>1 DEF ScriptKinds, TestKinds, Breaks
<1>7. JobShape' /\ job'.todo = ops \o Rest /\ job'.open = job.open
  BY <1>1, <1>2, JobStep DEF Proceed
<1> QED
  BY <1>1, <1>5, <1>6, <1>7, BreakStep

\* The test command: the programs of the tests, then the tests or the steps
\* of the dashboard.
LEMMA TestOpsOps ==
  ASSUME GoodProject(Project)
  PROVE  Ops(TestOps, TestKinds \cup {"call", "driver"}) /\ Ready(TestOps, TRUE)
<1> DEFINE K == TestKinds \cup {"call", "driver"}
<1>1. Ops(BuildTestOps, {"call"}) /\ {"call"} \subseteq K
  BY BuildTestOpsOps
<1>2. Ready(BuildTestOps, TRUE) /\ Leaves(BuildTestOps, TRUE) /\ Ops(BuildTestOps, K)
  <2>1. {"call"} \cap Breaks = {}
    BY DEF Breaks
  <2>2. Ops(BuildTestOps, K)
    BY <1>1, OpsMore
  <2>3. Ready(BuildTestOps, TRUE) /\ Leaves(BuildTestOps, TRUE)
    BY <1>1, <2>1, ReadyPlain
  <2> QED
    BY <2>2, <2>3
<1>3. ASSUME NEW q, Ops(q, K), NEW b \in BOOLEAN, Ready(q, b), TestOps = BuildTestOps \o q
      PROVE  Ops(TestOps, K) /\ Ready(TestOps, TRUE)
  <2>1. Sequence(q) /\ Sequence(BuildTestOps)
    BY <1>2, <1>3 DEF Ops
  <2> HIDE DEF K
  <2> QED
    BY <1>2, <1>3, <2>1, OpsConcat, ReadyConcat
<1>4. CASE Project.driver = << >>
  <2>1. PICK q : q = RegisteredOps(TRUE, << >>)
    OBVIOUS
  <2>2. TestOps = BuildTestOps \o q
    BY <1>4, <2>1 DEF TestOps
  <2>3. PICK L : L = TestKinds \cup {"call"}
    OBVIOUS
  <2>4. Ops(<< >>, L) /\ L \cap Breaks = {} /\ L \subseteq K /\ TestKinds \subseteq L /\ "call" \in L
    BY <2>3, OpsEmpty DEF Breaks, TestKinds
  <2>5. Ops(q, L)
    BY <2>1, <2>4, RegisteredOpsOps
  <2>6. Ops(q, K) /\ Ready(q, TRUE)
    BY <2>4, <2>5, OpsMore, ReadyPlain
  <2> QED
    BY <1>3, <2>2, <2>6
<1>5. CASE Project.driver # << >>
  <2>1. PICK q : q = [i \in DOMAIN Project.driver |-> Op("driver", "", i)]
    OBVIOUS
  <2>2. TestOps = BuildTestOps \o q
    BY <1>5, <2>1 DEF TestOps
  <2>3. PICK n \in Nat : DOMAIN Project.driver = 1 .. n
    BY SequenceElim DEF GoodProject
  <2>4. q = [i \in 1 .. n |-> q[i]]
    BY <2>1, <2>3
  <2>5. \A i \in 1 .. n : q[i].do \in {"driver"} /\ OpOK(q[i])
    BY <2>1, <2>3 DEF Op, OpOK
  <2>6. Ops(q, {"driver"})
    BY <2>4, <2>5, OpsMap
  <2>7. {"driver"} \cap Work = {} /\ {"driver"} \subseteq K
    BY DEF Work
  <2>8. Ops(q, K)
    BY <2>6, <2>7, OpsMore
  <2>9. Ready(q, FALSE)
    BY <2>6, <2>7, ReadyIdle
  <2> QED
    BY <1>3, <2>2, <2>8, <2>9
<1> QED
  BY <1>4, <1>5

AllKinds ==
    ScriptKinds \cup PackageKinds \cup {"remove state", "driver"}

\* What CommandLine puts in front.
Asked ==
    CASE Now.x = "configure" -> <<Op("configure", "force", "")>>
      [] Now.x = "clean"     -> CleanOps
      [] Now.x = "build"     ->
           EnsureConfigured \o (IF job.arg = "" THEN Calls(DefaultTargets)
                                ELSE Calls(<<job.arg>>))
      [] Now.x = "install"   -> EnsureConfigured \o InstallOps(<<"prefix", "">>, job.arg)
      [] Now.x = "export"    -> EnsureConfigured \o ExportOps
      [] Now.x = "package"   -> EnsureConfigured \o PackageOps
      [] Now.x = "test"      -> EnsureConfigured \o TestOps

\* What a command asks for: first the configuration, then its work.
LEMMA AskedOps ==
  ASSUME GoodProject(Project), Now.x \in Commands, NEW ops, ops = Asked
  PROVE  Ops(ops, AllKinds) /\ Ready(ops, FALSE)
<1>1. ASSUME NEW K, NEW q, Ops(q, K), Ready(q, TRUE), K \cup {"configure"} \subseteq AllKinds,
             ops = EnsureConfigured \o q
      PROVE  Ops(ops, AllKinds) /\ Ready(ops, FALSE)
  <2>1. PICK op : op = Op("configure", "", "")
    OBVIOUS
  <2>2. op.do = "configure" /\ OpOK(op) /\ EnsureConfigured = <<op>>
    BY <2>1 DEF Op, OpOK, EnsureConfigured
  <2>3. Ops(<<op>> \o q, K \cup {"configure"}) /\ Ready(<<op>> \o q, FALSE)
    BY <1>1, <2>2, EnsuredReady
  <2> QED
    BY <1>1, <2>2, <2>3, OpsMore
<1>2. ASSUME NEW K, NEW q, Ops(q, K), K \cap Breaks = {}, K \cup {"configure"} \subseteq AllKinds,
             ops = EnsureConfigured \o q
      PROVE  Ops(ops, AllKinds) /\ Ready(ops, FALSE)
  <2>1. Ready(q, TRUE)
    BY <1>2, ReadyPlain
  <2> QED
    BY <1>1, <1>2, <2>1
<1>3. ASSUME NEW K, NEW q, Ops(q, K), K \cap Work = {}, K \subseteq AllKinds, ops = q
      PROVE  Ops(ops, AllKinds) /\ Ready(ops, FALSE)
  <2>1. Ops(ops, AllKinds)
    BY <1>3, OpsMore
  <2>2. Ready(ops, FALSE)
    BY <1>3, ReadyIdle
  <2> QED
    BY <2>1, <2>2
<1>4. CASE Now.x = "configure"
  <2>1. PICK op : op = Op("configure", "force", "")
    OBVIOUS
  <2>2. op.do = "configure" /\ OpOK(op)
    BY <2>1 DEF Op, OpOK
  <2>3. ops = <<op>>
    BY <1>4, <2>1 DEF Asked
  <2>4. Ops(<<op>>, {"configure"})
    BY <2>2, OpsOne
  <2>5. {"configure"} \cap Work = {} /\ {"configure"} \subseteq AllKinds
    BY DEF Work, AllKinds, ScriptKinds
  <2> QED
    BY <1>3, <2>3, <2>4, <2>5
<1>5. CASE Now.x = "clean"
  <2>1. PICK K : K = {"remove state", "remove", "cleaned"}
    OBVIOUS
  <2>2. K \cap Work = {} /\ K \subseteq AllKinds
    BY <2>1 DEF Work, AllKinds, ScriptKinds
  <2>3. ops = CleanOps /\ Ops(CleanOps, K)
    BY <1>5, <2>1, CleanOpsOps DEF Asked
  <2> QED
    BY <1>3, <2>2, <2>3
<1>6. CASE Now.x = "build"
  <2>1. PICK names : Sequence(names) /\ ops = EnsureConfigured \o Calls(names)
    <3>1. Sequence(DefaultTargets)
      BY TestsSequence
    <3>2. <<job.arg>> \in Seq({job.arg})
      OBVIOUS
    <3>3. Sequence(<<job.arg>>)
      BY <3>2, SequenceIntro
    <3>4. \/ ops = EnsureConfigured \o Calls(DefaultTargets)
          \/ ops = EnsureConfigured \o Calls(<<job.arg>>)
      BY <1>6 DEF Asked
    <3> QED
      BY <3>1, <3>3, <3>4
  <2>2. Ops(Calls(names), {"call"})
    BY <2>1, CallsOps
  <2>3. {"call"} \cap Breaks = {} /\ {"call"} \cup {"configure"} \subseteq AllKinds
    BY DEF Breaks, AllKinds, ScriptKinds
  <2> QED
    BY <1>2, <2>1, <2>2, <2>3
<1>7. CASE Now.x = "install"
  <2>1. PICK prefix : prefix = <<"prefix", "">>
    OBVIOUS
  <2>2. prefix[1] \in Elsewhere
    BY <2>1 DEF Elsewhere
  <2>3. ops = EnsureConfigured \o InstallOps(prefix, job.arg)
    BY <1>7, <2>1 DEF Asked
  <2>4. Ops(InstallOps(prefix, job.arg), InstallKinds)
    BY <2>2, InstallOpsOps
  <2>5. InstallKinds \cap Breaks = {} /\ InstallKinds \cup {"configure"} \subseteq AllKinds
    BY DEF InstallKinds, Breaks, AllKinds, ScriptKinds, TestKinds, PackageKinds
  <2> QED
    BY <1>2, <2>3, <2>4, <2>5
<1>8. CASE Now.x = "export"
  <2>1. ops = EnsureConfigured \o ExportOps /\ Ops(ExportOps, {"write"})
    BY <1>8, ExportOpsOps DEF Asked
  <2>2. {"write"} \cap Breaks = {} /\ {"write"} \cup {"configure"} \subseteq AllKinds
    BY DEF Breaks, AllKinds, ScriptKinds, TestKinds
  <2> QED
    BY <1>2, <2>1, <2>2
<1>9. CASE Now.x = "package"
  <2>1. ops = EnsureConfigured \o PackageOps /\ Ops(PackageOps, PackageKinds)
    BY <1>9, PackageOpsOps DEF Asked
  <2>2. PackageKinds \cap Breaks = {} /\ PackageKinds \cup {"configure"} \subseteq AllKinds
    BY DEF Breaks, AllKinds, ScriptKinds, PackageKinds, InstallKinds
  <2> QED
    BY <1>2, <2>1, <2>2
<1>10. CASE Now.x = "test"
  <2>1. PICK K : K = TestKinds \cup {"call", "driver"}
    OBVIOUS
  <2>2. K \cup {"configure"} \subseteq AllKinds
    BY <2>1 DEF AllKinds, ScriptKinds
  <2>3. ops = EnsureConfigured \o TestOps /\ Ops(TestOps, K) /\ Ready(TestOps, TRUE)
    BY <1>10, <2>1, TestOpsOps DEF Asked
  <2> QED
    BY <1>1, <2>2, <2>3
<1> QED
  BY <1>4, <1>5, <1>6, <1>7, <1>8, <1>9, <1>10 DEF Commands

\* main.
LEMMA CommandLineInv ==
  ASSUME ProgramInv, CommandLine
  PROVE  ProgramInv'
<1>1. job.running /\ job.todo # << >> /\ Now.do = "main" /\ Quiet /\ PlanShape /\ JobShape
  BY DoingNow DEF CommandLine, ProgramInv
<1>2. PICK ops : ops = Asked /\ Proceed(ops)
  BY DEF CommandLine, Asked
<1>3. Now.x \in Commands
  BY <1>1, NowOK DEF OpOK
<1>4. Ops(ops, AllKinds) /\ Ready(ops, FALSE)
  BY <1>1, <1>2, <1>3, ProjectGood, AskedOps
<1>5. AllKinds \cap {"return", "replay", "stamp"} = {} /\ Now.do \in Breaks
  BY <1>1 DEF AllKinds, ScriptKinds, TestKinds, PackageKinds, InstallKinds, Breaks
<1>6. JobShape' /\ job'.todo = ops \o Rest /\ job'.open = job.open
  BY <1>1, <1>2, JobStep DEF Proceed
<1> QED
  BY <1>1, <1>4, <1>5, <1>6, BreakStep

\* A run starts with its command line.
LEMMA StartInv ==
  ASSUME ProgramInv, Start
  PROVE  ProgramInv'
<1>1. plan' = plan /\ binary' = binary /\ files' = files
  BY DEF Start
<1>2. PlanShape' /\ Apart' /\ PlanShape
  BY <1>1, VouchedSame DEF ProgramInv, PlanShape, Apart, Program
<1>3. PICK request \in Project.requests, c \in Project.configs :
         job' = [Idle EXCEPT !.running = TRUE, !.cmd = request[1], !.arg = request[2],
                             !.config = c, !.todo = <<Op("main", request[1], "")>>]
  BY DEF Start
<1>4. request[1] \in Commands
  BY <1>2, <1>3, ProjectGood DEF GoodProject
<1>5. PICK op : op = Op("main", request[1], "")
  OBVIOUS
<1>6. op.do = "main" /\ OpOK(op)
  BY <1>4, <1>5 DEF Op, OpOK
<1>7. JobShape' /\ job'.todo = <<op>> /\ job'.open = {}
  BY <1>3, <1>5 DEF Idle, JobShape
<1>8. PICK q : q = <<op>>
  OBVIOUS
<1>9. Ops(q, {"main"})
  BY <1>6, <1>8, OpsOne
<1>10. /\ {"main"} \cap Work = {} /\ "return" \notin {"main"}
  BY DEF Work
<1>11. Ready(q, FALSE) /\ Returning(q, {}) /\ Ops(q, Kinds(q))
  BY <1>9, <1>10, ReadyIdle, ReturningNone, OpsKinds
<1>12. Free(q)
  BY <1>9 DEF Ops, Free
<1>13. TodoOK'
  BY <1>1, <1>7, <1>8, <1>11, <1>12, FreeTodo
<1> QED
  BY <1>2, <1>7, <1>13 DEF ProgramInv

\* A step that concerns none of this, the clock's for one.
LEMMA SameState ==
  ASSUME ProgramInv, UNCHANGED <<plan, files, binary, job>>
  PROVE  ProgramInv'
<1>1. PlanShape' /\ Apart'
  BY VouchedSame DEF ProgramInv, PlanShape, Apart, Program
<1>2. JobShape'
  BY DEF ProgramInv, JobShape, Idle
<1>3. PICK todo : todo = job.todo
  OBVIOUS
<1>4. PICK st : st = Settled
  OBVIOUS
<1>5. /\ Ops(todo, Kinds(todo)) /\ Returning(todo, job.open) /\ Ready(todo, st) /\ Cleaning(todo)
      /\ st \in BOOLEAN
  BY <1>3, <1>4 DEF ProgramInv, TodoOK, Settled
<1>6. Cleaning(todo)'
  <2>1. Guarded' = Guarded /\ Project' = Project
    BY DEF Guarded, Project
  <2>2. \A op, p : Rewrites(op, p) <=> Rewrites(op, p)'
    BY <2>1 DEF Rewrites, Output
  <2> QED
    BY <1>5, <2>1, <2>2 DEF Cleaning, Prep, Removes, StateFile
<1>7. st => Settled'
  BY <1>4 DEF Settled, Stamp
<1>8. TodoOK'
  BY <1>3, <1>5, <1>6, <1>7, CleanTodo
<1> QED
  BY <1>1, <1>2, <1>8 DEF ProgramInv

\* What happens around an idle program: its configure outputs are those of
\* the version that made them, when all versions have the same.
LEMMA AroundInv ==
  ASSUME ProgramInv, Around
  PROVE  ProgramInv'
<1>1. PlanShape /\ JobShape /\ Apart
  BY DEF ProgramInv
<1>2. CASE Crash
  BY <1>2, EndStep DEF Crash, Kept
<1>3. CASE Tick
  BY <1>3, SameState DEF Tick
<1>4. ASSUME ~job.running, job' = job, plan' = plan, binary' = binary,
             Program \in DOMAIN files', files'[Program].text.version \in 1 .. Len(plan),
             \A p \in DOMAIN files' : p[1] = "stamp" => p \in DOMAIN files,
             \A p \in DOMAIN files' : p[1] = "object" \/ p \in Guarded =>
               p \in DOMAIN files /\ files'[p].text = files[p].text
      PROVE  ProgramInv'
  <2>1. PlanShape' /\ Apart'
    BY <1>1, <1>4, DiskStep
  <2>2. job' = Idle
    BY <1>1, <1>4 DEF JobShape
  <2> QED
    BY <2>1, <2>2, NoTodo DEF ProgramInv
<1>5. CASE Edit
  <2>1. PICK p, t : p[1] = "source" /\ files' = With(files, p, t)
    BY <1>5 DEF Edit
  <2>2. ~job.running /\ job' = job /\ plan' = plan /\ binary' = binary
    BY <1>5 DEF Edit, Changing
  <2>3. p[1] \notin {"stamp", "object", "output", "program"}
    BY <2>1
  <2> QED
    BY <1>1, <1>4, <2>1, <2>2, <2>3, DiskWrite
<1>6. CASE Regenerate
  <2>1. ~job.running /\ job' = job /\ plan' = plan /\ binary' = binary
    BY <1>6 DEF Regenerate, Changing
  <2>2. PICK v : v = files[Program].text.version + 1
    OBVIOUS
  <2>3. v \in 1 .. Len(plan)
    <3>1. PICK w : w = files[Program].text.version
      OBVIOUS
    <3>2. w \in 1 .. Len(plan) /\ w < Len(plan) /\ v = w + 1 /\ Len(plan) \in Nat
      BY <1>1, <1>6, <2>2, <3>1, ProjectGood DEF Regenerate, PlanShape
    <3> QED
      BY <3>2
  <2>4. PICK t : t.version = v /\ files' = With(files, Program, t)
    BY <1>6, <2>2 DEF Regenerate, Text
  <2>5. Program[1] = "program"
    BY PathKinds
  <2>6. PICK path : path = Program
    OBVIOUS
  <2>7. /\ DOMAIN files' = DOMAIN files \cup {path} /\ files'[path].text = t
        /\ \A p \in DOMAIN files : p # path => files'[p] = files[p]
    BY <2>4, <2>6 DEF With
  <2>8. Program \in DOMAIN files' /\ files'[Program].text.version \in 1 .. Len(plan)
    BY <2>3, <2>4, <2>6, <2>7
  <2>9. /\ \A p \in DOMAIN files' : p[1] = "stamp" => p \in DOMAIN files
        /\ \A p \in DOMAIN files' : p[1] = "object" \/ p \in Guarded =>
             p \in DOMAIN files /\ files'[p].text = files[p].text
    BY <2>5, <2>6, <2>7, GuardedOutputs
  <2> QED
    BY <1>4, <2>1, <2>8, <2>9
<1>7. CASE Recompile
  <2>1. /\ ~job.running /\ job' = job /\ plan' = plan /\ files' = files
        /\ binary' = files[Program].text.version
    BY <1>7 DEF Recompile
  <2>2. job' = Idle
    BY <1>1, <2>1 DEF JobShape
  <2>3. PlanShape'
    BY <1>1, <2>1 DEF PlanShape, Program
  <2>4. binary \in DOMAIN plan /\ binary' \in DOMAIN plan
    BY <1>1, <2>1, ProjectGood DEF PlanShape
  <2>5. SameOutputs => Guarded' = Guarded
    <3>1. Guarded = ConfigureOutputs(plan[binary])
      BY DEF Guarded, ConfigureOutputs, Project
    <3>2. PICK v : v = binary'
      OBVIOUS
    <3>3. Guarded' = ConfigureOutputs(plan[v])
      BY <2>1, <3>2 DEF Guarded, ConfigureOutputs, Project, Output
    <3>4. SameOutputs => ConfigureOutputs(plan[binary]) = ConfigureOutputs(plan[v])
      BY <1>1, <2>4, <3>2 DEF SameOutputs, PlanShape
    <3> QED
      BY <3>1, <3>3, <3>4
  <2>6. SameOutputs' <=> SameOutputs
    BY DEF SameOutputs, ConfigureOutputs, Output
  <2>7. \A p : Vouched(p)' <=> Vouched(p)
    BY <2>5, <2>6 DEF Vouched
  <2>8. Apart'
    BY <1>1, <2>1, <2>7 DEF Apart
  <2> QED
    BY <2>2, <2>3, <2>8, NoTodo DEF ProgramInv
<1>8. CASE Lose
  <2>1. PICK p \in Derived : files' = Without(files, {p})
    BY <1>8 DEF Lose
  <2>2. ~job.running /\ job' = job /\ plan' = plan /\ binary' = binary
    BY <1>8 DEF Lose, Changing
  <2>3. p[1] # "program"
    BY <2>1 DEF Derived
  <2>4. PICK P : P = {p}
    OBVIOUS
  <2>5. (\A r \in P : r[1] # "program") /\ files' = Without(files, P)
    BY <2>1, <2>3, <2>4
  <2> QED
    BY <1>1, <1>4, <2>2, <2>5, DiskRemove
<1> QED
  BY <1>2, <1>3, <1>5, <1>6, <1>7, <1>8 DEF Around

-----------------------------------------------------------------------------
(***************************************************************************)
(* The theorems.                                                           *)
(***************************************************************************)

\* Nothing is on the disk but the program and the user's sources.
LEMMA InitInv ==
  ASSUME Init
  PROVE  ProgramInv
<1>1. plan \in Plans /\ binary = 1 /\ job = Idle
  BY DEF Init
<1>2. PICK text : files = [p \in {Program} \cup {Source(s) : s \in plan[1].user} |->
                             [time |-> 0, text |-> text[p]]]
                  /\ text[Program].version = 1
  <2> DEFINE D == {Program} \cup {Source(s) : s \in plan[1].user}
             one(p) == Text(IF p = Program THEN "codegen" ELSE "user", "", 1, {})
             all == [p \in D |-> one(p)]
  <2>1. \A p \in D : all[p] = one(p)
    OBVIOUS
  <2>2. all[Program].version = 1
    BY <2>1 DEF Text
  <2>3. files = [p \in D |-> [time |-> 0, text |-> one(p)]]
    BY DEF Init
  <2>4. files = [p \in D |-> [time |-> 0, text |-> all[p]]]
    BY <2>1, <2>3
  <2> HIDE DEF all
  <2> QED
    BY <2>2, <2>4
<1>3. DOMAIN files = {Program} \cup {Source(s) : s \in plan[1].user} /\ files[Program].text.version = 1
  BY <1>2
<1>4. \A p \in DOMAIN files : p[1] # "stamp"
  <2>1. \A s : Source(s)[1] = "source"
    BY DEF Source
  <2> QED
    BY <1>3, <2>1, PathKinds
<1>5. Len(plan) \in Nat \ {0}
  <2>1. Sequence(plan) /\ plan # << >>
    BY <1>1, PlansAssumption
  <2> QED
    BY <2>1, TailOf
<1>6. PlanShape
  BY <1>1, <1>3, <1>5 DEF PlanShape
<1>7. Apart
  BY <1>4 DEF Apart
<1>8. JobShape
  BY <1>1 DEF JobShape, Idle
<1>9. DOMAIN job.todo = {} /\ Sequence(job.todo)
  <2>1. << >> \in Seq({}) /\ Len(<< >>) = 0
    OBVIOUS
  <2>2. DOMAIN << >> = 1 .. 0 /\ Sequence(<< >>)
    BY <2>1, SequenceIntro
  <2>3. 1 .. 0 = {}
    OBVIOUS
  <2>4. job.todo = << >>
    BY <1>1 DEF Idle
  <2> QED
    BY <2>2, <2>3, <2>4
<1>10. TodoOK
  BY <1>9 DEF TodoOK, Ops, Returning, Ready, Cleaning
<1> QED
  BY <1>6, <1>7, <1>8, <1>10 DEF ProgramInv

\* Every step keeps the invariant.
LEMMA StepInv ==
  ASSUME ProgramInv, Next
  PROVE  ProgramInv'
<1>1. CASE BuildStep
  BY <1>1, CallInv, EndInv, ReturnNodeInv, CompileInv, JoinInv, RequireInv, GuardInv, CommandInv,
     RemoveInv, RemoveStateInv, CleanedInv, ConfigureRunInv, ReplayInv, WriteStampInv
     DEF BuildStep
<1>2. CASE ProgramStep /\ ~BuildStep
  BY <1>2, CommandLineInv, CopyInv, CopyTreeInv, UnstageInv, TestInv, MemCheckInv, SetConfigInv, DriverInv
     DEF ProgramStep
<1> QED
  BY <1>1, <1>2, StartInv, AroundInv DEF Next, ProgramStep

\* The disk, the running program and what it has still to do are sound in
\* every state: ProgramInv is invariant.
THEOREM ProgramSound == Spec => []ProgramInv
<1>1. Init => ProgramInv
  BY InitInv
<1>2. ProgramInv /\ [Next]_vars => ProgramInv'
  <2>1. ASSUME ProgramInv, UNCHANGED vars PROVE ProgramInv'
    BY <2>1, SameState DEF vars
  <2> QED
    BY <2>1, StepInv
<1> QED
  BY <1>1, <1>2, PTL DEF Spec

\* No target and no step of the generated program is entered again before it
\* is left (build_state and step_state), for every project: NoReentry is
\* invariant.
THEOREM NeverReentered == Spec => []NoReentry
<1>1. ProgramInv => NoReentry
  BY DEF ProgramInv, TodoOK, Returning, NoReentry
<1> QED
  BY <1>1, ProgramSound, PTL

\* Two configurations never meet in one tree, for every project whose
\* configure outputs are the same in all its versions: ConfigsApart is
\* invariant.
THEOREM ConfigsKeptApart ==
  ASSUME SameOutputs
  PROVE  Spec => []ConfigsApart
<1>1. ProgramInv => ConfigsApart
  <2> SUFFICES ASSUME ProgramInv, NEW c \in Configs, Exists(Stamp(c))
               PROVE  /\ \A d \in Configs \ {c} : ~Exists(Stamp(d))
                      /\ \A p \in DOMAIN files :
                           p[1] = "object" \/ p \in Guarded => files[p].text.config = c
    BY DEF ConfigsApart
  <2>1. \A d : Stamp(d)[1] = "stamp" /\ Stamp(d)[2] = d
    BY PathKinds
  <2>2. Apart /\ Stamp(c) \in DOMAIN files
    BY DEF ProgramInv, Exists
  <2>3. \A d \in Configs \ {c} : ~Exists(Stamp(d))
    BY <2>1, <2>2 DEF Apart, Exists
  <2>4. \A p \in DOMAIN files : p[1] = "object" \/ p \in Guarded => files[p].text.config = c
    BY <2>1, <2>2 DEF Apart, Vouched
  <2> QED
    BY <2>3, <2>4
<1> QED
  BY <1>1, ProgramSound, PTL

=============================================================================
