------------------------------- MODULE EvalFlow -------------------------------
(***************************************************************************)
(* The execution core of the evaluator: the walk over an AST               *)
(* (eval_exec_core.c), the stack of execution contexts (evaluator.c),      *)
(* block()/return()/break()/continue() (eval_flow_block.c), user commands  *)
(* (eval_user_command.c) and nested files (eval_nested_exec.c), with what  *)
(* a failing command transaction does to the variable scopes.              *)
(*                                                                         *)
(* The script is not a constant: whenever a node list asks for its next    *)
(* node, any node of a kind in script.nodes may follow, so a run explores   *)
(* every script over those kinds.  Scripts are well formed as CMake asks:  *)
(* a list closes the blocks that it opens.  One tracked variable stands    *)
(* for all normal variables; a scope is its value there, or Undef.         *)
(***************************************************************************)
EXTENDS Integers, Sequences, FiniteSets, FiniteSetsExt, SequencesExt

CONSTANTS
    Scripts,    \* what scripts are made of: [nodes, the kinds of node, blocks,
                \* the forms of block(), capacity, the first capacity of
                \* exec_contexts (ARENA_ARR_INIT_CAPACITY)]
    MaxOps,     \* bound: constructs being evaluated at once, the root included
    MaxFiles,   \* bound: files being evaluated at once, the root excluded
    MaxBlocks,  \* bound: open block() frames
    MaxIter,    \* items of a foreach(), iteration limit of a while()
    MaxPolicy,  \* bound: visible depth of the policy stack
    Vals,       \* values of the tracked variable
    Undef       \* "not defined in this scope"

ASSUME FlowAssumption ==
    /\ \A s \in Scripts : s.capacity \in Nat \ {0}
    /\ MaxIter \in Nat
    /\ Undef \notin Vals

VARIABLES
    script,   \* the script being evaluated: a member of Scripts
    mem,      \* exec_contexts: the arrays allocated so far, the last is in use
    count,    \* exec_contexts: how many of its entries are on the stack
    frames,   \* scope_state.block_frames
    scopes,   \* the tracked variable in each visible scope
    pol,      \* visible_policy_depth
    retprop,  \* return_propagate_vars is not empty
    stack,    \* the C activations: the constructs whose body is being executed
    pc,       \* where the innermost eval_execute_node_list() is
    res,      \* result of the node or of the list that has just ended
    stop,     \* stop_requested
    want      \* history: what the last return(PROPAGATE) of a function promised

vars == <<script, mem, count, frames, scopes, pol, retprop, stack, pc, res, stop, want>>

Files == {"include", "subdirectory"}
Calls == {"function", "macro"}
Loops == {"foreach", "while"}

Cur == mem[Len(mem)]
Top == Last(stack)

(***************************************************************************)
(* Execution contexts.  The array doubles when it is full: it either grows *)
(* in place or moves, and a pointer taken before the move keeps pointing   *)
(* to the old copy.  Popping only lowers the count.  What no loop has the  *)
(* address of can never be read again and is forgotten here: an array that *)
(* moved while no loop ran, an entry popped while no loop ran in it.       *)
(***************************************************************************)
Context(kind) == [kind |-> kind, flow |-> "none", loops |-> 0]
Doubled(ctx)  == [i \in 1..(2 * count) |-> IF i <= count THEN Cur[i]
                                           ELSE IF i = count + 1 THEN ctx
                                           ELSE Context("free")]

eval_exec_push(kind) ==
    /\ count' = count + 1
    /\ \/ /\ count < Len(Cur)
          /\ mem' = [mem EXCEPT ![Len(mem)][count + 1] = Context(kind)]
       \/ /\ count = Len(Cur)
          /\ \E i \in DOMAIN stack : stack[i].op \in Loops
          /\ mem' = Append(mem, Doubled(Context(kind)))
       \/ /\ count = Len(Cur)
          /\ mem' = [mem EXCEPT ![Len(mem)] = Doubled(Context(kind))]

eval_exec_pop(n) == IF n = 0 THEN 0 ELSE n - 1

PopTo(m, n) ==
    /\ count' = n
    /\ mem' = [m EXCEPT ![Len(m)] = [i \in DOMAIN @ |->
                 IF i > n /\ @[i].loops = 0 THEN Context("free") ELSE @[i]]]

\* The nearest context, searched through the whole stack, that runs a loop.
eval_exec_find_loop_target == Max({0} \cup {i \in 1..count : Cur[i].loops > 0})

MutMarkAll(m, n) ==
    [m EXCEPT ![Len(m)] = [i \in DOMAIN @ |->
        IF i <= n THEN [@[i] EXCEPT !.flow = "return"] ELSE @[i]]]

\* Marks the blocks on top and the first context that is not one.
eval_exec_request_return(m, n) ==
    LET arr == m[Len(m)]
        marked == {i \in 1..n : \A j \in (i + 1)..n : arr[j].kind = "block"}
    IN  [m EXCEPT ![Len(m)] =
            [i \in DOMAIN arr |-> IF i \in marked THEN [arr[i] EXCEPT !.flow = "return"]
                                                  ELSE arr[i]]]

\* eval_clear_return_state() on the array; it also empties retprop.
ClearReturn(m, n) ==
    IF n > 0 /\ m[Len(m)][n].flow = "return"
      THEN [m EXCEPT ![Len(m)][n].flow = "none"] ELSE m

PendingFlow == IF count = 0 THEN "none" ELSE Cur[count].flow

block_active_exec_depth ==
    Cardinality({i \in 1..count : \A j \in i..count : Cur[j].kind = "block"})

(***************************************************************************)
(* Variable scopes, and what a failed transaction restores.                *)
(***************************************************************************)
MutScopePopOffByOne(s) == IF Len(s) > 2 THEN Front(s) ELSE s
eval_scope_pop(s) == IF Len(s) > 1 THEN Front(s) ELSE s

\* A value defined in the innermost scope is copied to its parent.
Propagate(s) ==
    IF Len(s) > 1 /\ Last(s) # Undef THEN [s EXCEPT ![Len(s) - 1] = Last(s)] ELSE s

\* eval_command_tx_finish() without commit: a user command keeps its
\* variables and gets its depth back, any other command gets all back.
RestoreDepth(s, depth) ==
    [i \in 1..depth |-> IF i <= Len(s) THEN s[i] ELSE Undef]

\* An error diagnostic fails every command that is being executed.  Whether
\* it also stops the run depends on the profile and the error budget.
EmitError(st) ==
    /\ stack' = [i \in DOMAIN st |-> [st[i] EXCEPT !.err = (st[i].op \in Files \cup Calls)]]
    /\ stop' \in BOOLEAN

\* An activation: `ptr' is the Eval_Exec_Context* that a loop holds across
\* its body, `depth' and `snap' the transaction's snapshot of the scopes,
\* `open' and `pushes' count the block()s and cmake_policy(PUSH)es that the
\* script has yet to close.
Op(op) == [op |-> op, ptr |-> <<0, 0>>, left |-> 0, err |-> FALSE,
           depth |-> Len(scopes), snap |-> IF op \in Files THEN scopes ELSE <<>>,
           open |-> 0, pushes |-> 0]

Init ==
    /\ script \in Scripts
    /\ mem = <<[i \in 1..script.capacity |-> Context(IF i = 1 THEN "root" ELSE "free")]>>
    /\ count = 1
    /\ frames = <<>>
    /\ scopes = <<Undef>>
    /\ pol = 1
    /\ retprop = FALSE
    /\ stack = <<Op("root")>>
    /\ pc = "run"
    /\ res = "ok"
    /\ stop = FALSE
    /\ want = Undef

(***************************************************************************)
(* Leaf nodes: the handler runs to its end in one step.                    *)
(***************************************************************************)
Leaf(kind) ==
    /\ pc = "run" /\ ~stop
    /\ kind \in script.nodes
    /\ pc' = "after"
    /\ res' = "ok"

\* set(): eval_var_set_current() on the innermost scope.
EvalSet(x) ==
    /\ Leaf("set")
    /\ scopes' = [scopes EXCEPT ![Len(scopes)] = x]
    /\ UNCHANGED <<mem, count, frames, pol, retprop, stack, stop, want, script>>

\* Any command that ends with an error diagnostic and changes nothing else.
EvalError ==
    /\ Leaf("error")
    /\ EmitError(stack)
    /\ UNCHANGED <<mem, count, frames, scopes, pol, retprop, want, script>>

\* The call, the file or the root that the current list belongs to.
Owner == Max({i \in DOMAIN stack : stack[i].op \notin Loops \cup {"if"}})

\* A node that gives up without a diagnostic, such as foreach(RANGE x).
EvalFatal ==
    /\ pc = "run" /\ ~stop
    /\ \/ "fatal_in_block" \in script.nodes
       \/ "fatal" \in script.nodes /\ \A i \in Owner..Len(stack) : stack[i].open = 0
    /\ pc' = "after" /\ res' = "fatal"
    /\ UNCHANGED <<mem, count, frames, scopes, pol, retprop, stack, stop, want, script>>

\* cmake_policy(PUSH)
PolicyPush ==
    /\ Leaf("policy")
    /\ pol < MaxPolicy
    /\ pol' = pol + 1
    /\ stack' = [stack EXCEPT ![Len(stack)].pushes = IF "stray_pop" \in script.nodes THEN @ ELSE @ + 1]
    /\ UNCHANGED <<mem, count, frames, scopes, retprop, stop, want, script>>

\* cmake_policy(POP), which nothing ties to the list that pushed: a script
\* may pop a level that belongs to the block or the file around it.
PolicyPop ==
    /\ Leaf("policy")
    /\ Top.pushes > 0 \/ "stray_pop" \in script.nodes
    /\ LET st == [stack EXCEPT ![Len(stack)].pushes = IF @ = 0 THEN 0 ELSE @ - 1]
       IN  \/ pol > 1 /\ pol' = pol - 1 /\ stack' = st /\ UNCHANGED stop
           \/ pol <= 1 /\ UNCHANGED pol /\ EmitError(st)
    /\ UNCHANGED <<mem, count, frames, scopes, retprop, want, script>>

\* break() and continue()
HandleLoopSignal(signal) ==
    /\ Leaf(signal)
    /\ LET target == eval_exec_find_loop_target
       IN  \/ /\ target > 0
              /\ mem' = [mem EXCEPT ![Len(mem)][target].flow = signal]
              /\ UNCHANGED <<stack, stop>>
           \/ /\ target = 0
              /\ EmitError(stack)
              /\ UNCHANGED mem
    /\ UNCHANGED <<count, frames, scopes, pol, retprop, want, script>>

\* What return(PROPAGATE v) promises to the caller of the function it is in:
\* the value of v in the innermost scope of that function which defines it.
Promised ==
    LET owner == stack[Owner]
        own   == {i \in (owner.depth + 1)..Len(scopes) : scopes[i] # Undef}
    IN  IF owner.op = "function" /\ own # {} THEN scopes[Max(own)] ELSE Undef

\* The frames of the blocks that the return will unwind get propagate_on_return.
MutMarkInnermost(n) ==
    [i \in DOMAIN frames |->
        IF i = Len(frames) /\ n > 0 THEN [frames[i] EXCEPT !.onret = TRUE] ELSE frames[i]]
MarkOnReturn(n) ==
    [i \in DOMAIN frames |->
        IF i > Len(frames) - n THEN [frames[i] EXCEPT !.onret = TRUE] ELSE frames[i]]

\* return() and return(PROPAGATE v)
HandleReturn(propagate) ==
    /\ pc = "run" /\ ~stop /\ "return" \in script.nodes
    /\ pc' = "after"
    /\ retprop' = propagate
    /\ frames' = IF propagate THEN MarkOnReturn(block_active_exec_depth) ELSE frames
    /\ mem' = eval_exec_request_return(ClearReturn(mem, count), count)
    /\ res' = IF count = 0 THEN "fatal" ELSE "ok"
    /\ want' = IF propagate THEN Promised ELSE Undef
    /\ UNCHANGED <<count, scopes, pol, stack, stop, script>>

(***************************************************************************)
(* block() and endblock()                                                  *)
(***************************************************************************)
Blocks == [scoped: BOOLEAN, policies: BOOLEAN, prop: BOOLEAN, onret: {FALSE}]

\* PROPAGATE needs a variable scope (block_parse_options).
GoodBlocks == {b \in Blocks : (b.prop => b.scoped) /\ (b.scoped \/ b.policies)}
BadBlock   == [scoped |-> FALSE, policies |-> FALSE, prop |-> FALSE, onret |-> FALSE]

\* After an error in its arguments block() still pushes the empty frame.
HandleBlock(b) ==
    /\ Leaf("block")
    /\ Len(frames) < MaxBlocks
    /\ b.policies => pol < MaxPolicy
    /\ LET st == [stack EXCEPT ![Len(stack)].open = @ + 1]
       IN  IF b = BadBlock THEN EmitError(st) ELSE stack' = st /\ UNCHANGED stop
    /\ scopes' = IF b.scoped THEN Append(scopes, Undef) ELSE scopes
    /\ pol' = IF b.policies THEN pol + 1 ELSE pol
    /\ frames' = Append(frames, b)
    /\ eval_exec_push("block")
    /\ UNCHANGED <<retprop, want, script>>

\* block_pop_frame() when the frame and its context are there: the frame is
\* gone even if the policy stack has nothing left to restore.
PopFailsOnPolicy(b) == b.policies /\ pol <= 1
MutKeepContext(b) ==
    /\ frames' = Front(frames)
    /\ pol' = IF b.policies THEN pol - 1 ELSE pol
    /\ UNCHANGED <<count, mem>>
PopFrame(b) ==
    /\ frames' = Front(frames)
    /\ pol' = IF b.policies THEN pol - 1 ELSE pol
    /\ PopTo(mem, eval_exec_pop(count))

HandleEndblock ==
    /\ Leaf("block")
    /\ Top.open > 0
    /\ LET st == [stack EXCEPT ![Len(stack)].open = @ - 1]
           b  == Last(frames)
           matched == frames # <<>> /\ block_active_exec_depth > 0
       IN  \/ /\ ~matched
              /\ EmitError(st)
              /\ UNCHANGED <<mem, frames, count, pol, scopes>>
           \/ /\ matched /\ PopFailsOnPolicy(b)
              /\ frames' = Front(frames)
              /\ EmitError(st)
              /\ UNCHANGED <<mem, count, pol, scopes>>
           \/ /\ matched /\ ~PopFailsOnPolicy(b)
              /\ PopFrame(b)
              /\ scopes' = IF ~b.scoped THEN scopes
                           ELSE eval_scope_pop(IF b.prop THEN Propagate(scopes) ELSE scopes)
              /\ stack' = st /\ UNCHANGED stop
    /\ UNCHANGED <<retprop, want, script>>

(***************************************************************************)
(* eval_execute_node_list(): what follows a node, and the end of a list.   *)
(***************************************************************************)
AfterNode ==
    /\ pc = "after"
    /\ LET r == IF stop THEN "fatal" ELSE res
       IN  /\ res' = r
           /\ pc' = CASE r = "fatal"              -> "exit"
                      [] PendingFlow = "return"   -> "unwind"
                      [] PendingFlow = "none"     -> "run"
                      [] OTHER                    -> "exit"
    /\ UNCHANGED <<mem, count, frames, scopes, pol, retprop, stack, stop, want, script>>

EndOfList ==
    /\ pc = "run" /\ ~stop
    /\ Top.open = 0
    /\ pc' = "exit" /\ res' = "ok"
    /\ UNCHANGED <<mem, count, frames, scopes, pol, retprop, stack, stop, want, script>>

\* eval_unwind_blocks_for_return(), one turn of its loop: with no frame left
\* for the block context on top, block_pop_frame() succeeds without popping.
UnwindBlock ==
    /\ pc = "unwind" /\ block_active_exec_depth > 0
    /\ LET b == Last(frames)
           kept == IF b.scoped /\ b.onret /\ (retprop \/ b.prop)
                     THEN Propagate(scopes) ELSE scopes
       IN  \/ /\ frames = <<>>
              /\ UNCHANGED <<mem, frames, scopes, pol, count, stack, stop, pc, res>>
           \/ /\ frames # <<>> /\ PopFailsOnPolicy(b)
              /\ frames' = Front(frames)
              /\ scopes' = kept
              /\ EmitError(stack)
              /\ pc' = "exit" /\ res' = "fatal"
              /\ UNCHANGED <<mem, pol, count>>
           \/ /\ frames # <<>> /\ ~PopFailsOnPolicy(b)
              /\ PopFrame(b)
              /\ scopes' = IF b.scoped THEN eval_scope_pop(kept) ELSE kept
              /\ UNCHANGED <<stack, stop, pc, res>>
    /\ UNCHANGED <<retprop, want, script>>

Unwound ==
    /\ pc = "unwind" /\ block_active_exec_depth = 0
    /\ pc' = "exit" /\ res' = "ok"
    /\ UNCHANGED <<mem, count, frames, scopes, pol, retprop, stack, stop, want, script>>

(***************************************************************************)
(* if(), foreach() and while()                                             *)
(***************************************************************************)
Enter(kind) ==
    /\ pc = "run" /\ ~stop
    /\ kind \in script.nodes
    /\ Len(stack) < MaxOps

EvalIf ==
    /\ Enter("if")
    /\ stack' = Append(stack, Op("if"))
    /\ UNCHANGED <<mem, count, frames, scopes, pol, retprop, pc, res, stop, want, script>>

ExitIf ==
    /\ pc = "exit" /\ Top.op = "if"
    /\ stack' = Front(stack) /\ pc' = "after"
    /\ UNCHANGED <<mem, count, frames, scopes, pol, retprop, res, stop, want, script>>

\* The loop keeps the address of its context for as long as it runs.
EvalLoop(kind, n) ==
    /\ Enter(kind)
    /\ \/ /\ count = 0
          /\ pc' = "after" /\ res' = "fatal"
          /\ UNCHANGED <<mem, stack>>
       \/ /\ count > 0
          /\ mem' = [mem EXCEPT ![Len(mem)][count].loops = @ + 1]
          /\ stack' = Append(stack, [Op(kind) EXCEPT !.ptr = <<Len(mem), count>>,
                                                     !.left = n])
          /\ pc' = "test" /\ UNCHANGED res
    /\ UNCHANGED <<count, frames, scopes, pol, retprop, stop, want, script>>

LeaveLoop(m, p) == [m EXCEPT ![p[1]][p[2]].loops = @ - 1]

\* The next item of a foreach(), the condition of a while().
LoopTest(cond) ==
    /\ pc = "test"
    /\ Top.op = "foreach" => cond = (Top.left > 0)
    /\ \/ /\ cond /\ Top.left > 0
          /\ stack' = [stack EXCEPT ![Len(stack)].left = @ - 1]
          /\ pc' = "run" /\ UNCHANGED <<mem, stop>>
       \/ /\ ~cond /\ (Top.op = "while" => Top.left > 0)
          /\ mem' = LeaveLoop(mem, Top.ptr)
          /\ stack' = Front(stack)
          /\ pc' = "after" /\ UNCHANGED stop
       \/ /\ Top.op = "while" /\ Top.left = 0
          /\ mem' = LeaveLoop(mem, Top.ptr)
          /\ EmitError(Front(stack))
          /\ pc' = "after"
    /\ res' = "ok"
    /\ UNCHANGED <<count, frames, scopes, pol, retprop, want, script>>

\* After each execution of the body the loop looks at the signal of its own
\* context, through the address it took when it began.
ExitLoopBody ==
    /\ pc = "exit" /\ Top.op \in Loops
    /\ LET p == Top.ptr
           signal == mem[p[1]][p[2]].flow
           consumed == [mem EXCEPT ![p[1]][p[2]].flow = "none"]
       IN  \/ /\ res = "fatal" \/ signal = "return"
              /\ mem' = LeaveLoop(mem, p)
              /\ stack' = Front(stack) /\ pc' = "after"
           \/ /\ res = "ok" /\ signal = "break"
              /\ mem' = LeaveLoop(consumed, p)
              /\ stack' = Front(stack) /\ pc' = "after"
           \/ /\ res = "ok" /\ signal \in {"continue", "none"}
              /\ mem' = consumed
              /\ pc' = "test" /\ UNCHANGED stack
    /\ UNCHANGED <<count, frames, scopes, pol, retprop, res, stop, want, script>>

(***************************************************************************)
(* Calls of user commands: eval_user_cmd_invoke() inside the transaction   *)
(* of eval_dispatch_command().                                             *)
(***************************************************************************)
EvalCall(kind) ==
    /\ Enter(kind)
    /\ scopes' = IF kind = "function" THEN Append(scopes, Undef) ELSE scopes
    /\ eval_exec_push(kind)
    /\ stack' = Append(stack, Op(kind))
    /\ UNCHANGED <<frames, pol, retprop, pc, res, stop, want, script>>

ExitCall ==
    /\ pc = "exit" /\ Top.op \in Calls
    /\ LET function  == Top.op = "function"
           returned  == PendingFlow = "return"
           published == IF function /\ returned /\ retprop THEN Propagate(scopes) ELSE scopes
           popped    == IF function THEN eval_scope_pop(published) ELSE published
           again     == ~function /\ returned
           kept      == IF again THEN mem ELSE ClearReturn(mem, count)
           n         == eval_exec_pop(count)
           failed    == Top.err \/ stop \/ res = "fatal" \/ (again /\ n = 0)
       IN  /\ PopTo(IF again /\ n > 0 THEN eval_exec_request_return(kept, n) ELSE kept, n)
           /\ retprop' = (again /\ retprop)
           /\ scopes' = IF failed THEN RestoreDepth(popped, Top.depth) ELSE popped
    /\ stack' = Front(stack)
    /\ pc' = "after" /\ res' = "ok"
    /\ want' = Undef
    /\ UNCHANGED <<frames, pol, stop, script>>

(***************************************************************************)
(* include() and add_subdirectory(): eval_execute_file()                   *)
(***************************************************************************)
OpenFiles == Cardinality({i \in DOMAIN stack : stack[i].op \in Files})

\* The clean-up of eval_execute_file() pops a context whenever the one on
\* top belongs to a file, whoever pushed it.
PopStrayFile(n) == IF n > 0 /\ Cur[n].kind \in Files THEN n - 1 ELSE n

EvalFile(kind) ==
    /\ Enter(kind)
    /\ OpenFiles < MaxFiles
    /\ kind = "include" => pol < MaxPolicy
    /\ pol' = IF kind = "include" THEN pol + 1 ELSE pol
    /\ scopes' = IF kind = "subdirectory" THEN Append(scopes, Undef) ELSE scopes
    /\ eval_exec_push(kind)
    /\ stack' = Append(stack, Op(kind))
    /\ UNCHANGED <<frames, retprop, pc, res, stop, want, script>>

\* The file cannot be read or has an invalid token: nothing was pushed, and
\* the same clean-up runs.
EvalFileRejected(kind) ==
    /\ Leaf(kind)
    /\ OpenFiles < MaxFiles
    /\ PopTo(mem, PopStrayFile(count))
    /\ EmitError(stack)
    /\ UNCHANGED <<frames, scopes, pol, retprop, want, script>>

ExitFile ==
    /\ pc = "exit" /\ Top.op \in Files
    /\ LET subdirectory == Top.op = "subdirectory"
           policyLost == ~subdirectory /\ ~stop /\ pol <= 1
           unreadable == res = "fatal" /\ ~stop
           failed     == Top.err \/ stop \/ policyLost \/ unreadable
           popped     == IF subdirectory THEN eval_scope_pop(scopes) ELSE scopes
       IN  /\ PopTo(ClearReturn(mem, count), PopStrayFile(eval_exec_pop(count)))
           /\ pol' = IF ~subdirectory /\ ~stop /\ pol > 1 THEN pol - 1 ELSE pol
           /\ scopes' = IF failed THEN Top.snap ELSE popped
           /\ IF policyLost \/ unreadable
                THEN EmitError(Front(stack))
                ELSE stack' = Front(stack) /\ UNCHANGED stop
    /\ retprop' = FALSE
    /\ want' = Undef
    /\ pc' = "after" /\ res' = "ok"
    /\ UNCHANGED <<frames, script>>

(***************************************************************************)
(* The end of the run: eval_context_run_prepared()                         *)
(***************************************************************************)
ExitRoot ==
    /\ pc = "exit" /\ Top.op = "root"
    /\ PopTo(ClearReturn(mem, count), eval_exec_pop(count))
    /\ retprop' = FALSE
    /\ pc' = "done"
    /\ UNCHANGED <<frames, scopes, pol, stack, res, stop, want, script>>

Finished == pc = "done" /\ UNCHANGED vars

Next ==
    \/ \E x \in Vals : EvalSet(x)
    \/ EvalError
    \/ EvalFatal
    \/ PolicyPush
    \/ PolicyPop
    \/ \E signal \in {"break", "continue"} : HandleLoopSignal(signal)
    \/ \E propagate \in BOOLEAN : HandleReturn(propagate)
    \/ \E b \in script.blocks : HandleBlock(b)
    \/ HandleEndblock
    \/ AfterNode
    \/ EndOfList
    \/ UnwindBlock
    \/ Unwound
    \/ EvalIf
    \/ ExitIf
    \/ \E n \in 0..MaxIter : EvalLoop("foreach", n)
    \/ EvalLoop("while", MaxIter)
    \/ \E cond \in BOOLEAN : LoopTest(cond)
    \/ ExitLoopBody
    \/ \E kind \in Calls : EvalCall(kind)
    \/ ExitCall
    \/ \E kind \in Files : EvalFile(kind)
    \/ \E kind \in Files : EvalFileRejected(kind)
    \/ ExitFile
    \/ ExitRoot
    \/ Finished

Spec == Init /\ [][Next]_vars

\* The evaluator is one sequential thread: a list that unwinds goes on.
FairSpec == Spec /\ WF_vars(UnwindBlock) /\ WF_vars(Unwound)

-----------------------------------------------------------------------------
(***************************************************************************)
(* Properties                                                              *)
(***************************************************************************)

\* While a list runs, the contexts on the stack are those of the constructs
\* being evaluated, in order, with one more for every open block: whatever
\* mixture of calls, files, blocks and returns came before, each was popped
\* by the construct that pushed it (eval_user_cmd_invoke, eval_execute_file,
\* block_pop_frame).
ContextsMatch ==
    pc = "run" =>
        LET owners == SelectSeq(stack, LAMBDA t : t.op \notin Loops \cup {"if"})
            ctxs   == SelectSeq(SubSeq(Cur, 1, count), LAMBDA c : c.kind # "block")
        IN  /\ Len(ctxs) = Len(owners)
            /\ \A i \in DOMAIN ctxs : ctxs[i].kind = owners[i].op
            /\ count = Len(ctxs) + Len(frames)

\* While a list runs, there is one variable scope for the root, for every
\* function and subdirectory being evaluated and for every open block that
\* asked for one: no return, error or failed transaction loses or leaves a
\* scope (eval_scope_push/pop against eval_command_tx_finish).
ScopesMatch ==
    pc = "run" =>
        Len(scopes) = 1 + Quantify(DOMAIN stack, LAMBDA i : stack[i].op \in {"function", "subdirectory"})
                        + Quantify(DOMAIN frames, LAMBDA i : frames[i].scoped)

\* Unless a fatal result is on its way up, a break() or continue() that is
\* pending belongs to a loop that is being evaluated: that loop consumes it,
\* and nothing after it does (eval_foreach/eval_while on exec->pending_flow).
SignalHasLoop ==
    (~stop /\ res = "ok") =>
        \A i \in 1..count : Cur[i].flow \in {"break", "continue"} =>
            \E k \in DOMAIN stack : stack[k].op \in Loops /\ stack[k].ptr[2] = i

\* No node runs between a return() and the end of the function or file that
\* it returns from, and while it is pending it is asked only of that one and
\* of the blocks in it: no caller or including file returns with it
\* (eval_exec_request_return, eval_clear_return_state).
ReturnConsumed ==
    \A i \in 1..count : Cur[i].flow = "return" =>
        pc # "run" /\ \A j \in (i + 1)..count : Cur[j].kind = "block"

\* A function left by return(PROPAGATE v) gives its caller the value that v
\* had, through every block that the return unwinds
\* (propagate_on_return, block_propagate_to_parent_scope).
ReturnPropagates ==
    [][(pc = "exit" /\ Top.op = "function" /\ want # Undef)
         => scopes'[Len(scopes')] = want]_vars

\* return() leaves its list: unwinding the blocks comes to an end.
ReturnEnds == pc = "unwind" ~> pc # "unwind"
=============================================================================
