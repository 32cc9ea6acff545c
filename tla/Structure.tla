------------------------------ MODULE Structure ------------------------------
(***************************************************************************)
(* How the blocks of a function become if, while and do (n0xis-core,       *)
(* structure.rs): dominators and natural loops, and then a descent that    *)
(* lays the blocks out, with a stop point and a stack of open loops.  The  *)
(* text is then executed beside the graph it was made from.                *)
(*                                                                         *)
(* A block is what is left of it in the text: nothing but its label (its   *)
(* statements render to nothing), a line of code, or an induction step.    *)
(* A line of text is a tuple; the lines between its braces are sequences   *)
(* inside it.  The rewriting of else { if } to else if, which moves no     *)
(* line, is left out, but for the label it drops.                          *)
(***************************************************************************)
EXTENDS Dominators, TLC

CONSTANTS
    Programs,    \* records of the graphs and the kinds of line to look at
    DepthLimit,  \* how deep the descent goes: MAX_EMIT_DEPTH
    MaxDupDepth, \* how long a tail may be to be laid out again: MAX_DUP_DEPTH
    Rounds,      \* how often it is laid out again for its labels: ROUNDS
    Fuel         \* more silent steps than any text of these can take

VARIABLES
    prog,    \* the function: its graph, its lines, and the blocks that abort
    laid,    \* what structure returned
    block,   \* the block the machine executed last
    follow,  \* where the text goes on
    shown    \* the block whose line the text executed last

structureVars == <<prog, laid, block, follow, shown>>

Nowhere == NoBlock

\* A branch has its true arm first; more than two arms are a switch.
Terminator(p, n) ==
    CASE Len(p.succ[n]) = 0 -> IF n \in p.abort THEN "call-noreturn" ELSE "ret"
      [] Len(p.succ[n]) = 1 -> "jmp"
      [] Len(p.succ[n]) = 2 -> "cjmp"
      [] OTHER -> "switch"

\* cjmp_arms: both edges to one block are taken for the first of them.
Arms(p, n) == IF p.succ[n][1] = p.succ[n][2] THEN <<p.succ[n][1], Nowhere>> ELSE p.succ[n]

\* real_line_count: a return is a line, and so is the call that aborts.
HasLines(p, n) == p.lines[n] # "none" \/ p.succ[n] = <<>>

BodyLines(p, n) ==
    <<<<"label", n>>>> \o
    (IF p.succ[n] = <<>> THEN <<<<IF n \in p.abort THEN "abort" ELSE "return", n>>>>
     ELSE IF p.lines[n] = "none" THEN <<>> ELSE <<<<p.lines[n], n>>>>)

IsCode(l) == l[1] # "label"
LeavesBy == {"break", "continue", "return", "goto"}

\* The blocks whose labels are in some lines, at any depth, and the gotos.
RECURSIVE Marks(_, _)
Marks(kind, ls) ==
    UNION {CASE ls[i][1] = kind -> {ls[i][2]}
             [] ls[i][1] = "if" -> Marks(kind, ls[i][3]) \cup Marks(kind, ls[i][4])
             [] ls[i][1] \in {"while", "for", "do", "forever"} -> Marks(kind, ls[i][3])
             [] ls[i][1] = "switch" -> UNION {Marks(kind, ls[i][3][a]) : a \in DOMAIN ls[i][3]}
             [] OTHER -> {} : i \in DOMAIN ls}

\* arm_has_code and arm_diverges.
ArmHasCode(ls, keep) == (\E i \in DOMAIN ls : IsCode(ls[i])) \/ Marks("label", ls) \cap keep # {}
ArmDiverges(ls) ==
    LET code == SelectSeq(ls, IsCode) IN code # <<>> /\ Last(code)[1] \in LeavesBy

\* try_else_if: one if and nothing around it loses the label before it.
TryElseIf(ls, keep) ==
    LET code == SelectSeq(ls, IsCode)
        first == CHOOSE i \in DOMAIN ls : IsCode(ls[i]) /\ \A j \in 1..(i - 1) : ~IsCode(ls[j])
    IN  IF /\ Len(code) = 1 /\ code[1][1] = "if"
           /\ \A j \in 1..(first - 1) : ls[j][2] \notin keep
        THEN SubSeq(ls, first, Len(ls)) ELSE ls
-----------------------------------------------------------------------------
(***************************************************************************)
(* What structure_once knows before it lays anything out.                  *)
(***************************************************************************)
\* collect_loop_body: what reaches the tail without passing the header.
RECURSIVE Backwards(_, _, _)
Backwards(pred, header, body) ==
    LET more == (UNION {Range(pred[b]) : b \in body \ {header}}) \ body
    IN  IF more = {} THEN body ELSE Backwards(pred, header, body \cup more)

CollectLoopBody(pred, header, tail) ==
    IF header = tail THEN {header} ELSE Backwards(pred, header, {header, tail})

\* A loop: an edge to a block that dominates where it comes from.
BackEdges(succ, dom) ==
    LET tails(h) == {u \in Blocks(succ) : Edge(succ, u, h) /\ Dominates(dom, h, u)}
    IN  [h \in {b \in Blocks(succ) : tails(b) # {}} |-> tails(h)]

LoopBodies(pred, backEdges) ==
    [h \in DOMAIN backEdges |-> UNION {CollectLoopBody(pred, h, u) : u \in backEdges[h]}]

\* Where a loop goes on: at the block all its paths meet in, or the lowest.
LoopExit(meet, outside) == IF meet \in outside THEN meet ELSE Lowest(outside)

LoopFacts(succ, pred, ipdom, backEdges, body) ==
    [pred |-> pred, ipdom |-> ipdom, headers |-> DOMAIN body, body |-> body,
     backEdges |-> backEdges,
     exit |-> [h \in DOMAIN body |->
                 LoopExit(ipdom[h], (UNION {Range(succ[b]) : b \in body[h]}) \ body[h])]]

\* The post-dominators: a block that aborts is no exit, unless every path aborts.
PostDominators(p, exits) ==
    ReverseTree(p.succ, exits, IF exits = {} THEN {} ELSE p.abort)

FactsOf(p, pred, backEdges) ==
    LoopFacts(p.succ, pred,
              PostDominators(p, {b \in Blocks(p.succ) : Terminator(p, b) = "ret"}).idom,
              backEdges, LoopBodies(pred, backEdges))

Facts(p) == FactsOf(p, BlockGraph(p.succ), BackEdges(p.succ, Forward(p.succ)))
-----------------------------------------------------------------------------
(***************************************************************************)
(* The descent.  The context holds what it has visited, the open loops     *)
(* (header, continuation), the lines so far and the fallbacks; i holds the *)
(* program, the facts and the labels to keep.                              *)
(***************************************************************************)
Emit(c, l) == [c EXCEPT !.out = Append(@, l)]
FallBack(c, l) == [Emit(c, l) EXCEPT !.fallbacks = @ + 1]
OpenHeaders(c) == {c.loops[k][1] : k \in DOMAIN c.loops}

\* region_lines, whose bound on the lines no region this shallow exceeds: a
\* small tail with no loop in it.
RECURSIVE IsTail(_, _, _, _)
IsTail(i, c, n, depth) ==
    /\ depth > 0 /\ n \notin i.facts.headers \cup OpenHeaders(c)
    /\ \/ Terminator(i.p, n) = "ret"
       \/ Terminator(i.p, n) = "jmp" /\ IsTail(i, c, i.p.succ[n][1], depth - 1)
       \/ /\ Terminator(i.p, n) = "cjmp"
          /\ IsTail(i, c, i.p.succ[n][1], depth - 1) /\ IsTail(i, c, i.p.succ[n][2], depth - 1)

True(n) == <<"is", n, 1>>
False(n) == <<"is", n, 2>>

\* try_short_circuit: a branch with nothing of its own before it, reached from
\* this one only.  The folded condition, its two arms and the block eaten.
TryShortCircuit(i, n, t, f) ==
    LET guard(b) == /\ b # n /\ b \notin i.facts.headers /\ Terminator(i.p, b) = "cjmp"
                    /\ i.facts.pred[b] = <<n>> /\ ~HasLines(i.p, b)
                    /\ Arms(i.p, b)[2] # Nowhere
        of(b) == Arms(i.p, b)
        fold(cond, arm, other, b) == <<[cond |-> cond, body |-> arm, else |-> other, eaten |-> b]>>
    IN  CASE guard(t) /\ of(t)[2] = f -> fold(<<"and", True(n), True(t)>>, of(t)[1], f, t)
          [] guard(t) /\ of(t)[1] = f -> fold(<<"and", True(n), False(t)>>, of(t)[2], f, t)
          [] guard(f) /\ of(f)[1] = t -> fold(<<"or", True(n), True(f)>>, t, of(f)[2], f)
          [] guard(f) /\ of(f)[2] = t -> fold(<<"or", True(n), False(f)>>, t, of(f)[1], f)
          [] OTHER -> <<>>

RECURSIVE EmitNode(_, _, _, _)
RECURSIVE EmitBlock(_, _, _, _)
RECURSIVE EmitSwitch(_, _, _, _, _)
RECURSIVE SwitchArm(_, _, _, _, _)

\* capture_arm: the lines of one arm, and the context with the others' lines.
Captured(c, done) == [lines |-> done.out, after |-> [done EXCEPT !.out = c.out]]
CaptureArm(i, c, arm, until) == Captured(c, EmitNode(i, [c EXCEPT !.out = <<>>], arm, until))

GoOn(i, c, n, until) == IF n = Nowhere THEN c ELSE EmitNode(i, c, n, until)

\* The merge of a branch.
EmitMerge(i, c, n, until) == GoOn(i, c, i.facts.ipdom[n], until)

\* Mutant: an empty then is dropped and its condition kept.
IfLinesUninverted(cond, then, else, behind, keep) ==
    IF ~ArmHasCode(then, keep) THEN <<<<"if", cond, else, <<>>>>>>
    ELSE <<<<"if", cond, then, behind>>>>

\* An if with its empty arms cleaned up; behind is what comes after else when
\* both arms stay.
IfLines(cond, then, else, behind, keep) ==
    CASE ~ArmHasCode(then, keep) /\ ~ArmHasCode(else, keep) -> <<>>
      [] ~ArmHasCode(then, keep) /\ ArmHasCode(else, keep) -> <<<<"if", <<"not", cond>>, else, <<>>>>>>
      [] ArmHasCode(then, keep) /\ ~ArmHasCode(else, keep) -> <<<<"if", cond, then, <<>>>>>>
      [] OTHER -> <<<<"if", cond, then, behind>>>>

\* The two arms of a folded branch, the other one after the body's.
FoldedIf(i, n, until, fold, body, other) ==
    EmitMerge(i, [other.after EXCEPT
                    !.out = @ \o IfLines(fold.cond, body.lines, other.lines, other.lines, i.keep)],
              n, until)

FoldedElse(i, n, until, fold, body) ==
    FoldedIf(i, n, until, fold, body,
             IF fold.else = i.facts.ipdom[n] THEN [lines |-> <<>>, after |-> body.after]
             ELSE CaptureArm(i, body.after, fold.else, i.facts.ipdom[n]))

EmitFolded(i, c, n, until, fold) ==
    FoldedElse(i, n, until, fold,
               CaptureArm(i, [c EXCEPT !.visited = @ \cup {fold.eaten}], fold.body, i.facts.ipdom[n]))

\* The two arms of any other branch, whose merge is laid out unless both left.
JoinArms(i, c, n, until, then, else) ==
    IF ArmDiverges(then) /\ ArmDiverges(else) THEN c ELSE EmitMerge(i, c, n, until)

PlainIf(i, n, until, then, else) ==
    JoinArms(i, [else.after EXCEPT
                   !.out = @ \o IfLines(True(n), then.lines, else.lines,
                                        TryElseIf(else.lines, i.keep), i.keep)],
             n, until, then.lines, else.lines)

PlainElse(i, n, until, then, arm) ==
    PlainIf(i, n, until, then, CaptureArm(i, then.after, arm, i.facts.ipdom[n]))

\* emit_if_else: a fold is taken unless it eats a label that is wanted.
EmitArms(i, c, n, until, arms, folds) ==
    CASE arms[2] = Nowhere -> [c EXCEPT !.fallbacks = @ + 1]
      [] arms[2] # Nowhere /\ folds # <<>> -> EmitFolded(i, c, n, until, folds[1])
      [] OTHER -> PlainElse(i, n, until, CaptureArm(i, c, arms[1], i.facts.ipdom[n]), arms[2])

EmitIfElse(i, c, n, until) ==
    EmitArms(i, c, n, until, Arms(i.p, n),
             SelectSeq(TryShortCircuit(i, n, Arms(i.p, n)[1], Arms(i.p, n)[2]),
                       LAMBDA s : s.eaten \notin i.keep))

\* emit_switch: one arm for each successor, each with its break.
EmitSwitch(i, c, n, k, lines) ==
    IF k > Len(i.p.succ[n]) THEN [c EXCEPT !.out = Append(@, <<"switch", n, lines>>)]
    ELSE SwitchArm(i, n, k, lines, CaptureArm(i, c, i.p.succ[n][k], i.facts.ipdom[n]))

SwitchArm(i, n, k, lines, arm) ==
    EmitSwitch(i, arm.after, n, k + 1, Append(lines, arm.lines \o <<<<"break">>>>))

\* emit_block_body_and_terminator.
EmitBlock(i, c, n, until) ==
    LET body == [c EXCEPT !.out = @ \o BodyLines(i.p, n)]
    IN  CASE Terminator(i.p, n) \in {"ret", "call-noreturn"} -> body
          [] Terminator(i.p, n) = "jmp" -> EmitNode(i, body, i.p.succ[n][1], until)
          [] Terminator(i.p, n) = "cjmp" -> EmitIfElse(i, body, n, until)
          [] Terminator(i.p, n) = "switch" ->
               EmitMerge(i, EmitSwitch(i, body, n, 1, <<>>), n, until)

\* The block laid out after the innermost loop is known.
Continuation(c, n) == [c EXCEPT !.loops = Append(Front(@), <<Last(@)[1], n>>)]
Close(c) == [c EXCEPT !.loops = Front(@)]

\* Where the step is when the lines end in one.
StepAt(ls) == {k \in DOMAIN ls : ls[k][1] = "step" /\ \A j \in (k + 1)..Len(ls) : ~IsCode(ls[j])}

WhileOrFor(stay, ls, steps) ==
    IF steps = {} THEN <<"while", stay, ls>>
    ELSE <<"for", stay, RemoveAt(ls, Max(steps)), ls[Max(steps)]>>

\* The test at the top: while, for when the body ends in its step, and a
\* break behind what the header does first.
TopLines(p, h, stay, leave, ls) ==
    IF HasLines(p, h)
    THEN <<"forever", <<>>, BodyLines(p, h) \o <<<<"if", leave, <<<<"break">>>>, <<>>>>>> \o ls>>
    ELSE WhileOrFor(stay, BodyLines(p, h) \o ls, StepAt(BodyLines(p, h) \o ls))

TopLoop(i, h, until, stay, leave, outside, arm) ==
    EmitNode(i, Close(Emit(arm.after, TopLines(i.p, h, stay, leave, arm.lines))), outside, until)

TopArms(i, c, h, until, stay, leave, inside, outside) ==
    TopLoop(i, h, until, stay, leave, outside,
            CaptureArm(i, Continuation(c, outside), inside, h))

TopTest(i, c, h, until) ==
    IF Arms(i.p, h)[1] \in i.facts.body[h]
    THEN TopArms(i, c, h, until, True(h), False(h), Arms(i.p, h)[1], Arms(i.p, h)[2])
    ELSE TopArms(i, c, h, until, False(h), True(h), Arms(i.p, h)[2], Arms(i.p, h)[1])

\* The test at the bottom: the latch's.
DoLoop(i, before, t, until, again, outside, in) ==
    EmitNode(i, Close([in EXCEPT
                         !.out = Append(before, <<"do", again, in.out \o BodyLines(i.p, t)>>)]),
             outside, until)

LatchArms(i, c, h, t, until, again, outside) ==
    LET at == [Continuation(c, outside) EXCEPT !.visited = @ \cup {t}, !.out = <<>>]
    IN  DoLoop(i, c.out, t, until, again, outside, IF t = h THEN at ELSE EmitBlock(i, at, h, t))

BottomTest(i, c, h, t, until) ==
    IF Arms(i.p, t)[1] = h THEN LatchArms(i, c, h, t, until, True(t), Arms(i.p, t)[2])
    ELSE LatchArms(i, c, h, t, until, False(t), Arms(i.p, t)[1])

\* No test found: a loop for ever, with a break to the chosen exit.
ForeverLoop(before, in) == Close([in EXCEPT !.out = Append(before, <<"forever", <<>>, in.out>>)])

Endless(i, c, h, until) ==
    GoOn(i, ForeverLoop(c.out, EmitBlock(i, [Continuation(c, i.facts.exit[h]) EXCEPT !.out = <<>>], h, h)),
         i.facts.exit[h], until)

\* emit_loop.
EmitLoop(i, c, h, until) ==
    LET body == i.facts.body[h]
        opened == [c EXCEPT !.loops = Append(@, <<h, Nowhere>>)]
        isBranch(b) == Terminator(i.p, b) = "cjmp" /\ Arms(i.p, b)[2] # Nowhere
        latchLeaves == \E b \in i.facts.backEdges[h] :
                          Terminator(i.p, b) = "cjmp" /\ \E s \in Range(i.p.succ[b]) : s \notin body
        oneIn(b) == Cardinality(Range(i.p.succ[b]) \cap body) = 1
        t == CHOOSE b \in i.facts.backEdges[h] : TRUE
    IN  CASE isBranch(h) /\ ~latchLeaves /\ oneIn(h) -> TopTest(i, opened, h, until)
          [] /\ ~(isBranch(h) /\ ~latchLeaves /\ oneIn(h))
             /\ Cardinality(i.facts.backEdges[h]) = 1 /\ isBranch(t) /\ oneIn(t) ->
               BottomTest(i, opened, h, t, until)
          [] OTHER -> Endless(i, opened, h, until)

\* emit_node.
EmitNode(i, c, n, until) ==
    LET at == [c EXCEPT !.visited = @ \cup {n}, !.depth = @ + 1]
        done == IF n \in i.facts.headers THEN EmitLoop(i, at, n, until) ELSE EmitBlock(i, at, n, until)
    IN  CASE n = until -> c
          [] n # until /\ n \in OpenHeaders(c) -> Emit(c, <<"continue">>)
          [] n # until /\ n \notin OpenHeaders(c) /\ c.loops # <<>> /\ Last(c.loops)[2] = n ->
               Emit(c, <<"break">>)
          [] OTHER ->
               CASE n \in c.visited /\ IsTail(i, c, n, MaxDupDepth) -> EmitBlock(i, c, n, until)
                 [] n \in c.visited /\ ~IsTail(i, c, n, MaxDupDepth) -> FallBack(c, <<"goto", n>>)
                 [] n \notin c.visited /\ c.depth >= DepthLimit -> FallBack(c, <<"goto", n>>)
                 [] OTHER -> [done EXCEPT !.depth = c.depth]

\* structure_once: from the entry, and then every block it did not reach.
StructureOnce(p, facts, keep) ==
    LET i == [p |-> p, facts |-> facts, keep |-> keep]
        start == [visited |-> {}, loops |-> <<>>, out |-> <<>>, depth |-> 0, fallbacks |-> 0]
    IN  FoldLeft(LAMBDA c, b : IF b \notin c.visited /\ (HasLines(p, b) \/ b \in keep)
                               THEN EmitNode(i, c, b, Nowhere) ELSE c,
                 EmitNode(i, start, 0, Nowhere), SetToSortSeq(Blocks(p.succ), <))

\* Mutant: it is laid out once.
LayOutOnce(p, facts, keep, rounds) == StructureOnce(p, facts, keep)

\* structure_within: again, while a goto has lost its label.
RECURSIVE LayOut(_, _, _, _)
LayOut(p, facts, keep, rounds) ==
    LET c == StructureOnce(p, facts, keep)
        missing == Marks("goto", c.out) \ Marks("label", c.out)
    IN  IF missing \subseteq keep \/ rounds = 0 THEN c
        ELSE LayOut(p, facts, keep \cup missing, rounds - 1)
-----------------------------------------------------------------------------
(***************************************************************************)
(* The machine and the text, executed from one line to the next.  A choice *)
(* says which arm each branch takes until then: what a branch tests        *)
(* changes only with a line.                                               *)
(***************************************************************************)
Spinning == -3
Fell == -4   \* off the end of the text

\* The next block with a line, from n on.
RECURSIVE MachineFrom(_, _, _)
MachineFrom(n, choice, fuel) ==
    CASE HasLines(prog, n) -> n
      [] ~HasLines(prog, n) /\ fuel = 0 -> Spinning
      [] OTHER -> MachineFrom(prog.succ[n][choice[n]], choice, fuel - 1)

RECURSIVE Holds(_, _)
Holds(cond, choice) ==
    CASE cond[1] = "is" -> choice[cond[2]] = cond[3]
      [] cond[1] = "not" -> ~Holds(cond[2], choice)
      [] cond[1] = "and" -> Holds(cond[2], choice) /\ Holds(cond[3], choice)
      [] cond[1] = "or" -> Holds(cond[2], choice) \/ Holds(cond[3], choice)

\* Where a label is: what follows it, and the braces it is between.
RECURSIVE Find(_, _, _)
Find(ls, n, under) ==
    UNION {LET rest == <<"lines", SubSeq(ls, k + 1, Len(ls))>>
               l == ls[k]
           IN  CASE l[1] = "label" -> IF l[2] = n THEN {<<rest>> \o under} ELSE {}
                 [] l[1] = "if" -> Find(l[3], n, <<rest>> \o under) \cup Find(l[4], n, <<rest>> \o under)
                 [] l[1] \in {"while", "for", "do", "forever"} ->
                      Find(l[3], n, <<<<"loop", l>>, rest>> \o under)
                 [] l[1] = "switch" ->
                      UNION {Find(l[3][a], n, <<<<"switch">>, rest>> \o under) : a \in DOMAIN l[3]}
                 [] OTHER -> {} : k \in DOMAIN ls}

\* The frames from the innermost one of these kinds on.
RECURSIVE Until(_, _)
Until(frames, kinds) ==
    IF frames = <<>> \/ Head(frames)[1] \in kinds THEN frames ELSE Until(Tail(frames), kinds)

RECURSIVE TextFrom(_, _, _)
TextFrom(frames, choice, fuel) ==
    IF frames = <<>> THEN [at |-> Fell, frames |-> <<>>]
    ELSE IF fuel = 0 THEN [at |-> Spinning, frames |-> <<>>]
    ELSE LET top == Head(frames)
             under == Tail(frames)
             go(fs) == TextFrom(fs, choice, fuel - 1)
             loop == top[2]
             body == <<<<"lines", loop[3]>>, <<"loop", loop>>>> \o under
             l == Head(top[2])
             rest == <<<<"lines", Tail(top[2])>>>> \o under
             enter == <<<<"lines", l[3]>>, <<"loop", l>>>> \o rest
         IN  CASE top[1] = "switch" -> go(under)
               [] top[1] = "test" -> go(IF Holds(loop[2], choice) THEN body ELSE under)
               [] top[1] = "loop" ->
                    IF loop[1] = "for"
                    THEN [at |-> loop[4][2], frames |-> <<<<"test", loop>>>> \o under]
                    ELSE go(IF loop[1] = "forever" \/ Holds(loop[2], choice) THEN body ELSE under)
               [] top[1] = "lines" ->
                    IF top[2] = <<>> THEN go(under)
                    ELSE CASE l[1] = "label" -> go(rest)
                           [] l[1] \in {"code", "step"} -> [at |-> l[2], frames |-> rest]
                           [] l[1] \in {"return", "abort"} -> [at |-> l[2], frames |-> <<>>]
                           [] l[1] = "if" ->
                                go(<<<<"lines", IF Holds(l[2], choice) THEN l[3] ELSE l[4]>>>> \o rest)
                           [] l[1] \in {"while", "for"} -> go(IF Holds(l[2], choice) THEN enter ELSE rest)
                           [] l[1] \in {"do", "forever"} -> go(enter)
                           [] l[1] = "switch" ->
                                go(<<<<"lines", l[3][choice[l[2]]]>>, <<"switch">>>> \o rest)
                           [] l[1] = "break" -> LET out == Until(rest, {"loop", "switch"})
                                                IN  go(IF out = <<>> THEN <<>> ELSE Tail(out))
                           [] l[1] = "continue" -> go(Until(rest, {"loop"}))
                           [] l[1] = "goto" ->
                                LET places == Find(laid.out, l[2], <<>>)
                                IN  go(IF places = {} THEN <<>> ELSE CHOOSE f \in places : TRUE)

StructureInit ==
    /\ \E f \in Programs : \E g \in f.graphs : \E lines \in [DOMAIN g -> f.lines] :
       \E abort \in SUBSET {b \in DOMAIN g : g[b] = <<>>} :
          /\ Cardinality(abort) <= f.aborts
          /\ prog = [succ |-> g, lines |-> lines, abort |-> abort]
    /\ laid = <<>> /\ block = Nowhere /\ follow = <<>> /\ shown = Nowhere

LayOutText ==
    /\ laid = <<>>
    /\ laid' = LayOut(prog, Facts(prog), {}, Rounds)
    /\ follow' = <<<<"lines", laid'.out>>>>
    /\ UNCHANGED <<prog, block, shown>>

\* The machine goes to its next line, and the text to its own.
Decisions == {f \in [Blocks(prog.succ) -> 0..3] :
              \A b \in Blocks(prog.succ) :
                 f[b] <= Len(prog.succ[b]) /\ (f[b] = 0 <=> prog.succ[b] = <<>>)}

Run ==
    /\ laid # <<>>
    /\ block \notin {Spinning} \cup {b \in Blocks(prog.succ) : prog.succ[b] = <<>>}
    /\ \E choice \in Decisions :
         LET t == TextFrom(follow, choice, Fuel)
         IN  /\ block' = MachineFrom(IF block = Nowhere THEN 0 ELSE prog.succ[block][choice[block]],
                                     choice, Cardinality(Blocks(prog.succ)))
             /\ shown' = t.at /\ follow' = t.frames
    /\ UNCHANGED <<prog, laid>>

StructureNext == LayOutText \/ Run
StructureSpec == StructureInit /\ [][StructureNext]_structureVars
-----------------------------------------------------------------------------
\* The text executes the lines the machine executes, in its order, whatever
\* the branches decide.
TextRunsTheSame == shown = block

\* An inner loop has an edge to the head of a loop around it, or a switch is
\* in a loop: there a plain continue or break of the text is not the one meant.
Nested(f) ==
    \/ \E outer, inner \in f.headers :
          /\ outer # inner /\ inner \in f.body[outer]
          /\ \E u \in f.body[inner] : Edge(prog.succ, u, outer)
    \/ \E h \in f.headers : \E b \in f.body[h] : Terminator(prog, b) = "switch"

\* A for whose body continues: the continue runs the step that was the body's
\* last line, and that the machine passes over.
RECURSIVE Continues(_)
Continues(ls) ==
    \E k \in DOMAIN ls :
       CASE ls[k][1] = "continue" -> TRUE
         [] ls[k][1] = "if" -> Continues(ls[k][3]) \/ Continues(ls[k][4])
         [] OTHER -> FALSE

RECURSIVE StepOvertaken(_)
StepOvertaken(ls) ==
    \E k \in DOMAIN ls :
       CASE ls[k][1] = "for" -> Continues(ls[k][3]) \/ StepOvertaken(ls[k][3])
         [] ls[k][1] = "if" -> StepOvertaken(ls[k][3]) \/ StepOvertaken(ls[k][4])
         [] ls[k][1] \in {"while", "do", "forever"} -> StepOvertaken(ls[k][3])
         [] OTHER -> FALSE

\* The text without a goto, of a function whose loops have no such edges, is
\* the function: it executes the lines the machine executes, in its order,
\* whatever the branches decide.  (emit_node, emit_if_else and emit_loop.)
CleanTextRunsTheSame ==
    shown # block => \/ laid.fallbacks > 0 \/ Nested(Facts(prog)) \/ StepOvertaken(laid.out)

\* "a goto to a label that is not there": every goto of the text has its
\* label in it, also when the branch that led to the block was folded away.
GotosHaveLabels ==
    laid # <<>> => Marks("goto", laid.out) \subseteq Marks("label", laid.out)
=============================================================================
