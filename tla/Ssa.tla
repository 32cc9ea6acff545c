--------------------------------- MODULE Ssa ---------------------------------
(***************************************************************************)
(* Into SSA form and out of it (n0xis-core: ssa.rs, coalesce.rs, and what  *)
(* structure.rs asks of dom.rs).  A function goes through the passes, and  *)
(* then it is executed, block after block along any path, three times side *)
(* by side: as the machine does, as the SSA form reads, and as the text    *)
(* rendered from it reads once the versions have been given names.         *)
(*                                                                         *)
(* A statement has a destination, or "", and at most one variable it       *)
(* reads.  The variables are x, an integer register, the one a function    *)
(* returns; f, the vector register it may return instead; and the flags.   *)
(* A function is a record: the graph, the statements of each block, the    *)
(* blocks that abort and the ones that end in a tail call.                 *)
(***************************************************************************)
EXTENDS Dominators

CONSTANTS
    Families,  \* the functions to look at: records of the graphs, of the bodies
               \* a block of one may have, and of how many dead ends may abort and
               \* how many may be tail calls
    Modulus    \* x is counted modulo this

VARIABLES
    fn,     \* the function
    stage,  \* which pass is next, or "run"
    trees,  \* the dominators, the post-dominators and the frontiers
    ssa,    \* the SSA artifact
    names,  \* the names of coalesce_vars
    at,     \* the block executed last
    mach,   \* what the machine's registers hold
    env,    \* what the SSA names hold
    text,   \* what the names of the rendered text hold
    reads   \* what the block executed last read: <<machine, SSA, text>>

ssaVars == <<fn, stage, trees, ssa, names, at, mach, env, text, reads>>

VarSeq == <<"f", "flags", "x">>   \* in the order of their names
Var == Range(VarSeq)

\* The statements.
Lea == [dst |-> "x", op |-> "inc", reads |-> "x"]
Cmp == [dst |-> "flags", op |-> "cmp", reads |-> "x"]
OpaqueFlags == [dst |-> "flags", op |-> "opaque", reads |-> ""]
StoreX == [dst |-> "", op |-> "store", reads |-> "x"]
Compute == [dst |-> "f", op |-> "float", reads |-> ""]
Clobber == [dst |-> "f", op |-> "unknown", reads |-> ""]
StoreF == [dst |-> "", op |-> "store", reads |-> "f"]

None == <<>>
Garbage == -7  \* in a name nothing has been assigned to

Returns(g, b) == g.succ[b] = <<>> /\ b \notin g.abort
IsBranch(g, b) == Len(g.succ[b]) = 2
-----------------------------------------------------------------------------
(***************************************************************************)
(* ssa.rs.                                                                 *)
(***************************************************************************)
\* The blocks that get a phi for a variable: the iterated frontier of the
\* blocks that define it.
RECURSIVE IteratedFrontier(_, _, _)
IteratedFrontier(df, worklist, hasPhi) ==
    LET new == (UNION {df[b] : b \in worklist}) \ hasPhi
    IN  IF new = {} THEN hasPhi ELSE IteratedFrontier(df, new, hasPhi \cup new)

\* Mutant: a phi is not a definition that needs phis of its own.
PhiBlocksOnce(g, df, v) ==
    UNION {df[b] : b \in {c \in Blocks(g.succ) : \E i \in DOMAIN g.body[c] : g.body[c][i].dst = v}}

PhiBlocks(g, df, v) ==
    IteratedFrontier(df, {b \in Blocks(g.succ) : \E i \in DOMAIN g.body[b] : g.body[b][i].dst = v},
                     {})

\* The state of the renaming walk.  A name is a variable and a version.
Top(s, v) == Last(s.stacks[v])
Fresh(s, v) == <<v, s.counters[v] + 1>>
Push(s, v, value) ==
    [s EXCEPT !.counters[v] = @ + 1, !.stacks[v] = Append(@, Fresh(s, v)),
              !.defs = @ @@ (Fresh(s, v) :> value), !.pushed = Append(@, v)]

\* rename_stmt: the uses first, against the stacks as they stand.
RenameStmt(s, b, stmt) ==
    LET read == IF stmt.reads = "" THEN None ELSE Top(s, stmt.reads)
        new == IF stmt.dst = "" THEN s ELSE Push(s, stmt.dst, <<stmt.op, read>>)
        dst == IF stmt.dst = "" THEN None ELSE Top(new, stmt.dst)
    IN  [new EXCEPT !.stmts[b] = Append(@, [dst |-> dst, op |-> stmt.op, reads |-> read])]

PhiVars(s, b) == SelectSeq(VarSeq, LAMBDA v : v \in DOMAIN s.phis[b])

\* rename_block: the phis of the block, its statements, and then what it
\* feeds to the phis of its successors, one input for each edge.
RenameBlock(g, s, b) ==
    LET phi == FoldLeft(LAMBDA t, v : LET u == Push(t, v, <<"unknown", None>>)
                                      IN  [u EXCEPT !.phis[b][v].dst = Top(u, v)],
                        [s EXCEPT !.pushed = <<>>, !.visited = @ \cup {b}], PhiVars(s, b))
        done == FoldLeft(LAMBDA t, stmt : RenameStmt(t, b, stmt), phi, g.body[b])
        fed == [done EXCEPT !.flags[b] = Top(done, "flags"),
                            !.rets = IF Returns(g, b)
                                     THEN @ \cup {[block |-> b, float |-> Top(done, "f"),
                                                   int |-> Top(done, "x")]}
                                     ELSE @]
    IN  FoldLeft(LAMBDA t, to :
                   [t EXCEPT !.phis[to] =
                      [v \in DOMAIN @ |-> [@[v] EXCEPT !.inputs = Append(@, <<b, Top(t, v)>>)]]],
                 fed, g.succ[b])

\* What the walk does as it leaves a block: the stacks as they were before it.
Unwind(s, pushed) ==
    FoldLeft(LAMBDA t, v : [t EXCEPT !.stacks[v] = Front(@)], s, Reverse(pushed))

RECURSIVE RenameTree(_, _, _, _)
RenameTree(g, children, s, b) ==
    LET in == RenameBlock(g, s, b)
        under == FoldLeft(LAMBDA t, c : RenameTree(g, children, t, c), in, children[b])
    IN  Unwind(under, in.pushed)

\* The condition of a block the walk did not reach: of the flags set in the
\* block itself, while nothing between has changed what they read.
UnrenamedCondition(body) ==
    LET sets == {i \in DOMAIN body : body[i].dst = "flags"}
        last == CHOOSE i \in sets : \A j \in sets : j <= i
    IN  IF /\ sets # {} /\ body[last].op = "cmp"
           /\ \A i \in DOMAIN body : i > last => body[i].dst # body[last].reads
        THEN <<"cmp", <<body[last].reads, -1>>>> ELSE <<"unknown", None>>

\* The condition of a branch: the compare that reaches it, or a placeholder.
Condition(g, s, b) ==
    IF b \notin s.visited THEN UnrenamedCondition(g.body[b])
    ELSE IF s.defs[s.flags[b]][1] = "cmp" THEN s.defs[s.flags[b]] ELSE <<"unknown", None>>

\* A block the walk did not reach keeps the bare names.
Bare(stmt) == [dst |-> IF stmt.dst = "" THEN None ELSE <<stmt.dst, -1>>, op |-> stmt.op,
               reads |-> IF stmt.reads = "" THEN None ELSE <<stmt.reads, -1>>]

\* retarget_float_returns.  What the statements read, and the conditions.
UsesOf(stmts, conds) ==
    (UNION {{stmts[b][i].reads : i \in DOMAIN stmts[b]} : b \in DOMAIN stmts})
      \cup {conds[b][2] : b \in DOMAIN conds}

\* Every value a phi may stand for, the phi's own included.
RECURSIVE Through(_, _)
Through(inputs, some) ==
    LET more == (UNION {inputs[p] : p \in some \cap DOMAIN inputs}) \ some
    IN  IF more = {} THEN some ELSE Through(inputs, some \cup more)

\* Mutant: a phi is read when it is read by its own name.
UnreadByName(uses, inputs, name) == name \notin uses

Unread(uses, inputs, name) == Through(inputs, {name}) \cap uses = {}

\* Computed by the function: no entry value, no clobber, and all of a phi.
ComputedHere(defs, inputs, name) ==
    \A v \in Through(inputs, {name}) :
       IF v \in DOMAIN inputs THEN inputs[v] # {} ELSE defs[v][1] # "unknown"

\* What a block hands to the callee of a tail call is no result.
Retarget(g, s, conds) ==
    LET uses == UsesOf(s.stmts, conds)
        phis == UNION {{s.phis[b][v] : v \in DOMAIN s.phis[b]} : b \in s.visited}
        inputs == [d \in {p.dst : p \in phis} |->
                     UNION {{p.inputs[i][2] : i \in DOMAIN p.inputs} : p \in {q \in phis : q.dst = d}}]
        offers(name) == Unread(uses, inputs, name) /\ ComputedHere(s.defs, inputs, name)
    IN  {r.block : r \in {q \in s.rets :
                      q.block \notin g.tail /\ offers(q.float) /\ ~offers(q.int)}}

\* The walk begins with the phis in their blocks and every variable's entry value.
RenameStart(g, df) ==
    LET all == Blocks(g.succ)
        phiVars(b) == {v \in Var : b \in PhiBlocks(g, df, v)}
    IN  [stacks |-> [v \in Var |-> <<<<v, 0>>>>], counters |-> [v \in Var |-> 0],
         defs |-> [n \in Var \X {0} |-> <<"unknown", None>>], pushed |-> <<>>,
         phis |-> [b \in all |-> [v \in phiVars(b) |-> [dst |-> None, inputs |-> <<>>]]],
         stmts |-> [b \in all |-> <<>>], flags |-> [b \in all |-> None],
         visited |-> {}, rets |-> {}]

\* What the walk made, with the blocks it did not reach.
KeepUnreached(g, s) ==
    [s EXCEPT !.stmts = [b \in DOMAIN @ |-> IF b \in s.visited THEN @[b]
                                           ELSE [i \in DOMAIN g.body[b] |-> Bare(g.body[b][i])]],
              !.phis = [b \in DOMAIN @ |-> IF b \in s.visited THEN @[b] ELSE <<>>]]

Artifact(g, s, conds) ==
    [stmts |-> s.stmts, phis |-> s.phis, conds |-> conds, visited |-> s.visited,
     floats |-> Retarget(g, s, conds)]

WithConditions(g, s) ==
    Artifact(g, s, [b \in {c \in Blocks(g.succ) : IsBranch(g, c)} |-> Condition(g, s, b)])

\* build_ssa.
Build(g, tree, df) ==
    WithConditions(g, KeepUnreached(g, RenameTree(g, DomChildren(tree.idom),
                                                  RenameStart(g, df), 0)))
-----------------------------------------------------------------------------
(***************************************************************************)
(* coalesce.rs.                                                            *)
(***************************************************************************)
PhisOf(a, b) == {a.phis[b][v] : v \in DOMAIN a.phis[b]}
InputsOf(p) == {p.inputs[i][2] : i \in DOMAIN p.inputs}
CondReads(a, b) == IF b \in DOMAIN a.conds THEN {a.conds[b][2]} \ {None} ELSE {}

\* What a block hands to the phis of its successors.
PhiOut(a, b) ==
    UNION {UNION {{p.inputs[i][2] : i \in {j \in DOMAIN p.inputs : p.inputs[j][1] = b}} :
                    p \in PhisOf(a, c)} : c \in DOMAIN a.stmts}

\* What is live before the statements from i on, with what is live after them.
RECURSIVE LiveFrom(_, _, _)
LiveFrom(stmts, i, after) ==
    IF i > Len(stmts) THEN after
    ELSE (LiveFrom(stmts, i + 1, after) \ {stmts[i].dst}) \cup ({stmts[i].reads} \ {None})

\* liveness: the least solution, from nothing live.
RECURSIVE LiveOut(_, _, _)
LiveOut(g, a, out) ==
    LET into(b) == LiveFrom(a.stmts[b], 1, out[b] \cup CondReads(a, b))
                     \ {p.dst : p \in PhisOf(a, b)}
        next == [b \in DOMAIN out |-> PhiOut(a, b) \cup UNION {into(c) : c \in Range(g.succ[b])}]
    IN  IF next = out THEN out ELSE LiveOut(g, a, next)

\* The pairs of names of which one is defined while the other is live.
Interference(g, a) ==
    LET out == LiveOut(g, a, [b \in DOMAIN a.stmts |-> {}])
        after(b, i) == LiveFrom(a.stmts[b], i, out[b] \cup CondReads(a, b))
        dsts(b) == {p.dst : p \in PhisOf(a, b)}
    IN  UNION {UNION {{{a.stmts[b][i].dst, v} : v \in after(b, i + 1)} : i \in DOMAIN a.stmts[b]}
                 \cup {{d, v} : d \in dsts(b), v \in after(b, 1)} : b \in DOMAIN a.stmts}

\* The phi-congruence classes; the flags are in none.
Merged(a) ==
    UNION {UNION {{{p.dst, v} : v \in InputsOf(p)} : p \in {q \in PhisOf(a, b) : q.dst[1] # "flags"}} :
             b \in DOMAIN a.phis}

RECURSIVE ClassOf(_, _)
ClassOf(merged, some) ==
    LET more == (UNION {m \in merged : m \cap some # {}}) \ some
    IN  IF more = {} THEN some ELSE ClassOf(merged, some \cup more)

\* coalesce_vars: a class of which no two members interfere gets one name.
CoalesceVars(g, a) ==
    LET merged == Merged(a)
        members == UNION merged
        clash == Interference(g, a)
        class(n) == ClassOf(merged, {n})
        safe(n) == \A u, v \in class(n) : u # v => {u, v} \notin clash
    IN  [n \in members |-> IF safe(n) THEN CHOOSE m \in class(n) : \A k \in class(n) : m[2] <= k[2]
                           ELSE n]

Disp(ns, n) == IF n \in DOMAIN ns THEN ns[n] ELSE n

\* destruct_ssa: the copies an edge must carry, one phi after the other.
EdgeCopies(a, ns, from, to) ==
    LET phis == [i \in DOMAIN PhiVars(a, to) |-> a.phis[to][PhiVars(a, to)[i]]]
        copies(p) == LET ins == SelectSeq(p.inputs, LAMBDA q :
                                  q[1] = from /\ Disp(ns, q[2]) # Disp(ns, p.dst))
                     IN  [i \in DOMAIN ins |-> <<p.dst, ins[i][2]>>]
    IN  FoldLeft(LAMBDA cs, p : cs \o copies(p), <<>>, phis)

\* Mutant: no edge is split, and the block carries every edge's copies.
NoEdgeIsSplit(g, a, ns, from, to) ==
    FoldLeft(LAMBDA cs, c : cs \o EdgeCopies(a, ns, from, c), <<>>,
             SetToSortSeq(Range(g.succ[from]), <))

\* The copies that run when from is left for to: a block with one successor
\* carries them itself, and any other edge is split.
CopiesLeaving(g, a, ns, from, to) ==
    IF Cardinality(Range(g.succ[from])) <= 1
    THEN FoldLeft(LAMBDA cs, c : cs \o EdgeCopies(a, ns, from, c), <<>>,
                  SetToSortSeq(Range(g.succ[from]), <))
    ELSE EdgeCopies(a, ns, from, to)

-----------------------------------------------------------------------------
(***************************************************************************)
(* The passes, and the execution of what they made.                        *)
(***************************************************************************)
SsaInit ==
    /\ \E f \in Families : \E g \in f.graphs : \E body \in [DOMAIN g -> f.bodies] :
       \E abort \in SUBSET {b \in DOMAIN g : g[b] = <<>>} :
       \E tail \in SUBSET ({b \in DOMAIN g : g[b] = <<>>} \ abort) :
          /\ Cardinality(abort) <= f.aborts /\ Cardinality(tail) <= f.tails
          /\ fn = [succ |-> g, body |-> body, abort |-> abort, tail |-> tail]
    /\ stage = "dominate"
    /\ trees = None /\ ssa = None /\ names = None
    /\ at = NoBlock /\ mach = None /\ env = None /\ text = None /\ reads = {}

\* structure_once: a block that aborts is no exit, unless every path aborts.
Exits(g) == {b \in Blocks(g.succ) : Returns(g, b)}
Aborts(g) == IF Exits(g) = {} THEN {} ELSE g.abort

Dominate ==
    /\ stage = "dominate"
    /\ trees' = [dom |-> Forward(fn.succ),
                 pdom |-> ReverseTree(fn.succ, Exits(fn), Aborts(fn)),
                 df |-> DominanceFrontier(BlockGraph(fn.succ), Forward(fn.succ).idom)]
    /\ stage' = "ssa"
    /\ UNCHANGED <<fn, ssa, names, at, mach, env, text, reads>>

BuildSsa ==
    /\ stage = "ssa"
    /\ ssa' = Build(fn, trees.dom, trees.df)
    /\ stage' = "coalesce"
    /\ UNCHANGED <<fn, trees, names, at, mach, env, text, reads>>

Coalesce ==
    /\ stage = "coalesce"
    /\ names' = CoalesceVars(fn, ssa)
    /\ stage' = "run"
    /\ UNCHANGED <<fn, trees, ssa, at, mach, env, text, reads>>

\* What the machine computes, and what a name is given.
Compute1(op, old) ==
    CASE op = "inc" -> (old + 1) % Modulus
      [] op = "cmp" -> old
      [] op = "opaque" -> Garbage
      [] op = "float" -> 1
      [] op = "unknown" -> 0

AssignTo(store, n, v) == (n :> v) @@ store
ValueIn(store, n) == IF n \in DOMAIN store THEN store[n] ELSE Garbage

\* One statement, by the machine: f is 1 when the function computed it, and
\* consumed tells that something has read it since.
MachStmt(m, stmt) ==
    LET old == IF stmt.reads = "" THEN 0 ELSE m[stmt.reads]
    IN  IF stmt.dst = "" THEN [m EXCEPT !.consumed = @ \/ stmt.reads = "f"]
        ELSE [m EXCEPT ![stmt.dst] = Compute1(stmt.op, old),
                       !.consumed = @ /\ stmt.dst # "f"]

\* One statement, in SSA form or rendered.
NamedStmt(store, stmt, ns) ==
    IF stmt.dst = None THEN store
    ELSE AssignTo(store, Disp(ns, stmt.dst),
                  Compute1(stmt.op, IF stmt.reads = None THEN 0
                                    ELSE ValueIn(store, Disp(ns, stmt.reads))))

\* The stores after each statement, from the first.
After(Step(_, _), start, stmts) ==
    LET s[i \in 0..Len(stmts)] == IF i = 0 THEN start ELSE Step(s[i - 1], stmts[i])
    IN  s

\* A block is executed, from these three stores.  The callee of a tail call is
\* given every register.
Execute(b, m, e, t) ==
    LET body == fn.body[b]
        stmts == ssa.stmts[b]
        ms == After(MachStmt, m, body)
        es == After(LAMBDA s, c : NamedStmt(s, c, <<>>), e, stmts)
        ts == After(LAMBDA s, c : NamedStmt(s, c, names), t, stmts)
        n == Len(body)
        cond == IF b \in DOMAIN ssa.conds THEN ssa.conds[b] ELSE <<"unknown", None>>
    IN  /\ at' = b
        /\ mach' = [ms[n] EXCEPT !.consumed = @ \/ b \in fn.tail]
        /\ env' = es[n] /\ text' = ts[n]
        /\ reads' = {<<ms[i - 1][body[i].reads], ValueIn(es[i - 1], stmts[i].reads),
                       ValueIn(ts[i - 1], Disp(names, stmts[i].reads))>> :
                       i \in {j \in 1..n : body[j].op = "store"}}
                    \cup (IF cond[1] = "cmp"
                          THEN {<<ms[n].flags, ValueIn(es[n], cond[2]),
                                  ValueIn(ts[n], Disp(names, cond[2]))>>} ELSE {})
        /\ UNCHANGED <<fn, stage, trees, ssa, names>>

\* The function is entered, at its first block, or by the unwinder at a block
\* no path reaches.
EnterFunction ==
    /\ stage = "run" /\ at = NoBlock
    /\ \E b \in {0} \cup (Blocks(fn.succ) \ ssa.visited) :
         LET v == IF b \in ssa.visited THEN 0 ELSE -1
             e == (<<"x", v>> :> 0) @@ (<<"f", v>> :> 0) @@ (<<"flags", v>> :> 0)
             shown == (Disp(names, <<"x", v>>) :> 0) @@ (Disp(names, <<"f", v>>) :> 0) @@ e
         IN  Execute(b, [x |-> 0, f |-> 0, flags |-> Garbage, consumed |-> FALSE], e, shown)

\* An edge is taken.  The phis read their inputs all at once; the rendered
\* copies run one after the other.  A path the renaming did not see, from a block
\* it did not reach into one it did, is left out: the phis there have no input
\* for it.
TakeEdge ==
    /\ stage = "run" /\ at # NoBlock
    /\ \E to \in Range(fn.succ[at]) :
         LET phis == {p \in PhisOf(ssa, to) : \E i \in DOMAIN p.inputs : p.inputs[i][1] = at}
             input(p) == p.inputs[CHOOSE i \in DOMAIN p.inputs : p.inputs[i][1] = at][2]
             fed == [d \in {p.dst : p \in phis} |->
                       ValueIn(env, input(CHOOSE p \in phis : p.dst = d))]
             copies == CopiesLeaving(fn, ssa, names, at, to)
             copied == After(LAMBDA s, c : AssignTo(s, Disp(names, c[1]),
                                                    ValueIn(s, Disp(names, c[2]))),
                             text, copies)
         IN  /\ (at \in ssa.visited) = (to \in ssa.visited)
             /\ Execute(to, mach, fed @@ env, copied[Len(copies)])

SsaNext == Dominate \/ BuildSsa \/ Coalesce \/ EnterFunction \/ TakeEdge

SsaSpec == SsaInit /\ [][SsaNext]_ssaVars
-----------------------------------------------------------------------------
(***************************************************************************)
(* The properties.                                                         *)
(***************************************************************************)
\* The trees answer, by their intervals, what the paths say.  A block
\* dominates another exactly when no path from the entry reaches that one
\* without passing it, and a block no path reaches has itself alone; it
\* post-dominates another exactly when no path from that one completes
\* without passing it, an abort not counting, and a block from which no exit
\* is reached has every block.
DominatorTreesAreExact ==
    stage # "dominate" =>
      LET ends == {b \in Blocks(fn.succ) : fn.succ[b] = <<>> /\ b \notin Aborts(fn)}
          completes(b, without) == \E e \in ends : Reaches(fn.succ, b, e, without)
      IN  \A a, b \in Blocks(fn.succ) :
             /\ Dominates(trees.dom, a, b) <=>
                  \/ a = b
                  \/ Reaches(fn.succ, 0, b, {}) /\ ~Reaches(fn.succ, 0, b, {a})
             /\ Dominates(trees.pdom, a, b) <=> (a = b \/ ~completes(b, {a}))

\* Every variable a statement or a condition of the SSA form reads holds what
\* the machine's register held there, and a condition is a compare only when
\* that compare is the one the machine tests, whatever the path taken.
SsaReadsTheSame == \A r \in reads : r[1] = r[2]

\* So does every name of the rendered text: coalescing and the edge copies
\* lose no copy and swap no value.
TextReadsTheSame == \A r \in reads : r[1] = r[3]

\* A return is pointed at the vector register only where, on the path taken,
\* the function computed what it holds and nothing has read it, the callee of a
\* tail call included.
ReturnIsForTheCaller ==
    at # NoBlock /\ Returns(fn, at) /\ at \in ssa.floats => mach.f = 1 /\ ~mach.consumed
=============================================================================
