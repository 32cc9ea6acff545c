----------------------------- MODULE MCAnalysis -----------------------------
(***************************************************************************)
(* The analysis passes for TLC, each on functions of its own: SSA on every *)
(* graph of few blocks without statements, for the dominators, and on      *)
(* chosen shapes with every choice of bodies; the structuring on every     *)
(* graph of three blocks, on the same shapes and on larger chosen ones.    *)
(***************************************************************************)
EXTENDS Ssa, Structure

VARIABLE pass   \* "ssa" or "structure"

\* Every graph of n blocks, with at most two successors each.
Edges(targets) ==
    {<<>>} \cup {<<t>> : t \in targets} \cup {p \in targets \X targets : p[1] < p[2]}
Graphs(n) == [0..n - 1 -> Edges(0..n - 1)]

\* The same, with the true arm of a branch first.
Branches(targets) == {<<>>} \cup {<<t>> : t \in targets} \cup (targets \X targets)
OrderedGraphs(n) == [0..n - 1 -> Branches(0..n - 1)]

Graph(edges) == [b \in 0..Len(edges) - 1 |-> edges[b + 1]]

\* Two arms and a join; a loop with a middle exit; a loop behind an arm; two
\* nested loops; a loop with two ways in; a branch to where it falls through;
\* a join a block no path reaches leads to.
Shapes == {
    Graph(<< <<1, 2>>, <<3>>, <<3>>, <<>> >>),
    Graph(<< <<1>>, <<2, 3>>, <<1>>, <<>> >>),
    Graph(<< <<1, 3>>, <<2>>, <<1, 3>>, <<>> >>),
    Graph(<< <<1>>, <<2>>, <<1, 2>>, <<>> >>),
    Graph(<< <<1>>, <<1, 2>>, <<1, 3>>, <<>> >>),
    Graph(<< <<1, 2>>, <<2, 3>>, <<1>>, <<>> >>),
    Graph(<< <<1, 1>>, <<2, 3>>, <<1>>, <<3>> >>),
    Graph(<< <<1, 3>>, <<3>>, <<2, 3>>, <<>> >>)}

\* A function's first block is a loop head.
EntryShapes == {Graph(<< <<0, 1>>, <<>> >>), Graph(<< <<1>>, <<0, 2>>, <<>> >>)}

\* Chains deeper than the limit; conditions to fold; arms that share a tail;
\* nested loops with a test at the top, in the middle and at the bottom, and
\* with an edge to the outer one; a switch, and one in a loop; two loops that
\* enter each other.
Layouts == {
    Graph(<< <<1, 2>>, <<3>>, <<3>>, <<4>>, <<5>>, <<>> >>),
    Graph(<< <<1, 2>>, <<2, 3>>, <<4>>, <<4>>, <<>> >>),
    Graph(<< <<1, 2>>, <<3, 4>>, <<4, 3>>, <<5>>, <<5>>, <<>> >>),
    Graph(<< <<1>>, <<2, 5>>, <<3>>, <<4, 2>>, <<1>>, <<>> >>),
    Graph(<< <<1>>, <<2, 4>>, <<3, 4>>, <<1, 5>>, <<>>, <<4>> >>),
    Graph(<< <<1, 2, 3>>, <<4>>, <<4>>, <<5>>, <<5>>, <<>> >>),
    Graph(<< <<1>>, <<2, 3, 4>>, <<1>>, <<4>>, <<5>>, <<>> >>),
    Graph(<< <<1>>, <<2, 3>>, <<4, 1>>, <<4, 5>>, <<1>>, <<>> >>),
    Graph(<< <<1>>, <<2, 3>>, <<1, 3>>, <<4>>, <<3, 5>>, <<>> >>),
    Graph(<< <<1, 2>>, <<2, 3>>, <<1>>, <<>> >>)}

\* A loop laid out before its head, which ends in an abort alone.
Rotated == {Graph(<< <<3, 5>>, <<3>>, <<3, 1>>, <<2, 4>>, <<>>, <<>> >>)}

\* A loop, and one in it with an edge to the outer's head.
OuterContinues == {Graph(<< <<1>>, <<2>>, <<1, 3>>, <<2, 4>>, <<>> >>)}

Integer == {<<>>, <<Lea>>, <<Cmp>>, <<OpaqueFlags>>, <<Cmp, Lea>>, <<StoreX, Lea, StoreX>>}
Vector == {<<>>, <<Compute>>, <<Clobber>>, <<StoreF>>, <<Compute, StoreF>>}

Family(graphs, bodies, aborts, tails) ==
    [graphs |-> graphs, bodies |-> bodies, aborts |-> aborts, tails |-> tails]
Program(graphs, lines, aborts) == [graphs |-> graphs, lines |-> lines, aborts |-> aborts]

MCFamilies == {Family(Graphs(3), {<<>>}, 1, 0), Family(Graphs(4), {<<>>}, 1, 0),
               Family(Shapes, Integer, 0, 0), Family(Shapes, Vector, 0, 1)}
MCEntryLoops == {Family(EntryShapes, Integer, 0, 0)}

MCPrograms == {Program(OrderedGraphs(3), {"none", "code"}, 1),
               Program(Shapes, {"none", "code", "step"}, 0),
               Program(Layouts, {"none", "code"}, 0),
               Program(Rotated, {"none", "step"}, 1)}
MCOuterContinues == {Program(OuterContinues, {"code"}, 0)}
-----------------------------------------------------------------------------
\* A function for one of the passes; the other has none.
SsaRests ==
    /\ fn = None /\ stage = "dominate" /\ trees = None /\ ssa = None /\ names = None
    /\ at = NoBlock /\ mach = None /\ env = None /\ text = None /\ reads = {}

StructureRests ==
    prog = <<>> /\ laid = <<>> /\ block = Nowhere /\ follow = <<>> /\ shown = Nowhere

AnalysisInit ==
    \/ pass = "ssa" /\ SsaInit /\ StructureRests
    \/ pass = "structure" /\ StructureInit /\ SsaRests

AnalysisNext ==
    /\ UNCHANGED pass
    /\ \/ pass = "ssa" /\ SsaNext /\ UNCHANGED structureVars
       \/ pass = "structure" /\ StructureNext /\ UNCHANGED ssaVars

AnalysisSpec == AnalysisInit /\ [][AnalysisNext]_<<pass, ssaVars, structureVars>>
=============================================================================
