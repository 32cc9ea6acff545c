----------------------------- MODULE Dominators -----------------------------
(***************************************************************************)
(* Which block of a function dominates which (n0xis-core, dom.rs): the one *)
(* implementation behind phi placement and control structuring.            *)
(*                                                                         *)
(* A graph is a function from blocks, numbered from 0, to the sequence of  *)
(* their successors; an edge that leaves the function is not in it.  A     *)
(* tree is a record: each block's immediate dominator, or NoBlock, and the *)
(* interval of each reached block in a walk of the tree, or NoSpan.        *)
(***************************************************************************)
EXTENDS Integers, Sequences, SequencesExt, FiniteSets

NoBlock == -1
NoSpan == <<-1, -1>>

Blocks(succ) == DOMAIN succ
Edge(succ, a, b) == b \in Range(succ[a])

\* The predecessors of each block: one for each edge, in block order.
BlockGraph(succ) ==
    LET edges[i \in 0..Cardinality(Blocks(succ))] ==
            IF i = 0 THEN <<>>
            ELSE edges[i - 1] \o [j \in DOMAIN succ[i - 1] |-> <<i - 1, succ[i - 1][j]>>]
        all == edges[Cardinality(Blocks(succ))]
    IN  [b \in Blocks(succ) |-> LET into == SelectSeq(all, LAMBDA e : e[2] = b)
                                IN  [j \in DOMAIN into |-> into[j][1]]]
-----------------------------------------------------------------------------
\* The walk of immediate_tree, with its own stack of <<block, next edge>>.
RECURSIVE PostOrder(_, _, _, _)
PostOrder(succ, stack, seen, order) ==
    IF stack = <<>> THEN order
    ELSE LET b == Last(stack)[1]
             next == Last(stack)[2]
             moved == Append(Front(stack), <<b, next + 1>>)
         IN  CASE next > Len(succ[b]) ->
                    PostOrder(succ, Front(stack), seen, Append(order, b))
               [] next <= Len(succ[b]) /\ succ[b][next] \in seen ->
                    PostOrder(succ, moved, seen, order)
               [] OTHER ->
                    PostOrder(succ, Append(moved, <<succ[b][next], 1>>),
                              seen \cup {succ[b][next]}, order)

\* Where the dominators of a and of b, known so far, meet.
RECURSIVE Meet(_, _, _, _)
Meet(number, a, b, idom) ==
    CASE a = b -> a
      [] number[a] < number[b] -> Meet(number, idom[a], b, idom)
      [] number[b] < number[a] -> Meet(number, a, idom[b], idom)

\* The dominator of b by the predecessors that have one.
NewDominator(number, idom, preds) ==
    LET known == SelectSeq(preds, LAMBDA p : idom[p] # NoBlock)
    IN  IF known = <<>> THEN NoBlock
        ELSE FoldLeft(LAMBDA new, p : Meet(number, p, new, idom), Head(known), Tail(known))

\* Passes over the blocks in reverse post-order, until one changes nothing.
RECURSIVE FixedPoint(_, _, _, _)
FixedPoint(order, number, pred, idom) ==
    LET sweep == FoldLeft(LAMBDA d, b : [d EXCEPT ![b] = NewDominator(number, d, pred[b])],
                          idom, Tail(Reverse(order)))
    IN  IF sweep = idom THEN idom ELSE FixedPoint(order, number, pred, sweep)

ImmediateTree(root, succ, pred) ==
    LET order == PostOrder(succ, <<<<root, 1>>>>, {root}, <<>>)
        number == [b \in Range(order) |-> CHOOSE i \in DOMAIN order : order[i] = b]
        start == [b \in Blocks(succ) |-> IF b = root THEN root ELSE NoBlock]
    IN  [FixedPoint(order, number, pred, start) EXCEPT ![root] = NoBlock]

\* The blocks b is the immediate dominator of, in block order.
DomChildren(idom) ==
    [b \in DOMAIN idom |-> SetToSortSeq({c \in DOMAIN idom : idom[c] = b}, <)]

\* Enter and leave times of a walk of the tree, with its stack of
\* <<block, next child, entered>>.
RECURSIVE Spans(_, _, _, _)
Spans(children, stack, clock, spans) ==
    IF stack = <<>> THEN spans
    ELSE LET b == Last(stack)[1]
             next == Last(stack)[2]
             entered == Last(stack)[3]
         IN  IF next <= Len(children[b])
             THEN Spans(children,
                        Front(stack) \o <<<<b, next + 1, entered>>,
                                          <<children[b][next], 1, clock + 1>>>>,
                        clock + 1, spans)
             ELSE Spans(children, Front(stack), clock + 1,
                        [spans EXCEPT ![b] = <<entered, clock + 1>>])

TreeSpans(root, idom) ==
    Spans(DomChildren(idom), <<<<root, 1, 0>>>>, 0, [b \in DOMAIN idom |-> NoSpan])

\* DomTree::dominates.
Dominates(tree, a, b) ==
    \/ a = b
    \/ tree.spans[b] = NoSpan /\ tree.unreached = "Everything"
    \/ /\ tree.spans[a] # NoSpan /\ tree.spans[b] # NoSpan
       /\ tree.spans[a][1] <= tree.spans[b][1] /\ tree.spans[b][2] <= tree.spans[a][2]

\* DomTree::forward.
Forward(succ) ==
    LET idom == ImmediateTree(0, succ, BlockGraph(succ))
    IN  [idom |-> idom, spans |-> TreeSpans(0, idom), unreached |-> "OnlyItself"]

\* Mutant: an abort is an exit like any other.
AbortsLead(succ, isExit, isAbort) ==
    LET n == Cardinality(Blocks(succ))
    IN  [b \in 0..n |-> IF b = n THEN <<>> ELSE IF succ[b] = <<>> THEN <<n>> ELSE succ[b]]

\* The edges of DomTree::reverse: towards a virtual exit from every exit and
\* from every dead end but an abort, then towards the successors.
TowardsExit(succ, isExit, isAbort) ==
    LET n == Cardinality(Blocks(succ))
    IN  [b \in 0..n |->
           IF b = n THEN <<>>
           ELSE (IF b \in isExit \/ (succ[b] = <<>> /\ b \notin isAbort) THEN <<n>> ELSE <<>>)
                \o succ[b]]

\* The tree of the walk from the virtual exit n, which is no block.
Unrooted(n, found) ==
    [idom |-> [b \in 0..n - 1 |-> IF found[b] = n THEN NoBlock ELSE found[b]],
     spans |-> TreeSpans(n, found), unreached |-> "Everything"]

Lowest(blocks) == IF blocks = {} THEN NoBlock ELSE Min(blocks)

\* A block with no path to an exit gets the lowest block that all the others
\* dominate.
HangTheLost(all, tree) ==
    LET lost(i) == {c \in all \ {i} : \A d \in all \ {i, c} : Dominates(tree, d, c)}
    IN  [tree EXCEPT !.idom =
           [b \in all |-> IF tree.spans[b] # NoSpan THEN @[b] ELSE Lowest(lost(b))]]

\* DomTree::reverse.
ReverseTree(succ, isExit, isAbort) ==
    LET n == Cardinality(Blocks(succ))
        rpred == TowardsExit(succ, isExit, isAbort)
    IN  HangTheLost(Blocks(succ), Unrooted(n, ImmediateTree(n, BlockGraph(rpred), rpred)))

\* The blocks a walk up the tree from p passes before it meets stop.
RECURSIVE Runners(_, _, _, _)
Runners(idom, p, stop, seen) ==
    IF p = stop \/ p \in seen THEN seen
    ELSE IF idom[p] = NoBlock THEN seen \cup {p}
    ELSE Runners(idom, idom[p], stop, seen \cup {p})

\* dominance_frontier.
DominanceFrontier(pred, idom) ==
    [r \in DOMAIN idom |->
       {b \in DOMAIN idom : /\ Len(pred[b]) >= 2
                            /\ \E p \in Range(pred[b]) : r \in Runners(idom, p, idom[b], {})}]

-----------------------------------------------------------------------------
\* The reference: what a path from a, through none of the blocks in without,
\* reaches.
RECURSIVE ReachedFrom(_, _, _)
ReachedFrom(succ, from, without) ==
    LET more == (UNION {Range(succ[b]) : b \in from}) \ (from \cup without)
    IN  IF more = {} THEN from ELSE ReachedFrom(succ, from \cup more, without)

Reaches(succ, a, b, without) == a \notin without /\ b \in ReachedFrom(succ, {a}, without)
=============================================================================
