----------------------------- MODULE ChunkPlanning -----------------------------
(***************************************************************************)
(* How ChunkPlanner cuts an ordered list of items into chunks.  An item is *)
(* its position, 1 to c.n; c.tokens[i] counts the tokens of the items 1 to *)
(* i, so what lies between two positions costs the difference; c.starts    *)
(* and c.ends are the times of the items.  A core <<a, b>> is the items    *)
(* a + 1 to b, and so is the window of a core, which adds its context.     *)
(*                                                                         *)
(* The overhead is that of prompts and schema in the serialized request,   *)
(* which is taken to cost as much for every window.  maxSpan 0 is no limit *)
(* on the audio a request spans.                                           *)
(***************************************************************************)
EXTENDS Naturals

\* ChunkingConfig and the items it is applied to, in the order of time.
IsConfig(c) ==
    /\ c.n \in Nat /\ c.maxItems \in Nat \ {0} /\ c.maxTokens \in Nat \ {0} /\ c.maxSpan \in Nat
    /\ c.before \in Nat /\ c.after \in Nat /\ c.overhead \in Nat
    /\ c.tokens \in [0 .. c.n -> Nat] /\ c.starts \in [1 .. c.n -> Nat] /\ c.ends \in [1 .. c.n -> Nat]
    /\ \A i \in 1 .. c.n : c.tokens[i - 1] <= c.tokens[i] /\ c.starts[i] <= c.ends[i]
    /\ \A i, j \in 1 .. c.n : i <= j =>
          c.tokens[i] <= c.tokens[j] /\ c.starts[i] <= c.starts[j] /\ c.ends[i] <= c.ends[j]

NoWindow == <<0, 0>>
Length(core) == core[2] - core[1]
ItemsOf(core) == core[1] + 1 .. core[2]

\* The request for a window stays within both budgets.
Fits(c, window) ==
    /\ c.overhead + (c.tokens[window[2]] - c.tokens[window[1]]) <= c.maxTokens
    /\ c.maxSpan = 0 \/ c.ends[window[2]] - c.starts[window[1] + 1] <= c.maxSpan

\* A context that is dropped from behind the core first.
Windows_AfterFirst(c, core) ==
    LET first == IF core[1] > c.before THEN core[1] - c.before ELSE 0
        last == IF core[2] + c.after < c.n THEN core[2] + c.after ELSE c.n
    IN  {w \in (first .. core[1]) \X (core[2] .. last) : w[1] = first \/ w[2] = core[2]}

\* The windows _fit_window tries: the context before the core goes first, the
\* farthest item of it before the others, then the context after it.
Windows(c, core) ==
    LET first == IF core[1] > c.before THEN core[1] - c.before ELSE 0
        last == IF core[2] + c.after < c.n THEN core[2] + c.after ELSE c.n
    IN  {w \in (first .. core[1]) \X (core[2] .. last) : w[1] = core[1] \/ w[2] = last}

\* The first of them that fits, which is the longest.
FitWindow(c, core) ==
    LET Fitting == {w \in Windows(c, core) : Fits(c, w)}
    IN  IF Fitting = {} THEN NoWindow
        ELSE CHOOSE w \in Fitting : \A v \in Fitting : Length(v) <= Length(w)

\* The core that is planned from a position: it grows by one item as long as
\* some window of it fits.
CoreFrom(c, from) ==
    LET Ends == {to \in from + 1 .. c.n :
                    /\ to - from <= c.maxItems
                    /\ \A end \in from + 1 .. to : FitWindow(c, <<from, end>>) # NoWindow}
    IN  IF Ends = {} THEN NoWindow ELSE <<from, CHOOSE to \in Ends : \A end \in Ends : end <= to>>

\* The position after each chunk; it stays where nothing fits.
Boundary(c) ==
    LET Steps[i \in 0 .. c.n] ==
          IF i = 0 THEN 0
          ELSE LET from == Steps[i - 1]
                   core == CoreFrom(c, from)
               IN  IF core = NoWindow THEN from ELSE core[2]
    IN  Steps

\* llm.item_too_large, when an item fits no request even alone.
Plannable(c) == Boundary(c)[c.n] = c.n

\* The cores of the plan, in their order.
Plan(c) ==
    LET b == Boundary(c) IN {<<b[i - 1], b[i]>> : i \in {j \in 1 .. c.n : b[j - 1] < b[j]}}

\* How a chunk of two items or more is cut when its answer does not match.
Left(core) == <<core[1], core[1] + Length(core) \div 2>>
Right(core) == <<core[1] + Length(core) \div 2, core[2]>>

-----------------------------------------------------------------------------
(* Review: AnomalyChunkPlanner.  Its cores are of the items that need a     *)
(* review only, s[1], s[2] and so on; its context is of all items.          *)

CostOf(c, i) == c.tokens[i] - c.tokens[i - 1]
ReviewTokens(c, s, core) ==
    LET Sum[i \in 0 .. core[2]] == IF i <= core[1] THEN 0 ELSE Sum[i - 1] + CostOf(c, s[i])
    IN  Sum[core[2]]

\* The items from the first of a core to its last, in the positions of all.
Span(s, core) == <<s[core[1] + 1] - 1, s[core[2]]>>

\* A request for the core with what lies between the window and its span; what
\* lies between the items of the core is not sent.
ReviewFits(c, s, core, w) ==
    LET span == Span(s, core) IN
    /\ c.overhead + ReviewTokens(c, s, core) + (c.tokens[span[1]] - c.tokens[w[1]])
          + (c.tokens[w[2]] - c.tokens[span[2]]) <= c.maxTokens
    /\ c.maxSpan = 0 \/ c.ends[w[2]] - c.starts[w[1] + 1] <= c.maxSpan

\* _with_context, which raises llm.item_too_large where no window fits.
ReviewWindow(c, s, core) ==
    LET Fitting == {w \in Windows(c, Span(s, core)) : ReviewFits(c, s, core, w)}
    IN  IF Fitting = {} THEN NoWindow
        ELSE CHOOSE w \in Fitting : \A v \in Fitting : Length(v) <= Length(w)

\* The cores ChunkPlanner tries from a position, each an item longer: it stops
\* at a limit of its own, and calls _with_context for the others.
ReviewTried(c, s, n, from) ==
    {<<from, to>> : to \in {to \in from + 1 .. n :
        to - from <= c.maxItems /\ ReviewTokens(c, s, <<from, to>>) <= c.maxTokens}}

\* The position after each chunk; it stays where a window that was tried did
\* not fit: the exception ends the planning, also where a shorter core fits.
ReviewBoundary(c, s, n) ==
    LET Steps[i \in 0 .. n] ==
          IF i = 0 THEN 0
          ELSE LET from == Steps[i - 1]
                   tried == ReviewTried(c, s, n, from)
               IN  IF \E core \in tried : ReviewWindow(c, s, core) = NoWindow THEN from
                   ELSE IF tried = {} THEN from
                   ELSE from + Length(CHOOSE core \in tried : \A d \in tried : Length(d) <= Length(core))
    IN  Steps

-----------------------------------------------------------------------------
(* What a plan must be                                                      *)

\* A plan exists if and only if every item fits a request alone.
PlansIfPossible(c) ==
    Plannable(c) <=> \A i \in 1 .. c.n : Fits(c, <<i - 1, i>>)

\* Every item is in one chunk, and no chunk is larger than the configuration.
Tiles(c) ==
    \A i \in 1 .. c.n : \E core \in Plan(c) :
        /\ i \in ItemsOf(core) /\ Length(core) <= c.maxItems
        /\ \A other \in Plan(c) : i \in ItemsOf(other) => other = core

\* A chunk that ends early could not take the next item, even without context.
Greedy(c) ==
    \A core \in Plan(c) :
        core[2] < c.n /\ Length(core) < c.maxItems => ~Fits(c, <<core[1], core[2] + 1>>)

\* The window fits.  An item before the core is missing only if it did not fit
\* beside all that may follow the core, an item after it only if it did not fit
\* although nothing before the core is left.
NearestContext(c) ==
    \A core \in Plan(c) :
        LET w == FitWindow(c, core)
            last == IF core[2] + c.after < c.n THEN core[2] + c.after ELSE c.n
        IN
        /\ Fits(c, w)
        /\ w[1] > 0 /\ core[1] - w[1] < c.before => ~Fits(c, <<w[1] - 1, last>>)
        /\ w[2] < last => w[1] = core[1] /\ ~Fits(c, <<w[1], w[2] + 1>>)

\* Whatever a chunk is cut into fits again: a mismatched answer never turns
\* into llm.item_too_large.
Halves(c, core) == Length(core) >= 2 => \A h \in {Left(core), Right(core)} :
                      /\ Length(h) >= 1
                      /\ FitWindow(c, h) # NoWindow

\* A review of the items s is planned, and then its chunks fit with the context
\* next to them, and so do their halves; or an item does not fit alone.  Except
\* that the planner gives up where two items or more do not fit together,
\* although it could cut the chunk before the last of them.
NotCut(c, s, n) ==
    \E from \in 0 .. n - 1 : \E core \in ReviewTried(c, s, n, from) :
        Length(core) >= 2 /\ ReviewWindow(c, s, core) = NoWindow

RightReview(c, s, n) ==
    LET b == ReviewBoundary(c, s, n)
        Cut(core) == Length(core) >= 2 => \A h \in {Left(core), Right(core)} :
                         ReviewWindow(c, s, h) # NoWindow
    IN  IF b[n] = n
        THEN \A i \in 1 .. n :
               b[i - 1] < b[i] =>
                   /\ b[i] - b[i - 1] <= c.maxItems /\ Cut(<<b[i - 1], b[i]>>)
                   /\ ReviewFits(c, s, <<b[i - 1], b[i]>>, ReviewWindow(c, s, <<b[i - 1], b[i]>>))
        ELSE NotCut(c, s, n) \/ \E i \in 1 .. n : ~Fits(c, <<s[i] - 1, s[i]>>)

RightPlan(c) ==
    /\ PlansIfPossible(c)
    /\ Plannable(c) =>
         /\ Tiles(c) /\ Greedy(c) /\ NearestContext(c)
         /\ \A core \in Plan(c) : Halves(c, core)

=============================================================================
