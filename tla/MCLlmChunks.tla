------------------------------ MODULE MCLlmChunks ------------------------------
(* Instances of LlmChunks for TLC: three items in two chunks, and every plan  *)
(* of up to four items with small lengths and budgets.                        *)
EXTENDS LlmChunks

MCConfig == [n |-> 3, maxItems |-> 2, maxTokens |-> 9, maxSpan |-> 0, before |-> 1, after |-> 1, overhead |-> 1,
             tokens |-> [i \in 0 .. 3 |-> i], starts |-> [i \in 1 .. 3 |-> i], ends |-> [i \in 1 .. 3 |-> i + 1]]

\* Four items of one or three tokens, one after the other in time, under
\* budgets from one that holds no large item to one that holds most of them.
MCConfigs ==
    {[n |-> 4, maxItems |-> items, maxTokens |-> budget, maxSpan |-> span,
      before |-> before, after |-> after, overhead |-> 1,
      tokens |-> [i \in 0 .. 4 |-> IF i = 0 THEN 0 ELSE IF i = 1 THEN size[1] ELSE IF i = 2 THEN size[1] + size[2]
                                  ELSE IF i = 3 THEN size[1] + size[2] + size[3]
                                  ELSE size[1] + size[2] + size[3] + size[4]],
      starts |-> [i \in 1 .. 4 |-> i], ends |-> [i \in 1 .. 4 |-> i + 1]] :
        items \in {2, 3}, budget \in {3, 4, 5, 6, 8}, span \in {0, 3}, before \in {0, 1}, after \in 0 .. 2,
        size \in [1 .. 4 -> {1, 3}]}

\* What a review may select of them, in order.
MCSelections ==
    UNION {{s \in [1 .. n -> 1 .. 4] : \A i, j \in 1 .. n : i < j => s[i] < s[j]} : n \in 1 .. 4}

\* The plan of each of them tiles its items, is greedy, keeps the nearest
\* context, and stays plannable when a chunk is halved; and a review of any of
\* the items is planned with chunks that fit, or for a named reason is not.
\* plan_chunks, plan_chunk_range, AnomalyChunkPlanner
PlansRight ==
    runs = 0 => \A c \in MCConfigs :
        RightPlan(c) /\ \A s \in MCSelections : RightReview(c, s, Len(s))

=============================================================================
