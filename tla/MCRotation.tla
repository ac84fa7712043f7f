---------------------------- MODULE MCRotation ----------------------------
EXTENDS Rotation, TLC

\* Only the order of the times matters: the state with each time replaced by
\* its rank among the times in use.
Times == {0} \cup {lastUsed[x] : x \in PostingIds} \cup {began[w] : w \in Workers}
Rank(t) == Cardinality({s \in Times : s < t})
Ranked ==
  <<idStatus, assigned, assigning, pc, page, candidates, pick, history,
    [x \in PostingIds |-> Rank(lastUsed[x])], [w \in Workers |-> Rank(began[w])]>>

Interchangeable ==
  Permutations(PostingIds) \cup Permutations(Workers) \cup Permutations(Pages)

=============================================================================
