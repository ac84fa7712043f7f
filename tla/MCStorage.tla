----------------------------- MODULE MCStorage -----------------------------
EXTENDS Storage, TLC

Interchangeable ==
  Permutations(Posts) \cup Permutations(Keys) \cup Permutations(Rows) \cup
    Permutations(Hashes) \cup Permutations(Api)

SignedSizes == {-1, 1}

\* The rows that are in the table or in the hands of a request.
Live == media \cup {m \in Rows : \E a \in Api : row[a] = m}

\* What the state is seen as: of a row that is gone nothing is ever looked at
\* but its key.
LiveColumn(column) == [m \in Live |-> column[m]]

Seen ==
  <<posts, used, issued, bucket, media, key, request, leaked, credited, contended,
    LiveColumn(size), LiveColumn(hash), LiveColumn(postOf), LiveColumn(order),
    [m \in Live |-> beside[m] \cap Live], early \cap Live, cut \cap Live>>

\* Bound: a third row, for the places of the media in a post, is named only where
\* all are of one post and size 1, of one key whose object was put first, and no
\* request was cut off past the bucket or contended for a row.
Named == {m \in Rows : key[m] # None}
Few ==
  Cardinality(Named) > 2 =>
    /\ \A m, n \in Named : size[m] = 1 /\ postOf[m] = postOf[n] /\ key[m] = key[n]
    /\ posts = Posts /\ Cardinality(issued) = 1
    /\ early = {} /\ cut = {} /\ ~contended

=============================================================================
