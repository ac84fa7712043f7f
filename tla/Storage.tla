------------------------------ MODULE Storage ------------------------------
(***************************************************************************)
(* Media and the storage quota of one organization: app/api/uploads.py,    *)
(* app/core/storage.py and the deletion of a post in app/api/posts.py.     *)
(*                                                                         *)
(* A client asks for a presigned URL, puts the object into the bucket and  *)
(* confirms it.  The handlers do not hold it to that: a confirmation names *)
(* any object key, hash and size, and is taken however often it is sent.   *)
(* None of the handlers locks what it reads; the writes of one transaction *)
(* run without another's between them, as they end in the row of the       *)
(* organization.                                                           *)
(***************************************************************************)
EXTENDS Integers, FiniteSets, FiniteSetsExt

CONSTANTS
  Posts,
  Keys,       \* the object keys
  Rows,       \* the ids of post_media rows, one for each confirmation checked
  Hashes,     \* the hashes of the files' contents
  Sizes,      \* the sizes a client may send
  Limit,      \* organizations.storage_limit_bytes
  Api,        \* the API processes
  None

ASSUME StorageConstants ==
  /\ Sizes \subseteq Int
  /\ Limit \in Nat
  /\ None \notin Posts \cup Keys \cup Rows \cup Hashes

VARIABLES
  posts,    \* the posts that exist
  used,     \* organizations.storage_used_bytes
  issued,   \* the keys a presigned URL was handed out for
  bucket,   \* the objects in R2
  media,    \* the rows of post_media
  key, size, hash, postOf, order,  \* their columns, kept when a row is deleted
  pc,       \* where an API process stands in its handler
  row,      \* the row its request inserts or deletes
  leaked,   \* history: bytes of the media that went with their posts
  credited, \* history: a row of negative size was inserted
  contended, \* history: a row was deleted while another request was deleting it
  beside,   \* history: the rows inserted while a row's confirmation was at work
  early,    \* history: rows inserted before their object was put
  cut       \* history: rows whose deletion was cut off by a crash

columns == <<key, size, hash, postOf, order>>
request == <<pc, row>>
history == <<leaked, credited, contended, beside, early, cut>>
vars == <<posts, used, issued, bucket, media, columns, request, history>>

Confirming == {"confirm_order", "confirm_write"}
Deleting == {"delete_object", "delete_row"}

TypeOK ==
  /\ posts \subseteq Posts
  /\ used \in Int
  /\ issued \subseteq Keys
  /\ bucket \subseteq issued
  /\ media \subseteq {m \in Rows : key[m] \in Keys /\ postOf[m] \in posts}
  /\ key \in [Rows -> Keys \cup {None}]
  /\ size \in [Rows -> Sizes \cup {0}]
  /\ hash \in [Rows -> Hashes \cup {None}]
  /\ postOf \in [Rows -> Posts \cup {None}]
  /\ order \in [Rows -> Nat]
  /\ pc \in [Api -> {"idle"} \cup Confirming \cup Deleting]
  /\ row \in [Api -> Rows \cup {None}]
  /\ leaked \in Int
  /\ credited \in BOOLEAN /\ contended \in BOOLEAN
  /\ beside \in [Rows -> SUBSET Rows]
  /\ early \subseteq Rows /\ cut \subseteq Rows

Init ==
  /\ posts = Posts
  /\ used = 0
  /\ issued = {} /\ bucket = {}
  /\ media = {}
  /\ key = [m \in Rows |-> None]
  /\ size = [m \in Rows |-> 0]
  /\ hash = [m \in Rows |-> None]
  /\ postOf = [m \in Rows |-> None]
  /\ order = [m \in Rows |-> 0]
  /\ pc = [a \in Api |-> "idle"]
  /\ row = [a \in Api |-> None]
  /\ leaked = 0
  /\ credited = FALSE /\ contended = FALSE
  /\ beside = [m \in Rows |-> {}]
  /\ early = {} /\ cut = {}

-----------------------------------------------------------------------------
Bytes(M) == MapThenSumSet(LAMBDA m : size[m], M)
MediaOf(p) == {m \in media : postOf[m] = p}

Respond(a) ==
  /\ pc' = [pc EXCEPT ![a] = "idle"]
  /\ row' = [row EXCEPT ![a] = None]

Proceed(a, step) ==
  /\ pc' = [pc EXCEPT ![a] = step]
  /\ UNCHANGED row

WithinQuota(s) == used + s <= Limit

\* POST /uploads/presigned-url for a file of size s, under a fresh object key,
GetPresignedUrl(a, k, s) ==
  /\ pc[a] = "idle"
  /\ k \notin issued
  /\ WithinQuota(s)
  /\ issued' = issued \cup {k}
  /\ UNCHANGED <<posts, used, bucket, media, columns, request, history>>

\* or 413 above the quota.
QuotaExceeded(a, s) ==
  /\ pc[a] = "idle"
  /\ ~WithinQuota(s)
  /\ UNCHANGED vars

\* The client puts an object under its URL, at any time and any number of
\* times while the URL is good.
PutObject(k) ==
  /\ k \in issued
  /\ bucket' = bucket \cup {k}
  /\ UNCHANGED <<posts, used, issued, media, columns, request, history>>

-----------------------------------------------------------------------------
IsDuplicate(h) == \E n \in media : hash[n] = h

\* confirm_upload for any post p, key k, hash h and size s that the body names:
\* SELECT the post and a row with the same hash,
ConfirmCheck(a, m, p, k, h, s) ==
  /\ pc[a] = "idle"
  /\ key[m] = None
  /\ p \in posts
  /\ ~IsDuplicate(h)
  /\ key' = [key EXCEPT ![m] = k]
  /\ size' = [size EXCEPT ![m] = s]
  /\ hash' = [hash EXCEPT ![m] = h]
  /\ postOf' = [postOf EXCEPT ![m] = p]
  /\ pc' = [pc EXCEPT ![a] = "confirm_order"]
  /\ row' = [row EXCEPT ![a] = m]
  /\ UNCHANGED <<posts, used, issued, bucket, media, order, history>>

\* or answer 404 or 409.
ConfirmRefused(a, p, h) ==
  /\ pc[a] = "idle"
  /\ p \notin posts \/ IsDuplicate(h)
  /\ UNCHANGED vars

\* Bug seeded: the number of media instead of the highest order plus one.
NextOrder_Count(p) == Cardinality(MediaOf(p))

\* COALESCE(MAX(sort_order), -1) + 1
NextOrder(p) == IF MediaOf(p) = {} THEN 0 ELSE Max({order[n] : n \in MediaOf(p)}) + 1

\* then SELECT the next sort order,
ConfirmOrder(a) ==
  LET m == row[a] IN
  /\ pc[a] = "confirm_order"
  /\ order' = [order EXCEPT ![m] = NextOrder(postOf[m])]
  /\ Proceed(a, "confirm_write")
  /\ UNCHANGED <<posts, used, issued, bucket, media, key, size, hash, postOf, history>>

\* What the INSERT of m is remembered by.
NoteInsert(m) ==
  /\ credited' = (credited \/ size[m] < 0)
  /\ early' = IF key[m] \in bucket THEN early ELSE early \cup {m}
  /\ beside' = [n \in Rows |->
       IF \E b \in Api : pc[b] \in Confirming /\ row[b] = n THEN beside[n] \cup {m} ELSE beside[n]]
  /\ UNCHANGED <<leaked, contended, cut>>

\* Bug seeded: the usage of the organization is not raised.
ConfirmWrite_Uncounted(a) ==
  LET m == row[a] IN
  /\ pc[a] = "confirm_write"
  /\ postOf[m] \in posts
  /\ media' = media \cup {m}
  /\ NoteInsert(m)
  /\ Respond(a)
  /\ UNCHANGED <<posts, used, issued, bucket, columns>>

\* and INSERT the row, raise the usage, commit.
ConfirmWrite(a) ==
  LET m == row[a] IN
  /\ pc[a] = "confirm_write"
  /\ postOf[m] \in posts
  /\ media' = media \cup {m}
  /\ used' = used + size[m]
  /\ NoteInsert(m)
  /\ Respond(a)
  /\ UNCHANGED <<posts, issued, bucket, columns>>

\* No row comes of a confirmation: its id is as good as new.
Withdraw(m) ==
  /\ key' = [key EXCEPT ![m] = None]
  /\ size' = [size EXCEPT ![m] = 0]
  /\ hash' = [hash EXCEPT ![m] = None]
  /\ postOf' = [postOf EXCEPT ![m] = None]
  /\ order' = [order EXCEPT ![m] = 0]
  /\ beside' = [beside EXCEPT ![m] = {}]

\* The post was deleted meanwhile: the foreign key fails and all is undone.
ConfirmPostGone(a) ==
  /\ pc[a] = "confirm_write"
  /\ postOf[row[a]] \notin posts
  /\ Withdraw(row[a])
  /\ Respond(a)
  /\ UNCHANGED <<posts, used, issued, bucket, media, leaked, credited, contended, early, cut>>

\* The process dies, or a statement of the handler fails: all is undone.
ConfirmCut(a) ==
  /\ pc[a] \in Confirming
  /\ Withdraw(row[a])
  /\ Respond(a)
  /\ UNCHANGED <<posts, used, issued, bucket, media, leaked, credited, contended, early, cut>>

-----------------------------------------------------------------------------
\* delete_media: SELECT the row,
DeleteRead(a, m) ==
  /\ pc[a] = "idle"
  /\ m \in media
  /\ pc' = [pc EXCEPT ![a] = "delete_object"]
  /\ row' = [row EXCEPT ![a] = m]
  /\ UNCHANGED <<posts, used, issued, bucket, media, columns, history>>

\* delete the object of its key, whose failure is ignored,
DeleteObject(a) ==
  /\ pc[a] = "delete_object"
  /\ bucket' \in {bucket, bucket \ {key[row[a]]}}
  /\ Proceed(a, "delete_row")
  /\ UNCHANGED <<posts, used, issued, media, columns, history>>

\* Whether another request than a's is deleting one of the rows M.
Contend(a, M) == \E b \in Api \ {a} : pc[b] \in Deleting /\ row[b] \in M

\* Bug seeded: the usage is not lowered.
Lowered_Never(s) == used

\* GREATEST(storage_used_bytes - size, 0)
Lowered(s) == IF used >= s THEN used - s ELSE 0

\* Bug seeded: the row is left in place.
DeleteRow_Kept(a) ==
  /\ pc[a] = "delete_row"
  /\ used' = Lowered(size[row[a]])
  /\ Respond(a)
  /\ UNCHANGED <<posts, issued, bucket, media, columns, history>>

\* then DELETE the row, if it is still there, and lower the usage in any case.
DeleteRow(a) ==
  /\ pc[a] = "delete_row"
  /\ media' = media \ {row[a]}
  /\ used' = Lowered(size[row[a]])
  /\ contended' = (contended \/ Contend(a, {row[a]}))
  /\ Respond(a)
  /\ UNCHANGED <<posts, issued, bucket, columns, leaked, credited, beside, early, cut>>

\* Bug seeded: post_media.post_id has no ON DELETE CASCADE, and no key at all.
DeletePost_NoCascade(a, p) ==
  /\ pc[a] = "idle"
  /\ p \in posts
  /\ posts' = posts \ {p}
  /\ UNCHANGED <<used, issued, bucket, media, columns, request, history>>

\* DELETE /posts/{id} of a post whose status allows it: its media rows go with
\* it, and neither the bucket nor the usage is touched.
DeletePost(a, p) ==
  /\ pc[a] = "idle"
  /\ p \in posts
  /\ posts' = posts \ {p}
  /\ media' = media \ MediaOf(p)
  /\ leaked' = leaked + Bytes(MediaOf(p))
  /\ contended' = (contended \/ Contend(a, MediaOf(p)))
  /\ UNCHANGED <<used, issued, bucket, columns, request, credited, beside, early, cut>>

\* DELETE of a post or a media row that is not there: 404.
NotFound(a) ==
  /\ pc[a] = "idle"
  /\ UNCHANGED vars

\* The process dies, or a statement of delete_media fails: the transaction is
\* rolled back, but an object deleted from the bucket is gone.
DeleteCut(a) ==
  /\ pc[a] \in Deleting
  /\ cut' = IF pc[a] = "delete_row" THEN cut \cup {row[a]} ELSE cut
  /\ Respond(a)
  /\ UNCHANGED <<posts, used, issued, bucket, media, columns, leaked, credited, contended, beside, early>>

Confirm(a, m, p, k) == \E h \in Hashes, s \in Sizes : ConfirmCheck(a, m, p, k, h, s)

Serve(a) ==
  \/ \E k \in Keys, s \in Sizes : GetPresignedUrl(a, k, s)
  \/ \E s \in Sizes : QuotaExceeded(a, s)
  \/ \E m \in Rows, p \in Posts, k \in Keys : Confirm(a, m, p, k)
  \/ \E p \in Posts, h \in Hashes : ConfirmRefused(a, p, h)
  \/ ConfirmOrder(a) \/ ConfirmWrite(a) \/ ConfirmPostGone(a) \/ ConfirmCut(a)
  \/ \E m \in Rows : DeleteRead(a, m)
  \/ DeleteObject(a) \/ DeleteRow(a) \/ DeleteCut(a)
  \/ \E p \in Posts : DeletePost(a, p)
  \/ NotFound(a)

Next ==
  \/ \E k \in Keys : PutObject(k)
  \/ \E a \in Api : Serve(a)

Spec == Init /\ [][Next]_vars

-----------------------------------------------------------------------------
\* The usage never counts less than the media that exist and those that went
\* with their posts, but where a row was deleted while another request was
\* deleting it; and never more, but for a file of negative size.
UsageIsRight ==
  /\ ~contended => used >= Bytes(media) + leaked
  /\ ~credited => used <= Bytes(media) + leaked

\* Two media of an organization have one content, or two media of a post one
\* place in the order they are published in, only if one of them was inserted
\* between the check and the INSERT of the other.
MediaDistinct ==
  \A m, n \in media :
    hash[m] = hash[n] \/ (postOf[m] = postOf[n] /\ order[m] = order[n]) =>
      m = n \/ m \in beside[n] \/ n \in beside[m]

\* A row that was inserted when its object was there lacks it only while it is
\* being deleted, after a deletion that a crash cut off, or where the key was
\* confirmed for another row as well.
MissingObjectExplained ==
  \A m \in media : key[m] \notin bucket =>
    \/ m \in early \/ m \in cut
    \/ \E a \in Api : pc[a] = "delete_row" /\ row[a] = m
    \/ \E n \in Rows \ {m} : key[n] = key[m]

Ledger == INSTANCE StorageLedger
  WITH usage <- used, kept <- Bytes(media) + leaked

\* In bytes, each step keeps a file and counts it, or removes it; the usage
\* falls twice for one file only where two requests were deleting it, and a
\* deleted post changes no number.
ImplementsLedger == Ledger!Spec

=============================================================================
