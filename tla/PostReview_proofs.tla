------------------------- MODULE PostReview_proofs -------------------------
(***************************************************************************)
(* Proofs about PostReview, for any posts, pages and API processes and any *)
(* bounds: the types, that reviewers take turns, and what the requests on  *)
(* a post keep to while they do not overlap.                               *)
(***************************************************************************)
EXTENDS PostReview, TLAPS

-----------------------------------------------------------------------------
(***************************************************************************)
(* The invariant.                                                          *)
(***************************************************************************)

\* A handler knows its post; what a submission will write, and that the status
\* a reviewer has read is the status of the row, which it has locked.
Requests ==
  \A a \in Api :
    /\ pc[a] # "idle" => post[a] \in Posts
    /\ pc[a] = "submit_write" => value[a] \in {"pending_approval", "queued"}
    /\ pc[a] = "review" => lock[post[a]] = a /\ value[a] = status[post[a]]

\* A post that is pending has a round nobody has approved in.
Rounds ==
  \A p \in Posts :
    /\ approvals[p] <= rounds[p]
    /\ status[p] = "pending_approval" => approvals[p] < rounds[p]

\* The statuses from which a post may be published and no editor asked.
Unpublished == {"absent", "draft", "pending_approval", "changes_requested"} \cup Claimable

\* A post that may still be published has only copies that were lost or asked
\* for; any other one has one more at most.
CopiesInReserve(p) ==
  /\ copies[p] <= 1 + edits[p] + lost[p]
  /\ status[p] \in Unpublished => copies[p] <= edits[p] + lost[p]

\* While requests do not overlap there is one at a time, and what a submission
\* has read of the post and of its page is still so.
Serial ==
  ~overlapped =>
    /\ \A a, b \in Api : pc[a] # "idle" /\ pc[b] # "idle" => a = b
    /\ \A a \in Api : pc[a] \in {"submit_page", "submit_write"} => status[post[a]] = "draft"
    /\ \A a \in Api :
         pc[a] = "submit_write" =>
           (value[a] = "pending_approval" <=> gated[PageOf[post[a]]])
    /\ \A p \in Posts : CopiesInReserve(p)

IInv == TypeOK /\ Requests /\ Rounds /\ Serial

LEMMA ReviewStart == Init => IInv
<1> SUFFICES ASSUME Init PROVE IInv
  OBVIOUS
<1>1. /\ gated \in [Pages -> BOOLEAN] /\ status \in [Posts -> RowStatuses]
      /\ lock \in [Posts -> Api \cup {NoProcess}] /\ post \in [Api -> Posts \cup {NoPost}]
      /\ value \in [Api -> Statuses \cup {"none"}]
  BY DEF Init, RowStatuses
<1>2. TypeOK
  BY <1>1 DEF Init, TypeOK
<1>3. Requests /\ Rounds /\ Serial
  BY DEF Init, Requests, Rounds, Serial, CopiesInReserve
<1>4. QED
  BY <1>2, <1>3 DEF IInv

-----------------------------------------------------------------------------
(***************************************************************************)
(* Every step keeps it.                                                    *)
(***************************************************************************)

\* A request that begins while no other is under way, unless they overlap.
LEMMA NoteAlone ==
  ASSUME NEW a \in Api, pc[a] = "idle", Note(a), ~overlapped'
  PROVE  ~overlapped /\ \A b \in Api : pc[b] = "idle"
BY DEF Note

\* A guarded statement: it finds the row unlocked, in a status it takes, and
\* has an editor behind it where it makes the post publishable again.
LEMMA OneStatementKeeps ==
  ASSUME IInv, NEW a \in Api, NEW p \in Posts, NEW from, NEW to \in RowStatuses,
         OneStatement(a, p, from, to),
         rounds' \in [Posts -> Nat], edits' \in [Posts -> Nat],
         \A q \in Posts : rounds'[q] >= rounds[q] /\ (q # p => edits'[q] = edits[q]),
         to = "pending_approval" => rounds'[p] > rounds[p],
         \/ edits'[p] = edits[p] + 1
         \/ edits'[p] = edits[p] /\ (to \in Unpublished => status[p] \in Unpublished)
  PROVE  IInv'
<1> USE DEF IInv, OneStatement, SetStatus, handler
<1>1. /\ status' \in [Posts -> RowStatuses]
      /\ status'[p] = to /\ \A q \in Posts : q # p => status'[q] = status[q]
  BY DEF TypeOK
<1>2. overlapped' \in BOOLEAN
  BY DEF TypeOK, Note
<1>3. TypeOK'
  BY <1>1, <1>2 DEF TypeOK
<1>4. Requests'
  BY <1>1, ReviewConstants DEF Requests, Unlocked
<1>5. Rounds'
  BY <1>1 DEF Rounds, TypeOK
<1>6. Serial'
  <2> SUFFICES ASSUME ~overlapped' PROVE Serial'
    BY DEF Serial
  <2>1. ~overlapped /\ \A b \in Api : pc'[b] = "idle"
    BY NoteAlone
  <2>2. \A q \in Posts : CopiesInReserve(q)'
    BY <1>1, <2>1 DEF Serial, CopiesInReserve, TypeOK
  <2>3. QED
    BY <2>1, <2>2 DEF Serial
<1>7. QED
  BY <1>3, <1>4, <1>5, <1>6

LEMMA GuardedRequests ==
  ASSUME IInv, NEW a \in Api, NEW p \in Posts,
         CreatePost(a, p) \/ SchedulePost(a, p) \/ DeletePost(a, p) \/ RetryPost(a, p)
  PROVE  IInv'
<1>1. CASE CreatePost(a, p)
  <2>1. /\ OneStatement(a, p, {"absent"}, "draft") /\ rounds' = rounds /\ edits' = edits
        /\ status[p] = "absent"
    BY <1>1 DEF CreatePost, OneStatement
  <2>2. rounds \in [Posts -> Nat] /\ edits \in [Posts -> Nat] /\ "draft" \in RowStatuses
    BY DEF IInv, TypeOK, RowStatuses, Statuses
  <2>3. QED
    BY <2>1, <2>2, OneStatementKeeps DEF Unpublished
<1>2. CASE SchedulePost(a, p)
  <2>1. /\ OneStatement(a, p, Schedulable, "queued") /\ rounds' = rounds /\ edits' = edits
        /\ status[p] \in {"draft", "changes_requested"}
    BY <1>2 DEF SchedulePost, OneStatement, Schedulable
  <2>2. rounds \in [Posts -> Nat] /\ edits \in [Posts -> Nat] /\ "queued" \in RowStatuses
    BY DEF IInv, TypeOK, RowStatuses, Statuses
  <2>3. QED
    BY <2>1, <2>2, OneStatementKeeps DEF Unpublished
<1>3. CASE DeletePost(a, p)
  BY <1>3, OneStatementKeeps
  DEF DeletePost, OneStatement, IInv, TypeOK, RowStatuses, Unpublished, Claimable
<1>4. CASE RetryPost(a, p)
  <2>1. OneStatement(a, p, Retryable, "queued") /\ rounds' = rounds
    BY <1>4 DEF RetryPost
  <2>2. /\ edits' \in [Posts -> Nat] /\ edits'[p] = edits[p] + 1
        /\ \A q \in Posts : q # p => edits'[q] = edits[q]
    BY <1>4 DEF RetryPost, IInv, TypeOK
  <2>3. rounds \in [Posts -> Nat] /\ "queued" \in RowStatuses
    BY DEF IInv, TypeOK, RowStatuses, Statuses
  <2>4. QED
    BY <2>1, <2>2, <2>3, OneStatementKeeps
<1>5. QED
  BY <1>1, <1>2, <1>3, <1>4

\* An editor's status, whatever it is, is paid for by the edit.
LEMMA PatchKeeps ==
  ASSUME IInv, NEW a \in Api, NEW p \in Posts, NEW s \in PatchTargets, PatchPost(a, p, s)
  PROVE  IInv'
<1>1. OneStatement(a, p, Statuses, s) /\ s \in RowStatuses
  BY ReviewConstants DEF PatchPost, RowStatuses
<1>2. /\ edits' \in [Posts -> Nat] /\ edits'[p] = edits[p] + 1
      /\ \A q \in Posts : q # p => edits'[q] = edits[q]
  BY DEF PatchPost, IInv, TypeOK
<1>3. /\ rounds' \in [Posts -> Nat] /\ \A q \in Posts : rounds'[q] >= rounds[q]
      /\ s = "pending_approval" => rounds'[p] > rounds[p]
  BY DEF PatchPost, IInv, TypeOK
<1>4. QED
  BY <1>1, <1>2, <1>3, OneStatementKeeps

\* The page's gate changes between two requests, or they overlap.
LEMMA ToggleKeeps ==
  ASSUME IInv, NEW a \in Api, NEW g \in Pages, TogglePage(a, g)
  PROVE  IInv'
<1> USE DEF IInv, TogglePage, handler, counts
<1>1. gated' \in [Pages -> BOOLEAN] /\ overlapped' \in BOOLEAN
  BY DEF TypeOK, Note
<1>2. TypeOK'
  BY <1>1 DEF TypeOK
<1>3. (Requests /\ Rounds)'
  BY DEF Requests, Rounds
<1>4. Serial'
  <2> SUFFICES ASSUME ~overlapped' PROVE Serial'
    BY DEF Serial
  <2>1. ~overlapped /\ \A b \in Api : pc'[b] = "idle"
    BY NoteAlone
  <2>2. QED
    BY <2>1 DEF Serial, CopiesInReserve
<1>5. QED
  BY <1>2, <1>3, <1>4

\* A submission reads a draft, and a reviewer a row it locks.
LEMMA RequestBegins ==
  ASSUME IInv, NEW a \in Api, NEW p \in Posts, SubmitRead(a, p) \/ ReviewLock(a, p)
  PROVE  IInv'
<1> USE DEF IInv, counts
<1>1. /\ UNCHANGED <<status, gated, approvals, rounds, copies, lost, edits>>
      /\ pc[a] = "idle" /\ Note(a)
  BY DEF SubmitRead, ReviewLock
<1>2. /\ pc' \in [Api -> {"idle", "submit_page", "submit_write", "review"}]
      /\ post' \in [Api -> Posts \cup {NoPost}]
      /\ post'[a] = p
      /\ \A b \in Api : b # a => pc'[b] = pc[b] /\ post'[b] = post[b] /\ value'[b] = value[b]
      /\ pc'[a] \in {"submit_page", "review"}
  BY DEF TypeOK, SubmitRead, ReviewLock
<1>3. /\ value' \in [Api -> Statuses \cup {"none"}]
      /\ lock' \in [Posts -> Api \cup {NoProcess}]
      /\ \A q \in Posts : lock[q] \in Api => lock'[q] = lock[q]
      /\ pc'[a] = "review" => lock'[p] = a /\ value'[a] = status[p]
      /\ pc'[a] = "submit_page" => status[p] = "draft"
  BY ReviewConstants DEF TypeOK, SubmitRead, ReviewLock, Unlocked
<1>4. TypeOK'
  BY <1>1, <1>2, <1>3 DEF TypeOK, Note
<1>5. Requests'
  BY <1>1, <1>2, <1>3 DEF Requests
<1>6. Rounds'
  BY <1>1 DEF Rounds
<1>7. Serial'
  <2> SUFFICES ASSUME ~overlapped' PROVE Serial'
    BY DEF Serial
  <2>1. ~overlapped /\ \A b \in Api : pc[b] = "idle"
    BY <1>1, NoteAlone
  <2>2. \A q \in Posts : CopiesInReserve(q)'
    BY <1>1, <2>1 DEF Serial, CopiesInReserve
  <2>3. \A b \in Api : pc'[b] # "idle" => b = a
    BY <1>2, <2>1
  <2>4. QED
    BY <1>1, <1>2, <1>3, <2>2, <2>3 DEF Serial
<1>8. QED
  BY <1>4, <1>5, <1>6, <1>7

\* A submission reads the gate of its page.
LEMMA SubmitPageKeeps ==
  ASSUME IInv, NEW a \in Api, SubmitPage(a)
  PROVE  IInv'
<1> USE DEF IInv, SubmitPage, counts
<1>1. PICK p \in Posts : post[a] = p
  BY DEF Requests
<1>2. /\ value' \in [Api -> Statuses \cup {"none"}]
      /\ value'[a] \in {"pending_approval", "queued"}
      /\ value'[a] = "pending_approval" <=> gated[PageOf[p]]
      /\ \A b \in Api : b # a => value'[b] = value[b]
  BY <1>1 DEF TypeOK, Statuses
<1>3. /\ pc' \in [Api -> {"idle", "submit_page", "submit_write", "review"}]
      /\ pc'[a] = "submit_write" /\ \A b \in Api : b # a => pc'[b] = pc[b]
  BY DEF TypeOK
<1>4. TypeOK'
  BY <1>2, <1>3 DEF TypeOK
<1>5. (Requests /\ Rounds)'
  BY <1>1, <1>2, <1>3 DEF Requests, Rounds
<1>6. Serial'
  BY <1>1, <1>2, <1>3 DEF Serial, CopiesInReserve
<1>7. QED
  BY <1>4, <1>5, <1>6

\* The answer of a request frees its process.
LEMMA DoneFrees ==
  ASSUME TypeOK, NEW a \in Api, Done(a)
  PROVE  /\ pc' \in [Api -> {"idle", "submit_page", "submit_write", "review"}]
         /\ post' \in [Api -> Posts \cup {NoPost}]
         /\ value' \in [Api -> Statuses \cup {"none"}]
         /\ pc'[a] = "idle"
         /\ \A b \in Api :
              b # a => pc'[b] = pc[b] /\ post'[b] = post[b] /\ value'[b] = value[b]
BY DEF TypeOK, Done

\* The submission writes by the post's id: no reviewer is at the row.
LEMMA SubmitWriteKeeps ==
  ASSUME IInv, NEW a \in Api, SubmitWrite(a)
  PROVE  IInv'
<1> USE DEF IInv, SubmitWrite, SetStatus
<1>1. PICK p \in Posts : post[a] = p
  BY DEF Requests
<1>2. /\ value[a] \in {"pending_approval", "queued"}
      /\ value[a] \in RowStatuses
  BY DEF Requests, RowStatuses, Statuses
<1>3. /\ status' \in [Posts -> RowStatuses] /\ status'[p] = value[a]
      /\ \A q \in Posts : q # p => status'[q] = status[q]
  BY <1>1, <1>2 DEF TypeOK
<1>4. /\ rounds' \in [Posts -> Nat] /\ \A q \in Posts : rounds'[q] >= rounds[q]
      /\ value[a] = "pending_approval" => rounds'[p] > rounds[p]
  BY <1>1 DEF TypeOK
<1>5. TypeOK'
  BY <1>3, <1>4, DoneFrees DEF TypeOK
<1>6. Requests'
  BY <1>1, <1>3, DoneFrees, ReviewConstants DEF Requests, Unlocked
<1>7. Rounds'
  BY <1>3, <1>4 DEF Rounds, TypeOK
<1>8. Serial'
  <2> SUFFICES ASSUME ~overlapped PROVE Serial'
    BY DEF Serial
  <2>1. \A b \in Api : pc'[b] = "idle"
    BY DoneFrees DEF Serial
  <2>2. status[p] = "draft"
    BY <1>1 DEF Serial
  <2>3. \A q \in Posts : CopiesInReserve(q)'
    BY <1>3, <2>2 DEF Serial, CopiesInReserve, Unpublished
  <2>4. QED
    BY <2>1, <2>3 DEF Serial
<1>9. QED
  BY <1>5, <1>6, <1>7, <1>8

\* A request that finds its post gone or reviewed changes no row.
LEMMA RefusalKeeps ==
  ASSUME IInv, NEW a \in Api, SubmitVanished(a) \/ ReviewConflict(a)
  PROVE  IInv'
<1> USE DEF IInv, counts
<1>1. PICK p \in Posts : post[a] = p
  BY DEF Requests, SubmitVanished, ReviewConflict
<1>2. /\ Done(a)
      /\ UNCHANGED <<status, gated, approvals, rounds, copies, lost, edits, overlapped>>
  BY DEF SubmitVanished, ReviewConflict
<1>3. /\ lock' \in [Posts -> Api \cup {NoProcess}]
      /\ \A q \in Posts : lock[q] # a => lock'[q] = lock[q]
  <2>1. CASE SubmitVanished(a)
    BY <2>1 DEF SubmitVanished, TypeOK
  <2>2. CASE ReviewConflict(a)
    BY <1>1, <2>2 DEF ReviewConflict, TypeOK, Requests
  <2>3. QED
    BY <2>1, <2>2
<1>4. TypeOK'
  BY <1>2, <1>3, DoneFrees DEF TypeOK
<1>5. Requests'
  BY <1>2, <1>3, DoneFrees DEF Requests
<1>6. Rounds'
  BY <1>2 DEF Rounds
<1>7. Serial'
  BY <1>2, DoneFrees DEF Serial, CopiesInReserve
<1>8. QED
  BY <1>4, <1>5, <1>6, <1>7

\* A review ends the round it found open under the row lock.
LEMMA ReviewKeeps ==
  ASSUME IInv, NEW a \in Api, Review(a)
  PROVE  IInv'
<1> USE DEF IInv, Review, SetStatus
<1>1. PICK p \in Posts : post[a] = p
  BY DEF Requests
<1>2. PICK s \in {"queued", "rejected", "changes_requested"} :
        status' = [status EXCEPT ![p] = s]
  BY <1>1
<1>3. status[p] = "pending_approval" /\ lock[p] = a
  BY <1>1 DEF Requests
<1>4. /\ status' \in [Posts -> RowStatuses] /\ status'[p] = s
      /\ \A q \in Posts : q # p => status'[q] = status[q]
  BY <1>2 DEF TypeOK, RowStatuses, Statuses
<1>5. /\ approvals' \in [Posts -> Nat] /\ approvals'[p] = approvals[p] + 1
      /\ \A q \in Posts : q # p => approvals'[q] = approvals[q]
  BY <1>1 DEF TypeOK
<1>6. /\ lock' \in [Posts -> Api \cup {NoProcess}]
      /\ \A q \in Posts : q # p => lock'[q] = lock[q]
  BY <1>1 DEF TypeOK
<1>7. TypeOK'
  BY <1>4, <1>5, <1>6, DoneFrees DEF TypeOK
<1>8. Requests'
  BY <1>3, <1>4, <1>6, DoneFrees DEF Requests
<1>9. Rounds'
  BY <1>3, <1>4, <1>5 DEF Rounds, TypeOK
<1>10. Serial'
  <2> SUFFICES ASSUME ~overlapped PROVE Serial'
    BY DEF Serial
  <2>1. \A b \in Api : pc'[b] = "idle"
    BY DoneFrees DEF Serial
  <2>2. \A q \in Posts : CopiesInReserve(q)'
    BY <1>3, <1>4 DEF Serial, CopiesInReserve, Unpublished
  <2>3. QED
    BY <2>1, <2>2 DEF Serial
<1>11. QED
  BY <1>7, <1>8, <1>9, <1>10

\* The pipeline takes a post that waits and that nobody has locked.
LEMMA PipeKeeps ==
  ASSUME IInv, NEW p \in Posts, Pipe(p)
  PROVE  IInv'
<1> USE DEF IInv, Pipe, handler, counts
<1>1. /\ status[p] \in {"queued", "failed_temporary"}
      /\ edits' = edits
      /\ \E s \in {"published", "paused", "reconnect_required", "failed_needs_editing", status[p]} :
           status' = [status EXCEPT ![p] = s]
  BY DEF Pipeline!Publish, Pipeline!Block, Pipeline!Lose, Pipeline!Waiting, Pipeline!Claimable,
         Pipeline!Blocked
<1>2. /\ status' \in [Posts -> RowStatuses]
      /\ status'[p] \in {"published", "paused", "reconnect_required", "failed_needs_editing", status[p]}
      /\ \A q \in Posts : q # p => status'[q] = status[q]
  BY <1>1 DEF TypeOK, RowStatuses, Statuses
<1>3. /\ copies' \in [Posts -> Nat] /\ lost' \in [Posts -> Nat]
      /\ \A q \in Posts : q # p => copies'[q] = copies[q] /\ lost'[q] = lost[q]
      /\ \/ copies'[p] = copies[p] /\ lost'[p] = lost[p]
         \/ copies'[p] = copies[p] + 1 /\ lost'[p] = lost[p] + 1
         \/ copies'[p] = copies[p] + 1 /\ lost'[p] = lost[p] /\ status'[p] = "published"
  BY <1>2 DEF Pipeline!Publish, Pipeline!Block, Pipeline!Lose, TypeOK
<1>4. TypeOK'
  BY <1>1, <1>2, <1>3 DEF TypeOK
<1>5. Requests'
  BY <1>2, ReviewConstants DEF Requests, Unlocked
<1>6. Rounds'
  BY <1>1, <1>2 DEF Rounds
<1>7. Serial'
  <2> SUFFICES ASSUME ~overlapped PROVE Serial'
    BY DEF Serial
  <2>1. \A q \in Posts : CopiesInReserve(q)'
    BY <1>1, <1>2, <1>3 DEF Serial, CopiesInReserve, Unpublished, Claimable, TypeOK
  <2>2. \A q \in Posts : status[q] = "draft" => status'[q] = "draft"
    BY <1>1, <1>2
  <2>3. QED
    BY <2>1, <2>2 DEF Serial, Requests
<1>8. QED
  BY <1>4, <1>5, <1>6, <1>7

LEMMA ReviewStep == IInv /\ [Next]_vars => IInv'
<1> SUFFICES ASSUME IInv, [Next]_vars PROVE IInv'
  OBVIOUS
<1>1. CASE \E a \in Api, p \in Posts :
             CreatePost(a, p) \/ SchedulePost(a, p) \/ DeletePost(a, p) \/ RetryPost(a, p)
  BY <1>1, GuardedRequests
<1>2. CASE \E a \in Api, p \in Posts : SubmitRead(a, p) \/ ReviewLock(a, p)
  BY <1>2, RequestBegins
<1>3. CASE \E a \in Api, p \in Posts, s \in PatchTargets : PatchPost(a, p, s)
  BY <1>3, PatchKeeps
<1>4. CASE \E a \in Api, g \in Pages : TogglePage(a, g)
  BY <1>4, ToggleKeeps
<1>5. CASE \E a \in Api : Finish(a)
  BY <1>5, SubmitPageKeeps, SubmitWriteKeeps, RefusalKeeps, ReviewKeeps DEF Finish
<1>6. CASE \E p \in Posts : Pipe(p)
  BY <1>6, PipeKeeps
<1>7. CASE UNCHANGED vars
  BY <1>7 DEF IInv, vars, handler, counts, TypeOK, Requests, Rounds, Serial, CopiesInReserve
<1>8. QED
  BY <1>1, <1>2, <1>3, <1>4, <1>5, <1>6, <1>7 DEF Next

LEMMA ReviewInvariant == Spec => []IInv
BY ReviewStart, ReviewStep, PTL DEF Spec

-----------------------------------------------------------------------------
\* The types of rows and handlers.
THEOREM ReviewTypeCorrect == Spec => []TypeOK
<1>1. IInv => TypeOK
  BY DEF IInv
<1>2. QED
  BY <1>1, ReviewInvariant, PTL

\* However many reviewers there are, one decides each round.
THEOREM ReviewersTakeTurns == Spec => []OneReviewPerRound
<1>1. IInv => OneReviewPerRound
  BY DEF IInv, Rounds, OneReviewPerRound
<1>2. QED
  BY <1>1, ReviewInvariant, PTL

\* Requests that do not overlap make no copy nobody asked for.
THEOREM CopiesAreWanted == Spec => []NoUnwantedCopy
<1>1. IInv => NoUnwantedCopy
  BY DEF IInv, Serial, CopiesInReserve, NoUnwantedCopy
<1>2. QED
  BY <1>1, ReviewInvariant, PTL

\* A decision is final, and a submission obeys the gate, while requests do not
\* overlap: the steps of a handler but the last change no status, and the last
\* one of a submission finds the draft and the gate it has read.
THEOREM ReviewIsFinal == Spec => SerialReviewIsFinal
<1>1. ASSUME IInv, [Next]_vars
      PROVE  [\A p \in Posts :
                status[p] = "rejected" /\ ~overlapped' =>
                  status'[p] \in {"rejected", "deleted"} \/ edits'[p] > edits[p]]_vars
  <2> SUFFICES ASSUME Next, NEW p \in Posts, status[p] = "rejected", ~overlapped'
               PROVE  status'[p] \in {"rejected", "deleted"} \/ edits'[p] > edits[p]
    BY <1>1
  <2> USE <1>1 DEF IInv, TypeOK, OneStatement, SetStatus
  <2>1. ASSUME NEW a \in Api, NEW q \in Posts,
               CreatePost(a, q) \/ SchedulePost(a, q) \/ DeletePost(a, q)
        PROVE  status'[p] \in {"rejected", "deleted"}
    BY <2>1 DEF CreatePost, SchedulePost, DeletePost, Schedulable
  <2>2. ASSUME NEW a \in Api, NEW q \in Posts, RetryPost(a, q)
        PROVE  status'[p] = "rejected"
    BY <2>2 DEF RetryPost, Retryable
  <2>3. ASSUME NEW a \in Api, NEW q \in Posts, NEW s \in PatchTargets, PatchPost(a, q, s)
        PROVE  status'[p] = "rejected" \/ edits'[p] > edits[p]
    BY <2>3 DEF PatchPost
  <2>4. ASSUME NEW a \in Api,
               \/ \E q \in Posts : SubmitRead(a, q) \/ ReviewLock(a, q)
               \/ \E g \in Pages : TogglePage(a, g)
               \/ SubmitPage(a) \/ SubmitVanished(a) \/ ReviewConflict(a)
        PROVE  status' = status
    BY <2>4 DEF SubmitRead, ReviewLock, TogglePage, SubmitPage, SubmitVanished, ReviewConflict
  <2>5. ASSUME NEW a \in Api, SubmitWrite(a)
        PROVE  status'[p] = "rejected"
    BY <2>5 DEF SubmitWrite, Requests, Serial
  <2>6. ASSUME NEW a \in Api, Review(a)
        PROVE  status'[p] = "rejected"
    BY <2>6 DEF Review, Requests
  <2>7. ASSUME NEW q \in Posts, Pipe(q)
        PROVE  status'[p] = "rejected"
    BY <2>7 DEF Pipe, Pipeline!Publish, Pipeline!Block, Pipeline!Lose, Pipeline!Waiting,
                Pipeline!Claimable
  <2>8. QED
    BY <2>1, <2>2, <2>3, <2>4, <2>5, <2>6, <2>7 DEF Next, Finish
<1>2. QED
  BY <1>1, ReviewInvariant, PTL DEF Spec, SerialReviewIsFinal

\* While requests do not overlap, a submission moves a draft, through the gate.
THEOREM SubmissionsObeyTheGate == Spec => SubmitFollowsGate
<1>1. ASSUME IInv, [Next]_vars
      PROVE  [\A a \in Api :
                pc[a] = "submit_write" /\ status' # status /\ pc'[a] = "idle" /\ ~overlapped' =>
                  /\ status[post[a]] = "draft"
                  /\ (status'[post[a]] = "pending_approval" <=> gated[PageOf[post[a]]])]_vars
  <2> SUFFICES ASSUME Next, NEW a \in Api, pc[a] = "submit_write", status' # status,
                      pc'[a] = "idle", ~overlapped'
               PROVE  /\ status[post[a]] = "draft"
                      /\ status'[post[a]] = "pending_approval" <=> gated[PageOf[post[a]]]
    BY <1>1
  <2>1. \A b \in Api : ~(pc[b] = "idle" /\ Note(b))
    BY NoteAlone
  <2>2. PICK b \in Api : Finish(b)
    <3>1. ~\E p \in Posts : Pipe(p)
      BY DEF Pipe, handler
    <3>2. QED
      BY <2>1, <3>1
      DEF Next, CreatePost, SchedulePost, DeletePost, RetryPost, PatchPost, OneStatement,
          SubmitRead, ReviewLock, TogglePage
  <2>3. pc[b] # "idle" /\ ~overlapped
    BY <2>2 DEF Finish, SubmitPage, SubmitWrite, SubmitVanished, ReviewConflict, Review
  <2>4. b = a
    BY <1>1, <2>3 DEF IInv, Serial
  <2>5. SubmitWrite(a)
    BY <2>2, <2>4 DEF Finish, SubmitPage, SubmitVanished, ReviewConflict, Review
  <2>6. PICK p \in Posts : post[a] = p
    BY <1>1 DEF IInv, Requests
  <2>7. status[p] = "draft" /\ (value[a] = "pending_approval" <=> gated[PageOf[p]])
    BY <1>1, <2>3, <2>6 DEF IInv, Serial
  <2>8. status'[p] = value[a]
    BY <1>1, <2>5, <2>6 DEF SubmitWrite, SetStatus, IInv, TypeOK
  <2>9. QED
    BY <2>6, <2>7, <2>8
<1>2. QED
  BY <1>1, ReviewInvariant, PTL DEF Spec, SubmitFollowsGate

=============================================================================
