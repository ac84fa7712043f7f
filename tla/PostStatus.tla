---------------------------- MODULE PostStatus ----------------------------
(***************************************************************************)
(* The life cycle of a post as app/services/publishing/state_machine.py    *)
(* states it, and the sets of statuses the handlers and tasks guard on.    *)
(* No code path consults LegalTransitions: Publishing.tla compares it with *)
(* what the pipeline really does.                                          *)
(***************************************************************************)

\* The post_status enumeration of the database and of PostStatus(StrEnum).
Statuses == {"draft", "pending_approval", "changes_requested", "rejected",
             "queued", "publishing", "published", "failed_temporary",
             "failed_needs_editing", "reconnect_required", "paused"}

\* Bug seeded: a published post can be claimed.
Claimable_Published == {"queued", "failed_temporary", "published"}

\* What the claiming UPDATE of the publish task accepts.
Claimable == {"queued", "failed_temporary"}

\* What POST /posts/{id}/retry accepts.
Retryable == {"failed_temporary", "failed_needs_editing"}

\* Bug seeded: a published post can be scheduled.
Schedulable_Published == {"draft", "changes_requested", "published"}

\* Bug seeded: a rejected post can be scheduled.
Schedulable_Rejected == {"draft", "changes_requested", "rejected"}

\* What POST /posts/{id}/schedule accepts.
Schedulable == {"draft", "changes_requested"}

\* What DELETE /posts/{id} accepts.
Deletable == {"draft", "rejected", "changes_requested"}

LegalTransitions ==
  ({"draft"} \X {"pending_approval", "queued"})
  \cup ({"pending_approval"} \X {"queued", "rejected", "changes_requested"})
  \cup ({"changes_requested", "rejected"} \X {"draft"})
  \cup ({"queued"} \X {"publishing", "reconnect_required", "paused"})
  \cup ({"publishing"} \X {"published", "failed_temporary", "failed_needs_editing",
                           "reconnect_required", "paused"})
  \cup ({"failed_temporary"} \X {"queued", "publishing"})
  \cup ({"reconnect_required", "paused"} \X {"queued"})

CanTransition(src, dst) == src # dst /\ <<src, dst>> \in LegalTransitions

===========================================================================
