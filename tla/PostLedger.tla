---------------------------- MODULE PostLedger ----------------------------
(***************************************************************************)
(* What the publish pipeline promises for each post, with no workers,      *)
(* messages or transactions in sight: a post that waits to be published is *)
(* settled in one step, which publishes it once or blocks it; a failure    *)
(* may leave an unrecorded copy behind; and only an editor, whose edits    *)
(* are counted, moves a post that no longer waits.                         *)
(***************************************************************************)
EXTENDS Naturals, PostStatus

CONSTANT Posts

VARIABLES
  status,  \* the status everybody sees
  copies,  \* copies on the platform, each published or lost
  lost,    \* the copies no row records
  edits    \* status changes by editors

ledger == <<status, copies, lost, edits>>

Blocked == {"paused", "reconnect_required", "failed_needs_editing"}

Waiting(p) == status[p] \in Claimable

Init ==
  /\ status = [p \in Posts |-> "queued"]
  /\ copies = [p \in Posts |-> 0]
  /\ lost = [p \in Posts |-> 0]
  /\ edits = [p \in Posts |-> 0]

Publish(p) ==
  /\ Waiting(p)
  /\ status' = [status EXCEPT ![p] = "published"]
  /\ copies' = [copies EXCEPT ![p] = @ + 1]
  /\ UNCHANGED <<lost, edits>>

Block(p) ==
  /\ Waiting(p)
  /\ \E s \in Blocked : status' = [status EXCEPT ![p] = s]
  /\ UNCHANGED <<copies, lost, edits>>

\* The platform has a copy that nobody will find recorded.
Lose(p) ==
  /\ Waiting(p)
  /\ copies' = [copies EXCEPT ![p] = @ + 1]
  /\ lost' = [lost EXCEPT ![p] = @ + 1]
  /\ \E s \in Blocked \cup {status[p]} : status' = [status EXCEPT ![p] = s]
  /\ UNCHANGED edits

Edit(p) ==
  /\ \E s \in Statuses : status' = [status EXCEPT ![p] = s]
  /\ edits' = [edits EXCEPT ![p] = @ + 1]
  /\ UNCHANGED <<copies, lost>>

Next == \E p \in Posts : Publish(p) \/ Block(p) \/ Lose(p) \/ Edit(p)

Spec == Init /\ [][Next]_ledger

===========================================================================
