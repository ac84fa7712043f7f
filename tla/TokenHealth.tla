---------------------------- MODULE TokenHealth ----------------------------
(***************************************************************************)
(* Token health: app/tasks/health.py and app/services/oauth/token_monitor  *)
(* run by the Celery workers of the health queue, on the pages the API     *)
(* changes at the same time (Pages).                                       *)
(*                                                                         *)
(* ping_token_for_page is one transaction that reads the token, asks Meta  *)
(* for up to a minute and sets the status by the page's id alone.  The     *)
(* event and the email follow in ping_page_token, over another connection. *)
(***************************************************************************)
EXTENDS Pages

CONSTANTS
  Workers,
  MaxMessages, \* bound: messages of a page in the queue
  MaxOutages,  \* bound: pings of a good token that fail
  MaxFaults,   \* bound: crashes, pings that raise and alerts that are cut off
  NoPage

ASSUME HealthConstants ==
  /\ MaxMessages \in Nat /\ MaxOutages \in Nat /\ MaxFaults \in Nat
  /\ NoPage \notin Pages

VARIABLES
  queue,    \* the messages of ping_page_token, per page
  work,     \* where a worker stands in the task
  job,      \* the page of the message it holds
  seen,     \* the token it has read
  verdict,  \* the status it has written
  outages,  \* history: pings of a good token that failed
  faults,   \* history: crashes, pings that raised and alerts cut off
  cause,    \* history: the page had no usable token, or Meta was out of reach
  alerted,  \* history: an alert was sent since the status became token_expired
  cut       \* history: a task that owed an alert ended without, since the last ping

workers == <<queue, work, job, seen, verdict>>
healthHistory == <<outages, faults, cause, alerted, cut>>
vars == <<pagesVars, workers, healthHistory>>

TypeOK ==
  /\ PagesTypeOK
  /\ queue \in [Pages -> Nat]
  /\ work \in [Workers -> {"idle", "ping", "alert"}]
  /\ job \in [Workers -> Pages \cup {NoPage}]
  /\ \A w \in Workers : work[w] # "idle" <=> job[w] \in Pages
  /\ seen \in [Workers -> TokenConditions]
  /\ verdict \in [Workers -> PageStatuses]
  /\ outages \in Nat /\ faults \in Nat
  /\ cause \in [Pages -> BOOLEAN]
  /\ alerted \in [Pages -> BOOLEAN]
  /\ cut \in [Pages -> BOOLEAN]

Init ==
  /\ PagesInit
  /\ queue = [g \in Pages |-> 0]
  /\ work = [w \in Workers |-> "idle"]
  /\ job = [w \in Workers |-> NoPage]
  /\ seen = [w \in Workers |-> "none"]
  /\ verdict = [w \in Workers |-> "ready"]
  /\ outages = 0 /\ faults = 0
  /\ cause = [g \in Pages |-> FALSE]
  /\ alerted = [g \in Pages |-> FALSE]
  /\ cut = [g \in Pages |-> FALSE]

-----------------------------------------------------------------------------
\* Bug seeded: the sweep takes the pages that are ready and no others.
Pinged_ReadyOnly == {"ready"}

Pinged == {"ready", "token_expiring"}

\* Bug seeded: check_all_tokens pings every page that has an expiry date.
Sweep_AnyStatus(g) ==
  /\ token[g] # "none"
  /\ queue[g] < MaxMessages
  /\ queue' = [queue EXCEPT ![g] = @ + 1]
  /\ UNCHANGED <<pagesVars, work, job, seen, verdict, healthHistory>>

\* check_all_tokens, every 15 minutes, for one of its pages.  It reads all of
\* them and then sends: a message sent late is one that waits in the queue.
\* Only the OAuth callback sets token_expires_at, and always with the token.
Sweep(g) ==
  /\ token[g] # "none"
  /\ status[g] \in Pinged
  /\ queue[g] < MaxMessages
  /\ queue' = [queue EXCEPT ![g] = @ + 1]
  /\ UNCHANGED <<pagesVars, work, job, seen, verdict, healthHistory>>

\* A worker takes a message and reads the page's token.
PingRead(w, g) ==
  /\ work[w] = "idle"
  /\ queue[g] > 0
  /\ queue' = [queue EXCEPT ![g] = @ - 1]
  /\ work' = [work EXCEPT ![w] = "ping"]
  /\ job' = [job EXCEPT ![w] = g]
  /\ seen' = [seen EXCEPT ![w] = token[g]]
  /\ UNCHANGED <<pagesVars, verdict, healthHistory>>

\* The task ends, and the worker takes the next message.
TaskEnds(w) ==
  /\ work' = [work EXCEPT ![w] = "idle"]
  /\ job' = [job EXCEPT ![w] = NoPage]
  /\ seen' = [seen EXCEPT ![w] = "none"]
  /\ verdict' = [verdict EXCEPT ![w] = "ready"]

\* Bug seeded: an expiry date within 7 days counts as expired.
Verdict_Early(c) == IF c = "fresh" THEN "ready" ELSE "token_expired"

\* Bug seeded: the UPDATE writes a status the enumeration does not have.
Verdict_Unlisted(c) == IF c = "fresh" THEN "ready" ELSE c

\* The status a ping decides on when Meta answers it.
Verdict(c) ==
  CASE c = "fresh" -> "ready"
    [] c = "expiring" -> "token_expiring"
    [] OTHER -> "token_expired"

\* UPDATE pages SET status by id, and commit: ready ends the task.
WriteVerdict(w, v) ==
  /\ status' = [status EXCEPT ![job[w]] = v]
  /\ alerted' = [alerted EXCEPT ![job[w]] = @ /\ status[job[w]] = v]
  /\ cut' = [cut EXCEPT ![job[w]] = FALSE]
  /\ \/ v = "ready" /\ TaskEnds(w)
     \/ /\ v # "ready"
        /\ work' = [work EXCEPT ![w] = "alert"]
        /\ verdict' = [verdict EXCEPT ![w] = v]
        /\ seen' = [seen EXCEPT ![w] = "none"]
        /\ UNCHANGED job
  /\ UNCHANGED <<batches, unassigned, batchOf, active, token, requests, edits, placed>>
  /\ UNCHANGED <<queue, faults>>

PingWrite(w) ==
  /\ work[w] = "ping"
  /\ WriteVerdict(w, Verdict(seen[w]))
  /\ cause' = [cause EXCEPT ![job[w]] = @ \/ seen[w] \notin {"fresh", "expiring"}]
  /\ UNCHANGED outages

\* ping_token answers FALSE for any exception: a timeout, a rate limit, an
\* answer that is no JSON.
PingOutage(w) ==
  /\ work[w] = "ping"
  /\ seen[w] \in {"fresh", "expiring"}
  /\ outages < MaxOutages
  /\ WriteVerdict(w, "token_expired")
  /\ outages' = outages + 1
  /\ cause' = [cause EXCEPT ![job[w]] = TRUE]

\* A connection or a statement of the ping fails, or its time is up: it is rolled
\* back, max_retries alone retries nothing, and the failed task is acknowledged.
\* If it was done again after a crash, the alert of the first try is not sent.
PingFails(w) ==
  /\ work[w] = "ping"
  /\ faults < MaxFaults
  /\ faults' = faults + 1
  /\ cut' = [cut EXCEPT ![job[w]] = @ \/ (status[job[w]] = "token_expired" /\ ~alerted[job[w]])]
  /\ TaskEnds(w)
  /\ UNCHANGED <<pagesVars, queue, outages, cause, alerted>>

\* ping_page_token: the event, and the email to an owner or co-owner.
Alert(w) ==
  /\ work[w] = "alert"
  /\ alerted' = [alerted EXCEPT ![job[w]] = @ \/ verdict[w] = "token_expired"]
  /\ TaskEnds(w)
  /\ UNCHANGED <<pagesVars, queue, outages, faults, cause, cut>>

\* The second connection fails, or finds no owner: the task is acknowledged.
AlertCut(w) ==
  /\ work[w] = "alert"
  /\ faults < MaxFaults
  /\ faults' = faults + 1
  /\ cut' = [cut EXCEPT ![job[w]] = TRUE]
  /\ TaskEnds(w)
  /\ UNCHANGED <<pagesVars, queue, outages, cause, alerted>>

\* Bug seeded: messages are acknowledged when they are taken.
Crash_MessageLost(w) ==
  /\ work[w] # "idle"
  /\ faults < MaxFaults
  /\ faults' = faults + 1
  /\ TaskEnds(w)
  /\ UNCHANGED <<pagesVars, queue, outages, cause, alerted, cut>>

\* The worker dies: task_acks_late and task_reject_on_worker_lost put the
\* message back, and the ping is done again from the start.
Crash(w) ==
  /\ work[w] # "idle"
  /\ faults < MaxFaults
  /\ faults' = faults + 1
  /\ queue' = [queue EXCEPT ![job[w]] = @ + 1]
  /\ TaskEnds(w)
  /\ UNCHANGED <<pagesVars, outages, cause, alerted, cut>>

Work(w) ==
  \/ \E g \in Pages : PingRead(w, g)
  \/ PingWrite(w) \/ PingOutage(w) \/ PingFails(w)
  \/ Alert(w) \/ AlertCut(w)

Next ==
  \/ PagesNext /\ UNCHANGED <<workers, healthHistory>>
  \/ \E g \in Pages : Sweep(g)
  \/ \E w \in Workers : Work(w) \/ Crash(w)

Spec == Init /\ [][Next]_vars

\* The beat goes on, and so does a worker that is not restarted; the queue is
\* first in, first out, so no page's message is overtaken for ever.  Nobody
\* owes a request.
FairSpec ==
  /\ Spec
  /\ \A g \in Pages : WF_vars(Sweep(g)) /\ SF_vars(\E w \in Workers : PingRead(w, g))
  /\ \A w \in Workers : WF_vars(Work(w))

-----------------------------------------------------------------------------
Unedited(g) == edits[g] = 0

\* A page gets ready by an operator's hand: unless an editor set its status, it
\* is ready or expiring only after bulk_connect, whatever the pings write.
SetUpByOperator ==
  \A g \in Pages :
    status[g] \in Pinged /\ Unedited(g) => placed[g] /\ token[g] # "none"

\* No false alarm of the code's own making: a page is marked token_expired for
\* a token that was none or dead, or a Meta that was out of reach.
AlarmHasCause ==
  \A g \in Pages : status[g] = "token_expired" /\ Unedited(g) => cause[g]

\* A page that a ping has marked expired was alerted since, or will be: the
\* message of the ping is still with a worker or back in the queue, a crash
\* notwithstanding.  The one exception is a task that raised, or ran out of time,
\* and was acknowledged: the first one after its commit, or, when it was done
\* again after a crash, the second one before.
ExpiryIsAlerted ==
  \A g \in Pages :
    status[g] = "token_expired" /\ Unedited(g) =>
      \/ alerted[g] \/ cut[g]
      \/ queue[g] > 0
      \/ \E w \in Workers : work[w] # "idle" /\ job[w] = g

\* An expired page no ping is at work on stays expired until an editor sets its
\* status: the sweep leaves it alone, and neither the OAuth callback nor
\* bulk_connect heals it, good as its new token may be.
HealedByEditor ==
  [][\A g \in Pages :
       status[g] = "token_expired" /\ queue[g] = 0 /\ (\A w \in Workers : job[w] # g) =>
         status'[g] = "token_expired" \/ edits'[g] > edits[g]]_vars

\* A page that publishes with a dead token is found out: the sweep keeps coming
\* back to it until its status, or its token, is another.
DeadTokenIsNoticed ==
  \A g \in Pages :
    status[g] \in {"ready", "token_expiring"} /\ token[g] = "dead"
      ~> status[g] \notin {"ready", "token_expiring"} \/ token[g] # "dead"

===========================================================================
