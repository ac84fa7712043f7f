------------------------------ MODULE Refresh ------------------------------
(***************************************************************************)
(* The figures of the pages: app/tasks/insights.py and                     *)
(* app/services/insights/ingestor.py, run by the workers of the insights   *)
(* queue as app/tasks/beat_schedule.py asks for, and the events they       *)
(* publish (EventBus).                                                     *)
(*                                                                         *)
(* A refresh is two transactions: the first reads the page's token, asks   *)
(* Meta for the figures of today (days is 1 for every scheduled refresh)   *)
(* and stores them under their day; the second finds the organization and  *)
(* publishes the event.  The day is taken before the answer comes.         *)
(***************************************************************************)
EXTENDS EventBus

CONSTANTS
  Pages,
  PageOrg,     \* the organization of a page
  Workers,
  TicksPerDay, \* the refreshes of the insights of a day, 4 in the beat schedule
  MaxTime,     \* bound: the refreshes the beat asks for
  MaxFaults,   \* bound: crashes, and refreshes that fail
  NoMessage

Feeds == {"insights", "revenue"}
Messages == Feeds \X Pages

ASSUME RefreshConstants ==
  /\ PageOrg \in [Pages -> Orgs]
  /\ TicksPerDay \in Nat \ {0}
  /\ MaxTime \in Nat /\ MaxFaults \in Nat
  /\ NoMessage \notin Messages

VARIABLES
  time,    \* the times the beat has woken, every six hours
  queue,   \* the messages that wait, per feed and page
  work,    \* where a worker stands in the task
  job,     \* the feed and the page of the message it holds
  day,     \* the day it has asked Meta for
  figure,  \* the time of the figures Meta answered with
  rows,    \* page_insights and revenue_records: the time of the figures of a day
  faults,  \* history: crashes, and refreshes that failed
  crowded  \* history: two workers were at the same refresh at the same time

tasks == <<time, queue, work, job, day, figure, rows, faults, crowded>>
vars == <<busVars, tasks>>

DayOf(t) == t \div TicksPerDay
Days == 0 .. DayOf(MaxTime)

\* No row is stored for the day.
None == 0

TypeOK ==
  /\ BusTypeOK
  /\ time \in 0 .. MaxTime
  /\ queue \in [Messages -> Nat]
  /\ work \in [Workers -> {"idle", "ask", "store", "emit"}]
  /\ job \in [Workers -> Messages \cup {NoMessage}]
  /\ \A w \in Workers : work[w] = "idle" <=> job[w] = NoMessage
  /\ day \in [Workers -> Days]
  /\ figure \in [Workers -> 0 .. MaxTime]
  /\ rows \in [Messages -> [Days -> 0 .. MaxTime]]
  /\ faults \in 0 .. MaxFaults
  /\ crowded \in [Messages -> BOOLEAN]

Init ==
  /\ BusInit
  /\ time = 0
  /\ queue = [m \in Messages |-> 0]
  /\ work = [w \in Workers |-> "idle"]
  /\ job = [w \in Workers |-> NoMessage]
  /\ day = [w \in Workers |-> 0]
  /\ figure = [w \in Workers |-> 0]
  /\ rows = [m \in Messages |-> [d \in Days |-> None]]
  /\ faults = 0
  /\ crowded = [m \in Messages |-> FALSE]

-----------------------------------------------------------------------------
\* refresh_all_page_insights, every six hours: a message for each page that is
\* ready or token_expiring; and refresh_all_revenue, once a day.
InsightsMessages(gs) == {"insights"} \X gs

RevenueMessages(gs) ==
  IF DayOf(time') # DayOf(time) \/ time = 0 THEN {"revenue"} \X gs ELSE {}

Beat ==
  /\ time < MaxTime
  /\ time' = time + 1
  /\ \E gs, hs \in SUBSET Pages :
       queue' = [m \in Messages |->
         IF m \in InsightsMessages(gs) \cup RevenueMessages(hs) THEN queue[m] + 1 ELSE queue[m]]
  /\ UNCHANGED <<busVars, work, job, day, figure, rows, faults, crowded>>

\* A worker takes a message and finds the page's token; until is date.today().
Take(w, m) ==
  /\ work[w] = "idle"
  /\ queue[m] > 0
  /\ queue' = [queue EXCEPT ![m] = @ - 1]
  /\ work' = [work EXCEPT ![w] = "ask"]
  /\ job' = [job EXCEPT ![w] = m]
  /\ day' = [day EXCEPT ![w] = DayOf(time)]
  /\ crowded' = [crowded EXCEPT ![m] = @ \/ \E v \in Workers : job[v] = m]
  /\ UNCHANGED <<busVars, time, figure, rows, faults>>

\* A page that has no token yet: there is nothing to ask for.
TakeUnconnected(w, m) ==
  /\ work[w] = "idle"
  /\ queue[m] > 0
  /\ queue' = [queue EXCEPT ![m] = @ - 1]
  /\ work' = [work EXCEPT ![w] = "emit"]
  /\ job' = [job EXCEPT ![w] = m]
  /\ UNCHANGED <<busVars, time, day, figure, rows, faults, crowded>>

\* Meta answers for that day, with the figures as they are now: those of a day
\* that is over are the ones of its end.
Ask(w) ==
  /\ work[w] = "ask"
  /\ figure' = [figure EXCEPT ![w] =
                  IF DayOf(time) = day[w] THEN time ELSE TicksPerDay * (day[w] + 1) - 1]
  /\ work' = [work EXCEPT ![w] = "store"]
  /\ UNCHANGED <<busVars, time, queue, job, day, rows, faults, crowded>>

\* Meta answers with no figures, as the live client always does today: there is
\* no row to store, and the event is published all the same.
AskNothing(w) ==
  /\ work[w] = "ask"
  /\ work' = [work EXCEPT ![w] = "emit"]
  /\ UNCHANGED <<busVars, time, queue, job, day, figure, rows, faults, crowded>>

\* Bug seeded: the row is stored under the day it is when the answer is there.
Upsert_Today(w) ==
  /\ work[w] = "store"
  /\ rows' = [rows EXCEPT ![job[w]][DayOf(time)] = figure[w]]
  /\ work' = [work EXCEPT ![w] = "emit"]
  /\ UNCHANGED <<busVars, time, queue, job, day, figure, faults, crowded>>

\* The upsert by page and day, and the commit,
Upsert(w) ==
  /\ work[w] = "store"
  /\ rows' = [rows EXCEPT ![job[w]][day[w]] = figure[w]]
  /\ work' = [work EXCEPT ![w] = "emit"]
  /\ UNCHANGED <<busVars, time, queue, job, day, figure, faults, crowded>>

\* of a row of page_insights
StoreInsights(w) == job[w] \in {"insights"} \X Pages /\ Upsert(w)

\* or of revenue_records.
StoreRevenue(w) == job[w] \in {"revenue"} \X Pages /\ Upsert(w)

\* The worker is done with its message.
TaskEnds(w) ==
  /\ work' = [work EXCEPT ![w] = "idle"]
  /\ job' = [job EXCEPT ![w] = NoMessage]
  /\ day' = [day EXCEPT ![w] = 0]
  /\ figure' = [figure EXCEPT ![w] = 0]

\* _emit: the event, in the worker's own process and under the UUID.
Emit(w) ==
  /\ work[w] = "emit"
  /\ Publish(<<"worker", "uuid">>, PageOrg[job[w][2]])
  /\ TaskEnds(w)
  /\ UNCHANGED <<time, queue, rows, faults, crowded>>

\* The refresh fails: the token cannot be decrypted, Meta raises, a statement
\* fails, the page is gone.  max_retries alone retries nothing, and the
\* message is acknowledged.
Fail(w) ==
  /\ work[w] # "idle"
  /\ faults < MaxFaults
  /\ faults' = faults + 1
  /\ TaskEnds(w)
  /\ UNCHANGED <<busVars, time, queue, rows, crowded>>

\* The worker dies, and the message is delivered again.
Crash(w) ==
  /\ work[w] # "idle"
  /\ faults < MaxFaults
  /\ faults' = faults + 1
  /\ queue' = [queue EXCEPT ![job[w]] = @ + 1]
  /\ TaskEnds(w)
  /\ UNCHANGED <<busVars, time, rows, crowded>>

Work(w) ==
  \/ \E m \in Messages : Take(w, m) \/ TakeUnconnected(w, m)
  \/ Ask(w) \/ AskNothing(w) \/ StoreInsights(w) \/ StoreRevenue(w) \/ Emit(w)

Next ==
  \/ Beat
  \/ \E w \in Workers : Work(w) \/ Fail(w) \/ Crash(w)
  \/ BusNext /\ UNCHANGED tasks

Spec == Init /\ [][Next]_vars

\* The beat, the workers and the streams go on; clients come and go as they like.
FairSpec ==
  /\ Spec
  /\ WF_vars(Beat)
  /\ \A w \in Workers : WF_vars(Work(w))
  /\ \A c \in Clients : WF_vars(Serve(c) /\ UNCHANGED tasks)

-----------------------------------------------------------------------------
\* Every row holds figures of its own day, however late the answer came or the
\* message was delivered again; and unless two workers were at the refresh of
\* the same page at once, newer figures are never overwritten by older ones.
FiguresStayInOrder ==
  [][\A m \in Messages, d \in Days :
       rows'[m][d] # rows[m][d] =>
         /\ DayOf(rows'[m][d]) = d
         /\ rows'[m][d] < rows[m][d] => crowded[m]]_vars

\* "SSE stream for real-time updates (queue state, publish progress,
\* notifications)" and "Events are emitted elsewhere (publishers, task hooks)"
\* (app/api/sse.py): the event of a refresh reaches the organization's clients
\* that listen and stay.
EventsReachClients ==
  \A c \in Clients, w \in Workers :
    stream[c] = "wait" /\ work[w] = "emit" /\ PageOrg[job[w][2]] = OrgOf[c]
      ~> received[c] # <<>> \/ ~present[c]

=============================================================================
