------------------------------ MODULE EventBus ------------------------------
(***************************************************************************)
(* Events for the browsers: app/services/sse_bus.py and app/api/sse.py.    *)
(*                                                                         *)
(* A process has a bus of its own, with a list of queues per key.  A       *)
(* stream subscribes in the API process under the organization's Clerk id; *)
(* a task publishes in its worker process under the organization's UUID.   *)
(* publish puts an event into every queue of its key without waiting, and  *)
(* gives it up for a queue that is full: one step.                         *)
(*                                                                         *)
(* A stream is a generator that sse-starlette (not under src/) iterates    *)
(* and, when the client is gone, cancels; one it has not begun to iterate  *)
(* never gets to its finally.                                              *)
(***************************************************************************)
EXTENDS Naturals, Sequences, FiniteSets

CONSTANTS
  Clients, Orgs,
  OrgOf,      \* the organization of a client
  QueueSize,  \* the maxsize of a queue, 200 in the code
  MaxOthers   \* bound: events of an organization published in the API process

Processes == {"api", "worker"}
Keys == {"clerk_id", "uuid"}

\* Where a stream listens.
StreamSource == <<"api", "clerk_id">>

ASSUME BusConstants ==
  /\ OrgOf \in [Clients -> Orgs]
  /\ QueueSize \in Nat \ {0} /\ MaxOthers \in Nat

VARIABLES
  stream,     \* where a client's stream stands
  present,    \* the client is still connected
  subscribed, \* its queue is on the list of the bus
  inbox,      \* the queue: the numbers of the events in it
  received,   \* history: the numbers of the events sent to the client
  missed,     \* history: those its queue had no room for
  since,      \* history: the events published before it subscribed
  published   \* history: the events of an organization, per source

streams == <<stream, present, subscribed, inbox, received, missed, since>>
busVars == <<streams, published>>

BusTypeOK ==
  /\ stream \in [Clients -> {"none", "subscribed", "check", "wait", "closed", "dropped"}]
  /\ present \in [Clients -> BOOLEAN]
  /\ subscribed \in [Clients -> BOOLEAN]
  /\ inbox \in [Clients -> Seq(Nat)]
  /\ \A c \in Clients : Len(inbox[c]) <= QueueSize
  /\ received \in [Clients -> Seq(Nat)]
  /\ missed \in [Clients -> SUBSET Nat]
  /\ since \in [Clients -> Nat]
  /\ published \in [(Processes \X Keys) \X Orgs -> Nat]

BusInit ==
  /\ stream = [c \in Clients |-> "none"]
  /\ present = [c \in Clients |-> TRUE]
  /\ subscribed = [c \in Clients |-> FALSE]
  /\ inbox = [c \in Clients |-> <<>>]
  /\ received = [c \in Clients |-> <<>>]
  /\ missed = [c \in Clients |-> {}]
  /\ since = [c \in Clients |-> 0]
  /\ published = [s \in (Processes \X Keys) \X Orgs |-> 0]

-----------------------------------------------------------------------------
\* The queues an event published at src for the organization o goes to.
Subscribers(src, o) ==
  {c \in Clients : src = StreamSource /\ subscribed[c] /\ OrgOf[c] = o}

\* Bug seeded: the first queue that is full ends the delivery.
Publish_StopsAtFull(src, o) ==
  /\ LET n == published[<<src, o>>] + 1
         full == \E c \in Subscribers(src, o) : Len(inbox[c]) = QueueSize IN
       /\ published' = [published EXCEPT ![<<src, o>>] = n]
       /\ inbox' = [c \in Clients |->
            IF c \in Subscribers(src, o) /\ ~full THEN Append(inbox[c], n) ELSE inbox[c]]
       /\ missed' = [c \in Clients |->
            IF c \in Subscribers(src, o) /\ Len(inbox[c]) = QueueSize
            THEN missed[c] \cup {n} ELSE missed[c]]
  /\ UNCHANGED <<stream, present, subscribed, received, since>>

\* SSEBus.publish.
Publish(src, o) ==
  /\ LET n == published[<<src, o>>] + 1
         has_room(c) == Len(inbox[c]) < QueueSize IN
       /\ published' = [published EXCEPT ![<<src, o>>] = n]
       /\ inbox' = [c \in Clients |->
            IF c \in Subscribers(src, o) /\ has_room(c) THEN Append(inbox[c], n) ELSE inbox[c]]
       /\ missed' = [c \in Clients |->
            IF c \in Subscribers(src, o) /\ ~has_room(c) THEN missed[c] \cup {n} ELSE missed[c]]
  /\ UNCHANGED <<stream, present, subscribed, received, since>>

\* An event published in the API process under a Clerk id: by no code under
\* app/, but by tests/integration/test_sse_endpoint.py.
PublishHere(o) ==
  /\ published[<<StreamSource, o>>] < MaxOthers
  /\ Publish(StreamSource, o)

\* event_stream: a queue of its own on the list of the organization.
Subscribe(c) ==
  /\ stream[c] = "none"
  /\ stream' = [stream EXCEPT ![c] = "subscribed"]
  /\ subscribed' = [subscribed EXCEPT ![c] = TRUE]
  /\ since' = [since EXCEPT ![c] = published[<<StreamSource, OrgOf[c]>>]]
  /\ UNCHANGED <<present, inbox, received, missed, published>>

\* The generator is begun, and says hello.
Hello(c) ==
  /\ stream[c] = "subscribed"
  /\ stream' = [stream EXCEPT ![c] = "check"]
  /\ UNCHANGED <<present, subscribed, inbox, received, missed, since, published>>

\* The client goes away before that: the queue stays on the list.
NeverBegun(c) ==
  /\ stream[c] = "subscribed" /\ ~present[c]
  /\ stream' = [stream EXCEPT ![c] = "dropped"]
  /\ UNCHANGED <<present, subscribed, inbox, received, missed, since, published>>

\* is_disconnected, before each event;
Check(c) ==
  /\ stream[c] = "check" /\ present[c]
  /\ stream' = [stream EXCEPT ![c] = "wait"]
  /\ UNCHANGED <<present, subscribed, inbox, received, missed, since, published>>

\* an event from the queue, or a ping after 25 seconds without one;
Yield(c) ==
  /\ stream[c] = "wait"
  /\ \/ /\ inbox[c] # <<>>
        /\ inbox' = [inbox EXCEPT ![c] = Tail(@)]
        /\ received' = [received EXCEPT ![c] = Append(@, Head(inbox[c]))]
     \/ inbox[c] = <<>> /\ UNCHANGED <<inbox, received>>
  /\ stream' = [stream EXCEPT ![c] = "check"]
  /\ UNCHANGED <<present, subscribed, missed, since, published>>

\* Bug seeded: the queue is left behind by a client that is found gone.
Close_KeepsQueue(c) ==
  /\ stream[c] \in {"check", "wait"} /\ ~present[c]
  /\ stream' = [stream EXCEPT ![c] = "closed"]
  /\ subscribed' = [subscribed EXCEPT ![c] = stream[c] = "check"]
  /\ UNCHANGED <<present, inbox, received, missed, since, published>>

\* and the finally, when the client is found gone or the wait is cancelled.
Close(c) ==
  /\ stream[c] \in {"check", "wait"} /\ ~present[c]
  /\ stream' = [stream EXCEPT ![c] = "closed"]
  /\ subscribed' = [subscribed EXCEPT ![c] = FALSE]
  /\ UNCHANGED <<present, inbox, received, missed, since, published>>

\* The client closes its page, or its connection breaks.
Leave(c) ==
  /\ present[c]
  /\ stream[c] \in {"subscribed", "check", "wait"}
  /\ present' = [present EXCEPT ![c] = FALSE]
  /\ UNCHANGED <<stream, subscribed, inbox, received, missed, since, published>>

Serve(c) == Hello(c) \/ Check(c) \/ Yield(c) \/ Close(c)

BusNext ==
  \/ \E o \in Orgs : PublishHere(o)
  \/ \E c \in Clients : Subscribe(c) \/ Leave(c) \/ NeverBegun(c) \/ Serve(c)

\* The event loop serves the streams; clients come and go as they like.
BusSpec ==
  /\ BusInit
  /\ [][BusNext]_busVars
  /\ \A c \in Clients : WF_busVars(Serve(c))

-----------------------------------------------------------------------------
InOrder(s) == \A i, j \in 1 .. Len(s) : i < j => s[i] < s[j]

Elements(s) == {s[i] : i \in 1 .. Len(s)}

\* A stream gets every event of its organization published in its process since
\* it subscribed, once and in order: what it does not have waits in its queue,
\* or found that queue full.  Another stream's full queue takes nothing away.
EventsAccountedFor ==
  \A c \in Clients :
    /\ InOrder(received[c] \o inbox[c])
    /\ subscribed[c] =>
         Elements(received[c]) \cup Elements(inbox[c]) \cup missed[c]
           = (since[c] + 1) .. published[<<StreamSource, OrgOf[c]>>]

\* The queue of a client that is gone is taken off the list, or it would be
\* filled and kept for ever; the one exception is a stream never begun.
GoneIsReleased ==
  \A c \in Clients : ~present[c] ~> ~subscribed[c] \/ stream[c] = "dropped"

=============================================================================
