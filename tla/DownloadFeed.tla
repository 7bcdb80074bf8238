---------------------------- MODULE DownloadFeed ----------------------------
(***************************************************************************)
(* How the progress of one download job reaches the browsers that follow   *)
(* it: the job thread publishes on the topic of its job (app/broker.py),   *)
(* every GET /events/download/{job_id} drains a queue of its own           *)
(* (app/routes/events.py), and an EventSource shows what arrives           *)
(* (web/static/download.js).                                               *)
(*                                                                         *)
(* Events are numbered in the order the job publishes them; the last one   *)
(* is "done" or "error".  The job publishes from a thread of its own while *)
(* the event loop runs the streams, so a put does not wake a stream that   *)
(* waits: it resumes when its keepalive timer, or anything else, makes the *)
(* loop run.                                                               *)
(***************************************************************************)
EXTENDS Naturals, Sequences

CONSTANTS
    Browsers,   \* EventSources; each is opened at most once
    Last,       \* number of events the job publishes
    QueueMax,   \* _QUEUE_MAX
    MayDisconnect  \* whether the network may cut a connection

ASSUME FeedAssumption ==
    /\ Last \in Nat \ {0}
    /\ QueueMax \in Nat \ {0}
    /\ MayDisconnect \in BOOLEAN

VARIABLES
    sent,      \* how many events the job has started to publish
    pending,   \* the subscribers publish has yet to put that event to
    outcome,   \* the terminal event: "done" or "error"
    subs,      \* _subs[topic]
    queue,     \* queue[b]: the queue subscribe returned to b's stream
    stream,    \* stream[b]: where _stream of b's request stands
    source,    \* source[b]: b's EventSource
    seen,      \* seen[b]: the events that reached the page, in order
    page,      \* page[b]: what the page shows of the job
    joined     \* joined[b]: ghost, the value of sent when b subscribed

feedVars == <<sent, pending, outcome, subs, queue, stream, source, seen, page, joined>>

Events == 1..Last

FeedTypeOK ==
    /\ sent \in 0..Last
    /\ pending \subseteq Browsers
    /\ outcome \in {"done", "error"}
    /\ subs \subseteq Browsers
    /\ queue \in [Browsers -> Seq(Events)]
    /\ stream \in [Browsers -> {"none", "checking", "waiting", "ended"}]
    /\ source \in [Browsers -> {"unopened", "open", "closed"}]
    /\ seen \in [Browsers -> Seq(Events)]
    /\ page \in [Browsers -> {"progress", "reloaded", "failed"}]
    /\ joined \in [Browsers -> 0..Last]

FeedInit ==
    /\ sent = 0
    /\ pending = {}
    /\ outcome \in {"done", "error"}
    /\ subs = {}
    /\ queue = [b \in Browsers |-> <<>>]
    /\ stream = [b \in Browsers |-> "none"]
    /\ source = [b \in Browsers |-> "unopened"]
    /\ seen = [b \in Browsers |-> <<>>]
    /\ page = [b \in Browsers |-> "progress"]
    /\ joined = [b \in Browsers |-> 0]

-----------------------------------------------------------------------------
(* Broker.publish, in the job thread                                       *)

PublishesOnceMore ==
    /\ pending = {}
    /\ sent <= Last
    /\ sent' = sent + 1
    /\ pending' = subs
    /\ UNCHANGED <<outcome, subs, queue, stream, source, seen, page, joined>>

\* The set of subscribers is copied, then walked.
PublishBegins ==
    /\ pending = {}
    /\ sent < Last
    /\ sent' = sent + 1
    /\ pending' = subs
    /\ UNCHANGED <<outcome, subs, queue, stream, source, seen, page, joined>>

DropEvent(b) == UNCHANGED <<queue, subs>>
DropSubscriber(b) == subs' = subs \ {b} /\ UNCHANGED queue

\* put_nowait, or drop the subscriber whose queue is full.
PublishPuts(b) ==
    /\ b \in pending
    /\ pending' = pending \ {b}
    /\ IF Len(queue[b]) < QueueMax
       THEN queue' = [queue EXCEPT ![b] = Append(@, sent)] /\ UNCHANGED subs
       ELSE DropSubscriber(b)
    /\ UNCHANGED <<sent, outcome, stream, source, seen, page, joined>>

-----------------------------------------------------------------------------
(* _stream, in the event loop *)

\* The EventSource connects and the stream subscribes.
Connect(b) ==
    /\ source[b] = "unopened"
    /\ source' = [source EXCEPT ![b] = "open"]
    /\ stream' = [stream EXCEPT ![b] = "checking"]
    /\ subs' = subs \cup {b}
    /\ joined' = [joined EXCEPT ![b] = sent]
    /\ UNCHANGED <<sent, pending, outcome, queue, seen, page>>

HangUpQuietly(b) == UNCHANGED subs
Unsubscribe(b) == subs' = subs \ {b}

\* is_disconnected: the generator ends and its finally unsubscribes.
StreamEnds(b) ==
    /\ stream[b] = "checking"
    /\ source[b] = "closed"
    /\ stream' = [stream EXCEPT ![b] = "ended"]
    /\ Unsubscribe(b)
    /\ UNCHANGED <<sent, pending, outcome, queue, source, seen, page, joined>>

PageAfterDone(e, shown) == IF e = Last /\ outcome = "done" THEN "reloaded" ELSE shown

\* What download.js does with an event: done and error close the source,
\* only done reloads the page.
PageAfter(e, shown) ==
    IF e # Last THEN shown ELSE IF outcome = "done" THEN "reloaded" ELSE "failed"

\* q.get() finds an event, the frame goes out and the page handles it.
Relay(b) ==
    /\ stream[b] = "checking"
    /\ source[b] = "open"
    /\ queue[b] # <<>>
    /\ queue' = [queue EXCEPT ![b] = Tail(@)]
    /\ seen' = [seen EXCEPT ![b] = Append(@, Head(queue[b]))]
    /\ page' = [page EXCEPT ![b] = PageAfter(Head(queue[b]), @)]
    /\ source' = [source EXCEPT ![b] = IF Head(queue[b]) = Last THEN "closed" ELSE @]
    /\ UNCHANGED <<sent, pending, outcome, subs, stream, joined>>

\* q.get() finds nothing: the stream sleeps.
Sleep(b) ==
    /\ stream[b] = "checking"
    /\ source[b] = "open"
    /\ queue[b] = <<>>
    /\ stream' = [stream EXCEPT ![b] = "waiting"]
    /\ UNCHANGED <<sent, pending, outcome, subs, queue, source, seen, page, joined>>

\* The keepalive timer fires (or the loop runs for another reason and finds
\* the getter done): back to the top of the loop, or on with the event.
Wake(b) ==
    /\ stream[b] = "waiting"
    /\ stream' = [stream EXCEPT ![b] = "checking"]
    /\ UNCHANGED <<sent, pending, outcome, subs, queue, source, seen, page, joined>>

\* The connection is cut: EventSource fires its own "error" event, and the
\* listener for the job's "error" shows a failure and closes the source.
Disconnect(b) ==
    /\ MayDisconnect
    /\ source[b] = "open"
    /\ source' = [source EXCEPT ![b] = "closed"]
    /\ page' = [page EXCEPT ![b] = "failed"]
    /\ UNCHANGED <<sent, pending, outcome, subs, queue, stream, seen, joined>>

\* The job is over and so is every stream: only new pages would move it.
Over ==
    /\ sent = Last /\ pending = {}
    /\ \A b \in Browsers : stream[b] = "ended"
    /\ UNCHANGED feedVars

Publish == PublishBegins \/ \E b \in Browsers : PublishPuts(b)
StreamStep(b) == StreamEnds(b) \/ Relay(b) \/ Sleep(b) \/ Wake(b)

FeedNext ==
    \/ Publish
    \/ \E b \in Browsers : Connect(b) \/ StreamStep(b) \/ Disconnect(b)
    \/ Over

FeedSpec == FeedInit /\ [][FeedNext]_feedVars

\* The job thread and the streams run on, and the loop wakes at the latest
\* when the keepalive timer fires.  Pages are opened or not.
FairFeedSpec ==
    /\ FeedSpec
    /\ WF_feedVars(Publish)
    /\ \A b \in Browsers : WF_feedVars(StreamStep(b))

-----------------------------------------------------------------------------
(* Properties *)

\* Everything the broker has given b, in order.
Given(b) == seen[b] \o queue[b]

\* The last event b should have been given: publish has not got to it yet
\* while b is pending.
Due(b) == IF b \in pending THEN sent - 1 ELSE sent

\* A page is given every event from the moment it subscribed, in order and
\* once, whatever subscribes, unsubscribes or is dropped while publish walks
\* its copy; a page that is dropped has a prefix of them.
NothingLost ==
    \A b \in Browsers :
        /\ \A i \in 1..Len(Given(b)) : Given(b)[i] = joined[b] + i
        /\ b \in subs => joined[b] + Len(Given(b)) = Due(b)

\* A page that was subscribed before the job's last event is told how the job
\* ended (or that its connection broke), unless its queue overflowed: then it
\* is connected and no longer subscribed.
Dropped(b) == b \notin subs /\ source[b] = "open"
FollowerIsTold ==
    \A b \in Browsers :
        b \in subs /\ sent < Last ~> page[b] # "progress" \/ Dropped(b)

\* A subscription does not outlive its page.
ClosedIsUnsubscribed ==
    \A b \in Browsers : source[b] = "closed" ~> b \notin subs
=============================================================================
