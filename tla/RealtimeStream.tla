---------------------------- MODULE RealtimeStream ----------------------------
(***************************************************************************)
(* How the events of one account reach one client: the handlers that       *)
(* commit and publish them, the account's broadcast channel, the websocket *)
(* session, the paged /api/v1/sync, and the client's cursor with its       *)
(* realtime queue (server/src/main.rs, common/src/sync-queue.ts,           *)
(* desktop/src/App.tsx).                                                   *)
(*                                                                         *)
(* The log itself is the one EventStore provides: events 1..last, none     *)
(* missing, none changing.                                                 *)
(***************************************************************************)
EXTENDS Integers, Sequences, FiniteSets

CONSTANTS
    MaxLast,          \* bound: events committed to the log
    ChannelCapacity,  \* slots of the broadcast channel, and the events a
                      \* lagged session's snapshot reaches back (both 256)
    PageSize,         \* MAX_SYNC_EVENTS
    TornSync,         \* TRUE: PostgreSQL, where sync reads the events and the
                      \* cursor in two statements without a transaction
    MaxDecryptRetries, \* MAX_DECRYPT_RETRIES
    MaxDrops,         \* bound: connections lost
    MaxFailures       \* bound: failed requests and failed decryptions

ASSUME StreamAssumption ==
    /\ {MaxLast, MaxDrops, MaxFailures} \subseteq Nat
    /\ {ChannelCapacity, PageSize, MaxDecryptRetries} \subseteq Nat \ {0}
    /\ TornSync \in BOOLEAN

VARIABLES
    last,         \* the account's cursor
    unpublished,  \* events committed, whose handler has yet to publish them
    session,      \* the websocket session, as the server runs it
    since,        \* the cursor in the session's hello
    channel,      \* events the session's receiver has yet to read
    lagged,       \* the channel overwrote an event the receiver had not read
    inbox,        \* frames sent to the client and not yet handled
    chained,      \* the client's task chain waits for the queue to drain
    cursor,       \* the client's cursor
    settled,      \* events the client has applied, or given up decrypting
    attempts,     \* decryptAttempts: failures of each event in a sync; at
                  \* MaxDecryptRetries the event is quarantined
    pending,      \* events in the client's realtime queue
    drain,        \* where the queue's drain loop is
    mark,         \* the cursor when the drain loop asked for a recovery
    http,         \* the sync request: "idle", or how far it is
    httpSince,    \* the cursor the request carries
    answer,       \* its answer
    httpQueued,   \* a further sync was asked for while one was running
    drops, failures

server == <<last, unpublished>>
connection == <<session, since, channel, lagged>>
queue == <<pending, drain, mark>>
request == <<http, httpSince, answer, httpQueued>>
faults == <<drops, failures>>
client == <<cursor, settled, attempts>>
vars == <<server, connection, inbox, chained, client, queue, request, faults>>

-------------------------------------------------------------------------------
Least(S) == CHOOSE x \in S : \A y \in S : x <= y
Later(x, y) == IF x < y THEN y ELSE x
Earlier(x, y) == IF x < y THEN x ELSE y

(* The frames of the wire: a snapshot ("sync"), or one event. *)
EventFrame(e) == [kind |-> "event", events |-> {e}, next |-> e]
SyncFrame(S, c) == [kind |-> "sync", events |-> S, next |-> c]
NoFrame == SyncFrame({}, 0)
Frame(n) == [kind : {"event", "sync"}, events : SUBSET (1..n), next : 0..n]

(* The page of sync after cursor s: its last cursor and its events. *)
PageEnd(s) == Earlier(s + PageSize, last)
Page(s) == {e \in 1..last : s < e /\ e <= PageEnd(s)}

(* With an empty page the answer carries the account's cursor, which       *)
(* PostgreSQL reads in a second statement.                                 *)
TornAt(s) == TornSync /\ Page(s) = {}

Subscribed == session \in {"subscribed", "reading", "streaming"}

Init ==
    /\ last = 0 /\ unpublished = {}
    /\ session = "closed" /\ since = 0 /\ channel = <<>> /\ lagged = FALSE
    /\ inbox = <<>> /\ chained = FALSE
    /\ cursor = 0 /\ settled = {} /\ attempts = [e \in 1..MaxLast |-> 0]
    /\ pending = {} /\ drain = "idle" /\ mark = 0
    /\ http = "idle" /\ httpSince = 0 /\ answer = NoFrame /\ httpQueued = FALSE
    /\ drops = 0 /\ failures = 0

-------------------------------------------------------------------------------
(* A handler commits an event.  Most handlers publish it afterwards; the   *)
(* further copies of a message and history copies are never published.     *)
Commit ==
    /\ last < MaxLast
    /\ last' = last + 1
    /\ \E published \in BOOLEAN :
          unpublished' = IF published THEN unpublished \cup {last + 1} ELSE unpublished
    /\ UNCHANGED <<connection, inbox, chained, client, queue, request, faults>>

(* publish: handlers overlap, so events are published in any order; with   *)
(* nobody subscribed the event is dropped; a full channel overwrites its   *)
(* oldest event.                                                           *)
Publish(e) ==
    /\ e \in unpublished
    /\ unpublished' = unpublished \ {e}
    /\ IF ~Subscribed THEN UNCHANGED <<channel, lagged>>
       ELSE IF Len(channel) < ChannelCapacity
       THEN channel' = Append(channel, e) /\ UNCHANGED lagged
       ELSE channel' = Append(Tail(channel), e) /\ lagged' = TRUE
    /\ UNCHANGED <<last, session, since, inbox, chained, client, queue,
                   request, faults>>

(* The handler's future is dropped (its caller hung up, the server was     *)
(* restarted) between the commit and the publication.                      *)
HandlerDies(e) ==
    /\ e \in unpublished
    /\ unpublished' = unpublished \ {e}
    /\ UNCHANGED <<last, connection, inbox, chained, client, queue, request,
                   faults>>

-------------------------------------------------------------------------------
(* createSyncQueue: one sync at a time; a request made meanwhile is        *)
(* remembered, and the running one goes round once more.                   *)
RequestSync ==
    IF http = "idle"
    THEN http' = "requested" /\ httpSince' = cursor /\ UNCHANGED <<answer, httpQueued>>
    ELSE httpQueued' = TRUE /\ UNCHANGED <<http, httpSince, answer>>

(* The end of a run: the realtime queue is retried; whoever waits for the  *)
(* sync goes on when no further run was asked for.                         *)
Woken(d) == CASE d = "idle" -> "running"
              [] d = "recovering" /\ ~httpQueued -> "recovered"
              [] d = "learning" /\ ~httpQueued -> "learned"
              [] OTHER -> d

SyncEnds(newCursor) ==
    /\ drain' = Woken(drain)
    /\ http' = IF httpQueued THEN "requested" ELSE "idle"
    /\ httpSince' = IF httpQueued THEN newCursor ELSE httpSince
    /\ httpQueued' = FALSE
    /\ answer' = NoFrame
    /\ UNCHANGED <<pending, mark>>

(* What the client does with the events of a page, from either path: it    *)
(* applies them and moves its cursor.  When one cannot be decrypted the    *)
(* cursor stays, until the event has failed so often that the client gives *)
(* it up (quarantinedMessageIds).  Without its keys it applies nothing.    *)
Quarantined(e) == attempts[e] = MaxDecryptRetries

Forgiven(events) ==
    [e \in 1..MaxLast |-> IF e \in events /\ ~Quarantined(e) THEN 0 ELSE attempts[e]]

(* Mutant: a page is applied and the cursor is not moved. *)
ApplyPage_CursorStays(frame) ==
    /\ settled' = settled \cup frame.events
    /\ attempts' = Forgiven(frame.events)
    /\ UNCHANGED cursor

ApplyPage(frame) ==
    /\ settled' = settled \cup frame.events
    /\ attempts' = Forgiven(frame.events)
    /\ cursor' = Later(cursor, frame.next)

ApplyPartOf(frame) ==
    /\ failures < MaxFailures
    /\ failures' = failures + 1
    /\ \E bad \in {e \in frame.events : ~Quarantined(e)} :
          /\ attempts' = [Forgiven(frame.events) EXCEPT ![bad] = attempts[bad] + 1]
          /\ IF attempts[bad] + 1 = MaxDecryptRetries
             THEN /\ settled' = settled \cup frame.events
                  /\ cursor' = Later(cursor, frame.next)
             ELSE /\ settled' = settled \cup (frame.events \ {bad})
                  /\ UNCHANGED cursor

ApplyNothing ==
    /\ failures < MaxFailures
    /\ failures' = failures + 1
    /\ UNCHANGED client

-------------------------------------------------------------------------------
(* connectRealtime: the hello carries the cursor of that moment. *)
Connect ==
    /\ session = "closed"
    /\ session' = "hello"
    /\ since' = cursor
    /\ UNCHANGED <<server, channel, lagged, inbox, chained, client, queue,
                   request, faults>>

(* realtime_session subscribes before it reads the snapshot. *)
AcceptHello ==
    /\ session = "hello"
    /\ session' = "subscribed"
    /\ channel' = <<>> /\ lagged' = FALSE
    /\ UNCHANGED <<server, since, inbox, chained, client, queue, request, faults>>

Snapshot ==
    /\ session = "subscribed"
    /\ IF TornAt(since)
       THEN session' = "reading" /\ UNCHANGED inbox
       ELSE /\ session' = "streaming"
            /\ inbox' = Append(inbox, SyncFrame(Page(since), PageEnd(since)))
    /\ UNCHANGED <<server, since, channel, lagged, chained, client, queue,
                   request, faults>>

SnapshotCursor ==
    /\ session = "reading"
    /\ session' = "streaming"
    /\ inbox' = Append(inbox, SyncFrame({}, last))
    /\ UNCHANGED <<server, since, channel, lagged, chained, client, queue,
                   request, faults>>

Forward ==
    /\ session = "streaming" /\ ~lagged /\ channel # <<>>
    /\ inbox' = Append(inbox, EventFrame(Head(channel)))
    /\ channel' = Tail(channel)
    /\ UNCHANGED <<server, session, since, lagged, chained, client, queue,
                   request, faults>>

(* RecvError::Lagged: a snapshot from 256 events back; the receiver goes   *)
(* on with the oldest event the channel still has.                         *)
LagSince == Later(0, last - ChannelCapacity)

RecoverFromLag ==
    /\ session = "streaming" /\ lagged
    /\ inbox' = Append(inbox, SyncFrame(Page(LagSince), PageEnd(LagSince)))
    /\ lagged' = FALSE
    /\ UNCHANGED <<server, session, since, channel, chained, client, queue,
                   request, faults>>

(* The connection is lost: a suffix of the frames never arrives; the       *)
(* client syncs (handleRealtimeClose).                                     *)
Drop ==
    /\ session # "closed" /\ drops < MaxDrops
    /\ drops' = drops + 1
    /\ session' = "closed" /\ channel' = <<>> /\ lagged' = FALSE
    /\ \E n \in 0..Len(inbox) : inbox' = SubSeq(inbox, 1, n)
    /\ RequestSync
    /\ UNCHANGED <<server, since, chained, client, queue, failures>>

(* Without a realtime session the client polls (startFallbackSync). *)
FallbackSync ==
    /\ session \in {"closed", "hello"} /\ http = "idle"
    /\ RequestSync
    /\ UNCHANGED <<server, connection, inbox, chained, client, queue, faults>>

-------------------------------------------------------------------------------
(* The server answers the sync request; the torn answer takes two steps.   *)
Answer ==
    /\ http = "requested"
    /\ IF TornAt(httpSince)
       THEN http' = "reading" /\ UNCHANGED answer
       ELSE /\ http' = "answered"
            /\ answer' = SyncFrame(Page(httpSince), PageEnd(httpSince))
    /\ UNCHANGED <<server, connection, inbox, chained, client, queue,
                   httpSince, httpQueued, faults>>

AnswerCursor ==
    /\ http = "reading"
    /\ http' = "answered"
    /\ answer' = SyncFrame({}, last)
    /\ UNCHANGED <<server, connection, inbox, chained, client, queue,
                   httpSince, httpQueued, faults>>

ReceiveAnswer ==
    /\ http = "answered"
    /\ \/ ApplyPage(answer) /\ UNCHANGED failures
       \/ ApplyPartOf(answer)
    /\ SyncEnds(cursor')
    /\ UNCHANGED <<server, connection, inbox, chained, drops>>

RequestFails ==
    /\ http \in {"requested", "reading", "answered"}
    /\ failures < MaxFailures
    /\ failures' = failures + 1
    /\ SyncEnds(cursor)
    /\ UNCHANGED <<server, connection, inbox, chained, client, drops>>

-------------------------------------------------------------------------------
(* Mutant: an event does not start the loop. *)
Started_Never(d) == d
Started(d) == IF d = "idle" THEN "running" ELSE d

(* The client's task chain handles one frame after the other; a snapshot's *)
(* task also waits until the queue has drained.                            *)
HandleSync ==
    /\ inbox # <<>> /\ ~chained /\ Head(inbox).kind = "sync"
    /\ inbox' = Tail(inbox)
    /\ \/ ApplyPage(Head(inbox)) /\ UNCHANGED failures
       \/ ApplyPartOf(Head(inbox))
       \/ ApplyNothing
    /\ chained' = TRUE
    /\ drain' = Started(drain)
    /\ UNCHANGED <<server, connection, pending, mark, request, drops>>

(* enqueue: an event the cursor has passed, or that is queued, is dropped. *)
HandleEvent ==
    /\ inbox # <<>> /\ ~chained /\ Head(inbox).kind = "event"
    /\ inbox' = Tail(inbox)
    /\ LET e == Head(inbox).next IN
       IF e <= cursor \/ e \in pending
       THEN UNCHANGED <<pending, drain>>
       ELSE pending' = pending \cup {e} /\ drain' = Started(drain)
    /\ UNCHANGED <<server, connection, chained, client, mark, request, faults>>

(* The drain loop takes the lowest queued event. *)
NextUp == Least(pending)

DrainEmpty ==
    /\ drain = "running" /\ pending = {}
    /\ drain' = "idle"
    /\ chained' = FALSE
    /\ UNCHANGED <<server, connection, inbox, client, pending, mark, request, faults>>

DrainOld ==
    /\ drain = "running" /\ pending # {} /\ NextUp <= cursor
    /\ pending' = pending \ {NextUp}
    /\ UNCHANGED <<server, connection, inbox, chained, client, drain, mark,
                   request, faults>>

(* Mutant: the loop takes any event past the cursor for the next one. *)
IsNext_Newer(e) == e > cursor
IsNext(e) == e = cursor + 1

(* Mutant: the loop gives up without asking for a sync. *)
Recover_NoSync ==
    /\ mark' = cursor
    /\ drain' = "idle"
    /\ UNCHANGED request

Recover ==
    /\ mark' = cursor
    /\ drain' = "recovering"
    /\ RequestSync

DrainGap ==
    /\ drain = "running" /\ pending # {} /\ NextUp > cursor /\ ~IsNext(NextUp)
    /\ Recover
    /\ UNCHANGED <<server, connection, inbox, chained, client, pending, faults>>

DrainNext ==
    /\ drain = "running" /\ pending # {} /\ NextUp > cursor /\ IsNext(NextUp)
    /\ drain' = "applying"
    /\ UNCHANGED <<server, connection, inbox, chained, client, pending, mark,
                   request, faults>>

(* applyRealtimeEvent: an event of a conversation the client does not know *)
(* waits for a sync that must bring both;                                  *)
UnknownConversation ==
    /\ drain = "running" /\ pending # {} /\ NextUp > cursor /\ IsNext(NextUp)
    /\ mark' = cursor
    /\ drain' = "learning"
    /\ RequestSync
    /\ UNCHANGED <<server, connection, inbox, chained, client, pending, faults>>

(* any other is applied, after awaits, *)
Applied ==
    /\ drain = "applying"
    /\ settled' = settled \cup {NextUp}
    /\ cursor' = Later(cursor, NextUp)
    /\ pending' = pending \ {NextUp}
    /\ drain' = "running"
    /\ UNCHANGED <<server, connection, inbox, chained, attempts, mark, request, faults>>

(* or it cannot be decrypted and the loop recovers. *)
NotApplied ==
    /\ drain = "applying"
    /\ failures < MaxFailures
    /\ failures' = failures + 1
    /\ Recover
    /\ UNCHANGED <<server, connection, inbox, chained, client, pending, drops>>

Learned ==
    /\ drain = "learned"
    /\ IF cursor > mark
       THEN /\ pending' = pending \ {NextUp}
            /\ cursor' = Later(cursor, NextUp)
            /\ drain' = "running"
            /\ UNCHANGED <<mark, request>>
       ELSE Recover /\ UNCHANGED <<pending, cursor>>
    /\ UNCHANGED <<server, connection, inbox, chained, settled, attempts, faults>>

(* A recovery that moved nothing ends the loop; the events stay queued.    *)
Recovered ==
    /\ drain = "recovered"
    /\ drain' = IF cursor = mark THEN "idle" ELSE "running"
    /\ chained' = IF cursor = mark THEN FALSE ELSE chained
    /\ UNCHANGED <<server, connection, inbox, client, pending, mark, request, faults>>

-------------------------------------------------------------------------------
(* Steps the scheduling guarantees: spawned tasks, timers and answers come *)
(* eventually; commits, deaths, drops and failures need not.               *)
SessionStep == AcceptHello \/ Snapshot \/ SnapshotCursor \/ Forward \/ RecoverFromLag
RequestStep == Answer \/ AnswerCursor \/ ReceiveAnswer
DrainStep == DrainEmpty \/ DrainOld \/ DrainGap \/ DrainNext \/ Learned \/ Recovered
ClientStep == HandleSync \/ HandleEvent

Next ==
    \/ Commit
    \/ \E e \in unpublished : Publish(e) \/ HandlerDies(e)
    \/ Connect \/ SessionStep \/ Drop \/ FallbackSync
    \/ RequestStep \/ RequestFails
    \/ ClientStep
    \/ DrainStep \/ Applied \/ NotApplied \/ UnknownConversation

Fairness ==
    /\ \A e \in 1..MaxLast : WF_vars(Publish(e))
    /\ WF_vars(Connect) /\ WF_vars(SessionStep) /\ WF_vars(FallbackSync)
    /\ WF_vars(RequestStep) /\ WF_vars(ClientStep)
    /\ WF_vars(DrainStep \/ Applied)

Spec == Init /\ [][Next]_vars
FairSpec == Spec /\ Fairness
-------------------------------------------------------------------------------
ServerTyped == last \in 0..MaxLast /\ unpublished \subseteq 1..last

ConnectionTyped ==
    /\ session \in {"closed", "hello", "subscribed", "reading", "streaming"}
    /\ since \in 0..last /\ channel \in Seq(1..last) /\ lagged \in BOOLEAN

InboxTyped ==
    /\ inbox \in Seq(Frame(last))
    /\ \A i \in DOMAIN inbox : inbox[i].kind = "event" => inbox[i].next # 0

ClientTyped ==
    /\ chained \in BOOLEAN /\ cursor \in 0..last /\ settled \subseteq 1..last
    /\ attempts \in [1..MaxLast -> 0..MaxDecryptRetries]

QueueTyped ==
    /\ pending \subseteq 1..last /\ mark \in 0..last
    /\ drain \in {"idle", "running", "recovering", "recovered", "applying", "learning",
                  "learned"}
    /\ drain \in {"applying", "learning", "learned"} => pending # {}

RequestTyped ==
    /\ http \in {"idle", "requested", "reading", "answered"}
    /\ httpSince \in 0..last /\ httpQueued \in BOOLEAN /\ answer \in Frame(last)

FaultsTyped == drops \in 0..MaxDrops /\ failures \in 0..MaxFailures

(* The values of the variables.  The bounds are not only types: no cursor  *)
(* on the wire or in the client runs ahead of the log, so the client never *)
(* asks for, or waits for, events after ones that do not exist yet.        *)
TypeOK ==
    /\ ServerTyped /\ ConnectionTyped /\ InboxTyped /\ ClientTyped
    /\ QueueTyped /\ RequestTyped /\ FaultsTyped

(* The cursor is all a client remembers of the events it has, and every    *)
(* request it makes starts there: an event the cursor passes without the   *)
(* client having applied it, or given up after MAX_DECRYPT_RETRIES, is     *)
(* never asked for again.                                                  *)
NoEventSkipped == 1..cursor \subseteq settled

(* The drain loop stops with an event past the cursor still queued only    *)
(* after a failure: an enqueue, a finished sync and the end of a recovery  *)
(* overlap, and none of them may leave the loop stopped believing another  *)
(* will start it.                                                          *)
NoLostWakeup == (drain = "idle" /\ \E e \in pending : e > cursor) => failures > 0

(* An event that is on its way to the client reaches it, whatever order    *)
(* the handlers published in and whatever never was published, unless the  *)
(* connection is lost or something fails.                                  *)
InFlight(e) ==
    \/ e \in pending
    \/ \E i \in DOMAIN inbox : inbox[i] = EventFrame(e)
    \/ session = "streaming" /\ \E i \in DOMAIN channel : channel[i] = e

InFlightArrives ==
    \A e \in 1..MaxLast :
        InFlight(e) ~> (e <= cursor \/ session = "closed" \/ failures > 0)

(* After a lost connection the client catches up with everything that was  *)
(* in the log by then, when that is no more than a page, whatever it had   *)
(* missed: no further event has to come.                                   *)
CatchesUpAfterDrop ==
    \A n \in 1..MaxLast :
        (session = "closed" /\ last = n /\ n - cursor <= PageSize)
            ~> (cursor >= n \/ failures > 0)

(* When messages of a sync cannot be decrypted, the client tells its user  *)
(* that it will try again, and how many attempts are left: a failed event  *)
(* is in the end applied, or given up after the last attempt.              *)
FailedIsRetried ==
    \A e \in 1..MaxLast : attempts[e] > 0 ~> e <= cursor
===============================================================================
