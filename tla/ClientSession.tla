---------------------------- MODULE ClientSession -----------------------------
(***************************************************************************)
(* The session of a signed-in profile in the desktop and in the mobile     *)
(* client (the session effect of desktop/src/App.tsx and mobile/App.tsx,   *)
(* with common/src/presence.ts, presence-lifecycle.ts and sync-queue.ts):  *)
(* whether it may be connected, its websocket, reconnect and fallback      *)
(* timers and heartbeat, its HTTP syncs, and the device keys without which *)
(* an answer cannot be applied.                                            *)
(*                                                                         *)
(* The three inputs appActive, visible and focused change together and are *)
(* the one variable front, which is also the foreground of the lifecycle.  *)
(* Delays are left out: a timer that is set may fire.  How frames are made *)
(* and queued is RealtimeStream's subject; here a frame says how far it    *)
(* reaches.                                                                *)
(***************************************************************************)
EXTENDS Naturals, Sequences, FiniteSets

CONSTANTS
    Platforms,     \* of "desktop", "mobile"
    PageSize,      \* MAX_SYNC_EVENTS
    MaxLast,       \* bound: events the account gets
    MaxMoves,      \* bound: changes of the window and of the network
    MaxFailures,   \* bound: lost sockets, failed requests, expired tokens
    MaxSessions    \* bound: sessions started

ASSUME SessionAssumption ==
    /\ Platforms \subseteq {"desktop", "mobile"} /\ PageSize \in Nat \ {0}
    /\ {MaxLast, MaxMoves, MaxFailures, MaxSessions} \subseteq Nat

VARIABLES
    platform,
    window,    \* the window has the focus, the app is in the foreground
    net,       \* the device is online
    notices,   \* changes of the two that the session has yet to hear of
    last,      \* the events of the account
    on,        \* the effect runs: ~cancelled
    front,     \* appActive, visible and focused as the session knows them
    online,    \* networkOnline as it knows it
    socket,    \* realtime: "none", "opening", "open", or "dead": open, but silent
    since,     \* the cursor its hello carries
    inbox,     \* frames of the socket not yet handled
    ready,     \* realtimeReady
    heartbeat, reconnect, fallback, \* its timers are set
    polling,   \* a fallback sync runs, and sets the timer again
    sync,      \* "idle", "asked", "answered", or "applying": awaits the keys
    again,     \* queued of the sync queue
    upTo,      \* how far the answer reaches
    bundle,    \* ownBundle: "none", "preparing", "waiting" (nextPrepareAt), "ready"
    frame,     \* the frame that awaits the keys, <<>>: none
    pending,   \* the events the realtime queue keeps
    recovering,\* its drain awaits a sync: <<the cursor before it>>, or <<>>
    partial,   \* the last answer was cut at a page, or is to be retried
    cacheDue,  \* the desktop client has yet to read its cache
    cursor,    \* the client's cursor
    moves, failures, sessions

outside == <<platform, window, net, notices, last, moves>>
link == <<socket, since, inbox, ready>>
queue == <<pending, recovering>>
timers == <<heartbeat, reconnect, fallback, polling>>
syncing == <<sync, again, upTo>>
keys == <<bundle, frame, cacheDue>>
vars == <<outside, on, front, online, link, timers, syncing, keys, queue, partial, cursor,
          failures, sessions>>
reading == <<queue, partial, cursor>>

Bigger(x, y) == IF x < y THEN y ELSE x

(* shouldKeepPresenceConnection                                            *)
Allowed == front /\ online
Live == on /\ Allowed

Init ==
    /\ platform \in Platforms
    /\ window \in BOOLEAN /\ net \in BOOLEAN /\ notices = <<>>
    /\ last = 0 /\ on = FALSE /\ front = FALSE /\ online = FALSE
    /\ socket = "none" /\ since = 0 /\ inbox = <<>> /\ ready = FALSE
    /\ pending = {} /\ recovering = <<>> /\ partial = FALSE
    /\ heartbeat = FALSE /\ reconnect = FALSE /\ fallback = FALSE /\ polling = FALSE
    /\ sync = "idle" /\ again = FALSE /\ upTo = 0
    /\ bundle = "none" /\ frame = <<>> /\ cacheDue = FALSE /\ cursor = 0
    /\ moves = 0 /\ failures = 0 /\ sessions = 0

-------------------------------------------------------------------------------
(* The sync queue: a sync asked for while one runs is run after it.        *)
Ask(asked) == IF ~asked THEN UNCHANGED <<sync, again>>
              ELSE IF sync = "idle" THEN sync' = "asked" /\ UNCHANGED again
              ELSE again' = TRUE /\ UNCHANGED sync

(* A socket that is let go is not heard of any more (realtime !== socket).  *)
LetGo == socket' = "none" /\ since' = 0 /\ inbox' = <<>>

(* suspendRealtime.  Mutant: the timer of the reconnect is left.           *)
Suspend_KeepsTimer ==
    /\ LetGo /\ ready' = FALSE
    /\ heartbeat' = FALSE /\ fallback' = FALSE
    /\ UNCHANGED <<reconnect, polling>>
Suspend ==
    /\ LetGo /\ ready' = FALSE
    /\ heartbeat' = FALSE /\ reconnect' = FALSE /\ fallback' = FALSE
    /\ UNCHANGED polling

(* resumeRealtime, with the connectRealtime it ends with.  Mutant: the     *)
(* heartbeat is not started again.                                         *)
OpenRealtime == IF socket = "none" THEN socket' = "opening" /\ since' = cursor
                ELSE UNCHANGED <<socket, since>>
Resume_NoHeartbeat ==
    /\ OpenRealtime
    /\ UNCHANGED <<inbox, ready, timers>>
Resume ==
    /\ OpenRealtime
    /\ heartbeat' = TRUE
    /\ UNCHANGED <<inbox, ready, reconnect, fallback, polling>>

(* handleRealtimeClose, for a socket that is gone.  Mutant: no polling     *)
(* meanwhile.                                                              *)
HandleClose_NoPolling ==
    /\ LetGo /\ ready' = FALSE
    /\ reconnect' = TRUE /\ UNCHANGED <<heartbeat, fallback, polling>>
HandleClose ==
    /\ LetGo /\ ready' = FALSE
    /\ reconnect' = TRUE /\ fallback' = TRUE /\ UNCHANGED <<heartbeat, polling>>

(* What follows a change of an input: the session is suspended, resumed    *)
(* (asking for a sync), or goes on.                                        *)
Follow ==
    IF ~(front' /\ online') THEN Suspend /\ Ask(FALSE)
    ELSE IF ~Allowed THEN Resume /\ Ask(TRUE)
    ELSE UNCHANGED <<link, timers, sync, again>>

-------------------------------------------------------------------------------
(* The world changes, and says so: focus and blur of the window (the state *)
(* of the app), online and offline.                                        *)
Move ==
    /\ moves < MaxMoves /\ moves' = moves + 1
    /\ \/ /\ window' = ~window /\ UNCHANGED net
          /\ notices' = IF on THEN Append(notices, <<"window", ~window>>) ELSE notices
       \/ /\ net' = ~net /\ UNCHANGED window
          /\ notices' = IF on THEN Append(notices, <<"net", ~net>>) ELSE notices
    /\ UNCHANGED <<platform, last, on, front, online, link, timers, syncing, keys, reading,
                   failures, sessions>>

(* handleWindowLifecycle, through the lifecycle, which ignores what it     *)
(* knows already.                                                          *)
WindowChanges ==
    /\ on /\ notices # <<>> /\ Head(notices)[1] = "window" /\ notices' = Tail(notices)
    /\ front' = Head(notices)[2] /\ UNCHANGED online
    /\ Follow
    /\ UNCHANGED <<platform, window, net, last, moves, on, upTo, keys, reading, failures, sessions>>
HandleWindow == platform = "desktop" /\ WindowChanges
(* The AppState listener, createRealtimeLifecycle.                         *)
AppStateChanges == platform = "mobile" /\ WindowChanges

(* handleOnline and handleOffline.                                         *)
NetworkChanges ==
    /\ on /\ notices # <<>> /\ Head(notices)[1] = "net" /\ notices' = Tail(notices)
    /\ online' = Head(notices)[2] /\ UNCHANGED front
    /\ Follow
    /\ UNCHANGED <<platform, window, net, last, moves, on, upTo, keys, reading, failures, sessions>>
HandleOnlineOffline == platform = "desktop" /\ NetworkChanges
(* applyNetworkState, of a NetInfo event.                                  *)
ApplyNetworkState == platform = "mobile" /\ NetworkChanges

(* What the session is told first: mobile fetches the state of the network.*)
(* Mutant: it does not.                                                    *)
FirstNotices_None == <<>>
FirstNotices == IF platform = "mobile" THEN <<<<"net", net>>>> ELSE <<>>

(* The effect runs: the closure's variables are new, the inputs are read   *)
(* (mobile assumes the network until NetInfo answers), and lifecycle.start *)
(* resumes the session.                                                    *)
StartSession ==
    /\ ~on /\ on' = TRUE /\ sessions < MaxSessions /\ sessions' = sessions + 1
    /\ front' = window
    /\ online' = IF platform = "mobile" THEN TRUE ELSE net
    /\ notices' = FirstNotices
    /\ bundle' = "none" /\ frame' = <<>> /\ cacheDue' = (platform = "desktop")
    /\ inbox' = <<>> /\ ready' = FALSE
    /\ reconnect' = FALSE /\ fallback' = FALSE /\ polling' = FALSE
    /\ again' = FALSE /\ upTo' = 0 /\ pending' = {} /\ recovering' = <<>> /\ partial' = FALSE
    /\ IF front' /\ online'
       THEN socket' = "opening" /\ since' = cursor /\ heartbeat' = TRUE /\ sync' = "asked"
       ELSE socket' = "none" /\ since' = 0 /\ heartbeat' = FALSE /\ sync' = "idle"
    /\ UNCHANGED <<platform, window, net, last, moves, cursor, failures>>

(* The clean-up of the effect: another profile, a new token, showAuth.     *)
StopSession ==
    /\ on /\ on' = FALSE /\ Suspend /\ front' = FALSE /\ notices' = <<>>
    /\ UNCHANGED <<platform, window, net, last, moves, online, syncing, keys, reading,
                   failures, sessions>>

(* The desktop client syncs once more when it has read its cache.          *)
CacheRead ==
    /\ cacheDue /\ on /\ cacheDue' = FALSE /\ Ask(Live)
    /\ UNCHANGED <<outside, on, front, online, link, timers, upTo, bundle, frame, reading,
                   failures, sessions>>

-------------------------------------------------------------------------------
(* The server: an event is committed, and pushed to a socket that is open. *)
Commit ==
    /\ last < MaxLast /\ last' = last + 1
    /\ inbox' = IF socket = "open" THEN Append(inbox, <<"event", last'>>) ELSE inbox
    /\ UNCHANGED <<platform, window, net, notices, moves, on, front, online, socket, since,
                   ready, timers, syncing, keys, reading, failures, sessions>>

(* The hello is answered with ready and a snapshot of one page.            *)
Page(c) == IF last > c + PageSize THEN c + PageSize ELSE last
ServerAccepts ==
    /\ socket = "opening" /\ net /\ socket' = "open" /\ since' = 0
    /\ inbox' = <<<<"ready", 0>>, <<"sync", Page(since)>>>> /\ partial' = (Page(since) < last)
    /\ UNCHANGED <<outside, on, front, online, ready, timers, syncing, keys, queue, cursor,
                   failures, sessions>>

(* The connection goes silent, what was on its way is lost.                *)
SocketDies ==
    /\ socket = "open" /\ socket' = "dead" /\ inbox' = <<>> /\ UNCHANGED since
    /\ failures < MaxFailures /\ failures' = failures + 1
    /\ UNCHANGED <<outside, on, front, online, ready, timers, syncing, keys,
                   reading, sessions>>

(* The socket is closed, or cannot be opened.                              *)
SocketCloses ==
    /\ \/ socket = "opening" /\ ~net /\ UNCHANGED failures
       \/ /\ socket \in {"opening", "open"} /\ failures < MaxFailures
          /\ failures' = failures + 1
    /\ HandleClose /\ Ask(TRUE)
    /\ UNCHANGED <<outside, on, front, online, upTo, keys, reading, sessions>>

(* The timers.                                                             *)
Reconnects ==
    /\ reconnect /\ reconnect' = FALSE
    /\ IF Live THEN OpenRealtime ELSE UNCHANGED <<socket, since>>
    /\ UNCHANGED <<outside, on, front, online, inbox, ready, heartbeat, fallback,
                   polling, syncing, keys, reading, failures, sessions>>

FallbackFires ==
    /\ fallback /\ fallback' = FALSE
    /\ polling' = (polling \/ (Live /\ ~ready)) /\ Ask(Live /\ ~ready)
    /\ UNCHANGED <<outside, on, front, online, link, heartbeat, reconnect, upTo, keys, reading,
                   failures, sessions>>

(* The interval of the heartbeat: a socket that was ready and is silent    *)
(* for PRESENCE_HEARTBEAT_TIMEOUT_MS is closed.                            *)
Heartbeat ==
    /\ heartbeat /\ Live /\ ready /\ socket = "dead"
    /\ HandleClose /\ Ask(TRUE)
    /\ UNCHANGED <<outside, on, front, online, upTo, keys, reading, failures, sessions>>

-------------------------------------------------------------------------------
(* ensureOwnBundle: the first to ask prepares the keys and waits for them; *)
(* with no keys, and while another prepares them or a failure is recent,   *)
(* the answer or frame is dropped.  Mutant: it returns nothing to those    *)
(* who did not prepare them.                                               *)
Prepares(b) == b = "none"
Holds_Fresh(b) == FALSE
Holds(b) == b = "ready"

(* An answer that reaches n is applied with the keys, unless a message of  *)
(* it cannot be decrypted and is to be retried: then c is no further.      *)
Apply(n, c) ==
    \/ c = Bigger(cursor, n) /\ UNCHANGED <<partial, failures>>
    \/ /\ c = cursor /\ n > cursor /\ partial' = TRUE
       /\ failures < MaxFailures /\ failures' = failures + 1

(* The drain of the realtime queue, with S in it, the cursor at c and the  *)
(* keys as b: it applies what follows the cursor, and then has nothing     *)
(* left, awaits the keys, or awaits a sync (recover), as for a gap.  (For  *)
(* an event that cannot be decrypted see RealtimeStream.)                  *)
Through(S, c) == c + Cardinality({n \in S : n > c /\ (c + 1)..n \subseteq S})
Drained(S, c, b) == IF Live /\ Holds(b) THEN Through(S, c) ELSE c
After(S, n) == {e \in S : e > n}
AwaitsKeys(S, n, b) == Live /\ n + 1 \in S /\ Prepares(b)
Recovers(S, n, b) == After(S, n) # {} /\ ~AwaitsKeys(S, n, b)
Drain(S, c, b) ==
    LET n == Drained(S, c, b) IN
    /\ cursor' = n /\ pending' = After(S, n)
    /\ frame' = IF AwaitsKeys(S, n, b) THEN <<"event", n + 1>> ELSE <<>>
    /\ bundle' = IF AwaitsKeys(S, n, b) THEN "preparing" ELSE b
    /\ recovering' = IF Recovers(S, n, b) THEN <<n>> ELSE <<>>
DrainAsks(S, c, b) == Recovers(S, Drained(S, c, b), b)

(* What is left to do when one more event is in the queue, or one answer   *)
(* was applied: nothing, while the drain awaits a sync.                    *)
Goes(S, c, b) ==
    IF recovering = <<>> THEN Drain(S, c, b) /\ Ask(DrainAsks(S, c, b))
    ELSE /\ cursor' = c /\ pending' = S /\ bundle' = b /\ frame' = <<>> /\ Ask(FALSE)
         /\ UNCHANGED recovering

(* A frame of the socket, in the order of queueRealtimeTask.               *)
HandleReady ==
    /\ Head(inbox)[1] = "ready" /\ ready' = TRUE /\ fallback' = FALSE
    /\ UNCHANGED <<frame, bundle, queue, partial, cursor, sync, again, failures>>
HandleSnapshot ==
    /\ Head(inbox)[1] = "sync" /\ UNCHANGED <<ready, fallback>>
    /\ \/ /\ Prepares(bundle) /\ frame' = Head(inbox) /\ bundle' = "preparing"
          /\ UNCHANGED <<queue, partial, cursor, sync, again, failures>>
       \/ /\ Holds(bundle)
          /\ \E c \in {cursor, Head(inbox)[2]} : Apply(Head(inbox)[2], c) /\ Goes(pending, c, bundle)
       \/ /\ ~Prepares(bundle) /\ ~Holds(bundle) /\ Goes(pending, cursor, bundle)
          /\ UNCHANGED <<partial, failures>>
HandleEvent ==
    /\ Head(inbox)[1] = "event" /\ UNCHANGED <<ready, fallback, partial, failures>>
    /\ IF Head(inbox)[2] <= cursor THEN UNCHANGED <<frame, bundle, queue, cursor, sync, again>>
       ELSE Goes(pending \cup {Head(inbox)[2]}, cursor, bundle)
TakeFrame(Handler) ==
    /\ on /\ frame = <<>> /\ inbox # <<>> /\ inbox' = Tail(inbox)
    /\ Handler
    /\ UNCHANGED <<outside, on, front, online, socket, since, heartbeat, reconnect, polling,
                   upTo, cacheDue, sessions>>
HandleFrame == TakeFrame(HandleReady \/ HandleSnapshot \/ HandleEvent)

(* The body of syncOnce: the request, its answer, and what is left to do   *)
(* when it has ended or has nothing to do, with the cursor at c and the    *)
(* keys as b: retryRealtime, or the drain that waited for the sync, which  *)
(* stops when there was no progress.                                       *)
Rest == <<outside, on, front, online, link, cacheDue, sessions>>
Resumes(c) == frame = <<>> /\ IF recovering = <<>> THEN Live ELSE ~again /\ <<c>> # recovering
FinishSync(c, b) ==
    LET asked == Resumes(c) /\ DrainAsks(pending, c, b)
        ends == ~again /\ ~(asked /\ recovering = <<>>)
    IN  /\ sync' = (IF again \/ asked THEN "asked" ELSE "idle") /\ again' = FALSE /\ upTo' = 0
        /\ polling' = (polling /\ ~ends)
        /\ fallback' = (fallback \/ (polling /\ ends /\ Live /\ ~ready))
        /\ UNCHANGED <<heartbeat, reconnect>>
        /\ IF Resumes(c) THEN Drain(pending, c, b)
           ELSE /\ cursor' = c /\ bundle' = b /\ UNCHANGED <<pending, frame>>
                /\ recovering' = IF again THEN recovering ELSE <<>>
NothingApplied == FinishSync(cursor, bundle) /\ UNCHANGED <<Rest, partial>>

SyncRead ==
    /\ on /\ sync = "asked" /\ Live /\ sync' = "answered" /\ upTo' = Page(cursor)
    /\ partial' = (Page(cursor) < last)
    /\ UNCHANGED <<Rest, timers, again, bundle, frame, queue, cursor, failures>>

(* The request fails; with an expired token showAuth ends the session.     *)
SyncFails ==
    /\ on /\ sync = "asked" /\ Live /\ NothingApplied
    /\ IF net THEN failures < MaxFailures /\ failures' = failures + 1
       ELSE UNCHANGED failures

SyncApplies ==
    /\ on /\ sync = "answered"
    /\ \/ /\ Live /\ Prepares(bundle) /\ sync' = "applying" /\ bundle' = "preparing"
          /\ UNCHANGED <<Rest, again, upTo, timers, frame, reading, failures>>
       \/ /\ Live /\ Holds(bundle) /\ UNCHANGED Rest
          /\ \E c \in {cursor, upTo} : Apply(upTo, c) /\ FinishSync(c, bundle)
       \/ ~(Live /\ (Prepares(bundle) \/ Holds(bundle))) /\ NothingApplied /\ UNCHANGED failures

SyncSkips ==
    /\ on /\ sync = "asked" /\ ~Live /\ NothingApplied /\ UNCHANGED failures

(* The keys are there; what waited for them is applied.                    *)
PrepareDone ==
    /\ on /\ bundle = "preparing" /\ UNCHANGED <<Rest>>
    /\ IF sync = "applying"
       THEN \E c \in {cursor, upTo} : FinishSync(c, "ready") /\ IF Live THEN Apply(upTo, c)
                                      ELSE c = cursor /\ UNCHANGED <<partial, failures>>
       ELSE /\ UNCHANGED <<upTo, timers>>
            /\ IF Live /\ frame[1] = "sync"
               THEN \E c \in {cursor, frame[2]} : Apply(frame[2], c) /\ Goes(pending, c, "ready")
               ELSE Goes(pending, cursor, "ready") /\ UNCHANGED <<partial, failures>>

(* They could not be had: nothing is applied, and nobody tries again for   *)
(* five seconds (WaitOver); a failed event asks for a sync.                *)
PrepareFails ==
    /\ on /\ bundle = "preparing" /\ UNCHANGED <<Rest, partial>>
    /\ failures < MaxFailures /\ failures' = failures + 1
    /\ IF sync = "applying" THEN FinishSync(cursor, "waiting")
       ELSE Goes(pending, cursor, "waiting") /\ UNCHANGED <<upTo, timers>>
WaitOver ==
    /\ on /\ bundle = "waiting" /\ bundle' = "none"
    /\ UNCHANGED <<Rest, timers, syncing, frame, reading, failures>>

-------------------------------------------------------------------------------
(* The mobile client has these handlers in a copy of its own.              *)
Desktop(Action) == platform = "desktop" /\ Action
Mobile(Action) == platform = "mobile" /\ Action

MobileStart == Mobile(StartSession)
MobileCleanup == Mobile(StopSession)
MobileReady == Mobile(TakeFrame(HandleReady))
MobileSnapshot == Mobile(TakeFrame(HandleSnapshot))
MobileEvent == Mobile(TakeFrame(HandleEvent))
MobileClose == Mobile(SocketCloses)
MobileReconnects == Mobile(Reconnects)
MobileFallback == Mobile(FallbackFires)
MobileHeartbeat == Mobile(Heartbeat)
MobileSync == Mobile(SyncRead)
MobileSyncInForeground == Mobile(SyncFails \/ SyncSkips)
MobileApply == Mobile(SyncApplies)
MobileEnsureBundle == Mobile(PrepareDone \/ PrepareFails \/ WaitOver)

World == Move \/ Commit \/ ServerAccepts \/ SocketDies
DesktopNext ==
    \/ HandleWindow \/ HandleOnlineOffline \/ CacheRead
    \/ Desktop(StartSession) \/ Desktop(StopSession) \/ Desktop(HandleFrame)
    \/ Desktop(SocketCloses) \/ Desktop(Reconnects)
    \/ Desktop(FallbackFires) \/ Desktop(Heartbeat)
    \/ Desktop(SyncRead) \/ Desktop(SyncFails) \/ Desktop(SyncSkips) \/ Desktop(SyncApplies)
    \/ Desktop(PrepareDone) \/ Desktop(PrepareFails) \/ Desktop(WaitOver)
MobileNext ==
    \/ AppStateChanges \/ ApplyNetworkState \/ MobileStart \/ MobileCleanup
    \/ MobileReady \/ MobileSnapshot \/ MobileEvent \/ MobileClose \/ MobileReconnects
    \/ MobileFallback \/ MobileHeartbeat \/ MobileSync \/ MobileSyncInForeground
    \/ MobileApply \/ MobileEnsureBundle
Next == World \/ DesktopNext \/ MobileNext
Spec == Init /\ [][Next]_vars

(* A server that is reached answers, frames and notices are handled, timers*)
(* fire and requests end; nobody has to sign in, to move or to write.      *)
Fairness ==
    /\ WF_vars(ServerAccepts) /\ WF_vars(SocketCloses /\ ~net)
    /\ WF_vars(HandleFrame) /\ WF_vars(WindowChanges) /\ WF_vars(NetworkChanges)
    /\ WF_vars(Reconnects) /\ WF_vars(FallbackFires) /\ WF_vars(Heartbeat)
    /\ WF_vars(SyncRead \/ (SyncFails /\ ~net)) /\ WF_vars(SyncApplies \/ SyncSkips)
    /\ WF_vars(PrepareDone) /\ WF_vars(WaitOver) /\ WF_vars(CacheRead)
FairSpec == Spec /\ Fairness

-------------------------------------------------------------------------------
(* Types, and the keys are prepared by one, who waits for them.            *)
TypeOK ==
    /\ platform \in Platforms /\ {window, net, on, front, online, ready, heartbeat, reconnect,
        fallback, polling, again, cacheDue, partial} \subseteq BOOLEAN
    /\ {last, cursor, upTo, moves, failures, sessions} \subseteq Nat
    /\ upTo <= last /\ cursor <= last /\ since <= last /\ pending \subseteq 1..last
    /\ socket \in {"none", "opening", "open", "dead"}
    /\ sync \in {"idle", "asked", "answered", "applying"}
    /\ bundle \in {"none", "preparing", "waiting", "ready"}
    /\ on => IF bundle = "preparing" THEN (sync = "applying") = (frame = <<>>)
             ELSE sync # "applying" /\ frame = <<>>

(* A session that is over, in the background or offline keeps no socket    *)
(* and no timer, and does not count as ready: the account is not shown     *)
(* online by a client nobody looks at (suspendRealtime).                   *)
QuietWhenSuspended ==
    ~Live => /\ socket = "none" /\ inbox = <<>>
             /\ ~ready /\ ~heartbeat /\ ~reconnect /\ ~fallback

(* A session in the foreground always has a socket or a timer that will    *)
(* open one, watches over the socket, and polls while it waits.            *)
StaysConnected ==
    Live => /\ socket # "none" \/ reconnect
            /\ heartbeat
            /\ socket = "none" => fallback \/ polling

(* What the session believes of the window and the network is what they    *)
(* are, once it has heard of every change.                                 *)
PresenceFollows ==
    on /\ notices = <<>> => front = window /\ online = net

(* A connection that was ready and went silent is replaced by one that is  *)
(* ready, or the session rests.                                            *)
SilenceIsNoticed ==
    (socket = "dead" /\ ready) ~> \/ socket = "open" /\ ready
                                  \/ ~Live
                                  \/ socket = "dead" /\ ~ready

(* A socket opened when the keys are ready brings the client up to the     *)
(* account, through lost sockets and failed requests and over gaps, unless *)
(* the session rests, the connection goes silent before it is ready, or the*)
(* last answer was cut at a page or is to be retried.                      *)
SocketCatchesUp ==
    (socket = "opening" /\ bundle = "ready") ~>
        (cursor = last \/ partial \/ ~Live \/ (socket = "dead" /\ ~ready))

(* Connected and with nothing that fails, the client has seen every event: *)
(* "ready, then sync with the data after the cursor" (ENTER_PROTOCOL.md).  *)
CatchesUp ==
    (<>[](Live /\ failures = 0)) => []<>(cursor = last)
===============================================================================
