---------------------------- MODULE DesktopOutbox -----------------------------
(***************************************************************************)
(* The outbox of the desktop client (desktop/src/App.tsx) for one profile, *)
(* open in one or more tabs: the queue each tab holds in outboxRef and in  *)
(* React's state, the copy all of them share in localStorage, the requests *)
(* that send the queued messages, and the retries after a sync.            *)
(*                                                                         *)
(* An entry is [id, attempts, blocked, due]; due stands for nextAttemptAt  *)
(* not after the present.  setOutboxProfile writes the ref at once and the *)
(* state for the next render, whose effect saves it; a storage event of    *)
(* another tab changes the state only.                                     *)
(***************************************************************************)
EXTENDS Naturals, FiniteSets, Sequences, SequencesExt

CONSTANTS
    Tabs, Messages,
    OpenTabs,       \* the sets of tabs that may be open
    None,           \* no media operation
    SessionViews,   \* for each number of tabs: the sets of messages whose
                    \* conversation the closure of a session effect may hold
    MaxEntries,     \* MAX_OUTBOX_ENTRIES
    Files,          \* the messages that have files
    Limits          \* for each number of tabs: MAX_OUTBOX_ATTEMPTS, and the bounds
                    \* turns (reloads, sign-ins, cancelled uploads and clears),
                    \* requests (in flight at a time) and sockets (whether the
                    \* sessions get further than to poll)

ASSUME OutboxAssumption ==
    /\ MaxEntries \in Nat \ {0} /\ IsFiniteSet(Tabs)
    /\ Limits \in [1..Cardinality(Tabs) -> [attempts : Nat \ {0}, turns : Nat, requests : Nat, sockets : BOOLEAN]]
    /\ OpenTabs \subseteq (SUBSET Tabs) \ {{}}
    /\ SessionViews \in [1..Cardinality(Tabs) -> SUBSET SUBSET Messages] /\ Files \subseteq Messages

VARIABLES
    open,       \* the tabs that show the profile
    ref,        \* ref[t]: outboxRef.current of the profile
    state,      \* state[t]: outboxByProfile as last set
    dirty,      \* dirty[t]: the state was set and its effect has not run
    persisted,  \* persisted[t]: the profile is in persistedOutboxProfilesRef
    disk,       \* the profile's key of localStorage
    events,     \* the tabs with a storage event to handle
    signedIn,   \* signedIn[t]: ~showAuth, the session effect runs
    known,      \* known[t]: the messages whose conversation its closure holds
    polls,      \* the tabs whose session has no ready socket: it connects or polls
    requests,   \* sendMessageToConversation calls that await
    mediaOp,    \* mediaOp[t]: the message of mediaOperationRef.current
    used,       \* messages the user has written
    taken,      \* messages the outbox has taken
    server,     \* messages the server has
    failures,   \* failures[m]: failures of m while queued, up to MaxAttempts
    turns

vars == <<open, ref, state, dirty, persisted, disk, events, signedIn, known, polls,
          requests, mediaOp, used, taken, server, failures, turns>>
request == <<requests, mediaOp, used, server, failures>>
storage == <<disk, persisted, events>>
session == <<signedIn, known, polls>>

MaxAttempts == Limits[Cardinality(open)].attempts
MaxTurns == Limits[Cardinality(open)].turns
MaxRequests == Limits[Cardinality(open)].requests

NewEntry(m) == [id |-> m, attempts |-> 0, blocked |-> FALSE, due |-> TRUE]
IdsOf(queue) == {queue[i].id : i \in DOMAIN queue}
Retrying(t, m) == \E r \in requests : r.tab = t /\ r.id = m /\ r.kind = "retry"

(* The entries at a set of positions, in their order (filter).             *)
Nth(places, n) == CHOOSE i \in places : Cardinality({j \in places : j <= i}) = n
Only(queue, places) == [n \in 1..Cardinality(places) |-> queue[Nth(places, n)]]

(* sanitizeOutbox, on a queue that was written by the code.                *)
SanitizeOutbox(queue) ==
    LET left == Only(queue, {i \in DOMAIN queue : queue[i].attempts < MaxAttempts})
    IN  SubSeq(left, IF Len(left) > MaxEntries THEN Len(left) - MaxEntries + 1 ELSE 1,
               Len(left))

(* readOutboxProfile                                                       *)
ReadOutboxProfile == SanitizeOutbox(disk)

Init ==
    /\ open \in OpenTabs
    /\ ref = [t \in Tabs |-> <<>>] /\ state = ref
    /\ dirty = [t \in Tabs |-> FALSE] /\ persisted = dirty
    /\ disk = <<>> /\ events = {}
    /\ signedIn = [t \in Tabs |-> TRUE]
    /\ \E view \in SessionViews[Cardinality(open)] : known = [t \in Tabs |-> view]
    /\ polls = Tabs
    /\ requests = {} /\ mediaOp = [t \in Tabs |-> None]
    /\ used = {} /\ taken = {} /\ server = {}
    /\ failures = [m \in Messages |-> 0] /\ turns = 0

(* setOutboxProfile                                                        *)
SetOutboxProfile(t, queue) ==
    /\ ref' = [ref EXCEPT ![t] = queue]
    /\ state' = [state EXCEPT ![t] = queue]
    /\ dirty' = [dirty EXCEPT ![t] = TRUE]

Turn == turns < MaxTurns /\ turns' = turns + 1
Untouched == UNCHANGED <<ref, state, dirty>>

(* queueOutbox: FALSE (nothing is enabled) when the queue is full.         *)
QueueOutbox(t, m) ==
    IF m \in IdsOf(ref[t]) THEN Untouched /\ UNCHANGED taken
    ELSE /\ Len(ref[t]) < MaxEntries
         /\ SetOutboxProfile(t, Append(ref[t], NewEntry(m)))
         /\ taken' = taken \cup {m}

(* removeOutbox                                                            *)
Without(queue, m) == Only(queue, {i \in DOMAIN queue : queue[i].id # m})
RemoveOutbox(t, m) ==
    IF m \in IdsOf(ref[t]) THEN SetOutboxProfile(t, Without(ref[t], m)) ELSE Untouched

(* failOutbox.  Mutant: a blocked entry is dropped.                        *)
UsedUp_Blocked(e, blocked) == blocked \/ e.attempts >= MaxAttempts
UsedUp(e, blocked) == ~blocked /\ e.attempts >= MaxAttempts
Failed(queue, m, blocked) ==
    LET i == CHOOSE j \in DOMAIN queue : queue[j].id = m
        e == [queue[i] EXCEPT !.attempts = @ + 1, !.due = FALSE,
                              !.blocked = @ \/ blocked]
    IN  IF UsedUp(e, blocked) THEN Without(queue, m)
        ELSE [queue EXCEPT ![i] = e]
FailOutbox(t, m, blocked) ==
    IF m \in IdsOf(ref[t]) THEN SetOutboxProfile(t, Failed(ref[t], m, blocked)) ELSE Untouched
OneMore(t, m) == failures' = [failures EXCEPT ![m] =
    IF m \in IdsOf(ref[t]) /\ @ < MaxAttempts THEN @ + 1 ELSE @]

-------------------------------------------------------------------------------
Request(t, m, kind, media) == [tab |-> t, id |-> m, kind |-> kind, media |-> media]
Superseded(r) == r.media /\ mediaOp[r.tab] # r.id

(* sendMessageToConversation of a new message without files, in the open   *)
(* conversation: queued at once, then sent.                                *)
Send(t, m) ==
    /\ t \in open /\ signedIn[t] /\ m \notin used \cup Files /\ QueueOutbox(t, m)
    /\ used' = used \cup {m}
    /\ requests' = requests \cup {Request(t, m, "first", FALSE)}
    /\ UNCHANGED <<open, storage, session, mediaOp, server, failures, turns>>

(* ... with files: they are uploaded before the message is queued, and the *)
(* upload of an earlier message is aborted.                                *)
SendMedia(t, m) ==
    /\ t \in open /\ signedIn[t] /\ m \in Files \ used /\ Len(ref[t]) < MaxEntries
    /\ used' = used \cup {m} /\ mediaOp' = [mediaOp EXCEPT ![t] = m]
    /\ requests' = {r \in requests : r.tab # t \/ r.kind # "upload"}
                   \cup {Request(t, m, "upload", TRUE)}
    /\ UNCHANGED <<open, storage, session, taken, server, failures, turns>>
    /\ Untouched

(* The upload ends: the message is queued, unless the queue has filled up  *)
(* meanwhile (OUTBOX_FULL).  Or it fails, and nothing was queued.          *)
Uploaded(r) ==
    /\ r \in requests /\ r.kind = "upload"
    /\ \/ /\ QueueOutbox(r.tab, r.id)
          /\ requests' = (requests \ {r}) \cup {[r EXCEPT !.kind = "first"]}
       \/ requests' = requests \ {r} /\ Untouched /\ UNCHANGED taken
    /\ UNCHANGED <<open, storage, session, mediaOp, used, server, failures, turns>>

(* cancelMediaOperation                                                    *)
CancelMediaOperation(t) ==
    /\ mediaOp[t] # None /\ Turn
    /\ mediaOp' = [mediaOp EXCEPT ![t] = None]
    /\ requests' = {r \in requests : r.tab # t \/ r.kind # "upload"}
    /\ UNCHANGED <<open, storage, session, used, taken, server, failures>>
    /\ Untouched

(* The server accepts the message and the answer arrives.                  *)
Accepted(r) ==
    /\ r \in requests /\ r.kind # "upload"
    /\ requests' = requests \ {r} /\ server' = server \cup {r.id}
    /\ RemoveOutbox(r.tab, r.id)
    /\ UNCHANGED <<open, storage, session, mediaOp, used, taken, failures, turns>>

(* The request fails, before or after the server has stored the message.   *)
(* A media operation that was superseded leaves its entry as it is.        *)
RequestFailed(r) ==
    /\ r \in requests /\ r.kind # "upload"
    /\ requests' = requests \ {r} /\ server' \in {server, server \cup {r.id}}
    /\ IF Superseded(r) THEN Untouched ELSE FailOutbox(r.tab, r.id, FALSE)
    /\ OneMore(r.tab, r.id)
    /\ UNCHANGED <<open, storage, session, mediaOp, used, taken, turns>>

(* The session has expired: the entry is blocked until the next sign-in.   *)
Unauthorized(r) ==
    /\ r \in requests /\ r.kind # "upload" /\ ~Superseded(r)
    /\ requests' = requests \ {r}
    /\ FailOutbox(r.tab, r.id, TRUE) /\ OneMore(r.tab, r.id)
    /\ signedIn' = [signedIn EXCEPT ![r.tab] = FALSE]
    /\ UNCHANGED <<open, storage, known, polls, mediaOp, used, taken, server, turns>>

(* retryOutboxForProfile, after a sync of the session, which runs with the *)
(* conversations of the render its effect belongs to; a message of another *)
(* conversation is removed.                                                *)
(* Mutant: the last attempt is never made.                                 *)
Ready_LastSkipped(t) ==
    {e \in Range(ref[t]) : /\ ~e.blocked /\ e.attempts < MaxAttempts - 1 /\ e.due
                           /\ ~Retrying(t, e.id)}
Ready(t) == {e \in Range(ref[t]) : ~e.blocked /\ e.attempts < MaxAttempts /\ e.due
                                   /\ ~Retrying(t, e.id)}
Retries(t) ==
    LET ids == {e.id : e \in Ready(t)}
        left == Only(ref[t], {i \in DOMAIN ref[t] : ref[t][i].id \notin ids \ known[t]})
    IN  /\ t \in open /\ signedIn[t]
        /\ requests' = requests \cup {Request(t, m, "retry", FALSE) : m \in ids \cap known[t]}
        /\ Cardinality(requests') <= MaxRequests
        /\ IF ids \subseteq known[t] THEN Untouched ELSE SetOutboxProfile(t, left)
        /\ UNCHANGED <<open, storage, signedIn, known, mediaOp, used, taken, server,
                       failures, turns>>

(* What makes a session sync: its start and, when its socket is not ready  *)
(* but closes, the timer of startFallbackSync; or an event that is pushed, *)
(* the window that comes to the front, a lost socket, at any time.         *)
RetryOutbox(t) == Ready(t) # {} /\ Retries(t) /\ UNCHANGED polls

(* The socket is ready, which stops that timer, and its snapshot applied.  *)
(* (A session that is suspended has no timer and no event either.)         *)
HasSocket == Limits[Cardinality(open)].sockets
SocketReady(t) == t \in polls /\ HasSocket /\ polls' = polls \ {t} /\ Retries(t)
(* handleRealtimeClose, or resumeRealtime.                                 *)
SocketLost(t) ==
    /\ t \in open \ polls /\ signedIn[t] /\ HasSocket /\ polls' = polls \cup {t}
    /\ UNCHANGED <<open, storage, signedIn, known, request, taken, turns>> /\ Untouched

-------------------------------------------------------------------------------
(* The effect on outboxByProfile: the ref and localStorage follow the      *)
(* state; the other tabs hear of a change.                                 *)
Render(t) ==
    /\ dirty[t] /\ dirty' = [dirty EXCEPT ![t] = FALSE]
    /\ ref' = [ref EXCEPT ![t] = state[t]]
    /\ persisted' = [persisted EXCEPT ![t] = state[t] # <<>>]
    /\ disk' = IF state[t] = <<>> /\ ~persisted[t] THEN disk ELSE state[t]
    /\ events' = IF disk' = disk THEN events ELSE events \cup (open \ {t})
    /\ UNCHANGED <<open, state, session, request, taken, turns>>

(* handleStorage reads the key as it is by now.  Mutant: a queue that      *)
(* another tab has emptied is ignored.                                     *)
HandleStorage_KeepsOld(t) ==
    /\ t \in events /\ events' = events \ {t}
    /\ state' = [state EXCEPT ![t] = IF disk = <<>> THEN @ ELSE ReadOutboxProfile]
    /\ dirty' = [dirty EXCEPT ![t] = @ \/ disk # <<>>]
    /\ UNCHANGED <<open, ref, disk, persisted, session, request, taken, turns>>
HandleStorage(t) ==
    /\ t \in events /\ events' = events \ {t}
    /\ state' = [state EXCEPT ![t] = ReadOutboxProfile]
    /\ dirty' = [dirty EXCEPT ![t] = @ \/ state'[t] # <<>> \/ state[t] # <<>>]
    /\ UNCHANGED <<open, ref, disk, persisted, session, request, taken, turns>>

(* The retry delay of an entry is over, in every copy of it.               *)
Due(queue, m) == [i \in DOMAIN queue |->
    IF queue[i].id = m /\ ~queue[i].blocked THEN [queue[i] EXCEPT !.due = TRUE] ELSE queue[i]]
BecomesDue(m) ==
    /\ \E t \in open : \E e \in Range(ref[t]) : e.id = m /\ ~e.due /\ ~e.blocked
    /\ ref' = [s \in Tabs |-> Due(ref[s], m)] /\ state' = [s \in Tabs |-> Due(state[s], m)]
    /\ disk' = Due(disk, m)
    /\ UNCHANGED <<open, dirty, persisted, events, session, request, taken, turns>>

(* addProfile: the blocked entries are freed, and a new session effect     *)
(* runs, with the conversations of that render.                            *)
SignIn(t) ==
    /\ t \in open /\ ~signedIn[t] /\ Turn
    /\ signedIn' = [signedIn EXCEPT ![t] = TRUE]
    /\ known' \in {[known EXCEPT ![t] = view] : view \in SessionViews[Cardinality(open)]}
    /\ polls' = polls \cup {t}
    /\ IF \E e \in Range(ref[t]) : e.blocked
       THEN SetOutboxProfile(t, [i \in DOMAIN ref[t] |-> NewEntry(ref[t][i].id)])
       ELSE Untouched
    /\ UNCHANGED <<open, storage, request, taken>>

(* clearActiveOutbox                                                       *)
ClearActiveOutbox(t) ==
    /\ t \in open /\ ref[t] # <<>> /\ Turn /\ SetOutboxProfile(t, <<>>)
    /\ UNCHANGED <<open, storage, session, request, taken>>

(* The tab is reloaded (readOutbox): what its effect had not saved is gone *)
(* and its requests end, heard or not by the server.                       *)
Reload(t) ==
    /\ t \in open /\ Turn
    /\ ref' = [ref EXCEPT ![t] = ReadOutboxProfile]
    /\ state' = [state EXCEPT ![t] = ReadOutboxProfile]
    /\ dirty' = [dirty EXCEPT ![t] = FALSE]
    /\ persisted' = [persisted EXCEPT ![t] = ReadOutboxProfile # <<>>]
    /\ requests' = {r \in requests : r.tab # t}
    /\ \E heard \in SUBSET {r.id : r \in {q \in requests : q.tab = t /\ q.kind # "upload"}} :
          server' = server \cup heard
    /\ mediaOp' = [mediaOp EXCEPT ![t] = None]
    /\ signedIn' = [signedIn EXCEPT ![t] = TRUE]
    /\ known' \in {[known EXCEPT ![t] = view] : view \in SessionViews[Cardinality(open)]}
    /\ polls' = polls \cup {t}
    /\ events' = events \ {t}
    /\ UNCHANGED <<open, disk, used, taken, failures>>

Next ==
    \/ \E t \in Tabs : \/ RetryOutbox(t) \/ Render(t) \/ HandleStorage(t)
                       \/ SignIn(t) \/ ClearActiveOutbox(t) \/ CancelMediaOperation(t)
                       \/ Reload(t)
                       \/ SocketReady(t) \/ SocketLost(t)
                       \/ \E m \in Messages : Send(t, m) \/ SendMedia(t, m)
    \/ \E m \in Messages : BecomesDue(m)
    \/ \E r \in requests : Uploaded(r) \/ Accepted(r) \/ RequestFailed(r) \/ Unauthorized(r)

(* Renders, storage events and timers come, a request ends, and a session  *)
(* that goes on polling is answered in the end.  Nothing else makes a      *)
(* session sync for certain.                                               *)
Polls(t) == t \in polls /\ RetryOutbox(t)
Fairness ==
    /\ \A t \in Tabs : WF_vars(Render(t)) /\ WF_vars(HandleStorage(t)) /\ WF_vars(Polls(t))
    /\ \A m \in Messages : WF_vars(BecomesDue(m))
    /\ WF_vars(\E r \in requests : Accepted(r) \/ RequestFailed(r) \/ Unauthorized(r))

Spec == Init /\ [][Next]_vars
FairSpec == Spec /\ Fairness

-------------------------------------------------------------------------------
Entries == [id : Messages, attempts : 0..(MaxAttempts - 1), blocked : BOOLEAN, due : BOOLEAN]
           \cup [id : Messages, attempts : Nat, blocked : {TRUE}, due : BOOLEAN]
IsQueue(queue) ==
    /\ Len(queue) <= MaxEntries /\ Range(queue) \subseteq Entries
    /\ Cardinality(IdsOf(queue)) = Len(queue)

(* Every copy of the queue is a queue: no message twice, no more than      *)
(* MaxEntries, no entry that has used up its attempts.                     *)
TypeOK ==
    /\ \A t \in Tabs : IsQueue(ref[t]) /\ IsQueue(state[t])
    /\ IsQueue(disk)
    /\ requests \subseteq [tab : Tabs, id : Messages, kind : {"upload", "first", "retry"},
                           media : BOOLEAN]
    /\ taken \subseteq used /\ server \subseteq used /\ polls \subseteq Tabs

(* With all tabs rendered and every storage event handled, no two tabs     *)
(* hold different queues: whole-list writes of two tabs can lose an entry, *)
(* but a tab whose queue is not empty shows the one that is saved.         *)
TabsAgree ==
    (events = {} /\ \A t \in open : ~dirty[t])
        => \A t \in open : /\ SanitizeOutbox(ref[t]) \in {<<>>, ReadOutboxProfile}
                            /\ state[t] = ref[t]

(* In a single tab whose session goes on polling a queued message leaves   *)
(* the queue (sent, given up or removed), unless a 401 blocks it.  Two tabs*)
(* that adopt each other's list could keep it away from every retry, and   *)
(* with a ready socket nothing is certain to retry it (SentOnceBack).      *)
Waits(m) == /\ Cardinality(open) = 1
            /\ \E t \in open : /\ signedIn[t]
                              /\ \E e \in Range(ref[t]) : e.id = m /\ ~e.blocked
QueueDrains == \A m \in Messages : Waits(m) ~> ~Waits(m) \/ polls \cap open = {}

(* "Сообщение сохранено локально. Повторю отправку после восстановления    *)
(* соединения." (App.tsx): with the connection restored, too.              *)
SentOnceBack == \A m \in Messages : Waits(m) ~> ~Waits(m)

(* In a single tab the outbox keeps its promise (OutboxPromise).           *)
Departed(m) == IF m \in server THEN "served"
               ELSE IF failures[m] >= MaxAttempts THEN "givenUp" ELSE "discarded"
Phase ==
    [m \in Messages |->
        IF Cardinality(open) > 1 \/ m \notin taken THEN "new"
        ELSE IF \E t \in open : m \in IdsOf(state[t]) THEN "kept" ELSE Departed(m)]
Closed == {m \in Messages : \E t \in open : m \notin known[t]}
Promise == INSTANCE OutboxPromise WITH phase <- Phase, saved <- IdsOf(ReadOutboxProfile), closed <- Closed
KeepsPromise == Promise!Spec

(* "Сообщение сохранено локально. Повторю отправку после восстановления    *)
(* соединения." (App.tsx): a queued message stays until the server has it, *)
(* its attempts are used up or the user clears the queue.                  *)
SavedIsKept ==
    [][\A t \in open, m \in Messages :
          failures[m] > 0 /\ m \in IdsOf(ref[t]) /\ m \notin IdsOf(ref'[t])
              => \/ m \in server' \/ failures'[m] >= MaxAttempts
                 \/ ClearActiveOutbox(t) \/ Reload(t)]_vars
===============================================================================
