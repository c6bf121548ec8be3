----------------------------- MODULE ClientCache ------------------------------
(***************************************************************************)
(* What the clients keep of an account's messages across restarts, and the *)
(* cursor that says from where to ask the server for more.                 *)
(*                                                                         *)
(* desktop: one record of messages and cursor, written a moment after a    *)
(* change to localStorage and, in a queue, to IndexedDB                    *)
(* (lib/message-cache.ts); another tab writes them too.                    *)
(* mobile: messages and cursors under keys of their own in AsyncStorage,   *)
(* written by two effects without awaiting either (App.tsx).               *)
(*                                                                         *)
(* A message is the number of its event; one conversation stands for all,  *)
(* so the limits per conversation and in total are one.                    *)
(***************************************************************************)
EXTENDS Naturals, Sequences, FiniteSets, FiniteSetsExt

CONSTANTS
    Platforms,     \* of "desktop", "mobile"
    Limits,        \* of the cache policies; 0: disabled
    MemoryLimit,   \* messages the mobile client keeps in memory: the standard policy
    MaxLast, MaxWrites, MaxRuns, MaxClears, MaxPending \* bounds

CacheAssumption ==
    /\ Platforms \subseteq {"desktop", "mobile"}
    /\ MemoryLimit \in Nat \ {0} /\ Limits \subseteq 0..MemoryLimit
    /\ {MaxLast, MaxWrites, MaxRuns, MaxClears, MaxPending} \subseteq Nat

VARIABLES
    platform, limit, last,
    running, signedIn,
    messages,   \* messagesByProfile of the profile
    cursor,     \* syncCursors of it
    ref,        \* syncCursorsRef of it
    asks,       \* the cursor of the session
    loading,    \* the session has yet to hear from IndexedDB
    local,      \* what it will hear: localStorage's record, or IndexedDB's
    stale,      \* a deletion is queued, or the memory has changed, meanwhile
    request,    \* <<from, to>> of the answer on its way, or <<>>
    dirty,      \* a change waits for the timer of the cache
    skip,       \* skipNextCacheWriteRef
    recovered,  \* the profile is in syncRecoveryProfiles
    stored,     \* the record in localStorage; mobile: the two keys
    indexed,    \* the record in IndexedDB
    writes,     \* writes to IndexedDB or AsyncStorage, in their order
    clock, runs, clears,
    cleared,    \* history: the cache was cleared under a running session
    gone,       \* history: cleared or removed, and nothing has come since
    overtaken   \* history: such an answer has replaced the memory

session == <<asks, loading, local, stale, request>>
memory == <<messages, cursor, ref>>
disk == <<stored, indexed, writes, clock>>
flags == <<dirty, skip, recovered>>
app == <<platform, limit, running, signedIn, runs>>
history == <<clears, cleared, gone, overtaken>>
vars == <<app, last, memory, session, flags, disk, history>>

Bigger(x, y) == IF x < y THEN y ELSE x
Nothing == [messages |-> {}, cursor |-> 0, at |-> 0]

(* limitMessageList: the most recent ones.                                 *)
Recent(S, n) == {m \in S : Cardinality({x \in S : x > m}) < n}
Exceeds(S) == Cardinality(S) > limit

(* parseCache and writeMessageCache: a record that is cut has no cursor.   *)
Cut(S, c) == IF Exceeds(S) THEN 0 ELSE c
Record(S, c, at) == [messages |-> Recent(S, limit), cursor |-> Cut(S, c), at |-> at]
ParseCache(r) == Record(r.messages, r.cursor, r.at)
ReadCache == IF limit = 0 THEN Nothing ELSE ParseCache(stored)
(* readMessageCacheAsync, with what it has found.                          *)
Answer == IF limit = 0 \/ local = Nothing THEN Nothing ELSE ParseCache(local)

Init ==
    /\ platform \in Platforms /\ limit \in Limits /\ last = 0
    /\ running = FALSE /\ signedIn = TRUE
    /\ messages = {} /\ cursor = 0 /\ ref = 0
    /\ asks = 0 /\ loading = FALSE /\ local = Nothing /\ stale = FALSE /\ request = <<>>
    /\ dirty = FALSE /\ skip = FALSE /\ recovered = FALSE
    /\ stored = Nothing /\ indexed = Nothing /\ writes = <<>>
    /\ clock = 0 /\ runs = 0 /\ clears = 0 /\ cleared = FALSE /\ gone = FALSE
    /\ overtaken = FALSE

-------------------------------------------------------------------------------
(* The session effect starts: it goes on from syncCursorsRef; mobile asks  *)
(* once per run for everything when it has a cursor and no messages.       *)
Recovers(S, c) == platform = "mobile" /\ c > 0 /\ S = {} /\ ~recovered
StartsSession(S, c) ==
    /\ recovered' = (recovered \/ Recovers(S, c))
    /\ ref' = IF Recovers(S, c) THEN 0 ELSE c
    /\ asks' = ref' /\ loading' = (platform = "desktop") /\ request' = <<>>
    /\ local' = IF loading' THEN stored' ELSE Nothing
    /\ stale' = (loading' /\ stored' = Nothing /\ writes' # <<>>)
EndsSession ==
    asks' = 0 /\ loading' = FALSE /\ local' = Nothing /\ stale' = FALSE /\ request' = <<>>

(* The client starts: useState and, on mobile, the hydration.              *)
StartDesktop ==
    /\ platform = "desktop" /\ messages' = ReadCache.messages /\ cursor' = ReadCache.cursor
    /\ UNCHANGED <<disk>>
StartMobile ==
    /\ platform = "mobile"
    /\ messages' = Recent(stored.messages, limit) /\ cursor' = stored.cursor
    /\ UNCHANGED <<disk>>
Start ==
    /\ ~running /\ running' = TRUE /\ runs < MaxRuns /\ runs' = runs + 1
    /\ StartDesktop \/ StartMobile
    /\ IF signedIn THEN StartsSession(messages', cursor')
       ELSE EndsSession /\ ref' = cursor' /\ UNCHANGED recovered
    /\ UNCHANGED <<platform, limit, signedIn, last, dirty, skip, history>>

(* The session reads IndexedDB, without waiting for what is queued to be   *)
(* written there, and prefers its record unless it is the older one.       *)
ReadIndexed ==
    /\ running /\ signedIn /\ loading /\ indexed # Nothing /\ indexed.at >= local.at
    /\ local' = indexed
    /\ UNCHANGED <<app, last, memory, asks, loading, stale, request, flags, disk, history>>

(* It hears of it, at any time, and replaces the messages.                 *)
LoadIndexed ==
    /\ running /\ signedIn /\ loading /\ loading' = FALSE /\ local' = Nothing /\ stale' = FALSE
    /\ IF Answer = Nothing THEN UNCHANGED <<memory, asks, dirty, overtaken>>
       ELSE /\ messages' = Answer.messages /\ UNCHANGED cursor
            /\ asks' = Bigger(asks, Answer.cursor) /\ ref' = Bigger(ref, asks')
            /\ dirty' = TRUE /\ overtaken' = (overtaken \/ stale)
    /\ UNCHANGED <<app, last, request, skip, recovered, disk, clears, cleared, gone>>
Room == Len(writes) <= MaxPending
(* The memory changes, perhaps before the answer is there.                 *)
Meanwhile == stale' = (stale \/ loading) /\ UNCHANGED <<loading, local>>

(* A sync: syncOnce asks from the later of the two cursors, applySyncResult*)
(* adds what came and then advances the cursor.                            *)
SyncRead ==
    /\ running /\ signedIn /\ request = <<>>
    /\ asks' = Bigger(asks, ref) /\ request' = <<asks', last>>
    /\ UNCHANGED <<app, last, memory, loading, local, stale, flags, disk, history>>

Kept(S) == IF platform = "mobile" THEN Recent(S, MemoryLimit) ELSE S

(* The effects of the mobile client write the messages, then the cursors.  *)
(* Mutant: the cursors first.                                              *)
Writes_CursorFirst(S, c) == <<<<"cursor", c>>, <<"messages", Recent(S, limit)>>>>
Writes(S, c) == <<<<"messages", Recent(S, limit)>>, <<"cursor", c>>>>
Effects == /\ Room
           /\ IF platform = "mobile" 
              THEN writes' = writes \o Writes(messages', cursor') /\ UNCHANGED dirty
              ELSE dirty' = TRUE /\ UNCHANGED writes

(* nextCursor of the answer.                                               *)
NextCursor == request[2]

SyncApply ==
    /\ running /\ signedIn /\ request # <<>> /\ request' = <<>>
    /\ messages' = Kept(messages \cup (request[1] + 1)..request[2])
    /\ IF NextCursor > asks
       THEN asks' = NextCursor /\ cursor' = Bigger(cursor, NextCursor) /\ ref' = cursor'
       ELSE UNCHANGED <<asks, cursor, ref>>
    /\ IF messages' = messages /\ asks' = asks THEN UNCHANGED <<loading, local, stale>> ELSE Meanwhile
    /\ Effects /\ gone' = (gone /\ messages' = {})
    /\ UNCHANGED <<app, last, skip, recovered, stored, indexed, clock, clears, cleared, overtaken>>

Commit ==
    /\ last < MaxLast /\ last' = last + 1
    /\ UNCHANGED <<app, memory, session, flags, disk, history>>

-------------------------------------------------------------------------------
(* writeMessageCache and clearMessageCache.                                *)
WriteCache(S, c) ==
    /\ Room /\ clock' = clock + 1
    /\ IF limit = 0 THEN stored' = Nothing /\ writes' = Append(writes, Nothing)
       ELSE stored' = Record(S, c, clock') /\ writes' = Append(writes, stored')
    /\ UNCHANGED indexed
ClearCache_LocalOnly == stored' = Nothing /\ UNCHANGED <<indexed, writes, clock>>
ClearCache == stored' = Nothing /\ writes' = Append(writes, Nothing) /\ UNCHANGED <<indexed, clock>>

(* The timer of the cache.                                                 *)
PersistTimer ==
    /\ running /\ signedIn /\ dirty /\ dirty' = FALSE /\ skip' = FALSE
    /\ IF skip THEN UNCHANGED disk ELSE clock < MaxWrites /\ WriteCache(messages, cursor)
    /\ UNCHANGED <<app, last, memory, session, recovered, history>>

(* A write to IndexedDB or AsyncStorage is done.                           *)
WriteDone ==
    LET w == Head(writes) IN
    /\ writes # <<>> /\ writes' = Tail(writes)
    /\ IF platform = "desktop" THEN indexed' = w /\ UNCHANGED stored
       ELSE /\ stored' = IF w[1] = "messages" THEN [stored EXCEPT !.messages = w[2]]
                         ELSE [stored EXCEPT !.cursor = w[2]]
            /\ UNCHANGED indexed
    /\ UNCHANGED <<app, last, memory, session, flags, clock, history>>

(* The client ends: a page that is hidden writes first; a crash does not,  *)
(* and loses the writes that are not done.                                 *)
Ends ==
    /\ running' = FALSE /\ EndsSession
    /\ messages' = {} /\ cursor' = 0 /\ ref' = 0
    /\ dirty' = FALSE /\ skip' = FALSE /\ recovered' = FALSE
    /\ UNCHANGED <<platform, limit, signedIn, runs, last, clears, cleared, overtaken>>
PageHide ==
    /\ platform = "desktop" /\ running /\ signedIn /\ clock < MaxWrites
    /\ WriteCache(messages, cursor) /\ Ends /\ UNCHANGED gone
Crash ==
    /\ running /\ Ends /\ writes' = <<>> /\ gone' = (gone /\ writes = <<>>)
    /\ UNCHANGED <<stored, indexed, clock>>

(* Another tab of the desktop client has read all up to k and writes its   *)
(* cache; this one merges it (handleStorage).                              *)
OtherTab(k) ==
    /\ platform = "desktop" /\ running /\ signedIn /\ limit > 0
    /\ clock < MaxWrites /\ WriteCache(1..k, k)
    /\ messages' = messages \cup stored'.messages
    /\ cursor' = Bigger(cursor, stored'.cursor)
    /\ ref' = IF cursor' = cursor THEN ref ELSE cursor'
    /\ dirty' = TRUE /\ skip' = TRUE /\ gone' = FALSE /\ Meanwhile
    /\ UNCHANGED <<app, last, asks, request, recovered, clears, cleared, overtaken>>

-------------------------------------------------------------------------------
(* The user clears the cache: the session goes on with the cursor it has.  *)
Emptied == messages' = {} /\ cursor' = 0 /\ ref' = 0 /\ gone' = TRUE
ClearActiveMessageCache ==
    /\ platform = "desktop" /\ ClearCache /\ dirty' = TRUE /\ skip' = TRUE
ClearMobileCache ==
    /\ platform = "mobile" /\ writes' = writes \o Writes({}, 0)
    /\ UNCHANGED <<stored, indexed, clock, dirty, skip>>
Clear ==
    /\ running /\ signedIn /\ clears < MaxClears /\ clears' = clears + 1
    /\ Emptied /\ cleared' = TRUE /\ Meanwhile
    /\ ClearActiveMessageCache \/ ClearMobileCache
    /\ UNCHANGED <<app, last, asks, request, recovered, overtaken>>

(* The user removes the profile; with a 401 the session ends, and its      *)
(* messages stay.                                                          *)
RemoveProfile ==
    /\ running /\ signedIn /\ clears < MaxClears /\ clears' = clears + 1
    /\ signedIn' = FALSE /\ EndsSession /\ Emptied
    /\ IF platform = "desktop" THEN ClearCache
       ELSE writes' = writes \o Writes({}, 0) /\ UNCHANGED <<stored, indexed, clock>>
    /\ dirty' = FALSE
    /\ UNCHANGED <<platform, limit, running, runs, last, skip, recovered, cleared, overtaken>>
ExpireSession ==
    /\ running /\ signedIn /\ signedIn' = FALSE /\ EndsSession
    /\ dirty' = FALSE
    /\ UNCHANGED <<platform, limit, running, runs, last, memory, skip, recovered, disk, history>>

(* addProfile: the desktop client reads the cache of the profile again.    *)
SignIn ==
    /\ running /\ ~signedIn /\ signedIn' = TRUE /\ runs < MaxRuns /\ runs' = runs + 1
    /\ UNCHANGED disk
    /\ IF platform = "desktop" THEN messages' = ReadCache.messages /\ cursor' = ReadCache.cursor
       ELSE UNCHANGED <<messages, cursor>>
    /\ StartsSession(messages', IF platform = "desktop" THEN cursor' ELSE ref)
    /\ UNCHANGED <<platform, limit, running, last, dirty, skip, history>>

(* The user goes to another profile and comes back: the desktop client     *)
(* writes the cache as it leaves.                                          *)
SwitchProfiles ==
    /\ running /\ signedIn /\ runs < MaxRuns /\ runs' = runs + 1
    /\ IF platform = "desktop" THEN clock < MaxWrites /\ WriteCache(messages, cursor)
       ELSE UNCHANGED disk
    /\ StartsSession(messages, ref) /\ dirty' = (platform = "desktop")
    /\ UNCHANGED <<platform, limit, running, signedIn, last, messages, cursor, skip, history>>

Next ==
    \/ Start \/ ReadIndexed \/ LoadIndexed \/ SyncRead \/ SyncApply \/ Commit
    \/ PersistTimer \/ WriteDone \/ PageHide \/ Crash \/ \E k \in 1..last : OtherTab(k)
    \/ Clear \/ RemoveProfile \/ ExpireSession \/ SignIn \/ SwitchProfiles
Spec == Init /\ [][Next]_vars

-------------------------------------------------------------------------------
TypeOK ==
    /\ messages \subseteq 1..last /\ {cursor, ref, asks} \subseteq 0..last
    /\ request # <<>> => request[1] <= request[2] /\ request[2] <= last
    /\ stored.messages \subseteq 1..last /\ stored.cursor \in 0..last
    /\ indexed.messages \subseteq 1..last /\ indexed.cursor \in 0..last
    /\ local.messages \subseteq 1..last /\ local.cursor \in 0..last
    /\ {running, signedIn, loading, stale, dirty, skip, recovered, cleared, gone,
        overtaken} \subseteq BOOLEAN

(* What the session will not ask the server for again it has, but for      *)
(* messages that so many newer ones push out of the limits: over crashes,  *)
(* lost writes, two stores of different age, another tab, a new sign-in.   *)
(* Not so once it was cleared, which leaves the session its cursor, or     *)
(* IndexedDB's answer has replaced what came before it.                    *)
Crowd == IF limit = 0 THEN MemoryLimit ELSE limit
Covered ==
    \A e \in 1..asks : \/ e \in messages
                       \/ Cardinality({m \in messages : m > e}) >= Crowd
KeepsWhatItHasSeen == running /\ signedIn /\ ~cleared /\ ~overtaken => Covered

(* What was cleared or removed does not come back from one of the stores,  *)
(* unless IndexedDB was being read, or the deletion was queued, meanwhile. *)
ClearedIsGone == running /\ gone /\ ~overtaken => messages = {} /\ cursor = 0

(* "The message cache is cleared" (settings-panel.tsx), so that nothing is *)
(* shown until the server sends it, whatever the client was reading.       *)
ClearedStaysAway == running /\ gone => messages = {}

(* However late IndexedDB answers, nothing is lost.                        *)
KeepsAllItHasSeen == running /\ signedIn /\ ~cleared => Covered

(* Cleared messages are loaded again by the next sync (SettingsScreen.tsx).*)
LoadedAgain == [][SyncApply => Covered']_vars
===============================================================================
