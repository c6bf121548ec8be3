--------------------------------- MODULE Messenger --------------------------------
(* The clients' parts that share no state: the screens, the settings of an  *)
(* account, the messages of a chat, what is kept of them, the keys of a     *)
(* device, an attachment shown, attachments sent and the page one signs in  *)
(* on.  Every behaviour is about one of them, its scene, and the others     *)
(* stand still in one initial state.                                        *)
EXTENDS Naturals, Sequences, FiniteSets

CONSTANTS
    Profiles, Chats, Owner, MaxCalls, Entries, Current, Limit, Servers, None,
    MaxSearches, MaxChanges, MaxEdits, MaxFaults, MaxReads, MaxOthers,
    MaxEvents, MaxSyncs, MaxUnread, Calls, MaxKeys, MaxOutages, MaxSends, MaxForwards, MaxRuns,
    MaxPages, MaxAsked, Limits, MemoryLimit, MaxLast, MaxWrites,
    MaxStarts, MaxClears, MaxPending

VARIABLES
    scene,
    platform, subject, profiles, tokens, active, open, screen, auth, quote, lastChat, list,
    query, searchId, timer, searches, result, calls, hydrated, notice, changes, foreign,
    document, client, saved, shown, writes, wire, reading, edits, faults, reads, others,
    chosen, kept, overlap, gaveUp,
    log, made, messages, cursor, answer, outbox, editing, failures, syncs, unread, merged, seen, passed,
    store, secure, fallback, requests, deleting, landing, keys, outages, returned, late,
    place, auto, connection, mounted, network, manual, run, loads, uri, failed, urls, gallerySaved,
    app, operation, controller, progress, sends, forwards, started, vanished,
    form, known, page, step, input, serverUrl, busy, asks, asked, pages, wanted, cancelled, joined,
    machine, limit, last, running, keepsSession, held, through, ref, since, loading, local, stale, request, dirty, skip,
    recovered, stored, indexed, pending, clock, starts, clears, cleared, gone, overtaken

Platforms == {"desktop", "mobile"}
S == INSTANCE Screens WITH Subjects <- {"search", "calls", "tabs"}
W == INSTANCE AccountWrites WITH Documents <- {"folders", "privacy", "revoked", "blocked"}
M == INSTANCE MessageState WITH list <- messages, faults <- failures
K == INSTANCE KeyStore
B == INSTANCE MediaBubble
U == INSTANCE MediaSend
G == INSTANCE AuthPage WITH profiles <- known
D == INSTANCE ClientCache WITH
        platform <- machine, signedIn <- keepsSession, messages <- held, cursor <- through,
        asks <- since, writes <- pending, runs <- starts, MaxRuns <- MaxStarts

(* What the parts assume of their constants.                                *)
ASSUME MessengerAssumption ==
    /\ S!ScreensAssumption /\ W!WritesAssumption /\ M!LimitAssumption /\ K!BoundsAssumption
    /\ B!RunsAssumption /\ U!BoundsAssumption /\ G!PagesAssumption /\ D!CacheAssumption

screens == <<platform, subject, profiles, tokens, active, open, screen, auth, quote, lastChat, list,
             query, searchId, timer, searches, result, calls, hydrated, notice, changes, foreign>>
account == <<document, client, saved, shown, writes, wire, reading, edits, faults, reads, others,
             chosen, kept, overlap, gaveUp>>
chat == <<log, made, messages, cursor, answer, outbox, editing, failures, syncs, unread, merged, seen, passed>>
device == <<store, secure, fallback, requests, deleting, landing, keys, outages, returned, late>>
bubble == <<place, auto, connection, mounted, network, manual, run, loads, uri, failed, urls,
            gallerySaved>>
upload == <<app, operation, controller, progress, sends, forwards, started, vanished>>
signing == <<form, known, page, step, input, serverUrl, busy, asks, asked, pages, wanted, cancelled, joined>>
cache == <<machine, limit, last, running, keepsSession, held, through, ref, since, loading, local, stale,
           request, dirty, skip, recovered, stored, indexed, pending, clock, starts, clears, cleared, gone, overtaken>>
vars == <<scene, screens, account, chat, device, bubble, upload, signing, cache>>

Init ==
    /\ scene \in {"screens", "account", "chat", "device", "bubble", "upload", "signing", "cache"}
    /\ S!Init /\ (scene # "screens" => subject = "search" /\ platform = "desktop")
    /\ W!Init /\ (scene # "account" => document = "folders" /\ client = "desktop")
    /\ M!Init
    /\ K!Init /\ (scene # "device" => store = "web" /\ fallback = 0)
    /\ B!Init
    /\ (scene # "bubble" =>
            place = "desktop" /\ connection = "wifi" /\ \A name \in DOMAIN auto : auto[name])
    /\ U!Init /\ (scene # "upload" => app = "desktop")
    /\ G!Init /\ input = (CHOOSE server \in Servers : TRUE) /\ (scene # "signing" => form = "desktop" /\ known)
    /\ D!Init /\ (scene # "cache" => machine = "desktop" /\ limit = 1)
Next ==
    /\ UNCHANGED scene
    /\ \/ scene = "screens" /\ S!Next /\ UNCHANGED <<account, chat, device, bubble, upload, signing, cache>>
       \/ scene = "account" /\ W!Next /\ UNCHANGED <<screens, chat, device, bubble, upload, signing, cache>>
       \/ scene = "chat" /\ M!Next /\ UNCHANGED <<screens, account, device, bubble, upload, signing, cache>>
       \/ scene = "device" /\ K!Next /\ UNCHANGED <<screens, account, chat, bubble, upload, signing, cache>>
       \/ scene = "bubble" /\ B!Next /\ UNCHANGED <<screens, account, chat, device, upload, signing, cache>>
       \/ scene = "upload" /\ U!Next /\ UNCHANGED <<screens, account, chat, device, bubble, signing, cache>>
       \/ scene = "signing" /\ G!Next /\ UNCHANGED <<screens, account, chat, device, bubble, upload, cache>>
       \/ scene = "cache" /\ D!Next /\ UNCHANGED <<screens, account, chat, device, bubble, upload, signing>>
Spec == Init /\ [][Next]_vars

(* The properties of the parts, stated in their modules.                    *)
QuoteStaysInChat == S!QuoteStaysInChat
QuoteAlwaysStays == S!QuoteAlwaysStays
SearchNeverGoesBack == S!SearchNeverGoesBack
OnlyItsProfileGoes == S!OnlyItsProfileGoes
SettledIsTrue == W!SettledIsTrue
NoAnswerUndoesAChoice == W!NoAnswerUndoesAChoice
FolderStays == W!FolderStays
EditsAgree == M!EditsAgree
ReactionsAgree == M!ReactionsAgree
ReadStays == M!ReadStays
EditStays == M!EditStays
KeyStays == K!KeyStays
KeyStaysAnyway == K!KeyStaysAnyway
OnlyTheLastRunShows == B!OnlyTheLastRunShows
ComposerWaits == U!ComposerWaits
NoneVanishes == U!NoneVanishes
PageIsHonest == G!PageIsHonest
PhoneIsHonest == G!PhoneIsHonest
CancelledStaysOut == G!CancelledStaysOut
KeepsWhatItHasSeen == D!KeepsWhatItHasSeen
ClearedIsGone == D!ClearedIsGone
KeepsAllItHasSeen == D!KeepsAllItHasSeen
LoadedAgain == D!LoadedAgain
===============================================================================
