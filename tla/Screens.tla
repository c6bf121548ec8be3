-------------------------------- MODULE Screens --------------------------------
(***************************************************************************)
(* What the messenger's window shows and what the composer is about to     *)
(* answer: profiles, chats, the search for users, notifications and the    *)
(* requests whose answers find another screen than the one that asked      *)
(* (App.tsx of the desktop and of the mobile client).                      *)
(*                                                                         *)
(* A handler that awaits goes on with the profiles and the active profile  *)
(* of the render it was made in: a call keeps them in `seen` and `by`.     *)
(* The effects that follow a render are part of the action that caused it. *)
(***************************************************************************)
EXTENDS Naturals, Sequences, FiniteSets, SequencesExt

CONSTANTS
    Profiles, Chats, Owner, \* Owner: chat -> its profile
    None,
    Platforms,              \* of "desktop", "mobile"
    Subjects,               \* what a behaviour is about: "search", "calls", "tabs"
    MaxSearches, MaxCalls, MaxChanges \* bounds, MaxCalls by platform

ScreensAssumption ==
    /\ Owner \in [Chats -> Profiles] /\ None \notin Profiles \cup Chats
    /\ Platforms \subseteq {"desktop", "mobile"} /\ Subjects \subseteq {"search", "calls", "tabs"}
    /\ {MaxSearches, MaxChanges} \subseteq Nat /\ MaxCalls \in [Platforms -> Nat]

VARIABLES
    platform, subject,
    profiles,   \* a sequence
    tokens,     \* mobile: profiles with a token in the keychain
    active,     \* activeProfileId
    open,       \* activeConversationId
    screen,     \* mobile: screen; desktop: activePanel, "chat" for "chats"
    auth,       \* showAuth
    quote,      \* the chat of the message replied to or edited
    lastChat,   \* profile -> the chat it had open, in the tab state
    list,       \* profile -> chats in its list
    query,      \* there is a query to search for
    searchId, timer, searches, result, \* searchRequestId, requests, the shown one
    calls,      \* requests under way
    hydrated, notice, \* mobile: the start, a notification pressed before
    changes,
    foreign     \* history: a desktop profile went without its quote

who == <<profiles, tokens, active>>
view == <<open, screen, auth, quote>>
search == <<query, searchId, timer, searches, result>>
start == <<hydrated, notice>>
fixed == <<platform, subject>>
vars == <<fixed, who, view, lastChat, list, search, calls, start, changes, foreign>>

Desktop == platform = "desktop"
Mobile == platform = "mobile"
First(s) == IF s = <<>> THEN None ELSE Head(s)
Usable == hydrated /\ ~auth /\ active # None
Shown == Usable /\ screen = "chat" /\ open # None /\ open \in list[active]
May(s) == subject = s
Change == changes < MaxChanges /\ changes' = changes + 1

Init ==
    /\ platform \in Platforms /\ subject \in Subjects
    /\ profiles = <<>> /\ tokens = {} /\ active = None
    /\ open = None /\ screen = (IF Desktop THEN "chat" ELSE "inbox") /\ auth = FALSE /\ quote = None
    /\ lastChat = [p \in Profiles |-> None] /\ list = [p \in Profiles |-> {}]
    /\ query = FALSE /\ searchId = 0 /\ timer = 0 /\ searches = {} /\ result = 0
    /\ calls = {} /\ hydrated = TRUE /\ notice = <<>> /\ changes = 0 /\ foreign = FALSE

(* The effects: the open chat of the active profile is remembered; the     *)
(* search of the mobile client begins again with another profile.          *)
Remember(remembered) ==
    lastChat' = IF active' = None THEN remembered ELSE [remembered EXCEPT ![active'] = open']
SearchAgain ==
    IF Desktop \/ active' = active THEN UNCHANGED <<searchId, timer>>
    ELSE IF query' THEN searchId' = searchId + 1 /\ timer' = searchId'
    ELSE UNCHANGED searchId /\ timer' = 0
Result(before) == result' = IF Mobile /\ active' # active /\ ~query' THEN 0 ELSE before
SameSearch == UNCHANGED <<query, searches>> /\ SearchAgain /\ Result(result)
Effects == Remember(lastChat) /\ SameSearch

-------------------------------------------------------------------------------
(* Chats: selectConversation, openConversation, leaveConversation.         *)
SelectConversation(c) ==
    /\ open' = c /\ quote' = None
    /\ screen' = IF c # None THEN "chat" ELSE IF Mobile THEN "inbox" ELSE screen
OpenChat ==
    /\ Usable /\ (Mobile => screen = "inbox")
    /\ \E c \in list[active] : SelectConversation(c)
    /\ UNCHANGED <<auth, who, fixed, list, calls, start, changes, foreign>> /\ Effects
LeaveConversation ==
    /\ Mobile /\ Usable /\ screen = "chat" /\ open # None /\ SelectConversation(None)
    /\ UNCHANGED <<auth, who, fixed, list, calls, start, changes, foreign>> /\ Effects

(* handleRootBack, the bottom bar, the swipe, the panels of the desktop.   *)
Tabs == IF Desktop THEN {"chat", "settings"} ELSE {"inbox", "settings"}
SelectPanel ==
    /\ Usable /\ (Mobile => screen # "chat" \/ open = None)
    /\ screen' \in Tabs \ {screen}
    /\ UNCHANGED <<open, auth, quote, who, fixed, list, calls, start, changes, foreign>> /\ Effects
HandleRootBack == LeaveConversation \/ SelectPanel

(* replyToMessage, editMessage; sent, cancelled or applyMessageEdit.       *)
ReplyToMessage ==
    /\ Shown /\ quote' = open
    /\ UNCHANGED <<open, screen, auth, who, fixed, lastChat, list, search, calls, start, changes, foreign>>
CancelContext ==
    /\ Shown /\ quote # None /\ quote' = None
    /\ UNCHANGED <<open, screen, auth, who, fixed, lastChat, list, search, calls, start, changes, foreign>>

(* A folder without the open chat, deleteConversation, archiveConversation.*)
CloseChat ==
    /\ Usable /\ open # None /\ (Mobile => screen = "inbox") /\ SelectConversation(None)
    /\ UNCHANGED <<auth, who, fixed, list, calls, start, changes, foreign>> /\ Effects
SelectFolder == Desktop /\ CloseChat
MobileSelectsFolder == Mobile /\ CloseChat
DeleteConversation == SelectFolder \/ MobileSelectsFolder

(* clearMessageCache: the desktop client keeps what is being replied to.   *)
ClearActiveMessageCache == list' = [list EXCEPT ![active] = {}] /\ open' = None /\ UNCHANGED quote
MobileClears == quote' = None /\ UNCHANGED <<list, open>>
ClearMessageCache ==
    /\ Usable /\ screen = "settings" /\ IF Desktop THEN ClearActiveMessageCache ELSE MobileClears
    /\ UNCHANGED <<screen, auth, who, fixed, calls, start, changes, foreign>> /\ Effects
(* applySyncResult: the chats the server has.                              *)
Sync ==
    /\ Usable /\ list' = [list EXCEPT ![active] = {c \in Chats : Owner[c] = active}]
    /\ UNCHANGED <<who, view, fixed, lastChat, search, calls, start, changes, foreign>>

-------------------------------------------------------------------------------
(* Profiles.  Mutant: the reply stays.                                     *)
Dropped_Kept(p) == quote
Dropped(p) == None
MobileSelects(p) ==
    /\ screen # "chat" /\ query' = FALSE
    /\ open' = IF lastChat[p] \in list[p] THEN lastChat[p] ELSE None
    /\ screen' = IF open' = None THEN "inbox" ELSE "chat"
SelectProfile(p) ==
    /\ Usable /\ p \in Range(profiles) /\ active' = p /\ quote' = Dropped(p)
    /\ IF Mobile THEN MobileSelects(p) ELSE open' = lastChat[p] /\ UNCHANGED <<screen, query>>
    /\ Remember(lastChat) /\ SearchAgain /\ result' = 0
    /\ UNCHANGED <<profiles, tokens, auth, fixed, list, searches, calls, start, changes, foreign>>

(* The desktop effect for an active profile that is gone: what was replied *)
(* to stays.                                                               *)
Fallback ==
    IF active \in Range(profiles') THEN UNCHANGED <<active, open, foreign>>
    ELSE /\ active' = First(profiles')
         /\ open' = (IF active' = None THEN None ELSE lastChat[active'])
         /\ foreign' = (foreign \/ (quote # None /\ active # None))
(* removeProfile(p), called with the profiles and the active one it saw.   *)
Forgotten(p) == [lastChat EXCEPT ![p] = None] \* mobile
TakeOut(p, had, by) ==
    /\ profiles' = Remove(had, p) /\ tokens' = tokens \ {p}
    /\ list' = [list EXCEPT ![p] = {}]
    /\ IF by = p
       THEN /\ active' = First(profiles') /\ open' = None /\ quote' = None
            /\ screen' = (IF Desktop THEN "chat" ELSE "inbox")
            /\ auth' = (IF Mobile THEN profiles' = <<>> ELSE auth) /\ UNCHANGED foreign
       ELSE UNCHANGED <<active, view, foreign>>
    /\ Remember(IF Mobile THEN Forgotten(p) ELSE lastChat) /\ SameSearch
RemoveProfile(p) ==
    /\ Usable /\ p \in Range(profiles) /\ (Mobile => screen # "chat") /\ Change
    /\ TakeOut(p, profiles, active) /\ UNCHANGED <<fixed, calls, start>>

(* expireProfileSession(p) of the mobile client, likewise.                 *)
ExpireProfileSession(p, had) ==
    /\ profiles' = Remove(had, p) /\ tokens' = tokens \ {p} /\ active' = First(profiles')
    /\ open' = None /\ quote' = None /\ screen' = "inbox" /\ auth' = TRUE
    /\ UNCHANGED <<list, foreign>> /\ Effects

(* addProfile, when its keys are ready.                                    *)
MobileAdds == open' = None /\ quote' = None /\ screen' = "inbox" /\ UNCHANGED foreign
AddProfile(p, had) ==
    /\ profiles' = Append(Remove(had, p), p) /\ tokens' = tokens \cup {p} /\ active' = p
    /\ auth' = FALSE
    /\ IF Desktop
       THEN /\ open' = lastChat[p] /\ UNCHANGED <<quote, screen>>
            /\ foreign' = (foreign \/ (quote # None /\ p # active))
       ELSE MobileAdds
    /\ UNCHANGED list /\ Effects
ShowAuth ==
    /\ Usable /\ auth' = TRUE
    /\ UNCHANGED <<open, screen, quote, who, fixed, lastChat, list, search, calls, start, changes, foreign>>
CancelAuth ==
    /\ hydrated /\ auth /\ profiles # <<>> /\ auth' = FALSE
    /\ UNCHANGED <<open, screen, quote, who, fixed, lastChat, list, search, calls, start, changes, foreign>>

(* Another tab of the desktop client adds or removes a profile.            *)
OtherTab ==
    /\ May("tabs") /\ Desktop /\ Change
    /\ \E p \in Profiles : profiles' \in {Remove(profiles, p), Append(Remove(profiles, p), p)}
    /\ Fallback /\ UNCHANGED <<tokens, screen, auth, quote, fixed, list, calls, start>> /\ Effects

-------------------------------------------------------------------------------
(* Requests: of a session or a message, of a sign-in, for a new chat, and  *)
(* for the deletion of the account.                                        *)
Call(kind, p, c) == [kind |-> kind, by |-> p, had |-> profiles, chat |-> c]
Begin(call) == Cardinality(calls) < MaxCalls[platform] /\ calls' = calls \cup {call}
Starts ==
    /\ May("calls")
    /\ \/ Usable /\ Begin(Call("send", active, None))
       \/ Usable /\ (Mobile => screen = "inbox") /\ \E c \in Chats \ list[active] :
             Owner[c] = active /\ Begin(Call("create", active, c))
       \/ Usable /\ screen = "settings" /\ Begin(Call("delete", active, None))
    /\ UNCHANGED <<who, view, fixed, lastChat, list, search, start, changes, foreign>>
SignIn ==
    /\ hydrated /\ (auth \/ profiles = <<>>) /\ Change
    /\ \E p \in Profiles : Begin(Call("add", p, None))
    /\ UNCHANGED <<who, view, fixed, lastChat, list, search, start, foreign>>

(* With a 401 the mobile client ends the session of the profile and the    *)
(* desktop client asks to sign in; other failures change nothing here.     *)
Unauthorized(call) ==
    /\ call.kind = "send"
    /\ IF Mobile THEN ExpireProfileSession(call.by, call.had)
       ELSE auth' = TRUE /\ UNCHANGED <<who, open, screen, quote, lastChat, list, search, foreign>>
Fails(call) ==
    UNCHANGED <<who, view, lastChat, list, search, foreign>>
Added(call) == call.kind = "add" /\ AddProfile(call.by, call.had)
Deleted(call) == call.kind = "delete" /\ TakeOut(call.by, call.had, call.by)

(* openSearchUser: a chat there is, or the new one, which is put into the  *)
(* list of the profile that asked, on the desktop into the one shown.      *)
ShowFound(c) ==
    /\ SelectConversation(c) /\ query' = (Desktop /\ query) /\ result' = 0
    /\ UNCHANGED <<who, auth, searches, foreign>> /\ Remember(lastChat) /\ SearchAgain
Created(call) ==
    LET p == IF Mobile THEN call.by ELSE active IN
    /\ call.kind = "create" /\ ShowFound(call.chat)
    /\ list' = IF p = None THEN list ELSE [list EXCEPT ![p] = @ \cup {call.chat}]
OpenSearchUser ==
    /\ Usable /\ (Mobile => screen = "inbox") /\ result # 0
    /\ \E c \in list[active] : ShowFound(c)
    /\ UNCHANGED <<fixed, list, calls, start, changes>>
Ends ==
    /\ hydrated
    /\ \E call \in calls :
          /\ calls' = calls \ {call}
          /\ \/ Unauthorized(call) \/ Fails(call) \/ Created(call)
             \/ (Added(call) \/ Deleted(call))
    /\ UNCHANGED <<fixed, start, changes>>

-------------------------------------------------------------------------------
(* The search: the desktop asks at once, the mobile client when the query  *)
(* has stood for 360 ms.                                                   *)
SearchForUser ==
    /\ May("search") /\ Usable /\ searchId < MaxSearches /\ searchId' = searchId + 1
    /\ query' = TRUE
    /\ IF Desktop THEN searches' = searches \cup {searchId'} /\ result' = 0 /\ UNCHANGED timer
       ELSE screen = "inbox" /\ timer' = searchId' /\ UNCHANGED <<searches, result>>
    /\ UNCHANGED <<who, view, fixed, lastChat, list, calls, start, changes, foreign>>
TimerFires ==
    /\ hydrated /\ timer # 0 /\ timer' = 0 /\ searches' = searches \cup {timer}
    /\ UNCHANGED <<who, view, fixed, lastChat, list, query, searchId, result, calls, start, changes, foreign>>
ClearSearch ==
    /\ May("search") /\ Usable /\ query /\ query' = FALSE /\ result' = 0 /\ timer' = 0
    /\ IF Desktop THEN searchId < MaxSearches /\ searchId' = searchId + 1 ELSE UNCHANGED searchId
    /\ UNCHANGED <<who, view, fixed, lastChat, list, searches, calls, start, changes, foreign>>
(* Mutant: every answer is shown.                                          *)
IsLatest_Always(n) == TRUE
IsLatest(n) == n = searchId
Answered ==
    /\ hydrated
    /\ \E n \in searches : /\ searches' = searches \ {n}
                           /\ result' \in IF IsLatest(n) THEN {n, result} ELSE {result}
    /\ UNCHANGED <<who, view, fixed, lastChat, list, query, searchId, timer, calls, start, changes, foreign>>
SearchAnswered == Desktop /\ Answered
MobileSearchAnswered == Mobile /\ Answered

(* A notification is pressed.  The mobile client keeps it until it has     *)
(* started, and opens it with the active profile when its own is gone.     *)
OpenNotification(p, c) ==
    LET to == IF p \in Range(profiles) THEN p ELSE active IN
    /\ to # None /\ active' = to /\ open' = c /\ quote' = None /\ screen' = "chat"
    /\ UNCHANGED <<profiles, tokens, auth, list, foreign>> /\ Effects
Press ==
    \E c \in Chats :
       /\ Desktop => Owner[c] \in Range(profiles)
       /\ Change
       /\ IF hydrated THEN OpenNotification(Owner[c], c) /\ UNCHANGED start
          ELSE /\ notice' = <<c>>
               /\ UNCHANGED <<hydrated, who, view, lastChat, list, search, foreign>>
       /\ UNCHANGED <<fixed, calls>>
OpenPending ==
    /\ hydrated /\ notice # <<>> /\ notice' = <<>>
    /\ IF active = None THEN UNCHANGED <<who, view, lastChat, list, search, foreign>>
       ELSE OpenNotification(Owner[notice[1]], notice[1])
    /\ UNCHANGED <<fixed, hydrated, calls, changes>>

(* The client starts again; until it has hydrated, active and screen stand *)
(* for what was stored.                                                    *)
Restart ==
    /\ hydrated /\ hydrated' = Desktop /\ Change /\ calls' = {} /\ quote' = None /\ auth' = FALSE
    /\ query' = FALSE /\ timer' = 0 /\ searches' = {} /\ result' = 0 /\ searchId' = 0
    /\ active' = IF Mobile \/ active \in Range(profiles) THEN active ELSE First(profiles)
    /\ open' = IF Mobile \/ active' = None THEN None ELSE lastChat[active']
    /\ UNCHANGED <<profiles, tokens, screen, fixed, lastChat, list, notice, foreign>>
Hydrate ==
    /\ ~hydrated /\ hydrated' = TRUE
    /\ profiles' = SelectSeq(profiles, LAMBDA p : p \in tokens)
    /\ auth' = (profiles' = <<>>)
    /\ active' = IF active \in Range(profiles') THEN active ELSE First(profiles')
    /\ open' = IF active' = None THEN None ELSE lastChat[active']
    /\ screen' = IF screen = "settings" THEN screen
                 ELSE IF active' # None /\ open' \in list[active'] THEN "chat" ELSE "inbox"
    /\ Remember(lastChat)
    /\ UNCHANGED <<tokens, quote, fixed, list, search, calls, notice, changes, foreign>>

Next ==
    \/ OpenChat \/ HandleRootBack \/ ReplyToMessage \/ CancelContext \/ DeleteConversation
    \/ ClearMessageCache \/ Sync \/ ShowAuth \/ CancelAuth \/ OtherTab
    \/ (\E p \in Profiles : SelectProfile(p) \/ RemoveProfile(p))
    \/ Starts \/ SignIn \/ Ends
    \/ SearchForUser \/ TimerFires \/ ClearSearch \/ SearchAnswered \/ MobileSearchAnswered
    \/ OpenSearchUser
    \/ Press \/ OpenPending \/ Restart \/ Hydrate
Spec == Init /\ [][Next]_vars

-------------------------------------------------------------------------------
(* The composer answers or edits a message of the chat it is shown in, over*)
(* every way to another chat, screen or profile.  Known and left out: the  *)
(* desktop client keeps the reply when another profile signs in or another *)
(* tab removes the active one.                                             *)
QuoteStaysInChat == ~foreign /\ quote # None /\ open # None => quote = open

(* The same over those two ways (addProfile and the fallback of the active *)
(* profile), of which neither clears the reply.  Does not hold.            *)
QuoteAlwaysStays == quote # None /\ open # None => quote = open

(* An answer to an earlier search never replaces that of a later one.      *)
SearchNeverGoesBack == [][result # 0 /\ result' # 0 => result' >= result]_vars

(* The answer to a request takes away no profile but the one that made it. *)
(* Does not hold: the handlers put back the profiles of an earlier render. *)
OnlyItsProfileGoes ==
    [][\A p \in Range(profiles) \ Range(profiles') :
          Ends => \E call \in calls \ calls' : call.by = p]_vars
===============================================================================
