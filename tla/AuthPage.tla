-------------------------------- MODULE AuthPage --------------------------------
(***************************************************************************)
(* The page one signs in on (auth-page.tsx, AuthScreen.tsx): the address   *)
(* of a server is checked, then the credentials go to that server, and the *)
(* answer makes a profile.  The page can be left while an answer is on its *)
(* way, and what was asked goes on.  "desktop" is the desktop client, whose*)
(* form does not submit while it is busy; on the phone the keyboard does.  *)
(***************************************************************************)
EXTENDS Naturals, FiniteSets

CONSTANTS Servers, MaxPages, MaxAsked
PagesAssumption == {MaxPages, MaxAsked} \subseteq Nat /\ 0 \notin Servers

VARIABLES
    form,       \* "desktop" or "phone"
    profiles,   \* there are profiles, so the page can be cancelled
    page,       \* the page that is shown, 0 when none is
    step,       \* "server" or "auth"
    input,      \* serverInput
    serverUrl,  \* 0 before the first check
    busy,
    asks,       \* under way: [n, kind, page, server, at], "check" or "auth"
    asked,      \* how many there were
    pages,
    wanted,     \* history: the server the last check of the page was for
    cancelled,  \* history: pages the user left
    joined      \* history: pages whose sign-in was completed

fields == <<page, step, input, serverUrl, busy>>
history == <<wanted, cancelled, joined>>
vars == <<form, profiles, fields, asks, asked, pages, history>>

Init ==
    /\ form \in {"desktop", "phone"} /\ profiles \in BOOLEAN /\ page = 0 /\ step = "server"
    /\ input \in Servers /\ serverUrl = 0 /\ busy = FALSE /\ asks = {} /\ asked = 0 /\ pages = 0
    /\ wanted = 0 /\ cancelled = {} /\ joined = {}

(* Without a profile it is shown at once, else when the user asks for it.  *)
Shows ==
    /\ page = 0 /\ pages < MaxPages /\ pages' = pages + 1 /\ page' = pages' /\ step' = "server"
    /\ serverUrl' = 0 /\ busy' = FALSE /\ wanted' = 0
    /\ UNCHANGED <<form, profiles, input, asks, asked, cancelled, joined>>
TypeAddress ==
    /\ page # 0 /\ step = "server" /\ input' \in Servers \ {input}
    /\ UNCHANGED <<form, profiles, page, step, serverUrl, busy, asks, asked, pages, history>>
(* Mutant: the form submits while it is busy.                              *)
Submits_Busy == page # 0
Submits == page # 0 /\ (form = "desktop" => ~busy)
Asks(kind, server) ==
    /\ Submits /\ asked < MaxAsked /\ asked' = asked + 1 /\ busy' = TRUE
    /\ asks' = asks \cup {[n |-> asked', kind |-> kind, page |-> page, server |-> server, at |-> "sent"]}
    /\ UNCHANGED <<form, profiles, page, step, input, serverUrl, pages, cancelled, joined>>
CheckServer == step = "server" /\ Asks("check", input) /\ wanted' = input
SubmitAuth == step = "auth" /\ Asks("auth", serverUrl) /\ UNCHANGED wanted

(* An answer to a page that is not there any more changes nothing of it.   *)
Ends(ask) ==
    /\ asks' = asks \ {ask} /\ busy' = (busy /\ ask.page # page)
    /\ UNCHANGED <<form, input, asked, pages, wanted, cancelled>>
Available(ask) ==
    /\ ask.kind = "check" /\ Ends(ask) /\ UNCHANGED <<profiles, page, joined>>
    /\ serverUrl' = IF ask.page = page THEN ask.server ELSE serverUrl
    /\ step' = IF ask.page = page THEN "auth" ELSE step
Fails(ask) == Ends(ask) /\ UNCHANGED <<profiles, page, step, serverUrl, joined>>
(* The credentials are accepted and the keys of the device prepared.       *)
Accepted(ask) ==
    /\ ask.kind = "auth" /\ ask.at = "sent" /\ asks' = (asks \ {ask}) \cup {[ask EXCEPT !.at = "accepted"]}
    /\ UNCHANGED <<form, profiles, fields, asked, pages, history>>
OnAuthenticated(ask) ==
    /\ ask.at = "accepted" /\ Ends(ask) /\ profiles' = TRUE /\ page' = 0
    /\ joined' = joined \cup {ask.page} /\ UNCHANGED <<step, serverUrl>>
GoBack ==
    /\ page # 0 /\ (profiles \/ step = "auth")
    /\ IF profiles THEN page' = 0 /\ cancelled' = cancelled \cup {page} /\ UNCHANGED step
       ELSE step' = "server" /\ UNCHANGED <<page, cancelled>>
    /\ UNCHANGED <<form, profiles, input, serverUrl, busy, asks, asked, pages, wanted, joined>>

Next ==
    \/ Shows \/ TypeAddress \/ CheckServer \/ SubmitAuth \/ GoBack
    \/ \E ask \in asks : Available(ask) \/ Fails(ask) \/ Accepted(ask) \/ OnAuthenticated(ask)
Spec == Init /\ [][Next]_vars

UnderWay == \E ask \in asks : ask.page = page
(* The page is busy only while something it asked is under way: it is never*)
(* locked for good, whatever was refused, cancelled or answered late.  On  *)
(* the desktop it is busy all that time, so the credentials are asked for  *)
(* by the server the user checked last and by no other.                    *)
PageIsHonest ==
    page # 0 =>
        /\ busy => UnderWay
        /\ form = "desktop" => (UnderWay => busy) /\ (step = "auth" => serverUrl = wanted)
(* The same on the phone.  Does not hold: two checks may be under way, and *)
(* the earlier one is the last to be answered.                             *)
PhoneIsHonest == page # 0 /\ step = "auth" /\ asks = {} => serverUrl = wanted
(* Who leaves the page is not signed in.  Does not hold: nothing is called *)
(* off, and the profile comes in front when the answer does.               *)
CancelledStaysOut == cancelled \cap joined = {}
===============================================================================
