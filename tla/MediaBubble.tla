------------------------------- MODULE MediaBubble -------------------------------
(***************************************************************************)
(* An attachment in a chat (MediaBubble of both clients, with downloadMedia*)
(* and decryptMedia).  An effect fetches it again whenever something it    *)
(* depends on changes; what an earlier run of the effect brings must not   *)
(* show.  "desktop" is the desktop client, "phone" the mobile one and "web"*)
(* the mobile one in a browser.                                            *)
(***************************************************************************)
EXTENDS Naturals, FiniteSets

CONSTANT MaxRuns  \* runs of the effect
RunsAssumption == MaxRuns \in Nat

VARIABLES
    place,      \* "desktop", "phone" or "web"
    auto,       \* the settings: [cellular, wifi, fits, gallery]
    connection, \* what the device is on: "wifi" or "cellular"
    mounted,    \* the first run of the bubble that is there, 0 when none is
    network,    \* what the bubble has been told
    manual,     \* the user has asked for the attachment
    run,        \* the last run of the effect
    loads,      \* runs under way: [run, mount, at, disposed, gallery]
    uri,        \* the run whose file is shown, 0 when there is none
    failed,
    urls,       \* object URLs that were not revoked, by run
    gallerySaved \* bubbles that have put it in the gallery

bubble == <<mounted, network, manual, run, loads, uri, failed, urls, gallerySaved>>
vars == <<place, auto, connection, bubble>>

(* autoDownloadAllowed: "other" until the phone has been told, and in a    *)
(* browser for good.  The roaming setting is not asked.                      *)
AutoDownloadAllowed(settings, net) == settings.fits /\ (net # "other" => settings[net])
(* mediaAutoDownloadAllowed reads the connection each time it renders.     *)
Allowed(settings, net) == AutoDownloadAllowed(settings, IF place = "desktop" THEN connection ELSE net)
(* What the effect depends on.                                             *)
Dependencies(settings, net, pressed) ==
    IF place = "desktop" THEN <<Allowed(settings, net), pressed>>
    ELSE <<settings.cellular, settings.fits, settings.gallery, net, pressed \/ Allowed(settings, net)>>

Init ==
    /\ place \in {"desktop", "phone", "web"} /\ connection \in {"wifi", "cellular"}
    /\ auto \in [{"cellular", "wifi", "fits", "gallery"} -> BOOLEAN]
    /\ mounted = 0 /\ network = "other" /\ manual = FALSE /\ run = 0 /\ loads = {} /\ uri = 0
    /\ failed = FALSE /\ urls = {} /\ gallerySaved = {}

-------------------------------------------------------------------------------
(* The clean-up of a run: the desktop aborts its request, the phone cannot.*)
Disposed ==
    {[l EXCEPT !.disposed = TRUE] : l \in {l \in loads : place # "desktop" \/ l.at # "download"}}
Disposes == uri' = 0 /\ urls' = urls \ {uri} /\ failed' = FALSE
Runs(settings, net, pressed, mount) ==
    /\ run < MaxRuns /\ run' = run + 1 /\ Disposes
    /\ loads' = Disposed \cup
          (IF pressed \/ Allowed(settings, net)
           THEN {[run |-> run', mount |-> mount, at |-> "download", disposed |-> FALSE,
                  gallery |-> settings.gallery]}
           ELSE {})
RunsIfChanged(settings, net, pressed) ==
    IF Dependencies(settings, net, pressed) = Dependencies(auto, network, manual)
    THEN UNCHANGED <<run, uri, urls, failed, loads>> ELSE Runs(settings, net, pressed, mounted)

Mounts ==
    /\ mounted = 0 /\ mounted' = run + 1 /\ network' = "other" /\ manual' = FALSE
    /\ Runs(auto, "other", FALSE, mounted') /\ UNCHANGED <<place, auto, connection, gallerySaved>>
Unmounts ==
    /\ mounted # 0 /\ mounted' = 0 /\ Disposes /\ loads' = Disposed
    /\ UNCHANGED <<place, auto, connection, network, manual, run, gallerySaved>>
(* NetInfo.fetch and its listener.                                         *)
ApplyNetwork ==
    /\ place = "phone" /\ mounted # 0 /\ network # connection /\ network' = connection
    /\ RunsIfChanged(auto, network', manual)
    /\ UNCHANGED <<place, auto, connection, mounted, manual, gallerySaved>>
ConnectionChanges ==
    /\ connection' \in {"wifi", "cellular"} \ {connection} /\ place # "desktop"
    /\ UNCHANGED <<place, auto, bubble>>
ChangeSettings ==
    /\ mounted # 0 /\ \E name \in DOMAIN auto :
          /\ auto' = [auto EXCEPT ![name] = ~@] /\ RunsIfChanged(auto', network, manual)
    /\ UNCHANGED <<place, connection, mounted, network, manual, gallerySaved>>
PressDownload ==
    /\ mounted # 0 /\ uri = 0 /\ ~failed /\ ~manual /\ ~Allowed(auto, network)
    /\ manual' = TRUE /\ Runs(auto, network, TRUE, mounted)
    /\ UNCHANGED <<place, auto, connection, mounted, network, gallerySaved>>

-------------------------------------------------------------------------------
(* Mutant: what was disposed of is not looked at.                          *)
IsDisposed_Never(l) == FALSE
IsDisposed(l) == l.disposed
Others == <<place, auto, connection, mounted, network, manual, run>>
Goes(l, at) == loads' = (loads \ {l}) \cup {[l EXCEPT !.at = at]}
Downloaded(l) ==
    /\ l.at = "download" /\ Goes(l, "decrypt")
    /\ UNCHANGED <<Others, uri, failed, urls, gallerySaved>>
DownloadMedia(l) == place = "desktop" /\ Downloaded(l)
MobileDownload(l) == place # "desktop" /\ Downloaded(l)
Shows(l) ==
    /\ loads' = loads \ {l} /\ UNCHANGED <<Others, failed>>
    /\ uri' = IF IsDisposed(l) THEN uri ELSE l.run
    /\ urls' = IF IsDisposed(l) \/ place = "phone" THEN urls ELSE urls \cup {l.run}
DecryptMedia(l) ==
    /\ place = "desktop" /\ l.at = "decrypt" /\ Shows(l) /\ UNCHANGED <<gallerySaved>>
MobileDecrypt(l) ==
    /\ place # "desktop" /\ l.at = "decrypt"
    /\ IF place = "phone" THEN Goes(l, "write") /\ UNCHANGED <<Others, uri, failed, urls>> ELSE Shows(l)
    /\ UNCHANGED <<gallerySaved>>
(* A bubble gives the gallery its file once, also in a run disposed of.    *)
WriteFile(l) ==
    /\ l.at = "write"
    /\ IF l.gallery /\ l.mount \notin gallerySaved
       THEN /\ gallerySaved' = gallerySaved \cup {l.mount} /\ Goes(l, "save")
            /\ UNCHANGED <<Others, uri, failed, urls>>
       ELSE Shows(l) /\ UNCHANGED <<gallerySaved>>
SaveNativeFile(l) == l.at = "save" /\ Shows(l) /\ UNCHANGED <<gallerySaved>>
LoadFails(l) ==
    /\ l.at # "save" /\ loads' = loads \ {l} /\ failed' = (failed \/ ~l.disposed)
    /\ UNCHANGED <<Others, uri, urls, gallerySaved>>

Next ==
    \/ Mounts \/ Unmounts \/ ApplyNetwork \/ ConnectionChanges \/ ChangeSettings \/ PressDownload
    \/ \E l \in loads :
          \/ DownloadMedia(l) \/ MobileDownload(l) \/ DecryptMedia(l) \/ MobileDecrypt(l)
          \/ WriteFile(l) \/ SaveNativeFile(l) \/ LoadFails(l)
Spec == Init /\ [][Next]_vars

(* What is shown was brought by the last run of the effect, to a bubble    *)
(* that is still there, and no other object URL is left behind: nothing an *)
(* earlier run brings late shows over it or is kept for good.              *)
OnlyTheLastRunShows ==
    /\ uri # 0 => mounted # 0 /\ uri = run
    /\ urls = IF place = "phone" \/ uri = 0 THEN {} ELSE {uri}
===============================================================================
