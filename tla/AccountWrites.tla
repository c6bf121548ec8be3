----------------------------- MODULE AccountWrites -----------------------------
(***************************************************************************)
(* What a client changes on its account by itself and shows before or after*)
(* the server has agreed (App.tsx, settings-panel.tsx, SettingsScreen.tsx, *)
(* enter-api.ts, rn-api.ts):                                               *)
(*   folders: the whole list is written, shown at once, and shown again as *)
(*      the server's answer;                                               *)
(*   privacy: all switches are written, and shown again as the answer      *)
(*      unless they have been changed since;                               *)
(*   revoked: devices or sessions, taken out when the server has agreed;   *)
(*   blocked: accounts, put in or taken out when the server has agreed.    *)
(* Writes of folders and switches wait for the one before.  A request is   *)
(* given up after REQUEST_TIMEOUT_MS; the server may still get it.         *)
(*                                                                         *)
(* A value is the set of its members and the number of the change that     *)
(* made it, 0 for one made elsewhere.                                      *)
(***************************************************************************)
EXTENDS Naturals, Sequences, FiniteSets, SequencesExt

CONSTANTS
    Documents,  \* of "folders", "privacy", "revoked", "blocked"
    Platforms,
    Entries,    \* devices or sessions there are when the client starts
    Current,    \* this device, or its session
    MaxEdits, MaxFaults, MaxReads, MaxOthers \* bounds

WritesAssumption ==
    /\ Documents \subseteq {"folders", "privacy", "revoked", "blocked"}
    /\ Platforms \subseteq {"desktop", "mobile"} /\ Entries \subseteq 1..99 /\ Current \in Entries
    /\ {MaxEdits, MaxFaults, MaxReads, MaxOthers} \subseteq Nat

VARIABLES
    document, client,
    saved,      \* what the server has
    shown,
    writes,     \* [op, ids, edit, at]: "waiting", "sent" or "stored"
    wire,       \* writes that were given up and may still arrive
    reading,    \* the answer to a sync or a reload on its way
    edits, faults, reads, others,
    chosen,     \* history: what the user chose last
    kept,       \* history: the folders made and not deleted
    overlap,    \* history: what was read while a write was under way is shown
    gaveUp      \* history: a request failed

counters == <<edits, faults, reads, others>>
history == <<chosen, kept, overlap, gaveUp>>
vars == <<document, client, saved, shown, writes, wire, reading, counters, history>>

Value(ids, n) == [ids |-> ids, edit |-> n]
Fresh == 100 + 2 * edits

Init ==
    /\ document \in Documents /\ client \in Platforms
    /\ saved = Value(IF document = "revoked" THEN Entries ELSE {}, 0) /\ shown = saved
    /\ writes = <<>> /\ wire = {} /\ reading = <<>>
    /\ edits = 0 /\ faults = 0 /\ reads = 0 /\ others = 0
    /\ chosen = saved /\ kept = {} /\ overlap = FALSE /\ gaveUp = FALSE

-------------------------------------------------------------------------------
(* A change of the user, put at the end of the writes.                     *)
Ask(op, ids) ==
    /\ edits < MaxEdits /\ edits' = edits + 1
    /\ writes' = Append(writes, [op |-> op, ids |-> ids, edit |-> edits', at |-> "waiting"])
    /\ overlap' = (overlap \/ reading # <<>>)
    /\ UNCHANGED <<document, client, saved, wire, reading, faults, reads, others, gaveUp>>
Choose(ids) ==
    /\ Ask("set", ids) /\ shown' = Value(ids, edits') /\ chosen' = shown'
    /\ kept' = (kept \cup (ids \ shown.ids)) \ (shown.ids \ ids)

SetFoldersAndSync(ids) == document = "folders" /\ Choose(ids)
SaveFolder == SetFoldersAndSync(shown.ids \cup {Fresh}) \/ SetFoldersAndSync(shown.ids)
DeleteFolder == \E f \in shown.ids : SetFoldersAndSync(shown.ids \ {f})
ToggleConversationFolder == shown.ids # {} /\ SetFoldersAndSync(shown.ids)
EditFolders == SaveFolder \/ DeleteFolder \/ ToggleConversationFolder

(* While it loads, the desktop client shows no switches.                   *)
UpdatePrivacy ==
    /\ document = "privacy" /\ (client = "desktop" => reading = <<>>) /\ Choose(shown.ids)

Change(of, op, ids) == document = of /\ Ask(op, ids) /\ UNCHANGED <<shown, chosen, kept>>
ExecutePendingAction == \* of a device, a session, or all sessions but one
    \/ \E e \in shown.ids \ {Current} : Change("revoked", "remove", {e})
    \/ Change("revoked", "keep", {Current})
AddBlockedAccount == Change("blocked", "add", {Fresh}) \* a new id
RemoveBlockedAccount == \E e \in shown.ids : Change("blocked", "remove", {e})

Edit == EditFolders \/ UpdatePrivacy \/ ExecutePendingAction \/ AddBlockedAccount \/ RemoveBlockedAccount
(* The mobile client has them in functions of its own.                     *)
MobileFolders == client = "mobile" /\ EditFolders
MobilePrivacy == client = "mobile" /\ UpdatePrivacy
MobileConfirms ==
    client = "mobile" /\ (ExecutePendingAction \/ AddBlockedAccount \/ RemoveBlockedAccount)
Edits == (client = "desktop" /\ Edit) \/ MobileFolders \/ MobilePrivacy \/ MobileConfirms

-------------------------------------------------------------------------------
(* setFoldersAndSync and savePrivacy chain their writes; the others go at  *)
(* once.  Mutant: none waits.                                              *)
Turn_Any(n) == TRUE
Turn(n) == document \in {"revoked", "blocked"} \/ n = 1
Sends(n) ==
    /\ writes[n].at = "waiting" /\ Turn(n) /\ writes' = [writes EXCEPT ![n].at = "sent"]
    /\ UNCHANGED <<document, client, saved, shown, wire, reading, counters, history>>

(* The requests, by their names in enter-api.ts, and those of rn-api.ts.    *)
Request(on, n, of, op) == client = on /\ document = of /\ writes[n].op = op /\ Sends(n)
UpdateAccountFolders(n) == Request("desktop", n, "folders", "set")
UpdateAccountSettings(n) == Request("desktop", n, "privacy", "set")
BlockAccount(n) == Request("desktop", n, "blocked", "add")
UnblockAccount(n) == Request("desktop", n, "blocked", "remove")
RevokeEntry(n) == Request("desktop", n, "revoked", "remove")
RevokeOtherSessions(n) == Request("desktop", n, "revoked", "keep")
Requests(n) ==
    \/ UpdateAccountFolders(n) \/ UpdateAccountSettings(n) \/ BlockAccount(n) \/ UnblockAccount(n)
    \/ RevokeEntry(n) \/ RevokeOtherSessions(n)
MobileUpdateFolders(n) == Request("mobile", n, "folders", "set")
MobileUpdateSettings(n) == Request("mobile", n, "privacy", "set")
MobileBlock(n) == Request("mobile", n, "blocked", "add")
MobileUnblock(n) == Request("mobile", n, "blocked", "remove")
MobileDelete(n) == Request("mobile", n, "revoked", "remove")
MobileRevokeOthers(n) == Request("mobile", n, "revoked", "keep")
MobileRequests(n) ==
    \/ MobileUpdateFolders(n) \/ MobileUpdateSettings(n) \/ MobileBlock(n) \/ MobileUnblock(n)
    \/ MobileDelete(n) \/ MobileRevokeOthers(n)

After(w, value) ==
    CASE w.op = "set" -> Value(w.ids, w.edit)
      [] w.op = "add" -> Value(value.ids \cup w.ids, 0)
      [] w.op = "remove" -> Value(value.ids \ w.ids, 0)
      [] w.op = "keep" -> Value(value.ids \cap w.ids, 0)
(* The handlers of the server, which answer with what they have stored and *)
(* refuse to remove what is not there.                                     *)
Refused(w) == w.op = "remove" /\ ~(w.ids \subseteq saved.ids)
Stores(n) ==
    /\ writes[n].at = "sent" /\ ~Refused(writes[n]) /\ writes' = [writes EXCEPT ![n].at = "stored"]
    /\ saved' = After(writes[n], saved)
    /\ UNCHANGED <<document, client, shown, wire, reading, counters, history>>
ArrivesLate ==
    /\ \E w \in wire : saved' = After(w, saved) /\ wire' = wire \ {w}
    /\ UNCHANGED <<document, client, shown, writes, reading, counters, history>>

(* The answer.  Mutant: an older one counts too.                           *)
Counts_Always(w) == TRUE
Counts(w) == document # "privacy" \/ w.edit = edits
Answered(n) ==
    /\ writes[n].at = "stored" /\ writes' = RemoveAt(writes, n)
    /\ shown' = IF Counts(writes[n]) THEN After(writes[n], shown) ELSE shown
    /\ UNCHANGED <<document, client, saved, wire, reading, counters, history>>

(* request() gives up, or the server refuses: what is shown stays.         *)
Fails(n) ==
    /\ writes[n].at # "waiting"
    /\ \/ faults < MaxFaults /\ faults' = faults + 1
       \/ writes[n].at = "sent" /\ Refused(writes[n]) /\ UNCHANGED faults
    /\ writes' = RemoveAt(writes, n) /\ gaveUp' = TRUE
    /\ wire' \in IF writes[n].at = "sent" THEN {wire, wire \cup {writes[n]}} ELSE {wire}
    /\ UNCHANGED <<document, client, saved, shown, reading, edits, reads, others, chosen, kept, overlap>>

MobileFails(n) == client = "mobile" /\ Fails(n)

(* A sync, an event of the folders, loadRemote or an opened category.      *)
Reads ==
    /\ reading = <<>> /\ reads < MaxReads /\ reads' = reads + 1 /\ reading' = <<saved, writes = <<>>>>
    /\ UNCHANGED <<document, client, saved, shown, writes, wire, edits, faults, others, history>>
GetAccountSettings == client = "desktop" /\ document = "privacy" /\ Reads
GetBlacklist == client = "desktop" /\ document = "blocked" /\ Reads
GetDevices == client = "desktop" /\ document = "revoked" /\ Reads
FetchAccountSettings == client = "mobile" /\ document = "privacy" /\ Reads
FetchBlacklist == client = "mobile" /\ document = "blocked" /\ Reads
FetchDevices == client = "mobile" /\ document = "revoked" /\ Reads
ReadFolders == document = "folders" /\ Reads
ReadsOne ==
    \/ GetAccountSettings \/ GetBlacklist \/ GetDevices
    \/ FetchAccountSettings \/ FetchBlacklist \/ FetchDevices \/ ReadFolders
ReadArrives ==
    /\ reading # <<>> /\ reading' = <<>> /\ shown' = reading[1]
    /\ overlap' = ~(reading[2] /\ writes = <<>> /\ saved = reading[1])
    /\ gaveUp' = (gaveUp /\ wire # {})
    /\ UNCHANGED <<document, client, saved, writes, wire, counters, chosen, kept>>

(* Another device of the account, whose change is announced.               *)
OtherDevice ==
    /\ others < MaxOthers /\ others' = others + 1 /\ overlap' = TRUE
    /\ \E ids \in {saved.ids \cup {101 + 2 * others}} \cup {saved.ids \ {e} : e \in saved.ids \ {Current}} :
          saved' = Value(ids, 0)
    /\ UNCHANGED <<document, client, shown, writes, wire, reading, edits, faults, reads, chosen, kept, gaveUp>>

Next ==
    \/ Edits
    \/ \E n \in 1..Len(writes) :
          \/ Requests(n) \/ MobileRequests(n) \/ Stores(n) \/ Answered(n)
          \/ (client = "desktop" /\ Fails(n)) \/ MobileFails(n)
    \/ ArrivesLate \/ ReadsOne \/ ReadArrives \/ OtherDevice
Spec == Init /\ [][Next]_vars

-------------------------------------------------------------------------------
(* When nothing is under way the client shows what the server has, unless a*)
(* request failed, another device wrote, or what was read while a write was*)
(* under way has been shown since the last read that was not.              *)
SettledIsTrue ==
    writes = <<>> /\ reading = <<>> /\ ~gaveUp /\ ~overlap => shown = saved

(* The answer to a write leaves the switches as they are or as the user    *)
(* left them.                                                              *)
NoAnswerUndoesAChoice ==
    [][document = "privacy" /\ Len(writes') < Len(writes) => shown' \in {shown, chosen}]_vars

(* A folder the user has made and not deleted is there in the end.  Does   *)
(* not hold: an older answer hides it, and the next change leaves it out.  *)
FolderStays ==
    document = "folders" /\ writes = <<>> /\ faults + reads + others = 0 => kept \subseteq saved.ids
===============================================================================
