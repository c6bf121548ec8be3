------------------------------ MODULE MessageState ------------------------------
(***************************************************************************)
(* The messages of one chat in one client (common/src/message-state.ts and *)
(* its callers in both App.tsx).  The server keeps a log of messages, edits*)
(* and reactions, which are messages too, and of read receipts; the client *)
(* merges what a sync or the socket brings with what it shows already, and *)
(* shows its own messages, edits and reactions before they are in the log. *)
(*                                                                         *)
(* A text is the edit that made it, 0 for the one a message was sent with; *)
(* the delivery status decides nothing here and is left out.               *)
(***************************************************************************)
EXTENDS Naturals, Sequences, FiniteSets, SequencesExt

CONSTANTS
    Limit, \* how many messages, edits, reactions and receipts there may be
    MaxEvents, \* how many of all kinds
    MaxFaults, MaxSyncs, MaxUnread \* bounds
LimitAssumption ==
    /\ Limit \in [{"text", "edit", "reaction", "read"} -> Nat]
    /\ {MaxEvents, MaxFaults, MaxSyncs, MaxUnread} \subseteq Nat

VARIABLES
    log,      \* [kind, id, of, mine]: "text", "edit", "reaction", "none" or "read"
    made,     \* how many of each kind there are
    list,     \* Message[] of the chat: [id, of, mine, text, reaction, read]
    cursor,   \* the client has applied the log up to here
    answer,   \* the answer to a sync on its way: <<since, upto>>
    outbox,   \* own messages under way: [event, at]
    editing,  \* editingMessage, as it was when the editing began
    faults, syncs, unread,
    merged,   \* history: the last change of the list was a merge
    seen,     \* history: how much of the log the list has seen
    passed    \* history: messages an edit of which was not readable at first

server == <<log, made>>
counters == <<faults, syncs, unread>>
history == <<merged, seen, passed>>
vars == <<server, list, cursor, answer, outbox, editing, counters, history>>

Init ==
    /\ log = <<>> /\ made = [kind \in DOMAIN Limit |-> 0] /\ list = <<>> /\ cursor = 0 /\ answer = <<>>
    /\ outbox = {} /\ editing = <<>> /\ faults = 0 /\ syncs = 0 /\ unread = 0
    /\ merged = FALSE /\ seen = 0 /\ passed = {}

NewId == made["text"] + made["edit"] + made["reaction"] + 1
Makes(kind) ==
    /\ made[kind] < Limit[kind] /\ NewId + made["read"] <= MaxEvents
    /\ made' = [made EXCEPT ![kind] = @ + 1]
Event(kind, id, of, mine) == [kind |-> kind, id |-> id, of |-> of, mine |-> mine]
(* decodeMessagePayload: an edit is a message with `editOf`.               *)
Message(e) ==
    [id |-> e.id, of |-> e.of, mine |-> e.mine, text |-> IF e.of = 0 THEN 0 ELSE e.id,
     reaction |-> 0, read |-> FALSE]
(* The places of the messages themselves, and of the edits of one.         *)
Bases(rows) == {i \in DOMAIN rows : rows[i].of = 0}
Edits(rows, id) == {i \in DOMAIN rows : rows[i].of = id}

-------------------------------------------------------------------------------
(* message-state.ts: the edits, in the order of the list, over the messages*)
(* they are about.  The code then puts the edits behind the messages, which*)
(* keeps the order of either; nothing looks at how a message and an edit   *)
(* stand to each other, and here they stay where they are.                 *)
LastEdit(rows, id) == IF Edits(rows, id) = {} THEN 0 ELSE rows[Max(Edits(rows, id))].id
ResolveMessageEdits(rows) ==
    [i \in DOMAIN rows |->
        IF i \in Bases(rows) /\ LastEdit(rows, rows[i].id) # 0
        THEN [rows[i] EXCEPT !.text = LastEdit(rows, rows[i].id)] ELSE rows[i]]
SetText(rows, id, text) ==
    [i \in DOMAIN rows |-> IF rows[i].id = id THEN [rows[i] EXCEPT !.text = text] ELSE rows[i]]
ApplyMessageReaction(rows, e) ==
    [i \in DOMAIN rows |->
        IF rows[i].id = e.of THEN [rows[i] EXCEPT !.reaction = IF e.kind = "none" THEN 0 ELSE e.id]
        ELSE rows[i]]

(* Mutant: the edits are looked at only when one comes.                    *)
Resolves_Edit(m) == m.of # 0
Resolves(m) == TRUE
Merge(rows, m) ==
    LET there == \E i \in DOMAIN rows : rows[i].id = m.id
        next == IF there THEN SetText(rows, m.id, m.text) ELSE Append(rows, m)
    IN IF Resolves(m) THEN ResolveMessageEdits(next) ELSE next
MergeOne(rows, e) ==
    IF e.kind = "read" THEN rows
    ELSE IF e.kind \in {"reaction", "none"} THEN ApplyMessageReaction(rows, e)
    ELSE Merge(rows, Message(e))
MergeRemoteMessages(rows, events) ==
    LET after[n \in 0..Len(events)] == IF n = 0 THEN rows ELSE MergeOne(after[n - 1], events[n])
    IN after[Len(events)]
MergeReadReceipts(rows, events) ==
    [i \in DOMAIN rows |->
        IF \E n \in DOMAIN events : events[n].kind = "read" /\ events[n].of = rows[i].id
        THEN [rows[i] EXCEPT !.read = TRUE] ELSE rows[i]]
ReconcileRemoteMessages(rows, events) == MergeReadReceipts(MergeRemoteMessages(rows, events), events)

-------------------------------------------------------------------------------
(* applySyncResult and applyRealtimeEvent, as far as the messages go.  A   *)
(* sync asks from the cursor; its answer may come after the socket has     *)
(* moved the cursor on.                                                    *)
Later(i, j) == IF i > j THEN i ELSE j
Applies(events, upto) ==
    /\ list' = ReconcileRemoteMessages(list, events) /\ seen' = Later(seen, upto)
    /\ merged' = (merged \/ \E i \in DOMAIN events : events[i].kind \in {"text", "edit"})
    /\ UNCHANGED <<server, outbox, editing>>
ApplyRealtimeEvent ==
    /\ cursor < Len(log) /\ Applies(<<log[cursor + 1]>>, cursor + 1) /\ cursor' = cursor + 1
    /\ UNCHANGED <<answer, counters, passed>>
SyncProfile ==
    /\ answer = <<>> /\ syncs < MaxSyncs /\ syncs' = syncs + 1 /\ answer' = <<cursor, Len(log)>>
    /\ UNCHANGED <<server, list, cursor, outbox, editing, faults, unread, history>>
Window == SubSeq(log, answer[1] + 1, answer[2])
ApplySyncResult ==
    /\ answer # <<>> /\ answer' = <<>> /\ Applies(Window, answer[2])
    /\ cursor' = Later(cursor, answer[2])
    /\ UNCHANGED <<counters, passed>>
(* One of them cannot be read yet: the rest counts, the cursor stays.      *)
ApplyReadable ==
    /\ answer # <<>> /\ answer' = <<>> /\ unread < MaxUnread /\ unread' = unread + 1
    /\ \E i \in DOMAIN Window :
          /\ Window[i].kind # "read" /\ Applies(RemoveAt(Window, i), answer[2])
          /\ passed' = passed \cup {Window[i].of}
    /\ UNCHANGED <<cursor, faults, syncs>>

-------------------------------------------------------------------------------
(* What the user does shows at once and is sent.                           *)
Changes(rows) == list' = rows /\ merged' = FALSE
Sends(e) ==
    /\ Makes(IF e.kind = "none" THEN "reaction" ELSE e.kind) /\ outbox' = outbox \cup {[event |-> e, at |-> "queued"]}
    /\ UNCHANGED <<log, cursor, answer, counters, seen, passed>>
SendMessage ==
    LET e == Event("text", NewId, 0, TRUE) IN
    Sends(e) /\ UNCHANGED editing /\ list' = Merge(list, Message(e)) /\ merged' = TRUE
EditMessage ==
    /\ \E i \in Bases(list) : list[i].mine /\ editing' = <<list[i]>>
    /\ UNCHANGED <<server, list, cursor, answer, outbox, counters, history>>
(* The message goes back to what it was when the editing began.            *)
ApplyMessageEdit ==
    /\ editing # <<>> /\ editing' = <<>> /\ Sends(Event("edit", NewId, editing[1].id, TRUE))
    /\ Changes([i \in DOMAIN list |->
                   IF list[i].id = editing[1].id THEN [editing[1] EXCEPT !.text = NewId] ELSE list[i]])
ReactToMessage ==
    \E i \in Bases(list) :
        LET m == list[i]
            e == Event(IF m.reaction = 0 THEN "reaction" ELSE "none", NewId, m.id, TRUE)
        IN Sends(e) /\ Changes(ApplyMessageReaction(list, e)) /\ UNCHANGED editing
DeleteMessage ==
    /\ \E i \in Bases(list) : Changes(RemoveAt(list, i))
    /\ faults < MaxFaults /\ faults' = faults + 1
    /\ UNCHANGED <<server, cursor, answer, outbox, editing, syncs, unread, seen, passed>>

(* sendMessageToConversation, whose updates of the local message are copies*)
(* of the one that was given to it.                                        *)
At(r, at) == [r EXCEPT !.at = at]
UpdateLocalMessage(r) == Changes(SetText(list, r.event.id, Message(r.event).text))
Moves(r, rest) == outbox' = (outbox \ {r}) \cup rest
Seals(r) ==
    /\ r.at = "queued" /\ Moves(r, {At(r, "sealed")}) /\ UpdateLocalMessage(r)
    /\ UNCHANGED <<server, cursor, answer, editing, counters, seen, passed>>
Posts(r) ==
    /\ r.at = "sealed" /\ Moves(r, {At(r, "stored")})
    /\ log' = IF \E i \in DOMAIN log : log[i].id = r.event.id THEN log ELSE Append(log, r.event)
    /\ UNCHANGED <<made, list, cursor, answer, editing, counters, history>>
Answered(r) ==
    /\ r.at = "stored" /\ Moves(r, {}) /\ UpdateLocalMessage(r)
    /\ UNCHANGED <<server, cursor, answer, editing, counters, seen, passed>>
(* Refused, or the answer was lost: kept in the outbox for another try.    *)
Fails(r) ==
    /\ r.at # "queued" /\ faults < MaxFaults /\ faults' = faults + 1 /\ Moves(r, {At(r, "queued")})
    /\ UNCHANGED <<server, list, cursor, answer, editing, syncs, unread, history>>

(* The peer and the other devices of the account.                          *)
Elsewhere ==
    /\ \/ Makes("text") /\ log' = Append(log, Event("text", NewId, 0, FALSE))
       \/ \E i \in DOMAIN log : log[i].kind = "text" /\
             \/ Makes("edit") /\ log' = Append(log, Event("edit", NewId, log[i].id, FALSE))
             \/ /\ Makes("reaction")
                /\ \E kind \in {"reaction", "none"} : log' = Append(log, Event(kind, NewId, log[i].id, FALSE))
    /\ UNCHANGED <<list, cursor, answer, outbox, editing, counters, history>>
PeerReads ==
    /\ Makes("read")
    /\ \E i \in DOMAIN log : log[i].kind = "text" /\ log[i].mine
          /\ log' = Append(log, Event("read", 0, log[i].id, FALSE))
    /\ UNCHANGED <<list, cursor, answer, outbox, editing, counters, history>>

Next ==
    \/ ApplyRealtimeEvent \/ SyncProfile \/ ApplySyncResult \/ ApplyReadable
    \/ SendMessage \/ EditMessage \/ ApplyMessageEdit \/ ReactToMessage \/ DeleteMessage
    \/ \E r \in outbox : Seals(r) \/ Posts(r) \/ Answered(r) \/ Fails(r)
    \/ Elsewhere \/ PeerReads
Spec == Init /\ [][Next]_vars

-------------------------------------------------------------------------------
(* What the list has seen of the log about a message: its places.          *)
About(kinds, id) == {p \in 1..seen : log[p].kind \in kinds /\ log[p].of = id}
UnderWay(kinds, id) ==
    \/ \E r \in outbox : r.event.of = id /\ r.event.kind \in kinds
    \/ \E i \in seen + 1..Len(log) : log[i].mine /\ log[i].of = id /\ log[i].kind \in kinds
(* What a merge leaves shows every message as the last edit of the log has *)
(* it, whatever the order messages, edits, old answers and the own edits   *)
(* came in, unless an own edit of it is not in the log yet or one came     *)
(* late because it could not be read.  It is what makes two devices agree. *)
EditsAgree ==
    merged => \A i \in Bases(list) :
        LET m == list[i] corrections == About({"edit"}, m.id) IN
        ~UnderWay({"edit"}, m.id) /\ m.id \notin passed =>
            m.text = IF corrections = {} THEN 0 ELSE log[Max(corrections)].id

(* The same of reactions.  Does not hold: an old answer brings one back.   *)
ReactionsAgree ==
    \A i \in Bases(list) :
        LET m == list[i] reactions == About({"reaction", "none"}, m.id) last == log[Max(reactions)] IN
        /\ merged /\ unread + faults + made["edit"] = 0 /\ answer = <<>>
        /\ ~UnderWay({"reaction", "none"}, m.id) /\ reactions # {}
        => m.reaction = IF last.kind = "none" THEN 0 ELSE last.id
(* A message the peer has read stays so.  Does not hold: an edit that was  *)
(* begun before puts the message back to what it was.                      *)
ReadStays ==
    [][\A i \in DOMAIN list, j \in DOMAIN list' :
           list[i].id = list'[j].id /\ list[i].read => list'[j].read]_vars
(* An edit that was delivered stays.  Does not hold: the late answer to the*)
(* request that sent the message copies the first text over it.            *)
EditStays ==
    [][\A i \in DOMAIN list, j \in DOMAIN list' :
           /\ list[i].id = list'[j].id /\ list[i].text # 0 /\ passed = {} /\ ~UnderWay({"edit"}, list[i].id)
           => list'[j].text # 0]_vars
===============================================================================
