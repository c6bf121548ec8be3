------------------------------ MODULE EventStore ------------------------------
(***************************************************************************)
(* The message side of the server's store (server/src/storage.rs, SQLite): *)
(* accounts, conversations, message rows, receipts, and the per-account    *)
(* realtime event log with its cursor.  Every operation runs under the     *)
(* connection's mutex inside one transaction, so it is one action.         *)
(*                                                                         *)
(* The clock: handlers call now_ms() before they reach the store, requests *)
(* overlap, and the wall clock may step; so an operation's timestamp is    *)
(* any member of Times, in any order.                                      *)
(***************************************************************************)
EXTENDS Integers, FiniteSets, Functions

CONSTANTS
    Accounts,       \* accounts of this server
    RemotePeers,    \* addresses on other servers
    Messages,       \* client message ids (UUIDs minted by the sender's client)
    SenderOf,       \* SenderOf[m]: who minted m
    Keys,           \* device / account key ids
    Times,          \* timestamps, in milliseconds
    MaxSyncEvents   \* MAX_SYNC_EVENTS: the page size of sync

ASSUME StoreAssumption ==
    /\ IsFiniteSet(Messages)
    /\ Accounts \cap RemotePeers = {}
    /\ SenderOf \in [Messages -> Accounts \cup RemotePeers]
    /\ Times \subseteq Nat \ {0}
    /\ MaxSyncEvents \in Nat \ {0}

VARIABLES
    accounts,          \* accounts[a]: "absent", "live" or "deleted"
    conversations,     \* pairs <<owner, peer>>: UNIQUE(owner_account_id, handle)
    messages,          \* the rows of table messages
    log,               \* table realtime_events, per account
    cursors,           \* table realtime_event_cursors
    reads,             \* table conversation_reads (0: no row)
    readReceipts,      \* table message_read_receipts (0: no row)
    deliveryReceipts   \* table message_delivery_receipts (0: no row)

vars == <<accounts, conversations, messages, log, cursors,
          reads, readReceipts, deliveryReceipts>>

-------------------------------------------------------------------------------
(* The two system conversations every account owns, and all other peers. *)
Official == "official"
Favorites == "favorites"
Peers == Accounts \cup RemotePeers \cup {Official, Favorites}

(* Row ids.  The primary copy takes the client message id itself, the      *)
(* sender's further copies "copy:account:message:key", a delivered copy    *)
(* "inbound:account:message:key" ("relayed" when its delivery id also      *)
(* names the sending server), a history copy                               *)
(* "device-copy:account:message:key".                                      *)
Own(m) == <<"own", m>>
Copy(a, m, k) == <<"copy", a, m, k>>
Inbound(a, m, k) ==
    <<IF SenderOf[m] \in RemotePeers THEN "relayed" ELSE "inbound", a, m, k>>
DeviceCopy(a, m, k) == <<"device-copy", a, m, k>>

RowIds == ({"own"} \X Messages)
          \cup ({"copy", "inbound", "relayed", "device-copy"}
                  \X Accounts \X Messages \X Keys)

Rows == [id : RowIds, owner : Accounts, peer : Peers,
         author : {"me", "them"}, mid : Messages, createdAt : Times]

(* An event names its source: a message row, or <<message, timestamp>> for *)
(* a receipt (source_id "message:value").                                  *)
Kinds == {"message", "readReceipt", "deliveryReceipt"}
Events == [cursor : Nat, kind : Kinds, source : RowIds \cup (Messages \X Times)]

Live(a) == accounts[a] = "live"
RowExists(id) == \E r \in messages : r.id = id
Stored(a, kind, source) == \E e \in log[a] : e.kind = kind /\ e.source = source

Init ==
    /\ accounts = [a \in Accounts |-> "absent"]
    /\ conversations = {}
    /\ messages = {}
    /\ log = [a \in Accounts |-> {}]
    /\ cursors = [a \in Accounts |-> 0]
    /\ reads = [x \in Accounts \X Peers |-> 0]
    /\ readReceipts = [x \in Messages \X Accounts |-> 0]
    /\ deliveryReceipts = [x \in Messages \X Accounts |-> 0]

-------------------------------------------------------------------------------
(* Mutant of append_sqlite_event: the UPDATE of the cursor is forgotten.   *)
AppendEvent_CursorNotMoved(a, kind, source) ==
    /\ log' = [log EXCEPT ![a] = @ \cup
            {[cursor |-> cursors[a] + 1, kind |-> kind, source |-> source]}]
    /\ UNCHANGED cursors

(* append_sqlite_event: an event already stored keeps its cursor, a new    *)
(* one takes the next cursor of the account.                               *)
AppendEvent(a, kind, source) ==
    IF Stored(a, kind, source)
    THEN UNCHANGED <<log, cursors>>
    ELSE /\ cursors' = [cursors EXCEPT ![a] = @ + 1]
         /\ log' = [log EXCEPT ![a] = @ \cup
                {[cursor |-> cursors[a] + 1, kind |-> kind, source |-> source]}]

(* The same for the read receipts of several messages, in the order of     *)
(* their sorted ids: some order, here any.                                 *)
AppendReadReceipts(a, mids, t) ==
    LET new == {m \in mids : ~Stored(a, "readReceipt", <<m, t>>)}
        top == cursors[a] + Cardinality(new)
    IN  \E num \in Bijection(new, (cursors[a] + 1)..top) :
           /\ cursors' = [cursors EXCEPT ![a] = top]
           /\ log' = [log EXCEPT ![a] = @ \cup
                {[cursor |-> num[m], kind |-> "readReceipt", source |-> <<m, t>>]
                    : m \in new}]

(* Mutant: the row is stored and its event forgotten. *)
InsertRow_NoEvent(id, a, p, author, m, t) ==
    /\ messages' = messages \cup {[id |-> id, owner |-> a, peer |-> p,
                                   author |-> author, mid |-> m, createdAt |-> t]}
    /\ UNCHANGED <<log, cursors>>

(* A message row and its event, in the one transaction. *)
InsertRow(id, a, p, author, m, t) ==
    /\ messages' = messages \cup {[id |-> id, owner |-> a, peer |-> p,
                                   author |-> author, mid |-> m, createdAt |-> t]}
    /\ AppendEvent(a, "message", id)

(* create_account: the account, its cursor row and its system chats. *)
CreateAccount(a) ==
    /\ accounts[a] = "absent"
    /\ accounts' = [accounts EXCEPT ![a] = "live"]
    /\ conversations' = conversations \cup {<<a, Official>>, <<a, Favorites>>}
    /\ UNCHANGED <<messages, log, cursors, reads, readReceipts, deliveryReceipts>>

(* delete_account: one DELETE, the rest by ON DELETE CASCADE.  The rows    *)
(* other accounts hold of its messages stay.  Account ids are UUIDs, never *)
(* used again.                                                             *)
DeleteAccount(a) ==
    /\ Live(a)
    /\ accounts' = [accounts EXCEPT ![a] = "deleted"]
    /\ conversations' = {c \in conversations : c[1] # a}
    /\ messages' = {r \in messages : r.owner # a}
    /\ log' = [log EXCEPT ![a] = {}]
    /\ cursors' = [cursors EXCEPT ![a] = 0]
    /\ reads' = [x \in Accounts \X Peers |-> IF x[1] = a THEN 0 ELSE reads[x]]
    /\ readReceipts' =
          [x \in Messages \X Accounts |-> IF x[2] = a THEN 0 ELSE readReceipts[x]]
    /\ deliveryReceipts' =
          [x \in Messages \X Accounts |-> IF x[2] = a THEN 0 ELSE deliveryReceipts[x]]

CreateDirectConversation(a, p) ==
    /\ Live(a)
    /\ p # a
    /\ <<a, p>> \notin conversations
    /\ conversations' = conversations \cup {<<a, p>>}
    /\ UNCHANGED <<accounts, messages, log, cursors, reads, readReceipts,
                   deliveryReceipts>>

(* insert_message for the primary copy.  A resend finds the row and        *)
(* changes nothing.                                                        *)
InsertMessage(a, p, m, t) ==
    /\ SenderOf[m] = a
    /\ <<a, p>> \in conversations
    /\ p # Official
    /\ ~RowExists(Own(m))
    /\ InsertRow(Own(m), a, p, "me", m, t)
    /\ UNCHANGED <<accounts, conversations, reads, readReceipts, deliveryReceipts>>

(* insert_message for a further copy of the same request. *)
InsertMessageCopy(a, p, m, k, t) ==
    /\ \E r \in messages : r.id = Own(m) /\ r.owner = a /\ r.peer = p
    /\ <<a, p>> \in conversations
    /\ ~RowExists(Copy(a, m, k))
    /\ InsertRow(Copy(a, m, k), a, p, "me", m, t)
    /\ UNCHANGED <<accounts, conversations, reads, readReceipts, deliveryReceipts>>

(* Who may ask for a delivery of m to b: the sender's request, which has   *)
(* stored its own row in the conversation with b (and may still be running *)
(* when the sender's account is deleted), or another server.               *)
Deliverable(m, b) ==
    LET s == SenderOf[m] IN
    \/ s \in RemotePeers
    \/ /\ s \in Accounts \ {b}
       /\ \/ accounts[s] = "deleted"
          \/ \E r \in messages : r.id = Own(m) /\ r.peer = b

(* deliver_message: a copy already stored is refused; the conversation     *)
(* with the sender is created when it is missing.                          *)
DeliverMessage(b, m, k, t) ==
    /\ Live(b)
    /\ Deliverable(m, b)
    /\ ~RowExists(Inbound(b, m, k))
    /\ conversations' = conversations \cup {<<b, SenderOf[m]>>}
    /\ InsertRow(Inbound(b, m, k), b, SenderOf[m], "them", m, t)
    /\ UNCHANGED <<accounts, reads, readReceipts, deliveryReceipts>>

(* add_device_message_copy: re-encrypts for key k a row the account holds, *)
(* found by the message id or by "message:source_key".  A row relayed by   *)
(* another server has a longer delivery id and is not found.               *)
AddDeviceMessageCopy(a, m, k) ==
    \E r \in messages :
        /\ r.owner = a
        /\ r.id = Own(m) \/ \E sk \in Keys : r.id = <<"inbound", a, m, sk>>
        /\ ~RowExists(DeviceCopy(a, m, k))
        /\ InsertRow(DeviceCopy(a, m, k), a, r.peer, r.author, m, r.createdAt)
        /\ UNCHANGED <<accounts, conversations, reads, readReceipts, deliveryReceipts>>

(* The upserts of mark_conversation_read: a read mark moves forward only   *)
(* (MAX), a receipt is rewritten only by a later one; and that of          *)
(* mark_message_delivered, where the first ACK wins (DO NOTHING).  After   *)
(* each, its mutant without that clause.                                   *)
Later_LastWins(x, t) == t
Later(x, t) == IF x < t THEN t ELSE x

Outdated_AnyOther(m, a, t) == readReceipts[<<m, a>>] # t
Outdated(m, a, t) == readReceipts[<<m, a>>] < t

FirstAck_Always(m, b) == TRUE
FirstAck(m, b) == deliveryReceipts[<<m, b>>] = 0

(* mark_conversation_read: moves the read mark forward, then the receipt   *)
(* of every message up to t that has an older one, and tells the sender    *)
(* when the sender's own row is here.  Every 'them' row of a conversation  *)
(* comes from its peer, so that sender is p.                               *)
MarkConversationRead(a, p, t) ==
    LET seen == {r.mid : r \in {r \in messages :
                    /\ r.owner = a /\ r.peer = p
                    /\ r.author = "them" /\ r.createdAt <= t}}
        changed == {m \in seen : Outdated(m, a, t)}
        told == {m \in changed : RowExists(Own(m))}
    IN
    /\ <<a, p>> \in conversations
    /\ reads' = [reads EXCEPT ![<<a, p>>] = Later(@, t)]
    /\ readReceipts' = [x \in Messages \X Accounts |->
            IF x[2] = a /\ x[1] \in changed THEN t ELSE readReceipts[x]]
    /\ IF told = {} THEN UNCHANGED <<log, cursors>>
                    ELSE AppendReadReceipts(p, told, t)
    /\ UNCHANGED <<accounts, conversations, messages, deliveryReceipts>>

(* mark_message_delivered: only for a message the sender's own row of is   *)
(* here and of which b holds a copy; only the first ACK counts.            *)
MarkMessageDelivered(b, m, t) ==
    /\ \E r \in messages : r.owner = b /\ r.author = "them" /\ r.mid = m
    /\ FirstAck(m, b)
    /\ deliveryReceipts' = [deliveryReceipts EXCEPT ![<<m, b>>] = t]
    /\ \E r \in messages :
          r.id = Own(m) /\ AppendEvent(r.owner, "deliveryReceipt", <<m, t>>)
    /\ UNCHANGED <<accounts, conversations, messages, reads, readReceipts>>

Next ==
    \/ \E a \in Accounts : CreateAccount(a) \/ DeleteAccount(a)
    \/ \E a \in Accounts, p \in Accounts \cup RemotePeers :
          CreateDirectConversation(a, p)
    \/ \E a \in Accounts, p \in Peers, m \in Messages, t \in Times :
          \/ InsertMessage(a, p, m, t)
          \/ \E k \in Keys : InsertMessageCopy(a, p, m, k, t)
    \/ \E b \in Accounts, m \in Messages, k \in Keys, t \in Times :
          DeliverMessage(b, m, k, t)
    \/ \E a \in Accounts, m \in Messages, k \in Keys : AddDeviceMessageCopy(a, m, k)
    \* A system chat holds no 'them' row: marking it read moves only its mark.
    \/ \E a \in Accounts, p \in Accounts \cup RemotePeers, t \in Times :
          MarkConversationRead(a, p, t)
    \/ \E b \in Accounts, m \in Messages, t \in Times : MarkMessageDelivered(b, m, t)

Spec == Init /\ [][Next]_vars

-------------------------------------------------------------------------------
(* What sync reads: the first page of events after `since`, and the cursor *)
(* it returns with it (the mutant returns the account's).                  *)
EventsSince(a, since) == {e \in log[a] : e.cursor > since}

SyncPage(a, since) ==
    {e \in EventsSince(a, since) :
        Cardinality({f \in EventsSince(a, since) : f.cursor <= e.cursor}) <= MaxSyncEvents}

SyncCursor_OfAccount(a, since) == cursors[a]

SyncCursor(a, since) ==
    IF SyncPage(a, since) = {} THEN cursors[a]
    ELSE CHOOSE c \in {e.cursor : e \in SyncPage(a, since)} :
            \A e \in SyncPage(a, since) : e.cursor <= c

-------------------------------------------------------------------------------
(* Every variable has its type. *)
TypeOK ==
    /\ accounts \in [Accounts -> {"absent", "live", "deleted"}]
    /\ conversations \subseteq Accounts \X Peers
    /\ messages \subseteq Rows
    /\ log \in [Accounts -> SUBSET Events]
    /\ cursors \in [Accounts -> Nat]
    /\ reads \in [Accounts \X Peers -> Nat]
    /\ readReceipts \in [Messages \X Accounts -> Nat]
    /\ deliveryReceipts \in [Messages \X Accounts -> Nat]

(* The event log is dense: the events of an account are numbered from 1 to *)
(* its cursor, each number once.  A client that receives cursor c + 1      *)
(* after c knows that it has missed nothing.                               *)
LogIsDense ==
    \A a \in Accounts :
        /\ {e.cursor : e \in log[a]} = 1..cursors[a]
        /\ \A e, f \in log[a] : e.cursor = f.cursor => e = f

(* A stored row and its event are stored together: the messages an account *)
(* finds in its log are the rows it owns, one event for each, whatever was *)
(* resent, delivered twice, copied for a new device or deleted.            *)
LogMirrorsRows ==
    \A a \in Accounts :
        /\ {e.source : e \in {e \in log[a] : e.kind = "message"}}
              = {r.id : r \in {r \in messages : r.owner = a}}
        /\ \A e, f \in log[a] :
              e.kind = f.kind /\ e.source = f.source => e = f

(* A sender hears of each message at most one delivery, and only when the  *)
(* peer really held a copy of it: the peer still does, or its account is   *)
(* gone.                                                                   *)
DeliveredOnceAndTruly ==
    \A s \in Accounts, m \in Messages :
        LET heard == {e \in log[s] : e.kind = "deliveryReceipt" /\ e.source[1] = m}
        IN  /\ \A e, f \in heard : e = f
            /\ heard # {} =>
                 \E b \in Accounts \ {s} :
                    \/ accounts[b] = "deleted"
                    \/ \E r \in messages :
                          r.owner = b /\ r.peer = s /\ r.author = "them" /\ r.mid = m

(* The read receipts a sender hears of one message go forward in time.     *)
ReadReceiptsGoForward ==
    \A s \in Accounts : \A e, f \in log[s] :
        /\ e.kind = "readReceipt" /\ f.kind = "readReceipt"
        /\ e.source[1] = f.source[1]
        /\ e.cursor < f.cursor
        => e.source[2] < f.source[2]

(* A sender that heard "read at t" can rely on it: the reader (if its      *)
(* account still exists) has marked the conversation read up to t at       *)
(* least, and holds a copy that t covers.                                  *)
ReadReceiptsAreTrue ==
    \A s \in Accounts : \A e \in log[s] :
        e.kind = "readReceipt" =>
            \E b \in Accounts \ {s} :
                \/ accounts[b] = "deleted"
                \/ /\ reads[<<b, s>>] >= e.source[2]
                   /\ \E r \in messages :
                        /\ r.owner = b /\ r.peer = s /\ r.author = "them"
                        /\ r.mid = e.source[1] /\ r.createdAt <= e.source[2]

(* A page of sync covers exactly the events up to the cursor it returns,   *)
(* and goes forward whenever there is something to fetch: a client that    *)
(* pages from the cursor it got never skips an event.                      *)
PagesDoNotSkip ==
    \A a \in Accounts : \A since \in 0..cursors[a] :
        /\ SyncPage(a, since) =
              {e \in log[a] : since < e.cursor /\ e.cursor <= SyncCursor(a, since)}
        /\ since < cursors[a] => SyncCursor(a, since) > since

(* The store implements the abstract event log. *)
Log == INSTANCE EventLog
ImplementsEventLog == Log!Spec
===============================================================================
