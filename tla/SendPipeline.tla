----------------------------- MODULE SendPipeline -----------------------------
(***************************************************************************)
(* One message on its way from the sender's request to the copies the      *)
(* peer's devices read: send_message, deliver_local_message,               *)
(* forward_federation_message and, on the peer's server,                   *)
(* federation_delivery (server/src/main.rs).                               *)
(*                                                                         *)
(* Each attempt of a client to send the message is a handler of its own.   *)
(* A handler awaits a storage call or a request at every step, so attempts *)
(* overlap with each other, with revocations and with the peer's blocklist;*)
(* any of them may end at any await: a storage error, a dropped future, a  *)
(* crash.  The queries that decide about one copy are one step, and so is  *)
(* the call that stores it.  The accounts stay and the conversation can be *)
(* written to; what is published is in RealtimeStream.                     *)
(***************************************************************************)
EXTENDS Integers, Sequences

CONSTANTS
    Attempts,   \* bound: requests that carry the message
    PeerKeys,   \* keys of the peer: devices and account key
    OwnKeys,    \* keys of the sender, likewise
    Device,     \* the key of the device that sends
    Batches,    \* the sequences of keys a request may carry copies for: the
                \* client always makes one for the device it runs on
    Urls,       \* the urls federation_urls gives for the peer's server
    MaxChanges  \* bound: changes of the registry and of the blocklist

Keys == PeerKeys \cup OwnKeys

ASSUME SendAssumption ==
    /\ Device \in OwnKeys /\ PeerKeys \cap OwnKeys = {}
    /\ Batches \subseteq Seq(Keys)
    /\ \A b \in Batches : \E i \in 1..Len(b) : b[i] = Device
    /\ Urls \in Nat \ {0} /\ MaxChanges \in Nat

VARIABLES
    federated,   \* the peer lives on another server
    registered,  \* the keys in device_keys and account_keys, of both servers
    blocked,     \* the sender is on the peer's blocklist
    changes,
    task,        \* task[h]: how far the attempt's handler is
    batch,       \* batch[h]: the copies of its request, by key
    at,          \* at[h]: the copy its loop is at
    url,         \* url[h]: the url its delivery is posted to
    wire,        \* deliveries at the peer's server
    rows,        \* rows of the message, and the attempt that stored each
    shut,        \* history: attempts begun while blocked, and blocked since
    revoked      \* history: revoked[h]: keys without registration since h began

setup == <<federated, registered, blocked, changes>>
progress == <<task, batch, at, url>>
history == <<shut, revoked>>
vars == <<setup, progress, wire, rows, history>>

-------------------------------------------------------------------------------
Rows == [owner : {"sender", "peer"}, id : {"primary", "copy"}, key : Keys, by : Attempts]
Deliveries == [by : Attempts, key : Keys, url : 1..Urls, stage : {"sent", "cleared", "stored"}]

Key(h) == batch[h][at[h]]
Here(k) == k \in OwnKeys \/ ~federated

Primary == \E r \in rows : r.id = "primary"
Copied(k) == \E r \in rows : r.owner = "sender" /\ r.id = "copy" /\ r.key = k
Delivered(k) == \E r \in rows : r.owner = "peer" /\ r.key = k

Init ==
    /\ federated \in BOOLEAN /\ registered = Keys /\ blocked = FALSE
    /\ changes = 0
    /\ task = [h \in Attempts |-> "idle"] /\ batch \in [Attempts -> Batches]
    /\ at = [h \in Attempts |-> 1] /\ url = [h \in Attempts |-> 1]
    /\ wire = {} /\ rows = {}
    /\ shut = {} /\ revoked = [h \in Attempts |-> {}]

(* A loop over the copies: on to the next one, or to what follows it.      *)
Step(h, again, next) ==
    IF at[h] < Len(batch[h])
    THEN task' = [task EXCEPT ![h] = again] /\ at' = [at EXCEPT ![h] = @ + 1]
    ELSE task' = [task EXCEPT ![h] = next] /\ at' = [at EXCEPT ![h] = 1]

Goto(h, place) == task' = [task EXCEPT ![h] = place] /\ UNCHANGED at

Fail(h) == task' = [task EXCEPT ![h] = "failed"] /\ at' = [at EXCEPT ![h] = 1]

-------------------------------------------------------------------------------
Begin(h) ==
    /\ task[h] = "idle"
    /\ Goto(h, "checking")
    /\ shut' = IF blocked THEN shut \cup {h} ELSE shut
    /\ revoked' = [revoked EXCEPT ![h] = Keys \ registered]
    /\ UNCHANGED <<setup, batch, url, wire, rows>>

(* Mutant: only the sending device is looked up, not the key of the copy.  *)
Checks_AnyKey(k) == Device \in registered

(* Every copy is checked before the first is stored: the sending device is *)
(* registered, and the key too when its account lives here.                *)
Checks(k) == Device \in registered /\ (Here(k) => k \in registered)

Check(h) ==
    /\ task[h] = "checking"
    /\ IF Checks(Key(h)) THEN Step(h, "checking", "storing") ELSE Fail(h)
    /\ UNCHANGED <<setup, batch, url, wire, rows, history>>

(* Mutant: only the primary copy is stored. *)
Insert_NoCopies(h) ==
    IF at[h] # 1 \/ Primary THEN UNCHANGED rows
    ELSE rows' = rows \cup
            {[owner |-> "sender", id |-> "primary", key |-> Key(h), by |-> h]}

(* insert_message: the first copy is the message's row, by its id, and     *)
(* stays what it is when the message is sent again; the others have rows   *)
(* of their own.                                                           *)
Insert(h) ==
    LET id == IF at[h] = 1 THEN "primary" ELSE "copy"
        known == IF at[h] = 1 THEN Primary ELSE Copied(Key(h))
    IN  rows' = IF known THEN rows
                ELSE rows \cup {[owner |-> "sender", id |-> id, key |-> Key(h), by |-> h]}

StoreOwn(h) ==
    /\ task[h] = "storing"
    /\ Insert(h)
    /\ Step(h, "storing", "delivering")
    /\ UNCHANGED <<setup, batch, url, wire, history>>

(* A copy for the sender's own devices has no further delivery. *)
SkipOwn(h) ==
    /\ task[h] = "delivering" /\ Key(h) \in OwnKeys
    /\ Step(h, "delivering", "accepted")
    /\ UNCHANGED <<setup, batch, url, wire, rows, history>>

-------------------------------------------------------------------------------
(* Mutant: the blocklist is not asked. *)
Welcome_Always == TRUE
Welcome == ~blocked

(* deliver_local_message asks the peer's blocklist, *)
ClearLocal(h) ==
    /\ task[h] = "delivering" /\ Key(h) \in PeerKeys /\ ~federated
    /\ IF Welcome THEN Goto(h, "cleared") ELSE Fail(h)
    /\ UNCHANGED <<setup, batch, url, wire, rows, history>>

(* deliver_message: a copy that was delivered before is left as it is.     *)
Receive(k, h) ==
    rows' = IF Delivered(k) THEN rows
            ELSE rows \cup {[owner |-> "peer", id |-> "copy", key |-> k, by |-> h]}

(* and then, in a call of its own, stores the copy. *)
DeliverLocal(h) ==
    /\ task[h] = "cleared"
    /\ Receive(Key(h), h)
    /\ Step(h, "delivering", "accepted")
    /\ UNCHANGED <<setup, batch, url, wire, history>>

-------------------------------------------------------------------------------
Delivery(h, u, s) == [by |-> h, key |-> Key(h), url |-> u, stage |-> s]

(* forward_federation_message posts the copy, to one url after the other.  *)
Forward(h) ==
    /\ task[h] = "delivering" /\ Key(h) \in PeerKeys /\ federated
    /\ Goto(h, "waiting")
    /\ wire' = wire \cup {Delivery(h, 1, "sent")}
    /\ UNCHANGED <<setup, batch, url, rows, history>>

(* Mutant: a delivery that fails at its last url is passed over. *)
GiveUp_PassOver(h) == Step(h, "delivering", "accepted")
GiveUp(h) == Fail(h)

(* No answer, a late one, or a refusal: the request may be lost, or may    *)
(* still be worked on.                                                     *)
NotAcknowledged(h) ==
    /\ task[h] = "waiting"
    /\ IF url[h] < Urls
       THEN /\ url' = [url EXCEPT ![h] = @ + 1]
            /\ wire' = wire \cup {Delivery(h, url[h] + 1, "sent")}
            /\ Goto(h, "waiting")
       ELSE GiveUp(h) /\ url' = [url EXCEPT ![h] = 1] /\ UNCHANGED wire
    /\ UNCHANGED <<setup, batch, rows, history>>

Acknowledged(h) ==
    /\ task[h] = "waiting" /\ Delivery(h, url[h], "stored") \in wire
    /\ Step(h, "delivering", "accepted")
    /\ url' = [url EXCEPT ![h] = 1]
    /\ UNCHANGED <<setup, batch, wire, rows, history>>

(* federation_delivery asks the registry and the blocklist, *)
ClearRemote(d) ==
    /\ d \in wire /\ d.stage = "sent"
    /\ wire' = IF d.key \in registered /\ Welcome
               THEN (wire \ {d}) \cup {[d EXCEPT !.stage = "cleared"]}
               ELSE wire \ {d}
    /\ UNCHANGED <<setup, progress, rows, history>>

(* and stores the copy, whether or not anybody still waits for it. *)
DeliverRemote(d) ==
    /\ d \in wire /\ d.stage = "cleared"
    /\ Receive(d.key, d.by)
    /\ wire' = (wire \ {d}) \cup {[d EXCEPT !.stage = "stored"]}
    /\ UNCHANGED <<setup, progress, history>>

-------------------------------------------------------------------------------
(* A handler ends before its answer. *)
Die(h) ==
    /\ task[h] \in {"checking", "storing", "delivering", "cleared", "waiting"}
    /\ Fail(h)
    /\ url' = [url EXCEPT ![h] = 1]
    /\ UNCHANGED <<setup, batch, wire, rows, history>>

Change == changes < MaxChanges /\ changes' = changes + 1

Revoke(k) ==
    /\ Change
    /\ k \in registered
    /\ registered' = registered \ {k}
    /\ UNCHANGED <<federated, blocked, progress, wire, rows, history>>

Register(k) ==
    /\ Change
    /\ k \notin registered
    /\ registered' = registered \cup {k}
    /\ revoked' = [h \in Attempts |-> revoked[h] \ {k}]
    /\ UNCHANGED <<federated, blocked, progress, wire, rows, shut>>

Block ==
    /\ Change
    /\ ~blocked /\ blocked' = TRUE
    /\ UNCHANGED <<federated, registered, progress, wire, rows, history>>

Unblock ==
    /\ Change
    /\ blocked /\ blocked' = FALSE
    /\ shut' = {}
    /\ UNCHANGED <<federated, registered, progress, wire, rows, revoked>>

Handle(h) ==
    \/ Begin(h) \/ Check(h) \/ StoreOwn(h) \/ SkipOwn(h)
    \/ ClearLocal(h) \/ DeliverLocal(h)
    \/ Forward(h) \/ NotAcknowledged(h) \/ Acknowledged(h)
    \/ Die(h)

Next ==
    \/ \E h \in Attempts : Handle(h)
    \/ \E d \in wire : ClearRemote(d) \/ DeliverRemote(d)
    \/ \E k \in Keys : Revoke(k) \/ Register(k)
    \/ Block \/ Unblock

Spec == Init /\ [][Next]_vars

-------------------------------------------------------------------------------
Places == {"idle", "checking", "storing", "delivering", "cleared", "waiting",
           "accepted", "failed"}

TypeOK ==
    /\ federated \in BOOLEAN /\ registered \subseteq Keys /\ blocked \in BOOLEAN
    /\ changes \in 0..MaxChanges
    /\ task \in [Attempts -> Places] /\ batch \in [Attempts -> Batches]
    /\ at \in [Attempts -> Nat] /\ url \in [Attempts -> 1..Urls]
    /\ \A h \in Attempts : at[h] \in 1..Len(batch[h])
    /\ wire \subseteq Deliveries /\ rows \subseteq Rows
    /\ shut \subseteq Attempts /\ revoked \in [Attempts -> SUBSET Keys]

(* When an attempt is answered with success, the peer has every copy of it *)
(* that was meant for the peer, through whichever attempt, url or late     *)
(* delivery each of them came.                                             *)
AcceptedIsDelivered ==
    \A h \in Attempts : task[h] = "accepted" =>
        \A i \in 1..Len(batch[h]) : batch[h][i] \in PeerKeys => Delivered(batch[h][i])

(* Before the peer has any copy, the sender's own account has the message  *)
(* and the further copies of the attempt that brought it: what the peer    *)
(* can read and answer to is in the sender's history, on every device,     *)
(* although the attempt may fail half way or die.                          *)
PeerNeverAhead ==
    \A r \in rows : r.owner = "peer" =>
        Primary /\ \A i \in 2..Len(batch[r.by]) : Copied(batch[r.by][i])

(* A peer that has blocked the sender before an attempt begins, and does   *)
(* not unblock, gets nothing from it.                                      *)
BlockedGetsNothing == \A r \in rows : r.owner = "peer" => r.by \notin shut

(* A key revoked before an attempt begins, and not registered again, gets  *)
(* no copy at the peer from it, and a revoked device sends nothing.        *)
RevokedIsLeftOut ==
    \A r \in rows :
        /\ Device \notin revoked[r.by]
        /\ r.owner = "peer" => r.key \notin revoked[r.by]

(* ENTER_PROTOCOL.md: there is a copy for every device of the sender and   *)
(* of the recipient, the server stores them, and sending again with the    *)
(* same id changes nothing about that: an accepted attempt has left a row  *)
(* for each of the sender's keys it had a copy for.                        *)
EveryCopyIsKept ==
    \A h \in Attempts : task[h] = "accepted" =>
        \A i \in 1..Len(batch[h]) : batch[h][i] \in OwnKeys =>
            \E r \in rows : r.owner = "sender" /\ r.key = batch[h][i]
===============================================================================
