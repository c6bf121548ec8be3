------------------------------ MODULE DeviceKeys -------------------------------
(***************************************************************************)
(* The keys of one account's devices and what they make readable:          *)
(* lib/e2e.ts and App.tsx of the desktop client, rn-e2e.ts and App.tsx of  *)
(* the mobile one, the key directory and the history copies of the server. *)
(*                                                                         *)
(* A message travels as copies, one per key.  A device has a pair of keys  *)
(* of its own, <<d, n>> for the n-th it made, and the account key, which   *)
(* every device derives from the one password at sign-in.  A copy is       *)
(* readable by who holds the key it is for and knows the device that       *)
(* signed it; a session looks the devices of an account up once.           *)
(*                                                                         *)
(* The log holds what one request of a device or one delivery commits; the *)
(* peer is one other account with one device.                              *)
(***************************************************************************)
EXTENDS Naturals, Sequences, FiniteSets

CONSTANTS
    Devices, Peer, Account,  \* Account: the id of the account key
    Phones,                  \* the devices that run the mobile client
    MaxRetries,              \* MAX_DECRYPT_RETRIES
    MaxMessages, MaxLog, MaxSessions, MaxFaults \* bounds

ASSUME KeysAssumption ==
    /\ Phones \subseteq Devices /\ Peer \notin Devices /\ MaxRetries \in Nat \ {0, 1}
    /\ {MaxMessages, MaxLog, MaxSessions, MaxFaults} \subseteq Nat

VARIABLES
    directory,  \* device keys the server has for the account
    log,        \* sets of copies, in the order of the account's events
    sent,       \* messages there are
    made,       \* device -> keys it has made
    stored,     \* device -> the one it keeps, 0: none
    account,    \* devices that keep the account key
    on,         \* devices with a running session
    bundle,     \* device -> ownBundle of its session, 0: null
    asked,      \* device -> accounts whose devices the session has looked up
    known,      \* device -> the devices it found (senderDeviceCache)
    attempts,   \* device -> message -> decryptAttempts
    skipped,    \* device -> quarantinedMessageIds
    copied,     \* device -> <<message, key>> of historySyncSent
    due,        \* device -> keys the backfill has yet to look at
    cursor, have, \* device -> the log position, the messages it has
    pending,    \* device -> the message it sends, 0: none
    request,    \* device -> the request on its way: signer and targets
    sealed,     \* devices whose pending message has been encrypted
    polls,      \* devices whose session has lost its socket and polls
    sessions, faults,
    refused     \* history: device -> message -> copies it could not read

keys == <<made, stored, account>>
session == <<on, bundle, asked, known, attempts, skipped, copied, due>>
outgoing == <<pending, request, sealed>>
counters == <<sessions, faults>>
server == <<directory, log, sent>>
vars == <<server, keys, session, cursor, have, outgoing, counters, refused, polls>>

Ids == 1..MaxMessages
Whose(k) == IF k = Peer THEN "peer" ELSE "own"
(* encryptMessage: a copy of each message for each key, signed by a device.*)
EncryptMessage(ids, to, by, again) ==
    {[id |-> i, to |-> t, by |-> by, again |-> again] : i \in ids, t \in to}
Log == UNION {log[n] : n \in 1..Len(log)}
Add(S) == IF S = {} THEN UNCHANGED log ELSE Len(log) < MaxLog /\ log' = Append(log, S)

NoRequest == [by |-> 0, to |-> {}]

Init ==
    /\ directory = {} /\ log = <<>> /\ sent = 0
    /\ made = [d \in Devices |-> 0] /\ stored = [d \in Devices |-> 0] /\ account = {}
    /\ on = {} /\ bundle = [d \in Devices |-> 0]
    /\ asked = [d \in Devices |-> {}] /\ known = [d \in Devices |-> {}]
    /\ attempts = [d \in Devices |-> [i \in Ids |-> 0]]
    /\ skipped = [d \in Devices |-> {}] /\ copied = [d \in Devices |-> {}]
    /\ due = [d \in Devices |-> {}]
    /\ cursor = [d \in Devices |-> 0] /\ have = [d \in Devices |-> {}]
    /\ pending = [d \in Devices |-> 0] /\ request = [d \in Devices |-> NoRequest] /\ sealed = {}
    /\ polls = {} /\ sessions = 0 /\ faults = 0
    /\ refused = [d \in Devices |-> [i \in Ids |-> 0]]

-------------------------------------------------------------------------------
(* ensureDeviceKeys: the stored keys, or new ones that are stored; the     *)
(* mobile client lets calls that overlap share one answer.                 *)
GenerateDevice(d) == made[d] + 1
Ensured(d) == IF stored[d] # 0 THEN stored[d] ELSE GenerateDevice(d)
StoreDevice(d, n) == stored' = [stored EXCEPT ![d] = n]
EnsureDeviceKeys(d) ==
    /\ StoreDevice(d, Ensured(d))
    /\ made' = [made EXCEPT ![d] = IF stored[d] # 0 THEN @ ELSE GenerateDevice(d)]
ReadStoredAccount(d) == d \in account
WriteStoredAccount(d) == account' = account \cup {d}
(* ensureAccountKey: the stored one, or the one the password gives.        *)
Derived(d) == IF ReadStoredAccount(d) THEN UNCHANGED account ELSE WriteStoredAccount(d)
EnsureAccountKey(d) == d \notin Phones /\ Derived(d)
MobileEnsureAccountKey(d) == d \in Phones /\ Derived(d)
ReadAccountKey(d) == ReadStoredAccount(d)
RegisterDeviceKey(d) == directory' = directory \cup {<<d, Ensured(d)>>}
PrepareProfile(d) == EnsureDeviceKeys(d) /\ RegisterDeviceKey(d)
DeleteDeviceKeys(d) == StoreDevice(d, 0) /\ account' = account \ {d}

(* A session effect begins with nothing of the one before.                 *)
Reset(d) ==
    /\ bundle' = [bundle EXCEPT ![d] = 0]
    /\ asked' = [asked EXCEPT ![d] = {}] /\ known' = [known EXCEPT ![d] = {}]
    /\ attempts' = [attempts EXCEPT ![d] = [i \in Ids |-> 0]]
    /\ skipped' = [skipped EXCEPT ![d] = {}] /\ copied' = [copied EXCEPT ![d] = {}]
    /\ due' = [due EXCEPT ![d] = {}] /\ polls' = polls \ {d}

(* addProfile: the device keys, the account key from the password, and the *)
(* session effect.                                                         *)
SignIn(d) ==
    /\ d \notin on /\ sessions < MaxSessions /\ sessions' = sessions + 1
    /\ PrepareProfile(d) /\ (EnsureAccountKey(d) \/ MobileEnsureAccountKey(d))
    /\ on' = on \cup {d} /\ Reset(d)
    /\ UNCHANGED <<log, sent, cursor, have, outgoing, faults, refused>>

(* The client starts again and with it the session.                        *)
Restart(d) ==
    /\ d \in on /\ sessions < MaxSessions /\ sessions' = sessions + 1 /\ Reset(d)
    /\ UNCHANGED <<server, keys, on, cursor, have, outgoing, faults, refused>>

(* ensureOwnBundle: without an account key the user must sign in again.    *)
EnsureOwnBundle(d) ==
    /\ d \in on /\ bundle[d] = 0 /\ PrepareProfile(d)
    /\ IF ReadAccountKey(d) THEN bundle' = [bundle EXCEPT ![d] = Ensured(d)] /\ on' = on
       ELSE on' = on \ {d} /\ UNCHANGED bundle
    /\ UNCHANGED <<log, sent, account, asked, known, attempts, skipped, copied,
                   due, cursor, have, outgoing, counters, refused, polls>>

(* forgetLocalPrivateKeys: the session goes on with the bundle it has.     *)
Forget(d) ==
    /\ d \in on \cap Phones /\ stored[d] # 0 /\ faults < MaxFaults /\ faults' = faults + 1
    /\ DeleteDeviceKeys(d)
    /\ UNCHANGED <<server, made, session, cursor, have, outgoing, sessions, refused, polls>>

-------------------------------------------------------------------------------
(* applySyncResult: the copies for the keys of the bundle.                 *)
OwnKeys(d) == {<<d, bundle[d]>>, Account}
Window(d) == {c \in UNION {log[n] : n \in cursor[d] + 1..Len(log)} :
                  c.to \in OwnKeys(d) /\ c.id \notin skipped[d]}

(* fetchPublicDeviceKeys, with the directory's answer checked.             *)
FetchPublicDeviceKeys(whose) == IF whose = "own" THEN directory ELSE {Peer}
(* senderDevicesFor: one lookup per account and session, kept unless it    *)
(* fails.                                                                  *)
Needed(d) == {Whose(c.by) : c \in Window(d)} \ asked[d]
SenderDevicesFor(d, fails) ==
    LET found == Needed(d) \ fails IN
    /\ asked' = [asked EXCEPT ![d] = @ \cup found]
    /\ known' = [known EXCEPT ![d] =
           @ \cup UNION {FetchPublicDeviceKeys(whose) : whose \in found}]

(* decryptMessage: the private half of the key, and a known signer.        *)
HoldsKey(d, to) == IF to = Account THEN ReadAccountKey(d) ELSE to = <<d, stored[d]>>
DecryptRemoteMessage(d, senders, c) == c.by \in senders /\ HoldsKey(d, c.to)

(* The tries of a message: each copy that fails counts one, a copy that is *)
(* read sets the count back, and does so last when `late`.  After          *)
(* MaxRetries the message is skipped, and until then it is retried.        *)
(* Mutant: one try early.                                                  *)
Skips_Early(hits) == hits >= MaxRetries - 1
Skips(hits) == hits >= MaxRetries
Hits(d, i, good, bad, late) == (IF good /\ ~late THEN 0 ELSE attempts[d][i]) + bad
Retries(hits, bad) == bad > 0 /\ ~(bad = 1 /\ Skips(hits))
(* Mutant: the count starts at nothing with every sync.                    *)
Left_Nothing(hits, good, late) == 0
Left(hits, good, late) == IF good /\ late THEN 0 ELSE hits % MaxRetries

Capped(n) == IF n > MaxRetries THEN MaxRetries ELSE n
Sync(d, fails, late) ==
    LET window == Window(d)
        Good(i) == \E c \in window : c.id = i /\ DecryptRemoteMessage(d, known'[d], c)
        Bad(i) == Cardinality({c \in window : c.id = i /\ ~DecryptRemoteMessage(d, known'[d], c)})
        hits == [i \in Ids |-> Hits(d, i, Good(i), Bad(i), late)]
    IN
    /\ d \in on /\ bundle[d] # 0 /\ cursor[d] < Len(log)
    /\ fails \subseteq Needed(d) /\ faults + Cardinality(fails) <= MaxFaults
    /\ faults' = faults + Cardinality(fails)
    /\ SenderDevicesFor(d, fails)
    /\ IF \E c \in window : c.by \in known'[d] THEN EnsureDeviceKeys(d)
       ELSE UNCHANGED <<made, stored>>
    /\ have' = [have EXCEPT ![d] = @ \cup {i \in Ids : Good(i)}]
    /\ skipped' = [skipped EXCEPT ![d] = @ \cup {i \in Ids : Bad(i) > 0 /\ Skips(hits[i])}]
    /\ attempts' = [attempts EXCEPT ![d] = [i \in Ids |->
           IF Bad(i) = 0 /\ ~Good(i) THEN @[i] ELSE Left(hits[i], Good(i), late)]]
    /\ refused' = [refused EXCEPT ![d] = [i \in Ids |-> Capped(@[i] + Bad(i))]]
    /\ IF \E i \in Ids : Retries(hits[i], Bad(i)) THEN UNCHANGED cursor
       ELSE cursor' = [cursor EXCEPT ![d] = Len(log)]
    /\ due' = [due EXCEPT ![d] = {Account} \cup (directory \ {<<d, bundle[d]>>})]
    /\ UNCHANGED <<server, account, on, bundle, copied, outgoing, sessions, polls>>

(* handleRealtimeClose and "ready": a session polls while it has no socket,*)
(* and otherwise nothing asks for a page again that was not passed, until  *)
(* there is an event, a new socket, or the window comes to the front: a    *)
(* sync may come at any time, but only polling makes sure of it.  (One     *)
(* device at a time may poll, a bound, and a page holds the whole log,     *)
(* MaxLog being far below the entries of a page.)                          *)
SocketLost(d) == d \in on /\ polls = {} /\ polls' = {d}
SocketReady(d) == d \in on /\ polls' = polls \ {d}
SocketStep(d) ==
    /\ SocketLost(d) \/ SocketReady(d)
    /\ UNCHANGED <<server, keys, session, cursor, have, outgoing, counters, refused>>

-------------------------------------------------------------------------------
(* backfillHistoryToAccount, backfillHistoryToDevices: what a session has  *)
(* and has not yet given to a key it encrypts for it.  The server takes it *)
(* from a registered device, once per message and key, and leaves out,     *)
(* without a word, messages it does not have.                              *)
History(d) == IF d \in Phones /\ pending[d] # 0 /\ d \notin sealed
              THEN have[d] \ {pending[d]} ELSE have[d]
ToCopy(d, t) == {i \in History(d) : <<i, t>> \notin copied[d]}
AddDeviceMessageCopies(d, t, ids) ==
    Add(EncryptMessage({i \in ids : /\ \E c \in Log : c.id = i
                            /\ \A c \in Log : ~(c.id = i /\ c.to = t /\ c.again)},
               {t}, <<d, Ensured(d)>>, TRUE))
Backfill(d, t) ==
    /\ d \in on /\ t \in due[d] /\ due' = [due EXCEPT ![d] = @ \ {t}]
    /\ IF ToCopy(d, t) = {} THEN UNCHANGED <<made, stored, log, copied>>
       ELSE /\ EnsureDeviceKeys(d)
            /\ IF <<d, Ensured(d)>> \notin directory THEN UNCHANGED <<log, copied>>
               ELSE /\ AddDeviceMessageCopies(d, t, ToCopy(d, t))
                    /\ copied' = [copied EXCEPT ![d] = @ \cup ToCopy(d, t) \X {t}]
    /\ UNCHANGED <<directory, sent, account, on, bundle, asked, known, attempts,
                   skipped, cursor, have, outgoing, counters, refused, polls>>
BackfillHistoryToAccount(d) == Backfill(d, Account)
BackfillHistoryToDevices(d) == \E t \in due[d] \ {Account} : Backfill(d, t)

(* sendMessageToConversation: the keys are registered again, the directory *)
(* read and a copy encrypted for each, then the request, and another try.  *)
NewMessage(d) ==
    /\ d \in on /\ pending[d] = 0 /\ sent < MaxMessages /\ sent' = sent + 1
    /\ pending' = [pending EXCEPT ![d] = sent'] /\ sealed' = sealed \ {d}
    /\ have' = [have EXCEPT ![d] = @ \cup {sent'}]
    /\ UNCHANGED <<directory, log, keys, session, cursor, request, counters, refused, polls>>
(* allDeviceKeys: the own ones alone when the directory does not answer.   *)
AllDeviceKeys(d, fails) == IF fails THEN {<<d, Ensured(d)>>} ELSE directory'
PrepareSend(d) ==
    /\ d \in on /\ pending[d] # 0 /\ request[d] = NoRequest
    /\ PrepareProfile(d) /\ sealed' = sealed \cup {d}
    (* To a peer: for the own devices; to oneself: for the account key too.  *)
    /\ \E fails \in BOOLEAN, more \in IF ReadAccountKey(d) THEN {{}, {Account}} ELSE {{}} :
          /\ fails => faults < MaxFaults
          /\ faults' = IF fails THEN faults + 1 ELSE faults
          /\ request' = [request EXCEPT ![d] =
                            [by |-> Ensured(d), to |-> AllDeviceKeys(d, fails) \cup more]]
    /\ UNCHANGED <<log, sent, account, session, cursor, have, pending, sessions, refused, polls>>
(* sendRemoteMessage                                                       *)
Post(d) ==
    /\ d \in on /\ request[d] # NoRequest
    /\ Add(EncryptMessage({pending[d]}, request[d].to, <<d, request[d].by>>, FALSE))
    /\ pending' = [pending EXCEPT ![d] = 0] /\ request' = [request EXCEPT ![d] = NoRequest]
    /\ UNCHANGED <<directory, sent, keys, session, cursor, have, sealed, counters, refused, polls>>
PostFails(d) ==
    /\ d \in on /\ request[d] # NoRequest /\ faults < MaxFaults /\ faults' = faults + 1
    /\ request' = [request EXCEPT ![d] = NoRequest]
    /\ UNCHANGED <<server, keys, session, cursor, have, pending, sealed, sessions, refused, polls>>

(* The peer sends to the account key and to every device of the account.   *)
PeerSends ==
    /\ sent < MaxMessages /\ sent' = sent + 1 /\ directory # {}
    /\ Add(EncryptMessage({sent'}, directory \cup {Account}, Peer, FALSE))
    /\ UNCHANGED <<directory, keys, session, cursor, have, outgoing, counters, refused, polls>>

-------------------------------------------------------------------------------
SyncStep(d) == \E fails \in SUBSET {"own", "peer"}, late \in BOOLEAN : Sync(d, fails, late)
SendStep(d) == NewMessage(d) \/ PostFails(d)
Desktop(d) ==
    /\ d \notin Phones
    /\ \/ SignIn(d) \/ Restart(d) \/ EnsureOwnBundle(d) \/ SyncStep(d)
       \/ SendStep(d) \/ PrepareSend(d) \/ Post(d) \/ SocketStep(d)
       \/ BackfillHistoryToAccount(d) \/ BackfillHistoryToDevices(d)

(* The mobile client has them under the same names.                        *)
MobileSignIn(d) == d \in Phones /\ SignIn(d)
MobileEnsureOwnBundle(d) == d \in Phones /\ EnsureOwnBundle(d)
MobileSync(d) == d \in Phones /\ SyncStep(d)
MobileBackfill(d) == d \in Phones /\ (BackfillHistoryToAccount(d) \/ BackfillHistoryToDevices(d))
MobileSocket(d) == d \in Phones /\ SocketStep(d)
MobileSend(d) == d \in Phones /\ SendStep(d)
MobileEncryptMessage(d) == d \in Phones /\ PrepareSend(d)
MobilePost(d) == d \in Phones /\ Post(d)
Mobile(d) ==
    \/ MobileSignIn(d) \/ (d \in Phones /\ Restart(d)) \/ MobileEnsureOwnBundle(d) \/ Forget(d)
    \/ MobileSync(d) \/ MobileSocket(d) \/ MobileBackfill(d) \/ MobileSend(d) \/ MobileEncryptMessage(d) \/ MobilePost(d)

Next == PeerSends \/ \E d \in Devices : Desktop(d) \/ Mobile(d)
Spec == Init /\ [][Next]_vars

(* The timer of a session that polls goes on asking (startFallbackSync).   *)
Polls(d) == d \in polls /\ (SyncStep(d) \/ EnsureOwnBundle(d))
Fairness == \A d \in Devices : WF_vars(Polls(d))
FairSpec == Spec /\ Fairness

-------------------------------------------------------------------------------
(* A session passes over a message it has a key for only when it could not *)
(* read MaxRetries copies of it: not because of the copies of other keys,  *)
(* other messages or a package it took half of.                            *)
PassedOnlyAfterRetries ==
    \A d \in on :
        made[d] = 1 /\ bundle[d] # 0 =>
            \A n \in 1..cursor[d] : \A c \in log[n] :
                c.to \in {<<d, stored[d]>>, Account} =>
                    c.id \in have[d] \/ refused[d][c.id] >= MaxRetries

(* A session that goes on polling is not held up by what it cannot read,   *)
(* unless it can read another copy of the same message.                    *)
Mixed(d) ==
    \E c, e \in Window(d) :
        /\ c.id = e.id /\ DecryptRemoteMessage(d, known[d], c)
        /\ ~DecryptRemoteMessage(d, known[d], e)
StuckOnlyOnMixed ==
    \A d \in Devices :
        <>[](d \in polls) => <>[](d \in on /\ ~Mixed(d) => cursor[d] = Len(log))

(* A copy for a device that a registered device has signed is read.        *)
RegisteredAreHeard ==
    \A d \in on :
        made[d] = 1 /\ bundle[d] # 0 =>
            \A n \in 1..cursor[d] : \A c \in log[n] :
                c.to = <<d, stored[d]>> => c.id \in have[d]
===============================================================================
