----------------------------- MODULE MessengerProofs -----------------------------
(***************************************************************************)
(* Proofs about the scenes of Messenger, for every value of its constants. *)
(* A behaviour of Messenger is in each part a behaviour of that part's     *)
(* module, so each scene is proved from the steps of its own module alone. *)
(***************************************************************************)
EXTENDS Messenger, FiniteSetTheorems, SequenceTheorems, WellFoundedInduction, TLAPS

-------------------------------------------------------------------------------
(* KeyStore: a device hands out one key until its keys are deleted.        *)
(* The key a request that begins now would find.                           *)
HeldKey == IF store = "keychain" /\ secure # 0 THEN secure ELSE fallback

(* What a request knows at each of its awaits, if no deletion has come in  *)
(* between: it moves the key that is held, or makes one while none is.     *)
Knows(c) ==
    LET key == requests[c].key IN
    /\ K!At(c, "migrate") => store = "keychain" /\ secure = 0 /\ key = fallback /\ key # 0
    /\ K!At(c, "migrated") => store = "keychain" /\ secure = key /\ key # 0
    /\ K!At(c, "generate") => HeldKey = 0
    /\ K!At(c, "write") => HeldKey = 0 /\ key # 0
    /\ K!At(c, "written") => HeldKey = key /\ key # 0 /\ (store = "keychain" => secure = key)

Asking(c) == ~K!At(c, "idle")
KeyStages == {"idle", "read", "migrate", "migrated", "generate", "write", "written"}
KeyRequest == [at : KeyStages, key : Nat, clean : BOOLEAN]
KeyRequests == [Calls -> KeyRequest]
OneRequest == \A c, d \in Calls : Asking(c) /\ Asking(d) => c = d
(* While a deletion is under way, or a request it has come across, nothing *)
(* is handed out.                                                          *)
Deleted == deleting # "idle" \/ \E c \in Calls : Asking(c) /\ ~requests[c].clean
DeletedIsEmpty ==
    /\ Deleted => returned = {}
    /\ \A c \in Calls : deleting # "idle" /\ Asking(c) => ~requests[c].clean
CleanKnows == \A c \in Calls : Asking(c) /\ requests[c].clean => Knows(c)
HeldIsReturned == returned \subseteq {HeldKey} /\ (returned # {} => HeldKey # 0)

KeyInv ==
    /\ requests \in KeyRequests /\ keys \in Nat \ {0} /\ {secure, fallback} \subseteq Nat
    /\ store \in {"keychain", "web"} /\ landing \subseteq Nat
    /\ OneRequest
    /\ ~late => DeletedIsEmpty /\ CleanKnows /\ HeldIsReturned

KeyTypes == /\ requests \in KeyRequests /\ keys \in Nat \ {0} /\ {secure, fallback} \subseteq Nat
         /\ store \in {"keychain", "web"} /\ landing \subseteq Nat

LEMMA KeyInit == K!Init => KeyInv
  <1> SUFFICES ASSUME K!Init PROVE KeyInv
    OBVIOUS
  <1>1. K!Idle \in KeyRequest /\ K!Idle.at = "idle"  BY DEF K!Idle, KeyRequest, KeyStages
  <1>2. requests \in KeyRequests /\ \A c \in Calls : ~Asking(c)
    BY <1>1 DEF K!Init, KeyRequests, Asking, K!At
  <1>3. /\ keys \in Nat \ {0} /\ {secure, fallback} \subseteq Nat
        /\ store \in {"keychain", "web"} /\ landing \subseteq Nat
    BY DEF K!Init
  <1>4. OneRequest /\ CleanKnows  BY <1>2 DEF OneRequest, CleanKnows
  <1>5. DeletedIsEmpty /\ HeldIsReturned  BY <1>2 DEF K!Init, DeletedIsEmpty, Deleted, HeldIsReturned
  <1> QED  BY <1>2, <1>3, <1>4, <1>5 DEF KeyInv

(* A request goes on to another await, or ends; the others stand still.    *)
KeyRecord(at, key, clean) == [at |-> at, key |-> key, clean |-> clean]
Becomes(c, r) == requests' = [requests EXCEPT ![c] = r]

LEMMA OneGoesOn ==
    ASSUME KeyInv, NEW c \in Calls, NEW r \in KeyRequest, Becomes(c, r),
           r.at = "idle" \/ Asking(c) \/ K!NonePending
    PROVE  /\ requests' \in KeyRequests /\ requests'[c] = r /\ OneRequest'
           /\ \A d \in Calls \ {c} : requests'[d] = requests[d] /\ (Asking(c) => ~Asking(d))
  BY DEF Becomes, KeyInv, KeyRequests, OneRequest, Asking, K!At, K!NonePending

LEMMA KeyRequestSets ==
    ASSUME KeyInv, NEW c \in Calls, NEW at \in KeyStages, NEW key \in Nat, K!Set(c, at, key)
    PROVE  /\ Becomes(c, KeyRecord(at, key, requests[c].clean))
           /\ KeyRecord(at, key, requests[c].clean) \in KeyRequest
  <1>1. requests[c] \in KeyRequest  BY DEF KeyInv, KeyRequests
  <1> QED  BY <1>1 DEF K!Set, Becomes, KeyRecord, KeyRequest

LEMMA KeyRequestEnds ==
    ASSUME KeyInv, NEW c \in Calls, K!Throws(c)
    PROVE  Becomes(c, K!Idle) /\ K!Idle \in KeyRequest /\ K!Idle.at = "idle"
  BY DEF K!Throws, Becomes, K!Idle, KeyRequest, KeyStages

(* What a request under way may do to what its caller and others rely on:  *)
(* one that a deletion has come across hands nothing out, any other one    *)
(* leaves what it knows true and hands out what is held.                   *)
KeySafe == ~late => DeletedIsEmpty /\ CleanKnows /\ HeldIsReturned
KeyRequestStep(c, r) ==
    /\ Asking(c) /\ Becomes(c, r) /\ r \in KeyRequest /\ UNCHANGED <<deleting, late>>
    /\ r.at # "idle" => (r.clean <=> requests[c].clean)
    /\ ~late /\ ~requests[c].clean => UNCHANGED returned
    /\ ~late /\ requests[c].clean => (r.at # "idle" => Knows(c)') /\ HeldIsReturned'

LEMMA KeyRequestIsSafe ==
    ASSUME KeyInv, NEW c \in Calls, NEW r, KeyRequestStep(c, r)
    PROVE  requests' \in KeyRequests /\ OneRequest' /\ KeySafe'
  <1>1. /\ requests' \in KeyRequests /\ requests'[c] = r /\ OneRequest'
        /\ \A d \in Calls \ {c} : requests'[d] = requests[d] /\ ~Asking(d)
    BY OneGoesOn DEF KeyRequestStep
  <1>2. \A d \in Calls : Asking(d)' => d = c  BY <1>1 DEF Asking, K!At
  <1>3. CASE ~late /\ requests[c].clean
    <2>1. deleting = "idle"  BY <1>3 DEF KeyInv, KeyRequestStep, DeletedIsEmpty
    <2> QED
        BY <1>1, <1>2, <1>3, <2>1 DEF KeyRequestStep, KeySafe, DeletedIsEmpty, Deleted, CleanKnows,
           Asking, K!At
  <1>4. CASE ~late /\ ~requests[c].clean
    <2>1. returned' = {}  BY <1>4 DEF KeyInv, KeyRequestStep, DeletedIsEmpty, Deleted
    <2> QED
        BY <1>1, <1>2, <1>4, <2>1 DEF KeyRequestStep, KeySafe, DeletedIsEmpty, CleanKnows,
           HeldIsReturned,
                                           Asking, K!At
  <1>5. CASE late  BY <1>1, <1>5 DEF KeyRequestStep, KeySafe
  <1> QED  BY <1>1, <1>3, <1>4, <1>5

LEMMA KeyStep == KeyInv /\ [K!Next]_(K!vars) => KeyInv'
  <1> SUFFICES ASSUME KeyInv, [K!Next]_(K!vars) PROVE KeyInv'
    OBVIOUS
  <1>0. /\ KeyTypes /\ \A c \in Calls : requests[c] \in KeyRequest /\ requests[c].key \in Nat
        /\ \A c \in Calls : ~late /\ Asking(c) /\ requests[c].clean => Knows(c)
        /\ ~late => HeldIsReturned
    BY DEF KeyInv, KeyTypes, KeyRequests, KeyRequest, CleanKnows
  <1>1. ASSUME NEW c \in Calls, NEW r, KeyRequestStep(c, r),
               keys' \in Nat \ {0}, {secure', fallback'} \subseteq Nat, UNCHANGED store,
               landing' \subseteq Nat
        PROVE  KeyInv'
    BY <1>0, <1>1, KeyRequestIsSafe DEF KeyInv, KeyTypes, KeySafe
  <1>2. ASSUME NEW c \in Calls, K!EnsureDeviceKeys(c) PROVE KeyInv'
    <2> DEFINE r == KeyRecord("read", 0, deleting = "idle")
    <2>1. r \in KeyRequest /\ Becomes(c, r) /\ K!NonePending
      BY <1>2 DEF K!EnsureDeviceKeys, KeyRecord, KeyRequest, KeyStages, Becomes
    <2>2. /\ requests' \in KeyRequests /\ requests'[c] = r /\ OneRequest'
          /\ \A d \in Calls \ {c} : requests'[d] = requests[d]
      BY <2>1, OneGoesOn
    <2>3. \A d \in Calls : ~Asking(d) /\ (Asking(d)' => d = c)
      BY <2>1, <2>2 DEF K!NonePending, Asking, K!At
    <2>4. r.at = "read" /\ (r.clean <=> deleting = "idle")  BY DEF KeyRecord
    <2>5. UNCHANGED <<store, secure, fallback, deleting, landing, keys, returned, late>>
      BY <1>2 DEF K!EnsureDeviceKeys
    <2>6. Knows(c)'  BY <2>2, <2>4 DEF Knows, K!At
    <2>7. DeletedIsEmpty /\ HeldIsReturned => DeletedIsEmpty' /\ CleanKnows' /\ HeldIsReturned'
      BY <2>2, <2>3, <2>4, <2>5, <2>6 DEF DeletedIsEmpty, Deleted, CleanKnows, HeldIsReturned, HeldKey
    <2> QED  BY <2>2, <2>5, <2>7 DEF KeyInv
  <1>3. ASSUME NEW c \in Calls, K!ReadDevice(c) PROVE KeyInv'
    <2> DEFINE raw == IF store = "keychain" THEN secure ELSE fallback
    <2>1. Asking(c) /\ UNCHANGED <<store, secure, fallback, deleting, landing, keys, late>>
      BY <1>3 DEF K!ReadDevice, Asking, K!At
    <2>2. CASE raw # 0 /\ K!Returns(c, raw)
      <3>1. Becomes(c, K!Idle) /\ K!Idle \in KeyRequest /\ K!Idle.at = "idle"
          BY <2>2, KeyRequestEnds DEF K!Returns
      <3>2. returned' = IF requests[c].clean THEN returned \cup {HeldKey} ELSE returned
        BY <1>0, <2>2 DEF K!Returns, HeldKey, KeyTypes
      <3>3. HeldKey' = HeldKey /\ HeldKey # 0  BY <1>0, <2>1, <2>2 DEF HeldKey, KeyTypes
      <3>4. KeyRequestStep(c, K!Idle)
          BY <1>0, <2>1, <3>1, <3>2, <3>3 DEF KeyRequestStep, HeldIsReturned
      <3> QED  BY <1>0, <1>1, <2>1, <3>4 DEF KeyTypes
    <2>3. CASE raw = 0 /\ store = "keychain" /\ fallback # 0 /\ K!Set(c, "migrate", fallback)
               /\ UNCHANGED returned
      <3> DEFINE r == KeyRecord("migrate", fallback, requests[c].clean)
      <3>1. Becomes(c, r) /\ r \in KeyRequest  BY <1>0, <2>3, KeyRequestSets DEF KeyTypes, KeyStages
      <3>2. r.at = "migrate" /\ r.key = fallback /\ r.clean = requests[c].clean  BY DEF KeyRecord
      <3>3. requests'[c] = r  BY <3>1, <2>1, OneGoesOn
      <3>4. Knows(c)'  BY <2>1, <2>3, <3>2, <3>3 DEF Knows, K!At
      <3>5. KeyRequestStep(c, r)
          BY <1>0, <2>1, <2>3, <3>1, <3>2, <3>4 DEF KeyRequestStep, HeldIsReturned, HeldKey
      <3> QED  BY <1>0, <1>1, <2>1, <3>5 DEF KeyTypes
    <2>4. CASE raw = 0 /\ (store = "web" \/ fallback = 0) /\ K!Goes(c, "generate") /\ UNCHANGED returned
      <3> DEFINE r == KeyRecord("generate", requests[c].key, requests[c].clean)
      <3>1. Becomes(c, r) /\ r \in KeyRequest  BY <1>0, <2>4, KeyRequestSets DEF K!Goes, KeyStages
      <3>2. r.at = "generate" /\ r.clean = requests[c].clean  BY DEF KeyRecord
      <3>3. requests'[c] = r  BY <3>1, <2>1, OneGoesOn
      <3>4. HeldKey' = 0  BY <1>0, <2>1, <2>4 DEF HeldKey, KeyTypes
      <3>5. Knows(c)'  BY <3>2, <3>3, <3>4 DEF Knows, K!At
      <3>6. KeyRequestStep(c, r)
          BY <1>0, <2>1, <2>4, <3>1, <3>2, <3>5 DEF KeyRequestStep, HeldIsReturned, HeldKey
      <3> QED  BY <1>0, <1>1, <2>1, <3>6 DEF KeyTypes
    <2> QED  BY <1>3, <2>2, <2>3, <2>4 DEF K!ReadDevice
  <1>4. ASSUME NEW c \in Calls, K!Migrate(c) PROVE KeyInv'
    <2> DEFINE r == KeyRecord("migrated", requests[c].key, requests[c].clean)
    <2>1. /\ Asking(c) /\ UNCHANGED <<store, fallback, deleting, landing, keys, returned, late>>
          /\ secure' = requests[c].key
      BY <1>4 DEF K!Migrate, Asking, K!At
    <2>2. Becomes(c, r) /\ r \in KeyRequest
        BY <1>0, <1>4, KeyRequestSets DEF K!Migrate, K!Goes, KeyStages
    <2>3. r.at = "migrated" /\ r.key = requests[c].key /\ r.clean = requests[c].clean
        BY DEF KeyRecord
    <2>4. requests'[c] = r  BY <2>1, <2>2, OneGoesOn
    <2>5. ASSUME ~late, requests[c].clean PROVE Knows(c)' /\ HeldIsReturned'
      <3>1. store = "keychain" /\ secure = 0 /\ requests[c].key = fallback /\ fallback # 0
        BY <1>0, <1>4, <2>1, <2>5 DEF K!Migrate, Knows, K!At
      <3>2. HeldKey' = HeldKey  BY <2>1, <3>1 DEF HeldKey
      <3> QED  BY <1>0, <2>1, <2>3, <2>4, <2>5, <3>1, <3>2 DEF Knows, K!At, HeldIsReturned
    <2>6. KeyRequestStep(c, r)  BY <2>1, <2>2, <2>3, <2>5 DEF KeyRequestStep
    <2> QED  BY <1>0, <1>1, <2>1, <2>6 DEF KeyTypes
  <1>5. ASSUME NEW c \in Calls, K!RemoveLegacy(c) PROVE KeyInv'
    <2>1. /\ Asking(c) /\ UNCHANGED <<store, secure, deleting, landing, keys, late>> /\ fallback' = 0
          /\ returned' = IF requests[c].clean THEN returned \cup {requests[c].key} ELSE returned
      BY <1>5 DEF K!RemoveLegacy, K!Returns, Asking, K!At
    <2>2. Becomes(c, K!Idle) /\ K!Idle \in KeyRequest /\ K!Idle.at = "idle"
        BY <1>5, KeyRequestEnds DEF K!RemoveLegacy, K!Returns
    <2>3. ASSUME ~late, requests[c].clean PROVE HeldIsReturned'
      <3>1. store = "keychain" /\ secure = requests[c].key /\ secure # 0
        BY <1>0, <1>5, <2>1, <2>3 DEF K!RemoveLegacy, Knows, K!At
      <3>2. HeldKey' = secure /\ HeldKey = secure  BY <2>1, <3>1 DEF HeldKey
      <3> QED  BY <1>0, <2>1, <2>3, <3>1, <3>2 DEF HeldIsReturned
    <2>4. KeyRequestStep(c, K!Idle)  BY <2>1, <2>2, <2>3 DEF KeyRequestStep
    <2> QED  BY <1>0, <1>1, <2>1, <2>4 DEF KeyTypes
  <1>6. ASSUME NEW c \in Calls, K!GenerateDevice(c) PROVE KeyInv'
    <2> DEFINE r == KeyRecord("write", keys + 1, requests[c].clean)
    <2>1. /\ Asking(c) /\ UNCHANGED <<store, secure, fallback, deleting, landing, returned, late>>
          /\ keys' = keys + 1 /\ keys' \in Nat \ {0}
      BY <1>0, <1>6 DEF K!GenerateDevice, Asking, K!At, KeyTypes
    <2>2. Becomes(c, r) /\ r \in KeyRequest
        BY <1>6, <2>1, KeyRequestSets DEF K!GenerateDevice, KeyStages
    <2>3. r.at = "write" /\ r.key = keys + 1 /\ r.clean = requests[c].clean  BY DEF KeyRecord
    <2>4. requests'[c] = r  BY <2>1, <2>2, OneGoesOn
    <2>5. ASSUME ~late, requests[c].clean PROVE Knows(c)' /\ HeldIsReturned'
      <3>1. HeldKey = 0 /\ HeldKey' = HeldKey
          BY <1>0, <1>6, <2>1, <2>5 DEF K!GenerateDevice, Knows, K!At, HeldKey
      <3> QED  BY <1>0, <2>1, <2>3, <2>4, <2>5, <3>1 DEF Knows, K!At, HeldIsReturned
    <2>6. KeyRequestStep(c, r)  BY <2>1, <2>2, <2>3, <2>5 DEF KeyRequestStep
    <2> QED  BY <1>0, <1>1, <2>1, <2>6 DEF KeyTypes
  <1>7. ASSUME NEW c \in Calls, K!WriteDevice(c) PROVE KeyInv'
    <2> DEFINE r == KeyRecord("written", requests[c].key, requests[c].clean)
    <2>1. /\ Asking(c) /\ UNCHANGED <<store, deleting, landing, keys, returned, late>>
          /\ IF store = "keychain" THEN secure' = requests[c].key /\ UNCHANGED fallback
             ELSE fallback' = requests[c].key /\ UNCHANGED secure
      BY <1>7 DEF K!WriteDevice, Asking, K!At
    <2>2. Becomes(c, r) /\ r \in KeyRequest
        BY <1>0, <1>7, KeyRequestSets DEF K!WriteDevice, K!Goes, KeyStages
    <2>3. r.at = "written" /\ r.key = requests[c].key /\ r.clean = requests[c].clean  BY DEF KeyRecord
    <2>4. requests'[c] = r  BY <2>1, <2>2, OneGoesOn
    <2>5. ASSUME ~late, requests[c].clean PROVE Knows(c)' /\ HeldIsReturned'
      <3>1. HeldKey = 0 /\ requests[c].key # 0
          BY <1>0, <1>7, <2>1, <2>5 DEF K!WriteDevice, Knows, K!At
      <3>2. returned = {}  BY <1>0, <2>5, <3>1 DEF HeldIsReturned
      <3>3. HeldKey' = requests[c].key /\ (store = "keychain" => secure' = requests[c].key)
        BY <2>1, <3>1 DEF HeldKey
      <3> QED  BY <2>1, <2>3, <2>4, <3>1, <3>2, <3>3 DEF Knows, K!At, HeldIsReturned
    <2>6. KeyRequestStep(c, r)  BY <2>1, <2>2, <2>3, <2>5 DEF KeyRequestStep
    <2>7. {secure', fallback'} \subseteq Nat  BY <1>0, <2>1 DEF KeyTypes
    <2> QED  BY <1>0, <1>1, <2>1, <2>6, <2>7 DEF KeyTypes
  <1>8. ASSUME NEW c \in Calls, K!Cleanup(c) PROVE KeyInv'
    <2>1. /\ Asking(c) /\ UNCHANGED <<store, secure, deleting, landing, keys, late>>
          /\ fallback' = fallback \/ (store = "keychain" /\ fallback' = 0)
          /\ returned' = IF requests[c].clean THEN returned \cup {requests[c].key} ELSE returned
      BY <1>8 DEF K!Cleanup, K!Returns, Asking, K!At
    <2>2. Becomes(c, K!Idle) /\ K!Idle \in KeyRequest /\ K!Idle.at = "idle"
        BY <1>8, KeyRequestEnds DEF K!Cleanup, K!Returns
    <2>3. ASSUME ~late, requests[c].clean PROVE HeldIsReturned'
      <3>1. HeldKey = requests[c].key /\ requests[c].key # 0 /\ (store = "keychain" => secure = requests[c].key)
        BY <1>0, <1>8, <2>1, <2>3 DEF K!Cleanup, Knows, K!At
      <3>2. HeldKey' = HeldKey  BY <2>1, <3>1 DEF HeldKey
      <3> QED  BY <1>0, <2>1, <2>3, <3>1, <3>2 DEF HeldIsReturned
    <2>4. KeyRequestStep(c, K!Idle)  BY <2>1, <2>2, <2>3 DEF KeyRequestStep
    <2> QED  BY <1>0, <1>1, <2>1, <2>4 DEF KeyTypes
  <1>9. ASSUME NEW c \in Calls, K!Fails(c) PROVE KeyInv'
    <2>1. /\ Asking(c) /\ UNCHANGED <<store, secure, fallback, deleting, keys, returned, late>>
      BY <1>9 DEF K!Fails, Asking, K!At
    <2>2. Becomes(c, K!Idle) /\ K!Idle \in KeyRequest /\ K!Idle.at = "idle"
        BY <1>9, KeyRequestEnds DEF K!Fails
    <2>3. KeyRequestStep(c, K!Idle)  BY <1>0, <2>1, <2>2 DEF KeyRequestStep, HeldIsReturned, HeldKey
    <2>4. landing' = landing \/ landing' = landing \cup {requests[c].key}  BY <1>9 DEF K!Fails
    <2> QED  BY <1>0, <1>1, <2>1, <2>3, <2>4 DEF KeyTypes
  <1>10. CASE K!Lands
    <2>1. late' = TRUE /\ UNCHANGED <<store, fallback, requests, keys>>  BY <1>10 DEF K!Lands
    <2>2. secure' \in Nat /\ landing' \subseteq Nat  BY <1>0, <1>10 DEF K!Lands, KeyTypes
    <2> QED  BY <2>1, <2>2 DEF KeyInv, OneRequest, Asking, K!At
  (* A deletion empties what was handed out and leaves no request clean.     *)
  <1>11. CASE K!DeleteDeviceKeys
    <2>1. /\ UNCHANGED <<store, secure, fallback, landing, keys, late>> /\ returned' = {}
      BY <1>11 DEF K!DeleteDeviceKeys
    <2>2. /\ requests' \in KeyRequests
          /\ \A c \in Calls : ~requests'[c].clean /\ requests'[c].at = requests[c].at
      BY <1>0, <1>11 DEF K!DeleteDeviceKeys, KeyRequests, KeyRequest, KeyTypes
    <2>3. OneRequest'  BY <2>2 DEF KeyInv, OneRequest, Asking, K!At
    <2>4. DeletedIsEmpty' /\ CleanKnows' /\ HeldIsReturned'
      BY <2>1, <2>2 DEF DeletedIsEmpty, CleanKnows, HeldIsReturned
    <2> QED  BY <2>1, <2>2, <2>3, <2>4 DEF KeyInv
  <1>12. ASSUME deleting # "idle", UNCHANGED <<store, requests, landing, keys, returned, late>>,
                {secure', fallback'} \subseteq Nat
         PROVE  KeyInv'
    <2>1. OneRequest'  BY <1>12 DEF KeyInv, OneRequest, Asking, K!At
    <2>2. ~late => returned = {} /\ \A c \in Calls : Asking(c) => ~requests[c].clean
      BY <1>12 DEF KeyInv, DeletedIsEmpty, Deleted
    <2>3. ~late' => DeletedIsEmpty' /\ CleanKnows' /\ HeldIsReturned'
      BY <1>12, <2>2 DEF DeletedIsEmpty, CleanKnows, HeldIsReturned, Asking, K!At
    <2> QED  BY <1>0, <1>12, <2>1, <2>3 DEF KeyInv, KeyTypes
  <1>13. CASE K!Reset
    <2>1. {secure', fallback'} \subseteq Nat  BY <1>0, <1>13 DEF K!Reset, KeyTypes
    <2> QED  BY <1>12, <1>13, <2>1 DEF K!Reset
  <1>14. CASE K!RemoveFallback
    <2>1. {secure', fallback'} \subseteq Nat  BY <1>0, <1>14 DEF K!RemoveFallback, KeyTypes
    <2> QED  BY <1>12, <1>14, <2>1 DEF K!RemoveFallback
  <1>15. CASE K!Killed
    <2>1. /\ UNCHANGED <<store, secure, fallback, keys, returned, late>>
          /\ landing' = {} /\ deleting' = "idle" /\ requests' = [c \in Calls |-> K!Idle]
      BY <1>15 DEF K!Killed
    <2>2. K!Idle \in KeyRequest /\ K!Idle.at = "idle"  BY DEF K!Idle, KeyRequest, KeyStages
    <2>3. requests' \in KeyRequests /\ \A c \in Calls : ~Asking(c)'
      BY <2>1, <2>2 DEF KeyRequests, Asking, K!At
    <2>4. OneRequest' /\ DeletedIsEmpty' /\ CleanKnows'
      BY <2>1, <2>3 DEF OneRequest, DeletedIsEmpty, Deleted, CleanKnows
    <2>5. ~late' => HeldIsReturned'  BY <1>0, <2>1 DEF HeldIsReturned, HeldKey
    <2> QED  BY <1>0, <2>1, <2>3, <2>4, <2>5 DEF KeyInv, KeyTypes
  <1>16. CASE UNCHANGED K!vars
    BY <1>16 DEF K!vars, KeyInv, OneRequest, DeletedIsEmpty, Deleted, CleanKnows, Knows,
                 HeldIsReturned, HeldKey, Asking, K!At
  <1> QED
    BY <1>2, <1>3, <1>4, <1>5, <1>6, <1>7, <1>8, <1>9, <1>10, <1>11, <1>13, <1>14, <1>15, <1>16
    DEF K!Next

(* At most the key that is held has been handed out.                       *)
LEMMA OneIsHeld == KeyInv => K!KeyStays
  BY DEF KeyInv, HeldIsReturned, K!KeyStays

(* For any callers, keys and outages: until its keys are deleted a device  *)
(* hands out one key, unless a write has landed after it was given up      *)
(* (ensureDeviceKeys and deleteDeviceKeys of the mobile rn-e2e.ts).        *)
THEOREM OneKeyPerDevice == Spec => []KeyStays
  <1>1. Init => KeyInv  BY KeyInit DEF Init
  <1>2. [Next]_vars => [K!Next]_(K!vars)  BY DEF Next, vars, device, K!vars
  <1>3. KeyInv => KeyStays  BY OneIsHeld DEF KeyStays
  <1> QED  BY <1>1, <1>2, <1>3, KeyStep, PTL DEF Spec

-------------------------------------------------------------------------------
(* MediaBubble: nothing an earlier run of the effect brings shows, and no  *)
(* object URL is left behind.                                              *)
Load == [run : Nat, mount : Nat, at : {"download", "decrypt", "write", "save"},
         disposed : BOOLEAN, gallery : BOOLEAN]
Settings == [{"cellular", "wifi", "fits", "gallery"} -> BOOLEAN]
BubbleTypes ==
    /\ loads \subseteq Load /\ {mounted, run, uri} \subseteq Nat
    /\ auto \in Settings
    /\ uri <= run /\ mounted <= run
(* What was not disposed of is of the last run, and of the bubble that is  *)
(* there; it has brought nothing yet.                                      *)
OnlyLastIsLive ==
    \A l \in loads : ~l.disposed => mounted # 0 /\ l.run = run /\ uri = 0 /\ run # 0
(* A run is under way once.                                                *)
RunsOnce == \A l, m \in loads : ~l.disposed /\ ~m.disposed => l = m
(* Only a phone writes files, and there are no object URLs there.          *)
Places == \A l \in loads : l.at \in {"write", "save"} => place = "phone"
BubbleInv == BubbleTypes /\ OnlyLastIsLive /\ RunsOnce /\ Places /\ B!OnlyTheLastRunShows

LEMMA BubbleInit == B!Init => BubbleInv
  BY DEF B!Init, BubbleInv, BubbleTypes, Settings, OnlyLastIsLive, RunsOnce, Places,
     B!OnlyTheLastRunShows

LEMMA DisposedLoads ==
    ASSUME BubbleTypes, Places
    PROVE  \A l \in B!Disposed : l \in Load /\ l.disposed
              /\ (l.at \in {"write", "save"} => place = "phone")
  <1> SUFFICES ASSUME NEW m \in loads
               PROVE  LET l == [m EXCEPT !.disposed = TRUE]
                      IN  l \in Load /\ l.disposed /\ (l.at \in {"write", "save"} => place = "phone")
    BY DEF B!Disposed
  <1> QED  BY DEF BubbleTypes, Load, Places

(* A run of the effect, or the end of the bubble: what was under way is    *)
(* disposed of, and what was shown is taken away with its URL.             *)
Begun(mount, gallery) ==
    [run |-> run', mount |-> mount, at |-> "download", disposed |-> FALSE, gallery |-> gallery]
RunsAnew ==
    /\ run' = run + 1 /\ B!Disposes /\ mounted' \in 1..(run + 1) /\ UNCHANGED place
    /\ \/ loads' = B!Disposed
       \/ \E gallery \in BOOLEAN : loads' = B!Disposed \cup {Begun(mounted', gallery)}

LEMMA RunIsSafe == ASSUME BubbleInv, auto' \in Settings, RunsAnew PROVE BubbleInv'
  <1>0. PICK gallery \in BOOLEAN :
            loads' = B!Disposed \/ loads' = B!Disposed \cup {Begun(mounted', gallery)}
    BY DEF RunsAnew
  <1> DEFINE new == Begun(mounted', gallery)
  <1>1. /\ run' = run + 1 /\ uri' = 0 /\ urls' = urls \ {uri}
        /\ loads' = B!Disposed \/ loads' = B!Disposed \cup {new}
    BY <1>0 DEF RunsAnew, B!Disposes
  <1>2. new \in Load /\ ~new.disposed /\ new.run = run' /\ new.at = "download"
    BY <1>1 DEF RunsAnew, Begun, BubbleInv, BubbleTypes, Load
  <1>3. \A l \in B!Disposed : l \in Load /\ l.disposed
              /\ (l.at \in {"write", "save"} => place = "phone")
    BY DisposedLoads DEF BubbleInv
  <1> HIDE DEF new
  <1>4. BubbleTypes'  BY <1>1, <1>2, <1>3 DEF RunsAnew, BubbleInv, BubbleTypes
  <1>5. OnlyLastIsLive' /\ RunsOnce' /\ Places'
    BY <1>1, <1>2, <1>3 DEF RunsAnew, OnlyLastIsLive, RunsOnce, Places, BubbleInv, BubbleTypes
  <1>6. B!OnlyTheLastRunShows'  BY <1>1 DEF RunsAnew, BubbleInv, B!OnlyTheLastRunShows
  <1> QED  BY <1>4, <1>5, <1>6 DEF BubbleInv

LEMMA BubbleStandsStill ==
    ASSUME BubbleInv, UNCHANGED <<place, mounted, run, uri, urls, loads>>,
           auto' \in Settings
    PROVE  BubbleInv'
  BY DEF BubbleInv, BubbleTypes, OnlyLastIsLive, RunsOnce, Places, B!OnlyTheLastRunShows

(* A run under way reaches its next await.                                 *)
LEMMA LoadGoesOn ==
    ASSUME BubbleInv, NEW l \in loads, NEW at \in {"decrypt", "write", "save"}, B!Goes(l, at),
           at \in {"write", "save"} => place = "phone", UNCHANGED <<place, auto, mounted, run, uri, urls>>
    PROVE  BubbleInv'
  <1> DEFINE new == [l EXCEPT !.at = at]
  <1>1. loads' = (loads \ {l}) \cup {new}  BY DEF B!Goes
  <1>2. new \in Load /\ new.disposed = l.disposed /\ new.run = l.run /\ new.at = at
    BY DEF BubbleInv, BubbleTypes, Load
  <1> HIDE DEF new
  <1>3. BubbleTypes' /\ Places'  BY <1>1, <1>2 DEF BubbleInv, BubbleTypes, Places
  <1>4. OnlyLastIsLive' /\ RunsOnce'  BY <1>1, <1>2 DEF BubbleInv, OnlyLastIsLive, RunsOnce
  <1> QED  BY <1>3, <1>4 DEF BubbleInv, B!OnlyTheLastRunShows

(* A run ends: it shows what it brought unless it was disposed of.         *)
LEMMA LoadEnds ==
    ASSUME BubbleInv, NEW l \in loads, loads' = loads \ {l}, UNCHANGED <<place, auto, mounted, run>>,
           \/ UNCHANGED <<uri, urls>>
           \/ ~l.disposed /\ uri' = l.run /\ urls' = IF place = "phone" THEN urls ELSE urls \cup {l.run}
    PROVE  BubbleInv'
  <1>1. BubbleTypes' /\ Places'  BY DEF BubbleInv, BubbleTypes, Places, OnlyLastIsLive
  <1>2. RunsOnce' /\ OnlyLastIsLive'  BY DEF BubbleInv, RunsOnce, OnlyLastIsLive
  <1>3. B!OnlyTheLastRunShows'  BY DEF BubbleInv, B!OnlyTheLastRunShows, OnlyLastIsLive
  <1> QED  BY <1>1, <1>2, <1>3 DEF BubbleInv

LEMMA LoadShows == ASSUME BubbleInv, NEW l \in loads, B!Shows(l) PROVE BubbleInv'
  BY LoadEnds DEF B!Shows, B!IsDisposed, B!Others

LEMMA BubbleStep == BubbleInv /\ [B!Next]_(B!vars) => BubbleInv'
  <1> SUFFICES ASSUME BubbleInv, [B!Next]_(B!vars) PROVE BubbleInv'
    OBVIOUS
  <1>0. auto \in Settings /\ {run, mounted} \subseteq Nat /\ mounted <= run
    BY DEF BubbleInv, BubbleTypes
  <1>1. CASE B!Mounts
    <2>1. RunsAnew  BY <1>0, <1>1 DEF B!Mounts, B!Runs, RunsAnew, Begun, Settings
    <2> QED  BY <1>0, <1>1, <2>1, RunIsSafe DEF B!Mounts
  <1>2. CASE B!Unmounts
    <2>1. /\ mounted' = 0 /\ uri' = 0 /\ urls' = urls \ {uri} /\ loads' = B!Disposed
          /\ UNCHANGED <<place, auto, run>>
      BY <1>2 DEF B!Unmounts, B!Disposes
    <2>2. \A l \in B!Disposed : l \in Load /\ l.disposed
              /\ (l.at \in {"write", "save"} => place = "phone")
      BY DisposedLoads DEF BubbleInv
    <2>3. BubbleTypes' /\ Places'  BY <1>0, <2>1, <2>2 DEF BubbleInv, BubbleTypes, Places
    <2>4. OnlyLastIsLive' /\ RunsOnce'  BY <2>1, <2>2 DEF OnlyLastIsLive, RunsOnce
    <2> QED  BY <2>1, <2>3, <2>4 DEF BubbleInv, B!OnlyTheLastRunShows
  <1>3. CASE B!ApplyNetwork
    <2>1. mounted # 0 /\ UNCHANGED <<place, auto, mounted>>  BY <1>3 DEF B!ApplyNetwork
    <2>2. B!Runs(auto, network', manual, mounted) \/ UNCHANGED <<run, uri, urls, failed, loads>>
      BY <1>3 DEF B!ApplyNetwork, B!RunsIfChanged
    <2>3. CASE B!Runs(auto, network', manual, mounted)
      <3>1. RunsAnew  BY <1>0, <2>1, <2>3 DEF B!Runs, RunsAnew, Begun, Settings
      <3> QED  BY <1>0, <2>1, <3>1, RunIsSafe
    <2>4. CASE UNCHANGED <<run, uri, urls, failed, loads>>
      BY <1>0, <2>1, <2>4, BubbleStandsStill
    <2> QED  BY <2>2, <2>3, <2>4
  <1>4. CASE B!ConnectionChanges  BY <1>0, <1>4, BubbleStandsStill DEF B!ConnectionChanges, B!bubble
  <1>5. CASE B!ChangeSettings
    <2>1. PICK name \in DOMAIN auto : auto' = [auto EXCEPT ![name] = ~@]
      BY <1>5 DEF B!ChangeSettings
    <2>2. auto' \in Settings  BY <1>0, <2>1 DEF Settings
    <2>3. auto'.gallery \in BOOLEAN  BY <2>2 DEF Settings
    <2>4. mounted # 0 /\ UNCHANGED <<place, mounted>>  BY <1>5 DEF B!ChangeSettings
    <2>5. B!Runs(auto', network, manual, mounted) \/ UNCHANGED <<run, uri, urls, failed, loads>>
      BY <1>5 DEF B!ChangeSettings, B!RunsIfChanged
    <2>6. CASE B!Runs(auto', network, manual, mounted)
      <3>1. run' = run + 1 /\ B!Disposes  BY <2>6 DEF B!Runs
      <3>2. loads' = B!Disposed \/ loads' = B!Disposed \cup {Begun(mounted', auto'.gallery)}
        BY <2>4, <2>6 DEF B!Runs, Begun
      <3>3. RunsAnew  BY <1>0, <2>3, <2>4, <3>1, <3>2 DEF RunsAnew
      <3> QED  BY <2>2, <3>3, RunIsSafe
    <2>7. CASE UNCHANGED <<run, uri, urls, failed, loads>>  BY <2>2, <2>4, <2>7, BubbleStandsStill
    <2> QED  BY <2>5, <2>6, <2>7
  <1>6. CASE B!PressDownload
    <2>1. RunsAnew  BY <1>0, <1>6 DEF B!PressDownload, B!Runs, RunsAnew, Begun, Settings
    <2> QED  BY <1>0, <1>6, <2>1, RunIsSafe DEF B!PressDownload
  <1>7. ASSUME NEW l \in loads, B!Downloaded(l) PROVE BubbleInv'
    BY <1>7, LoadGoesOn DEF B!Downloaded, B!Others
  <1>8. ASSUME NEW l \in loads, B!DecryptMedia(l) PROVE BubbleInv'
    BY <1>8, LoadShows DEF B!DecryptMedia
  <1>9. ASSUME NEW l \in loads, B!MobileDecrypt(l) PROVE BubbleInv'
    BY <1>9, LoadShows, LoadGoesOn DEF B!MobileDecrypt, B!Others
  <1>10. ASSUME NEW l \in loads, B!WriteFile(l) PROVE BubbleInv'
    <2>1. place = "phone"  BY <1>10 DEF B!WriteFile, BubbleInv, Places
    <2> QED  BY <1>10, <2>1, LoadShows, LoadGoesOn DEF B!WriteFile, B!Others
  <1>11. ASSUME NEW l \in loads, B!SaveNativeFile(l) PROVE BubbleInv'
    BY <1>11, LoadShows DEF B!SaveNativeFile
  <1>12. ASSUME NEW l \in loads, B!LoadFails(l) PROVE BubbleInv'
    BY <1>12, LoadEnds DEF B!LoadFails, B!Others
  <1>13. CASE UNCHANGED B!vars  BY <1>0, <1>13, BubbleStandsStill DEF B!vars, B!bubble
  <1> QED
    BY <1>1, <1>2, <1>3, <1>4, <1>5, <1>6, <1>7, <1>8, <1>9, <1>10, <1>11, <1>12, <1>13
    DEF B!Next, B!DownloadMedia, B!MobileDownload

(* For any number of runs of the effect: what a bubble shows was brought   *)
(* by its last run, and every other object URL has been revoked            *)
(* (media-bubble.tsx, MediaBubble.tsx).                                    *)
THEOREM LastRunShows == Spec => []OnlyTheLastRunShows
  <1>1. Init => BubbleInv  BY BubbleInit DEF Init
  <1>2. [Next]_vars => [B!Next]_(B!vars)  BY DEF Next, vars, bubble, B!vars, B!bubble
  <1>3. BubbleInv => OnlyTheLastRunShows  BY DEF BubbleInv, OnlyTheLastRunShows
  <1> QED  BY <1>1, <1>2, <1>3, BubbleStep, PTL DEF Spec

-------------------------------------------------------------------------------
(* AuthPage: the page is never locked for good, and the desktop client     *)
(* sends the credentials to the server that was checked last.              *)
SignInAsk == [n : Nat, kind : {"check", "auth"}, page : Nat, server : Servers \cup {0},
        at : {"sent", "accepted"}]
AuthTypes ==
    /\ asks \subseteq SignInAsk /\ {page, pages, asked} \subseteq Nat
    /\ input \in Servers /\ serverUrl \in Servers \cup {0}
(* A page that is shown anew has been asked nothing yet.                   *)
PagesGoUp == page <= pages /\ \A a \in asks : a.page # 0 /\ a.page <= pages
(* On the desktop a page has one request under way, and a check is for the *)
(* server that was checked last.                                           *)
OneAsk ==
    form = "desktop" => \A a \in asks : a.page = page =>
        /\ a.kind = "check" => a.server = wanted
        /\ \A b \in asks : b.page = page => a = b
AuthInv == AuthTypes /\ PagesGoUp /\ G!PageIsHonest /\ OneAsk

LEMMA AuthInit == G!Init => AuthInv
  BY DEF G!Init, AuthInv, AuthTypes, PagesGoUp, G!PageIsHonest, OneAsk

(* A request is answered for good: it leaves, and the page it is of is not *)
(* busy any more.                                                          *)
LEMMA AnswerIsSafe ==
    ASSUME AuthInv, NEW ask \in asks, G!Ends(ask), UNCHANGED page,
           \/ UNCHANGED <<step, serverUrl>>
           \/ ask.page = page /\ ask.kind = "check" /\ serverUrl' = ask.server
    PROVE  AuthInv'
  <1>1. /\ asks' = asks \ {ask} /\ busy' = (busy /\ ask.page # page)
        /\ UNCHANGED <<form, input, asked, pages, wanted>>
    BY DEF G!Ends
  <1>2. AuthTypes'  BY <1>1 DEF AuthInv, AuthTypes, SignInAsk
  <1>3. PagesGoUp' /\ OneAsk'  BY <1>1 DEF AuthInv, PagesGoUp, OneAsk
  <1>4. ASSUME page # 0, busy' PROVE G!UnderWay'
    BY <1>1, <1>4 DEF AuthInv, G!PageIsHonest, G!UnderWay
  <1>5. ASSUME page # 0, form = "desktop", G!UnderWay' PROVE busy'
    <2>1. PICK other \in asks \ {ask} : other.page = page  BY <1>1, <1>5 DEF G!UnderWay
    <2>2. ask.page # page  BY <1>5, <2>1 DEF AuthInv, OneAsk
    <2> QED  BY <1>1, <1>5, <2>1, <2>2 DEF AuthInv, G!PageIsHonest, G!UnderWay
  <1>6. ASSUME page # 0, form = "desktop", step' = "auth" PROVE serverUrl' = wanted'
    BY <1>1, <1>6 DEF AuthInv, G!PageIsHonest, OneAsk
  <1>7. G!PageIsHonest'  BY <1>1, <1>4, <1>5, <1>6 DEF G!PageIsHonest
  <1> QED  BY <1>2, <1>3, <1>7 DEF AuthInv

LEMMA AskIsSafe ==
    ASSUME AuthInv, NEW kind \in {"check", "auth"}, NEW server \in Servers \cup {0},
           G!Asks(kind, server),
           \/ kind = "check" /\ step = "server" /\ wanted' = server
           \/ kind = "auth" /\ UNCHANGED wanted
    PROVE  AuthInv'
  <1> DEFINE new == [n |-> asked', kind |-> kind, page |-> page, server |-> server, at |-> "sent"]
  <1>1. /\ page # 0 /\ (form = "desktop" => ~busy) /\ asked' = asked + 1 /\ busy' = TRUE
        /\ asks' = asks \cup {new} /\ UNCHANGED <<form, page, step, input, serverUrl, pages>>
    BY DEF G!Asks, G!Submits
  <1>2. AuthTypes'  BY <1>1 DEF AuthInv, AuthTypes, SignInAsk
  <1>3. PagesGoUp'  BY <1>1 DEF AuthInv, PagesGoUp
  <1>4. ASSUME form = "desktop" PROVE \A a \in asks : a.page # page
    BY <1>1, <1>4 DEF AuthInv, G!PageIsHonest, G!UnderWay
  <1>5. OneAsk'  BY <1>1, <1>4 DEF OneAsk
  <1>6. G!UnderWay'
    <2>1. new \in asks' /\ new.page = page'  BY <1>1
    <2> HIDE DEF new
    <2> QED  BY <2>1 DEF G!UnderWay
  <1>7. G!PageIsHonest'  BY <1>1, <1>6 DEF AuthInv, G!PageIsHonest
  <1> QED  BY <1>2, <1>3, <1>5, <1>7 DEF AuthInv

LEMMA AuthStep == AuthInv /\ [G!Next]_(G!vars) => AuthInv'
  <1> SUFFICES ASSUME AuthInv, [G!Next]_(G!vars) PROVE AuthInv'
    OBVIOUS
  <1> USE DEF G!fields, G!history
  <1>1. CASE G!Shows
    <2>1. /\ page' = pages + 1 /\ pages' = pages + 1 /\ step' = "server" /\ busy' = FALSE
          /\ serverUrl' = 0 /\ UNCHANGED <<form, input, asks, asked>>
      BY <1>1 DEF G!Shows
    <2>2. \A a \in asks : a.page # page'  BY <2>1 DEF AuthInv, AuthTypes, SignInAsk, PagesGoUp
    <2>3. AuthTypes' /\ PagesGoUp'  BY <2>1 DEF AuthInv, AuthTypes, SignInAsk, PagesGoUp
    <2> QED  BY <2>1, <2>2, <2>3 DEF AuthInv, OneAsk, G!PageIsHonest, G!UnderWay
  <1>2. CASE G!TypeAddress
    BY <1>2 DEF G!TypeAddress, AuthInv, AuthTypes, PagesGoUp, OneAsk, G!PageIsHonest, G!UnderWay
  <1>3. CASE G!CheckServer
    BY <1>3, AskIsSafe DEF G!CheckServer, AuthInv, AuthTypes
  <1>4. CASE G!SubmitAuth
    BY <1>4, AskIsSafe DEF G!SubmitAuth, AuthInv, AuthTypes
  <1>5. CASE G!GoBack
    <2>1. /\ UNCHANGED <<form, input, serverUrl, busy, asks, asked, pages, wanted>>
          /\ \/ page' = 0 /\ step' = step
             \/ page' = page /\ step' = "server"
      BY <1>5 DEF G!GoBack
    <2>2. AuthTypes' /\ PagesGoUp'  BY <2>1 DEF AuthInv, AuthTypes, PagesGoUp
    <2>3. CASE page' = 0
      <3>1. \A a \in asks : a.page # page'  BY <2>3 DEF AuthInv, PagesGoUp
      <3> QED  BY <2>1, <2>2, <2>3, <3>1 DEF AuthInv, OneAsk, G!PageIsHonest
    <2>4. CASE page' = page /\ step' = "server"
      BY <2>1, <2>2, <2>4 DEF AuthInv, OneAsk, G!PageIsHonest, G!UnderWay
    <2> QED  BY <2>1, <2>3, <2>4
  <1>6. ASSUME NEW ask \in asks, G!Available(ask) PROVE AuthInv'
    BY <1>6, AnswerIsSafe DEF G!Available
  <1>7. ASSUME NEW ask \in asks, G!Fails(ask) PROVE AuthInv'
    BY <1>7, AnswerIsSafe DEF G!Fails
  <1>8. ASSUME NEW ask \in asks, G!Accepted(ask) PROVE AuthInv'
    <2> DEFINE new == [ask EXCEPT !.at = "accepted"]
    <2>1. /\ asks' = (asks \ {ask}) \cup {new} /\ ask.kind = "auth"
          /\ UNCHANGED <<form, page, step, input, serverUrl, busy, asked, pages, wanted>>
      BY <1>8 DEF G!Accepted
    <2>2. new \in SignInAsk /\ new.page = ask.page /\ new.kind = "auth"
      BY <2>1 DEF AuthInv, AuthTypes, SignInAsk
    <2> HIDE DEF new
    <2>3. AuthTypes' /\ PagesGoUp'  BY <2>1, <2>2 DEF AuthInv, AuthTypes, PagesGoUp
    <2>4. OneAsk'  BY <2>1, <2>2 DEF AuthInv, OneAsk
    <2>5. G!UnderWay' <=> G!UnderWay  BY <2>1, <2>2 DEF G!UnderWay
    <2> QED  BY <2>1, <2>3, <2>4, <2>5 DEF AuthInv, G!PageIsHonest
  <1>9. ASSUME NEW ask \in asks, G!OnAuthenticated(ask) PROVE AuthInv'
    <2>1. /\ asks' = asks \ {ask} /\ page' = 0
          /\ UNCHANGED <<form, input, serverUrl, asked, pages, wanted>>
      BY <1>9 DEF G!OnAuthenticated, G!Ends
    <2>2. \A a \in asks : a.page # page'  BY <2>1 DEF AuthInv, PagesGoUp
    <2>3. AuthTypes' /\ PagesGoUp'  BY <2>1 DEF AuthInv, AuthTypes, PagesGoUp
    <2> QED  BY <2>1, <2>2, <2>3 DEF AuthInv, OneAsk, G!PageIsHonest
  <1>10. CASE UNCHANGED G!vars
    BY <1>10 DEF G!vars, AuthInv, AuthTypes, PagesGoUp, OneAsk, G!PageIsHonest, G!UnderWay
  <1> QED  BY <1>1, <1>2, <1>3, <1>4, <1>5, <1>6, <1>7, <1>8, <1>9, <1>10 DEF G!Next

(* For any servers, pages and requests: the page one signs in on is busy   *)
(* only while something it asked is under way, and on the desktop the      *)
(* server it shows is the one that was checked last (auth-page.tsx).       *)
THEOREM SignInIsHonest == Spec => []PageIsHonest
  <1>1. Init => AuthInv  BY AuthInit DEF Init
  <1>2. [Next]_vars => [G!Next]_(G!vars)
    BY DEF Next, vars, signing, G!vars, G!fields, G!history
  <1>3. AuthInv => PageIsHonest  BY DEF AuthInv, PageIsHonest
  <1> QED  BY <1>1, <1>2, <1>3, AuthStep, PTL DEF Spec

-------------------------------------------------------------------------------
(* MediaSend: the composer waits for the last upload and for nothing else. *)
Upload == [op : Nat, at : {"encrypt", "upload", "queued"}, aborted : BOOLEAN]
(* An upload has a number of its own, and none is ahead of the last one.   *)
OwnNumbers ==
    /\ sends \subseteq Upload /\ {operation, controller} \subseteq Nat /\ app \in {"desktop", "phone"}
    /\ progress \in BOOLEAN /\ \A s \in sends : s.op <= operation
    /\ \A s, t \in sends : s.op = t.op => s = t
SendInv == OwnNumbers /\ U!ComposerWaits

LEMMA SendInit == U!Init => SendInv
  <1> SUFFICES ASSUME U!Init PROVE SendInv
    OBVIOUS
  <1>1. sends = {} /\ progress = FALSE /\ operation = 0 /\ controller = 0 /\ app \in {"desktop", "phone"}
    BY DEF U!Init
  <1>2. OwnNumbers
    <2>1. progress \in BOOLEAN  BY <1>1
    <2> QED  BY <1>1, <2>1 DEF OwnNumbers
  <1>3. U!ComposerWaits  BY <1>1 DEF U!ComposerWaits
  <1> QED  BY <1>2, <1>3 DEF SendInv

LEMMA AbortedUploads ==
    ASSUME OwnNumbers
    PROVE  /\ U!Aborted \subseteq Upload
           /\ \A t \in U!Aborted : \E s \in sends : t.op = s.op
           /\ \A t, u \in U!Aborted : t.op = u.op => t = u
  <1> DEFINE f(s) == IF s.op = controller THEN [s EXCEPT !.aborted = TRUE] ELSE s
  <1>1. \A s \in sends : f(s) \in Upload /\ f(s).op = s.op  BY DEF OwnNumbers, Upload
  <1>2. U!Aborted = {f(s) : s \in sends}  BY DEF U!Aborted
  <1> HIDE DEF f
  <1> QED  BY <1>1, <1>2 DEF OwnNumbers

(* A new upload is the last one; those before it are at most aborted.      *)
LEMMA StartsIsSafe ==
    ASSUME SendInv, NEW rest, U!Starts(rest), controller' \in {controller, operation'},
           rest \subseteq Upload, \A t \in rest : \E s \in sends : t.op = s.op,
           \A t, u \in rest : t.op = u.op => t = u
    PROVE  SendInv'
  <1> DEFINE new == [op |-> operation', at |-> "encrypt", aborted |-> FALSE]
  <1>1. operation' = operation + 1 /\ progress' = TRUE /\ sends' = rest \cup {new} /\ app' = app
    BY DEF U!Starts
  <1>2. new \in Upload /\ new.op = operation'  BY <1>1 DEF Upload, SendInv, OwnNumbers
  <1> HIDE DEF new
  <1>3. \A t \in rest : t.op <= operation /\ t.op \in Nat  BY DEF SendInv, OwnNumbers, Upload
  <1>4. OwnNumbers'  BY <1>1, <1>2, <1>3 DEF SendInv, OwnNumbers
  <1>5. \E s \in sends' : s.op = operation'  BY <1>1, <1>2
  <1> QED  BY <1>1, <1>4, <1>5 DEF SendInv, U!ComposerWaits, U!Owns

(* An upload goes on under its number.                                     *)
LEMMA UploadGoesOn ==
    ASSUME SendInv, NEW s \in sends, U!Goes(s, {"encrypt", "upload", "queued"}),
           \/ UNCHANGED progress
           \/ progress' = (progress \/ U!Owns(s))
    PROVE  SendInv'
  <1>1. PICK at \in {"encrypt", "upload", "queued"} : sends' = (sends \ {s}) \cup {[s EXCEPT !.at = at]}
    BY DEF U!Goes
  <1> DEFINE new == [s EXCEPT !.at = at]
  <1>2. new \in Upload /\ new.op = s.op /\ sends' = (sends \ {s}) \cup {new}
    BY <1>1 DEF SendInv, OwnNumbers, Upload
  <1> HIDE DEF new
  <1>3. UNCHANGED <<app, operation, controller>>  BY DEF U!Goes
  <1>0. (progress' => progress \/ U!Owns(s)) /\ (progress => progress') /\ progress' \in BOOLEAN
    <2>1. CASE UNCHANGED progress  BY <2>1 DEF SendInv, OwnNumbers
    <2>2. CASE progress' = (progress \/ U!Owns(s))  BY <2>2, Zenon
    <2> QED  BY <2>1, <2>2
  <1>4. OwnNumbers'  BY <1>2, <1>3, <1>0 DEF SendInv, OwnNumbers
  <1>5. \A n : (\E t \in sends : t.op = n) <=> (\E t \in sends' : t.op = n)  BY <1>2
  <1>6. sends' # {}  BY <1>2
  <1>8. \E t \in sends : t.op = s.op  OBVIOUS
  <1>9. progress' => \E t \in sends' : app = "phone" \/ t.op = operation
    <2>1. U!Owns(s) => \E t \in sends' : app = "phone" \/ t.op = operation
      BY <1>5, <1>6, <1>8 DEF U!Owns
    <2>2. progress => \E t \in sends' : app = "phone" \/ t.op = operation
      BY <1>5, <1>6 DEF SendInv, U!ComposerWaits, U!Owns
    <2> QED  BY <1>0, <2>1, <2>2
  <1>10. app = "desktop" /\ (\E t \in sends' : t.op = operation) => progress'
    BY <1>5, <1>0 DEF SendInv, U!ComposerWaits
  <1>11. U!ComposerWaits'  BY <1>3, <1>9, <1>10 DEF U!ComposerWaits, U!Owns
  <1> QED  BY <1>4, <1>11 DEF SendInv

LEMMA UploadEnds == ASSUME SendInv, NEW s \in sends, U!Ends(s) PROVE SendInv'
  <1>1. /\ sends' = sends \ {s} /\ progress' = (progress /\ ~U!Owns(s)) /\ UNCHANGED <<app, operation>>
        /\ controller' \in {0, controller}
    BY DEF U!Ends
  <1>2. OwnNumbers'  BY <1>1 DEF SendInv, OwnNumbers
  <1> QED  BY <1>1, <1>2 DEF SendInv, OwnNumbers, U!ComposerWaits, U!Owns

LEMMA SendStep == SendInv /\ [U!Next]_(U!vars) => SendInv'
  <1> SUFFICES ASSUME SendInv, [U!Next]_(U!vars) PROVE SendInv'
    OBVIOUS
  <1>1. CASE U!Begins
    BY <1>1, StartsIsSafe, AbortedUploads DEF U!Begins, SendInv
  <1>2. CASE U!MobileBegins
    BY <1>2, StartsIsSafe DEF U!MobileBegins, SendInv, OwnNumbers
  <1>3. CASE UNCHANGED <<app, operation, controller, progress, sends>>
    BY <1>3 DEF SendInv, OwnNumbers, U!ComposerWaits, U!Owns
  <1>4. ASSUME NEW s \in sends, U!EncryptMedia(s) \/ U!MobileEncryptMedia(s) PROVE SendInv'
    BY <1>4, UploadGoesOn DEF U!EncryptMedia, U!MobileEncryptMedia, U!Goes
  <1>5. ASSUME NEW s \in sends, U!UploadMedia(s) PROVE SendInv'
    BY <1>5, UploadGoesOn DEF U!UploadMedia, U!UpdateMediaProgress, U!Goes
  <1>6. ASSUME NEW s \in sends, U!MobileUploadMedia(s) PROVE SendInv'
    <2>1. U!Owns(s)  BY <1>6 DEF U!MobileUploadMedia, U!Owns
    <2> QED  BY <1>6, <2>1, UploadGoesOn DEF U!MobileUploadMedia, U!Goes
  <1>7. ASSUME NEW s \in sends, U!Sent(s) \/ U!Fails(s) PROVE SendInv'
    BY <1>7, UploadEnds DEF U!Sent, U!Fails
  <1>8. CASE U!PlainEnds
    BY <1>8 DEF U!PlainEnds, SendInv, OwnNumbers, U!ComposerWaits, U!Owns
  <1>9. CASE U!CancelMediaOperation
    <2>1. /\ app = "desktop" /\ operation' = operation + 1 /\ controller' = 0 /\ progress' = FALSE
          /\ sends' = U!Aborted /\ app' = app
      BY <1>9 DEF U!CancelMediaOperation
    <2>2. \A t \in sends' : t \in Upload /\ t.op <= operation
        BY <2>1, AbortedUploads DEF SendInv, OwnNumbers
    <2>3. OwnNumbers'
      <3>1. progress' \in BOOLEAN  BY <2>1
      <3>2. \A s, t \in sends' : s.op = t.op => s = t  BY <2>1, AbortedUploads DEF SendInv
      <3>3. /\ sends' \subseteq Upload /\ \A s \in sends' : s.op <= operation'
            /\ {operation', controller'} \subseteq Nat
        BY <2>1, <2>2 DEF SendInv, OwnNumbers, Upload
      <3> QED  BY <2>1, <3>1, <3>2, <3>3 DEF OwnNumbers
    <2>4. \A t \in sends' : t.op # operation'  BY <2>1, <2>2 DEF SendInv, OwnNumbers, Upload
    <2> QED  BY <2>1, <2>3, <2>4 DEF SendInv, U!ComposerWaits, U!Owns
  <1> QED
    BY <1>1, <1>2, <1>3, <1>4, <1>5, <1>6, <1>7, <1>8, <1>9
    DEF U!Next, U!vars, U!Submit, U!MobileSubmit, U!ForwardMessage, U!Forwarded,
        U!SendForwardedMessage, U!ForwardFails

(* For any number of messages and forwards: the composer waits only while  *)
(* an upload is under way, and on the desktop exactly while the last one   *)
(* is, so it is never locked for good (sendMessageToConversation).         *)
THEOREM ComposerIsFreed == Spec => []ComposerWaits
  <1>1. Init => SendInv  BY SendInit DEF Init
  <1>2. [Next]_vars => [U!Next]_(U!vars)  BY DEF Next, vars, upload, U!vars
  <1>3. SendInv => ComposerWaits  BY DEF SendInv, ComposerWaits
  <1> QED  BY <1>1, <1>2, <1>3, SendStep, PTL DEF Spec

-------------------------------------------------------------------------------
(* Screens: the composer answers a message of the chat it is shown in.     *)
(* The mobile client has started, or is about to; what is replied to is    *)
(* gone until it has.                                                      *)
Started == hydrated \in BOOLEAN /\ (S!Desktop => hydrated)
CallsAreOf == \A call \in calls : call.kind = "add" => call.by \in Profiles
(* The tab state has the chat that is open, which is what a new sign-in to *)
(* the active profile opens again.                                         *)
Remembered ==
    /\ DOMAIN lastChat = Profiles
    /\ hydrated /\ active \in Profiles => lastChat[active] = open
QuoteHasItsChat ==
    ~foreign /\ quote # None => hydrated /\ active # None /\ (open # None => quote = open)
ScreenInv == Started /\ CallsAreOf /\ Remembered /\ QuoteHasItsChat

LEMMA NoneIsNoProfile == None \notin Profiles
  BY MessengerAssumption DEF S!ScreensAssumption

LEMMA ScreenInit == S!Init => ScreenInv
  BY NoneIsNoProfile
  DEF S!Init, ScreenInv, Started, CallsAreOf, Remembered, QuoteHasItsChat

LEMMA RememberIsTrue ==
    ASSUME NEW remembered, DOMAIN remembered = Profiles, S!Remember(remembered)
    PROVE  Remembered'
  BY NoneIsNoProfile DEF S!Remember, Remembered

(* What a step may do to the reply: drop it, or keep it with chat and      *)
(* profile, or with no chat; on the desktop another profile counts as      *)
(* foreign.                                                                *)
Keeps ==
    \/ quote' = None
    \/ foreign'
    \/ /\ UNCHANGED <<quote, active, foreign>> /\ open' \in {open, None} /\ (hydrated => hydrated')

LEMMA KeepsIsSafe == ScreenInv /\ Keeps => QuoteHasItsChat'
  BY DEF ScreenInv, QuoteHasItsChat, Keeps

(* A step after which the chat that is open has been remembered, and one   *)
(* that leaves profile and chat as they were.                              *)
LEMMA MovesOn ==
    ASSUME ScreenInv, Keeps, S!Remember(lastChat), UNCHANGED <<platform, hydrated>>, calls' \subseteq calls
    PROVE  ScreenInv'
  <1>1. Remembered'  BY RememberIsTrue DEF ScreenInv, Remembered
  <1>2. Started' /\ CallsAreOf'  BY DEF ScreenInv, Started, CallsAreOf, S!Desktop
  <1> QED  BY <1>1, <1>2, KeepsIsSafe DEF ScreenInv
LEMMA StaysThere ==
    ASSUME ScreenInv, UNCHANGED <<platform, hydrated, active, open, lastChat, foreign>>, CallsAreOf',
           \/ quote' \in {None, quote}
           \/ quote' = open /\ hydrated /\ active # None
    PROVE  ScreenInv'
  BY DEF ScreenInv, Started, Remembered, QuoteHasItsChat, S!Desktop

LEMMA TakesOut ==
    ASSUME ScreenInv, NEW p, NEW had, NEW by, S!TakeOut(p, had, by), hydrated,
           UNCHANGED <<platform, hydrated>>, calls' \subseteq calls
    PROVE  ScreenInv'
  <1>1. S!Remember(IF S!Mobile THEN S!Forgotten(p) ELSE lastChat) /\ Keeps
    BY DEF S!TakeOut, S!view, Keeps
  <1>2. DOMAIN (IF S!Mobile THEN S!Forgotten(p) ELSE lastChat) = Profiles
    BY DEF ScreenInv, Remembered, S!Forgotten
  <1>3. Remembered'  BY <1>1, <1>2, RememberIsTrue
  <1>4. Started' /\ CallsAreOf'  BY DEF ScreenInv, Started, CallsAreOf, S!Desktop
  <1> QED  BY <1>1, <1>3, <1>4, KeepsIsSafe DEF ScreenInv

(* The answers to requests: on the desktop a sign-in to the active profile *)
(* opens its chat again, the one the reply is of.                          *)
LEMMA AnswersFit == ScreenInv /\ S!Ends => ScreenInv'
  <1> SUFFICES ASSUME ScreenInv, S!Ends PROVE ScreenInv'
    OBVIOUS
  <1> USE DEF S!who, S!view, S!search, S!start, S!fixed
  <1>1. hydrated /\ UNCHANGED <<platform, hydrated>>  BY DEF S!Ends
  <1>2. PICK call \in calls :
            /\ calls' = calls \ {call}
            /\ \/ S!Unauthorized(call) \/ S!Fails(call) \/ S!Created(call)
               \/ S!Added(call) \/ S!Deleted(call)
    BY DEF S!Ends
  <1>3. CallsAreOf'  BY <1>2 DEF ScreenInv, CallsAreOf
  <1>4. CASE S!Unauthorized(call)
    <2>1. CASE S!Mobile
      <3>1. S!Remember(lastChat) /\ quote' = None
        BY <1>4, <2>1 DEF S!Unauthorized, S!ExpireProfileSession, S!Effects
      <3> QED  BY <1>1, <1>2, <3>1, MovesOn DEF Keeps
    <2>2. CASE ~S!Mobile  BY <1>1, <1>3, <1>4, <2>2, StaysThere DEF S!Unauthorized
    <2> QED  BY <2>1, <2>2
  <1>5. CASE S!Fails(call)  BY <1>1, <1>3, <1>5, StaysThere DEF S!Fails
  <1>6. CASE S!Created(call)
    <2>1. S!Remember(lastChat) /\ quote' = None
      BY <1>6 DEF S!Created, S!ShowFound, S!SelectConversation
    <2> QED  BY <1>1, <1>2, <2>1, MovesOn DEF Keeps
  <1>7. CASE S!Added(call)
    <2>1. S!Remember(lastChat) /\ active' = call.by /\ call.by \in Profiles
      BY <1>7 DEF S!Added, S!AddProfile, S!Effects, ScreenInv, CallsAreOf
    <2>2. CASE S!Desktop
      <3>1. open' = lastChat[call.by] /\ UNCHANGED quote
            /\ foreign' = (foreign \/ (quote # None /\ call.by # active))
        BY <1>7, <2>2 DEF S!Added, S!AddProfile
      <3>2. quote = None \/ foreign' \/ (~foreign /\ call.by = active)  BY <3>1
      <3>3. CASE quote = None \/ foreign'  BY <1>1, <1>2, <2>1, <3>1, <3>3, MovesOn DEF Keeps
      <3>4. CASE quote # None /\ ~foreign' /\ ~foreign /\ call.by = active
        <4>1. open' = open  BY <1>1, <2>1, <3>1, <3>4 DEF ScreenInv, Remembered
        <4>2. Remembered'  BY <2>1, RememberIsTrue DEF ScreenInv, Remembered
        <4>3. Started'  BY <1>1 DEF ScreenInv, Started, S!Desktop
        <4>4. QuoteHasItsChat'  BY <1>1, <2>1, <3>1, <3>4, <4>1 DEF ScreenInv, QuoteHasItsChat
        <4> QED  BY <1>3, <4>2, <4>3, <4>4 DEF ScreenInv
      <3> QED  BY <3>2, <3>3, <3>4
    <2>3. CASE ~S!Desktop
      <3>1. quote' = None  BY <1>7, <2>3 DEF S!Added, S!AddProfile, S!MobileAdds
      <3> QED  BY <1>1, <1>2, <2>1, <3>1, MovesOn DEF Keeps
    <2> QED  BY <2>2, <2>3
  <1>8. CASE S!Deleted(call)  BY <1>1, <1>2, <1>8, TakesOut DEF S!Deleted
  <1> QED  BY <1>2, <1>4, <1>5, <1>6, <1>7, <1>8

LEMMA ScreenStep == ScreenInv /\ [S!Next]_(S!vars) => ScreenInv'
  <1> SUFFICES ASSUME ScreenInv, [S!Next]_(S!vars) PROVE ScreenInv'
    OBVIOUS
  <1> USE DEF S!who, S!view, S!search, S!start, S!fixed
  (* What selects another chat or none, or takes the reply away.            *)
  <1>1. CASE S!OpenChat
    BY <1>1, MovesOn DEF S!OpenChat, S!SelectConversation, S!Effects, Keeps
  <1>2. CASE S!LeaveConversation
    BY <1>2, MovesOn DEF S!LeaveConversation, S!SelectConversation, S!Effects, Keeps
  <1>3. CASE S!SelectPanel
    BY <1>3, MovesOn DEF S!SelectPanel, S!Effects, Keeps
  <1>4. CASE S!CloseChat
    BY <1>4, MovesOn DEF S!CloseChat, S!SelectConversation, S!Effects, Keeps
  <1>5. CASE S!ClearMessageCache
    <2>1. Keeps  BY <1>5 DEF S!ClearMessageCache, S!ClearActiveMessageCache, S!MobileClears, Keeps
    <2> QED  BY <1>5, <2>1, MovesOn DEF S!ClearMessageCache, S!Effects
  <1>6. ASSUME NEW p \in Profiles, S!SelectProfile(p) PROVE ScreenInv'
    BY <1>6, MovesOn DEF S!SelectProfile, S!Dropped, Keeps
  <1>7. CASE S!OpenSearchUser
    BY <1>7, MovesOn DEF S!OpenSearchUser, S!ShowFound, S!SelectConversation, Keeps
  <1>8. ASSUME NEW p, NEW c, S!OpenNotification(p, c), UNCHANGED <<platform, hydrated, calls>>
        PROVE  ScreenInv'
    BY <1>8, MovesOn DEF S!OpenNotification, S!Effects, Keeps
  <1>9. CASE S!OtherTab
    <2>1. S!Remember(lastChat) /\ UNCHANGED <<platform, hydrated, quote, calls>> /\ S!Desktop
      BY <1>9 DEF S!OtherTab, S!Effects
    <2>2. \/ UNCHANGED <<active, open, foreign>>
          \/ foreign' = (foreign \/ (quote # None /\ active # None))
      BY <1>9 DEF S!OtherTab, S!Fallback
    <2>3. Keeps  BY <2>1, <2>2 DEF Keeps, ScreenInv, QuoteHasItsChat
    <2> QED  BY <2>1, <2>3, MovesOn
  <1>10. ASSUME NEW p \in Profiles, S!RemoveProfile(p) PROVE ScreenInv'
    <2>1. hydrated /\ UNCHANGED <<platform, hydrated, calls>> /\ S!TakeOut(p, profiles, active)
      BY <1>10 DEF S!RemoveProfile, S!Usable
    <2> QED  BY <2>1, TakesOut
  (* What leaves profile and chat as they are.                              *)
  <1>11. CASE S!ReplyToMessage
    BY <1>11, StaysThere DEF S!ReplyToMessage, S!Shown, S!Usable, ScreenInv, CallsAreOf
  <1>12. CASE S!CancelContext
    BY <1>12, StaysThere DEF S!CancelContext, ScreenInv, CallsAreOf
  <1>13. CASE S!Sync \/ S!ShowAuth \/ S!CancelAuth
    BY <1>13, StaysThere DEF S!Sync, S!ShowAuth, S!CancelAuth, ScreenInv, CallsAreOf
  <1>14. CASE S!Starts
    <2>1. PICK call : call.kind # "add" /\ calls' = calls \cup {call}
      BY <1>14 DEF S!Starts, S!Begin, S!Call
    <2>2. CallsAreOf'  BY <2>1 DEF ScreenInv, CallsAreOf
    <2> QED  BY <1>14, <2>2, StaysThere DEF S!Starts
  <1>15. CASE S!SignIn
    <2>1. PICK p \in Profiles : calls' = calls \cup {S!Call("add", p, None)}
      BY <1>15 DEF S!SignIn, S!Begin
    <2>2. CallsAreOf'  BY <2>1 DEF ScreenInv, CallsAreOf, S!Call
    <2> QED  BY <1>15, <2>2, StaysThere DEF S!SignIn
  <1>16. CASE S!SearchForUser \/ S!TimerFires \/ S!ClearSearch \/ S!Answered
    BY <1>16, StaysThere
    DEF S!SearchForUser, S!TimerFires, S!ClearSearch, S!Answered, ScreenInv, CallsAreOf
  <1>17. CASE S!Press
    <2>1. PICK c \in Chats :
             IF hydrated THEN S!OpenNotification(Owner[c], c) /\ UNCHANGED S!start
             ELSE UNCHANGED <<hydrated, S!who, S!view, lastChat, list, S!search, foreign>>
      BY <1>17 DEF S!Press
    <2>2. UNCHANGED <<platform, calls>>  BY <1>17 DEF S!Press
    <2>3. CASE hydrated  BY <1>8, <2>1, <2>2, <2>3
    <2>4. CASE ~hydrated  BY <2>1, <2>2, <2>4, StaysThere DEF ScreenInv, CallsAreOf
    <2> QED  BY <2>3, <2>4
  <1>18. CASE S!OpenPending
    <2>1. UNCHANGED <<platform, hydrated, calls>>  BY <1>18 DEF S!OpenPending
    <2>2. \/ UNCHANGED <<S!who, S!view, lastChat, list, S!search, foreign>>
          \/ S!OpenNotification(Owner[notice[1]], notice[1])
      BY <1>18 DEF S!OpenPending
    <2>3. CASE UNCHANGED <<S!who, S!view, lastChat, list, S!search, foreign>>
      BY <2>1, <2>3, StaysThere DEF ScreenInv, CallsAreOf
    <2> QED  BY <1>8, <2>1, <2>2, <2>3
  (* The client starts again.                                               *)
  <1>19. CASE S!Restart
    <2>1. /\ quote' = None /\ calls' = {} /\ hydrated' = S!Desktop /\ UNCHANGED <<platform, lastChat>>
          /\ S!Desktop /\ active' # None => open' = lastChat[active']
      BY <1>19 DEF S!Restart, S!Desktop, S!Mobile
    <2>2. Started' /\ CallsAreOf' /\ QuoteHasItsChat'
      BY <2>1 DEF Started, CallsAreOf, QuoteHasItsChat, S!Desktop
    <2>3. Remembered'  BY <2>1, NoneIsNoProfile DEF ScreenInv, Remembered
    <2> QED  BY <2>2, <2>3 DEF ScreenInv
  <1>20. CASE S!Hydrate
    <2>1. S!Remember(lastChat) /\ ~hydrated /\ hydrated' = TRUE /\ UNCHANGED <<platform, quote, foreign, calls>>
      BY <1>20 DEF S!Hydrate
    <2>2. Remembered'  BY <2>1, RememberIsTrue DEF ScreenInv, Remembered
    <2>3. Started' /\ CallsAreOf' /\ QuoteHasItsChat'
      BY <2>1 DEF ScreenInv, Started, CallsAreOf, QuoteHasItsChat
    <2> QED  BY <2>2, <2>3 DEF ScreenInv
  <1>21. CASE UNCHANGED S!vars
    BY <1>21, StaysThere DEF S!vars, ScreenInv, CallsAreOf
  <1> QED
    BY <1>1, <1>2, <1>3, <1>4, <1>5, <1>6, <1>7, <1>9, <1>10, <1>11, <1>12, <1>13, <1>14, <1>15,
       <1>16, <1>17, <1>18, <1>19, <1>20, <1>21, AnswersFit
    DEF S!Next, S!HandleRootBack, S!DeleteConversation, S!SelectFolder, S!MobileSelectsFolder,
        S!SearchAnswered, S!MobileSearchAnswered

(* For any profiles, chats, searches and requests: over every way to       *)
(* another chat, screen or profile the composer answers a message of the   *)
(* chat it is shown in (both App.tsx), but for two ways of the desktop     *)
(* client that keep the reply, a sign-in to another profile and the removal*)
(* of the active one by another tab (foreign; see QuoteAlwaysStays).       *)
THEOREM QuoteIsOfItsChat == Spec => []QuoteStaysInChat
  <1>1. Init => ScreenInv  BY ScreenInit DEF Init
  <1>2. [Next]_vars => [S!Next]_(S!vars)
    BY DEF Next, vars, screens, S!vars, S!who, S!view, S!search, S!start, S!fixed
  <1>3. ScreenInv => QuoteStaysInChat
    BY DEF ScreenInv, QuoteHasItsChat, QuoteStaysInChat, S!QuoteStaysInChat
  <1> QED  BY <1>1, <1>2, <1>3, ScreenStep, PTL DEF Spec

-------------------------------------------------------------------------------
(* AccountWrites: when nothing is under way, what is shown is what the     *)
(* server has.                                                             *)
Write == [op : {"set", "add", "remove", "keep"}, ids : SUBSET Nat, edit : Nat,
          at : {"waiting", "sent", "stored"}]
Document == [ids : SUBSET Nat, edit : Nat]
Queued == 1..Len(writes)
OpsOf(d) ==
    IF d \in {"folders", "privacy"} THEN {"set"}
    ELSE IF d = "revoked" THEN {"remove", "keep"} ELSE {"add", "remove"}
WriteTypes ==
    /\ document \in {"folders", "privacy", "revoked", "blocked"} /\ {edits, others} \subseteq Nat
    /\ writes \in Seq(Write) /\ wire \subseteq Write
    /\ saved \in Document /\ shown \in Document /\ (reading # <<>> => reading[1] \in Document)
    /\ \A n \in Queued : writes[n].op \in OpsOf(document)
    /\ \A w \in wire : w.op \in OpsOf(document)
    /\ overlap \in BOOLEAN /\ gaveUp \in BOOLEAN
Listed == document \in {"folders", "privacy"}
(* Only a whole list has the number of the change that made it.            *)
Unnumbered ==
    ~Listed => saved.edit = 0 /\ shown.edit = 0 /\ (reading # <<>> => reading[1].edit = 0)
(* A request that was given up and may still arrive was reported.          *)
WireIsKnown == wire # {} => gaveUp
(* Lists are written one after the other, and the last write has the last  *)
(* change.                                                                 *)
InTurn ==
    Listed => /\ \A n \in Queued : n > 1 => writes[n].at = "waiting"
              /\ writes # <<>> => writes[Len(writes)].edit = edits
(* The id of an account that will be blocked is not known anywhere.        *)
Past(ids) == \A k \in Nat : k >= edits => 100 + 2 * k \notin ids
NewIsNew ==
    document = "blocked" =>
        /\ Past(saved.ids) /\ Past(shown.ids) /\ (reading # <<>> => Past(reading[1].ids))
        /\ \A n \in Queued : Past(writes[n].ids)
        /\ \A w \in wire : Past(w.ids)

Stored(n) == writes[n].at = "stored"
ListSettles ==
    /\ writes = <<>> => shown = saved
    /\ writes # <<>> /\ Stored(1) => saved.ids = writes[1].ids /\ saved.edit = writes[1].edit
(* What the server has is what is shown after the writes that were stored  *)
(* and not answered yet.                                                   *)
Permits(w, x) == IF w.op = "remove" THEN x \notin w.ids ELSE x \in w.ids
RevokedSettles ==
    \A x \in Nat : x \in saved.ids <=>
        x \in shown.ids /\ \A n \in Queued : Stored(n) => Permits(writes[n], x)
AddsApart ==
    \A n \in Queued : writes[n].op = "add" =>
        /\ writes[n].ids \cap shown.ids = {}
        /\ \A m \in Queued : m # n => writes[n].ids \cap writes[m].ids = {}
BlockedSettles ==
    \A x \in Nat : x \in saved.ids <=>
        /\ \/ x \in shown.ids
           \/ \E n \in Queued : Stored(n) /\ writes[n].op = "add" /\ x \in writes[n].ids
        /\ ~\E n \in Queued : Stored(n) /\ writes[n].op = "remove" /\ x \in writes[n].ids
Settles ==
    /\ Listed => ListSettles
    /\ document = "revoked" => RevokedSettles
    /\ document = "blocked" => AddsApart /\ BlockedSettles
Clean == ~gaveUp /\ ~overlap
WriteInv ==
    WriteTypes /\ Unnumbered /\ WireIsKnown /\ InTurn /\ NewIsNew /\ (Clean => Settles)

LEMMA WriteInit == W!Init => WriteInv
  <1> SUFFICES ASSUME W!Init PROVE WriteInv
    OBVIOUS
  <1>1. /\ document \in {"folders", "privacy", "revoked", "blocked"}
        /\ saved = W!Value(IF document = "revoked" THEN Entries ELSE {}, 0) /\ shown = saved
        /\ writes = <<>> /\ wire = {} /\ reading = <<>> /\ edits = 0 /\ others = 0
        /\ overlap = FALSE /\ gaveUp = FALSE
    BY DEF W!Init
  <1>2. Entries \subseteq Nat  BY MessengerAssumption DEF W!WritesAssumption
  <1>3. saved \in Document /\ saved.edit = 0 /\ (document # "revoked" => saved.ids = {})
    BY <1>1, <1>2 DEF W!Value, Document
  <1>4. Len(writes) = 0 /\ Queued = {} /\ writes \in Seq(Write)  BY <1>1 DEF Queued
  <1>5. overlap \in BOOLEAN /\ gaveUp \in BOOLEAN  BY <1>1
  <1>5a. WriteTypes
    <2>1. /\ {edits, others} \subseteq Nat /\ wire \subseteq Write /\ (reading # <<>> => reading[1] \in Document)
          /\ \A w \in wire : w.op \in OpsOf(document)
          /\ \A n \in Queued : writes[n].op \in OpsOf(document)
      BY <1>1, <1>4
    <2> QED  BY <1>1, <1>3, <1>4, <1>5, <2>1 DEF WriteTypes
  <1>6. Unnumbered /\ WireIsKnown /\ InTurn
    BY <1>1, <1>3, <1>4 DEF Unnumbered, WireIsKnown, InTurn
  <1>7. NewIsNew  BY <1>1, <1>3, <1>4 DEF NewIsNew, Past
  <1>8. Settles
    BY <1>1, <1>3, <1>4 DEF Settles, Listed, ListSettles, RevokedSettles, AddsApart, BlockedSettles
  <1> QED  BY <1>5a, <1>6, <1>7, <1>8 DEF WriteInv

(* A write is put at the end of the queue.                                 *)
LEMMA QueueMore ==
    ASSUME WriteTypes, NEW w \in Write, writes' = Append(writes, w), w.op \in OpsOf(document)
    PROVE  /\ writes' \in Seq(Write) /\ Len(writes') = Len(writes) + 1 /\ writes'[Len(writes) + 1] = w
           /\ \A n \in Queued : n \in Queued' /\ writes'[n] = writes[n] /\ n # Len(writes) + 1
           /\ \A n \in Queued' : n \in Queued \/ n = Len(writes) + 1
           /\ \A n \in Queued' : writes'[n].op \in OpsOf(document)
           /\ writes' # <<>>
  <1>1. writes \in Seq(Write) /\ Len(writes) \in Nat  BY DEF WriteTypes
  <1>2. /\ writes' \in Seq(Write) /\ Len(writes') = Len(writes) + 1 /\ writes'[Len(writes) + 1] = w
        /\ writes' # <<>> /\ \A n \in 1..Len(writes) : writes'[n] = writes[n]
    BY <1>1, AppendProperties
  <1>3. /\ \A n \in Queued : n \in Queued' /\ writes'[n] = writes[n] /\ n # Len(writes) + 1
        /\ \A n \in Queued' : n \in Queued \/ n = Len(writes) + 1
    BY <1>1, <1>2 DEF Queued
  <1> QED  BY <1>2, <1>3 DEF WriteTypes

(* It is taken out of it.                                                  *)
LEMMA QueueLess ==
    ASSUME WriteTypes, NEW n \in Queued, writes' = W!RemoveAt(writes, n)
    PROVE  /\ writes' \in Seq(Write) /\ Len(writes') = Len(writes) - 1
           /\ \A i \in Queued' : writes'[i] = writes[IF i < n THEN i ELSE i + 1]
           /\ \A i \in Queued' : (IF i < n THEN i ELSE i + 1) \in Queued \ {n}
           /\ \A j \in Queued \ {n} : \E i \in Queued' : writes'[i] = writes[j]
           /\ (writes' = <<>> <=> Len(writes) = 1)
  <1> DEFINE l == SubSeq(writes, 1, n - 1)
             r == SubSeq(writes, n + 1, Len(writes))
  <1>1. writes \in Seq(Write) /\ Len(writes) \in Nat /\ n \in Nat /\ 1 <= n /\ n <= Len(writes)
    BY DEF WriteTypes, Queued
  <1>2. l \in Seq(Write) /\ Len(l) = n - 1 /\ \A i \in 1..(n - 1) : l[i] = writes[i]  BY <1>1
  <1>3. /\ r \in Seq(Write) /\ Len(r) = Len(writes) - n
        /\ \A i \in 1..(Len(writes) - n) : r[i] = writes[i + n]
    BY <1>1
  <1>4. writes' = l \o r  BY DEF W!RemoveAt
  <1> HIDE DEF l, r
  <1>5. /\ writes' \in Seq(Write) /\ Len(writes') = Len(l) + Len(r)
        /\ \A i \in 1..(Len(l) + Len(r)) : writes'[i] = IF i <= Len(l) THEN l[i] ELSE r[i - Len(l)]
    BY <1>2, <1>3, <1>4, ConcatProperties
  <1>6. Len(writes') = Len(writes) - 1  BY <1>1, <1>2, <1>3, <1>5
  <1>7. \A i \in Queued' : writes'[i] = writes[IF i < n THEN i ELSE i + 1]
    BY <1>1, <1>2, <1>3, <1>5, <1>6 DEF Queued
  <1>8. \A i \in Queued' : (IF i < n THEN i ELSE i + 1) \in Queued \ {n}  BY <1>1, <1>6 DEF Queued
  <1>9. ASSUME NEW j \in Queued \ {n} PROVE \E i \in Queued' : writes'[i] = writes[j]
    <2>1. CASE j < n
      <3>1. j \in Queued'  BY <1>1, <1>6, <2>1 DEF Queued
      <3> QED  BY <1>7, <2>1, <3>1
    <2>2. CASE j > n
      <3>1. j - 1 \in Queued' /\ ~(j - 1 < n) /\ (j - 1) + 1 = j  BY <1>1, <1>6, <2>2 DEF Queued
      <3> QED  BY <1>7, <3>1
    <2> QED  BY <1>1, <2>1, <2>2 DEF Queued
  <1>10. writes' = <<>> <=> Len(writes) = 1
    <2>1. ASSUME writes' = <<>> PROVE Len(writes) = 1
      <3>1. Len(writes') = 0  BY <2>1
      <3> QED  BY <1>1, <1>6, <3>1
    <2>2. ASSUME Len(writes) = 1 PROVE writes' = <<>>
      <3>1. Len(writes') = 0  BY <1>6, <2>2
      <3> QED  BY <1>5, <3>1, EmptySeq
    <2> QED  BY <2>1, <2>2
  <1> QED  BY <1>5, <1>6, <1>7, <1>8, <1>9, <1>10

(* A write goes on: only its stage is another.                             *)
LEMMA QueueGoes ==
    ASSUME WriteTypes, NEW n \in Queued, NEW at \in {"sent", "stored"},
           writes' = [writes EXCEPT ![n].at = at]
    PROVE  /\ writes' \in Seq(Write) /\ Len(writes') = Len(writes) /\ Queued' = Queued
           /\ (writes' = <<>> <=> writes = <<>>)
           /\ \A m \in Queued : /\ writes'[m].op = writes[m].op /\ writes'[m].ids = writes[m].ids
                                /\ writes'[m].edit = writes[m].edit
                                /\ writes'[m].at = IF m = n THEN at ELSE writes[m].at
  <1>1. /\ writes \in Seq(Write) /\ Len(writes) \in Nat /\ n \in 1..Len(writes)
        /\ \A m \in 1..Len(writes) : writes[m] \in Write
    BY DEF WriteTypes, Queued
  <1>2. writes' = [writes EXCEPT ![n] = [writes[n] EXCEPT !.at = at]]  OBVIOUS
  <1> DEFINE w == [writes[n] EXCEPT !.at = at]
  <1>3. /\ w \in Write /\ w.op = writes[n].op /\ w.ids = writes[n].ids /\ w.edit = writes[n].edit
        /\ w.at = at
    BY <1>1 DEF Write
  <1> HIDE DEF w
  <1>4. writes' = [writes EXCEPT ![n] = w]  BY <1>2 DEF w
  <1>5. /\ writes' \in Seq(Write) /\ Len(writes') = Len(writes)
        /\ \A m \in 1..Len(writes) : writes'[m] = IF m = n THEN w ELSE writes[m]
    BY <1>1, <1>3, <1>4
  <1>6. writes' = <<>> <=> writes = <<>>  BY <1>1, <1>5
  <1> QED  BY <1>1, <1>3, <1>5, <1>6 DEF Queued

(* What a write makes of a value.                                          *)
LEMMA AfterIsDocument ==
    ASSUME NEW w \in Write, NEW value \in Document
    PROVE  /\ W!After(w, value) \in Document
           /\ w.op = "set" => W!After(w, value).ids = w.ids /\ W!After(w, value).edit = w.edit
           /\ w.op # "set" => W!After(w, value).edit = 0
           /\ w.op = "add" => W!After(w, value).ids = value.ids \cup w.ids
           /\ w.op = "remove" => W!After(w, value).ids = value.ids \ w.ids
           /\ w.op = "keep" => W!After(w, value).ids = value.ids \cap w.ids
  <1>1. w.ids \subseteq Nat /\ w.edit \in Nat /\ value.ids \subseteq Nat /\ w.op \in {"set", "add", "remove", "keep"}
    BY DEF Write, Document
  <1>2. \A ids \in SUBSET Nat, k \in Nat : W!Value(ids, k) \in Document /\ W!Value(ids, k).ids = ids /\ W!Value(ids, k).edit = k
    BY DEF W!Value, Document
  <1>3. CASE w.op = "set"
    <2>1. W!After(w, value) = W!Value(w.ids, w.edit)  BY <1>3 DEF W!After
    <2> QED  BY <1>1, <1>2, <1>3, <2>1
  <1>4. CASE w.op = "add"
    <2>1. W!After(w, value) = W!Value(value.ids \cup w.ids, 0)  BY <1>4 DEF W!After
    <2> QED  BY <1>1, <1>2, <1>4, <2>1
  <1>5. CASE w.op = "remove"
    <2>1. W!After(w, value) = W!Value(value.ids \ w.ids, 0)  BY <1>5 DEF W!After
    <2> QED  BY <1>1, <1>2, <1>5, <2>1
  <1>6. CASE w.op = "keep"
    <2>1. W!After(w, value) = W!Value(value.ids \cap w.ids, 0)  BY <1>6 DEF W!After
    <2> QED  BY <1>1, <1>2, <1>6, <2>1
  <1> QED  BY <1>1, <1>3, <1>4, <1>5, <1>6

LEMMA WriteAsks == WriteInv /\ W!Edits => WriteInv'
  <1> SUFFICES ASSUME WriteInv, W!Edits PROVE WriteInv'
    OBVIOUS
  <1>1. WriteTypes /\ Unnumbered /\ WireIsKnown /\ InTurn /\ NewIsNew /\ (Clean => Settles)
    BY DEF WriteInv
  <1>2. /\ edits \in Nat /\ shown \in Document /\ shown.ids \subseteq Nat
        /\ saved \in Document /\ writes \in Seq(Write) /\ Len(writes) \in Nat
    BY <1>1 DEF WriteTypes, Document
  <1>3. Current \in Nat  BY MessengerAssumption DEF W!WritesAssumption
  <1>4. PICK op, ids :
          /\ W!Ask(op, ids) /\ op \in OpsOf(document) /\ ids \in SUBSET Nat
          /\ \/ Listed /\ shown' = W!Value(ids, edits')
             \/ document = "revoked" /\ shown' = shown
             \/ document = "blocked" /\ op = "add" /\ ids = {W!Fresh} /\ shown' = shown
             \/ document = "blocked" /\ op = "remove" /\ (\E e \in shown.ids : ids = {e}) /\ shown' = shown
    <2>1. W!Edit  BY DEF W!Edits, W!MobileFolders, W!MobilePrivacy, W!MobileConfirms, W!Edit
    <2>2. W!Fresh \in Nat  BY <1>2 DEF W!Fresh
    <2>3. CASE W!EditFolders
      <3>1. PICK ids : W!SetFoldersAndSync(ids) /\ ids \subseteq Nat
        BY <1>2, <2>2, <2>3 DEF W!EditFolders, W!SaveFolder, W!DeleteFolder,
           W!ToggleConversationFolder
      <3> QED  BY <3>1 DEF W!SetFoldersAndSync, W!Choose, Listed, OpsOf
    <2>4. CASE W!UpdatePrivacy  BY <1>2, <2>4 DEF W!UpdatePrivacy, W!Choose, Listed, OpsOf
    <2>5. CASE W!ExecutePendingAction
      BY <1>2, <1>3, <2>5 DEF W!ExecutePendingAction, W!Change, OpsOf
    <2>6. CASE W!AddBlockedAccount  BY <2>2, <2>6 DEF W!AddBlockedAccount, W!Change, OpsOf
    <2>7. CASE W!RemoveBlockedAccount  BY <1>2, <2>7 DEF W!RemoveBlockedAccount, W!Change, OpsOf
    <2> QED  BY <2>1, <2>3, <2>4, <2>5, <2>6, <2>7 DEF W!Edit
  <1>5. /\ edits' = edits + 1
        /\ writes' = Append(writes, [op |-> op, ids |-> ids, edit |-> edits', at |-> "waiting"])
        /\ document' = document /\ saved' = saved /\ wire' = wire /\ reading' = reading
        /\ others' = others
    BY <1>4 DEF W!Ask
  <1>5a. overlap' = (overlap \/ reading # <<>>) /\ gaveUp' = gaveUp
    BY <1>4 DEF W!Ask
  <1> DEFINE w == [op |-> op, ids |-> ids, edit |-> edits', at |-> "waiting"]
  <1>6. op \in {"set", "add", "remove", "keep"}  BY <1>4 DEF OpsOf
  <1>7. w \in Write /\ w.op = op /\ w.ids = ids /\ w.edit = edits + 1 /\ w.at = "waiting"
    BY <1>2, <1>4, <1>5, <1>6 DEF Write
  <1>8. writes' = Append(writes, w) /\ w.op \in OpsOf(document)  BY <1>4, <1>5, <1>7
  <1> HIDE DEF w
  <1>9. /\ writes' \in Seq(Write) /\ Len(writes') = Len(writes) + 1 /\ writes'[Len(writes) + 1] = w
        /\ \A n \in Queued : n \in Queued' /\ writes'[n] = writes[n] /\ n # Len(writes) + 1
        /\ \A n \in Queued' : n \in Queued \/ n = Len(writes) + 1
        /\ \A n \in Queued' : writes'[n].op \in OpsOf(document)
        /\ writes' # <<>>
    BY <1>1, <1>7, <1>8, QueueMore
  <1>10. shown' \in Document
    <2>1. \A k \in Nat : W!Value(ids, k) \in Document  BY <1>4 DEF W!Value, Document
    <2> QED  BY <1>2, <1>4, <1>5, <2>1
  <1>11. WriteTypes'
    <2>1. overlap' \in BOOLEAN  BY <1>5a
    <2>2. gaveUp' \in BOOLEAN  BY <1>1, <1>5a DEF WriteTypes
    <2>3. /\ {edits, others}' \subseteq Nat /\ saved' \in Document /\ wire' \subseteq Write
          /\ document' \in {"folders", "privacy", "revoked", "blocked"}
          /\ (reading' # <<>> => reading'[1] \in Document)
          /\ \A v \in wire' : v.op \in OpsOf(document')
      BY <1>1, <1>2, <1>5 DEF WriteTypes
    <2>4. \A n \in Queued' : writes'[n].op \in OpsOf(document')  BY <1>5, <1>9
    <2> QED  BY <1>9, <1>10, <2>1, <2>2, <2>3, <2>4 DEF WriteTypes
  <1>12. Unnumbered' /\ WireIsKnown'
    BY <1>1, <1>4, <1>5, <1>5a DEF Unnumbered, WireIsKnown, Listed
  <1>13. InTurn'
    <2>1. Listed' <=> Listed  BY <1>5 DEF Listed
    <2> QED  BY <1>1, <1>2, <1>5, <1>7, <1>9, <2>1 DEF InTurn
  <1>14. \A s : Past(s) => Past(s)'
    BY <1>2, <1>5 DEF Past
  <1>15. NewIsNew'
    <2> SUFFICES ASSUME document = "blocked" PROVE NewIsNew'
      BY <1>5 DEF NewIsNew
    <2>1. Past(saved.ids)' /\ (reading # <<>> => Past(reading[1].ids)') /\ \A v \in wire : Past(v.ids)'
      BY <1>1, <1>5, <1>14 DEF NewIsNew
    <2>2. shown' = shown  BY <1>4 DEF Listed
    <2>3. Past(shown.ids)'
      BY <1>1, <1>5, <1>14, <2>2 DEF NewIsNew
    <2>4. \A k \in Nat : k >= edits' => 100 + 2 * k \notin ids
      BY <1>1, <1>2, <1>4, <1>5 DEF NewIsNew, Past, W!Fresh, Listed
    <2>5. \A n \in Queued' : Past(writes[n].ids)'
      <3> TAKE n \in Queued'
      <3>1. CASE n \in Queued
        <4>1. Past(writes[n].ids) /\ writes'[n] = writes[n]  BY <1>1, <1>9, <3>1 DEF NewIsNew
        <4>2. \A k \in Nat : k >= edits' => 100 + 2 * k \notin writes[n].ids
          BY <1>2, <1>5, <4>1 DEF Past
        <4> QED  BY <4>1, <4>2 DEF Past
      <3>2. CASE n = Len(writes) + 1  BY <1>7, <1>9, <2>4, <3>2 DEF Past
      <3> QED  BY <1>9, <3>1, <3>2
    <2> QED  BY <1>5, <2>1, <2>3, <2>5 DEF NewIsNew
  <1>16. ASSUME Clean' PROVE Settles'
    <2>1. Settles  BY <1>1, <1>5a, <1>16 DEF Clean
    <2>2. /\ \A n \in Queued' : Stored(n)' => n \in Queued /\ Stored(n)
          /\ \A n \in Queued : Stored(n) => Stored(n)'
      BY <1>7, <1>9 DEF Stored
    <2>3. ASSUME Listed' PROVE ListSettles'
      <3>1. Listed /\ ListSettles  BY <1>5, <2>1, <2>3 DEF Listed, Settles
      <3>2. 1 \in Queued'  BY <1>2, <1>9 DEF Queued
      <3>3. Stored(1)' => 1 \in Queued /\ Stored(1) /\ writes'[1] = writes[1] /\ writes # <<>>
        BY <1>2, <1>9, <2>2, <3>2 DEF Queued
      <3> QED  BY <1>5, <1>9, <3>1, <3>3 DEF ListSettles
    <2>4. ASSUME document' = "revoked" PROVE RevokedSettles'
      <3>1. document = "revoked" /\ RevokedSettles /\ shown' = shown
        BY <1>4, <1>5, <2>1, <2>4 DEF Settles, Listed
      <3>2. \A n \in Queued : Stored(n) => n \in Queued' /\ Stored(n)' /\ writes'[n] = writes[n]
        BY <1>9, <2>2
      <3>3. \A n \in Queued' : Stored(n)' => n \in Queued /\ Stored(n) /\ writes'[n] = writes[n]
        BY <1>9, <2>2
      <3> HIDE DEF Queued, Stored
      <3> QED  BY <1>5, <3>1, <3>2, <3>3 DEF RevokedSettles, Permits
    <2>5. ASSUME document' = "blocked" PROVE AddsApart' /\ BlockedSettles'
      <3>1. document = "blocked" /\ AddsApart /\ BlockedSettles /\ shown' = shown
        BY <1>4, <1>5, <2>1, <2>5 DEF Settles, Listed
      <3>2. \A n \in Queued : Stored(n) => n \in Queued' /\ Stored(n)' /\ writes'[n] = writes[n]
        BY <1>9, <2>2
      <3>3. \A n \in Queued' : Stored(n)' => n \in Queued /\ Stored(n) /\ writes'[n] = writes[n]
        BY <1>9, <2>2
      <3>4. BlockedSettles'  BY <1>5, <3>1, <3>2, <3>3 DEF BlockedSettles
      <3>5. op = "add" => ids \cap shown.ids = {} /\ \A n \in Queued : ids \cap writes[n].ids = {}
        BY <1>1, <1>2, <1>4, <3>1 DEF NewIsNew, Past, W!Fresh, Listed
      <3>6. op # "add" => ids \subseteq shown.ids  BY <1>4, <3>1 DEF Listed
      <3>7. \A n \in Queued : writes[n].op = "add" => writes[n].ids \cap ids = {}
        BY <3>1, <3>5, <3>6 DEF AddsApart
      <3>8. ASSUME NEW n \in Queued', writes'[n].op = "add"
            PROVE  /\ writes'[n].ids \cap shown.ids = {}
                   /\ \A m \in Queued' : m # n => writes'[n].ids \cap writes'[m].ids = {}
        <4>1. CASE n \in Queued
          <5>1. writes[n].op = "add" /\ writes'[n] = writes[n]  BY <1>9, <3>8, <4>1
          <5>2. writes[n].ids \cap shown.ids = {}  BY <3>1, <4>1, <5>1 DEF AddsApart
          <5>3. ASSUME NEW m \in Queued', m # n PROVE writes'[n].ids \cap writes'[m].ids = {}
            <6>1. CASE m \in Queued
              <7>1. writes'[m] = writes[m]  BY <1>9, <6>1
              <7> QED  BY <3>1, <4>1, <5>1, <5>3, <6>1, <7>1 DEF AddsApart
            <6>2. CASE m = Len(writes) + 1
              <7>1. writes'[m].ids = ids  BY <1>7, <1>9, <6>2
              <7> QED  BY <3>7, <4>1, <5>1, <7>1
            <6> QED  BY <1>9, <6>1, <6>2
          <5> QED  BY <5>1, <5>2, <5>3
        <4>2. CASE n = Len(writes) + 1
          <5>1. writes'[n] = w /\ op = "add"  BY <1>7, <1>9, <3>8, <4>2
          <5>2. \A m \in Queued' : m # n => m \in Queued /\ writes'[m] = writes[m]  BY <1>9, <4>2
          <5> QED  BY <1>7, <3>5, <5>1, <5>2
        <4> QED  BY <1>9, <4>1, <4>2
      <3>9. AddsApart'  BY <3>1, <3>8 DEF AddsApart
      <3> QED  BY <3>4, <3>9
    <2> QED  BY <2>3, <2>4, <2>5 DEF Settles
  <1> QED  BY <1>11, <1>12, <1>13, <1>15, <1>16 DEF WriteInv

(* The parts of the invariant that a step leaves alone with the variables. *)
LEMMA WriteSends ==
    ASSUME WriteInv, NEW n \in Queued, W!Sends(n) PROVE WriteInv'
  <1>1. WriteTypes /\ Unnumbered /\ WireIsKnown /\ InTurn /\ NewIsNew /\ (Clean => Settles)
    BY DEF WriteInv
  <1>2. /\ writes[n].at = "waiting" /\ W!Turn(n) /\ writes' = [writes EXCEPT ![n].at = "sent"]
        /\ document' = document /\ saved' = saved /\ shown' = shown /\ wire' = wire
        /\ reading' = reading /\ edits' = edits /\ others' = others
    BY DEF W!Sends, W!counters, W!history
  <1>3. overlap' = overlap /\ gaveUp' = gaveUp  BY DEF W!Sends, W!counters, W!history
  <1>4. /\ writes' \in Seq(Write) /\ Len(writes') = Len(writes) /\ Queued' = Queued
        /\ (writes' = <<>> <=> writes = <<>>)
        /\ \A m \in Queued : /\ writes'[m].op = writes[m].op /\ writes'[m].ids = writes[m].ids
                             /\ writes'[m].edit = writes[m].edit
                             /\ writes'[m].at = IF m = n THEN "sent" ELSE writes[m].at
    BY <1>1, <1>2, QueueGoes
  <1>5. WriteTypes'
    <2>1. overlap' \in BOOLEAN /\ gaveUp' \in BOOLEAN  BY <1>1, <1>3 DEF WriteTypes
    <2> QED  BY <1>1, <1>2, <1>4, <2>1 DEF WriteTypes
  <1>6. Unnumbered' /\ WireIsKnown'  BY <1>1, <1>2, <1>3 DEF Unnumbered, WireIsKnown, Listed
  <1>7. Len(writes) \in Nat /\ (writes # <<>> => Len(writes) \in Queued)
    <2>1. writes \in Seq(Write)  BY <1>1 DEF WriteTypes
    <2> QED  BY <2>1, EmptySeq DEF Queued
  <1>8. InTurn'
    <2>1. Listed => n = 1  BY <1>2 DEF Listed, W!Turn
    <2> QED  BY <1>1, <1>2, <1>4, <1>7, <2>1 DEF InTurn, Listed
  <1>9. NewIsNew'  BY <1>1, <1>2, <1>4 DEF NewIsNew, Past
  <1>10. \A m \in Queued : Stored(m)' <=> Stored(m)  BY <1>2, <1>4 DEF Stored
  <1>11. ASSUME Clean' PROVE Settles'
    <2>1. Settles  BY <1>1, <1>3, <1>11 DEF Clean
    <2>2. writes # <<>> => 1 \in Queued  BY <1>7 DEF Queued
    <2>3. Listed => ListSettles'  BY <1>2, <1>4, <1>10, <2>1, <2>2 DEF Settles, ListSettles
    <2>4. document = "revoked" => RevokedSettles'
      BY <1>2, <1>4, <1>10, <2>1 DEF Settles, RevokedSettles, Permits
    <2>5. document = "blocked" => AddsApart'  BY <1>2, <1>4, <2>1 DEF Settles, AddsApart
    <2>6. document = "blocked" => BlockedSettles'
      BY <1>2, <1>4, <1>10, <2>1 DEF Settles, BlockedSettles
    <2> QED  BY <1>2, <2>3, <2>4, <2>5, <2>6 DEF Settles, Listed
  <1> QED  BY <1>5, <1>6, <1>8, <1>9, <1>11 DEF WriteInv

LEMMA WriteStores ==
    ASSUME WriteInv, NEW n \in Queued, W!Stores(n) PROVE WriteInv'
  <1>1. WriteTypes /\ Unnumbered /\ WireIsKnown /\ InTurn /\ NewIsNew /\ (Clean => Settles)
    BY DEF WriteInv
  <1>2. /\ writes[n].at = "sent" /\ ~W!Refused(writes[n]) /\ writes' = [writes EXCEPT ![n].at = "stored"]
        /\ saved' = W!After(writes[n], saved)
        /\ document' = document /\ shown' = shown /\ wire' = wire
        /\ reading' = reading /\ edits' = edits /\ others' = others
    BY DEF W!Stores, W!counters, W!history
  <1>3. overlap' = overlap /\ gaveUp' = gaveUp  BY DEF W!Stores, W!counters, W!history
  <1>4. /\ writes' \in Seq(Write) /\ Len(writes') = Len(writes) /\ Queued' = Queued
        /\ (writes' = <<>> <=> writes = <<>>)
        /\ \A m \in Queued : /\ writes'[m].op = writes[m].op /\ writes'[m].ids = writes[m].ids
                             /\ writes'[m].edit = writes[m].edit
                             /\ writes'[m].at = IF m = n THEN "stored" ELSE writes[m].at
    BY <1>1, <1>2, QueueGoes
  <1>5. /\ writes \in Seq(Write) /\ writes[n] \in Write /\ saved \in Document /\ Len(writes) \in Nat
        /\ writes[n].op \in OpsOf(document)
        /\ document \in {"folders", "privacy", "revoked", "blocked"}
    BY <1>1 DEF WriteTypes, Queued
  <1> DEFINE w == writes[n]
  <1>6. /\ saved' \in Document
        /\ w.op = "set" => saved'.ids = w.ids /\ saved'.edit = w.edit
        /\ w.op # "set" => saved'.edit = 0
        /\ w.op = "add" => saved'.ids = saved.ids \cup w.ids
        /\ w.op = "remove" => saved'.ids = saved.ids \ w.ids
        /\ w.op = "keep" => saved'.ids = saved.ids \cap w.ids
    BY <1>2, <1>5, AfterIsDocument
  <1>7. WriteTypes'
    <2>1. overlap' \in BOOLEAN /\ gaveUp' \in BOOLEAN  BY <1>1, <1>3 DEF WriteTypes
    <2> QED  BY <1>1, <1>2, <1>4, <1>6, <2>1 DEF WriteTypes
  <1>8. /\ Listed => w.op = "set"
        /\ document = "revoked" => w.op \in {"remove", "keep"}
        /\ document = "blocked" => w.op \in {"add", "remove"}
    BY <1>5 DEF Listed, OpsOf
  <1>9. Unnumbered' /\ WireIsKnown'
    BY <1>1, <1>2, <1>3, <1>5, <1>6, <1>8 DEF Unnumbered, WireIsKnown, Listed
  <1>10. /\ writes # <<>> => Len(writes) \in Queued
         /\ writes # <<>> /\ 1 \in Queued
    <2>1. Len(writes) >= 1  BY <1>5 DEF Queued
    <2>2. writes # <<>>  BY <2>1, EmptySeq
    <2> QED  BY <1>5, <2>1, <2>2 DEF Queued
  <1>11. InTurn' /\ (Listed => n = 1)
    <2>1. Listed => n = 1  BY <1>1, <1>2, <1>5 DEF InTurn, Queued
    <2> QED  BY <1>1, <1>2, <1>4, <1>10, <2>1 DEF InTurn, Listed
  <1>12. NewIsNew'
    <2> SUFFICES ASSUME document = "blocked" PROVE NewIsNew'
      BY <1>2 DEF NewIsNew
    <2>1. Past(saved'.ids)  BY <1>1, <1>6, <1>8 DEF NewIsNew, Past
    <2> QED  BY <1>1, <1>2, <1>4, <2>1 DEF NewIsNew, Past
  <1>13. \A m \in Queued : Stored(m)' <=> m = n \/ Stored(m)  BY <1>2, <1>4 DEF Stored
  <1>14. ASSUME Clean' PROVE Settles'
    <2>1. Settles  BY <1>1, <1>3, <1>14 DEF Clean
    <2>2. Listed => ListSettles'
      BY <1>4, <1>6, <1>8, <1>10, <1>11 DEF ListSettles
    <2>3. ASSUME document = "revoked" PROVE RevokedSettles'
      <3>1. \A x \in Nat : x \in saved'.ids <=> x \in saved.ids /\ Permits(w, x)
        BY <1>6, <1>8, <2>3 DEF Permits
      <3>2. \A m \in Queued, x \in Nat : Permits(writes'[m], x) <=> Permits(writes[m], x)
        BY <1>4 DEF Permits
      <3>3. RevokedSettles  BY <2>1, <2>3 DEF Settles
      <3> QED  BY <1>2, <1>4, <1>13, <3>1, <3>2, <3>3 DEF RevokedSettles
    <2>4. document = "blocked" => AddsApart'  BY <1>2, <1>4, <2>1 DEF Settles, AddsApart
    <2>5. ASSUME document = "blocked" PROVE BlockedSettles'
      <3>1. AddsApart /\ BlockedSettles  BY <2>1, <2>5 DEF Settles
      <3>2. CASE w.op = "add"
        <4>1. \A x \in w.ids : \A m \in Queued : writes[m].op = "remove" => x \notin writes[m].ids
          BY <3>1, <3>2 DEF AddsApart
        <4> QED  BY <1>2, <1>4, <1>6, <1>13, <3>1, <3>2, <4>1 DEF BlockedSettles
      <3>3. CASE w.op = "remove"
        BY <1>2, <1>4, <1>6, <1>13, <3>1, <3>3 DEF BlockedSettles
      <3> QED  BY <1>8, <2>5, <3>2, <3>3
    <2> QED  BY <1>2, <2>2, <2>3, <2>4, <2>5 DEF Settles, Listed
  <1> QED  BY <1>7, <1>9, <1>11, <1>12, <1>14 DEF WriteInv

(* What a write that is gone leaves behind.                                *)
LEMMA WriteGoes ==
    ASSUME WriteInv, NEW n \in Queued, writes[n].at # "waiting", writes' = W!RemoveAt(writes, n),
           document' = document, edits' = edits, saved' = saved
    PROVE  /\ \A i \in Queued' : writes'[i] \in Write /\ writes'[i].op \in OpsOf(document)
           /\ writes' \in Seq(Write)
           /\ InTurn'
           /\ document = "blocked" => \A i \in Queued' : Past(writes[i].ids)'
           /\ Listed => n = 1 /\ \A i \in Queued' : writes'[i].at = "waiting"
  <1>1. WriteTypes /\ InTurn /\ NewIsNew  BY DEF WriteInv
  <1>2. writes \in Seq(Write) /\ Len(writes) \in Nat /\ n \in 1..Len(writes)
    BY <1>1 DEF WriteTypes, Queued
  <1>3. /\ writes' \in Seq(Write) /\ Len(writes') = Len(writes) - 1
        /\ \A i \in Queued' : writes'[i] = writes[IF i < n THEN i ELSE i + 1]
        /\ \A i \in Queued' : (IF i < n THEN i ELSE i + 1) \in Queued \ {n}
        /\ (writes' = <<>> <=> Len(writes) = 1)
    BY <1>1, QueueLess
  <1>4. \A i \in Queued' : writes'[i] \in Write /\ writes'[i].op \in OpsOf(document)
    BY <1>1, <1>2, <1>3 DEF WriteTypes, Queued
  <1>5. Listed => n = 1 /\ \A i \in Queued' : writes'[i].at = "waiting"
    <2>1. Listed => n = 1  BY <1>1, <1>2 DEF InTurn, Queued
    <2>2. \A i \in Queued' : n = 1 => writes'[i] = writes[i + 1] /\ i + 1 \in Queued /\ i + 1 > 1
      BY <1>2, <1>3 DEF Queued
    <2> QED  BY <1>1, <2>1, <2>2 DEF InTurn
  <1>6. InTurn'
    <2> SUFFICES ASSUME Listed PROVE InTurn'
      BY DEF InTurn, Listed
    <2>1. \A i \in Queued' : writes'[i].at = "waiting"  BY <1>5
    <2>2. ASSUME writes' # <<>> PROVE writes'[Len(writes')].edit = edits
      <3>1. Len(writes') \in Queued' /\ writes # <<>>  BY <1>2, <1>3, <2>2, EmptySeq DEF Queued
      <3>2. writes'[Len(writes')] = writes[Len(writes)]  BY <1>2, <1>3, <1>5, <3>1 DEF Queued
      <3> QED  BY <1>1, <3>1, <3>2 DEF InTurn
    <2> QED  BY <2>1, <2>2 DEF InTurn
  <1>7. document = "blocked" => \A i \in Queued' : Past(writes[i].ids)'
    BY <1>1, <1>3 DEF NewIsNew, Past
  <1> QED  BY <1>3, <1>4, <1>5, <1>6, <1>7

LEMMA WriteAnswered ==
    ASSUME WriteInv, NEW n \in Queued, W!Answered(n) PROVE WriteInv'
  <1>1. WriteTypes /\ Unnumbered /\ WireIsKnown /\ InTurn /\ NewIsNew /\ (Clean => Settles)
    BY DEF WriteInv
  <1>2. /\ writes[n].at = "stored" /\ writes' = W!RemoveAt(writes, n)
        /\ shown' = IF W!Counts(writes[n]) THEN W!After(writes[n], shown) ELSE shown
        /\ document' = document /\ saved' = saved /\ wire' = wire
        /\ reading' = reading /\ edits' = edits /\ others' = others
    BY DEF W!Answered, W!counters, W!history
  <1>3. overlap' = overlap /\ gaveUp' = gaveUp  BY DEF W!Answered, W!counters, W!history
  <1>4. /\ writes' \in Seq(Write)
        /\ \A i \in Queued' : writes'[i] = writes[IF i < n THEN i ELSE i + 1]
        /\ \A i \in Queued' : (IF i < n THEN i ELSE i + 1) \in Queued \ {n}
        /\ \A j \in Queued \ {n} : \E i \in Queued' : writes'[i] = writes[j]
        /\ (writes' = <<>> <=> Len(writes) = 1)
    BY <1>1, <1>2, QueueLess
  <1>5. /\ \A i \in Queued' : writes'[i] \in Write /\ writes'[i].op \in OpsOf(document)
        /\ InTurn'
        /\ document = "blocked" => \A i \in Queued' : Past(writes[i].ids)'
        /\ Listed => n = 1 /\ \A i \in Queued' : writes'[i].at = "waiting"
    BY <1>2, WriteGoes
  <1>6. /\ writes \in Seq(Write) /\ writes[n] \in Write /\ shown \in Document /\ saved \in Document
        /\ Len(writes) \in Nat /\ writes[n].op \in OpsOf(document)
        /\ document \in {"folders", "privacy", "revoked", "blocked"}
    BY <1>1 DEF WriteTypes, Queued
  <1> DEFINE w == writes[n]
             new == W!After(w, shown)
  <1>7. /\ new \in Document
        /\ w.op = "set" => new.ids = w.ids /\ new.edit = w.edit
        /\ w.op # "set" => new.edit = 0
        /\ w.op = "add" => new.ids = shown.ids \cup w.ids
        /\ w.op = "remove" => new.ids = shown.ids \ w.ids
        /\ w.op = "keep" => new.ids = shown.ids \cap w.ids
    BY <1>6, AfterIsDocument
  <1>8. /\ Listed => w.op = "set"
        /\ document = "revoked" => w.op \in {"remove", "keep"} /\ shown' = new
        /\ document = "blocked" => w.op \in {"add", "remove"} /\ shown' = new
        /\ shown' \in {shown, new}
        /\ w.edit = edits => shown' = new
    BY <1>2, <1>6 DEF Listed, OpsOf, W!Counts
  <1> HIDE DEF new
  <1>9. WriteTypes'
    <2>1. overlap' \in BOOLEAN /\ gaveUp' \in BOOLEAN  BY <1>1, <1>3 DEF WriteTypes
    <2>2. shown' \in Document  BY <1>6, <1>7, <1>8
    <2> QED  BY <1>1, <1>2, <1>4, <1>5, <2>1, <2>2 DEF WriteTypes
  <1>10. Unnumbered' /\ WireIsKnown'
    BY <1>1, <1>2, <1>3, <1>6, <1>7, <1>8 DEF Unnumbered, WireIsKnown, Listed
  <1>11. NewIsNew'
    <2> SUFFICES ASSUME document = "blocked" PROVE NewIsNew'
      BY <1>2 DEF NewIsNew
    <2>1. Past(shown'.ids)  BY <1>1, <1>7, <1>8 DEF NewIsNew, Past
    <2>2. \A s : Past(s)' <=> Past(s)  BY <1>2 DEF Past
    <2>3. Past(shown.ids)'  BY <1>2, <2>1 DEF Past
    <2>4. Past(saved.ids)' /\ (reading' # <<>> => Past(reading[1].ids)') /\ \A v \in wire' : Past(v.ids)'
      BY <1>1, <1>2 DEF NewIsNew, Past
    <2> QED  BY <1>5, <2>3, <2>4 DEF NewIsNew
  <1>12. /\ \A i \in Queued' : \E j \in Queued \ {n} : writes'[i] = writes[j]
         /\ \A j \in Queued \ {n} : \E i \in Queued' : writes'[i] = writes[j]
    BY <1>4
  <1>13. ASSUME Clean' PROVE Settles'
    <2>1. Settles  BY <1>1, <1>3, <1>13 DEF Clean
    <2>2. ASSUME Listed PROVE ListSettles'
      <3>1. n = 1 /\ \A i \in Queued' : writes'[i].at = "waiting"  BY <1>5, <2>2
      <3>2. writes # <<>> /\ Stored(1)
        <4>1. Len(writes) >= 1  BY <1>6 DEF Queued
        <4> QED  BY <1>2, <3>1, <4>1, EmptySeq DEF Stored
      <3>3. saved.ids = w.ids /\ saved.edit = w.edit
        BY <2>1, <2>2, <3>1, <3>2 DEF Settles, ListSettles
      <3>4. ASSUME writes' = <<>> PROVE shown' = saved'
        <4>1. w.edit = edits  BY <1>1, <1>4, <2>2, <3>1, <3>2, <3>4 DEF InTurn
        <4>2. shown' = new /\ new \in Document /\ new.ids = saved.ids /\ new.edit = saved.edit
          BY <1>7, <1>8, <2>2, <3>3, <4>1
        <4> QED  BY <1>2, <1>6, <4>2 DEF Document
      <3>5. writes' # <<>> => 1 \in Queued' 
        <4>1. Len(writes') \in Nat /\ (writes' # <<>> => Len(writes') >= 1)  BY <1>4, EmptySeq
        <4> QED  BY <4>1 DEF Queued
      <3> QED  BY <3>1, <3>4, <3>5 DEF ListSettles, Stored
    <2>3. ASSUME document = "revoked" PROVE RevokedSettles'
      <3>1. RevokedSettles  BY <2>1, <2>3 DEF Settles
      <3>2. \A x \in Nat : x \in shown'.ids <=> x \in shown.ids /\ Permits(w, x)
        BY <1>7, <1>8, <2>3 DEF Permits
      <3>3. \A x \in Nat : (\A j \in Queued : Stored(j) => Permits(writes[j], x))
                <=> Permits(w, x) /\ \A j \in Queued \ {n} : Stored(j) => Permits(writes[j], x)
        BY <1>2 DEF Stored
      <3>4. \A x \in Nat : (\A j \in Queued \ {n} : Stored(j) => Permits(writes[j], x))
                <=> (\A i \in Queued' : Stored(i)' => Permits(writes'[i], x))
        BY <1>12 DEF Stored
      <3>5. \A x \in Nat : x \in saved.ids <=>
                x \in shown.ids /\ \A j \in Queued : Stored(j) => Permits(writes[j], x)
        BY <3>1 DEF RevokedSettles
      <3>6. \A x \in Nat : x \in saved'.ids <=>
                x \in shown'.ids /\ \A i \in Queued' : Stored(i)' => Permits(writes'[i], x)
        BY <1>2, <3>2, <3>3, <3>4, <3>5
      <3> QED  BY <3>6 DEF RevokedSettles, Permits
    <2>4. ASSUME document = "blocked" PROVE AddsApart' /\ BlockedSettles'
      <3>1. AddsApart /\ BlockedSettles  BY <2>1, <2>4 DEF Settles
      <3>2. /\ w.op \in {"add", "remove"} /\ shown' = new
            /\ w.op = "add" => shown'.ids = shown.ids \cup w.ids
            /\ w.op = "remove" => shown'.ids = shown.ids \ w.ids
        BY <1>7, <1>8, <2>4
      <3>3. AddsApart'
        <4> SUFFICES ASSUME NEW i \in Queued', writes'[i].op = "add"
                     PROVE  /\ writes'[i].ids \cap shown'.ids = {}
                            /\ \A m \in Queued' : m # i => writes'[i].ids \cap writes'[m].ids = {}
          BY DEF AddsApart
        <4> DEFINE at(k) == IF k < n THEN k ELSE k + 1
        <4>1. at(i) \in Queued \ {n} /\ writes'[i] = writes[at(i)]  BY <1>4
        <4>2. writes'[i].ids \cap shown.ids = {} /\ writes'[i].ids \cap w.ids = {}
          BY <3>1, <4>1 DEF AddsApart
        <4>3. ASSUME NEW m \in Queued', m # i PROVE writes'[i].ids \cap writes'[m].ids = {}
          <5>1. at(m) \in Queued \ {n} /\ writes'[m] = writes[at(m)]  BY <1>4
          <5>2. at(m) # at(i)  BY <4>3 DEF Queued
          <5> HIDE DEF at
          <5> QED  BY <3>1, <4>1, <5>1, <5>2 DEF AddsApart
        <4> QED  BY <3>2, <4>2, <4>3
      <3>4. \A x \in Nat :
              /\ (\E j \in Queued : Stored(j) /\ writes[j].op = "add" /\ x \in writes[j].ids)
                   <=> \/ w.op = "add" /\ x \in w.ids
                       \/ \E i \in Queued' : Stored(i)' /\ writes'[i].op = "add" /\ x \in writes'[i].ids
              /\ (\E j \in Queued : Stored(j) /\ writes[j].op = "remove" /\ x \in writes[j].ids)
                   <=> \/ w.op = "remove" /\ x \in w.ids
                       \/ \E i \in Queued' : Stored(i)' /\ writes'[i].op = "remove" /\ x \in writes'[i].ids
        BY <1>2, <1>12 DEF Stored
      <3>5. \A x \in Nat : w.op = "remove" /\ x \in w.ids =>
              ~\E i \in Queued' : Stored(i)' /\ writes'[i].op = "add" /\ x \in writes'[i].ids
        BY <1>12, <3>1 DEF AddsApart
      <3>6. \A x \in Nat : w.op = "add" /\ x \in w.ids =>
              ~\E i \in Queued' : Stored(i)' /\ writes'[i].op = "remove" /\ x \in writes'[i].ids
        BY <1>12, <3>1 DEF AddsApart
      <3>7. \A x \in Nat : x \in saved.ids <=>
              /\ \/ x \in shown.ids
                 \/ \E j \in Queued : Stored(j) /\ writes[j].op = "add" /\ x \in writes[j].ids
              /\ ~\E j \in Queued : Stored(j) /\ writes[j].op = "remove" /\ x \in writes[j].ids
        BY <3>1 DEF BlockedSettles
      <3>8. \A x \in Nat : x \in saved'.ids <=>
              /\ \/ x \in shown'.ids
                 \/ \E i \in Queued' : Stored(i)' /\ writes'[i].op = "add" /\ x \in writes'[i].ids
              /\ ~\E i \in Queued' : Stored(i)' /\ writes'[i].op = "remove" /\ x \in writes'[i].ids
        <4> TAKE x \in Nat
        <4> DEFINE oldAdd == \E j \in Queued : Stored(j) /\ writes[j].op = "add" /\ x \in writes[j].ids
                   oldRem == \E j \in Queued : Stored(j) /\ writes[j].op = "remove" /\ x \in writes[j].ids
                   newAdd == \E i \in Queued' : Stored(i)' /\ writes'[i].op = "add" /\ x \in writes'[i].ids
                   newRem == \E i \in Queued' : Stored(i)' /\ writes'[i].op = "remove" /\ x \in writes'[i].ids
        <4>1. /\ oldAdd <=> (w.op = "add" /\ x \in w.ids) \/ newAdd
              /\ oldRem <=> (w.op = "remove" /\ x \in w.ids) \/ newRem
          BY <3>4
        <4>2. /\ w.op = "remove" /\ x \in w.ids => ~newAdd
              /\ w.op = "add" /\ x \in w.ids => ~newRem
          BY <3>5, <3>6
        <4>3. x \in saved.ids <=> (x \in shown.ids \/ oldAdd) /\ ~oldRem  BY <3>7
        <4> HIDE DEF oldAdd, oldRem, newAdd, newRem
        <4>4. x \in saved'.ids <=> (x \in shown'.ids \/ newAdd) /\ ~newRem
          BY <1>2, <3>2, <4>1, <4>2, <4>3
        <4> QED  BY <4>4 DEF newAdd, newRem
      <3>9. BlockedSettles'  BY <3>8 DEF BlockedSettles
      <3> QED  BY <3>3, <3>9
    <2> QED  BY <1>2, <2>2, <2>3, <2>4 DEF Settles, Listed
  <1> QED  BY <1>5, <1>9, <1>10, <1>11, <1>13 DEF WriteInv

LEMMA WriteFails ==
    ASSUME WriteInv, NEW n \in Queued, W!Fails(n) PROVE WriteInv'
  <1>1. WriteTypes /\ Unnumbered /\ WireIsKnown /\ NewIsNew  BY DEF WriteInv
  <1>2. /\ writes[n].at # "waiting" /\ writes' = W!RemoveAt(writes, n)
        /\ wire' \subseteq wire \cup {writes[n]}
        /\ document' = document /\ saved' = saved /\ shown' = shown
        /\ reading' = reading /\ edits' = edits /\ others' = others
    BY DEF W!Fails
  <1>3. overlap' = overlap /\ gaveUp' = TRUE  BY DEF W!Fails
  <1>4. /\ \A i \in Queued' : writes'[i] \in Write /\ writes'[i].op \in OpsOf(document)
        /\ writes' \in Seq(Write)
        /\ InTurn'
        /\ document = "blocked" => \A i \in Queued' : Past(writes[i].ids)'
    BY <1>2, WriteGoes
  <1>5. /\ writes[n] \in Write /\ writes[n].op \in OpsOf(document)
        /\ document = "blocked" => Past(writes[n].ids)
    BY <1>1 DEF WriteTypes, Queued, NewIsNew
  <1>6. WriteTypes'
    <2>1. overlap' \in BOOLEAN /\ gaveUp' \in BOOLEAN  BY <1>1, <1>3 DEF WriteTypes
    <2>2. wire' \subseteq Write /\ \A v \in wire' : v.op \in OpsOf(document)
      BY <1>1, <1>2, <1>5 DEF WriteTypes
    <2> QED  BY <1>1, <1>2, <1>4, <2>1, <2>2 DEF WriteTypes
  <1>7. Unnumbered' /\ WireIsKnown'  BY <1>1, <1>2, <1>3 DEF Unnumbered, WireIsKnown, Listed
  <1>8. NewIsNew'
    <2> SUFFICES ASSUME document = "blocked" PROVE NewIsNew'
      BY <1>2 DEF NewIsNew
    <2>1. \A v \in wire' : Past(v.ids)'  BY <1>1, <1>2, <1>5 DEF NewIsNew, Past
    <2>2. Past(saved.ids)' /\ Past(shown.ids)' /\ (reading' # <<>> => Past(reading[1].ids)')
      BY <1>1, <1>2 DEF NewIsNew, Past
    <2> QED  BY <1>4, <2>1, <2>2 DEF NewIsNew
  <1> QED  BY <1>3, <1>4, <1>6, <1>7, <1>8 DEF WriteInv, Clean

LEMMA WriteLate == WriteInv /\ W!ArrivesLate => WriteInv'
  <1> SUFFICES ASSUME WriteInv, W!ArrivesLate PROVE WriteInv'
    OBVIOUS
  <1>1. WriteTypes /\ Unnumbered /\ WireIsKnown /\ InTurn /\ NewIsNew  BY DEF WriteInv
  <1>2. PICK w \in wire : saved' = W!After(w, saved) /\ wire' = wire \ {w}
    BY DEF W!ArrivesLate
  <1>3. /\ document' = document /\ shown' = shown /\ writes' = writes
        /\ reading' = reading /\ edits' = edits /\ others' = others
    BY DEF W!ArrivesLate, W!counters, W!history
  <1>4. overlap' = overlap /\ gaveUp' = gaveUp  BY DEF W!ArrivesLate, W!counters, W!history
  <1>5. gaveUp' /\ gaveUp  BY <1>1, <1>2, <1>4 DEF WireIsKnown
  <1>6. /\ w \in Write /\ saved \in Document /\ w.op \in OpsOf(document)
        /\ document \in {"folders", "privacy", "revoked", "blocked"}
    BY <1>1 DEF WriteTypes
  <1>7. /\ saved' \in Document
        /\ w.op # "set" => saved'.edit = 0
        /\ w.op = "add" => saved'.ids = saved.ids \cup w.ids
        /\ w.op = "remove" => saved'.ids = saved.ids \ w.ids
    BY <1>2, <1>6, AfterIsDocument
  <1>8. /\ ~Listed => w.op # "set"
        /\ document = "blocked" => w.op \in {"add", "remove"}
    BY <1>6 DEF Listed, OpsOf
  <1>9. WriteTypes'
    <2>1. overlap' \in BOOLEAN /\ gaveUp' \in BOOLEAN  BY <1>1, <1>4 DEF WriteTypes
    <2>2. Queued' = Queued  BY <1>3 DEF Queued
    <2> QED  BY <1>1, <1>2, <1>3, <1>7, <2>1, <2>2 DEF WriteTypes
  <1>10. Unnumbered'  BY <1>1, <1>3, <1>7, <1>8 DEF Unnumbered, Listed
  <1>11. WireIsKnown'  BY <1>5 DEF WireIsKnown
  <1>12. InTurn'  BY <1>1, <1>3 DEF InTurn, Listed, Queued
  <1>13. NewIsNew'
    <2> SUFFICES ASSUME document = "blocked" PROVE NewIsNew'
      BY <1>3 DEF NewIsNew
    <2>1. Past(saved'.ids)  BY <1>1, <1>7, <1>8 DEF NewIsNew, Past
    <2> QED  BY <1>1, <1>2, <1>3, <2>1 DEF NewIsNew, Past, Queued
  <1> QED  BY <1>5, <1>9, <1>10, <1>11, <1>12, <1>13 DEF WriteInv, Clean

LEMMA WriteReads == WriteInv /\ W!ReadsOne => WriteInv'
  <1> SUFFICES ASSUME WriteInv, W!ReadsOne PROVE WriteInv'
    OBVIOUS
  <1>1. WriteTypes /\ Unnumbered /\ WireIsKnown /\ InTurn /\ NewIsNew /\ (Clean => Settles)
    BY DEF WriteInv
  <1>2. W!Reads
    BY DEF W!ReadsOne, W!GetAccountSettings, W!GetBlacklist, W!GetDevices, W!FetchAccountSettings,
           W!FetchBlacklist, W!FetchDevices, W!ReadFolders
  <1>3. /\ reading'[1] = saved
        /\ document' = document /\ saved' = saved /\ shown' = shown /\ writes' = writes /\ wire' = wire
        /\ edits' = edits /\ others' = others
    BY <1>2 DEF W!Reads, W!history
  <1>4. overlap' = overlap /\ gaveUp' = gaveUp  BY <1>2 DEF W!Reads, W!history
  <1>5. Queued' = Queued /\ (Listed' <=> Listed) /\ \A n \in Queued : Stored(n)' <=> Stored(n)
    BY <1>3 DEF Queued, Listed, Stored
  <1>6. WriteTypes'
    <2>1. overlap' \in BOOLEAN /\ gaveUp' \in BOOLEAN  BY <1>1, <1>4 DEF WriteTypes
    <2> QED  BY <1>1, <1>3, <1>5, <2>1 DEF WriteTypes
  <1>7. Unnumbered' /\ WireIsKnown' /\ InTurn'
    BY <1>1, <1>3, <1>4, <1>5 DEF Unnumbered, WireIsKnown, InTurn
  <1>8. NewIsNew'  BY <1>1, <1>3, <1>5 DEF NewIsNew, Past
  <1>9. ASSUME Clean' PROVE Settles'
    <2>1. Settles  BY <1>1, <1>4, <1>9 DEF Clean
    <2>2. Listed => ListSettles'  BY <1>3, <2>1 DEF Settles, ListSettles, Stored
    <2>3. document = "revoked" => RevokedSettles'
      BY <1>3, <1>5, <2>1 DEF Settles, RevokedSettles, Permits
    <2>4. document = "blocked" => AddsApart'  BY <1>3, <1>5, <2>1 DEF Settles, AddsApart
    <2>5. document = "blocked" => BlockedSettles'  BY <1>3, <1>5, <2>1 DEF Settles, BlockedSettles
    <2> QED  BY <1>3, <1>5, <2>2, <2>3, <2>4, <2>5 DEF Settles
  <1> QED  BY <1>6, <1>7, <1>8, <1>9 DEF WriteInv

LEMMA WriteArrives == WriteInv /\ W!ReadArrives => WriteInv'
  <1> SUFFICES ASSUME WriteInv, W!ReadArrives PROVE WriteInv'
    OBVIOUS
  <1>1. WriteTypes /\ Unnumbered /\ WireIsKnown /\ InTurn /\ NewIsNew  BY DEF WriteInv
  <1>2. /\ reading # <<>> /\ reading' = <<>> /\ shown' = reading[1]
        /\ document' = document /\ saved' = saved /\ writes' = writes /\ wire' = wire
        /\ edits' = edits /\ others' = others
    BY DEF W!ReadArrives, W!counters
  <1>3. /\ overlap' = ~(reading[2] /\ writes = <<>> /\ saved = reading[1])
        /\ gaveUp' = (gaveUp /\ wire # {})
    BY DEF W!ReadArrives
  <1>4. Queued' = Queued /\ (Listed' <=> Listed)  BY <1>2 DEF Queued, Listed
  <1>5. WriteTypes'
    <2>1. overlap' \in BOOLEAN /\ gaveUp' \in BOOLEAN  BY <1>3
    <2> QED  BY <1>1, <1>2, <1>4, <2>1 DEF WriteTypes
  <1>6. Unnumbered' /\ InTurn'  BY <1>1, <1>2, <1>4 DEF Unnumbered, InTurn
  <1>7. WireIsKnown'  BY <1>1, <1>2, <1>3 DEF WireIsKnown
  <1>8. NewIsNew'  BY <1>1, <1>2, <1>4 DEF NewIsNew, Past
  <1>9. ASSUME Clean' PROVE Settles'
    <2>1. writes' = <<>> /\ shown' = saved'
      <3>1. writes = <<>> /\ saved = reading[1]  BY <1>3, <1>9 DEF Clean
      <3> QED  BY <1>2, <3>1
    <2>2. Queued' = {}  BY <2>1 DEF Queued
    <2> QED  BY <2>1, <2>2 DEF Settles, ListSettles, RevokedSettles, AddsApart, BlockedSettles
  <1> QED  BY <1>5, <1>6, <1>7, <1>8, <1>9 DEF WriteInv

LEMMA WriteElsewhere == WriteInv /\ W!OtherDevice => WriteInv'
  <1> SUFFICES ASSUME WriteInv, W!OtherDevice PROVE WriteInv'
    OBVIOUS
  <1>1. WriteTypes /\ Unnumbered /\ WireIsKnown /\ InTurn /\ NewIsNew  BY DEF WriteInv
  <1>2. /\ others' = others + 1
        /\ document' = document /\ shown' = shown /\ writes' = writes /\ wire' = wire
        /\ reading' = reading /\ edits' = edits
    BY DEF W!OtherDevice
  <1>3. overlap' = TRUE /\ gaveUp' = gaveUp  BY DEF W!OtherDevice
  <1>4. PICK ids : /\ saved' = W!Value(ids, 0)
                   /\ ids \subseteq saved.ids \cup {101 + 2 * others}
    BY DEF W!OtherDevice
  <1>5. edits \in Nat /\ others \in Nat /\ saved.ids \subseteq Nat  BY <1>1 DEF WriteTypes, Document
  <1>6. saved' \in Document /\ saved'.ids = ids /\ saved'.edit = 0
    BY <1>4, <1>5 DEF W!Value, Document
  <1>7. Queued' = Queued /\ (Listed' <=> Listed)  BY <1>2 DEF Queued, Listed
  <1>8. WriteTypes'
    <2>1. overlap' \in BOOLEAN /\ gaveUp' \in BOOLEAN  BY <1>1, <1>3 DEF WriteTypes
    <2>2. {edits, others}' \subseteq Nat  BY <1>2, <1>5
    <2> QED  BY <1>1, <1>2, <1>6, <1>7, <2>1, <2>2 DEF WriteTypes
  <1>9. Unnumbered' /\ InTurn' /\ WireIsKnown'
    BY <1>1, <1>2, <1>3, <1>6, <1>7 DEF Unnumbered, InTurn, WireIsKnown
  <1>10. NewIsNew'
    <2> SUFFICES ASSUME document = "blocked" PROVE NewIsNew'
      BY <1>2 DEF NewIsNew
    <2>1. \A k \in Nat : 100 + 2 * k # 101 + 2 * others  BY <1>5
    <2>2. Past(saved'.ids)  BY <1>1, <1>4, <1>6, <2>1 DEF NewIsNew, Past
    <2> QED  BY <1>1, <1>2, <1>7, <2>2 DEF NewIsNew, Past
  <1> QED  BY <1>3, <1>8, <1>9, <1>10 DEF WriteInv, Clean

LEMMA WriteStep == WriteInv /\ [W!Next]_(W!vars) => WriteInv'
  <1> SUFFICES ASSUME WriteInv, [W!Next]_(W!vars) PROVE WriteInv'
    OBVIOUS
  <1>1. CASE W!Edits  BY <1>1, WriteAsks
  <1>2. CASE \E n \in 1..Len(writes) :
               \/ W!Requests(n) \/ W!MobileRequests(n) \/ W!Stores(n) \/ W!Answered(n)
               \/ (client = "desktop" /\ W!Fails(n)) \/ W!MobileFails(n)
    <2>1. PICK n \in Queued :
               \/ W!Requests(n) \/ W!MobileRequests(n) \/ W!Stores(n) \/ W!Answered(n)
               \/ (client = "desktop" /\ W!Fails(n)) \/ W!MobileFails(n)
      BY <1>2 DEF Queued
    <2>2. W!Sends(n) \/ W!Stores(n) \/ W!Answered(n) \/ W!Fails(n)
      BY <2>1 DEF W!Requests, W!MobileRequests, W!Request, W!MobileFails, W!UpdateAccountFolders,
                  W!UpdateAccountSettings, W!BlockAccount, W!UnblockAccount, W!RevokeEntry,
                  W!RevokeOtherSessions, W!MobileUpdateFolders, W!MobileUpdateSettings,
                  W!MobileBlock, W!MobileUnblock, W!MobileDelete, W!MobileRevokeOthers
    <2> QED  BY <2>2, WriteSends, WriteStores, WriteAnswered, WriteFails
  <1>3. CASE W!ArrivesLate  BY <1>3, WriteLate
  <1>4. CASE W!ReadsOne  BY <1>4, WriteReads
  <1>5. CASE W!ReadArrives  BY <1>5, WriteArrives
  <1>6. CASE W!OtherDevice  BY <1>6, WriteElsewhere
  <1>7. CASE UNCHANGED W!vars
    <2>1. /\ document' = document /\ saved' = saved /\ shown' = shown /\ writes' = writes
          /\ wire' = wire /\ reading' = reading /\ edits' = edits /\ others' = others
          /\ overlap' = overlap /\ gaveUp' = gaveUp
      BY <1>7 DEF W!vars, W!counters, W!history
    <2> QED
      BY <2>1 DEF WriteInv, WriteTypes, Unnumbered, WireIsKnown, InTurn, NewIsNew, Past, Clean,
         Settles,
                  ListSettles, RevokedSettles, AddsApart, BlockedSettles, Permits, Stored, Listed, Queued
  <1> QED  BY <1>1, <1>2, <1>3, <1>4, <1>5, <1>6, <1>7 DEF W!Next

(* SettledIsTrue (AccountWrites): with no write and no read under way, no  *)
(* request failed, nothing written elsewhere and nothing read during a     *)
(* write, the folders, switches, devices and blocked accounts shown are    *)
(* the ones the server has.                                                *)
THEOREM SettledIsTheServers == Spec => []SettledIsTrue
  <1>1. Init => WriteInv  BY WriteInit DEF Init
  <1>2. WriteInv /\ [Next]_vars => WriteInv'
    <2>1. [Next]_vars => [W!Next]_(W!vars)
      BY DEF Next, vars, account, W!vars, W!counters, W!history
    <2> QED  BY <2>1, WriteStep
  <1>3. WriteInv => SettledIsTrue
    <2> SUFFICES ASSUME WriteInv, writes = <<>>, ~gaveUp, ~overlap PROVE shown = saved
      BY DEF SettledIsTrue, W!SettledIsTrue
    <2>1. WriteTypes /\ Unnumbered /\ Settles  BY DEF WriteInv, Clean
    <2>2. Queued = {}  BY DEF Queued
    <2>3. CASE Listed  BY <2>1, <2>3 DEF Settles, ListSettles
    <2>4. CASE ~Listed
      <3>1. /\ saved \in Document /\ shown \in Document /\ saved.edit = shown.edit
            /\ document \in {"revoked", "blocked"}
        BY <2>1, <2>4 DEF WriteTypes, Unnumbered, Listed
      <3>2. \A x \in Nat : x \in saved.ids <=> x \in shown.ids
        BY <2>1, <2>2, <3>1 DEF Settles, RevokedSettles, BlockedSettles
      <3>3. saved.ids = shown.ids  BY <3>1, <3>2 DEF Document
      <3> QED  BY <3>1, <3>3 DEF Document
    <2> QED  BY <2>3, <2>4
  <1> QED  BY <1>1, <1>2, <1>3, PTL DEF Spec

-------------------------------------------------------------------------------
(* AccountWrites: the last change of a list is what the user chose last.   *)
ChosenIsLast ==
    Listed => \A n \in Queued : /\ writes[n].edit <= edits
                                /\ writes[n].edit = edits => chosen = W!Value(writes[n].ids, edits)
ChoiceInv == WriteInv /\ ChosenIsLast

(* A write that goes away leaves the others as they were.                  *)
LEMMA FewerAreChosen ==
    ASSUME ChoiceInv, NEW n \in Queued, writes' = W!RemoveAt(writes, n),
           UNCHANGED <<document, edits, chosen>>
    PROVE  ChosenIsLast'
  <1>1. /\ \A i \in Queued' : writes'[i] = writes[IF i < n THEN i ELSE i + 1]
        /\ \A i \in Queued' : (IF i < n THEN i ELSE i + 1) \in Queued \ {n}
    BY QueueLess DEF ChoiceInv, WriteInv
  <1>2. \A i \in Queued' : \E j \in Queued : writes'[i] = writes[j]  BY <1>1
  <1> QED  BY <1>2 DEF ChoiceInv, ChosenIsLast, Listed, W!Value

LEMMA ChosenGoesOn ==
    ASSUME ChoiceInv, NEW n \in Queued, NEW at \in {"sent", "stored"},
           writes' = [writes EXCEPT ![n].at = at], UNCHANGED <<document, edits, chosen>>
    PROVE  ChosenIsLast'
  <1>1. /\ Queued' = Queued
        /\ \A m \in Queued : writes'[m].ids = writes[m].ids /\ writes'[m].edit = writes[m].edit
    BY QueueGoes DEF ChoiceInv, WriteInv
  <1> QED  BY <1>1 DEF ChoiceInv, ChosenIsLast, Listed, W!Value

LEMMA ChosenByEdits ==
    ASSUME ChoiceInv, W!Edits PROVE ChosenIsLast'
  <1>1. /\ edits \in Nat /\ shown \in Document /\ shown.ids \subseteq Nat
        /\ writes \in Seq(Write) /\ Len(writes) \in Nat
    BY DEF ChoiceInv, WriteInv, WriteTypes, Document
  <1>2. ASSUME Listed
        PROVE  \E ids \in SUBSET Nat : W!Ask("set", ids) /\ chosen' = W!Value(ids, edits')
    <2>1. W!EditFolders \/ W!UpdatePrivacy
      BY <1>2 DEF W!Edits, W!Edit, W!MobileFolders, W!MobilePrivacy, W!MobileConfirms, Listed,
                  W!ExecutePendingAction, W!AddBlockedAccount, W!RemoveBlockedAccount, W!Change
    <2>2. \E ids \in SUBSET Nat : W!Choose(ids)
      <3>1. W!Fresh \in Nat  BY <1>1 DEF W!Fresh
      <3> QED
        BY <1>1, <2>1, <3>1 DEF W!EditFolders, W!SaveFolder, W!DeleteFolder,
           W!ToggleConversationFolder,
                                W!SetFoldersAndSync, W!UpdatePrivacy
    <2> QED  BY <2>2 DEF W!Choose
  <1>3. CASE Listed
    <2>1. PICK ids \in SUBSET Nat : W!Ask("set", ids) /\ chosen' = W!Value(ids, edits')
      BY <1>2, <1>3
    <2>2. /\ edits' = edits + 1 /\ document' = document
          /\ writes' = Append(writes, [op |-> "set", ids |-> ids, edit |-> edits', at |-> "waiting"])
      BY <2>1 DEF W!Ask
    <2> DEFINE w == [op |-> "set", ids |-> ids, edit |-> edits', at |-> "waiting"]
    <2>3. w \in Write /\ w.ids = ids /\ w.edit = edits'  BY <1>1, <2>2 DEF Write
    <2> HIDE DEF w
    <2>4. \A n \in 1..Len(writes') : (n \in Queued /\ writes'[n] = writes[n]) \/ writes'[n] = w
      <3>1. writes' = Append(writes, w)  BY <2>2 DEF w
      <3> QED  BY <1>1, <2>3, <3>1, AppendProperties DEF Queued
    <2>5. \A n \in Queued' : \/ \E m \in Queued : writes'[n] = writes[m] /\ writes[m].edit <= edits
                             \/ writes'[n] = w
      BY <1>3, <2>4 DEF Queued, ChoiceInv, ChosenIsLast
    <2>6. \A m \in Queued : writes[m].edit \in Nat
      <3>1. \A m \in Queued : writes[m] \in Write  BY <1>1 DEF Queued
      <3> QED  BY <3>1 DEF Write
    <2>0. edits \in Nat /\ edits' \in Nat /\ edits' = edits + 1
      BY <1>1, <2>2
    <2>7. ASSUME NEW n \in Queued'
          PROVE  /\ writes'[n].edit <= edits'
                 /\ writes'[n].edit = edits' => writes'[n] = w
      <3>1. CASE writes'[n] = w  BY <2>0, <2>3, <3>1
      <3>2. ASSUME NEW m \in Queued, writes'[n] = writes[m], writes[m].edit <= edits
            PROVE  writes'[n].edit <= edits' /\ writes'[n].edit # edits'
        <4>1. writes[m].edit \in Nat  BY <2>6
        <4>2. writes'[n].edit = writes[m].edit  BY <3>2
        <4> QED  BY <2>0, <3>2, <4>1, <4>2
      <3> QED  BY <2>5, <3>1, <3>2
    <2> QED  BY <2>1, <2>3, <2>7 DEF ChosenIsLast, W!Value
  <1>4. CASE ~Listed
    <2>1. document' = document
      BY DEF W!Edits, W!Edit, W!MobileFolders, W!MobilePrivacy, W!MobileConfirms, W!EditFolders,
             W!SaveFolder, W!DeleteFolder, W!ToggleConversationFolder, W!SetFoldersAndSync,
             W!UpdatePrivacy, W!Choose, W!ExecutePendingAction, W!AddBlockedAccount,
             W!RemoveBlockedAccount, W!Change, W!Ask
    <2> QED  BY <1>4, <2>1 DEF ChosenIsLast, Listed
  <1> QED  BY <1>3, <1>4

(* What a step does to the queue and the choice.                           *)
LEMMA ChoiceStep == ChoiceInv /\ [W!Next]_(W!vars) =>
    /\ ChosenIsLast'
    /\ document = "privacy" /\ Len(writes') < Len(writes) => shown' \in {shown, chosen}
  <1> DEFINE Kept == document = "privacy" /\ Len(writes') < Len(writes) => shown' \in {shown, chosen}
  <1> SUFFICES ASSUME ChoiceInv, [W!Next]_(W!vars) PROVE ChosenIsLast' /\ Kept
    OBVIOUS
  <1>0. WriteTypes /\ writes \in Seq(Write) /\ Len(writes) \in Nat
    BY DEF ChoiceInv, WriteInv, WriteTypes
  <1>1. CASE W!Edits
    <2>1. PICK op, ids : W!Ask(op, ids)
      BY <1>1 DEF W!Edits, W!Edit, W!MobileFolders, W!MobilePrivacy, W!MobileConfirms, W!EditFolders,
             W!SaveFolder, W!DeleteFolder, W!ToggleConversationFolder, W!SetFoldersAndSync,
             W!UpdatePrivacy, W!Choose, W!ExecutePendingAction, W!AddBlockedAccount,
             W!RemoveBlockedAccount, W!Change
    <2> DEFINE w == [op |-> op, ids |-> ids, edit |-> edits', at |-> "waiting"]
    <2>2. writes' = Append(writes, w)  BY <2>1 DEF W!Ask
    <2> HIDE DEF w
    <2>3. Len(writes') = Len(writes) + 1  BY <1>0, <2>2
    <2> QED  BY <1>0, <1>1, <2>3, ChosenByEdits
  <1>2. ASSUME NEW n \in Queued, W!Sends(n) \/ W!Stores(n) PROVE ChosenIsLast' /\ Kept
    <2>1. /\ UNCHANGED <<document, edits, chosen>>
          /\ \E at \in {"sent", "stored"} : writes' = [writes EXCEPT ![n].at = at]
      BY <1>2 DEF W!Sends, W!Stores, W!counters, W!history
    <2>2. PICK at \in {"sent", "stored"} : writes' = [writes EXCEPT ![n].at = at]
      BY <2>1
    <2>3. Len(writes') = Len(writes)  BY <1>0, <2>2, QueueGoes
    <2>4. ChosenIsLast'  BY <2>1, <2>2, ChosenGoesOn
    <2>5. Kept  BY <1>0, <2>3
    <2> QED  BY <2>4, <2>5
  <1>3. ASSUME NEW n \in Queued, W!Fails(n) PROVE ChosenIsLast' /\ Kept
    BY <1>3, FewerAreChosen DEF W!Fails
  <1>4. ASSUME NEW n \in Queued, W!Answered(n) PROVE ChosenIsLast' /\ Kept
    <2>1. ChosenIsLast'
      BY <1>4, FewerAreChosen DEF W!Answered, W!counters, W!history
    <2>2. ASSUME document = "privacy" PROVE shown' \in {shown, chosen}
      <3>1. writes[n].op = "set"  BY <1>0, <2>2 DEF WriteTypes, OpsOf
      <3>2. CASE writes[n].edit = edits
        <4>1. shown' = W!After(writes[n], shown)  BY <1>4, <3>2 DEF W!Answered, W!Counts
        <4>2. shown' = W!Value(writes[n].ids, edits)  BY <3>1, <3>2, <4>1 DEF W!After
        <4>3. chosen = W!Value(writes[n].ids, edits)
          BY <2>2, <3>2 DEF ChoiceInv, ChosenIsLast, Listed
        <4> QED  BY <4>2, <4>3
      <3>3. CASE writes[n].edit # edits
        BY <1>4, <2>2, <3>3 DEF W!Answered, W!Counts
      <3> QED  BY <3>2, <3>3
    <2> QED  BY <2>1, <2>2
  <1>5. CASE W!ArrivesLate \/ W!ReadsOne \/ W!ReadArrives \/ W!OtherDevice \/ UNCHANGED W!vars
    <2>1. UNCHANGED <<document, edits, chosen, writes>>
      BY <1>5 DEF W!ArrivesLate, W!ReadsOne, W!Reads, W!ReadArrives, W!OtherDevice, W!vars,
         W!counters,
           W!history, W!GetAccountSettings, W!GetBlacklist, W!GetDevices, W!FetchAccountSettings,
           W!FetchBlacklist, W!FetchDevices, W!ReadFolders
    <2> QED  BY <1>0, <2>1 DEF ChoiceInv, ChosenIsLast, Listed, Queued, W!Value
  <1>6. CASE \E n \in 1..Len(writes) :
               \/ W!Requests(n) \/ W!MobileRequests(n) \/ W!Stores(n) \/ W!Answered(n)
               \/ (client = "desktop" /\ W!Fails(n)) \/ W!MobileFails(n)
    <2>1. PICK n \in Queued :
               \/ W!Requests(n) \/ W!MobileRequests(n) \/ W!Stores(n) \/ W!Answered(n)
               \/ (client = "desktop" /\ W!Fails(n)) \/ W!MobileFails(n)
      BY <1>6 DEF Queued
    <2>2. W!Sends(n) \/ W!Stores(n) \/ W!Answered(n) \/ W!Fails(n)
      BY <2>1 DEF W!Requests, W!MobileRequests, W!Request, W!MobileFails, W!UpdateAccountFolders,
                  W!UpdateAccountSettings, W!BlockAccount, W!UnblockAccount, W!RevokeEntry,
                  W!RevokeOtherSessions, W!MobileUpdateFolders, W!MobileUpdateSettings,
                  W!MobileBlock, W!MobileUnblock, W!MobileDelete, W!MobileRevokeOthers
    <2> QED  BY <1>2, <1>3, <1>4, <2>2
  <1> QED  BY <1>1, <1>5, <1>6 DEF W!Next

(* NoAnswerUndoesAChoice (savePrivacy, SettingsScreen.tsx): for any number *)
(* of changes, failures and reads, the end of a write leaves the switches  *)
(* as they are or as the user left them.                                   *)
THEOREM AnswersKeepTheChoice == Spec => NoAnswerUndoesAChoice
  <1>1. Init => ChoiceInv
    <2>1. W!Init => ChosenIsLast  BY DEF W!Init, ChosenIsLast, Queued
    <2> QED  BY <2>1, WriteInit DEF Init, ChoiceInv
  <1>2. [Next]_vars => [W!Next]_(W!vars)
    BY DEF Next, vars, account, W!vars, W!counters, W!history
  <1>3. ChoiceInv /\ [Next]_vars => ChoiceInv'
    BY <1>2, ChoiceStep, WriteStep DEF ChoiceInv
  <1>4. ChoiceInv /\ [Next]_vars =>
            [document = "privacy" /\ Len(writes') < Len(writes) => shown' \in {shown, chosen}]_(W!vars)
    BY <1>2, ChoiceStep
  <1> QED  BY <1>1, <1>3, <1>4, PTL DEF Spec, NoAnswerUndoesAChoice, W!NoAnswerUndoesAChoice

-------------------------------------------------------------------------------
(* Screens: the search.  Requests are numbered as they are asked.          *)
SearchInv ==
    searchId \in Nat /\ timer \in 0..searchId /\ searches \subseteq 0..searchId /\ result \in 0..searchId
(* What a step may do to it: ask again or not, show the latest answer, or  *)
(* begin anew.                                                             *)
AsksOn ==
    /\ searchId' \in {searchId, searchId + 1} /\ timer' \in {0, timer, searchId'}
    /\ searches' \subseteq searches \cup {timer, searchId'} /\ result' \in {0, result}
ShowsLatest == UNCHANGED <<searchId, timer>> /\ searches' \subseteq searches /\ result' \in {result, searchId}
BeginsAnew == searchId' = 0 /\ timer' = 0 /\ searches' = {} /\ result' = 0

LEMMA SearchGoesOn ==
    ASSUME SearchInv, AsksOn \/ ShowsLatest \/ BeginsAnew
    PROVE  SearchInv' /\ (result # 0 /\ result' # 0 => result' >= result)
  <1>1. CASE AsksOn
    <2>1. searchId' \in Nat /\ searchId <= searchId'  BY <1>1 DEF SearchInv, AsksOn
    <2>2. timer' \in 0..searchId' /\ result' \in 0..searchId'  BY <1>1, <2>1 DEF SearchInv, AsksOn
    <2>3. searches' \subseteq 0..searchId'  BY <1>1, <2>1 DEF SearchInv, AsksOn
    <2> QED  BY <1>1, <2>1, <2>2, <2>3 DEF SearchInv, AsksOn
  <1>2. CASE ShowsLatest  BY <1>2 DEF SearchInv, ShowsLatest
  <1>3. CASE BeginsAnew  BY <1>3 DEF SearchInv, BeginsAnew
  <1> QED  BY <1>1, <1>2, <1>3

LEMMA SearchStep == [S!Next]_(S!vars) => AsksOn \/ ShowsLatest \/ BeginsAnew
  <1> SUFFICES ASSUME [S!Next]_(S!vars) PROVE AsksOn \/ ShowsLatest \/ BeginsAnew
    OBVIOUS
  <1> USE DEF S!search
  <1>1. S!SearchAgain => searchId' \in {searchId, searchId + 1} /\ timer' \in {0, timer, searchId'}
    BY DEF S!SearchAgain
  <1>2. S!SameSearch => AsksOn
    BY <1>1 DEF S!SameSearch, S!Result, AsksOn
  <1>3. UNCHANGED S!search => AsksOn
    BY DEF AsksOn
  <1>4. CASE S!OpenChat \/ S!HandleRootBack \/ S!DeleteConversation \/ S!ClearMessageCache \/ S!OtherTab
    BY <1>2, <1>4 DEF S!OpenChat, S!HandleRootBack, S!LeaveConversation, S!SelectPanel,
       S!DeleteConversation, S!SelectFolder, S!MobileSelectsFolder, S!CloseChat, S!ClearMessageCache,
       S!OtherTab, S!Effects
  <1>5. CASE S!ReplyToMessage \/ S!CancelContext \/ S!Sync \/ S!ShowAuth \/ S!CancelAuth \/ S!Starts
               \/ S!SignIn \/ S!Hydrate \/ UNCHANGED S!vars
    BY <1>3, <1>5 DEF S!ReplyToMessage, S!CancelContext, S!Sync, S!ShowAuth, S!CancelAuth, S!Starts,
       S!SignIn, S!Hydrate, S!vars
  <1>6. ASSUME NEW p \in Profiles, S!SelectProfile(p) \/ S!RemoveProfile(p) PROVE AsksOn
    <2>1. CASE S!SelectProfile(p)
      BY <1>1, <2>1 DEF S!SelectProfile, AsksOn
    <2>2. CASE S!RemoveProfile(p)
      BY <1>2, <2>2 DEF S!RemoveProfile, S!TakeOut
    <2> QED  BY <1>6, <2>1, <2>2
  <1>7. ASSUME NEW c, S!ShowFound(c) PROVE AsksOn
    BY <1>1, <1>7 DEF S!ShowFound, AsksOn
  <1>8. ASSUME NEW p, NEW c, S!OpenNotification(p, c) PROVE AsksOn
    BY <1>2, <1>8 DEF S!OpenNotification, S!Effects
  <1>9. CASE S!Ends
    <2>1. PICK call \in calls : \/ S!Unauthorized(call) \/ S!Fails(call) \/ S!Created(call)
                                \/ S!Added(call) \/ S!Deleted(call)
      BY <1>9 DEF S!Ends
    <2>2. CASE S!Unauthorized(call)
      BY <1>2, <1>3, <2>2 DEF S!Unauthorized, S!ExpireProfileSession, S!Effects
    <2>3. CASE S!Fails(call)  BY <1>3, <2>3 DEF S!Fails
    <2>4. CASE S!Created(call)  BY <1>7, <2>4 DEF S!Created
    <2>5. CASE S!Added(call)  BY <1>2, <2>5 DEF S!Added, S!AddProfile, S!Effects
    <2>6. CASE S!Deleted(call)  BY <1>2, <2>6 DEF S!Deleted, S!TakeOut
    <2> QED  BY <2>1, <2>2, <2>3, <2>4, <2>5, <2>6
  <1>10. CASE S!OpenSearchUser  BY <1>7, <1>10 DEF S!OpenSearchUser
  <1>11. CASE S!SearchForUser  BY <1>11 DEF S!SearchForUser, AsksOn
  <1>12. CASE S!TimerFires  BY <1>12 DEF S!TimerFires, AsksOn
  <1>13. CASE S!ClearSearch  BY <1>13 DEF S!ClearSearch, AsksOn
  <1>14. CASE S!Answered
    BY <1>14 DEF S!Answered, S!IsLatest, ShowsLatest
  <1>15. CASE S!Press  BY <1>3, <1>8, <1>15 DEF S!Press
  <1>16. CASE S!OpenPending  BY <1>3, <1>8, <1>16 DEF S!OpenPending
  <1>17. CASE S!Restart  BY <1>17 DEF S!Restart, BeginsAnew
  <1> QED
    BY <1>4, <1>5, <1>6, <1>9, <1>10, <1>11, <1>12, <1>13, <1>14, <1>15, <1>16, <1>17
    DEF S!Next, S!SearchAnswered, S!MobileSearchAnswered

(* SearchNeverGoesBack (searchForUser of both App.tsx): for any number of  *)
(* searches, over changes of profile and restarts, an answer to an earlier *)
(* search never replaces that of a later one.                              *)
THEOREM LatestSearchShows == Spec => SearchNeverGoesBack
  <1>1. Init => SearchInv  BY DEF Init, S!Init, SearchInv
  <1>2. [Next]_vars => [S!Next]_(S!vars)
    BY DEF Next, vars, screens, S!vars, S!who, S!view, S!search, S!start, S!fixed
  <1>3. SearchInv /\ [Next]_vars => SearchInv'
    BY <1>2, SearchStep, SearchGoesOn
  <1>4. SearchInv /\ [Next]_vars => [result # 0 /\ result' # 0 => result' >= result]_(S!vars)
    BY <1>2, SearchStep, SearchGoesOn
  <1> QED  BY <1>1, <1>3, <1>4, PTL DEF Spec, SearchNeverGoesBack, S!SearchNeverGoesBack

-------------------------------------------------------------------------------
(* ClientCache: what a message's absence may cost.  Whoever has X and asks *)
(* from c on misses only what so many newer ones push out (Covered).       *)
Newer(X, e) == {x \in X : x > e}
Covers(X, c) == \A e \in 1..c : e \in X \/ Cardinality(Newer(X, e)) >= D!Crowd
CoversAll(X) == Covers(X, since) /\ Covers(X, ref) /\ Covers(X, through)
(* The mobile client begins anew when it finds no messages.                *)
EmptyOrCovers(X, c) == X = {} \/ Covers(X, c)

CacheEntry == [messages : SUBSET (1..last), cursor : 0..last, at : Nat]
Piece == ({"messages"} \X SUBSET (1..last)) \cup ({"cursor"} \X (0..last))
Pending == 1..Len(pending)
CacheTypes ==
    /\ machine \in {"desktop", "mobile"} /\ limit \in Limits /\ last \in Nat /\ clock \in Nat
    /\ held \subseteq 1..last /\ through \in 0..last /\ ref \in 0..last /\ since \in 0..last
    /\ request # <<>> => request[1] \in 0..last /\ request[2] \in 0..last
    /\ stored \in CacheEntry /\ indexed \in CacheEntry /\ local \in CacheEntry
    /\ machine = "desktop" => pending \in Seq(CacheEntry)
    /\ machine = "mobile" => pending \in Seq(Piece)
(* The session: what it does not do when it has ended, or on one platform. *)
SessionFits ==
    /\ ~running => ~recovered /\ held = {} /\ through = 0 /\ ref = 0
    /\ ~running \/ ~keepsSession => ~loading /\ since = 0 /\ request = <<>>
    /\ machine = "mobile" => ~loading /\ ~dirty
    /\ machine = "mobile" /\ ~running => pending = <<>>
    /\ request # <<>> => request[1] <= since /\ (machine = "mobile" => through <= request[2])
(* The times of the copies: one as late as the one in localStorage is it.  *)
TimesFit ==
    machine = "desktop" =>
        /\ stored.at = 0 => stored = D!Nothing
        /\ stored.at <= clock /\ indexed.at <= clock
        /\ \A n \in Pending : pending[n].at <= clock
        /\ stored.at # 0 /\ indexed.at >= stored.at => indexed = stored
        /\ stored.at # 0 => \A n \in Pending : pending[n].at >= stored.at => pending[n] = stored

(* What a session has in memory; only a session not yet begun may rely on  *)
(* starting anew.                                                          *)
MemoryCovers ==
    /\ Covers(held, since)
    /\ Covers(held, ref) \/ (machine = "mobile" /\ held = {} /\ ~keepsSession /\ ~recovered)
    /\ Covers(held, through) \/ (machine = "mobile" /\ held = {})
(* Each copy of the desktop client; and what IndexedDB may yet answer for, *)
(* as long as nothing has changed meanwhile, is as good as the memory.     *)
StartsAtNothing == since = 0 /\ ref = 0 /\ through = 0
AnswersAll ==
    /\ local.at # 0 /\ CoversAll(local.messages)
    /\ indexed.at >= local.at => CoversAll(indexed.messages)
    /\ \A n \in Pending : pending[n].at >= local.at => CoversAll(pending[n].messages)
CopiesCover ==
    machine = "desktop" =>
        /\ Covers(stored.messages, stored.cursor) /\ Covers(indexed.messages, indexed.cursor)
        /\ Covers(local.messages, local.cursor)
        /\ \A n \in Pending : Covers(pending[n].messages, pending[n].cursor)
        /\ loading /\ ~stale /\ limit > 0 => StartsAtNothing \/ AnswersAll
(* The two keys of the mobile client, after any number of the writes.      *)
Fits(v, w) ==
    \/ v[1] = "messages" /\ w[1] = "cursor" /\ EmptyOrCovers(v[2], w[2])
    \/ v[1] = "cursor" /\ w[1] = "messages" /\ EmptyOrCovers(w[2], v[2])
KeysCover ==
    machine = "mobile" =>
        /\ EmptyOrCovers(stored.messages, stored.cursor)
        /\ pending = <<>> /\ running => stored.cursor = through
        /\ pending # <<>> =>
               /\ pending[Len(pending)] = <<"cursor", through>>
               /\ pending[1][1] = "messages" => EmptyOrCovers(pending[1][2], stored.cursor)
               /\ pending[1][1] = "cursor" => EmptyOrCovers(stored.messages, pending[1][2])
        /\ \A n \in 1..Len(pending) - 1 : Fits(pending[n], pending[n + 1])
SeenInv == CacheTypes /\ SessionFits /\ TimesFit
           /\ (~cleared /\ ~overtaken => MemoryCovers /\ CopiesCover /\ KeysCover)

(* After the cache was cleared nothing but empty copies may be read.       *)
Empty(r) == r.messages = {} /\ r.cursor = 0
EmptyCopies ==
    machine = "desktop" =>
        /\ Empty(stored)
        /\ IF pending = <<>> THEN Empty(indexed) ELSE Empty(pending[Len(pending)])
        /\ loading /\ ~stale =>
               /\ Empty(local) /\ (indexed.at >= local.at => Empty(indexed))
               /\ \A n \in Pending : pending[n].at >= local.at => Empty(pending[n])
EmptyKeys ==
    machine = "mobile" =>
        CASE Len(pending) = 0 -> Empty(stored)
          [] Len(pending) = 1 -> stored.messages = {} /\ pending[1] = <<"cursor", 0>>
          [] OTHER -> /\ pending[Len(pending) - 1] = <<"messages", {}>>
                      /\ pending[Len(pending)] = <<"cursor", 0>>
GoneInv == CacheTypes /\ SessionFits /\ TimesFit
           /\ (gone /\ ~overtaken => held = {} /\ through = 0 /\ EmptyCopies /\ EmptyKeys)

(* Of a finite set the n newest: they are in it, and what is left out has  *)
(* n newer ones that are not.                                              *)
LEMMA SameCardinality == \A X : D!Cardinality(X) = Cardinality(X)
  BY DEF D!Cardinality, Cardinality, D!IsFiniteSet, IsFiniteSet

LEMMA RecentIs == \A X, n : D!Recent(X, n) = {m \in X : Cardinality(Newer(X, m)) < n}
  BY SameCardinality DEF D!Recent, Newer

LEMMA LatestOf ==
    ASSUME NEW l \in Nat, NEW X \in SUBSET (1..l), X # {}
    PROVE  \E m \in X : \A x \in X : x <= m
  <1> DEFINE Y == {l - x : x \in X}
             Less == OpToRel(<, Nat)
  <1>1. Y \subseteq Nat /\ Y # {}
    <2>1. \A x \in X : x \in Nat /\ l - x \in Nat  OBVIOUS
    <2> QED  BY <2>1
  <1>2. PICK y \in Y : \A z \in Y : ~(<<z, y>> \in Less)
    BY <1>1, NatLessThanWellFounded, WFMin
  <1>3. \A z \in Y : ~(z < y)  BY <1>1, <1>2 DEF OpToRel
  <1>4. PICK m \in X : y = l - m  OBVIOUS
  <1>5. ASSUME NEW x \in X PROVE x <= m
    BY <1>3, <1>4
  <1> QED  BY <1>5

LEMMA FewNewer ==
    ASSUME NEW l \in Nat, NEW X \in SUBSET (1..l), NEW e
    PROVE  /\ IsFiniteSet(X) /\ IsFiniteSet(Newer(X, e)) /\ Cardinality(Newer(X, e)) \in Nat
           /\ \A Y \in SUBSET X : Cardinality(Newer(Y, e)) \in Nat
                                  /\ Cardinality(Newer(Y, e)) <= Cardinality(Newer(X, e))
  <1>1. IsFiniteSet(X)
    <2>1. IsFiniteSet(1..l)  BY FS_Interval
    <2> QED  BY <2>1, FS_Subset
  <1>2. Newer(X, e) \in SUBSET X  BY DEF Newer
  <1>3. IsFiniteSet(Newer(X, e)) /\ Cardinality(Newer(X, e)) \in Nat
    BY <1>1, <1>2, FS_Subset, FS_CardinalityType
  <1>4. ASSUME NEW Y \in SUBSET X
        PROVE  Cardinality(Newer(Y, e)) \in Nat /\ Cardinality(Newer(Y, e)) <= Cardinality(Newer(X, e))
    <2>1. Newer(Y, e) \in SUBSET Newer(X, e)  BY DEF Newer
    <2> QED  BY <1>3, <2>1, FS_Subset, FS_CardinalityType
  <1> QED  BY <1>1, <1>3, <1>4

LEMMA RecentKeeps ==
    ASSUME NEW l \in Nat, NEW X \in SUBSET (1..l), NEW n \in Nat, NEW e \in Nat
    PROVE  /\ D!Recent(X, n) \subseteq X
           /\ \/ Newer(D!Recent(X, n), e) = Newer(X, e)
              \/ Cardinality(Newer(D!Recent(X, n), e)) >= n
           /\ e \in X \ D!Recent(X, n) => Cardinality(Newer(X, e)) >= n
  <1> DEFINE R == D!Recent(X, n)
             Left == Newer(X, e) \ R
  <1>1. R = {m \in X : Cardinality(Newer(X, m)) < n}  BY RecentIs
  <1>2. \A m \in X : Cardinality(Newer(X, m)) \in Nat  BY FewNewer
  <1> HIDE DEF R
  <1>3. R \in SUBSET X /\ (e \in X \ R => Cardinality(Newer(X, e)) >= n)  BY <1>1, <1>2
  <1>4. CASE Left = {}
    <2>1. Newer(X, e) = Newer(R, e)  BY <1>3, <1>4 DEF Newer
    <2> QED  BY <1>3, <2>1 DEF R
  <1>5. CASE Left # {}
    <2>1. Left \in SUBSET (1..l)  BY DEF Newer
    <2>2. PICK m \in Left : \A x \in Left : x <= m  BY <1>5, <2>1, LatestOf
    <2>3. m \in X /\ m \notin R /\ m > e /\ m \in Nat  BY <2>1, <2>2 DEF Newer
    <2>4. Cardinality(Newer(X, m)) >= n  BY <1>1, <1>2, <2>3
    <2>5. Newer(X, m) \in SUBSET Newer(R, e)
      <3>1. ASSUME NEW x \in Newer(X, m) PROVE x \in Newer(R, e)
        <4>1. x \in X /\ x > m /\ x \in Nat  BY DEF Newer
        <4>2. x \in Newer(X, e)  BY <2>3, <4>1 DEF Newer
        <4>3. x \notin Left  BY <2>2, <2>3, <4>1
        <4> QED  BY <4>1, <4>2, <4>3 DEF Newer
      <3> QED  BY <3>1
    <2>6. IsFiniteSet(Newer(R, e)) /\ Cardinality(Newer(R, e)) \in Nat
      <3>1. R \in SUBSET (1..l)  BY <1>3
      <3> QED  BY <3>1, FewNewer
    <2>7. Cardinality(Newer(X, m)) <= Cardinality(Newer(R, e))  BY <2>5, <2>6, FS_Subset
    <2>8. Cardinality(Newer(R, e)) >= n  BY <1>2, <2>3, <2>4, <2>6, <2>7
    <2> QED  BY <1>3, <2>8 DEF R
  <1> QED  BY <1>4, <1>5

(* The limit of what covers: at least one message, and no more than the    *)
(* mobile client keeps in memory (storage-limits.ts).                      *)
LEMMA CrowdIs ==
    ASSUME CacheTypes
    PROVE  /\ limit \in Nat /\ MemoryLimit \in Nat /\ D!Crowd \in Nat \ {0} /\ D!Crowd <= MemoryLimit
           /\ limit > 0 => D!Crowd = limit
  <1>1. MemoryLimit \in Nat \ {0} /\ Limits \subseteq 0..MemoryLimit
    BY MessengerAssumption DEF D!CacheAssumption
  <1> QED  BY <1>1 DEF CacheTypes, D!Crowd

(* With more messages, and with the newest of them, one still covers.      *)
LEMMA MoreCovers ==
    ASSUME CacheTypes, NEW l \in Nat, NEW Y \in SUBSET (1..l), NEW X \in SUBSET Y, NEW c \in Nat,
           Covers(X, c)
    PROVE  Covers(Y, c)
  <1>1. ASSUME NEW e \in 1..c PROVE e \in Y \/ Cardinality(Newer(Y, e)) >= D!Crowd
    <2>1. Cardinality(Newer(X, e)) \in Nat /\ Cardinality(Newer(Y, e)) \in Nat
          /\ Cardinality(Newer(X, e)) <= Cardinality(Newer(Y, e))
      BY FewNewer
    <2>2. e \in X \/ Cardinality(Newer(X, e)) >= D!Crowd  BY DEF Covers
    <2> QED  BY <2>1, <2>2, CrowdIs
  <1> QED  BY <1>1 DEF Covers

LEMMA NewestCover ==
    ASSUME CacheTypes, NEW l \in Nat, NEW X \in SUBSET (1..l), NEW c \in Nat, Covers(X, c),
           NEW n \in Nat, D!Crowd <= n
    PROVE  Covers(D!Recent(X, n), c)
  <1> DEFINE R == D!Recent(X, n)
  <1>1. ASSUME NEW e \in 1..c PROVE e \in R \/ Cardinality(Newer(R, e)) >= D!Crowd
    <2>1. /\ R \in SUBSET X /\ (Newer(R, e) = Newer(X, e) \/ Cardinality(Newer(R, e)) >= n)
          /\ e \in X \ R => Cardinality(Newer(X, e)) >= n
      <3>1. e \in Nat  OBVIOUS
      <3> QED  BY <3>1, RecentKeeps
    <2>2. e \in X \/ Cardinality(Newer(X, e)) >= D!Crowd  BY DEF Covers
    <2>3. Cardinality(Newer(X, e)) \in Nat /\ Cardinality(Newer(R, e)) \in Nat
      BY <2>1, FewNewer
    <2> HIDE DEF R
    <2> QED  BY <2>1, <2>2, <2>3, CrowdIs
  <1> QED  BY <1>1 DEF Covers

LEMMA FewerCovers == ASSUME NEW X, NEW c \in Nat, NEW d \in 0..c, Covers(X, c) PROVE Covers(X, d)
  BY DEF Covers
LEMMA NothingCovers == ASSUME NEW X PROVE Covers(X, 0)
  BY DEF Covers
LEMMA EmptyCovers == ASSUME CacheTypes, NEW c \in Nat, Covers({}, c) PROVE c = 0
  <1>1. Newer({}, 1) = {}  BY DEF Newer
  <1>2. Cardinality(Newer({}, 1)) = 0  BY <1>1, FS_EmptySet
  <1> QED  BY <1>2, CrowdIs DEF Covers
LEMMA RecentOfNone == \A n : D!Recent({}, n) = {}
  BY RecentIs

(* The steps of the cache, in the terms of the invariants.                 *)
LEMMA RecentType == ASSUME NEW l \in Nat, NEW X \in SUBSET (1..l), NEW n PROVE D!Recent(X, n) \in SUBSET (1..l)
  BY RecentIs
LEMMA RecordType ==
    ASSUME CacheTypes, NEW X \in SUBSET (1..last), NEW c \in 0..last, NEW at \in Nat
    PROVE  /\ D!Record(X, c, at) \in CacheEntry
           /\ D!Record(X, c, at).messages = D!Recent(X, limit) /\ D!Record(X, c, at).at = at
           /\ D!Record(X, c, at).cursor \in {0, c}
  <1>1. D!Recent(X, limit) \in SUBSET (1..last) /\ last \in Nat  BY RecentType DEF CacheTypes
  <1>2. D!Cut(X, c) \in {0, c}  BY DEF D!Cut
  <1> QED  BY <1>1, <1>2 DEF D!Record, CacheEntry
LEMMA NothingType ==
    ASSUME CacheTypes
    PROVE  D!Nothing \in CacheEntry /\ D!Nothing.messages = {} /\ D!Nothing.cursor = 0 /\ D!Nothing.at = 0
  BY DEF D!Nothing, CacheEntry, CacheTypes
(* writeMessageCache                                                       *)
LEMMA WriteIs ==
    ASSUME CacheTypes, machine = "desktop", NEW X \in SUBSET (1..last), NEW c \in 0..last,
           D!WriteCache(X, c)
    PROVE  /\ clock' = clock + 1 /\ indexed' = indexed /\ stored' \in CacheEntry
           /\ pending' = Append(pending, stored') /\ pending' \in Seq(CacheEntry)
           /\ limit = 0 => stored' = D!Nothing
           /\ limit # 0 => /\ stored'.messages = D!Recent(X, limit) /\ stored'.cursor \in {0, c}
                           /\ stored'.at = clock + 1
  <1>1. clock + 1 \in Nat /\ pending \in Seq(CacheEntry)  BY DEF CacheTypes
  <1>2. CASE limit = 0
    BY <1>1, <1>2, NothingType, AppendProperties DEF D!WriteCache
  <1>3. CASE limit # 0
    <2>1. stored' = D!Record(X, c, clock + 1) /\ pending' = Append(pending, stored')
          /\ clock' = clock + 1 /\ indexed' = indexed
      BY <1>3 DEF D!WriteCache
    <2>2. stored' \in CacheEntry /\ stored'.messages = D!Recent(X, limit)
          /\ stored'.cursor \in {0, c} /\ stored'.at = clock + 1
      BY <1>1, <2>1, RecordType
    <2> QED  BY <1>1, <1>3, <2>1, <2>2, AppendProperties
  <1> QED  BY <1>2, <1>3
(* A record of the cache, read again.                                      *)
LEMMA ParseIs ==
    ASSUME CacheTypes, NEW r \in CacheEntry
    PROVE  /\ D!ParseCache(r) \in CacheEntry
           /\ D!ParseCache(r).messages = D!Recent(r.messages, limit)
           /\ D!ParseCache(r).cursor \in {0, r.cursor}
  <1>1. r.messages \in SUBSET (1..last) /\ r.cursor \in 0..last /\ r.at \in Nat  BY DEF CacheEntry
  <1> QED  BY <1>1, RecordType DEF D!ParseCache
LEMMA ReadIs ==
    ASSUME CacheTypes
    PROVE  /\ D!ReadCache \in CacheEntry
           /\ limit = 0 => D!ReadCache = D!Nothing
           /\ limit # 0 => D!ReadCache = D!ParseCache(stored)
  BY ParseIs, NothingType DEF D!ReadCache, CacheTypes
LEMMA AnswerIs ==
    ASSUME CacheTypes
    PROVE  /\ D!Answer \in CacheEntry
           /\ D!Answer = D!Nothing \/ (limit # 0 /\ D!Answer = D!ParseCache(local))
  BY ParseIs, NothingType DEF D!Answer, CacheTypes

(* Two writes of the mobile client at once.                                *)
LEMMA PairAdded ==
    ASSUME NEW T, NEW q \in Seq(T), NEW v \in T, NEW w \in T
    PROVE  /\ q \o <<v, w>> \in Seq(T) /\ Len(q \o <<v, w>>) = Len(q) + 2
           /\ \A n \in 1..Len(q) : (q \o <<v, w>>)[n] = q[n]
           /\ (q \o <<v, w>>)[Len(q) + 1] = v /\ (q \o <<v, w>>)[Len(q) + 2] = w
  <1>1. <<v, w>> \in Seq(T) /\ Len(<<v, w>>) = 2 /\ <<v, w>>[1] = v /\ <<v, w>>[2] = w
    OBVIOUS
  <1>2. Len(q) \in Nat  OBVIOUS
  <1> QED  BY <1>1, <1>2, ConcatProperties
LEMMA PiecesAdded ==
    ASSUME CacheTypes, machine = "mobile", NEW X \in SUBSET (1..last), NEW c \in 0..last,
           pending' = pending \o D!Writes(X, c)
    PROVE  /\ pending' \in Seq(Piece) /\ Len(pending') = Len(pending) + 2
           /\ \A n \in Pending : pending'[n] = pending[n]
           /\ pending'[Len(pending) + 1] = <<"messages", D!Recent(X, limit)>>
           /\ pending'[Len(pending) + 2] = <<"cursor", c>>
  <1>1. <<"messages", D!Recent(X, limit)>> \in Piece /\ <<"cursor", c>> \in Piece
    BY RecentType DEF Piece, CacheTypes
  <1>2. pending \in Seq(Piece)  BY DEF CacheTypes
  <1> QED  BY <1>1, <1>2, PairAdded DEF D!Writes, Pending
(* The first write is done.                                                *)
LEMMA FirstDone ==
    ASSUME NEW T, NEW q \in Seq(T), q # <<>>
    PROVE  /\ Tail(q) \in Seq(T) /\ Head(q) \in T /\ Head(q) = q[1] /\ Len(Tail(q)) = Len(q) - 1
           /\ Len(q) \in Nat \ {0} /\ \A n \in 1..Len(q) - 1 : Tail(q)[n] = q[n + 1]
  BY HeadTailProperties, EmptySeq

LEMMA SessionStarts ==
    ASSUME CacheTypes, NEW X, NEW c \in 0..last, D!StartsSession(X, c)
    PROVE  /\ ref' \in {0, c} /\ since' = ref' /\ request' = <<>> /\ loading' = (machine = "desktop")
           /\ ref' \in 0..last
           /\ local' = (IF loading' THEN stored' ELSE D!Nothing)
           /\ stale' = (loading' /\ stored' = D!Nothing /\ pending' # <<>>)
           /\ machine = "desktop" => ref' = c
           /\ X = {} /\ c > 0 /\ machine = "mobile" /\ ~recovered => ref' = 0
  <1>1. /\ since' = ref' /\ request' = <<>> /\ loading' = (machine = "desktop")
        /\ ref' = IF D!Recovers(X, c) THEN 0 ELSE c
        /\ local' = (IF loading' THEN stored' ELSE D!Nothing)
        /\ stale' = (loading' /\ stored' = D!Nothing /\ pending' # <<>>)
    BY DEF D!StartsSession
  <1>2. /\ machine = "desktop" => ~D!Recovers(X, c)
        /\ X = {} /\ c > 0 /\ machine = "mobile" /\ ~recovered => D!Recovers(X, c)
    BY DEF D!Recovers
  <1>3. last \in Nat  BY DEF CacheTypes
  <1> QED  BY <1>1, <1>2, <1>3
LEMMA KeptType ==
    ASSUME NEW l \in Nat, NEW X \in SUBSET (1..l)
    PROVE  D!Kept(X) \in SUBSET (1..l)
  BY RecentType DEF D!Kept
LEMMA SameEntries == last' = last => CacheEntry' = CacheEntry /\ Piece' = Piece
  BY DEF CacheEntry, Piece

LEMMA CacheTypesStep == CacheTypes /\ SessionFits /\ [D!Next]_(D!vars) => CacheTypes'
  <1> SUFFICES ASSUME CacheTypes, SessionFits, [D!Next]_(D!vars) PROVE CacheTypes'
    OBVIOUS
  <1> USE DEF D!app, D!memory, D!session, D!disk, D!flags, D!history
  <1> DEFINE Same == machine' = machine /\ limit' = limit
             Memory == held' \subseteq 1..last /\ through' \in 0..last /\ ref' \in 0..last
             Session == since' \in 0..last /\ local' \in CacheEntry
                        /\ (request' # <<>> => request'[1] \in 0..last /\ request'[2] \in 0..last)
             Disk == /\ clock' \in Nat /\ stored' \in CacheEntry /\ indexed' \in CacheEntry
                     /\ machine = "desktop" => pending' \in Seq(CacheEntry)
                     /\ machine = "mobile" => pending' \in Seq(Piece)
  <1>1. Same /\ last' = last /\ Memory /\ Session /\ Disk => CacheTypes'
    BY SameEntries DEF CacheTypes
  <1>2. /\ UNCHANGED D!memory => Memory
        /\ UNCHANGED <<since, request, local>> => Session
        /\ UNCHANGED D!session => Session
        /\ UNCHANGED D!disk => Disk
        /\ last \in Nat /\ 0 \in 0..last /\ {} \subseteq 1..last
        /\ held \in SUBSET (1..last) /\ through \in 0..last /\ ref \in 0..last /\ since \in 0..last
        /\ clock \in Nat /\ stored \in CacheEntry /\ indexed \in CacheEntry /\ local \in CacheEntry
        /\ D!Nothing \in CacheEntry /\ machine \in {"desktop", "mobile"}
    <2>1. UNCHANGED D!memory => Memory  BY DEF CacheTypes
    <2>2. UNCHANGED <<since, request, local>> => Session  BY DEF CacheTypes
    <2>3. UNCHANGED D!session => UNCHANGED <<since, request, local>>  OBVIOUS
    <2>4. UNCHANGED D!disk => Disk  BY DEF CacheTypes
    <2> QED  BY <2>1, <2>2, <2>3, <2>4, NothingType DEF CacheTypes
  <1>3. ASSUME machine = "desktop", NEW X \in SUBSET (1..last), NEW c \in 0..last, D!WriteCache(X, c)
        PROVE  Disk
    <2>1. clock' = clock + 1 /\ indexed' = indexed /\ stored' \in CacheEntry /\ pending' \in Seq(CacheEntry)
      BY <1>3, WriteIs
    <2>2. machine # "mobile"  BY <1>3
    <2> QED  BY <1>2, <2>1, <2>2
  <1>4. ASSUME NEW X, NEW c \in 0..last, D!StartsSession(X, c), Disk PROVE Session /\ ref' \in 0..last
    BY <1>2, <1>4, SessionStarts
  <1>5. D!EndsSession => Session  BY <1>2, NothingType DEF D!EndsSession
  <1>6. /\ D!ReadCache.messages \in SUBSET (1..last) /\ D!ReadCache.cursor \in 0..last
        /\ D!Answer.messages \in SUBSET (1..last) /\ D!Answer.cursor \in 0..last
        /\ stored.messages \in SUBSET (1..last) /\ stored.cursor \in 0..last
        /\ D!Recent(stored.messages, limit) \in SUBSET (1..last)
    <2>1. \A r \in CacheEntry : r.messages \in SUBSET (1..last) /\ r.cursor \in 0..last
      BY DEF CacheEntry
    <2> QED  BY <1>2, <2>1, ReadIs, AnswerIs, RecentType
  <1>7. CASE D!Start
    <2>1. held' \in SUBSET (1..last) /\ through' \in 0..last /\ Disk
      BY <1>2, <1>6, <1>7 DEF D!Start, D!StartDesktop, D!StartMobile
    <2>2. Session /\ ref' \in 0..last
      BY <1>2, <1>4, <1>5, <1>7, <2>1 DEF D!Start
    <2> QED  BY <1>1, <1>7, <2>1, <2>2 DEF D!Start
  <1>8. CASE D!LoadIndexed
    <2>1. Memory /\ since' \in 0..last
      BY <1>2, <1>6, <1>8 DEF D!LoadIndexed, D!Bigger
    <2>2. Session  BY <1>2, <1>8, <2>1 DEF D!LoadIndexed, CacheTypes
    <2> QED  BY <1>1, <1>2, <1>8, <2>1, <2>2 DEF D!LoadIndexed
  <1>9. CASE D!ReadIndexed
    <2>1. Session  BY <1>2, <1>9 DEF D!ReadIndexed, CacheTypes
    <2> QED  BY <1>1, <1>2, <1>9, <2>1 DEF D!ReadIndexed
  <1>10. CASE D!SyncRead
    <2>1. since' \in 0..last /\ request' = <<since', last>>
      BY <1>2, <1>10 DEF D!SyncRead, D!Bigger
    <2>2. request'[1] = since' /\ request'[2] = last  BY <2>1
    <2>3. local' = local  BY <1>10 DEF D!SyncRead
    <2>4. Session  BY <1>2, <2>1, <2>2, <2>3
    <2> QED  BY <1>1, <1>2, <1>10, <2>4 DEF D!SyncRead
  <1>11. CASE D!SyncApply
    <2>1. request[1] \in 0..last /\ request[2] \in 0..last  BY <1>11 DEF D!SyncApply, CacheTypes
    <2>2. held \cup (request[1] + 1)..request[2] \in SUBSET (1..last)
      <3>1. \A x \in (request[1] + 1)..request[2] : x \in 1..last  BY <1>2, <2>1
      <3> QED  BY <1>2, <3>1
    <2>3. held' \in SUBSET (1..last)  BY <1>2, <1>11, <2>2, KeptType DEF D!SyncApply
    <2>4. Memory /\ since' \in 0..last
      BY <1>2, <1>11, <2>1, <2>3 DEF D!SyncApply, D!NextCursor, D!Bigger
    <2>5. Session  BY <1>2, <1>11, <2>4 DEF D!SyncApply, D!Meanwhile
    <2>6. machine = "mobile" => pending' \in Seq(Piece)
      <3>1. machine = "mobile" => pending' = pending \o D!Writes(held', through')
        BY <1>11 DEF D!SyncApply, D!Effects
      <3> QED  BY <2>3, <2>4, <3>1, PiecesAdded
    <2>7. Disk  BY <1>2, <1>11, <2>6 DEF D!SyncApply, D!Effects, CacheTypes
    <2> QED  BY <1>1, <1>11, <2>4, <2>5, <2>7 DEF D!SyncApply
  <1>12. CASE D!Commit
    <2>1. last' = last + 1 /\ last' \in Nat  BY <1>2, <1>12 DEF D!Commit
    <2>2. 1..last \subseteq 1..last' /\ 0..last \subseteq 0..last'  BY <1>2, <2>1
    <2>3. CacheEntry \subseteq CacheEntry' /\ Piece \subseteq Piece'
      BY <2>2 DEF CacheEntry, Piece
    <2>4. /\ machine = "desktop" => pending \in Seq(CacheEntry')
          /\ machine = "mobile" => pending \in Seq(Piece')
      BY <2>3, SeqMonotonic DEF CacheTypes
    <2> QED  BY <1>12, <2>1, <2>2, <2>3, <2>4 DEF D!Commit, CacheTypes
  <1>13. CASE D!PersistTimer
    <2>1. Disk
      <3>1. CASE UNCHANGED D!disk  BY <1>2, <3>1
      <3>2. CASE machine = "desktop" /\ D!WriteCache(held, through)  BY <1>2, <1>3, <3>2
      <3>3. machine = "desktop"  BY <1>2, <1>13 DEF D!PersistTimer, SessionFits
      <3> QED  BY <1>13, <3>1, <3>2, <3>3 DEF D!PersistTimer
    <2> QED  BY <1>1, <1>2, <1>13, <2>1 DEF D!PersistTimer
  <1>14. CASE D!WriteDone
    <2>1. CASE machine = "desktop"
      <3>1. pending \in Seq(CacheEntry)  BY <2>1 DEF CacheTypes
      <3>2. pending # <<>>  BY <1>14 DEF D!WriteDone
      <3>3. Head(pending) \in CacheEntry /\ Tail(pending) \in Seq(CacheEntry)
        BY <3>1, <3>2, FirstDone
      <3>4. Disk  BY <1>2, <1>14, <2>1, <3>3 DEF D!WriteDone
      <3> QED  BY <1>1, <1>2, <1>14, <3>4 DEF D!WriteDone
    <2>2. CASE machine = "mobile"
      <3>1. pending \in Seq(Piece)  BY <2>2 DEF CacheTypes
      <3>2. pending # <<>>  BY <1>14 DEF D!WriteDone
      <3>3. Head(pending) \in Piece /\ Tail(pending) \in Seq(Piece)
        BY <3>1, <3>2, FirstDone
      <3>4. stored' \in CacheEntry
        BY <1>2, <1>14, <2>2, <3>3 DEF D!WriteDone, Piece, CacheEntry
      <3>5. Disk  BY <1>2, <1>14, <2>2, <3>3, <3>4 DEF D!WriteDone
      <3> QED  BY <1>1, <1>2, <1>14, <3>5 DEF D!WriteDone
    <2> QED  BY <1>2, <2>1, <2>2
  <1>15. CASE D!PageHide
    <2>1. Disk  BY <1>2, <1>3, <1>15 DEF D!PageHide
    <2> QED  BY <1>1, <1>2, <1>5, <1>15, <2>1 DEF D!PageHide, D!Ends
  <1>16. CASE D!Crash
    <2>1. pending' = <<>>  BY <1>16 DEF D!Crash
    <2>2. Disk  BY <1>2, <1>16, <2>1 DEF D!Crash
    <2> QED  BY <1>1, <1>2, <1>5, <1>16, <2>2 DEF D!Crash, D!Ends
  <1>17. ASSUME NEW k \in 1..last, D!OtherTab(k) PROVE CacheTypes'
    <2>1. 1..k \in SUBSET (1..last) /\ k \in 0..last  BY <1>2
    <2>2. machine = "desktop" /\ D!WriteCache(1..k, k)  BY <1>17 DEF D!OtherTab
    <2>3. Disk  BY <1>3, <2>1, <2>2
    <2>4. stored'.messages \in SUBSET (1..last) /\ stored'.cursor \in 0..last
      BY <2>3 DEF CacheEntry
    <2>5. Memory
      BY <1>2, <1>17, <2>4 DEF D!OtherTab, D!Bigger
    <2>6. Session  BY <1>2, <1>17 DEF D!OtherTab, D!Meanwhile
    <2> QED  BY <1>1, <1>17, <2>3, <2>5, <2>6 DEF D!OtherTab
  <1>18. ASSUME D!Clear \/ D!RemoveProfile PROVE CacheTypes'
    <2>1. Disk
      <3>1. CASE machine = "desktop"
        <4>1. /\ stored' = D!Nothing /\ pending' = Append(pending, D!Nothing)
              /\ UNCHANGED <<indexed, clock>>
          BY <1>18, <3>1 DEF D!Clear, D!RemoveProfile, D!ClearActiveMessageCache, D!ClearCache,
                             D!ClearMobileCache
        <4>2. pending \in Seq(CacheEntry) /\ D!Nothing \in CacheEntry
          BY <3>1, NothingType DEF CacheTypes
        <4> QED  BY <1>2, <3>1, <4>1, <4>2, AppendProperties
      <3>2. CASE machine = "mobile"
        <4>1. pending' = pending \o D!Writes({}, 0) /\ UNCHANGED <<stored, indexed, clock>>
          BY <1>18, <3>2 DEF D!Clear, D!RemoveProfile, D!ClearActiveMessageCache, D!ClearMobileCache
        <4>2. {} \in SUBSET (1..last) /\ 0 \in 0..last  BY <1>2
        <4> QED  BY <1>2, <3>2, <4>1, <4>2, PiecesAdded
      <3> QED  BY <1>2, <3>1, <3>2
    <2>2. Memory  BY <1>2, <1>18 DEF D!Clear, D!RemoveProfile, D!Emptied
    <2>3. Session  BY <1>2, <1>5, <1>18 DEF D!Clear, D!RemoveProfile, D!Meanwhile
    <2> QED  BY <1>1, <1>18, <2>1, <2>2, <2>3 DEF D!Clear, D!RemoveProfile
  <1>19. CASE D!ExpireSession
    BY <1>1, <1>2, <1>5, <1>19 DEF D!ExpireSession
  <1>20. CASE D!SignIn
    <2>1. held' \in SUBSET (1..last) /\ through' \in 0..last
      BY <1>2, <1>6, <1>20 DEF D!SignIn
    <2>2. Session /\ ref' \in 0..last
      <3>1. PICK c \in 0..last : D!StartsSession(held', c)  BY <1>2, <1>20, <2>1 DEF D!SignIn
      <3>2. Disk  BY <1>2, <1>20 DEF D!SignIn
      <3> QED  BY <1>4, <3>1, <3>2
    <2> QED  BY <1>1, <1>2, <1>20, <2>1, <2>2 DEF D!SignIn
  <1>21. CASE D!SwitchProfiles
    <2>1. Disk
      <3>1. CASE UNCHANGED D!disk  BY <1>2, <3>1
      <3>2. CASE machine = "desktop" /\ D!WriteCache(held, through)  BY <1>2, <1>3, <3>2
      <3> QED  BY <1>21, <3>1, <3>2 DEF D!SwitchProfiles
    <2>2. Session /\ ref' \in 0..last
      BY <1>2, <1>4, <1>21, <2>1 DEF D!SwitchProfiles
    <2> QED  BY <1>1, <1>2, <1>21, <2>1, <2>2 DEF D!SwitchProfiles
  <1>22. CASE UNCHANGED D!vars
    BY <1>1, <1>2, <1>22 DEF D!vars, CacheTypes
  <1> QED
    BY <1>7, <1>8, <1>10, <1>11, <1>12, <1>13, <1>14, <1>15, <1>16, <1>17, <1>18, <1>19, <1>20, <1>21,
       <1>22, <1>9 DEF D!Next

LEMMA SessionStep == CacheTypes /\ SessionFits /\ [D!Next]_(D!vars) => SessionFits'
  <1> SUFFICES ASSUME CacheTypes, SessionFits, [D!Next]_(D!vars) PROVE SessionFits'
    OBVIOUS
  <1> USE DEF D!app, D!memory, D!session, D!disk, D!flags, D!history
  <1> DEFINE Ended == loading' = FALSE /\ since' = 0 /\ request' = <<>>
             StartsAfresh == request' = <<>> /\ (machine = "mobile" => ~loading')
             Runs == running' = TRUE /\ keepsSession' = TRUE /\ machine' = machine
  <1>1. /\ D!EndsSession => Ended
        /\ \A X : \A c \in 0..last : D!StartsSession(X, c) => StartsAfresh
        /\ machine \in {"desktop", "mobile"} /\ last \in Nat /\ through \in 0..last /\ since \in 0..last
        /\ ref \in 0..last
    <2>1. \A X : \A c \in 0..last : D!StartsSession(X, c) => StartsAfresh
      <3>1. ASSUME NEW X, NEW c \in 0..last, D!StartsSession(X, c) PROVE StartsAfresh
        BY <3>1, SessionStarts
      <3> QED  BY <3>1
    <2> QED  BY <2>1 DEF D!EndsSession, CacheTypes
  <1>2. ASSUME Runs, UNCHANGED dirty, StartsAfresh PROVE SessionFits'
    BY <1>2 DEF SessionFits
  <1>3. CASE D!Start
    <2>1. through' \in 0..last
      <3>1. \A r \in CacheEntry : r.cursor \in 0..last  BY DEF CacheEntry
      <3>2. stored \in CacheEntry /\ D!ReadCache \in CacheEntry  BY ReadIs DEF CacheTypes
      <3> QED  BY <1>3, <3>1, <3>2 DEF D!Start, D!StartDesktop, D!StartMobile
    <2>2. CASE keepsSession
      <3>1. StartsAfresh  BY <1>1, <1>3, <2>1, <2>2 DEF D!Start
      <3> QED  BY <1>1, <1>3, <2>2, <3>1 DEF D!Start, SessionFits
    <2>3. CASE ~keepsSession
      <3>1. Ended  BY <1>1, <1>3, <2>3 DEF D!Start
      <3> QED  BY <1>3, <2>3, <3>1 DEF D!Start, SessionFits
    <2> QED  BY <2>2, <2>3
  <1>4. CASE D!LoadIndexed
    <2>1. machine = "desktop"  BY <1>1, <1>4 DEF D!LoadIndexed, SessionFits
    <2>2. since' \in Nat /\ since' >= since
      <3>1. D!Answer.cursor \in 0..last
        <4>1. \A r \in CacheEntry : r.cursor \in 0..last  BY DEF CacheEntry
        <4> QED  BY <4>1, AnswerIs
      <3> QED  BY <1>1, <1>4, <3>1 DEF D!LoadIndexed, D!Bigger
    <2>3. request # <<>> => request[1] \in 0..last /\ request[1] <= since
        BY DEF SessionFits, CacheTypes
    <2>4. running' /\ keepsSession' /\ machine' = "desktop" /\ request' = request
      BY <1>4, <2>1 DEF D!LoadIndexed
    <2>5. request' # <<>> => request'[1] <= since'  BY <1>1, <2>2, <2>3, <2>4
    <2> QED  BY <2>4, <2>5 DEF SessionFits
  <1>5. CASE D!SyncRead
    <2>1. request' = <<since', last>> /\ since' \in Nat  BY <1>1, <1>5 DEF D!SyncRead, D!Bigger
    <2>2. request'[1] = since' /\ request'[2] = last  BY <2>1
    <2>3. request'[1] <= since' /\ through <= request'[2]  BY <1>1, <2>1, <2>2
    <2> QED  BY <1>5, <2>3 DEF D!SyncRead, SessionFits
  <1>6. CASE D!SyncApply
    <2>1. machine = "mobile" => UNCHANGED dirty  BY <1>6 DEF D!SyncApply, D!Effects
    <2>2. loading' = loading  BY <1>6 DEF D!SyncApply, D!Meanwhile
    <2> QED  BY <1>6, <2>1, <2>2 DEF D!SyncApply, SessionFits
  <1>7. CASE D!Commit \/ D!WriteDone \/ D!ReadIndexed
    BY <1>7 DEF D!Commit, D!WriteDone, D!ReadIndexed, SessionFits
  <1>8. CASE D!PersistTimer
    BY <1>8 DEF D!PersistTimer, SessionFits
  <1>9. CASE D!PageHide \/ D!Crash
    BY <1>1, <1>9 DEF D!PageHide, D!Crash, D!Ends, SessionFits
  <1>10. ASSUME NEW k \in 1..last, D!OtherTab(k) PROVE SessionFits'
    BY <1>10 DEF D!OtherTab, D!Meanwhile, SessionFits
  <1>11. CASE D!Clear
    <2>1. through' = 0 /\ (request # <<>> => request[2] \in 0..last)
      BY <1>11 DEF D!Clear, D!Emptied, CacheTypes
    <2>2. machine = "mobile" => UNCHANGED dirty
      BY <1>11 DEF D!Clear, D!ClearActiveMessageCache, D!ClearMobileCache
    <2>3. loading' = loading  BY <1>11 DEF D!Clear, D!Meanwhile
    <2> QED  BY <1>1, <1>11, <2>1, <2>2, <2>3 DEF D!Clear, SessionFits
  <1>12. CASE D!RemoveProfile
    BY <1>1, <1>12 DEF D!RemoveProfile, SessionFits
  <1>13. CASE D!ExpireSession
    BY <1>1, <1>13 DEF D!ExpireSession, SessionFits
  <1>14. CASE D!SignIn
    <2>1. PICK c \in 0..last : D!StartsSession(held', c)
      <3>1. D!ReadCache.cursor \in 0..last
        <4>1. \A r \in CacheEntry : r.cursor \in 0..last  BY DEF CacheEntry
        <4> QED  BY <4>1, ReadIs
      <3>2. through' \in 0..last /\ ref \in 0..last  BY <1>1, <1>14, <3>1 DEF D!SignIn
      <3> QED  BY <1>14, <3>2 DEF D!SignIn
    <2>2. StartsAfresh  BY <1>1, <2>1
    <2> QED  BY <1>2, <1>14, <2>2 DEF D!SignIn
  <1>15. CASE D!SwitchProfiles
    <2>1. StartsAfresh  BY <1>1, <1>15 DEF D!SwitchProfiles
    <2>2. machine = "mobile" => dirty' = FALSE  BY <1>15 DEF D!SwitchProfiles
    <2> QED  BY <1>15, <2>1, <2>2 DEF D!SwitchProfiles, SessionFits
  <1>16. CASE UNCHANGED D!vars
    BY <1>16 DEF D!vars, SessionFits
  <1> QED
    BY <1>3, <1>4, <1>5, <1>6, <1>7, <1>8, <1>9, <1>10, <1>11, <1>12, <1>13, <1>14, <1>15, <1>16
       DEF D!Next

(* What the stores of the desktop client go through.                       *)
Wrote == \E X \in SUBSET (1..last), c \in 0..last : D!WriteCache(X, c)
Wiped == /\ stored' = D!Nothing /\ pending' = Append(pending, D!Nothing)
           /\ UNCHANGED <<indexed, clock>>
OneDone == /\ pending # <<>> /\ indexed' = pending[1] /\ pending' = Tail(pending)
           /\ UNCHANGED <<stored, clock>>
Lost == pending' = <<>> /\ UNCHANGED <<stored, indexed, clock>>
LEMMA DesktopDisk ==
    ASSUME CacheTypes, SessionFits, [D!Next]_(D!vars), machine = "desktop"
    PROVE  UNCHANGED D!disk \/ Wrote \/ Wiped \/ OneDone \/ Lost
  <1> USE DEF D!app, D!memory, D!session, D!disk, D!flags, D!history
  <1>1. held \in SUBSET (1..last) /\ through \in 0..last /\ last \in Nat  BY DEF CacheTypes
  <1>2. CASE D!Start \/ D!ReadIndexed \/ D!LoadIndexed \/ D!SyncRead \/ D!Commit \/ D!ExpireSession \/ D!SignIn
             \/ UNCHANGED D!vars
    <2>1. UNCHANGED D!disk
      BY <1>2 DEF D!Start, D!StartDesktop, D!StartMobile, D!LoadIndexed, D!ReadIndexed, D!SyncRead,
         D!Commit,
                  D!ExpireSession, D!SignIn, D!vars
    <2> QED  BY <2>1
  <1>3. CASE D!SyncApply
    <2>1. UNCHANGED D!disk  BY <1>3 DEF D!SyncApply, D!Effects
    <2> QED  BY <2>1
  <1>4. CASE D!PersistTimer \/ D!PageHide \/ D!SwitchProfiles
    <2>1. UNCHANGED D!disk \/ D!WriteCache(held, through)
      BY <1>4 DEF D!PersistTimer, D!PageHide, D!SwitchProfiles
    <2> QED  BY <1>1, <2>1 DEF Wrote
  <1>5. ASSUME NEW k \in 1..last, D!OtherTab(k) PROVE Wrote
    <2>1. 1..k \in SUBSET (1..last) /\ k \in 0..last  BY <1>1
    <2> QED  BY <1>5, <2>1 DEF D!OtherTab, Wrote
  <1>6. CASE D!Clear \/ D!RemoveProfile
    <2>1. Wiped
      BY <1>6 DEF D!Clear, D!RemoveProfile, D!ClearActiveMessageCache, D!ClearCache,
         D!ClearMobileCache, Wiped
    <2> QED  BY <2>1
  <1>7. CASE D!WriteDone
    <2>1. pending \in Seq(CacheEntry)  BY DEF CacheTypes
    <2>2. pending # <<>> /\ indexed' = Head(pending) /\ pending' = Tail(pending) /\ UNCHANGED <<stored, clock>>
      BY <1>7 DEF D!WriteDone
    <2>3. Head(pending) = pending[1]  BY <2>1, <2>2, FirstDone
    <2> QED  BY <2>2, <2>3 DEF OneDone
  <1>8. CASE D!Crash
    BY <1>8 DEF D!Crash, Lost
  <1> QED
    BY <1>2, <1>3, <1>4, <1>5, <1>6, <1>7, <1>8 DEF D!Next

LEMMA TimesStep == CacheTypes /\ SessionFits /\ TimesFit /\ [D!Next]_(D!vars) => TimesFit'
  <1> SUFFICES ASSUME CacheTypes, SessionFits, TimesFit, [D!Next]_(D!vars), machine' = "desktop"
               PROVE  /\ stored'.at = 0 => stored' = D!Nothing
                      /\ stored'.at <= clock' /\ indexed'.at <= clock'
                      /\ \A n \in 1..Len(pending') : pending'[n].at <= clock'
                      /\ stored'.at # 0 /\ indexed'.at >= stored'.at => indexed' = stored'
                      /\ stored'.at # 0 =>
                             \A n \in 1..Len(pending') : pending'[n].at >= stored'.at => pending'[n] = stored'
    BY DEF TimesFit, Pending, D!Nothing
  <1>1. machine = "desktop"
    BY DEF D!Next, D!app, D!vars, D!Start, D!LoadIndexed, D!ReadIndexed, D!SyncRead, D!SyncApply,
       D!Commit,
       D!PersistTimer,
           D!WriteDone, D!PageHide, D!Crash, D!Ends, D!OtherTab, D!Clear, D!RemoveProfile, D!ExpireSession,
           D!SignIn, D!SwitchProfiles
  <1>2. /\ stored \in CacheEntry /\ indexed \in CacheEntry /\ pending \in Seq(CacheEntry) /\ clock \in Nat
        /\ Len(pending) \in Nat
    BY <1>1 DEF CacheTypes
  <1>3. \A n \in Pending : pending[n] \in CacheEntry  BY <1>2 DEF Pending
  <1>4. \A r \in CacheEntry : r.at \in Nat  BY DEF CacheEntry
  <1>5. /\ stored.at = 0 => stored = D!Nothing
        /\ stored.at <= clock /\ indexed.at <= clock
        /\ \A n \in Pending : pending[n].at <= clock
        /\ stored.at # 0 /\ indexed.at >= stored.at => indexed = stored
        /\ stored.at # 0 => \A n \in Pending : pending[n].at >= stored.at => pending[n] = stored
    BY <1>1 DEF TimesFit
  <1>6. CASE UNCHANGED D!disk
    BY <1>5, <1>6 DEF D!disk, Pending
  <1>7. CASE Wrote
    <2>1. /\ clock' = clock + 1 /\ indexed' = indexed /\ stored' \in CacheEntry
          /\ pending' = Append(pending, stored')
          /\ limit = 0 => stored' = D!Nothing
          /\ limit # 0 => stored'.at = clock + 1
      BY <1>1, <1>7, WriteIs DEF Wrote
    <2>2. Len(pending') = Len(pending) + 1 /\ pending'[Len(pending) + 1] = stored'
          /\ \A n \in Pending : pending'[n] = pending[n]
      BY <1>2, <2>1, AppendProperties DEF Pending
    <2>3. ASSUME NEW n \in 1..Len(pending')
          PROVE  pending'[n] = stored' \/ (pending'[n] = pending[n] /\ n \in Pending)
      BY <1>2, <2>2 DEF Pending
    <2>4. (stored'.at = 0 /\ stored' = D!Nothing) \/ stored'.at = clock + 1
      BY <2>1, NothingType
    <2>5. indexed.at \in Nat /\ \A n \in Pending : pending[n].at \in Nat /\ pending[n].at <= clock
      BY <1>2, <1>3, <1>4, <1>5
    <2>6. clock' = clock + 1 /\ clock \in Nat /\ indexed.at <= clock  BY <1>2, <1>5, <2>1
    <2>7. /\ stored'.at = 0 => stored' = D!Nothing
          /\ stored'.at <= clock' /\ indexed.at <= clock'
          /\ stored'.at # 0 => ~(indexed.at >= stored'.at)
      BY <2>4, <2>5, <2>6
    <2>8. ASSUME NEW n \in 1..Len(pending')
          PROVE  /\ pending'[n].at <= clock'
                 /\ stored'.at # 0 /\ pending'[n].at >= stored'.at => pending'[n] = stored'
      <3>1. CASE pending'[n] = stored'  BY <2>7, <3>1
      <3>2. CASE pending'[n] = pending[n] /\ n \in Pending
        <4>1. pending[n].at \in Nat /\ pending[n].at <= clock  BY <2>5, <3>2
        <4>2. pending'[n].at = pending[n].at  BY <3>2
        <4> QED  BY <2>4, <2>6, <4>1, <4>2
      <3> QED  BY <2>3, <3>1, <3>2
    <2> QED  BY <2>1, <2>7, <2>8
  <1>8. CASE Wiped
    <2>1. /\ Len(pending') = Len(pending) + 1 /\ pending'[Len(pending) + 1] = D!Nothing
          /\ \A n \in Pending : pending'[n] = pending[n]
      BY <1>2, <1>8, NothingType, AppendProperties DEF Wiped, Pending
    <2>2. ASSUME NEW n \in 1..Len(pending') PROVE pending'[n].at <= clock
      <3>1. pending'[n] = D!Nothing \/ (pending'[n] = pending[n] /\ n \in Pending)
        BY <1>2, <2>1 DEF Pending
      <3> QED  BY <1>2, <1>5, <3>1, NothingType
    <2> QED  BY <1>2, <1>5, <1>8, <2>2, NothingType DEF Wiped
  <1>9. CASE OneDone
    <2>1. /\ 1 \in Pending /\ Len(pending') = Len(pending) - 1
          /\ \A n \in 1..Len(pending') : n + 1 \in Pending /\ pending'[n] = pending[n + 1]
      BY <1>2, <1>9, FirstDone DEF OneDone, Pending
    <2> QED  BY <1>5, <1>9, <2>1 DEF OneDone
  <1>10. CASE Lost
    BY <1>5, <1>10 DEF Lost
  <1> QED  BY <1>1, <1>6, <1>7, <1>8, <1>9, <1>10, DesktopDisk

(* An answer that has replaced the memory has done so for good.            *)
LEMMA NotOvertaken ==
    ASSUME [D!Next]_(D!vars), ~overtaken'
    PROVE  ~overtaken /\ (D!LoadIndexed => D!Answer = D!Nothing \/ ~stale)
  <1> USE DEF D!app, D!memory, D!session, D!disk, D!flags, D!history
  <1>1. CASE D!LoadIndexed
    BY <1>1 DEF D!LoadIndexed
  <1>2. CASE \E k \in 1..last : D!OtherTab(k)
    <2>1. overtaken' = overtaken  BY <1>2 DEF D!OtherTab
    <2> QED  BY <1>1, <2>1
  <1>3. CASE \/ D!Start \/ D!ReadIndexed \/ D!SyncRead \/ D!Commit \/ D!PersistTimer \/ D!WriteDone
             \/ D!PageHide \/ D!ExpireSession \/ D!SignIn \/ D!SwitchProfiles \/ UNCHANGED D!vars
             \/ D!SyncApply \/ D!Crash \/ D!Clear \/ D!RemoveProfile
    <2>1. overtaken' = overtaken
      BY <1>3 DEF D!Start, D!ReadIndexed, D!SyncRead, D!Commit, D!PersistTimer, D!WriteDone,
         D!PageHide, D!Ends, D!ExpireSession, D!SignIn, D!SwitchProfiles, D!vars, D!SyncApply, D!Crash,
         D!Clear, D!RemoveProfile
    <2> QED  BY <1>1, <2>1
  <1> QED  BY <1>1, <1>2, <1>3 DEF D!Next

(* ClearedIsGone, step by step: what is in memory, in the copies of the    *)
(* desktop client, under the keys of the mobile one.                       *)
LEMMA GoneBefore ==
    ASSUME CacheTypes, [D!Next]_(D!vars), gone', ~(D!Clear \/ D!RemoveProfile)
    PROVE  gone
  <1> USE DEF D!app, D!memory, D!session, D!disk, D!flags, D!history
  <1>1. CASE \E k \in 1..last : D!OtherTab(k)
    BY <1>1 DEF D!OtherTab
  <1>2. CASE D!SyncApply \/ D!Crash
    BY <1>2 DEF D!SyncApply, D!Crash
  <1>3. CASE \/ D!Start \/ D!ReadIndexed \/ D!LoadIndexed \/ D!SyncRead \/ D!Commit \/ D!PersistTimer \/ D!WriteDone
             \/ D!PageHide \/ D!ExpireSession \/ D!SignIn \/ D!SwitchProfiles \/ UNCHANGED D!vars
    BY <1>3 DEF D!Start, D!LoadIndexed, D!ReadIndexed, D!SyncRead, D!Commit, D!PersistTimer,
       D!WriteDone,
                D!PageHide, D!ExpireSession, D!SignIn, D!SwitchProfiles, D!vars
  <1> QED  BY <1>1, <1>2, <1>3 DEF D!Next

LEMMA RecentNotEmpty ==
    ASSUME CacheTypes, NEW a \in 0..last, NEW b \in 0..last, D!Kept((a + 1)..b) = {}
    PROVE  b <= a
  <1>1. last \in Nat /\ MemoryLimit \in Nat \ {0}
    BY MessengerAssumption DEF D!CacheAssumption, CacheTypes
  <1> SUFFICES ASSUME b > a PROVE FALSE
    BY <1>1
  <1> DEFINE X == (a + 1)..b
  <1>2. b \in X /\ Newer(X, b) = {}  BY <1>1 DEF Newer
  <1>3. Cardinality(Newer(X, b)) < MemoryLimit  BY <1>1, <1>2, FS_EmptySet
  <1>4. b \in D!Recent(X, MemoryLimit)  BY <1>2, <1>3, RecentIs
  <1> QED  BY <1>2, <1>4 DEF D!Kept

LEMMA GoneMemoryStep ==
    ASSUME GoneInv, [D!Next]_(D!vars), gone', ~overtaken'
    PROVE  held' = {} /\ through' = 0
  <1> USE DEF D!app, D!memory, D!session, D!disk, D!flags, D!history
  <1>1. CASE D!Clear \/ D!RemoveProfile
    BY <1>1 DEF D!Clear, D!RemoveProfile, D!Emptied
  <1>2. CASE ~(D!Clear \/ D!RemoveProfile)
    <2>1. CacheTypes /\ gone /\ held = {} /\ through = 0 /\ EmptyCopies /\ EmptyKeys
      BY <1>2, GoneBefore, NotOvertaken DEF GoneInv
    <2>2. /\ D!Recent({}, limit) = {}
          /\ machine = "desktop" => D!ReadCache.messages = {} /\ D!ReadCache.cursor = 0
      <3>1. CASE machine = "desktop"
        <4>1. stored.messages = {} /\ stored.cursor = 0 /\ stored \in CacheEntry
          BY <2>1, <3>1 DEF EmptyCopies, Empty, CacheTypes
        <4>2. D!ParseCache(stored).messages = {} /\ D!ParseCache(stored).cursor = 0
          BY <2>1, <4>1, ParseIs, RecentOfNone
        <4> QED  BY <2>1, <4>2, ReadIs, NothingType, RecentOfNone
      <3> QED  BY <3>1, RecentOfNone
    <2>3. CASE D!Start
      <3>1. CASE machine = "desktop"
        BY <2>2, <2>3, <3>1 DEF D!Start, D!StartDesktop, D!StartMobile
      <3>2. CASE machine = "mobile"
        <4>1. pending = <<>>  BY <2>3, <3>2 DEF D!Start, GoneInv, SessionFits
        <4>2. stored.messages = {} /\ stored.cursor = 0
          BY <2>1, <3>2, <4>1, EmptySeq DEF EmptyKeys, Empty
        <4> QED  BY <2>2, <2>3, <3>2, <4>2 DEF D!Start, D!StartDesktop, D!StartMobile
      <3> QED  BY <2>1, <3>1, <3>2 DEF CacheTypes
    <2>4. CASE D!LoadIndexed
      <3>1. machine = "desktop" /\ loading
          BY <2>1, <2>4 DEF D!LoadIndexed, GoneInv, SessionFits, CacheTypes
      <3>2. D!Answer = D!Nothing \/ D!Answer.messages = {}
        <4>1. CASE D!Answer = D!ParseCache(local) /\ ~stale
          <5>1. local \in CacheEntry /\ local.messages = {}
            BY <2>1, <3>1, <4>1 DEF EmptyCopies, Empty, CacheTypes
          <5> QED  BY <2>1, <2>2, <4>1, <5>1, ParseIs
        <4> QED  BY <2>1, <2>4, <4>1, AnswerIs, NotOvertaken
      <3> QED  BY <2>1, <2>4, <3>2 DEF D!LoadIndexed
    <2>5. CASE D!SyncApply
      <3>1. /\ request[1] \in 0..last /\ request[2] \in 0..last /\ request[1] <= since /\ since \in 0..last
        BY <2>1, <2>5 DEF D!SyncApply, CacheTypes, GoneInv, SessionFits
      <3>2. held' = D!Kept(held \cup (request[1] + 1)..request[2]) /\ held' = {}
        BY <2>5 DEF D!SyncApply
      <3>3. held \cup (request[1] + 1)..request[2] = (request[1] + 1)..request[2]  BY <2>1
      <3>4. request[2] <= request[1]  BY <2>1, <3>1, <3>2, <3>3, RecentNotEmpty
      <3>5. ~(request[2] > since) /\ last \in Nat  BY <2>1, <3>1, <3>4 DEF CacheTypes
      <3> QED  BY <2>1, <2>5, <3>2, <3>5 DEF D!SyncApply, D!NextCursor
    <2>6. CASE D!PageHide \/ D!Crash
      BY <2>6 DEF D!PageHide, D!Crash, D!Ends
    <2>7. ASSUME NEW k \in 1..last, D!OtherTab(k) PROVE FALSE
      BY <2>7 DEF D!OtherTab
    <2>8. CASE D!SignIn
      BY <2>1, <2>2, <2>8 DEF D!SignIn
    <2>9. CASE \/ D!SyncRead \/ D!Commit \/ D!PersistTimer \/ D!WriteDone \/ D!ExpireSession
               \/ D!SwitchProfiles \/ D!ReadIndexed \/ UNCHANGED D!vars
      BY <2>1, <2>9 DEF D!SyncRead, D!ReadIndexed, D!Commit, D!PersistTimer, D!WriteDone,
         D!ExpireSession,
                        D!SwitchProfiles, D!vars
    <2> QED  BY <1>2, <2>3, <2>4, <2>5, <2>6, <2>7, <2>8, <2>9 DEF D!Next
  <1> QED  BY <1>1, <1>2

LEMMA GoneKeysStep ==
    ASSUME GoneInv, [D!Next]_(D!vars), gone', ~overtaken'
    PROVE  EmptyKeys'
  <1> USE DEF D!app, D!memory, D!session, D!disk, D!flags, D!history
  <1> SUFFICES ASSUME machine' = "mobile" PROVE EmptyKeys'
    BY DEF EmptyKeys
  <1>1. machine = "mobile" /\ CacheTypes
    BY DEF D!Next, D!vars, D!Start, D!LoadIndexed, D!ReadIndexed, D!SyncRead, D!SyncApply, D!Commit,
       D!PersistTimer,
           D!WriteDone, D!PageHide, D!Crash, D!Ends, D!OtherTab, D!Clear, D!RemoveProfile, D!ExpireSession,
           D!SignIn, D!SwitchProfiles, GoneInv
  <1>2. /\ pending \in Seq(Piece) /\ Len(pending) \in Nat /\ stored \in CacheEntry
        /\ {} \in SUBSET (1..last) /\ 0 \in 0..last /\ machine # "desktop"
    BY <1>1 DEF CacheTypes
  <1>3. ASSUME pending' = pending \o D!Writes({}, 0) PROVE EmptyKeys'
    <2>1. /\ Len(pending') = Len(pending) + 2
          /\ pending'[Len(pending) + 1] = <<"messages", D!Recent({}, limit)>>
          /\ pending'[Len(pending) + 2] = <<"cursor", 0>>
      BY <1>1, <1>2, <1>3, PiecesAdded
    <2>2. /\ Len(pending') # 0 /\ Len(pending') # 1 /\ Len(pending') - 1 = Len(pending) + 1
      BY <1>2, <2>1
    <2> QED  BY <2>1, <2>2, RecentOfNone DEF EmptyKeys
  <1>4. CASE D!Clear \/ D!RemoveProfile
    BY <1>2, <1>3, <1>1, <1>4 DEF D!Clear, D!RemoveProfile, D!ClearActiveMessageCache,
       D!ClearMobileCache
  <1>5. CASE D!SyncApply
    <2>1. held' = {} /\ through' = 0  BY GoneMemoryStep
    <2> QED  BY <1>1, <1>3, <1>5, <2>1 DEF D!SyncApply, D!Effects
  <1>6. CASE ~(D!Clear \/ D!RemoveProfile \/ D!SyncApply)
    <2>1. EmptyKeys  BY <1>1, <1>6, GoneBefore, NotOvertaken DEF GoneInv
    <2>2. CASE UNCHANGED <<pending, stored>>
      BY <1>1, <2>1, <2>2 DEF EmptyKeys, Empty
    <2>3. CASE D!WriteDone
      <3>1. /\ pending # <<>> /\ pending' = Tail(pending) /\ Len(pending) \in Nat \ {0}
            /\ Len(pending') = Len(pending) - 1
            /\ \A n \in 1..Len(pending) - 1 : pending'[n] = pending[n + 1]
            /\ stored' = IF pending[1][1] = "messages" THEN [stored EXCEPT !.messages = pending[1][2]]
                         ELSE [stored EXCEPT !.cursor = pending[1][2]]
        BY <1>2, <2>3, FirstDone DEF D!WriteDone
      <3>2. CASE Len(pending) = 1
        <4>1. pending[1] = <<"cursor", 0>> /\ stored.messages = {}  BY <1>1, <2>1, <3>2 DEF EmptyKeys
        <4>2. stored' = [stored EXCEPT !.cursor = 0]  BY <3>1, <4>1
        <4>3. stored'.messages = {} /\ stored'.cursor = 0  BY <1>2, <4>1, <4>2 DEF CacheEntry
        <4>4. Len(pending') = 0  BY <3>1, <3>2
        <4> QED  BY <4>3, <4>4 DEF EmptyKeys, Empty
      <3>3. CASE Len(pending) = 2
        <4>1. pending[1] = <<"messages", {}>> /\ pending[2] = <<"cursor", 0>>
          BY <1>1, <2>1, <3>3 DEF EmptyKeys
        <4>2. stored' = [stored EXCEPT !.messages = {}]  BY <3>1, <4>1
        <4>3. stored'.messages = {}  BY <1>2, <4>2 DEF CacheEntry
        <4>4. Len(pending') = 1 /\ pending'[1] = <<"cursor", 0>>  BY <3>1, <3>3, <4>1
        <4> QED  BY <4>3, <4>4 DEF EmptyKeys
      <3>4. CASE Len(pending) > 2
        <4>1. /\ pending[Len(pending) - 1] = <<"messages", {}>>
              /\ pending[Len(pending)] = <<"cursor", 0>>
          BY <1>1, <1>2, <2>1, <3>4 DEF EmptyKeys
        <4>2. /\ pending'[Len(pending') - 1] = pending[Len(pending) - 1]
              /\ pending'[Len(pending')] = pending[Len(pending)]
              /\ Len(pending') # 0 /\ Len(pending') # 1
          BY <1>2, <3>1, <3>4
        <4> QED  BY <4>1, <4>2 DEF EmptyKeys
      <3> QED  BY <3>1, <3>2, <3>3, <3>4
    <2>4. CASE D!Crash
      <3>1. pending = <<>> /\ pending' = <<>> /\ UNCHANGED stored  BY <2>4 DEF D!Crash
      <3> QED  BY <2>2, <3>1
    <2>5. CASE \/ D!Start \/ D!ReadIndexed \/ D!LoadIndexed \/ D!SyncRead \/ D!Commit \/ D!ExpireSession \/ D!SignIn
               \/ UNCHANGED D!vars
      BY <2>2, <2>5 DEF D!Start, D!StartDesktop, D!StartMobile, D!LoadIndexed, D!ReadIndexed,
         D!SyncRead, D!Commit,
                        D!ExpireSession, D!SignIn, D!vars
    <2>6. CASE D!PersistTimer \/ D!PageHide \/ D!SwitchProfiles
      BY <1>1, <2>2, <2>6 DEF D!PersistTimer, D!PageHide, D!SwitchProfiles, GoneInv, SessionFits
    <2>7. ASSUME NEW k \in 1..last, D!OtherTab(k) PROVE FALSE
      BY <2>7 DEF D!OtherTab
    <2> QED  BY <1>6, <2>3, <2>4, <2>5, <2>6, <2>7 DEF D!Next
  <1> QED  BY <1>4, <1>5, <1>6

LEMMA GoneCopiesStep ==
    ASSUME GoneInv, TimesFit', [D!Next]_(D!vars), gone', ~overtaken'
    PROVE  EmptyCopies'
  <1> USE DEF D!app, D!memory, D!session, D!disk, D!flags, D!history
  <1> DEFINE Last == IF pending = <<>> THEN Empty(indexed) ELSE Empty(pending[Len(pending)])
             Older == /\ Empty(local)
                      /\ indexed.at >= local.at => Empty(indexed)
                      /\ \A n \in Pending : pending[n].at >= local.at => Empty(pending[n])
  <1> SUFFICES ASSUME machine' = "desktop"
               PROVE  Empty(stored') /\ Last' /\ (loading' /\ ~stale' => Older')
    BY DEF EmptyCopies, Empty, Pending
  <1>1. machine = "desktop" /\ CacheTypes /\ SessionFits /\ TimesFit
    BY DEF D!Next, D!vars, D!Start, D!LoadIndexed, D!ReadIndexed, D!SyncRead, D!SyncApply, D!Commit,
       D!PersistTimer,
           D!WriteDone, D!PageHide, D!Crash, D!Ends, D!OtherTab, D!Clear, D!RemoveProfile, D!ExpireSession,
           D!SignIn, D!SwitchProfiles, GoneInv
  <1>2. /\ pending \in Seq(CacheEntry) /\ Len(pending) \in Nat /\ stored \in CacheEntry /\ indexed \in CacheEntry
        /\ clock \in Nat /\ limit' = limit /\ limit \in Nat /\ local \in CacheEntry
        /\ \A r \in CacheEntry : r.at \in Nat
        /\ \A n \in Pending : pending[n] \in CacheEntry
    <2>1. limit' = limit
      BY DEF D!Next, D!vars, D!Start, D!LoadIndexed, D!ReadIndexed, D!SyncRead, D!SyncApply, D!Commit,
         D!PersistTimer,
           D!WriteDone, D!PageHide, D!Crash, D!Ends, D!OtherTab, D!Clear, D!RemoveProfile, D!ExpireSession,
           D!SignIn, D!SwitchProfiles
    <2>2. pending \in Seq(CacheEntry) /\ Len(pending) \in Nat  BY <1>1 DEF CacheTypes
    <2>3. \A n \in Pending : pending[n] \in CacheEntry  BY <2>2 DEF Pending
    <2> QED  BY <1>1, <2>1, <2>2, <2>3, CrowdIs DEF CacheTypes, CacheEntry
  <1>3. CASE D!Clear \/ D!RemoveProfile
    <2>1. stored' = D!Nothing /\ pending' = Append(pending, D!Nothing)
      BY <1>1, <1>3 DEF D!Clear, D!RemoveProfile, D!ClearActiveMessageCache, D!ClearCache,
         D!ClearMobileCache
    <2>2. D!Nothing \in CacheEntry /\ Empty(D!Nothing)  BY <1>1, NothingType DEF Empty
    <2>3. pending' # <<>> /\ pending'[Len(pending')] = D!Nothing
      BY <1>2, <2>1, <2>2, AppendProperties
    <2>4. ~(loading' /\ ~stale')
      <3>1. CASE D!RemoveProfile  BY <3>1 DEF D!RemoveProfile, D!EndsSession
      <3>2. CASE D!Clear  BY <3>2 DEF D!Clear, D!Meanwhile
      <3> QED  BY <1>3, <3>1, <3>2
    <2> QED  BY <2>1, <2>2, <2>3, <2>4
  <1>4. CASE ~(D!Clear \/ D!RemoveProfile)
    <2>1. /\ gone /\ held = {} /\ through = 0 /\ Empty(stored) /\ Last
          /\ loading /\ ~stale => Older
      BY <1>1, <1>4, GoneBefore, NotOvertaken DEF GoneInv, EmptyCopies
    <2>2. ASSUME UNCHANGED D!disk, loading' /\ ~stale' => loading /\ ~stale /\ local' = local
          PROVE  Empty(stored') /\ Last' /\ (loading' /\ ~stale' => Older')
      BY <1>2, <2>1, <2>2 DEF Pending, Empty
    (* A session begins with the copy in localStorage.                       *)
    <2>3. ASSUME local' = stored', Empty(stored'), Last', stored' = D!Nothing => pending' = <<>>
           PROVE  Older'
      <3>1. /\ stored'.at = 0 => stored' = D!Nothing
            /\ stored'.at # 0 /\ indexed'.at >= stored'.at => indexed' = stored'
            /\ stored'.at # 0 => \A n \in Pending' : pending'[n].at >= stored'.at => pending'[n] = stored'
        BY DEF TimesFit, D!Nothing
      <3>2. CASE stored' = D!Nothing
        <4>1. Pending' = {}
          <5>1. Len(pending') = 0  BY <2>3, <3>2, EmptySeq
          <5> QED  BY <5>1 DEF Pending
        <4>2. Empty(indexed')  BY <2>3, <3>2
        <4> QED  BY <2>3, <4>1, <4>2 DEF Pending, Empty
      <3>3. CASE stored' # D!Nothing
        <4>1. stored'.at # 0  BY <3>1, <3>3
        <4> QED  BY <2>3, <3>1, <4>1 DEF Pending, Empty
      <3> QED  BY <3>2, <3>3
    <2>4. ASSUME D!WriteCache({}, 0)
          PROVE  Empty(stored') /\ Last' /\ (Older /\ local' = local => Older')
      <3>1. {} \in SUBSET (1..last) /\ 0 \in 0..last  BY <1>1 DEF CacheTypes
      <3>2. /\ indexed' = indexed /\ stored' \in CacheEntry /\ pending' = Append(pending, stored')
            /\ limit = 0 => stored' = D!Nothing
            /\ limit # 0 => /\ stored'.messages = D!Recent({}, limit) /\ stored'.cursor = 0
                            /\ stored'.at = clock + 1
        BY <1>1, <2>4, <3>1, WriteIs
      <3>3. Empty(stored')  BY <1>1, <3>2, NothingType, RecentOfNone DEF Empty
      <3>4. /\ Len(pending') = Len(pending) + 1 /\ pending' # <<>> /\ pending'[Len(pending')] = stored'
            /\ \A n \in 1..Len(pending') : pending'[n] = stored' \/ (n \in Pending /\ pending'[n] = pending[n])
        BY <1>2, <3>2, AppendProperties DEF Pending
      <3>5. Last'  BY <3>3, <3>4
      <3>6. Older /\ local' = local => Older'
        BY <3>2, <3>3, <3>4 DEF Pending, Empty
      <3> QED  BY <3>3, <3>5, <3>6
    <2>5. ASSUME NEW X, NEW c \in 0..last, D!StartsSession(X, c), Empty(stored'), Last'
           PROVE  loading' /\ ~stale' => Older'
      <3>1. /\ local' = (IF loading' THEN stored' ELSE D!Nothing)
            /\ stale' = (loading' /\ stored' = D!Nothing /\ pending' # <<>>)
        BY <1>1, <2>5, SessionStarts
      <3>2. CASE loading' /\ ~stale'
        <4>1. local' = stored' /\ (stored' = D!Nothing => pending' = <<>>)  BY <3>1, <3>2
        <4> QED  BY <2>3, <2>5, <4>1
      <3> QED  BY <3>2
    <2>6. ASSUME UNCHANGED D!disk PROVE Empty(stored') /\ Last'
      BY <2>1, <2>6 DEF Empty
    <2>7. held' = {} /\ through' = 0 /\ ref \in 0..last /\ 0 \in 0..last
      BY <1>1, GoneMemoryStep DEF CacheTypes
    <2>8. CASE D!Start
      <3>1. UNCHANGED D!disk  BY <2>8 DEF D!Start, D!StartDesktop, D!StartMobile
      <3>2. CASE keepsSession
        <4>1. D!StartsSession(held', through')  BY <2>8, <3>2 DEF D!Start
        <4> QED  BY <2>5, <2>6, <2>7, <3>1, <4>1
      <3>3. CASE ~keepsSession
        <4>1. ~loading'  BY <2>8, <3>3 DEF D!Start, D!EndsSession
        <4> QED  BY <2>6, <3>1, <4>1
      <3> QED  BY <3>2, <3>3
    <2>9. CASE D!SignIn
      <3>1. UNCHANGED D!disk /\ D!StartsSession(held', through')  BY <1>1, <2>9 DEF D!SignIn
      <3> QED  BY <2>5, <2>6, <2>7, <3>1
    <2>10. CASE D!PersistTimer
      <3>1. UNCHANGED D!session  BY <2>10 DEF D!PersistTimer
      <3>2. CASE UNCHANGED D!disk  BY <2>2, <3>1, <3>2
      <3>3. CASE D!WriteCache(held, through)  BY <2>1, <2>4, <3>1, <3>3
      <3> QED  BY <2>10, <3>2, <3>3 DEF D!PersistTimer
    <2>11. CASE D!PageHide
      BY <2>1, <2>4, <2>11 DEF D!PageHide, D!Ends, D!EndsSession
    <2>12. CASE D!SwitchProfiles
      <3>1. D!WriteCache({}, 0) /\ D!StartsSession(held, ref)
        BY <1>1, <2>1, <2>12 DEF D!SwitchProfiles
      <3> QED  BY <2>4, <2>5, <2>7, <3>1
    <2>13. CASE D!WriteDone
      <3>1. /\ pending # <<>> /\ pending' = Tail(pending) /\ Len(pending) \in Nat \ {0}
            /\ Len(pending') = Len(pending) - 1 /\ pending' \in Seq(CacheEntry)
            /\ \A n \in 1..Len(pending) - 1 : pending'[n] = pending[n + 1] /\ n + 1 \in Pending
            /\ indexed' = pending[1] /\ 1 \in Pending /\ UNCHANGED stored
            /\ UNCHANGED <<loading, local, stale>>
        BY <1>1, <1>2, <2>13, FirstDone DEF D!WriteDone, Pending
      <3>2. Last'
        <4>1. Empty(pending[Len(pending)])  BY <2>1, <3>1
        <4>2. CASE Len(pending) = 1
          <5>1. pending' = <<>>  BY <3>1, <4>2, EmptySeq
          <5> QED  BY <3>1, <4>1, <4>2, <5>1
        <4>3. CASE Len(pending) > 1
          <5>1. Len(pending') # 0 /\ Len(pending') \in 1..Len(pending) - 1 /\ Len(pending') + 1 = Len(pending)
            BY <3>1, <4>3
          <5>2. pending' # <<>>  BY <5>1, EmptySeq
          <5>3. pending'[Len(pending')] = pending[Len(pending)]  BY <3>1, <5>1
          <5> QED  BY <4>1, <5>2, <5>3
        <4> QED  BY <3>1, <4>2, <4>3
      <3>3. Older => Older'  BY <3>1 DEF Pending, Empty
      <3> QED  BY <1>2, <2>1, <3>1, <3>2, <3>3
    <2>14. CASE D!Crash
      <3>1. pending = <<>> /\ pending' = <<>> /\ UNCHANGED <<stored, indexed>> /\ ~loading'
        BY <2>14 DEF D!Crash, D!Ends, D!EndsSession
      <3> QED  BY <2>1, <3>1
    <2>15. ASSUME NEW k \in 1..last, D!OtherTab(k) PROVE FALSE
      BY <2>15 DEF D!OtherTab
    <2>16. CASE D!SyncApply
      <3>1. UNCHANGED D!disk  BY <1>1, <2>16 DEF D!SyncApply, D!Effects
      <3>2. loading' /\ ~stale' => loading /\ ~stale /\ local' = local
        BY <2>16 DEF D!SyncApply, D!Meanwhile
      <3> QED  BY <2>2, <3>1, <3>2
    <2>17. CASE D!LoadIndexed \/ D!ExpireSession
      <3>1. UNCHANGED D!disk /\ loading' = FALSE
        BY <2>17 DEF D!LoadIndexed, D!ExpireSession, D!EndsSession
      <3> QED  BY <2>6, <3>1
    <2>18. CASE D!SyncRead \/ D!Commit \/ UNCHANGED D!vars
      <3>1. UNCHANGED D!disk /\ UNCHANGED <<loading, local, stale>>
        BY <2>18 DEF D!SyncRead, D!Commit, D!vars
      <3> QED  BY <2>2, <3>1
    <2>19. CASE D!ReadIndexed
      <3>1. UNCHANGED <<D!disk, loading, stale>> /\ local' = indexed /\ loading /\ indexed.at >= local.at
        BY <2>19 DEF D!ReadIndexed
      <3>2. local.at \in Nat /\ indexed.at \in Nat /\ \A n \in Pending : pending[n].at \in Nat
          BY <1>2
      <3>3. ~stale => Older'
        BY <2>1, <3>1, <3>2 DEF Pending, Empty
      <3> QED  BY <2>6, <3>1, <3>3
    <2> QED
      BY <1>4, <2>8, <2>9, <2>10, <2>11, <2>13, <2>14, <2>15, <2>16, <2>17, <2>18, <2>12, <2>19
         DEF D!Next
  <1> QED  BY <1>3, <1>4

LEMMA CacheInit == D!Init => CacheTypes /\ SessionFits /\ TimesFit /\ held = {} /\ through = 0
  <1> SUFFICES ASSUME D!Init PROVE CacheTypes /\ SessionFits /\ TimesFit /\ held = {} /\ through = 0
    OBVIOUS
  <1>1. CacheTypes
    <2>1. machine \in {"desktop", "mobile"} /\ limit \in Limits
      BY MessengerAssumption DEF D!Init, Platforms, D!CacheAssumption
    <2>2. D!Nothing \in CacheEntry  BY DEF D!Init, D!Nothing, CacheEntry
    <2> QED  BY <2>1, <2>2 DEF D!Init, CacheTypes
  <1> QED  BY <1>1 DEF D!Init, SessionFits, TimesFit, D!Nothing, Pending

(* ClearedIsGone (clearActiveMessageCache, clearMessageCache): for any     *)
(* limits and any number of runs, writes and messages, with crashes before *)
(* and after and however late IndexedDB answers, nothing of what was       *)
(* cleared or removed is shown again, unless an answer of IndexedDB takes  *)
(* the place of a memory that has changed since it was read, or is read    *)
(* before a deletion that was queued (overtaken).                          *)
THEOREM ClearedStaysGone == Spec => []ClearedIsGone
  <1>1. Init => GoneInv
    <2>1. ASSUME Init PROVE GoneInv
      <3>1. D!Init  BY <2>1 DEF Init
      <3>2. ~gone  BY <3>1 DEF D!Init
      <3> QED  BY <3>1, <3>2, CacheInit DEF GoneInv
    <2> QED  BY <2>1
  <1>2. [Next]_vars => [D!Next]_(D!vars)
    BY DEF Next, vars, cache, D!vars, D!app, D!memory, D!session, D!flags, D!disk, D!history
  <1>3. GoneInv /\ [Next]_vars => GoneInv'
    <2>1. ASSUME GoneInv, [D!Next]_(D!vars) PROVE GoneInv'
      <3>1. CacheTypes' /\ SessionFits' /\ TimesFit'
        BY <2>1, CacheTypesStep, SessionStep, TimesStep DEF GoneInv
      <3>2. gone' /\ ~overtaken' => held' = {} /\ through' = 0 /\ EmptyCopies' /\ EmptyKeys'
        BY <2>1, <3>1, GoneMemoryStep, GoneCopiesStep, GoneKeysStep
      <3> QED  BY <3>1, <3>2 DEF GoneInv
    <2> QED  BY <1>2, <2>1
  <1>4. GoneInv => ClearedIsGone
    BY DEF GoneInv, ClearedIsGone, D!ClearedIsGone
  <1> QED  BY <1>1, <1>3, <1>4, PTL DEF Spec

(* Everything the clients keep is of its type.                             *)
CacheSwitches ==
    /\ running \in BOOLEAN /\ keepsSession \in BOOLEAN /\ loading \in BOOLEAN /\ dirty \in BOOLEAN
    /\ skip \in BOOLEAN /\ recovered \in BOOLEAN /\ cleared \in BOOLEAN /\ gone \in BOOLEAN
    /\ stale \in BOOLEAN /\ overtaken \in BOOLEAN
    /\ request # <<>> => request[1] <= request[2]

LEMMA SwitchesStep == CacheTypes /\ CacheSwitches /\ [D!Next]_(D!vars) => CacheSwitches'
  <1> SUFFICES ASSUME CacheTypes, CacheSwitches, [D!Next]_(D!vars) PROVE CacheSwitches'
    OBVIOUS
  <1> USE DEF CacheSwitches, D!app, D!memory, D!session, D!disk, D!flags, D!history
  <1>1. ASSUME NEW X, NEW c, D!StartsSession(X, c)
        PROVE  recovered' \in BOOLEAN /\ loading' \in BOOLEAN /\ stale' \in BOOLEAN /\ request' = <<>>
    BY <1>1 DEF D!StartsSession, D!Recovers
  <1>2. CASE D!Start
    BY <1>1, <1>2 DEF D!Start, D!EndsSession
  <1>3. CASE D!LoadIndexed  BY <1>3 DEF D!LoadIndexed
  <1>4. CASE D!SyncRead
    <2>1. request' = <<since', last>> /\ UNCHANGED <<running, keepsSession, loading, stale, dirty, skip, recovered, cleared, gone, overtaken>>
          /\ since' = D!Bigger(since, ref)
      BY <1>4 DEF D!SyncRead
    <2>2. since' <= last  BY <2>1 DEF D!Bigger, CacheTypes
    <2> QED  BY <2>1, <2>2
  <1>5. CASE D!SyncApply  BY <1>5 DEF D!SyncApply, D!Effects, D!Meanwhile
  <1>6. CASE D!Commit \/ D!WriteDone \/ D!ReadIndexed
    BY <1>6 DEF D!Commit, D!WriteDone, D!ReadIndexed
  <1>7. CASE D!PersistTimer  BY <1>7 DEF D!PersistTimer
  <1>8. CASE D!PageHide \/ D!Crash  BY <1>8 DEF D!PageHide, D!Crash, D!Ends, D!EndsSession
  <1>9. CASE \E k \in 1..last : D!OtherTab(k)  BY <1>9 DEF D!OtherTab, D!Meanwhile
  <1>10. CASE D!Clear
      BY <1>10 DEF D!Clear, D!ClearActiveMessageCache, D!ClearMobileCache, D!Emptied, D!Meanwhile
  <1>11. CASE D!RemoveProfile  BY <1>11 DEF D!RemoveProfile, D!Emptied, D!EndsSession
  <1>12. CASE D!ExpireSession  BY <1>12 DEF D!ExpireSession, D!EndsSession
  <1>13. CASE D!SignIn  BY <1>1, <1>13 DEF D!SignIn
  <1>14. CASE D!SwitchProfiles  BY <1>1, <1>14 DEF D!SwitchProfiles
  <1>15. CASE UNCHANGED D!vars  BY <1>15 DEF D!vars
  <1> QED  BY <1>2, <1>3, <1>4, <1>5, <1>6, <1>7, <1>8, <1>9, <1>10, <1>11, <1>12, <1>13, <1>14,
              <1>15 DEF D!Next

(* TypeOK of ClientCache, however late IndexedDB answers: no cursor, of    *)
(* the memory, of the session or of a store, runs ahead of the account,    *)
(* and no copy holds a message the account does not have.                  *)
THEOREM CacheTypeCorrect == Spec => []D!TypeOK
  <1> DEFINE Inv == CacheTypes /\ SessionFits /\ CacheSwitches
  <1>1. Init => Inv
    <2>1. ASSUME Init PROVE Inv
      <3>1. D!Init  BY <2>1 DEF Init
      <3>2. CacheSwitches  BY <3>1 DEF D!Init, CacheSwitches
      <3> QED  BY <3>1, <3>2, CacheInit
    <2> QED  BY <2>1
  <1>2. [Next]_vars => [D!Next]_(D!vars)
    BY DEF Next, vars, cache, D!vars, D!app, D!memory, D!session, D!flags, D!disk, D!history
  <1>3. Inv /\ [Next]_vars => Inv'
    BY <1>2, CacheTypesStep, SessionStep, SwitchesStep
  <1>4. Inv => D!TypeOK
    BY DEF CacheTypes, CacheSwitches, CacheEntry, D!TypeOK
  <1> QED  BY <1>1, <1>3, <1>4, PTL DEF Spec

-------------------------------------------------------------------------------
(* KeepsWhatItHasSeen, in the same way.                                    *)
LEMMA NotCleared ==
    ASSUME [D!Next]_(D!vars), ~cleared' PROVE ~cleared /\ ~D!Clear
  <1> USE DEF D!app, D!memory, D!session, D!disk, D!flags, D!history
  <1>1. ~D!Clear  BY DEF D!Clear
  <1>2. CASE \E k \in 1..last : D!OtherTab(k)
    BY <1>1, <1>2 DEF D!OtherTab
  <1>3. CASE \/ D!Start \/ D!ReadIndexed \/ D!LoadIndexed \/ D!SyncRead \/ D!Commit \/ D!PersistTimer \/ D!WriteDone
             \/ D!PageHide \/ D!ExpireSession \/ D!SignIn \/ D!SwitchProfiles \/ UNCHANGED D!vars
             \/ D!SyncApply \/ D!Crash \/ D!RemoveProfile
    BY <1>1, <1>3 DEF D!Start, D!LoadIndexed, D!ReadIndexed, D!SyncRead, D!Commit, D!PersistTimer,
       D!WriteDone,
       D!PageHide,
                D!Ends, D!ExpireSession, D!SignIn, D!SwitchProfiles, D!vars, D!SyncApply, D!Crash,
                D!RemoveProfile
  <1> QED  BY <1>1, <1>2, <1>3 DEF D!Next
LEMMA SamePlatform == [D!Next]_(D!vars) => machine' = machine /\ limit' = limit
  BY DEF D!Next, D!app, D!vars, D!Start, D!LoadIndexed, D!ReadIndexed, D!SyncRead, D!SyncApply,
     D!Commit,
     D!PersistTimer,
         D!WriteDone, D!PageHide, D!Crash, D!Ends, D!OtherTab, D!Clear, D!RemoveProfile, D!ExpireSession,
         D!SignIn, D!SwitchProfiles

(* What is written under the limits covers what memory does.               *)
LEMMA LimitedCovers ==
    ASSUME CacheTypes, limit # 0, NEW X \in SUBSET (1..last), NEW c \in 0..last, Covers(X, c)
    PROVE  Covers(D!Recent(X, limit), c)
  <1>1. limit \in Nat /\ D!Crowd = limit /\ last \in Nat /\ c \in Nat  BY CrowdIs DEF CacheTypes
  <1> QED  BY <1>1, NewestCover
LEMMA LimitedEmptyOrCovers ==
    ASSUME CacheTypes, NEW X \in SUBSET (1..last), NEW c \in 0..last, EmptyOrCovers(X, c)
    PROVE  EmptyOrCovers(D!Recent(X, limit), c)
  <1>1. CASE limit = 0
    <2>1. \A m \in X : ~(Cardinality(Newer(X, m)) < 0)
      <3>1. last \in Nat  BY DEF CacheTypes
      <3> QED  BY <3>1, FewNewer
    <2>2. D!Recent(X, limit) = {}  BY <1>1, <2>1, RecentIs
    <2> QED  BY <2>2 DEF EmptyOrCovers
  <1>2. CASE limit # 0
    BY <1>2, LimitedCovers, RecentOfNone DEF EmptyOrCovers
  <1> QED  BY <1>1, <1>2
LEMMA ParseCovers ==
    ASSUME CacheTypes, limit # 0, NEW r \in CacheEntry, NEW c \in 0..last, Covers(r.messages, c)
    PROVE  Covers(D!ParseCache(r).messages, c)
  <1>1. r.messages \in SUBSET (1..last)  BY DEF CacheEntry
  <1> QED  BY <1>1, LimitedCovers, ParseIs
LEMMA ReadCovers ==
    ASSUME CacheTypes, machine = "desktop", CopiesCover
    PROVE  /\ Covers(D!ReadCache.messages, D!ReadCache.cursor)
           /\ Covers(D!Answer.messages, D!Answer.cursor)
  <1>1. ASSUME NEW r \in CacheEntry, limit # 0, Covers(r.messages, r.cursor)
        PROVE  Covers(D!ParseCache(r).messages, D!ParseCache(r).cursor)
    <2>1. r.cursor \in 0..last  BY DEF CacheEntry
    <2>2. Covers(D!ParseCache(r).messages, r.cursor)  BY <1>1, <2>1, ParseCovers
    <2> QED  BY <2>2, ParseIs, NothingCovers
  <1>2. Covers(D!Nothing.messages, D!Nothing.cursor)  BY NothingType, NothingCovers
  <1>3. /\ stored \in CacheEntry /\ Covers(stored.messages, stored.cursor)
        /\ local \in CacheEntry /\ Covers(local.messages, local.cursor)
    BY DEF CacheTypes, CopiesCover
  <1>4. Covers(D!ReadCache.messages, D!ReadCache.cursor)  BY <1>1, <1>2, <1>3, ReadIs
  <1>5. Covers(D!Answer.messages, D!Answer.cursor)  BY <1>1, <1>2, <1>3, AnswerIs
  <1> QED  BY <1>4, <1>5

(* A session begins with what it has.                                      *)
LEMMA BeginsCovered ==
    ASSUME CacheTypes, NEW X, NEW c \in 0..last, D!StartsSession(X, c),
           Covers(X, c) \/ (machine = "mobile" /\ X = {} /\ ~recovered)
    PROVE  Covers(X, ref') /\ Covers(X, since')
  <1>1. ref' \in {0, c} /\ since' = ref'  BY SessionStarts
  <1>2. CASE Covers(X, c)  BY <1>1, <1>2, NothingCovers
  <1>3. CASE machine = "mobile" /\ X = {} /\ ~recovered
    <2>1. c > 0 => ref' = 0  BY <1>3, SessionStarts
    <2>2. ref' = 0  BY <1>1, <2>1 DEF CacheTypes
    <2> QED  BY <1>1, <2>2, NothingCovers
  <1> QED  BY <1>2, <1>3

(* An answer brings all it was asked for.                                  *)
LEMMA AnswerCovers ==
    ASSUME CacheTypes, NEW a \in 0..last, NEW b \in 0..last, Covers(held, a)
    PROVE  Covers(held \cup (a + 1)..b, b)
  <1> DEFINE Y == held \cup (a + 1)..b
  <1>1. last \in Nat /\ held \in SUBSET (1..last)  BY DEF CacheTypes
  <1>2. Y \in SUBSET (1..last)
    <2>1. \A x \in (a + 1)..b : x \in 1..last  BY <1>1
    <2> QED  BY <1>1, <2>1
  <1>3. Covers(Y, a)
    <2>1. held \in SUBSET Y /\ a \in Nat  BY <1>1
    <2> HIDE DEF Y
    <2> QED  BY <1>1, <1>2, <2>1, MoreCovers
  <1>4. ASSUME NEW e \in 1..b, e \notin 1..a PROVE e \in Y  BY <1>4
  <1> HIDE DEF Y
  <1>5. Covers(Y, b)  BY <1>3, <1>4 DEF Covers
  <1> QED  BY <1>5 DEF Y
LEMMA KeptCovers ==
    ASSUME CacheTypes, NEW X \in SUBSET (1..last), NEW c \in 0..last, Covers(X, c)
    PROVE  Covers(D!Kept(X), c)
  <1>1. last \in Nat /\ c \in Nat /\ MemoryLimit \in Nat /\ D!Crowd <= MemoryLimit
    BY CrowdIs DEF CacheTypes
  <1>2. Covers(D!Recent(X, MemoryLimit), c)  BY <1>1, NewestCover
  <1> QED  BY <1>2 DEF D!Kept

LEMMA MemoryStep ==
    ASSUME SeenInv, [D!Next]_(D!vars), ~cleared', ~overtaken'
    PROVE  MemoryCovers'
  <1> USE DEF D!app, D!memory, D!session, D!disk, D!flags, D!history
  <1> DEFINE Referred == Covers(held', ref')
             Reached == Covers(held', through') \/ (machine = "mobile" /\ held' = {})
  <1> SUFFICES /\ Covers(held', since')
               /\ Referred \/ (machine = "mobile" /\ held' = {} /\ ~keepsSession' /\ ~recovered')
               /\ Reached
    <2>1. machine' = machine /\ limit' = limit  BY SamePlatform
    <2>2. D!Crowd' = D!Crowd  BY <2>1 DEF D!Crowd
    <2> QED  BY <2>1, <2>2 DEF MemoryCovers, Covers, Newer
  <1>1. /\ CacheTypes /\ SessionFits /\ MemoryCovers /\ CopiesCover /\ KeysCover /\ TimesFit /\ ~D!Clear
        /\ machine \in {"desktop", "mobile"} /\ last \in Nat /\ held \in SUBSET (1..last)
        /\ through \in 0..last /\ ref \in 0..last /\ since \in 0..last /\ stored \in CacheEntry
    BY NotCleared, NotOvertaken DEF SeenInv, CacheTypes
  <1>2. /\ Covers(held, since)
        /\ Covers(held, through) \/ (machine = "mobile" /\ held = {})
        /\ keepsSession => Covers(held, ref)
        /\ Covers(held, ref) \/ (machine = "mobile" /\ held = {} /\ ~keepsSession /\ ~recovered)
    BY <1>1 DEF MemoryCovers
  <1>3. \A r \in CacheEntry : r.messages \in SUBSET (1..last) /\ r.cursor \in 0..last
    BY DEF CacheEntry
  <1>4. \A X : Covers(X, 0)  BY NothingCovers
  <1>5. D!EndsSession => since' = 0  BY DEF D!EndsSession
  <1>6. CASE D!Start
    <2>1. held' \in SUBSET (1..last) /\ through' \in 0..last /\ Reached
      <3>1. CASE machine = "desktop"
        <4>1. held' = D!ReadCache.messages /\ through' = D!ReadCache.cursor
          BY <1>6, <3>1 DEF D!Start, D!StartDesktop, D!StartMobile
        <4> QED  BY <1>1, <1>3, <3>1, <4>1, ReadIs, ReadCovers
      <3>2. CASE machine = "mobile"
        <4>1. held' = D!Recent(stored.messages, limit) /\ through' = stored.cursor
          BY <1>6, <3>2 DEF D!Start, D!StartDesktop, D!StartMobile
        <4>2. EmptyOrCovers(stored.messages, stored.cursor)  BY <1>1, <3>2 DEF KeysCover
        <4>3. stored.messages \in SUBSET (1..last) /\ stored.cursor \in 0..last  BY <1>1, <1>3
        <4>4. EmptyOrCovers(held', through')  BY <1>1, <4>1, <4>2, <4>3, LimitedEmptyOrCovers
        <4>5. held' \in SUBSET (1..last)  BY <1>1, <4>1, <4>3, RecentType
        <4> QED  BY <3>2, <4>1, <4>3, <4>4, <4>5 DEF EmptyOrCovers
      <3> QED  BY <1>1, <3>1, <3>2
    <2>2. ~recovered  BY <1>1, <1>6 DEF D!Start, SessionFits
    <2>3. CASE keepsSession
      <3>1. D!StartsSession(held', through')  BY <1>6, <2>3 DEF D!Start
      <3> QED  BY <1>1, <2>1, <2>2, <3>1, BeginsCovered
    <2>4. CASE ~keepsSession
      <3>1. since' = 0 /\ ref' = through' /\ ~keepsSession' /\ recovered' = recovered
        BY <1>5, <1>6, <2>4 DEF D!Start
      <3> QED  BY <1>4, <2>1, <2>2, <3>1
    <2> QED  BY <2>3, <2>4
  <1>7. CASE D!LoadIndexed
    <2>1. machine = "desktop" /\ loading /\ keepsSession  BY <1>1, <1>7 DEF D!LoadIndexed, SessionFits
    <2>2. CASE UNCHANGED <<held, through, ref, since>>
      BY <1>2, <2>1, <2>2
    <2>3. CASE D!Answer # D!Nothing /\ ~UNCHANGED <<held, through, ref, since>>
      <3>1. limit # 0 /\ limit \in Nat /\ D!Answer = D!ParseCache(local) /\ ~stale /\ local \in CacheEntry
        BY <1>1, <1>7, <2>3, AnswerIs, NotOvertaken, CrowdIs DEF CacheTypes
      <3>2. /\ held' = D!Answer.messages /\ through' = through
            /\ since' = D!Bigger(since, D!Answer.cursor) /\ ref' = D!Bigger(ref, since')
        BY <1>7, <2>3 DEF D!LoadIndexed
      <3>3. CoversAll(D!Answer.messages)
        <4>1. CASE StartsAtNothing  BY <1>4, <4>1 DEF StartsAtNothing, CoversAll
        <4>2. CASE AnswersAll
          <5>1. CoversAll(local.messages)  BY <4>2 DEF AnswersAll
          <5> QED  BY <1>1, <3>1, <5>1, ParseCovers DEF CoversAll
        <4> QED  BY <1>1, <2>1, <3>1, <4>1, <4>2 DEF CopiesCover
      <3>4. Covers(held', D!Answer.cursor)  BY <1>1, <2>1, <3>2, ReadCovers
      <3>5. since' \in {since, D!Answer.cursor} /\ ref' \in {ref, since'}  BY <3>2 DEF D!Bigger
      <3> QED  BY <3>2, <3>3, <3>4, <3>5 DEF CoversAll
    <2> QED  BY <1>7, <2>2, <2>3 DEF D!LoadIndexed
  <1>8. CASE D!SyncRead
    <2>1. /\ since' \in {since, ref} /\ keepsSession /\ UNCHANGED <<held, through, ref>>
      BY <1>8 DEF D!SyncRead, D!Bigger
    <2> QED  BY <1>2, <2>1
  <1>9. CASE D!SyncApply
    <2> DEFINE Y == held \cup (request[1] + 1)..request[2]
    <2>1. /\ keepsSession /\ held' = D!Kept(Y) /\ request # <<>>
          /\ \/ /\ request[2] > since /\ since' = request[2] /\ ref' = through'
                /\ through' = D!Bigger(through, request[2])
             \/ ~(request[2] > since) /\ UNCHANGED <<since, through, ref>>
      BY <1>9 DEF D!SyncApply, D!NextCursor
    <2>2. /\ request[1] \in 0..last /\ request[2] \in 0..last /\ request[1] <= since
          /\ machine = "mobile" => through <= request[2]
      BY <1>1, <2>1 DEF CacheTypes, SessionFits
    <2>3. Y \in SUBSET (1..last)
      <3>1. \A x \in (request[1] + 1)..request[2] : x \in 1..last  BY <1>1, <2>2
      <3> QED  BY <1>1, <3>1
    <2>4. Covers(held', request[2])
      <3>1. request[1] \in 0..since /\ since \in Nat  BY <1>1, <2>2
      <3>2. Covers(held, request[1])  BY <1>2, <3>1, FewerCovers
      <3>3. Covers(Y, request[2])  BY <1>1, <2>2, <3>2, AnswerCovers
      <3> QED  BY <1>1, <2>1, <2>2, <2>3, <3>3, KeptCovers
    <2>5. ASSUME NEW c \in 0..last, Covers(held, c) PROVE Covers(held', c)
      <3>1. held \in SUBSET Y /\ c \in Nat  BY <1>1
      <3> HIDE DEF Y
      <3>2. Covers(Y, c)  BY <1>1, <2>3, <2>5, <3>1, MoreCovers
      <3> QED  BY <1>1, <2>1, <2>3, <3>2, KeptCovers
    <2> HIDE DEF Y
    <2>6. Covers(held', since) /\ Covers(held', ref)  BY <1>1, <1>2, <2>1, <2>5
    <2>7. CASE request[2] > since
      <3>1. since' = request[2] /\ ref' = through' /\ through' = D!Bigger(through, request[2])
        BY <2>1, <2>7
      <3>2. Covers(held', through')
        <4>1. CASE machine = "mobile"
          <5>1. through' = request[2]  BY <1>1, <2>2, <3>1, <4>1 DEF D!Bigger
          <5> QED  BY <2>4, <5>1
        <4>2. CASE machine = "desktop"
          <5>1. Covers(held', through)  BY <1>1, <2>5, <4>2 DEF MemoryCovers
          <5>2. through' \in {through, request[2]}  BY <3>1 DEF D!Bigger
          <5> QED  BY <2>4, <5>1, <5>2
        <4> QED  BY <1>1, <4>1, <4>2
      <3> QED  BY <2>4, <3>1, <3>2
    <2>8. CASE ~(request[2] > since)
      <3>1. UNCHANGED <<since, through, ref>>  BY <2>1, <2>8
      <3>2. Covers(held', through)
        <4>1. CASE Covers(held, through)  BY <1>1, <2>5, <4>1
        <4>2. CASE machine = "mobile" /\ held = {}
          <5>1. since \in Nat /\ Covers({}, since)  BY <1>1, <1>2, <4>2
          <5>2. since = 0  BY <1>1, <5>1, EmptyCovers
          <5>3. through = 0  BY <1>1, <2>2, <2>8, <4>2, <5>2
          <5> QED  BY <1>4, <5>3
        <4> QED  BY <1>1, <4>1, <4>2 DEF MemoryCovers
      <3> QED  BY <2>6, <3>1, <3>2
    <2> QED  BY <2>7, <2>8
  <1>10. ASSUME NEW k \in 1..last, D!OtherTab(k)
         PROVE  Covers(held', since') /\ Referred /\ Reached
    <2>1. /\ machine = "desktop" /\ keepsSession /\ limit > 0 /\ D!WriteCache(1..k, k)
          /\ held' = held \cup stored'.messages /\ through' = D!Bigger(through, stored'.cursor)
          /\ ref' = (IF through' = through THEN ref ELSE through') /\ since' = since
      BY <1>10 DEF D!OtherTab
    <2>2. limit # 0 /\ limit \in Nat /\ 1..k \in SUBSET (1..last) /\ k \in 0..last
      BY <1>1, <2>1, CrowdIs
    <2>3. /\ stored'.messages = D!Recent(1..k, limit) /\ stored'.cursor \in {0, k}
      BY <1>1, <2>1, <2>2, WriteIs
    <2>4. Covers(1..k, k)  BY DEF Covers
    <2>5. stored'.messages \in SUBSET (1..last) /\ Covers(stored'.messages, k)
      BY <1>1, <2>2, <2>3, <2>4, LimitedCovers, RecentType
    <2>6. held' \in SUBSET (1..last) /\ held \in SUBSET held' /\ stored'.messages \in SUBSET held'
      BY <1>1, <2>1, <2>5
    <2>7. Covers(held', k) /\ Covers(held', 0)
      <3>1. k \in Nat  BY <1>1
      <3> QED  BY <1>1, <1>4, <2>5, <2>6, <3>1, MoreCovers
    <2>8. ASSUME NEW c \in 0..last, Covers(held, c) PROVE Covers(held', c)
      <3>1. c \in Nat  BY <1>1
      <3> QED  BY <1>1, <2>6, <2>8, <3>1, MoreCovers
    <2>9. Covers(held', since) /\ Covers(held', ref) /\ Covers(held', through)
      <3>1. Covers(held, since) /\ Covers(held, ref) /\ Covers(held, through)
        BY <1>1, <2>1 DEF MemoryCovers
      <3> QED  BY <1>1, <2>8, <3>1
    <2>10. through' \in {through, 0, k} /\ ref' \in {ref, through'}  BY <2>1, <2>3 DEF D!Bigger
    <2> QED  BY <2>1, <2>7, <2>9, <2>10
  <1>11. CASE D!PageHide \/ D!Crash
    <2>1. since' = 0 /\ ref' = 0 /\ through' = 0
      BY <1>5, <1>11 DEF D!PageHide, D!Crash, D!Ends
    <2> QED  BY <1>4, <2>1
  <1>12. CASE D!RemoveProfile
    <2>1. since' = 0 /\ ref' = 0 /\ through' = 0
      BY <1>5, <1>12 DEF D!RemoveProfile, D!Emptied
    <2> QED  BY <1>4, <2>1
  <1>13. CASE D!ExpireSession
    <2>1. since' = 0 /\ UNCHANGED <<held, through, ref>> /\ keepsSession
      BY <1>5, <1>13 DEF D!ExpireSession
    <2> QED  BY <1>2, <1>4, <2>1
  <1>14. CASE D!SignIn
    <2>1. CASE machine = "desktop"
      <3>1. held' = D!ReadCache.messages /\ through' = D!ReadCache.cursor /\ D!StartsSession(held', through')
        BY <1>14, <2>1 DEF D!SignIn
      <3>2. Covers(held', through') /\ through' \in 0..last
        BY <1>1, <1>3, <2>1, <3>1, ReadIs, ReadCovers
      <3> QED  BY <1>1, <3>1, <3>2, BeginsCovered
    <2>2. CASE machine = "mobile"
      <3>1. UNCHANGED <<held, through>> /\ D!StartsSession(held, ref)
        BY <1>14, <2>2 DEF D!SignIn
      <3> QED  BY <1>1, <1>2, <3>1, BeginsCovered
    <2> QED  BY <1>1, <2>1, <2>2
  <1>15. CASE D!SwitchProfiles
    <2>1. UNCHANGED <<held, through>> /\ D!StartsSession(held, ref) /\ keepsSession
      BY <1>15 DEF D!SwitchProfiles
    <2> QED  BY <1>1, <1>2, <2>1, BeginsCovered
  <1>16. CASE D!Commit \/ D!PersistTimer \/ D!WriteDone \/ D!ReadIndexed \/ UNCHANGED D!vars
    <2>1. UNCHANGED <<held, through, ref, since, keepsSession, recovered>>
      BY <1>16 DEF D!Commit, D!ReadIndexed, D!PersistTimer, D!WriteDone, D!vars
    <2> QED  BY <1>2, <2>1
  <1> QED
    BY <1>1, <1>6, <1>7, <1>8, <1>9, <1>10, <1>11, <1>12, <1>13, <1>14, <1>15, <1>16 DEF D!Next

(* What the session will hear of IndexedDB comes from one of the copies.    *)
LEMMA LocalCopyIs ==
    ASSUME CacheTypes, [D!Next]_(D!vars)
    PROVE  local' \in {local, stored', indexed, D!Nothing}
  <1> USE DEF D!app, D!memory, D!session, D!disk, D!flags, D!history
  <1>1. ASSUME NEW X, NEW c, D!StartsSession(X, c) PROVE local' \in {stored', D!Nothing}
    BY <1>1 DEF D!StartsSession
  <1>2. D!EndsSession => local' = D!Nothing  BY DEF D!EndsSession
  <1>3. CASE D!Start  BY <1>1, <1>2, <1>3 DEF D!Start
  <1>4. CASE D!SignIn  BY <1>1, <1>4 DEF D!SignIn
  <1>5. CASE D!SwitchProfiles  BY <1>1, <1>5 DEF D!SwitchProfiles
  <1>6. CASE D!ReadIndexed \/ D!LoadIndexed  BY <1>6 DEF D!ReadIndexed, D!LoadIndexed
  <1>7. CASE D!PageHide \/ D!Crash \/ D!RemoveProfile \/ D!ExpireSession
    BY <1>2, <1>7 DEF D!PageHide, D!Crash, D!Ends, D!RemoveProfile, D!ExpireSession
  <1>8. CASE D!SyncRead \/ D!Commit \/ D!PersistTimer \/ D!WriteDone \/ UNCHANGED D!vars
    BY <1>8 DEF D!SyncRead, D!Commit, D!PersistTimer, D!WriteDone, D!vars
  <1>9. CASE D!SyncApply \/ D!Clear \/ \E k \in 1..last : D!OtherTab(k)
    <2>1. CASE D!SyncApply  BY <2>1 DEF D!SyncApply, D!Meanwhile
    <2>2. CASE D!Clear  BY <2>2 DEF D!Clear, D!Meanwhile
    <2>3. CASE \E k \in 1..last : D!OtherTab(k)  BY <2>3 DEF D!OtherTab, D!Meanwhile
    <2> QED  BY <1>9, <2>1, <2>2, <2>3
  <1> QED  BY <1>3, <1>4, <1>5, <1>6, <1>7, <1>8, <1>9 DEF D!Next

LEMMA CopiesStep ==
    ASSUME SeenInv, TimesFit', [D!Next]_(D!vars), ~cleared', ~overtaken'
    PROVE  CopiesCover'
  <1> USE DEF D!app, D!memory, D!session, D!disk, D!flags, D!history
  <1> DEFINE Own(r) == Covers(r.messages, r.cursor)
             All(X) == Covers(X, since') /\ Covers(X, ref') /\ Covers(X, through')
             Copies == Own(stored') /\ Own(indexed') /\ \A n \in 1..Len(pending') : Own(pending'[n])
             Fresh == /\ local'.at # 0 /\ All(local'.messages)
                      /\ indexed'.at >= local'.at => All(indexed'.messages)
                      /\ \A n \in 1..Len(pending') :
                             pending'[n].at >= local'.at => All(pending'[n].messages)
             Anew == since' = 0 /\ ref' = 0 /\ through' = 0
             AsMemory == loading' /\ ~stale' /\ limit > 0 => Anew \/ Fresh
  <1> SUFFICES ASSUME machine = "desktop" PROVE Copies /\ AsMemory
    <2>1. machine' = machine /\ limit' = limit  BY SamePlatform
    <2>2. D!Crowd' = D!Crowd  BY <2>1 DEF D!Crowd
    <2>3. \A X, c : Covers(X, c)' = Covers(X', c')  BY <2>2 DEF Covers, Newer
    <2>4. local' \in {local, stored', indexed, D!Nothing}  BY LocalCopyIs DEF SeenInv
    <2>5. machine = "desktop" => Own(local) /\ Own(indexed)
      BY NotCleared, NotOvertaken DEF SeenInv, CopiesCover
    <2>6. Own(D!Nothing)  BY NothingCovers, NothingType DEF SeenInv
    <2>7. machine = "desktop" => Own(local')  BY <2>4, <2>5, <2>6
    <2> QED
      BY <2>1, <2>2, <2>7 DEF CopiesCover, AnswersAll, StartsAtNothing, CoversAll, Covers, Newer,
         Pending
  <1>1. /\ CacheTypes /\ SessionFits /\ MemoryCovers /\ CopiesCover /\ TimesFit /\ ~D!Clear
        /\ last \in Nat /\ held \in SUBSET (1..last) /\ pending \in Seq(CacheEntry) /\ Len(pending) \in Nat
        /\ through \in 0..last /\ ref \in 0..last /\ since \in 0..last /\ stored \in CacheEntry
        /\ clock \in Nat /\ limit \in Nat
    BY NotCleared, NotOvertaken, CrowdIs DEF SeenInv, CacheTypes
  <1>2. Covers(held, since) /\ Covers(held, ref) /\ Covers(held, through)
    BY <1>1 DEF MemoryCovers
  <1>3. /\ Own(stored) /\ Own(indexed) /\ \A n \in Pending : Own(pending[n])
        /\ loading /\ ~stale /\ limit > 0 => StartsAtNothing \/ AnswersAll
    BY <1>1 DEF CopiesCover
  <1>4. \A X : Covers(X, 0)  BY NothingCovers
  <1>5. /\ stored'.at = 0 => stored' = D!Nothing
        /\ stored'.at # 0 /\ indexed'.at >= stored'.at => indexed' = stored'
        /\ stored'.at # 0 =>
               \A n \in 1..Len(pending') : pending'[n].at >= stored'.at => pending'[n] = stored'
    <2>1. machine' = machine  BY SamePlatform
    <2> QED  BY <2>1 DEF TimesFit, Pending, D!Nothing
  <1>6. /\ local.at \in Nat /\ indexed.at \in Nat
        /\ \A n \in Pending : pending[n].at \in Nat /\ pending[n] \in CacheEntry
    <2>1. \A n \in Pending : pending[n] \in CacheEntry  BY <1>1 DEF Pending
    <2> QED  BY <1>1, <2>1 DEF CacheTypes, CacheEntry
  <1> HIDE DEF Own
  <1>7. UNCHANGED D!disk => Copies
    BY <1>3 DEF Pending
  <1>8. ASSUME NEW r, pending' = Append(pending, r), r \in CacheEntry
        PROVE  /\ Len(pending') = Len(pending) + 1 /\ pending'[Len(pending) + 1] = r
               /\ \A n \in 1..Len(pending') : pending'[n] = r \/ (n \in Pending /\ pending'[n] = pending[n])
    <2>1. /\ Len(pending') = Len(pending) + 1 /\ pending'[Len(pending) + 1] = r
          /\ \A n \in Pending : pending'[n] = pending[n]
      BY <1>1, <1>8, AppendProperties DEF Pending
    <2> QED  BY <1>1, <2>1 DEF Pending
  <1>9. ASSUME NEW X \in SUBSET (1..last), NEW c \in 0..last, Covers(X, c), D!WriteCache(X, c)
        PROVE  Copies
    <2>1. /\ indexed' = indexed /\ stored' \in CacheEntry /\ pending' = Append(pending, stored')
          /\ limit = 0 => stored' = D!Nothing
          /\ limit # 0 => stored'.messages = D!Recent(X, limit) /\ stored'.cursor \in {0, c}
      BY <1>1, <1>9, WriteIs
    <2>2. Covers(stored'.messages, stored'.cursor)
      <3>1. CASE limit = 0  BY <1>1, <1>4, <2>1, <3>1, NothingType
      <3>2. CASE limit # 0
        <4>1. Covers(D!Recent(X, limit), c)  BY <1>1, <1>9, <3>2, LimitedCovers
        <4> QED  BY <1>4, <2>1, <3>2, <4>1
      <3> QED  BY <3>1, <3>2
    <2>3. Own(stored')  BY <2>2 DEF Own
    <2> QED  BY <1>3, <1>8, <2>1, <2>3
  (* What is written of the memory covers all that the memory does.        *)
  <1>10. ASSUME D!WriteCache(held, through), through' = through, ref' = ref, since' \in {since, ref}, limit > 0
         PROVE  stored'.at # 0 /\ All(stored'.messages)
    <2>1. limit # 0  BY <1>10
    <2>2. stored'.messages = D!Recent(held, limit) /\ stored'.at = clock + 1
      BY <1>1, <1>10, <2>1, WriteIs
    <2>3. stored'.at # 0  BY <1>1, <2>2
    <2>4. \A c \in 0..last : Covers(held, c) => Covers(stored'.messages, c)
      BY <1>1, <2>1, <2>2, LimitedCovers
    <2> QED  BY <1>1, <1>2, <1>10, <2>3, <2>4
  (* A session begins with the copy of localStorage.                       *)
  <1>11. ASSUME local' = stored', stored'.at # 0, All(stored'.messages) PROVE Fresh
    BY <1>5, <1>11
  <1>12. ASSUME UNCHANGED D!disk, through' = D!ReadCache.cursor, D!StartsSession(held', through')
         PROVE  Copies /\ AsMemory
    <2>1. through' \in 0..last
      <3>1. \A r \in CacheEntry : r.cursor \in 0..last  BY DEF CacheEntry
      <3> QED  BY <1>1, <1>12, <3>1, ReadIs
    <2>2. ref' = through' /\ since' = ref' /\ local' = (IF loading' THEN stored' ELSE D!Nothing)
      BY <1>1, <1>12, <2>1, SessionStarts
    <2>3. ASSUME limit > 0, loading' PROVE Anew \/ Fresh
      <3>1. D!ReadCache = D!ParseCache(stored) /\ D!ParseCache(stored).cursor \in {0, stored.cursor}
        BY <1>1, <2>3, ReadIs, ParseIs
      <3>2. stored.at = 0 => stored.cursor = 0
        BY <1>1, NothingType DEF TimesFit
      <3>3. Covers(stored.messages, stored.cursor)  BY <1>3 DEF Own
      <3>4. CASE stored.at = 0  BY <1>12, <2>2, <3>1, <3>2, <3>4
      <3>5. CASE stored.at # 0
        <4>1. Covers(stored.messages, through')  BY <1>4, <1>12, <3>1, <3>3
        <4> QED  BY <1>11, <1>12, <2>2, <2>3, <3>5, <4>1
      <3> QED  BY <3>4, <3>5
    <2> QED  BY <1>7, <1>12, <2>3
  <1>13. ASSUME UNCHANGED D!disk, loading' /\ ~stale' => FALSE PROVE Copies /\ AsMemory
    BY <1>7, <1>13
  <1>14. ASSUME UNCHANGED D!disk,
                loading' /\ ~stale' => /\ loading /\ ~stale /\ local' = local
                                      /\ UNCHANGED <<ref, through>> /\ since' \in {since, ref}
         PROVE  Copies /\ AsMemory
    <2>1. CASE loading' /\ ~stale' /\ limit > 0
      <3>1. StartsAtNothing => Anew  BY <1>14, <2>1 DEF StartsAtNothing
      <3>2. ASSUME AnswersAll PROVE Fresh
        <4>1. \A X : CoversAll(X) => All(X)  BY <1>14, <2>1 DEF CoversAll
        <4> HIDE DEF All
        <4> QED  BY <1>14, <2>1, <3>2, <4>1 DEF AnswersAll, Pending
      <3>3. Anew \/ Fresh  BY <1>3, <1>14, <2>1, <3>1, <3>2
      <3> QED  BY <1>7, <1>14, <3>3
    <2> QED  BY <1>7, <1>14, <2>1
  <1>15. CASE D!Start
    <2>1. UNCHANGED D!disk /\ through' = D!ReadCache.cursor
      BY <1>15 DEF D!Start, D!StartDesktop, D!StartMobile
    <2>2. CASE keepsSession
      <3>1. D!StartsSession(held', through')  BY <1>15, <2>2 DEF D!Start
      <3> QED  BY <1>12, <2>1, <3>1
    <2>3. CASE ~keepsSession
      <3>1. loading' = FALSE  BY <1>15, <2>3 DEF D!Start, D!EndsSession
      <3> QED  BY <1>13, <2>1, <3>1
    <2> QED  BY <2>2, <2>3
  <1>16. CASE D!SignIn
    <2>1. UNCHANGED D!disk /\ through' = D!ReadCache.cursor /\ D!StartsSession(held', through')
      BY <1>16 DEF D!SignIn
    <2> QED  BY <1>12, <2>1
  <1>17. CASE D!SwitchProfiles
    <2>1. D!WriteCache(held, through) /\ through' = through /\ D!StartsSession(held, ref)
      BY <1>17 DEF D!SwitchProfiles
    <2>2. ref' = ref /\ since' = ref' /\ local' = (IF loading' THEN stored' ELSE D!Nothing)
      BY <1>1, <2>1, SessionStarts
    <2>3. Copies  BY <1>1, <1>2, <1>9, <2>1
    <2>4. loading' /\ limit > 0 => Fresh
      <3>1. ASSUME loading', limit > 0 PROVE Fresh
        <4>1. stored'.at # 0 /\ All(stored'.messages)  BY <1>10, <2>1, <2>2, <3>1
        <4>2. local' = stored'  BY <2>2, <3>1
        <4> QED  BY <1>11, <4>1, <4>2
      <3> QED  BY <3>1
    <2> QED  BY <2>3, <2>4
  <1>18. CASE D!PersistTimer
    <2>1. UNCHANGED <<since, ref, through, loading, local, stale>>
          /\ (UNCHANGED D!disk \/ D!WriteCache(held, through))
      BY <1>18 DEF D!PersistTimer
    <2>2. CASE UNCHANGED D!disk  BY <1>14, <2>1, <2>2
    <2>3. CASE D!WriteCache(held, through)
      <3>1. Copies  BY <1>1, <1>2, <1>9, <2>3
      <3>2. CASE loading /\ ~stale /\ limit > 0
        <4>1. StartsAtNothing => Anew  BY <2>1 DEF StartsAtNothing
        <4>2. ASSUME AnswersAll PROVE Fresh
          <5>1. All(stored'.messages)  BY <1>10, <2>1, <2>3, <3>2
          <5>2. \A X : CoversAll(X) => All(X)  BY <2>1 DEF CoversAll
          <5>3. indexed' = indexed /\ pending' = Append(pending, stored') /\ stored' \in CacheEntry
            BY <1>1, <2>3, WriteIs
          <5>4. \A n \in 1..Len(pending') : pending'[n] = stored' \/ (n \in Pending /\ pending'[n] = pending[n])
            BY <1>8, <5>3
          <5> HIDE DEF All
          <5> QED  BY <2>1, <4>2, <5>1, <5>2, <5>3, <5>4 DEF AnswersAll
        <4>3. Anew \/ Fresh  BY <1>3, <3>2, <4>1, <4>2
        <4> QED  BY <3>1, <4>3
      <3> QED  BY <2>1, <3>1, <3>2
    <2> QED  BY <2>1, <2>2, <2>3
  <1>19. CASE D!PageHide
    <2>1. D!WriteCache(held, through) /\ loading' = FALSE
      BY <1>19 DEF D!PageHide, D!Ends, D!EndsSession
    <2> QED  BY <1>1, <1>2, <1>9, <2>1
  <1>20. ASSUME NEW k \in 1..last, D!OtherTab(k) PROVE Copies /\ AsMemory
    <2>1. D!WriteCache(1..k, k) /\ ~(loading' /\ ~stale')
      BY <1>20 DEF D!OtherTab, D!Meanwhile
    <2>2. 1..k \in SUBSET (1..last) /\ k \in 0..last /\ Covers(1..k, k)  BY <1>1 DEF Covers
    <2> QED  BY <1>9, <2>1, <2>2
  <1>21. CASE D!RemoveProfile
    <2>1. stored' = D!Nothing /\ pending' = Append(pending, D!Nothing) /\ UNCHANGED indexed /\ loading' = FALSE
      BY <1>21 DEF D!RemoveProfile, D!ClearCache, D!EndsSession
    <2>2. D!Nothing \in CacheEntry /\ Own(D!Nothing)  BY <1>1, <1>4, NothingType DEF Own
    <2> QED  BY <1>3, <1>8, <2>1, <2>2
  <1>22. CASE D!WriteDone
    <2>1. /\ indexed' = pending[1] /\ 1 \in Pending
          /\ UNCHANGED <<stored, since, ref, through, loading, local, stale>>
          /\ Len(pending') = Len(pending) - 1
          /\ \A n \in 1..Len(pending) - 1 : pending'[n] = pending[n + 1] /\ n + 1 \in Pending
      BY <1>1, <1>22, FirstDone DEF D!WriteDone, Pending
    <2>2. Copies  BY <1>3, <2>1
    <2>3. CASE loading /\ ~stale /\ limit > 0
      <3>1. StartsAtNothing => Anew  BY <2>1 DEF StartsAtNothing
      <3>2. ASSUME AnswersAll PROVE Fresh
        <4>1. \A X : CoversAll(X) => All(X)  BY <2>1 DEF CoversAll
        <4>2. \A n \in 1..Len(pending') : n + 1 \in Pending /\ pending'[n] = pending[n + 1]
          <5>1. Len(pending') = Len(pending) - 1 /\ Len(pending) \in Nat  BY <1>1, <2>1
          <5> QED  BY <2>1, <5>1
        <4> HIDE DEF All
        <4> QED  BY <2>1, <3>2, <4>1, <4>2 DEF AnswersAll
      <3>3. Anew \/ Fresh  BY <1>3, <2>3, <3>1, <3>2
      <3> QED  BY <2>2, <3>3
    <2> QED  BY <2>1, <2>2, <2>3
  <1>23. CASE D!Crash
    <2>1. pending' = <<>> /\ UNCHANGED <<stored, indexed>> /\ loading' = FALSE
      BY <1>23 DEF D!Crash, D!Ends, D!EndsSession
    <2> QED  BY <1>3, <2>1
  <1>24. CASE D!SyncApply
    <2>1. UNCHANGED D!disk  BY <1>24 DEF D!SyncApply, D!Effects
    <2>2. ASSUME loading', ~stale'
          PROVE  /\ loading /\ ~stale /\ local' = local
                 /\ UNCHANGED <<ref, through>> /\ since' \in {since, ref}
      <3>1. /\ IF held' = held /\ since' = since THEN UNCHANGED <<loading, local, stale>> ELSE D!Meanwhile
            /\ IF D!NextCursor > since THEN since' = D!NextCursor ELSE UNCHANGED <<since, through, ref>>
        BY <1>24 DEF D!SyncApply
      <3>2. ~D!Meanwhile  BY <2>2 DEF D!Meanwhile
      <3>3. since' = since /\ UNCHANGED <<loading, local, stale>>  BY <3>1, <3>2
      <3>4. ~(D!NextCursor > since)  BY <1>1, <3>1, <3>3
      <3> QED  BY <2>2, <3>1, <3>3, <3>4
    <2> QED  BY <1>14, <2>1, <2>2
  <1>25. CASE D!LoadIndexed \/ D!ExpireSession
    <2>1. UNCHANGED D!disk /\ loading' = FALSE
      BY <1>25 DEF D!LoadIndexed, D!ExpireSession, D!EndsSession
    <2> QED  BY <1>13, <2>1
  <1>26. CASE D!SyncRead \/ D!Commit \/ UNCHANGED D!vars
    <2>1. UNCHANGED D!disk /\ UNCHANGED <<ref, through, loading, local, stale>> /\ since' \in {since, ref}
      BY <1>26 DEF D!SyncRead, D!Bigger, D!Commit, D!vars
    <2> QED  BY <1>14, <2>1
  <1>27. CASE D!ReadIndexed
    <2>1. /\ UNCHANGED <<D!disk, loading, stale, since, ref, through>>
          /\ local' = indexed /\ loading /\ indexed.at >= local.at
      BY <1>27 DEF D!ReadIndexed
    <2>2. CASE ~stale /\ limit > 0
      <3>1. StartsAtNothing => Anew  BY <2>1 DEF StartsAtNothing
      <3>2. ASSUME AnswersAll PROVE Fresh
        <4>1. \A X : CoversAll(X) => All(X)  BY <2>1 DEF CoversAll
        <4>2. indexed' = indexed /\ pending' = pending  BY <2>1
        <4> HIDE DEF All
        <4>3. /\ local.at # 0 /\ All(indexed.messages)
              /\ \A n \in Pending : pending[n].at >= local.at => All(pending[n].messages)
          BY <2>1, <3>2, <4>1 DEF AnswersAll
        <4>4. indexed.at # 0 /\ \A n \in Pending : pending[n].at >= indexed.at => pending[n].at >= local.at
          BY <1>6, <2>1, <4>3
        <4> QED  BY <2>1, <4>2, <4>3, <4>4 DEF Pending
      <3>3. Anew \/ Fresh  BY <1>3, <2>1, <2>2, <3>1, <3>2
      <3> QED  BY <1>7, <2>1, <3>3
    <2> QED  BY <1>7, <2>1, <2>2
  <1> QED
    BY <1>1, <1>15, <1>16, <1>17, <1>18, <1>19, <1>20, <1>21, <1>22, <1>23, <1>24, <1>25, <1>26, <1>27
       DEF D!Next

LEMMA KeysStep ==
    ASSUME SeenInv, [D!Next]_(D!vars), ~cleared', ~overtaken'
    PROVE  KeysCover'
  <1> USE DEF D!app, D!memory, D!session, D!disk, D!flags, D!history
  <1> DEFINE Coherent == EmptyOrCovers(stored'.messages, stored'.cursor)
             Reached == pending' = <<>> /\ running' => stored'.cursor = through'
             Queue == pending' # <<>> =>
                          /\ pending'[Len(pending')] = <<"cursor", through'>>
                          /\ pending'[1][1] = "messages" => EmptyOrCovers(pending'[1][2], stored'.cursor)
                          /\ pending'[1][1] = "cursor" => EmptyOrCovers(stored'.messages, pending'[1][2])
             Chain == \A n \in 1..Len(pending') - 1 : Fits(pending'[n], pending'[n + 1])
  <1> SUFFICES ASSUME machine = "mobile" PROVE Coherent /\ Reached /\ Queue /\ Chain
    <2>1. machine' = machine /\ limit' = limit  BY SamePlatform
    <2>2. D!Crowd' = D!Crowd  BY <2>1 DEF D!Crowd
    <2> QED  BY <2>1, <2>2 DEF KeysCover, Fits, EmptyOrCovers, Covers, Newer
  <1>1. /\ CacheTypes /\ SessionFits /\ MemoryCovers /\ ~D!Clear /\ CacheTypes'
        /\ last \in Nat /\ pending \in Seq(Piece) /\ Len(pending) \in Nat /\ stored \in CacheEntry
        /\ held \in SUBSET (1..last) /\ through \in 0..last
    BY NotCleared, NotOvertaken, CacheTypesStep DEF SeenInv, CacheTypes
  <1>2. /\ EmptyOrCovers(stored.messages, stored.cursor)
        /\ pending = <<>> /\ running => stored.cursor = through
        /\ pending # <<>> =>
               /\ pending[Len(pending)] = <<"cursor", through>>
               /\ pending[1][1] = "messages" => EmptyOrCovers(pending[1][2], stored.cursor)
               /\ pending[1][1] = "cursor" => EmptyOrCovers(stored.messages, pending[1][2])
        /\ \A n \in 1..Len(pending) - 1 : Fits(pending[n], pending[n + 1])
    BY NotCleared, NotOvertaken DEF SeenInv, KeysCover
  <1>3. pending # <<>> => running  BY <1>1 DEF SessionFits
  <1>4. ASSUME UNCHANGED <<stored, pending>>, UNCHANGED through, running' => running
        PROVE  Coherent /\ Reached /\ Queue /\ Chain
    BY <1>2, <1>4
  (* Both keys are written, after whatever is under way.                   *)
  <1>5. ASSUME NEW X \in SUBSET (1..last), pending' = pending \o D!Writes(X, through'), UNCHANGED stored,
               running, running', through' \in 0..last, EmptyOrCovers(X, through), EmptyOrCovers(X, through')
        PROVE  Coherent /\ Reached /\ Queue /\ Chain
    <2> DEFINE v == <<"messages", D!Recent(X, limit)>>
               w == <<"cursor", through'>>
    <2>1. /\ Len(pending') = Len(pending) + 2
          /\ \A n \in Pending : pending'[n] = pending[n]
          /\ pending'[Len(pending) + 1] = v /\ pending'[Len(pending) + 2] = w
      BY <1>1, <1>5, PiecesAdded
    <2>2. pending' # <<>>
      <3>1. Len(pending') # 0  BY <1>1, <2>1
      <3> QED  BY <3>1, EmptySeq
    <2>3. EmptyOrCovers(v[2], through) /\ EmptyOrCovers(v[2], through') /\ v[1] = "messages"
          /\ w[1] = "cursor" /\ w[2] = through'
      BY <1>1, <1>5, LimitedEmptyOrCovers
    <2> HIDE DEF v
    <2>4. Fits(v, w)  BY <2>3 DEF Fits
    <2>5. CASE pending = <<>>
      <3>1. Len(pending) = 0  BY <2>5, EmptySeq
      <3>2. pending'[1] = v /\ pending'[2] = w /\ Len(pending') = 2  BY <2>1, <3>1
      <3>3. Queue
        <4>1. stored'.cursor = through  BY <1>2, <1>5, <2>5
        <4> QED  BY <2>3, <3>2, <4>1
      <3>4. Chain
        <4>1. \A n \in 1..Len(pending') - 1 : n = 1 /\ n + 1 = 2  BY <3>2
        <4> QED  BY <2>4, <3>2, <4>1
      <3> QED  BY <1>2, <1>5, <2>2, <3>3, <3>4
    <2>6. CASE pending # <<>>
      <3>1. Len(pending) \in Nat \ {0}  BY <1>1, <2>6, EmptySeq
      <3>2. pending'[1] = pending[1] /\ pending'[Len(pending)] = <<"cursor", through>>
        BY <1>2, <2>1, <2>6, <3>1 DEF Pending
      <3>3. Queue
        <4>1. pending'[Len(pending')] = w  BY <2>1
        <4> QED  BY <1>2, <1>5, <2>6, <3>2, <4>1
      <3>4. ASSUME NEW n \in 1..Len(pending') - 1 PROVE Fits(pending'[n], pending'[n + 1])
        <4>1. CASE n \in 1..Len(pending) - 1
          <5>1. n \in Pending /\ n + 1 \in Pending  BY <1>1, <4>1 DEF Pending
          <5>2. pending'[n] = pending[n] /\ pending'[n + 1] = pending[n + 1]  BY <2>1, <5>1
          <5> QED  BY <1>2, <4>1, <5>2
        <4>2. CASE n = Len(pending)
          <5>1. pending'[n] = <<"cursor", through>> /\ pending'[n + 1] = v  BY <2>1, <3>2, <4>2
          <5>2. pending'[n][1] = "cursor" /\ pending'[n][2] = through  BY <5>1
          <5> QED  BY <2>3, <5>1, <5>2 DEF Fits
        <4>3. CASE n = Len(pending) + 1
          <5>1. pending'[n] = v /\ pending'[n + 1] = w  BY <1>1, <2>1, <4>3
          <5> QED  BY <2>4, <5>1
        <4>4. n \in 1..Len(pending) - 1 \/ n = Len(pending) \/ n = Len(pending) + 1
          BY <1>1, <2>1
        <4> QED  BY <4>1, <4>2, <4>3, <4>4
      <3> QED  BY <1>2, <1>5, <2>2, <3>3, <3>4
    <2> QED  BY <2>5, <2>6
  <1>6. CASE D!SyncApply
    <2>1. /\ running /\ running' /\ UNCHANGED stored /\ pending' = pending \o D!Writes(held', through')
          /\ keepsSession
      BY <1>6 DEF D!SyncApply, D!Effects
    <2>2. held' \in SUBSET (1..last) /\ through' \in 0..last
      BY <1>6, <1>1 DEF D!SyncApply, CacheTypes
    <2>3. EmptyOrCovers(held', through')
      <3>1. MemoryCovers' /\ machine' = machine /\ limit' = limit  BY MemoryStep, SamePlatform
      <3>2. D!Crowd' = D!Crowd  BY <3>1 DEF D!Crowd
      <3> QED  BY <3>1, <3>2 DEF MemoryCovers, EmptyOrCovers, Covers, Newer
    <2>4. through \in 0..through'
      <3>1. through' = through \/ through' = D!Bigger(through, request[2])
        BY <1>6 DEF D!SyncApply, D!NextCursor
      <3>2. request[2] \in 0..last  BY <1>1, <1>6 DEF D!SyncApply, CacheTypes
      <3> QED  BY <1>1, <3>1, <3>2 DEF D!Bigger
    <2>5. EmptyOrCovers(held', through)
      <3>1. through' \in Nat  BY <1>1, <2>2
      <3> QED  BY <2>3, <2>4, <3>1, FewerCovers DEF EmptyOrCovers
    <2> QED  BY <1>5, <2>1, <2>2, <2>3, <2>5
  <1>7. CASE D!RemoveProfile
    <2>1. /\ running /\ running' /\ UNCHANGED stored /\ through' = 0
          /\ pending' = pending \o D!Writes({}, through')
      BY <1>7 DEF D!RemoveProfile, D!Emptied
    <2>2. {} \in SUBSET (1..last) /\ through' \in 0..last  BY <1>1, <2>1
    <2> QED  BY <1>5, <2>1, <2>2 DEF EmptyOrCovers
  <1>8. CASE D!WriteDone
    <2>1. /\ pending # <<>> /\ pending' = Tail(pending) /\ Len(pending) \in Nat \ {0}
          /\ Len(pending') = Len(pending) - 1 /\ pending[1] \in Piece
          /\ \A n \in 1..Len(pending) - 1 : pending'[n] = pending[n + 1]
          /\ stored' = IF pending[1][1] = "messages" THEN [stored EXCEPT !.messages = pending[1][2]]
                       ELSE [stored EXCEPT !.cursor = pending[1][2]]
          /\ UNCHANGED <<through, running>>
      BY <1>1, <1>8, FirstDone DEF D!WriteDone
    <2>2. \/ /\ pending[1][1] = "messages" /\ stored'.messages = pending[1][2]
             /\ stored'.cursor = stored.cursor
          \/ /\ pending[1][1] = "cursor" /\ stored'.cursor = pending[1][2]
             /\ stored'.messages = stored.messages
      BY <1>1, <2>1 DEF Piece, CacheEntry
    <2>3. Coherent  BY <1>2, <2>1, <2>2
    <2>4. Chain
      <3>1. ASSUME NEW n \in 1..Len(pending') - 1 PROVE Fits(pending'[n], pending'[n + 1])
        <4>1. /\ n \in 1..Len(pending) - 1 /\ n + 1 \in 1..Len(pending) - 1  BY <2>1
        <4>2. pending'[n] = pending[n + 1] /\ pending'[n + 1] = pending[(n + 1) + 1]  BY <2>1, <4>1
        <4> QED  BY <1>2, <4>1, <4>2
      <3> QED  BY <3>1
    <2>5. CASE Len(pending) = 1
      <3>1. pending' = <<>>  BY <1>1, <2>1, <2>5, FirstDone, EmptySeq
      <3>2. pending[1] = <<"cursor", through>>  BY <1>2, <2>1, <2>5
      <3>3. stored'.cursor = through  BY <2>2, <3>2
      <3> QED  BY <2>1, <2>3, <2>4, <3>1, <3>3
    <2>6. CASE Len(pending) > 1
      <3>1. /\ 1 \in 1..Len(pending) - 1 /\ Len(pending') \in 1..Len(pending) - 1
            /\ Len(pending') # 0 /\ Len(pending') + 1 = Len(pending)
        BY <2>1, <2>6
      <3>2. pending' # <<>>  BY <3>1, EmptySeq
      <3>3. pending'[Len(pending')] = <<"cursor", through'>>  BY <1>2, <2>1, <3>1
      <3>4. pending'[1] = pending[2] /\ Fits(pending[1], pending[2])
        <4>1. pending'[1] = pending[1 + 1] /\ Fits(pending[1], pending[1 + 1])  BY <1>2, <2>1, <3>1
        <4>2. 1 + 1 = 2  OBVIOUS
        <4> QED  BY <4>1, <4>2
      <3>5. /\ pending'[1][1] = "messages" => EmptyOrCovers(pending'[1][2], stored'.cursor)
            /\ pending'[1][1] = "cursor" => EmptyOrCovers(stored'.messages, pending'[1][2])
        BY <2>2, <3>4 DEF Fits
      <3> QED  BY <2>3, <2>4, <3>2, <3>3, <3>5
    <2> QED  BY <2>1, <2>5, <2>6
  <1>9. CASE D!Start
    <2>1. pending = <<>> /\ UNCHANGED <<stored, pending>>
        BY <1>1, <1>9 DEF D!Start, D!StartMobile, D!StartDesktop, SessionFits
    <2>2. through' = stored.cursor  BY <1>9 DEF D!Start, D!StartMobile, D!StartDesktop
    <2>3. Chain
      <3>1. Len(pending') = 0  BY <2>1, EmptySeq
      <3> QED  BY <3>1
    <2> QED  BY <1>2, <2>1, <2>2, <2>3
  <1>10. CASE D!Crash
    <2>1. pending' = <<>> /\ UNCHANGED stored /\ ~running'  BY <1>10 DEF D!Crash, D!Ends
    <2>2. Chain
      <3>1. Len(pending') = 0  BY <2>1, EmptySeq
      <3> QED  BY <3>1
    <2> QED  BY <1>2, <2>1, <2>2
  <1>11. CASE D!SignIn \/ D!SwitchProfiles
    <2>1. UNCHANGED <<stored, pending, through, running>>
      BY <1>11 DEF D!SignIn, D!SwitchProfiles
    <2> QED  BY <1>4, <2>1
  <1>12. CASE D!PersistTimer \/ D!PageHide \/ D!LoadIndexed
    BY <1>1, <1>12 DEF D!PersistTimer, D!PageHide, D!LoadIndexed, SessionFits
  <1>13. ASSUME NEW k \in 1..last, D!OtherTab(k) PROVE FALSE
    BY <1>13 DEF D!OtherTab
  <1>14. CASE D!SyncRead \/ D!Commit \/ D!ExpireSession \/ D!ReadIndexed \/ UNCHANGED D!vars
    <2>1. UNCHANGED <<stored, pending, through, running>>
      BY <1>14 DEF D!SyncRead, D!ReadIndexed, D!Commit, D!ExpireSession, D!vars
    <2> QED  BY <1>4, <2>1
  <1> QED
    BY <1>1, <1>6, <1>7, <1>8, <1>9, <1>10, <1>11, <1>12, <1>13, <1>14 DEF D!Next

(* KeepsWhatItHasSeen (message-cache.ts, the effects and the hydration of  *)
(* both App.tsx): for any limits that a client's memory can hold, any      *)
(* number of runs, messages and writes, over crashes between two writes,   *)
(* two stores of different age, other tabs and new sessions, however late  *)
(* IndexedDB answers, a session never goes on from a cursor past a message *)
(* it does not have, unless so many newer ones push it out, the cache was  *)
(* cleared under it, or such an answer has taken the place of a memory     *)
(* that had changed.                                                       *)
THEOREM KeepsSeenMessages == Spec => []KeepsWhatItHasSeen
  <1>1. Init => SeenInv
    <2>1. ASSUME Init PROVE SeenInv
      <3>1. D!Init  BY <2>1 DEF Init
      <3>2. CacheTypes /\ SessionFits /\ TimesFit /\ held = {} /\ through = 0  BY <3>1, CacheInit
      <3>3. since = 0 /\ ref = 0 /\ pending = <<>> /\ stored = D!Nothing /\ indexed = D!Nothing /\ ~loading
            /\ local = D!Nothing
        BY <3>1 DEF D!Init
      <3>4. Len(pending) = 0  BY <3>3, EmptySeq
      <3>5. D!Nothing.messages = {} /\ D!Nothing.cursor = 0  BY <3>2, NothingType
      <3>6. MemoryCovers  BY <3>2, <3>3, NothingCovers DEF MemoryCovers
      <3>7. CopiesCover  BY <3>3, <3>4, <3>5, NothingCovers DEF CopiesCover, Pending
      <3>8. KeysCover  BY <3>2, <3>3, <3>4, <3>5 DEF KeysCover, EmptyOrCovers
      <3> QED  BY <3>2, <3>6, <3>7, <3>8 DEF SeenInv
    <2> QED  BY <2>1
  <1>2. [Next]_vars => [D!Next]_(D!vars)
    BY DEF Next, vars, cache, D!vars, D!app, D!memory, D!session, D!flags, D!disk, D!history
  <1>3. SeenInv /\ [Next]_vars => SeenInv'
    <2>1. ASSUME SeenInv, [D!Next]_(D!vars) PROVE SeenInv'
      <3>1. CacheTypes' /\ SessionFits' /\ TimesFit'
        BY <2>1, CacheTypesStep, SessionStep, TimesStep DEF SeenInv
      <3>2. ~cleared' /\ ~overtaken' => MemoryCovers' /\ CopiesCover' /\ KeysCover'
        BY <2>1, <3>1, MemoryStep, CopiesStep, KeysStep
      <3> QED  BY <3>1, <3>2 DEF SeenInv
    <2> QED  BY <1>2, <2>1
  <1>4. SeenInv => KeepsWhatItHasSeen
    <2>1. \A e : D!Cardinality({m \in held : m > e}) = Cardinality(Newer(held, e))
      BY SameCardinality DEF Newer
    <2> QED
      BY <2>1 DEF SeenInv, MemoryCovers, Covers, KeepsWhatItHasSeen, D!KeepsWhatItHasSeen, D!Covered
  <1> QED  BY <1>1, <1>3, <1>4, PTL DEF Spec

-------------------------------------------------------------------------------
(***************************************************************************)
(* MessageState: what a merge leaves shows the last edit of the log.       *)
(***************************************************************************)
ChatEvent == [kind : {"text", "edit", "reaction", "none", "read"}, id : Nat, of : Nat, mine : BOOLEAN]
ChatRow == [id : Nat, of : Nat, mine : BOOLEAN, text : Nat, reaction : Nat, read : BOOLEAN]
Sending == [event : ChatEvent, at : {"queued", "sealed", "stored"}]
IsMade(e) == (e.kind = "text" <=> e.of = 0) /\ (e.kind = "read" <=> e.id = 0)

ChatTypes ==
    /\ log \in Seq(ChatEvent) /\ messages \in Seq(ChatRow) /\ outbox \subseteq Sending
    /\ made \in [DOMAIN Limit -> Nat] /\ merged \in BOOLEAN /\ passed \subseteq Nat
    /\ cursor \in Nat /\ seen \in Nat /\ cursor <= seen /\ seen <= Len(log)
    /\ \/ answer = <<>>
       \/ answer \in Nat \X Nat /\ answer[1] <= seen /\ answer[1] <= answer[2] /\ answer[2] <= Len(log)
    /\ editing = <<>> \/ (editing \in Seq(ChatRow) /\ Len(editing) = 1)

(* The events that are in the log or under way to it: an id names one, and *)
(* the log has none of them twice.                                         *)
KnownEvents(L, O) ==
    {L[p] : p \in {q \in 1..Len(L) : L[q].kind # "read"}} \cup {r.event : r \in O}
OneEvent(L, O) ==
    /\ \A p \in 1..Len(L) : IsMade(L[p])
    /\ \A r \in O : IsMade(r.event) /\ r.event.kind # "read" /\ r.event.mine
    /\ \A r \in O : r.at = "stored" => \E p \in 1..Len(L) : L[p] = r.event
    /\ \A e, d \in KnownEvents(L, O) : e.id = d.id => e = d
    /\ \A p, q \in 1..Len(L) : L[p].kind # "read" /\ L[q].kind # "read" /\ L[p].id = L[q].id => p = q
(* A row is of one event.                                                  *)
OneRow(L, O, rows) ==
    /\ \A i, j \in DOMAIN rows : rows[i].id = rows[j].id => i = j
    /\ \A i \in DOMAIN rows, e \in KnownEvents(L, O) :
          rows[i].id = e.id => rows[i].of = e.of /\ e.kind \in {"text", "edit"}
(* The list has the edits of the log up to s, in its order, except those   *)
(* of the messages P, and no other.                                        *)
EditsThere(L, rows, s, P) ==
    \A p \in 1..s : L[p].kind = "edit" /\ L[p].of \notin P =>
        \E i \in DOMAIN rows : rows[i].id = L[p].id /\ rows[i].of = L[p].of
EditsOfLog(L, rows, s) ==
    \A i \in DOMAIN rows : rows[i].of # 0 =>
        \E p \in 1..s : L[p].kind = "edit" /\ rows[i].id = L[p].id /\ rows[i].of = L[p].of
InOrder(L, rows, s, P) ==
    \A p, q \in 1..s : p < q /\ L[p].kind = "edit" /\ L[q].kind = "edit" /\ L[p].of = L[q].of /\ L[p].of \notin P =>
        \A i, j \in DOMAIN rows : rows[i].id = L[p].id /\ rows[j].id = L[q].id => i < j
(* A message without an edit has the text it was sent with, or that of an  *)
(* own edit that is under way.                                             *)
OwnEdit(L, O, s, id) ==
    \/ \E r \in O : r.event.kind = "edit" /\ r.event.of = id
    \/ \E p \in s + 1..Len(L) : L[p].kind = "edit" /\ L[p].of = id /\ L[p].mine
Untouched(L, O, rows, s, P) ==
    \A i \in M!Bases(rows) : M!Edits(rows, rows[i].id) = {} =>
        rows[i].text = 0 \/ rows[i].id \in P \/ OwnEdit(L, O, s, rows[i].id)
ListFits(L, O, rows, s, P) ==
    /\ OneRow(L, O, rows) /\ EditsThere(L, rows, s, P) /\ EditsOfLog(L, rows, s)
    /\ InOrder(L, rows, s, P) /\ Untouched(L, O, rows, s, P)
Resolved(rows) ==
    \A i \in M!Bases(rows) : M!LastEdit(rows, rows[i].id) # 0 => rows[i].text = M!LastEdit(rows, rows[i].id)

(* Ids up to n are given away; x is the message that is being edited.      *)
RightRows(rows, n, x) ==
    \A i \in DOMAIN rows : rows[i].id \in 1..n - 1 /\ (rows[i].id = x => rows[i].of = 0)
RightEvents(L, O, n, x) ==
    \A e \in KnownEvents(L, O) : e.id \in 1..n - 1 /\ (e.id = x => e.kind = "text")
Edited(edit) == IF edit = <<>> THEN 0 ELSE edit[1].id

ChatInv ==
    /\ ChatTypes /\ OneEvent(log, outbox) /\ ListFits(log, outbox, messages, seen, passed)
    /\ RightRows(messages, M!NewId, Edited(editing)) /\ RightEvents(log, outbox, M!NewId, Edited(editing))
    /\ editing # <<>> => editing[1].of = 0 /\ editing[1].id \in 1..M!NewId - 1
    /\ merged => Resolved(messages)

(* Every set of numbers that is not empty has a least one.                 *)
LEMMA LeastOf == ASSUME NEW T \in SUBSET Nat, T # {} PROVE \E x \in T : \A y \in T : x <= y
  <1>1. IsWellFoundedOn(OpToRel(<, Nat), Nat)  BY NatLessThanWellFounded
  <1>2. PICK x \in T : \A y \in T : ~(<<y, x>> \in OpToRel(<, Nat))  BY <1>1, WFMin
  <1>3. \A y \in T : ~(y < x)  BY <1>2 DEF OpToRel
  <1>4. x \in Nat /\ \A y \in T : y \in Nat  OBVIOUS
  <1> QED  BY <1>3, <1>4
LEMMA GreatestOf ==
    ASSUME NEW N \in Nat, NEW T \in SUBSET (1..N), T # {}
    PROVE  M!Max(T) \in T /\ \A y \in T : M!Max(T) >= y
  <1> DEFINE R == {k \in Nat : k <= N /\ N - k \in T}
  <1>1. PICK t \in T : TRUE  OBVIOUS
  <1>2. N - t \in R  BY <1>1
  <1>3. PICK k \in R : \A y \in R : k <= y  BY <1>2, LeastOf
  <1>4. N - k \in T /\ \A y \in T : N - k >= y
    <2>1. ASSUME NEW y \in T PROVE N - k >= y
      <3>1. N - y \in R  BY <2>1
      <3> QED  BY <1>3, <2>1, <3>1
    <2> QED  BY <1>3, <2>1
  <1> QED  BY <1>4 DEF M!Max

(* The rows after each of the events that are merged.                      *)
IsMergeOf(g, rows, events, N) ==
    g = [n \in 0..N |-> IF n = 0 THEN rows ELSE M!MergeOne(g[n - 1], events[n])]
LEMMA MergeGoesOn ==
    ASSUME NEW rows, NEW events, NEW N \in Nat
    PROVE  \E g : IsMergeOf(g, rows, events, N)
  <1> DEFINE Is(g, k) == IsMergeOf(g, rows, events, k)
             T == {k \in Nat : ~\E g : Is(g, k)}
  <1>1. SUFFICES ASSUME T # {} PROVE FALSE
    OBVIOUS
  <1>2. PICK k \in T : \A y \in T : k <= y  BY <1>1, LeastOf
  <1>3. k # 0
    <2> DEFINE g == [n \in 0..0 |-> rows]
    <2>1. Is(g, 0)  BY DEF IsMergeOf
    <2> QED  BY <1>2, <2>1
  <1>4. k \in Nat /\ k - 1 \in Nat /\ k - 1 \notin T
    <2>1. k \in Nat  BY <1>2
    <2> HIDE DEF T
    <2>2. k - 1 \in Nat /\ ~(k <= k - 1)  BY <1>3, <2>1
    <2> QED  BY <1>2, <2>1, <2>2
  <1>5. PICK g : Is(g, k - 1)  BY <1>4
  <1> DEFINE h == [n \in 0..k |-> IF n = k THEN M!MergeOne(g[k - 1], events[k]) ELSE g[n]]
  <1>6. ASSUME NEW n \in 0..k
        PROVE  h[n] = IF n = 0 THEN rows ELSE M!MergeOne(h[n - 1], events[n])
    <2>1. CASE n = k
      <3>1. h[k] = M!MergeOne(g[k - 1], events[k]) /\ h[k - 1] = g[k - 1]  BY <1>3, <1>4
      <3> QED  BY <1>3, <2>1, <3>1
    <2>2. CASE n # k
      <3>1. n \in 0..(k - 1)  BY <1>4, <2>2
      <3>2. g[n] = IF n = 0 THEN rows ELSE M!MergeOne(g[n - 1], events[n])
          BY <1>5, <3>1 DEF IsMergeOf
      <3>3. h[n] = g[n] /\ (n # 0 => h[n - 1] = g[n - 1])  BY <1>4, <2>2, <3>1
      <3> QED  BY <3>2, <3>3
    <2> QED  BY <2>1, <2>2
  <1>7. Is(h, k)  BY <1>6 DEF IsMergeOf
  <1> QED  BY <1>2, <1>7 DEF IsMergeOf

MergesOver(after, rows, events) ==
    /\ after[0] = rows
    /\ \A n \in 1..Len(events) : after[n] = M!MergeOne(after[n - 1], events[n])
    /\ M!MergeRemoteMessages(rows, events) = after[Len(events)]
LEMMA MergeIs ==
    ASSUME NEW rows, NEW events, Len(events) \in Nat
    PROVE  \E after : MergesOver(after, rows, events)
  <1> DEFINE N == Len(events)
             after == CHOOSE g : IsMergeOf(g, rows, events, N)
  <1>1. \E g : IsMergeOf(g, rows, events, N)  BY MergeGoesOn
  <1>2. after = [n \in 0..N |-> IF n = 0 THEN rows ELSE M!MergeOne(after[n - 1], events[n])]
    <2> HIDE DEF N
    <2>1. IsMergeOf(after, rows, events, N)  BY <1>1
    <2> QED  BY <2>1 DEF IsMergeOf
  <1>3. M!MergeRemoteMessages(rows, events) = after[N]  BY DEF M!MergeRemoteMessages, IsMergeOf
  <1> HIDE DEF after
  <1>4. N \in Nat  OBVIOUS
  <1> HIDE DEF N
  <1>5. after[0] = rows  BY <1>2, <1>4
  <1>6. \A n \in 1..N : after[n] = M!MergeOne(after[n - 1], events[n])  BY <1>2, <1>4
  <1> QED  BY <1>3, <1>5, <1>6 DEF N, MergesOver

(* Rows that only change in what they show.                                *)
SameRows(rows, new) ==
    /\ new \in Seq(ChatRow) /\ Len(new) = Len(rows)
    /\ \A i \in 1..Len(rows) : new[i].id = rows[i].id /\ new[i].of = rows[i].of
LEMMA RowsAre ==
    ASSUME NEW rows \in Seq(ChatRow)
    PROVE  /\ Len(rows) \in Nat /\ DOMAIN rows = 1..Len(rows)
           /\ \A i \in 1..Len(rows) : rows[i] \in ChatRow
  OBVIOUS
LEMMA RowFields == \A m \in ChatRow : m.id \in Nat /\ m.of \in Nat /\ m.text \in Nat
  BY DEF ChatRow
WithText(m, n) == [m EXCEPT !.text = n]
WithReaction(m, n) == [m EXCEPT !.reaction = n]
WithRead(m) == [m EXCEPT !.read = TRUE]
LEMMA TextShows ==
    ASSUME NEW m \in ChatRow, NEW n \in Nat
    PROVE  /\ WithText(m, n) \in ChatRow /\ WithText(m, n).id = m.id
           /\ WithText(m, n).of = m.of /\ WithText(m, n).text = n
  <1>1. PICK b \in BOOLEAN : m.read = b  BY DEF ChatRow
  <1>2. PICK c \in BOOLEAN : m.mine = c  BY DEF ChatRow
  <1>3. PICK i \in Nat, o \in Nat, t \in Nat, r \in Nat :
           m = [id |-> i, of |-> o, mine |-> c, text |-> t, reaction |-> r, read |-> b]
    BY <1>1, <1>2 DEF ChatRow
  <1> QED  BY <1>3 DEF ChatRow, WithText
LEMMA ReactionShows ==
    ASSUME NEW m \in ChatRow, NEW n \in Nat
    PROVE  /\ WithReaction(m, n) \in ChatRow /\ WithReaction(m, n).id = m.id
           /\ WithReaction(m, n).of = m.of /\ WithReaction(m, n).text = m.text
  <1>1. PICK b \in BOOLEAN : m.read = b  BY DEF ChatRow
  <1>2. PICK c \in BOOLEAN : m.mine = c  BY DEF ChatRow
  <1>3. PICK i \in Nat, o \in Nat, t \in Nat, r \in Nat :
           m = [id |-> i, of |-> o, mine |-> c, text |-> t, reaction |-> r, read |-> b]
    BY <1>1, <1>2 DEF ChatRow
  <1> QED  BY <1>3 DEF ChatRow, WithReaction
LEMMA ReadShows ==
    ASSUME NEW m \in ChatRow
    PROVE  /\ WithRead(m) \in ChatRow /\ WithRead(m).id = m.id
           /\ WithRead(m).of = m.of /\ WithRead(m).text = m.text
  <1>1. PICK b \in BOOLEAN : m.read = b  BY DEF ChatRow
  <1>2. PICK c \in BOOLEAN : m.mine = c  BY DEF ChatRow
  <1>3. PICK i \in Nat, o \in Nat, t \in Nat, r \in Nat :
           m = [id |-> i, of |-> o, mine |-> c, text |-> t, reaction |-> r, read |-> b]
    BY <1>1, <1>2 DEF ChatRow
  <1> QED  BY <1>3 DEF ChatRow, WithRead

(* The edits of a message, and the last of them.                           *)
LEMMA EditsAre ==
    ASSUME NEW rows \in Seq(ChatRow), NEW id
    PROVE  /\ M!Edits(rows, id) \in SUBSET (1..Len(rows))
           /\ \A i \in 1..Len(rows) : i \in M!Edits(rows, id) <=> rows[i].of = id
           /\ M!Edits(rows, id) = {} => M!LastEdit(rows, id) = 0
           /\ M!Edits(rows, id) # {} =>
                 \E i \in M!Edits(rows, id) :
                    M!LastEdit(rows, id) = rows[i].id /\ \A j \in M!Edits(rows, id) : j <= i
           /\ M!LastEdit(rows, id) \in Nat
  <1>1. Len(rows) \in Nat /\ DOMAIN rows = 1..Len(rows)  BY RowsAre
  <1>2. /\ M!Edits(rows, id) \in SUBSET (1..Len(rows))
        /\ \A i \in 1..Len(rows) : i \in M!Edits(rows, id) <=> rows[i].of = id
    BY <1>1 DEF M!Edits
  <1>3. M!Edits(rows, id) = {} => M!LastEdit(rows, id) = 0  BY DEF M!LastEdit
  <1>4. ASSUME M!Edits(rows, id) # {}
        PROVE  \E i \in M!Edits(rows, id) :
                    M!LastEdit(rows, id) = rows[i].id /\ \A j \in M!Edits(rows, id) : j <= i
    <2> DEFINE places == M!Edits(rows, id)
    <2>1. M!Max(places) \in places /\ \A y \in places : M!Max(places) >= y
      BY <1>1, <1>2, <1>4, GreatestOf
    <2>2. M!LastEdit(rows, id) = rows[M!Max(places)].id  BY <1>4 DEF M!LastEdit
    <2>3. M!Max(places) \in Nat /\ \A y \in places : y \in Nat  BY <1>2, <2>1
    <2> HIDE DEF places
    <2>4. \A y \in places : y <= M!Max(places)  BY <2>1, <2>3
    <2> QED  BY <2>1, <2>2, <2>4 DEF places
  <1>5. M!LastEdit(rows, id) \in Nat
    <2>1. CASE M!Edits(rows, id) = {}  BY <1>3, <2>1
    <2>2. CASE M!Edits(rows, id) # {}
      <3>1. PICK i \in M!Edits(rows, id) : M!LastEdit(rows, id) = rows[i].id  BY <1>4, <2>2
      <3>2. rows[i] \in ChatRow  BY <1>2, RowsAre
      <3> QED  BY <3>1, <3>2, RowFields
    <2> QED  BY <2>1, <2>2
  <1> QED  BY <1>2, <1>3, <1>4, <1>5

LEMMA SameEdits ==
    ASSUME NEW rows \in Seq(ChatRow), NEW new, SameRows(rows, new)
    PROVE  /\ \A id : M!Edits(new, id) = M!Edits(rows, id) /\ M!LastEdit(new, id) = M!LastEdit(rows, id)
           /\ M!Bases(new) = M!Bases(rows) /\ M!Bases(rows) \in SUBSET (1..Len(rows))
           /\ DOMAIN new = DOMAIN rows /\ DOMAIN rows = 1..Len(rows)
  <1>1. /\ DOMAIN rows = 1..Len(rows) /\ DOMAIN new = DOMAIN rows
    BY RowsAre DEF SameRows
  <1>2. \A i \in DOMAIN rows : new[i].id = rows[i].id /\ new[i].of = rows[i].of
    BY <1>1 DEF SameRows
  <1>3. M!Bases(new) = M!Bases(rows) /\ M!Bases(rows) \in SUBSET (1..Len(rows))
    BY <1>1, <1>2 DEF M!Bases
  <1>4. ASSUME NEW id
        PROVE  M!Edits(new, id) = M!Edits(rows, id) /\ M!LastEdit(new, id) = M!LastEdit(rows, id)
    <2>1. M!Edits(new, id) = M!Edits(rows, id)  BY <1>1, <1>2 DEF M!Edits
    <2>2. CASE M!Edits(rows, id) = {}  BY <2>1, <2>2 DEF M!LastEdit
    <2>3. CASE M!Edits(rows, id) # {}
      <3>1. M!Max(M!Edits(rows, id)) \in M!Edits(rows, id)
        BY <2>3, RowsAre, EditsAre, GreatestOf
      <3>2. M!Max(M!Edits(rows, id)) \in DOMAIN rows  BY <1>1, <3>1, EditsAre
      <3> QED  BY <1>2, <2>1, <2>3, <3>2 DEF M!LastEdit
    <2> QED  BY <2>1, <2>2, <2>3
  <1> QED  BY <1>1, <1>3, <1>4

(* What the steps of a merge make of the rows.                             *)
LEMMA SetTextIs ==
    ASSUME NEW rows \in Seq(ChatRow), NEW id, NEW text \in Nat
    PROVE  /\ SameRows(rows, M!SetText(rows, id, text))
           /\ \A i \in 1..Len(rows) :
                 M!SetText(rows, id, text)[i].text = IF rows[i].id = id THEN text ELSE rows[i].text
  <1> DEFINE new == M!SetText(rows, id, text)
  <1>1. Len(rows) \in Nat /\ DOMAIN rows = 1..Len(rows) /\ \A i \in 1..Len(rows) : rows[i] \in ChatRow
    BY RowsAre
  <1>2. new = [i \in 1..Len(rows) |->
                  IF rows[i].id = id THEN WithText(rows[i], text) ELSE rows[i]]
    BY <1>1 DEF M!SetText, WithText
  <1> HIDE DEF new
  <1>3. ASSUME NEW i \in 1..Len(rows)
        PROVE  /\ new[i] \in ChatRow /\ new[i].id = rows[i].id /\ new[i].of = rows[i].of
               /\ new[i].text = IF rows[i].id = id THEN text ELSE rows[i].text
    <2>1. new[i] = IF rows[i].id = id THEN WithText(rows[i], text) ELSE rows[i]  BY <1>2
    <2>2. rows[i] \in ChatRow  BY <1>1
    <2>3. CASE rows[i].id = id
      <3>1. new[i] = WithText(rows[i], text)  BY <2>1, <2>3
      <3> QED  BY <2>2, <2>3, <3>1, TextShows
    <2>4. CASE rows[i].id # id  BY <2>1, <2>2, <2>4
    <2> QED  BY <2>3, <2>4
  <1>4. new \in Seq(ChatRow) /\ Len(new) = Len(rows)  BY <1>1, <1>2, <1>3
  <1>5. SameRows(rows, new)  BY <1>3, <1>4 DEF SameRows
  <1> QED  BY <1>3, <1>5 DEF new
LEMMA ResolveIs ==
    ASSUME NEW rows \in Seq(ChatRow)
    PROVE  /\ SameRows(rows, M!ResolveMessageEdits(rows))
           /\ \A i \in 1..Len(rows) :
                 M!ResolveMessageEdits(rows)[i].text =
                     IF rows[i].of = 0 /\ M!LastEdit(rows, rows[i].id) # 0
                     THEN M!LastEdit(rows, rows[i].id) ELSE rows[i].text
  <1> DEFINE new == M!ResolveMessageEdits(rows)
             newest(i) == M!LastEdit(rows, rows[i].id)
  <1>1. Len(rows) \in Nat /\ DOMAIN rows = 1..Len(rows) /\ \A i \in 1..Len(rows) : rows[i] \in ChatRow
    BY RowsAre
  <1>2. new = [i \in 1..Len(rows) |->
                  IF rows[i].of = 0 /\ newest(i) # 0 THEN WithText(rows[i], newest(i)) ELSE rows[i]]
    BY <1>1 DEF M!ResolveMessageEdits, M!Bases, WithText
  <1> HIDE DEF new
  <1>3. ASSUME NEW i \in 1..Len(rows)
        PROVE  /\ new[i] \in ChatRow /\ new[i].id = rows[i].id /\ new[i].of = rows[i].of
               /\ new[i].text = IF rows[i].of = 0 /\ newest(i) # 0 THEN newest(i) ELSE rows[i].text
    <2>1. new[i] = IF rows[i].of = 0 /\ newest(i) # 0 THEN WithText(rows[i], newest(i)) ELSE rows[i]
      BY <1>2
    <2>2. rows[i] \in ChatRow /\ newest(i) \in Nat  BY <1>1, EditsAre
    <2> HIDE DEF newest
    <2>3. CASE rows[i].of = 0 /\ newest(i) # 0
      <3>1. new[i] = WithText(rows[i], newest(i))  BY <2>1, <2>3
      <3>2. PICK t \in Nat : t = newest(i)  BY <2>2
      <3>3. /\ WithText(rows[i], t) \in ChatRow /\ WithText(rows[i], t).id = rows[i].id
            /\ WithText(rows[i], t).of = rows[i].of /\ WithText(rows[i], t).text = t
        BY <2>2, TextShows
      <3> QED  BY <2>3, <3>1, <3>2, <3>3
    <2>4. CASE ~(rows[i].of = 0 /\ newest(i) # 0)  BY <2>1, <2>2, <2>4
    <2> QED  BY <2>3, <2>4
  <1>4. new \in Seq(ChatRow) /\ Len(new) = Len(rows)  BY <1>1, <1>2, <1>3
  <1>5. SameRows(rows, new)  BY <1>3, <1>4 DEF SameRows
  <1> QED  BY <1>3, <1>5 DEF new
LEMMA ReactionIs ==
    ASSUME NEW rows \in Seq(ChatRow), NEW e \in ChatEvent
    PROVE  /\ SameRows(rows, M!ApplyMessageReaction(rows, e))
           /\ \A i \in 1..Len(rows) : M!ApplyMessageReaction(rows, e)[i].text = rows[i].text
  <1> DEFINE new == M!ApplyMessageReaction(rows, e)
             mark == IF e.kind = "none" THEN 0 ELSE e.id
  <1>1. Len(rows) \in Nat /\ DOMAIN rows = 1..Len(rows) /\ \A i \in 1..Len(rows) : rows[i] \in ChatRow
    BY RowsAre
  <1>2. new = [i \in 1..Len(rows) |->
                  IF rows[i].id = e.of THEN WithReaction(rows[i], mark) ELSE rows[i]]
    BY <1>1 DEF M!ApplyMessageReaction, WithReaction
  <1> HIDE DEF new
  <1>3. ASSUME NEW i \in 1..Len(rows)
        PROVE  new[i] \in ChatRow /\ new[i].id = rows[i].id /\ new[i].of = rows[i].of /\ new[i].text = rows[i].text
    <2>1. new[i] = IF rows[i].id = e.of THEN WithReaction(rows[i], mark) ELSE rows[i]  BY <1>2
    <2>2. rows[i] \in ChatRow /\ mark \in Nat  BY <1>1 DEF ChatEvent
    <2> HIDE DEF mark
    <2> QED  BY <2>1, <2>2, ReactionShows
  <1>4. new \in Seq(ChatRow) /\ Len(new) = Len(rows)  BY <1>1, <1>2, <1>3
  <1>5. SameRows(rows, new)  BY <1>3, <1>4 DEF SameRows
  <1> QED  BY <1>3, <1>5 DEF new
LEMMA ReceiptsAre ==
    ASSUME NEW rows \in Seq(ChatRow), NEW events
    PROVE  /\ SameRows(rows, M!MergeReadReceipts(rows, events))
           /\ \A i \in 1..Len(rows) : M!MergeReadReceipts(rows, events)[i].text = rows[i].text
  <1> DEFINE new == M!MergeReadReceipts(rows, events)
             there(i) == \E n \in DOMAIN events : events[n].kind = "read" /\ events[n].of = rows[i].id
  <1>1. Len(rows) \in Nat /\ DOMAIN rows = 1..Len(rows) /\ \A i \in 1..Len(rows) : rows[i] \in ChatRow
    BY RowsAre
  <1>2. new = [i \in 1..Len(rows) |-> IF there(i) THEN WithRead(rows[i]) ELSE rows[i]]
    BY <1>1 DEF M!MergeReadReceipts, WithRead
  <1> HIDE DEF new
  <1>3. ASSUME NEW i \in 1..Len(rows)
        PROVE  new[i] \in ChatRow /\ new[i].id = rows[i].id /\ new[i].of = rows[i].of /\ new[i].text = rows[i].text
    <2>1. new[i] = IF there(i) THEN WithRead(rows[i]) ELSE rows[i]  BY <1>2
    <2>2. rows[i] \in ChatRow  BY <1>1
    <2> HIDE DEF there
    <2>3. CASE there(i)
      <3>1. new[i] = WithRead(rows[i])  BY <2>1, <2>3
      <3> QED  BY <2>2, <3>1, ReadShows
    <2>4. CASE ~there(i)  BY <2>1, <2>2, <2>4
    <2> QED  BY <2>3, <2>4
  <1>4. new \in Seq(ChatRow) /\ Len(new) = Len(rows)  BY <1>1, <1>2, <1>3
  <1>5. SameRows(rows, new)  BY <1>3, <1>4 DEF SameRows
  <1> QED  BY <1>3, <1>5 DEF new

(* The next event of the log is none of an edit, or of one that is let     *)
(* through: the rows are those of a longer log.                            *)
LEMMA FitsLonger ==
    ASSUME NEW L, NEW O, NEW rows, NEW s \in Nat, NEW P, ListFits(L, O, rows, s, P),
           L[s + 1].kind # "edit" \/ L[s + 1].of \in P
    PROVE  ListFits(L, O, rows, s + 1, P)
  <1>1. \A p \in 1..s + 1 : p \in 1..s \/ p = s + 1  OBVIOUS
  <1>2. 1..s \subseteq 1..s + 1  OBVIOUS
  <1>3. EditsThere(L, rows, s + 1, P)
    BY <1>1 DEF ListFits, EditsThere
  <1>4. EditsOfLog(L, rows, s + 1)  BY <1>2 DEF ListFits, EditsOfLog
  <1>5. InOrder(L, rows, s + 1, P)
    <2>1. ASSUME NEW p \in 1..s + 1, NEW q \in 1..s + 1, p < q,
                 L[p].kind = "edit" /\ L[q].kind = "edit" /\ L[p].of = L[q].of /\ L[p].of \notin P
          PROVE  p \in 1..s /\ q \in 1..s
      BY <1>1, <2>1
    <2> QED  BY <2>1 DEF ListFits, InOrder
  <1>6. ASSUME NEW id, id \notin P, OwnEdit(L, O, s, id) PROVE OwnEdit(L, O, s + 1, id)
    <2>1. \A p \in s + 1..Len(L) : p = s + 1 \/ p \in (s + 1) + 1..Len(L)  OBVIOUS
    <2> QED  BY <1>6, <2>1 DEF OwnEdit
  <1>7. Untouched(L, O, rows, s + 1, P)  BY <1>6 DEF ListFits, Untouched
  <1> QED  BY <1>3, <1>4, <1>5, <1>7 DEF ListFits

(* Rows that keep their ids, and the texts of messages without an edit or  *)
(* those they were sent with.                                              *)
LEMMA FitsSame ==
    ASSUME NEW L, NEW O, NEW rows \in Seq(ChatRow), NEW s, NEW P, ListFits(L, O, rows, s, P),
           NEW new, SameRows(rows, new),
           \A i \in 1..Len(rows) : rows[i].of = 0 /\ M!Edits(rows, rows[i].id) = {} =>
              \/ new[i].text \in {0, rows[i].text} \/ rows[i].id \in P
              \/ OwnEdit(L, O, s, rows[i].id)
    PROVE  ListFits(L, O, new, s, P)
  <1>1. /\ \A id : M!Edits(new, id) = M!Edits(rows, id)
        /\ M!Bases(new) = M!Bases(rows) /\ M!Bases(rows) \in SUBSET (1..Len(rows))
        /\ DOMAIN new = DOMAIN rows /\ DOMAIN rows = 1..Len(rows)
    BY SameEdits
  <1>2. \A i \in DOMAIN rows : new[i].id = rows[i].id /\ new[i].of = rows[i].of
    BY <1>1 DEF SameRows
  <1>3. OneRow(L, O, new)  BY <1>1, <1>2 DEF ListFits, OneRow
  <1>4. EditsThere(L, new, s, P)  BY <1>1, <1>2 DEF ListFits, EditsThere
  <1>5. EditsOfLog(L, new, s)  BY <1>1, <1>2 DEF ListFits, EditsOfLog
  <1>6. InOrder(L, new, s, P)  BY <1>1, <1>2 DEF ListFits, InOrder
  <1>7. Untouched(L, O, new, s, P)
    <2>1. ASSUME NEW i \in M!Bases(new), M!Edits(new, new[i].id) = {}
          PROVE  new[i].text = 0 \/ new[i].id \in P \/ OwnEdit(L, O, s, new[i].id)
      <3>1. /\ i \in M!Bases(rows) /\ i \in 1..Len(rows) /\ new[i].id = rows[i].id
            /\ M!Edits(rows, rows[i].id) = {} /\ rows[i].of = 0
        BY <1>1, <1>2, <2>1 DEF M!Bases
      <3>2. rows[i].text = 0 \/ rows[i].id \in P \/ OwnEdit(L, O, s, rows[i].id)
        BY <3>1 DEF ListFits, Untouched
      <3> QED  BY <3>1, <3>2
    <2> QED  BY <2>1 DEF Untouched
  <1> QED  BY <1>3, <1>4, <1>5, <1>6, <1>7 DEF ListFits

(* A row is added at the end.                                              *)
LEMMA RowAdded ==
    ASSUME NEW rows \in Seq(ChatRow), NEW m \in ChatRow
    PROVE  /\ Append(rows, m) \in Seq(ChatRow) /\ Len(Append(rows, m)) = Len(rows) + 1
           /\ Append(rows, m)[Len(rows) + 1] = m
           /\ \A i \in 1..Len(rows) : Append(rows, m)[i] = rows[i]
           /\ DOMAIN Append(rows, m) = 1..Len(rows) + 1 /\ DOMAIN rows = 1..Len(rows) /\ Len(rows) \in Nat
           /\ \A id : M!Edits(Append(rows, m), id) =
                        M!Edits(rows, id) \cup (IF m.of = id THEN {Len(rows) + 1} ELSE {})
           /\ M!Bases(Append(rows, m)) = M!Bases(rows) \cup (IF m.of = 0 THEN {Len(rows) + 1} ELSE {})
  <1> DEFINE new == Append(rows, m)
             n == Len(rows)
  <1>1. /\ new \in Seq(ChatRow) /\ Len(new) = n + 1 /\ new[n + 1] = m
        /\ \A i \in 1..n : new[i] = rows[i]
    BY AppendProperties
  <1>2. n \in Nat /\ DOMAIN rows = 1..n  BY RowsAre
  <1>3. DOMAIN new = 1..n + 1  BY <1>1, RowsAre
  <1> HIDE DEF new, n
  <1>4. \A i : i \in 1..n + 1 <=> i \in 1..n \/ i = n + 1  BY <1>2
  <1>5. n + 1 \notin 1..n  BY <1>2
  <1>6. ASSUME NEW id
        PROVE  M!Edits(new, id) = M!Edits(rows, id) \cup (IF m.of = id THEN {n + 1} ELSE {})
    BY <1>1, <1>2, <1>3, <1>4, <1>5 DEF M!Edits
  <1>7. M!Bases(new) = M!Bases(rows) \cup (IF m.of = 0 THEN {n + 1} ELSE {})
    BY <1>1, <1>2, <1>3, <1>4, <1>5 DEF M!Bases
  <1> QED  BY <1>1, <1>2, <1>3, <1>6, <1>7 DEF new, n

(* A message or an edit of the log that is not there yet is added.         *)
LEMMA FitsAdded ==
    ASSUME NEW L \in Seq(ChatEvent), NEW O, OneEvent(L, O), NEW rows \in Seq(ChatRow), NEW s \in Nat, NEW P,
           ListFits(L, O, rows, s, P), NEW p \in 1..Len(L), p <= s + 1, s <= Len(L),
           L[p].kind \in {"text", "edit"}, NEW m \in ChatRow,
           m.id = L[p].id, m.of = L[p].of, m.of = 0 => m.text = 0,
           ~\E i \in DOMAIN rows : rows[i].id = m.id
    PROVE  ListFits(L, O, Append(rows, m), M!Later(s, p), P)
  <1> DEFINE new == Append(rows, m)
             n == Len(rows) + 1
             t == M!Later(s, p)
  <1>1. /\ new[n] = m /\ n \notin DOMAIN rows
        /\ \A i \in DOMAIN rows : new[i] = rows[i]
        /\ \A i \in DOMAIN new : i \in DOMAIN rows \/ i = n
        /\ n \in DOMAIN new /\ DOMAIN rows \subseteq DOMAIN new
        /\ \A i \in DOMAIN rows : i \in Nat /\ i < n
        /\ \A id : M!Edits(new, id) = M!Edits(rows, id) \cup (IF m.of = id THEN {n} ELSE {})
        /\ M!Bases(new) = M!Bases(rows) \cup (IF m.of = 0 THEN {n} ELSE {})
    BY RowAdded
  <1>2. /\ s <= t /\ t \in Nat /\ p \in 1..t /\ t <= Len(L)
        /\ \A q \in 1..t : q \in 1..s \/ q = p
        /\ \A q \in 1..s : q \in 1..t
        /\ \A q \in s + 1..Len(L) : q = p \/ q \in t + 1..Len(L)
        /\ p \in 1..s \/ \A q \in 1..t : q <= p
    BY DEF M!Later
  <1>3. /\ L[p] \in KnownEvents(L, O) /\ L[p].kind # "read"
        /\ L[p].of = 0 <=> L[p].kind = "text"
        /\ \A q \in 1..Len(L) : L[q].kind # "read" /\ L[q].id = L[p].id => q = p
        /\ \A d \in KnownEvents(L, O) : d.id = L[p].id => d = L[p]
    BY DEF OneEvent, KnownEvents, IsMade
  <1>4. /\ \A i, j \in DOMAIN rows : rows[i].id = rows[j].id => i = j
        /\ \A i \in DOMAIN rows, e \in KnownEvents(L, O) :
              rows[i].id = e.id => rows[i].of = e.of /\ e.kind \in {"text", "edit"}
    BY DEF ListFits, OneRow
  <1> HIDE DEF new, n, t
  <1>5. OneRow(L, O, new)
    <2>1. \A i, j \in DOMAIN new : new[i].id = new[j].id => i = j
      BY <1>1, <1>4
    <2>2. ASSUME NEW i \in DOMAIN new, NEW e \in KnownEvents(L, O), new[i].id = e.id
          PROVE  new[i].of = e.of /\ e.kind \in {"text", "edit"}
      <3>1. CASE i \in DOMAIN rows  BY <1>1, <1>4, <2>2, <3>1
      <3>2. CASE i = n  BY <1>1, <1>3, <2>2, <3>2
      <3> QED  BY <1>1, <3>1, <3>2
    <2> QED  BY <2>1, <2>2 DEF OneRow
  <1>6. EditsThere(L, new, t, P)
    <2>1. ASSUME NEW q \in 1..t, L[q].kind = "edit", L[q].of \notin P
          PROVE  \E i \in DOMAIN new : new[i].id = L[q].id /\ new[i].of = L[q].of
      <3>1. CASE q \in 1..s
        <4>1. PICK i \in DOMAIN rows : rows[i].id = L[q].id /\ rows[i].of = L[q].of
          BY <2>1, <3>1 DEF ListFits, EditsThere
        <4> QED  BY <1>1, <4>1
      <3>2. CASE q = p  BY <1>1, <3>2
      <3> QED  BY <1>2, <3>1, <3>2
    <2> QED  BY <2>1 DEF EditsThere
  <1>7. EditsOfLog(L, new, t)
    <2>1. ASSUME NEW i \in DOMAIN new, new[i].of # 0
          PROVE  \E q \in 1..t : L[q].kind = "edit" /\ new[i].id = L[q].id /\ new[i].of = L[q].of
      <3>1. CASE i \in DOMAIN rows
        <4>1. PICK q \in 1..s : L[q].kind = "edit" /\ rows[i].id = L[q].id /\ rows[i].of = L[q].of
          BY <1>1, <2>1, <3>1 DEF ListFits, EditsOfLog
        <4> QED  BY <1>1, <1>2, <3>1, <4>1
      <3>2. CASE i = n  BY <1>1, <1>2, <1>3, <2>1, <3>2
      <3> QED  BY <1>1, <3>1, <3>2
    <2> QED  BY <2>1 DEF EditsOfLog
  <1>8. InOrder(L, new, t, P)
    <2>1. ASSUME NEW a1 \in 1..t, NEW a2 \in 1..t, a1 < a2, L[a1].kind = "edit", L[a2].kind = "edit",
                 L[a1].of = L[a2].of, L[a1].of \notin P, NEW i \in DOMAIN new, NEW j \in DOMAIN new,
                 new[i].id = L[a1].id, new[j].id = L[a2].id
          PROVE  i < j
      <3>1. CASE i = n
        <4>1. a1 \in 1..Len(L) /\ L[a1].id = L[p].id  BY <1>1, <1>2, <2>1, <3>1
        <4>2. a1 = p  BY <1>3, <2>1, <4>1
        <4>3. p \in 1..s
          <5>1. p < a2 /\ a2 \in 1..t  BY <2>1, <4>2
          <5>2. ~(a2 <= p)  BY <5>1
          <5> QED  BY <1>2, <5>1, <5>2
        <4>4. PICK k \in DOMAIN rows : rows[k].id = L[p].id
          BY <2>1, <4>2, <4>3 DEF ListFits, EditsThere
        <4> QED  BY <4>4
      <3>2. CASE i \in DOMAIN rows /\ j = n  BY <1>1, <3>2
      <3>3. CASE i \in DOMAIN rows /\ j \in DOMAIN rows
        <4>1. ASSUME NEW q \in 1..t, NEW k \in DOMAIN rows, rows[k].id = L[q].id PROVE q \in 1..s
          BY <1>2, <4>1
        <4>2. a1 \in 1..s /\ a2 \in 1..s /\ rows[i].id = L[a1].id /\ rows[j].id = L[a2].id
          BY <1>1, <2>1, <3>3, <4>1
        <4> QED  BY <2>1, <3>3, <4>2 DEF ListFits, InOrder
      <3> QED  BY <1>1, <3>1, <3>2, <3>3
    <2> QED  BY <2>1 DEF InOrder
  <1>9. Untouched(L, O, new, t, P)
    <2>1. ASSUME NEW i \in M!Bases(new), M!Edits(new, new[i].id) = {},
                 new[i].text # 0, new[i].id \notin P
          PROVE  OwnEdit(L, O, t, new[i].id)
      <3>1. CASE i = n
        <4>1. m.of = 0
          <5>1. m.of # 0 => i \in M!Bases(rows)  BY <1>1
          <5>2. M!Bases(rows) \subseteq DOMAIN rows  BY DEF M!Bases
          <5> QED  BY <1>1, <3>1, <5>1, <5>2
        <4> QED  BY <1>1, <2>1, <3>1, <4>1
      <3>2. CASE i # n
        <4>1. i \in M!Bases(rows) /\ i \in DOMAIN rows /\ new[i] = rows[i]
          <5>1. i \in M!Bases(rows)  BY <1>1, <3>2
          <5> QED  BY <1>1, <5>1 DEF M!Bases
        <4>2. M!Edits(rows, rows[i].id) = {} /\ m.of # rows[i].id  BY <1>1, <2>1, <4>1
        <4>3. OwnEdit(L, O, s, rows[i].id)  BY <2>1, <4>1, <4>2 DEF ListFits, Untouched
        <4> QED  BY <1>2, <4>1, <4>2, <4>3 DEF OwnEdit
      <3> QED  BY <3>1, <3>2
    <2> QED  BY <2>1 DEF Untouched
  <1> QED  BY <1>5, <1>6, <1>7, <1>8, <1>9 DEF ListFits, new, t

(* What the edits say is put over the messages.                            *)
LEMMA ResolveFits ==
    ASSUME NEW L, NEW O, NEW rows \in Seq(ChatRow), NEW s, NEW P, ListFits(L, O, rows, s, P)
    PROVE  /\ ListFits(L, O, M!ResolveMessageEdits(rows), s, P) /\ SameRows(rows, M!ResolveMessageEdits(rows))
           /\ Resolved(M!ResolveMessageEdits(rows))
  <1> DEFINE new == M!ResolveMessageEdits(rows)
  <1>1. /\ SameRows(rows, new)
        /\ \A i \in 1..Len(rows) :
              new[i].text = IF rows[i].of = 0 /\ M!LastEdit(rows, rows[i].id) # 0
                            THEN M!LastEdit(rows, rows[i].id) ELSE rows[i].text
    BY ResolveIs
  <1> HIDE DEF new
  <1>2. ListFits(L, O, new, s, P)
    <2>1. \A i \in 1..Len(rows) : M!Edits(rows, rows[i].id) = {} => new[i].text = rows[i].text
      BY <1>1, EditsAre
    <2> QED  BY <1>1, <2>1, FitsSame
  <1>3. Resolved(new)
    <2>1. ASSUME NEW i \in M!Bases(new), M!LastEdit(new, new[i].id) # 0
          PROVE  new[i].text = M!LastEdit(new, new[i].id)
      <3>1. /\ i \in 1..Len(rows) /\ i \in M!Bases(rows)
            /\ M!LastEdit(new, new[i].id) = M!LastEdit(rows, new[i].id)
        BY <1>1, SameEdits
      <3>2. rows[i].of = 0 /\ new[i].id = rows[i].id  BY <1>1, <3>1 DEF M!Bases, SameRows
      <3> QED  BY <1>1, <2>1, <3>1, <3>2
    <2> QED  BY <2>1 DEF Resolved
  <1> QED  BY <1>1, <1>2, <1>3 DEF new

LEMMA MessageIs ==
    ASSUME NEW e \in ChatEvent
    PROVE  /\ M!Message(e) \in ChatRow /\ M!Message(e).id = e.id /\ M!Message(e).of = e.of
           /\ M!Message(e).text = IF e.of = 0 THEN 0 ELSE e.id
           /\ e.id \in Nat /\ e.of \in Nat
  BY DEF M!Message, ChatRow, ChatEvent
LEMMA SameRight ==
    ASSUME NEW rows \in Seq(ChatRow), NEW new, SameRows(rows, new), NEW n, NEW x, RightRows(rows, n, x)
    PROVE  RightRows(new, n, x)
  <1>1. DOMAIN new = DOMAIN rows /\ DOMAIN rows = 1..Len(rows)  BY SameEdits
  <1> QED  BY <1>1 DEF RightRows, SameRows
LEMMA SameResolved ==
    ASSUME NEW rows \in Seq(ChatRow), NEW new, SameRows(rows, new), Resolved(rows),
           \A i \in 1..Len(rows) : new[i].text = rows[i].text
    PROVE  Resolved(new)
  <1>1. ASSUME NEW i \in M!Bases(new), M!LastEdit(new, new[i].id) # 0
        PROVE  new[i].text = M!LastEdit(new, new[i].id)
    <2>1. i \in 1..Len(rows) /\ i \in M!Bases(rows) /\ new[i].id = rows[i].id
      BY SameEdits DEF SameRows
    <2>2. M!LastEdit(new, new[i].id) = M!LastEdit(rows, rows[i].id)  BY <2>1, SameEdits
    <2> QED  BY <1>1, <2>1, <2>2 DEF Resolved
  <1> QED  BY <1>1 DEF Resolved

(* One event is merged.                                                    *)
LEMMA MergeFits ==
    ASSUME NEW L \in Seq(ChatEvent), NEW O, OneEvent(L, O), NEW rows \in Seq(ChatRow), NEW s \in Nat, NEW P,
           ListFits(L, O, rows, s, P), NEW p \in 1..Len(L), p <= s + 1, s <= Len(L),
           NEW n, NEW x, RightRows(rows, n, x), RightEvents(L, O, n, x), L[p].kind \in {"text", "edit"}
    PROVE  /\ M!Merge(rows, M!Message(L[p])) \in Seq(ChatRow)
           /\ ListFits(L, O, M!Merge(rows, M!Message(L[p])), M!Later(s, p), P)
           /\ RightRows(M!Merge(rows, M!Message(L[p])), n, x)
           /\ Resolved(M!Merge(rows, M!Message(L[p])))
  <1> DEFINE m == M!Message(L[p])
             there == \E i \in DOMAIN rows : rows[i].id = m.id
             next == IF there THEN M!SetText(rows, m.id, m.text) ELSE Append(rows, m)
  <1>1. L[p] \in ChatEvent  OBVIOUS
  <1>2. /\ m \in ChatRow /\ m.id = L[p].id /\ m.of = L[p].of /\ m.text = IF m.of = 0 THEN 0 ELSE m.id
        /\ m.text \in Nat
    BY <1>1, MessageIs, RowFields
  <1>3. M!Merge(rows, m) = M!ResolveMessageEdits(next)  BY DEF M!Merge, M!Resolves
  <1>4. next \in Seq(ChatRow) /\ ListFits(L, O, next, M!Later(s, p), P) /\ RightRows(next, n, x)
    <2>1. /\ L[p] \in KnownEvents(L, O) /\ L[p].kind # "read"
          /\ L[p].of = 0 <=> L[p].kind = "text"
          /\ \A q \in 1..Len(L) : L[q].kind # "read" /\ L[q].id = L[p].id => q = p
      BY DEF OneEvent, KnownEvents, IsMade
    <2>2. CASE there
      <3>1. next = M!SetText(rows, m.id, m.text)  BY <2>2
      <3> HIDE DEF m
      <3>2. /\ SameRows(rows, next)
            /\ \A i \in 1..Len(rows) : next[i].text = IF rows[i].id = m.id THEN m.text ELSE rows[i].text
        BY <1>2, <3>1, SetTextIs
      <3>3. PICK k \in DOMAIN rows : rows[k].id = L[p].id  BY <1>2, <2>2
      <3>4. rows[k].of = L[p].of  BY <2>1, <3>3 DEF ListFits, OneRow
      <3>5. \A i \in 1..Len(rows) : rows[i].of = 0 => next[i].text \in {0, rows[i].text}
        <4>1. \A i \in 1..Len(rows) : rows[i].id = m.id => rows[i].of = m.of
          <5>1. DOMAIN rows = 1..Len(rows)  BY RowsAre
          <5> QED  BY <1>2, <2>1, <5>1 DEF ListFits, OneRow
        <4> QED  BY <1>2, <3>2, <4>1
      <3>6. ListFits(L, O, next, s, P)  BY <3>2, <3>5, FitsSame
      <3>7. ListFits(L, O, next, M!Later(s, p), P)
        <4>1. CASE p <= s  BY <3>6, <4>1 DEF M!Later
        <4>2. CASE p = s + 1
          <5>1. L[s + 1].kind # "edit"
            <6>1. SUFFICES ASSUME L[p].kind = "edit" PROVE FALSE
              BY <4>2
            <6>2. rows[k].of # 0  BY <2>1, <3>4, <6>1
            <6>3. PICK q \in 1..s : L[q].kind = "edit" /\ rows[k].id = L[q].id
              BY <3>3, <6>2 DEF ListFits, EditsOfLog
            <6>4. q \in 1..Len(L)  OBVIOUS
            <6> QED  BY <2>1, <3>3, <4>2, <6>3, <6>4
          <5>2. M!Later(s, p) = s + 1  BY <4>2 DEF M!Later
          <5> QED  BY <3>6, <5>1, <5>2, FitsLonger
        <4> QED  BY <4>1, <4>2
      <3> QED  BY <3>2, <3>7, SameRight DEF SameRows
    <2>3. CASE ~there
      <3>1. next = Append(rows, m)  BY <2>3
      <3> HIDE DEF m
      <3>2. ~\E i \in DOMAIN rows : rows[i].id = m.id  BY <2>3
      <3>3. ListFits(L, O, next, M!Later(s, p), P)
        BY <1>2, <3>1, <3>2, FitsAdded
      <3>4. RightRows(next, n, x)
        <4>1. m.id \in 1..n - 1 /\ (m.id = x => m.of = 0)  BY <1>2, <2>1 DEF RightEvents
        <4>2. /\ next[Len(rows) + 1] = m
              /\ \A i \in DOMAIN next : i \in DOMAIN rows \/ i = Len(rows) + 1
              /\ \A i \in DOMAIN rows : next[i] = rows[i]
          BY <1>2, <3>1, RowAdded
        <4> QED  BY <4>1, <4>2 DEF RightRows
      <3> QED  BY <1>2, <3>1, <3>3, <3>4, RowAdded
    <2> QED  BY <2>2, <2>3
  <1> HIDE DEF next
  <1>5. /\ ListFits(L, O, M!ResolveMessageEdits(next), M!Later(s, p), P)
        /\ SameRows(next, M!ResolveMessageEdits(next)) /\ Resolved(M!ResolveMessageEdits(next))
    BY <1>4, ResolveFits
  <1> QED  BY <1>3, <1>4, <1>5, SameRight DEF SameRows

LEMMA MergeOneFits ==
    ASSUME NEW L \in Seq(ChatEvent), NEW O, OneEvent(L, O), NEW rows \in Seq(ChatRow), NEW s \in Nat, NEW P,
           ListFits(L, O, rows, s, P), NEW p \in 1..Len(L), p <= s + 1, s <= Len(L),
           NEW n, NEW x, RightRows(rows, n, x), RightEvents(L, O, n, x)
    PROVE  /\ M!MergeOne(rows, L[p]) \in Seq(ChatRow)
           /\ ListFits(L, O, M!MergeOne(rows, L[p]), M!Later(s, p), P)
           /\ RightRows(M!MergeOne(rows, L[p]), n, x)
           /\ Resolved(rows) \/ L[p].kind \in {"text", "edit"} => Resolved(M!MergeOne(rows, L[p]))
  <1> DEFINE new == M!MergeOne(rows, L[p])
  <1>1. L[p] \in ChatEvent  OBVIOUS
  <1>2. L[p].kind \in {"text", "edit", "reaction", "none", "read"}  BY <1>1 DEF ChatEvent
  <1>3. CASE L[p].kind \in {"text", "edit"}
    <2>1. new = M!Merge(rows, M!Message(L[p]))  BY <1>3 DEF M!MergeOne
    <2> HIDE DEF new
    <2> QED  BY <1>3, <2>1, MergeFits DEF new
  <1>4. CASE L[p].kind \notin {"text", "edit"}
    <2>1. SameRows(rows, new) /\ \A i \in 1..Len(rows) : new[i].text = rows[i].text
      <3>1. CASE L[p].kind = "read"
        <4>1. new = rows  BY <3>1 DEF M!MergeOne
        <4> QED  BY <4>1 DEF SameRows
      <3>2. CASE L[p].kind \in {"reaction", "none"}
        <4>1. new = M!ApplyMessageReaction(rows, L[p])  BY <3>2 DEF M!MergeOne
        <4> QED  BY <1>1, <4>1, ReactionIs
      <3> QED  BY <1>2, <1>4, <3>1, <3>2
    <2> HIDE DEF new
    <2>2. ListFits(L, O, new, s, P)  BY <2>1, FitsSame
    <2>3. ListFits(L, O, new, M!Later(s, p), P)
      <3>1. CASE p <= s  BY <2>2, <3>1 DEF M!Later
      <3>2. CASE p = s + 1
        <4>1. L[s + 1].kind # "edit" /\ M!Later(s, p) = s + 1  BY <1>4, <3>2 DEF M!Later
        <4> QED  BY <2>2, <4>1, FitsLonger
      <3> QED  BY <3>1, <3>2
    <2>4. Resolved(rows) => Resolved(new)  BY <2>1, SameResolved
    <2>5. RightRows(new, n, x)  BY <2>1, SameRight
    <2> QED  BY <1>4, <2>1, <2>3, <2>4, <2>5 DEF SameRows, new
  <1> QED  BY <1>3, <1>4

(* All events between two places of the log are merged, but perhaps for    *)
(* one, an event of a message that is let through: the gap.                *)
PlaceOf(from, gap, k) == IF k < gap THEN from + k ELSE from + k + 1
MergedTo(s, from, gap, k) == M!Later(s, IF k + 1 < gap THEN from + k ELSE from + k + 1)
Brings(L, P, from, events, gap) ==
    /\ from \in Nat /\ Len(events) \in Nat /\ gap \in Nat \ {0}
    /\ \A k \in 1..Len(events) :
          PlaceOf(from, gap, k) \in 1..Len(L) /\ events[k] = L[PlaceOf(from, gap, k)]
    /\ gap <= Len(events) + 1 => from + gap <= Len(L) /\ L[from + gap].of \in P
LEMMA MergeAll ==
    ASSUME NEW L \in Seq(ChatEvent), NEW O, OneEvent(L, O), NEW rows \in Seq(ChatRow), NEW s \in Nat, NEW P,
           ListFits(L, O, rows, s, P), s <= Len(L), NEW n, NEW x, RightRows(rows, n, x), RightEvents(L, O, n, x),
           NEW from, NEW events, NEW gap, from <= s, Brings(L, P, from, events, gap)
    PROVE  /\ M!MergeRemoteMessages(rows, events) \in Seq(ChatRow)
           /\ ListFits(L, O, M!MergeRemoteMessages(rows, events), MergedTo(s, from, gap, Len(events)), P)
           /\ RightRows(M!MergeRemoteMessages(rows, events), n, x)
           /\ Resolved(rows) \/ (\E k \in 1..Len(events) : events[k].kind \in {"text", "edit"})
                 => Resolved(M!MergeRemoteMessages(rows, events))
  <1> DEFINE l == Len(events)
             At(k) == PlaceOf(from, gap, k)
             To(k) == MergedTo(s, from, gap, k)
  <1>11. from \in Nat /\ Len(events) \in Nat /\ gap \in Nat \ {0}  BY DEF Brings
  <1>0. PICK after : MergesOver(after, rows, events)  BY <1>11, MergeIs
  <1>1. /\ after[0] = rows
        /\ \A k \in 1..Len(events) : after[k] = M!MergeOne(after[k - 1], events[k])
        /\ M!MergeRemoteMessages(rows, events) = after[Len(events)]
    BY <1>0 DEF MergesOver
  <1> HIDE DEF l
  <1>2. l \in Nat /\ from \in Nat /\ gap \in Nat \ {0}  BY <1>11 DEF l
  <1>3. \A k \in 1..l : At(k) \in 1..Len(L) /\ events[k] = L[At(k)]  BY DEF l, Brings
  <1>4. gap <= l + 1 => from + gap <= Len(L) /\ L[from + gap].of \in P  BY DEF l, Brings
  <1> DEFINE Some(k) == \E h \in 1..k : events[h].kind \in {"text", "edit"}
             Good(k) == /\ after[k] \in Seq(ChatRow) /\ ListFits(L, O, after[k], To(k), P)
                        /\ RightRows(after[k], n, x)
                        /\ Resolved(rows) \/ Some(k) => Resolved(after[k])
             Bad == {k \in 0..l : ~Good(k)}
  <1>5. \A k \in 0..l : To(k) \in Nat /\ To(k) <= Len(L)
    <2>1. ASSUME NEW k \in 0..l PROVE To(k) \in Nat /\ To(k) <= Len(L)
      <3>1. Len(L) \in Nat /\ (k + 1 = gap => from + k + 1 <= Len(L))  BY <1>2, <1>4
      <3>2. CASE k = 0  BY <1>2, <3>1, <3>2 DEF MergedTo, M!Later
      <3>3. CASE k # 0
        <4>1. k \in 1..l /\ At(k) \in 1..Len(L)  BY <1>2, <1>3, <3>3
        <4> QED  BY <1>2, <3>1, <4>1 DEF MergedTo, M!Later, PlaceOf
      <3> QED  BY <3>2, <3>3
    <2> QED  BY <2>1
  (* The one that is let through, if it is the next.                       *)
  <1>6. ASSUME NEW k \in 0..l, NEW new, ListFits(L, O, new, M!Later(s, At(k)), P)
        PROVE  ListFits(L, O, new, To(k), P)
    <2>1. CASE k + 1 = gap
      <3>1. L[(from + k) + 1].of \in P /\ At(k) = from + k
        BY <1>2, <1>4, <2>1 DEF PlaceOf
      <3>2. CASE s <= from + k
        <4>1. M!Later(s, At(k)) = from + k /\ To(k) = (from + k) + 1 /\ from + k \in Nat
          BY <1>2, <2>1, <3>1, <3>2 DEF MergedTo, M!Later
        <4> QED  BY <1>6, <3>1, <4>1, FitsLonger
      <3>3. CASE s > from + k
        <4>1. To(k) = s /\ M!Later(s, At(k)) = s
          BY <1>2, <2>1, <3>1, <3>3 DEF MergedTo, M!Later
        <4> QED  BY <1>6, <4>1
      <3> QED  BY <1>2, <3>2, <3>3
    <2>2. CASE k + 1 # gap
      <3>1. To(k) = M!Later(s, At(k))  BY <1>2, <2>2 DEF MergedTo, PlaceOf
      <3> QED  BY <1>6, <3>1
    <2> QED  BY <2>1, <2>2
  <1>7. Good(0)
    <2>1. M!Later(s, At(0)) = s  BY <1>2 DEF M!Later, PlaceOf
    <2>2. ListFits(L, O, after[0], To(0), P)  BY <1>1, <1>2, <1>6, <2>1
    <2>3. ~Some(0)  OBVIOUS
    <2> QED  BY <1>1, <2>2, <2>3
  <1>8. ASSUME NEW k \in 1..l, Good(k - 1) PROVE Good(k)
    <2> DEFINE old == after[k - 1]
               t == To(k - 1)
    <2>1. after[k] = M!MergeOne(old, L[At(k)])  BY <1>1, <1>3 DEF l
    <2>2. k - 1 \in 0..l /\ k \in 0..l /\ At(k) \in 1..Len(L)  BY <1>2, <1>3
    <2>3. t \in Nat /\ t <= Len(L)  BY <1>5, <2>2
    <2>4. At(k) <= t + 1 /\ M!Later(t, At(k)) = M!Later(s, At(k))
      BY <1>2, <2>2 DEF PlaceOf, MergedTo, M!Later
    <2>5. /\ old \in Seq(ChatRow) /\ ListFits(L, O, old, t, P) /\ RightRows(old, n, x)
          /\ Resolved(rows) \/ Some(k - 1) => Resolved(old)
      BY <1>8
    <2> HIDE DEF old, t
    <2>6. /\ after[k] \in Seq(ChatRow) /\ ListFits(L, O, after[k], M!Later(t, At(k)), P)
          /\ RightRows(after[k], n, x)
          /\ Resolved(old) \/ L[At(k)].kind \in {"text", "edit"} => Resolved(after[k])
      BY <2>1, <2>2, <2>3, <2>4, <2>5, MergeOneFits
    <2>7. ListFits(L, O, after[k], To(k), P)  BY <1>6, <2>2, <2>4, <2>6
    <2>8. Some(k) => Some(k - 1) \/ L[At(k)].kind \in {"text", "edit"}
      <3>1. \A h \in 1..k : h \in 1..k - 1 \/ h = k  BY <1>2
      <3> QED  BY <1>3, <3>1
    <2> QED  BY <2>5, <2>6, <2>7, <2>8
  <1>9. \A k \in 0..l : Good(k)
    <2>1. SUFFICES ASSUME Bad # {} PROVE FALSE
      OBVIOUS
    <2> HIDE DEF Good
    <2>2. Bad \in SUBSET Nat /\ Bad \in SUBSET (0..l)  BY <1>2
    <2>3. PICK k \in Bad : \A y \in Bad : k <= y  BY <2>1, <2>2, LeastOf
    <2>4. k \in 0..l /\ k # 0 /\ ~Good(k)  BY <1>7, <2>3
    <2>5. k \in 1..l /\ k - 1 \in 0..l /\ ~(k <= k - 1)  BY <1>2, <2>4
    <2>6. k - 1 \notin Bad  BY <2>3, <2>5
    <2>7. Good(k - 1)  BY <2>5, <2>6
    <2> QED  BY <1>8, <2>4, <2>5, <2>7
  <1>10. Good(l) /\ M!MergeRemoteMessages(rows, events) = after[l]  BY <1>1, <1>2, <1>9 DEF l
  <1> QED  BY <1>10 DEF l

(* More messages are let through.                                          *)
LEMMA FitsPassed ==
    ASSUME NEW L, NEW O, NEW rows, NEW s, NEW P, NEW Q, P \subseteq Q, ListFits(L, O, rows, s, P)
    PROVE  ListFits(L, O, rows, s, Q)
  <1>1. EditsThere(L, rows, s, Q)  BY DEF ListFits, EditsThere
  <1>2. InOrder(L, rows, s, Q)  BY DEF ListFits, InOrder
  <1>3. Untouched(L, O, rows, s, Q)  BY DEF ListFits, Untouched
  <1> QED  BY <1>1, <1>2, <1>3 DEF ListFits
(* The log or the outbox grows, or an event goes from one to the other.    *)
LEMMA FitsElse ==
    ASSUME NEW L, NEW O, NEW rows, NEW s, NEW P, ListFits(L, O, rows, s, P), NEW H, NEW R,
           \A p \in 1..s : H[p] = L[p],
           \A e \in KnownEvents(H, R) :
              e \in KnownEvents(L, O) \/ \A i \in DOMAIN rows : rows[i].id # e.id,
           \A id : OwnEdit(L, O, s, id) =>
              OwnEdit(H, R, s, id) \/ id \in P \/ M!Edits(rows, id) # {}
    PROVE  ListFits(H, R, rows, s, P)
  <1>1. OneRow(H, R, rows)  BY DEF ListFits, OneRow
  <1>2. EditsThere(H, rows, s, P)  BY DEF ListFits, EditsThere
  <1>3. EditsOfLog(H, rows, s)  BY DEF ListFits, EditsOfLog
  <1>4. InOrder(H, rows, s, P)  BY DEF ListFits, InOrder
  <1>5. Untouched(H, R, rows, s, P)  BY DEF ListFits, Untouched
  <1> QED  BY <1>1, <1>2, <1>3, <1>4, <1>5 DEF ListFits

(* A message of one's own is added before it is in the log.                *)
LEMMA FitsAddedOwn ==
    ASSUME NEW L, NEW O, NEW rows \in Seq(ChatRow), NEW s, NEW P, ListFits(L, O, rows, s, P),
           NEW m \in ChatRow, m.of = 0, m.text = 0, ~\E i \in DOMAIN rows : rows[i].id = m.id,
           \A e \in KnownEvents(L, O) : e.id = m.id => e.of = 0 /\ e.kind = "text",
           \A p \in 1..s : L[p].kind = "edit" => L[p].id # m.id
    PROVE  ListFits(L, O, Append(rows, m), s, P)
  <1> DEFINE new == Append(rows, m)
             n == Len(rows) + 1
  <1>1. /\ new[n] = m /\ n \notin DOMAIN rows
        /\ \A i \in DOMAIN rows : new[i] = rows[i]
        /\ \A i \in DOMAIN new : i \in DOMAIN rows \/ i = n
        /\ n \in DOMAIN new /\ DOMAIN rows \subseteq DOMAIN new
        /\ \A id : M!Edits(new, id) = M!Edits(rows, id) \cup (IF m.of = id THEN {n} ELSE {})
        /\ M!Bases(new) = M!Bases(rows) \cup (IF m.of = 0 THEN {n} ELSE {})
    BY RowAdded
  <1> HIDE DEF new, n
  <1>2. OneRow(L, O, new)
    <2>1. \A i, j \in DOMAIN new : new[i].id = new[j].id => i = j  BY <1>1 DEF ListFits, OneRow
    <2>2. ASSUME NEW i \in DOMAIN new, NEW e \in KnownEvents(L, O), new[i].id = e.id
          PROVE  new[i].of = e.of /\ e.kind \in {"text", "edit"}
      <3>1. CASE i \in DOMAIN rows  BY <1>1, <2>2, <3>1 DEF ListFits, OneRow
      <3>2. CASE i = n  BY <1>1, <2>2, <3>2
      <3> QED  BY <1>1, <3>1, <3>2
    <2> QED  BY <2>1, <2>2 DEF OneRow
  <1>3. EditsThere(L, new, s, P)
    <2>1. ASSUME NEW q \in 1..s, L[q].kind = "edit", L[q].of \notin P
          PROVE  \E i \in DOMAIN new : new[i].id = L[q].id /\ new[i].of = L[q].of
      <3>1. PICK i \in DOMAIN rows : rows[i].id = L[q].id /\ rows[i].of = L[q].of
        BY <2>1 DEF ListFits, EditsThere
      <3> QED  BY <1>1, <3>1
    <2> QED  BY <2>1 DEF EditsThere
  <1>4. EditsOfLog(L, new, s)
    <2>1. ASSUME NEW i \in DOMAIN new, new[i].of # 0 PROVE i \in DOMAIN rows /\ new[i] = rows[i]
      BY <1>1, <2>1
    <2> QED  BY <2>1 DEF ListFits, EditsOfLog
  <1>5. InOrder(L, new, s, P)
    <2>1. ASSUME NEW i \in DOMAIN new, NEW q \in 1..s, L[q].kind = "edit", new[i].id = L[q].id
          PROVE  i \in DOMAIN rows /\ new[i] = rows[i]
      BY <1>1, <2>1
    <2> QED  BY <2>1 DEF ListFits, InOrder
  <1>6. Untouched(L, O, new, s, P)
    <2>1. ASSUME NEW i \in M!Bases(new), M!Edits(new, new[i].id) = {}, new[i].text # 0
          PROVE  new[i].id \in P \/ OwnEdit(L, O, s, new[i].id)
      <3>1. i # n /\ i \in M!Bases(rows)  BY <1>1, <2>1
      <3>2. i \in DOMAIN rows /\ new[i] = rows[i]  BY <1>1, <3>1 DEF M!Bases
      <3>3. M!Edits(rows, rows[i].id) = {}  BY <1>1, <2>1, <3>2
      <3> QED  BY <2>1, <3>1, <3>2, <3>3 DEF ListFits, Untouched
    <2> QED  BY <2>1 DEF Untouched
  <1> QED  BY <1>2, <1>3, <1>4, <1>5, <1>6 DEF ListFits, new

(* A message is deleted.                                                   *)
LEMMA RowRemoved ==
    ASSUME NEW rows \in Seq(ChatRow), NEW d \in 1..Len(rows)
    PROVE  LET new == M!RemoveAt(rows, d) old(i) == IF i < d THEN i ELSE i + 1 IN
           /\ new \in Seq(ChatRow) /\ DOMAIN rows = 1..Len(rows)
           /\ \A i \in DOMAIN new : old(i) \in DOMAIN rows \ {d} /\ new[i] = rows[old(i)]
           /\ \A j \in DOMAIN rows \ {d} : \E i \in DOMAIN new : old(i) = j
           /\ \A i, j \in DOMAIN new : i < j <=> old(i) < old(j)
           /\ \A i, j \in DOMAIN new : old(i) = old(j) => i = j
  <1> DEFINE l == SubSeq(rows, 1, d - 1)
             r == SubSeq(rows, d + 1, Len(rows))
             new == M!RemoveAt(rows, d)
             old(i) == IF i < d THEN i ELSE i + 1
  <1>1. rows \in Seq(ChatRow) /\ Len(rows) \in Nat /\ d \in Nat /\ 1 <= d /\ d <= Len(rows)  OBVIOUS
  <1>2. l \in Seq(ChatRow) /\ Len(l) = d - 1 /\ \A i \in 1..(d - 1) : l[i] = rows[i]  BY <1>1
  <1>3. /\ r \in Seq(ChatRow) /\ Len(r) = Len(rows) - d
        /\ \A i \in 1..(Len(rows) - d) : r[i] = rows[i + d]
    BY <1>1
  <1>4. new = l \o r  BY DEF M!RemoveAt
  <1> HIDE DEF l, r, new
  <1>5. /\ new \in Seq(ChatRow) /\ Len(new) = Len(l) + Len(r)
        /\ \A i \in 1..(Len(l) + Len(r)) : new[i] = IF i <= Len(l) THEN l[i] ELSE r[i - Len(l)]
    BY <1>2, <1>3, <1>4, ConcatProperties
  <1>6. Len(new) = Len(rows) - 1 /\ DOMAIN new = 1..Len(rows) - 1 /\ DOMAIN rows = 1..Len(rows)
    BY <1>1, <1>2, <1>3, <1>5, RowsAre
  <1>7. ASSUME NEW i \in 1..Len(rows) - 1
        PROVE  old(i) \in 1..Len(rows) /\ old(i) # d /\ new[i] = rows[old(i)]
    <2>1. i \in 1..(Len(l) + Len(r)) /\ i \in Nat  BY <1>1, <1>2, <1>3
    <2>2. CASE i < d
      <3>1. i <= Len(l) /\ i \in 1..(d - 1)  BY <1>1, <1>2, <2>1, <2>2
      <3> QED  BY <1>1, <1>2, <1>5, <2>1, <2>2, <3>1
    <2>3. CASE ~(i < d)
      <3>1. ~(i <= Len(l)) /\ i - Len(l) \in 1..(Len(rows) - d) /\ (i - Len(l)) + d = i + 1
        BY <1>1, <1>2, <2>1, <2>3
      <3>2. new[i] = rows[(i - Len(l)) + d]  BY <1>3, <1>5, <2>1, <3>1
      <3> QED  BY <1>1, <2>1, <2>3, <3>1, <3>2
    <2> QED  BY <2>2, <2>3
  <1>8. ASSUME NEW j \in 1..Len(rows), j # d PROVE \E i \in 1..Len(rows) - 1 : old(i) = j
    <2>1. CASE j < d  BY <1>1, <2>1
    <2>2. CASE j > d
      <3>1. j - 1 \in 1..Len(rows) - 1 /\ old(j - 1) = j  BY <1>1, <2>2
      <3> QED  BY <3>1
    <2> QED  BY <1>1, <1>8, <2>1, <2>2
  <1>9. \A i, j \in 1..Len(rows) - 1 : (i < j <=> old(i) < old(j)) /\ (old(i) = old(j) => i = j)
    BY <1>1
  <1> QED  BY <1>5, <1>6, <1>7, <1>8, <1>9 DEF new

LEMMA FitsRemoved ==
    ASSUME NEW L, NEW O, NEW rows \in Seq(ChatRow), NEW s, NEW P, ListFits(L, O, rows, s, P),
           NEW n, NEW x, RightRows(rows, n, x), NEW d \in M!Bases(rows),
           \A p \in 1..s : L[p].kind = "edit" => L[p].of # 0
    PROVE  /\ M!RemoveAt(rows, d) \in Seq(ChatRow) /\ ListFits(L, O, M!RemoveAt(rows, d), s, P)
           /\ RightRows(M!RemoveAt(rows, d), n, x)
  <1> DEFINE new == M!RemoveAt(rows, d)
             old(i) == IF i < d THEN i ELSE i + 1
  <1>1. d \in 1..Len(rows) /\ d \in DOMAIN rows /\ rows[d].of = 0  BY RowsAre DEF M!Bases
  <1>2. /\ new \in Seq(ChatRow)
        /\ \A i \in DOMAIN new : old(i) \in DOMAIN rows \ {d} /\ new[i] = rows[old(i)]
        /\ \A j \in DOMAIN rows \ {d} : \E i \in DOMAIN new : old(i) = j
        /\ \A i, j \in DOMAIN new : i < j <=> old(i) < old(j)
        /\ \A i, j \in DOMAIN new : old(i) = old(j) => i = j
    BY <1>1, RowRemoved
  <1> HIDE DEF new, old
  <1>3. OneRow(L, O, new)  BY <1>2 DEF ListFits, OneRow
  <1>4. EditsThere(L, new, s, P)
    <2>1. ASSUME NEW q \in 1..s, L[q].kind = "edit", L[q].of \notin P
          PROVE  \E i \in DOMAIN new : new[i].id = L[q].id /\ new[i].of = L[q].of
      <3>1. PICK j \in DOMAIN rows : rows[j].id = L[q].id /\ rows[j].of = L[q].of
        BY <2>1 DEF ListFits, EditsThere
      <3>2. j # d  BY <1>1, <2>1, <3>1
      <3>3. PICK i \in DOMAIN new : old(i) = j  BY <1>2, <3>2
      <3> QED  BY <1>2, <3>1, <3>3
    <2> QED  BY <2>1 DEF EditsThere
  <1>5. EditsOfLog(L, new, s)  BY <1>2 DEF ListFits, EditsOfLog
  <1>6. InOrder(L, new, s, P)  BY <1>2 DEF ListFits, InOrder
  <1>7. Untouched(L, O, new, s, P)
    <2>1. ASSUME NEW i \in M!Bases(new), M!Edits(new, new[i].id) = {}
          PROVE  new[i].text = 0 \/ new[i].id \in P \/ OwnEdit(L, O, s, new[i].id)
      <3>1. i \in DOMAIN new /\ new[i].of = 0  BY <2>1 DEF M!Bases
      <3>2. old(i) \in DOMAIN rows /\ new[i] = rows[old(i)]  BY <1>2, <3>1
      <3>3. old(i) \in M!Bases(rows)  BY <3>1, <3>2 DEF M!Bases
      <3>4. M!Edits(rows, rows[old(i)].id) = {}
        <4>1. SUFFICES ASSUME NEW j \in M!Edits(rows, rows[old(i)].id) PROVE FALSE
          OBVIOUS
        <4>2. j \in DOMAIN rows /\ rows[j].of = rows[old(i)].id  BY DEF M!Edits
        <4>3. rows[j].of # 0  BY <3>2, <4>2 DEF RightRows
        <4>4. PICK k \in DOMAIN new : old(k) = j  BY <1>1, <1>2, <4>2, <4>3
        <4>5. k \in M!Edits(new, new[i].id)  BY <1>2, <3>2, <4>2, <4>4 DEF M!Edits
        <4> QED  BY <2>1, <4>5
      <3> QED  BY <3>2, <3>3, <3>4 DEF ListFits, Untouched
    <2> QED  BY <2>1 DEF Untouched
  <1>8. RightRows(new, n, x)  BY <1>2 DEF RightRows
  <1> QED  BY <1>2, <1>3, <1>4, <1>5, <1>6, <1>7, <1>8 DEF new, ListFits

(* The events that are known, when one more is.                            *)
LEMMA KnownOne ==
    ASSUME NEW L, NEW O, NEW H, NEW R, NEW e, NEW n \in Nat, NEW x \in 0..n - 1, NEW rows, NEW y \in {0, x},
           KnownEvents(H, R) = KnownEvents(L, O) \cup {e}, e.id = n, n # 0,
           RightEvents(L, O, n, x), RightRows(rows, n, x),
           \A d, f \in KnownEvents(L, O) : d.id = f.id => d = f
    PROVE  /\ RightEvents(H, R, n + 1, y) /\ RightRows(rows, n + 1, y)
           /\ \A d, f \in KnownEvents(H, R) : d.id = f.id => d = f
           /\ \A i \in DOMAIN rows : rows[i].id # e.id
           /\ \A d \in KnownEvents(L, O) : d.id # e.id /\ d.id \in Nat
  <1>1. \A d \in KnownEvents(L, O) : d.id \in Nat /\ d.id # 0 /\ d.id < n  BY DEF RightEvents
  <1>2. \A i \in DOMAIN rows : rows[i].id \in Nat /\ rows[i].id # 0 /\ rows[i].id < n
    BY DEF RightRows
  <1>3. RightRows(rows, n + 1, y)
    <2>1. \A i \in DOMAIN rows : rows[i].id \in 1..(n + 1) - 1  BY <1>2
    <2> QED  BY <1>2, <2>1 DEF RightRows
  <1>4. RightEvents(H, R, n + 1, y)
    <2>1. n \in 1..(n + 1) - 1 /\ n # y /\ \A d \in KnownEvents(L, O) : d.id \in 1..(n + 1) - 1
      BY <1>1
    <2> QED  BY <1>1, <2>1 DEF RightEvents
  <1>5. \A i \in DOMAIN rows : rows[i].id # e.id  BY <1>2
  <1>6. \A d \in KnownEvents(L, O) : d.id # e.id /\ d.id \in Nat  BY <1>1
  <1> QED  BY <1>3, <1>4, <1>5, <1>6

LEMMA LogGrows ==
    ASSUME NEW L \in Seq(ChatEvent), NEW e \in ChatEvent
    PROVE  /\ Append(L, e) \in Seq(ChatEvent) /\ Len(Append(L, e)) = Len(L) + 1 /\ Len(L) \in Nat
           /\ Append(L, e)[Len(L) + 1] = e
           /\ \A p \in 1..Len(L) : Append(L, e)[p] = L[p]
           /\ \A p : p \in 1..Len(Append(L, e)) <=> p \in 1..Len(L) \/ p = Len(L) + 1
           /\ Len(L) + 1 \notin 1..Len(L)
           /\ \A O : KnownEvents(Append(L, e), O) =
                        KnownEvents(L, O) \cup (IF e.kind = "read" THEN {} ELSE {e})
           /\ \A O : \A s \in 0..Len(L) : \A id : OwnEdit(L, O, s, id) => OwnEdit(Append(L, e), O, s, id)
  <1> DEFINE H == Append(L, e)
             N == Len(L)
  <1>1. /\ H \in Seq(ChatEvent) /\ Len(H) = N + 1 /\ H[N + 1] = e /\ N \in Nat
        /\ \A p \in 1..N : H[p] = L[p]
    BY AppendProperties
  <1> HIDE DEF H
  <1>2. /\ \A p : p \in 1..Len(H) <=> p \in 1..N \/ p = N + 1
        /\ N + 1 \notin 1..N
    BY <1>1
  <1> HIDE DEF N
  <1>3. ASSUME NEW O
        PROVE  KnownEvents(H, O) = KnownEvents(L, O) \cup (IF e.kind = "read" THEN {} ELSE {e})
    BY <1>1, <1>2 DEF KnownEvents, N
  <1>4. ASSUME NEW O, NEW s \in 0..N, NEW id, OwnEdit(L, O, s, id) PROVE OwnEdit(H, O, s, id)
    <2>1. \A p \in s + 1..N : p \in 1..N /\ p \in s + 1..Len(H)  BY <1>1
    <2> QED  BY <1>1, <1>4, <2>1 DEF OwnEdit, N
  <1> QED  BY <1>1, <1>2, <1>3, <1>4 DEF H, N

LEMMA OutboxGrows ==
    ASSUME NEW L, NEW O, NEW r
    PROVE  /\ KnownEvents(L, O \cup {r}) = KnownEvents(L, O) \cup {r.event}
           /\ \A s, id : OwnEdit(L, O, s, id) => OwnEdit(L, O \cup {r}, s, id)
  <1>1. KnownEvents(L, O \cup {r}) = KnownEvents(L, O) \cup {r.event}  BY DEF KnownEvents
  <1>2. \A s, id : OwnEdit(L, O, s, id) => OwnEdit(L, O \cup {r}, s, id)  BY DEF OwnEdit
  <1> QED  BY <1>1, <1>2

(* Somebody makes an event: an id is given away, unless it is a receipt.   *)
LEMMA MakesIs ==
    ASSUME made \in [DOMAIN Limit -> Nat], NEW kind \in {"text", "edit", "reaction", "read"}, M!Makes(kind)
    PROVE  /\ made' \in [DOMAIN Limit -> Nat] /\ M!NewId \in Nat \ {0}
           /\ M!NewId' = IF kind = "read" THEN M!NewId ELSE M!NewId + 1
  <1>1. DOMAIN Limit = {"text", "edit", "reaction", "read"}
    BY MessengerAssumption DEF M!LimitAssumption
  <1>2. made' = [made EXCEPT ![kind] = @ + 1]  BY DEF M!Makes
  <1>3. made' \in [DOMAIN Limit -> Nat]  BY <1>1, <1>2
  <1>4. /\ made["text"] \in Nat /\ made["edit"] \in Nat /\ made["reaction"] \in Nat
        /\ \A k \in DOMAIN Limit : made'[k] = IF k = kind THEN made[k] + 1 ELSE made[k]
    BY <1>1, <1>2
  <1>5. M!NewId \in Nat \ {0}  BY <1>4 DEF M!NewId
  <1>6. /\ M!NewId = made["text"] + made["edit"] + made["reaction"] + 1
        /\ M!NewId' = made'["text"] + made'["edit"] + made'["reaction"] + 1
    BY DEF M!NewId
  <1>7. CASE kind = "text"
    <2>1. made'["text"] = made["text"] + 1 /\ made'["edit"] = made["edit"] /\ made'["reaction"] = made["reaction"]
      BY <1>1, <1>4, <1>7
    <2> QED  BY <1>3, <1>4, <1>5, <1>6, <1>7, <2>1
  <1>8. CASE kind = "edit"
    <2>1. made'["text"] = made["text"] /\ made'["edit"] = made["edit"] + 1 /\ made'["reaction"] = made["reaction"]
      BY <1>1, <1>4, <1>8
    <2> QED  BY <1>3, <1>4, <1>5, <1>6, <1>8, <2>1
  <1>9. CASE kind = "reaction"
    <2>1. made'["text"] = made["text"] /\ made'["edit"] = made["edit"] /\ made'["reaction"] = made["reaction"] + 1
      BY <1>1, <1>4, <1>9
    <2> QED  BY <1>3, <1>4, <1>5, <1>6, <1>9, <2>1
  <1>10. CASE kind = "read"
    <2>1. made'["text"] = made["text"] /\ made'["edit"] = made["edit"] /\ made'["reaction"] = made["reaction"]
      BY <1>1, <1>4, <1>10
    <2> QED  BY <1>3, <1>5, <1>6, <1>10, <2>1
  <1> QED  BY <1>7, <1>8, <1>9, <1>10

-------------------------------------------------------------------------------
(* The steps of the module.                                                *)
LEMMA NewIdIs == ChatTypes => M!NewId \in Nat \ {0}
  <1>1. DOMAIN Limit = {"text", "edit", "reaction", "read"}
    BY MessengerAssumption DEF M!LimitAssumption
  <1> QED  BY <1>1 DEF ChatTypes, M!NewId
LEMMA EditedIs == ChatInv => Edited(editing) \in 0..M!NewId - 1
  <1> SUFFICES ASSUME ChatInv PROVE Edited(editing) \in 0..M!NewId - 1
    OBVIOUS
  <1>1. M!NewId \in Nat \ {0}  BY NewIdIs DEF ChatInv
  <1>2. editing # <<>> => editing[1].id \in 1..M!NewId - 1  BY DEF ChatInv
  <1> QED  BY <1>1, <1>2 DEF Edited

LEMMA AppliesInv ==
    ASSUME ChatInv, NEW from, NEW events, NEW gap, Brings(log, passed', from, events, gap), from <= seen,
           DOMAIN events = 1..Len(events), NEW upto \in 0..Len(log), M!Applies(events, upto),
           passed' \subseteq Nat, passed \subseteq passed',
           MergedTo(seen, from, gap, Len(events)) = M!Later(seen, upto),
           cursor' \in Nat, cursor' <= seen', answer' = <<>> \/ answer' = answer
    PROVE  ChatInv'
  <1> DEFINE next == M!MergeRemoteMessages(messages, events)
             n == M!NewId
             x == Edited(editing)
  <1>1. /\ log \in Seq(ChatEvent) /\ messages \in Seq(ChatRow) /\ seen \in Nat /\ seen <= Len(log)
        /\ Len(log) \in Nat
    BY DEF ChatInv, ChatTypes
  <1>2. /\ messages' = M!MergeReadReceipts(next, events) /\ seen' = M!Later(seen, upto)
        /\ merged' = (merged \/ \E i \in DOMAIN events : events[i].kind \in {"text", "edit"})
        /\ UNCHANGED <<log, made, outbox, editing>>
    BY DEF M!Applies, M!ReconcileRemoteMessages, M!server
  <1>3. n' = n /\ x' = x  BY <1>2 DEF M!NewId, Edited
  <1>4. /\ OneEvent(log, outbox) /\ ListFits(log, outbox, messages, seen, passed')
        /\ RightRows(messages, n, x) /\ RightEvents(log, outbox, n, x)
        /\ merged => Resolved(messages)
    BY FitsPassed DEF ChatInv
  <1> HIDE DEF n, x
  <1>5. /\ next \in Seq(ChatRow) /\ ListFits(log, outbox, next, seen', passed') /\ RightRows(next, n, x)
        /\ Resolved(messages) \/ (\E k \in 1..Len(events) : events[k].kind \in {"text", "edit"})
                => Resolved(next)
    BY <1>1, <1>2, <1>4, MergeAll
  <1> HIDE DEF next
  <1>6. /\ SameRows(next, messages') /\ \A i \in 1..Len(next) : messages'[i].text = next[i].text
    BY <1>2, <1>5, ReceiptsAre
  <1>7. ListFits(log, outbox, messages', seen', passed')  BY <1>5, <1>6, FitsSame
  <1>8. RightRows(messages', n, x)  BY <1>5, <1>6, SameRight
  <1>9. merged' => Resolved(messages')  BY <1>2, <1>4, <1>5, <1>6, SameResolved
  <1>10. ChatTypes'
    <2>1. messages' \in Seq(ChatRow)  BY <1>6 DEF SameRows
    <2>2. seen' \in Nat /\ seen <= seen' /\ seen' <= Len(log)  BY <1>1, <1>2 DEF M!Later
    <2>3. merged' \in BOOLEAN  BY <1>2 DEF ChatInv, ChatTypes
    <2>4. \/ answer' = <<>>
          \/ /\ answer' \in Nat \X Nat /\ answer'[1] <= seen' /\ answer'[1] <= answer'[2]
             /\ answer'[2] <= Len(log)
      BY <1>1, <2>2 DEF ChatInv, ChatTypes
    <2> QED  BY <1>2, <2>1, <2>2, <2>3, <2>4 DEF ChatInv, ChatTypes
  <1>11. editing' # <<>> => editing'[1].of = 0 /\ editing'[1].id \in 1..M!NewId' - 1
    BY <1>2, <1>3 DEF ChatInv, n
  <1> QED
    BY <1>2, <1>3, <1>4, <1>7, <1>8, <1>9, <1>10, <1>11 DEF ChatInv, n, x

LEMMA RealtimeStep == ASSUME ChatInv, M!ApplyRealtimeEvent PROVE ChatInv'
  <1>1. /\ cursor < Len(log) /\ M!Applies(<<log[cursor + 1]>>, cursor + 1) /\ cursor' = cursor + 1
        /\ UNCHANGED <<answer, passed>>
    BY DEF M!ApplyRealtimeEvent
  <1>2. /\ cursor \in Nat /\ cursor <= seen /\ seen \in Nat /\ seen <= Len(log) /\ Len(log) \in Nat
        /\ passed \subseteq Nat /\ log \in Seq(ChatEvent)
    BY DEF ChatInv, ChatTypes
  <1> DEFINE events == <<log[cursor + 1]>>
  <1>3. /\ Len(events) = 1 /\ DOMAIN events = 1..1 /\ events[1] = log[cursor + 1]
        /\ \A k \in 1..1 : k = 1
    OBVIOUS
  <1> HIDE DEF events
  <1>4. /\ PlaceOf(cursor, 3, 1) = cursor + 1 /\ cursor + 1 \in 1..Len(log) /\ cursor + 1 \in 0..Len(log)
        /\ MergedTo(seen, cursor, 3, 1) = M!Later(seen, cursor + 1)
    BY <1>1, <1>2 DEF PlaceOf, MergedTo
  <1>5. seen' = M!Later(seen, cursor + 1)  BY <1>1 DEF M!Applies
  <1>6. cursor' <= seen' /\ cursor' \in Nat  BY <1>1, <1>2, <1>5 DEF M!Later
  <1>7. M!Applies(events, cursor + 1)  BY <1>1 DEF events
  <1>8. Brings(log, passed', cursor, events, 3)  BY <1>2, <1>3, <1>4 DEF Brings
  <1> QED  BY <1>1, <1>2, <1>3, <1>4, <1>6, <1>7, <1>8, AppliesInv

(* The events the answer to a sync brought.                                *)
LEMMA WindowIs ==
    ASSUME ChatInv, answer # <<>>
    PROVE  /\ answer[1] \in Nat /\ answer[1] <= seen /\ answer[2] \in 0..Len(log) /\ answer[1] <= answer[2]
           /\ M!Window \in Seq(ChatEvent) /\ Len(M!Window) = answer[2] - answer[1]
           /\ DOMAIN M!Window = 1..answer[2] - answer[1]
           /\ \A k \in 1..answer[2] - answer[1] :
                 answer[1] + k \in 1..Len(log) /\ M!Window[k] = log[answer[1] + k]
           /\ log \in Seq(ChatEvent) /\ Len(log) \in Nat /\ seen \in Nat /\ seen <= Len(log)
           /\ cursor \in Nat /\ cursor <= seen /\ passed \subseteq Nat
  <1>1. /\ answer \in Nat \X Nat /\ answer[1] <= seen /\ answer[1] <= answer[2] /\ answer[2] <= Len(log)
        /\ log \in Seq(ChatEvent) /\ Len(log) \in Nat /\ seen \in Nat /\ seen <= Len(log)
        /\ cursor \in Nat /\ cursor <= seen /\ passed \subseteq Nat
    BY DEF ChatInv, ChatTypes
  <1> DEFINE f == answer[1]
             u == answer[2]
             w == SubSeq(log, f + 1, u)
  <1>2. f \in Nat /\ u \in Nat  BY <1>1
  <1>3. M!Window = w  BY DEF M!Window
  <1> HIDE DEF f, u
  <1>4. u <= Len(log) /\ f <= u  BY <1>1 DEF f, u
  <1>5. /\ w \in Seq(ChatEvent) /\ Len(w) = u - f /\ DOMAIN w = 1..u - f
        /\ \A k \in 1..u - f : w[k] = log[f + k]
    BY <1>1, <1>2, <1>4
  <1>6. \A k \in 1..u - f : f + k \in 1..Len(log)  BY <1>1, <1>2, <1>4
  <1> QED  BY <1>1, <1>2, <1>3, <1>4, <1>5, <1>6 DEF f, u

LEMMA SyncStep == ASSUME ChatInv, M!ApplySyncResult PROVE ChatInv'
  <1> DEFINE from == answer[1]
             upto == answer[2]
             events == M!Window
             gap == upto - from + 2
  <1>1. /\ answer # <<>> /\ answer' = <<>> /\ M!Applies(events, upto)
        /\ cursor' = M!Later(cursor, upto) /\ UNCHANGED passed
    BY DEF M!ApplySyncResult
  <1>2. /\ from \in Nat /\ from <= seen /\ upto \in 0..Len(log) /\ from <= upto
        /\ events \in Seq(ChatEvent) /\ Len(events) = upto - from /\ DOMAIN events = 1..upto - from
        /\ \A k \in 1..upto - from : from + k \in 1..Len(log) /\ events[k] = log[from + k]
        /\ seen \in Nat /\ cursor \in Nat /\ cursor <= seen /\ passed \subseteq Nat /\ Len(log) \in Nat
    BY <1>1, WindowIs
  <1> HIDE DEF from, upto, events
  <1>3. gap \in Nat \ {0} /\ Len(events) \in Nat /\ ~(gap <= Len(events) + 1)  BY <1>2
  <1>4. \A k \in 1..Len(events) : PlaceOf(from, gap, k) = from + k  BY <1>2 DEF PlaceOf
  <1>5. MergedTo(seen, from, gap, Len(events)) = M!Later(seen, upto)  BY <1>2 DEF MergedTo, M!Later
  <1>6. seen' = M!Later(seen, upto)  BY <1>1 DEF M!Applies
  <1>7. cursor' \in Nat /\ cursor' <= seen'  BY <1>1, <1>2, <1>6 DEF M!Later
  <1> HIDE DEF gap
  <1>8. Brings(log, passed', from, events, gap)  BY <1>2, <1>3, <1>4 DEF Brings
  <1>9. DOMAIN events = 1..Len(events)  BY <1>2
  <1> QED  BY <1>1, <1>2, <1>5, <1>7, <1>8, <1>9, AppliesInv

LEMMA EventRemoved ==
    ASSUME NEW w \in Seq(ChatEvent), NEW d \in 1..Len(w)
    PROVE  /\ Len(M!RemoveAt(w, d)) = Len(w) - 1 /\ DOMAIN M!RemoveAt(w, d) = 1..Len(w) - 1
           /\ \A k \in 1..Len(w) - 1 : M!RemoveAt(w, d)[k] = w[IF k < d THEN k ELSE k + 1]
  <1> DEFINE l == SubSeq(w, 1, d - 1)
             r == SubSeq(w, d + 1, Len(w))
             new == M!RemoveAt(w, d)
  <1>1. w \in Seq(ChatEvent) /\ Len(w) \in Nat /\ d \in Nat /\ 1 <= d /\ d <= Len(w)  OBVIOUS
  <1>2. l \in Seq(ChatEvent) /\ Len(l) = d - 1 /\ \A i \in 1..(d - 1) : l[i] = w[i]  BY <1>1
  <1>3. /\ r \in Seq(ChatEvent) /\ Len(r) = Len(w) - d
        /\ \A i \in 1..(Len(w) - d) : r[i] = w[i + d]
    BY <1>1
  <1>4. new = l \o r  BY DEF M!RemoveAt
  <1> HIDE DEF l, r, new
  <1>5. /\ new \in Seq(ChatEvent) /\ Len(new) = Len(l) + Len(r)
        /\ \A i \in 1..(Len(l) + Len(r)) : new[i] = IF i <= Len(l) THEN l[i] ELSE r[i - Len(l)]
    BY <1>2, <1>3, <1>4, ConcatProperties
  <1>6. Len(new) = Len(w) - 1  BY <1>1, <1>2, <1>3, <1>5
  <1>7. ASSUME NEW i \in 1..Len(w) - 1 PROVE new[i] = w[IF i < d THEN i ELSE i + 1]
    <2>1. i \in 1..(Len(l) + Len(r)) /\ i \in Nat  BY <1>1, <1>2, <1>3
    <2>2. CASE i < d
      <3>1. i <= Len(l) /\ i \in 1..(d - 1)  BY <1>1, <1>2, <2>1, <2>2
      <3> QED  BY <1>2, <1>5, <2>1, <2>2, <3>1
    <2>3. CASE ~(i < d)
      <3>1. ~(i <= Len(l)) /\ i - Len(l) \in 1..(Len(w) - d) /\ (i - Len(l)) + d = i + 1
        BY <1>1, <1>2, <2>1, <2>3
      <3>2. new[i] = w[(i - Len(l)) + d]  BY <1>3, <1>5, <2>1, <3>1
      <3> QED  BY <2>3, <3>1, <3>2
    <2> QED  BY <2>2, <2>3
  <1>8. DOMAIN new = 1..Len(w) - 1  BY <1>5, <1>6
  <1> QED  BY <1>6, <1>7, <1>8 DEF new

LEMMA ReadableStep == ASSUME ChatInv, M!ApplyReadable PROVE ChatInv'
  <1> DEFINE from == answer[1]
             upto == answer[2]
             window == M!Window
  <1>1. /\ answer # <<>> /\ answer' = <<>> /\ UNCHANGED cursor
        /\ \E i \in DOMAIN window :
              M!Applies(M!RemoveAt(window, i), upto) /\ passed' = passed \cup {window[i].of}
    BY DEF M!ApplyReadable
  <1>2. /\ from \in Nat /\ from <= seen /\ upto \in 0..Len(log) /\ from <= upto
        /\ window \in Seq(ChatEvent) /\ Len(window) = upto - from /\ DOMAIN window = 1..upto - from
        /\ \A k \in 1..upto - from : from + k \in 1..Len(log) /\ window[k] = log[from + k]
        /\ seen \in Nat /\ cursor \in Nat /\ cursor <= seen /\ passed \subseteq Nat /\ Len(log) \in Nat
    BY <1>1, WindowIs
  <1> HIDE DEF from, upto, window
  <1>3. PICK i \in 1..upto - from :
           M!Applies(M!RemoveAt(window, i), upto) /\ passed' = passed \cup {window[i].of}
    BY <1>1, <1>2
  <1> DEFINE events == M!RemoveAt(window, i)
  <1>4. /\ Len(events) = upto - from - 1 /\ DOMAIN events = 1..upto - from - 1
        /\ \A k \in 1..upto - from - 1 : events[k] = window[IF k < i THEN k ELSE k + 1]
    <2>1. i \in 1..Len(window)  BY <1>2
    <2> QED  BY <1>2, <2>1, EventRemoved
  <1>5. M!Applies(events, upto)  BY <1>3
  <1> HIDE DEF events
  <1>6. i \in Nat \ {0} /\ i <= upto - from /\ upto \in Nat /\ from \in Nat /\ Len(events) \in Nat
    BY <1>2, <1>4
  <1>7. ASSUME NEW k \in 1..Len(events)
        PROVE  PlaceOf(from, i, k) \in 1..Len(log) /\ events[k] = log[PlaceOf(from, i, k)]
    <2>1. k \in 1..upto - from - 1 /\ k \in 1..upto - from /\ k + 1 \in 1..upto - from
      BY <1>4, <1>6
    <2>2. CASE k < i
      <3>1. events[k] = window[k] /\ PlaceOf(from, i, k) = from + k  BY <1>4, <2>1, <2>2 DEF PlaceOf
      <3> QED  BY <1>2, <2>1, <3>1
    <2>3. CASE ~(k < i)
      <3>1. events[k] = window[k + 1] /\ PlaceOf(from, i, k) = from + (k + 1)
        BY <1>4, <1>6, <2>1, <2>3 DEF PlaceOf
      <3> QED  BY <1>2, <2>1, <3>1
    <2> QED  BY <2>2, <2>3
  <1>8. MergedTo(seen, from, i, Len(events)) = M!Later(seen, upto)
    BY <1>2, <1>4, <1>6 DEF MergedTo, M!Later
  <1>9. from + i \in 1..Len(log) /\ window[i] = log[from + i]  BY <1>2
  <1>10. window[i].of \in Nat
    <2>1. window[i] \in ChatEvent  BY <1>2
    <2> QED  BY <2>1 DEF ChatEvent
  <1>11. passed' \subseteq Nat /\ passed \subseteq passed' /\ log[from + i].of \in passed'
    BY <1>2, <1>3, <1>9, <1>10
  <1>12. seen' = M!Later(seen, upto)  BY <1>5 DEF M!Applies
  <1>13. cursor' \in Nat /\ cursor' <= seen'  BY <1>1, <1>2, <1>12 DEF M!Later
  <1>14. Brings(log, passed', from, events, i)  BY <1>2, <1>6, <1>7, <1>9, <1>11 DEF Brings
  <1>15. DOMAIN events = 1..Len(events)  BY <1>4
  <1> QED  BY <1>1, <1>2, <1>5, <1>8, <1>11, <1>13, <1>14, <1>15, AppliesInv

(* The user sends something: an event with a new id goes to the outbox.    *)
LEMMA SendsIs ==
    ASSUME ChatInv, NEW e \in ChatEvent, IsMade(e), e.mine, e.id = M!NewId, e.kind # "read", M!Sends(e),
           Edited(editing') \in {0, Edited(editing)}
    PROVE  /\ OneEvent(log', outbox') /\ outbox' \subseteq Sending /\ log' = log
           /\ made' \in [DOMAIN Limit -> Nat] /\ M!NewId' = M!NewId + 1 /\ M!NewId \in Nat \ {0}
           /\ RightEvents(log', outbox', M!NewId', Edited(editing'))
           /\ RightRows(messages, M!NewId', Edited(editing'))
           /\ ListFits(log', outbox', messages, seen, passed)
           /\ \A i \in DOMAIN messages : messages[i].id # e.id
           /\ e \in KnownEvents(log', outbox')
           /\ e.kind = "edit" => OwnEdit(log', outbox', seen, e.of)
           /\ UNCHANGED <<cursor, answer, seen, passed>>
  <1> DEFINE r == [event |-> e, at |-> "queued"]
             n == M!NewId
             x == Edited(editing)
             y == Edited(editing')
  <1>1. /\ M!Makes(IF e.kind = "none" THEN "reaction" ELSE e.kind) /\ outbox' = outbox \cup {r}
        /\ UNCHANGED <<log, cursor, answer, seen, passed>>
    BY DEF M!Sends
  <1>2. (IF e.kind = "none" THEN "reaction" ELSE e.kind) \in {"text", "edit", "reaction", "read"}
    BY DEF ChatEvent
  <1>3. /\ made' \in [DOMAIN Limit -> Nat] /\ M!NewId' = n + 1 /\ n \in Nat \ {0}
    BY <1>1, <1>2, MakesIs DEF ChatInv, ChatTypes
  <1>4. r \in Sending /\ r.event = e /\ r.at = "queued"  BY DEF Sending
  <1>5. /\ KnownEvents(log, outbox') = KnownEvents(log, outbox) \cup {e}
        /\ \A s, id : OwnEdit(log, outbox, s, id) => OwnEdit(log, outbox', s, id)
    <2>1. outbox' = outbox \cup {r} /\ r.event = e  BY <1>1, <1>4
    <2> HIDE DEF r
    <2>2. /\ KnownEvents(log, outbox \cup {r}) = KnownEvents(log, outbox) \cup {r.event}
          /\ \A s, id : OwnEdit(log, outbox, s, id) => OwnEdit(log, outbox \cup {r}, s, id)
      BY OutboxGrows
    <2> QED  BY <2>1, <2>2
  <1>6. x \in 0..n - 1 /\ y \in {0, x}  BY EditedIs
  <1>7. /\ OneEvent(log, outbox) /\ ListFits(log, outbox, messages, seen, passed) /\ outbox \subseteq Sending
        /\ RightEvents(log, outbox, n, x) /\ RightRows(messages, n, x)
    BY DEF ChatInv, ChatTypes
  <1> HIDE DEF r, n, x, y
  <1>8. /\ RightEvents(log, outbox', n + 1, y) /\ RightRows(messages, n + 1, y)
        /\ \A d, f \in KnownEvents(log, outbox') : d.id = f.id => d = f
        /\ \A i \in DOMAIN messages : messages[i].id # e.id
    <2>1. \A d, f \in KnownEvents(log, outbox) : d.id = f.id => d = f  BY <1>7 DEF OneEvent
    <2>2. e.id = n /\ n \in Nat /\ n # 0  BY <1>3 DEF n
    <2> QED  BY <1>5, <1>6, <1>7, <2>1, <2>2, KnownOne
  <1>9. OneEvent(log, outbox')  BY <1>1, <1>4, <1>7, <1>8 DEF OneEvent
  <1>10. ListFits(log, outbox', messages, seen, passed)  BY <1>5, <1>7, <1>8, FitsElse
  <1>11. e.kind = "edit" => OwnEdit(log, outbox', seen, e.of)  BY <1>1, <1>4 DEF OwnEdit
  <1>12. outbox' \subseteq Sending  BY <1>1, <1>4, <1>7
  <1> QED
    BY <1>1, <1>3, <1>5, <1>8, <1>9, <1>10, <1>11, <1>12 DEF n, y

LEMMA SendMessageStep == ASSUME ChatInv, M!SendMessage PROVE ChatInv'
  <1> DEFINE e == M!Event("text", M!NewId, 0, TRUE)
             m == M!Message(e)
             next == Append(messages, m)
  <1>1. /\ M!Sends(e) /\ UNCHANGED editing /\ messages' = M!Merge(messages, m) /\ merged' = TRUE
    BY DEF M!SendMessage
  <1>2. M!NewId \in Nat \ {0}  BY NewIdIs DEF ChatInv
  <1>3. /\ e \in ChatEvent /\ e.kind = "text" /\ e.id = M!NewId /\ e.of = 0 /\ e.mine /\ IsMade(e)
    BY <1>2 DEF M!Event, ChatEvent, IsMade
  <1> HIDE DEF e
  <1>4. m \in ChatRow /\ m.id = e.id /\ m.of = 0 /\ m.text = 0  BY <1>3, MessageIs
  <1>5. Edited(editing') \in {0, Edited(editing)}  BY <1>1 DEF Edited
  <1>6. /\ OneEvent(log', outbox') /\ outbox' \subseteq Sending /\ log' = log
        /\ made' \in [DOMAIN Limit -> Nat] /\ M!NewId' = M!NewId + 1
        /\ RightEvents(log', outbox', M!NewId', Edited(editing'))
        /\ RightRows(messages, M!NewId', Edited(editing'))
        /\ ListFits(log', outbox', messages, seen, passed)
        /\ \A i \in DOMAIN messages : messages[i].id # e.id
        /\ e \in KnownEvents(log', outbox')
        /\ UNCHANGED <<cursor, answer, seen, passed>>
    BY <1>1, <1>3, <1>5, SendsIs
  <1> HIDE DEF m
  <1>7. messages \in Seq(ChatRow) /\ seen \in Nat /\ seen <= Len(log) /\ Len(log) \in Nat
    BY DEF ChatInv, ChatTypes
  <1>8. M!Merge(messages, m) = M!ResolveMessageEdits(next)
    BY <1>4, <1>6 DEF M!Merge, M!Resolves
  <1>9. ListFits(log', outbox', next, seen, passed)
    <2>1. \A d \in KnownEvents(log', outbox') : d.id = e.id => d = e  BY <1>6 DEF OneEvent
    <2>2. ASSUME NEW p \in 1..seen, log'[p].kind = "edit" PROVE log'[p].id # e.id
      <3>1. p \in 1..Len(log')  BY <1>6, <1>7
      <3>2. log'[p] \in KnownEvents(log', outbox')  BY <2>2, <3>1 DEF KnownEvents
      <3> QED  BY <1>3, <2>1, <2>2, <3>2
    <2>3. /\ ~\E i \in DOMAIN messages : messages[i].id = m.id
          /\ \A d \in KnownEvents(log', outbox') : d.id = m.id => d.of = 0 /\ d.kind = "text"
          /\ \A p \in 1..seen : log'[p].kind = "edit" => log'[p].id # m.id
      BY <1>3, <1>4, <1>6, <2>1, <2>2
    <2> QED  BY <1>4, <1>6, <1>7, <2>3, FitsAddedOwn
  <1>10. RightRows(next, M!NewId', Edited(editing'))
    <2>1. /\ next[Len(messages) + 1] = m
          /\ \A i \in DOMAIN next : i \in DOMAIN messages \/ i = Len(messages) + 1
          /\ \A i \in DOMAIN messages : next[i] = messages[i]
      BY <1>4, <1>7, RowAdded
    <2>2. m.id \in 1..M!NewId' - 1  BY <1>2, <1>3, <1>4, <1>6
    <2> QED  BY <1>4, <1>6, <2>1, <2>2 DEF RightRows
  <1>11. next \in Seq(ChatRow)  BY <1>4, <1>7, RowAdded
  <1> HIDE DEF next
  <1>12. /\ ListFits(log', outbox', messages', seen, passed) /\ SameRows(next, messages') /\ Resolved(messages')
    BY <1>1, <1>8, <1>9, <1>11, ResolveFits
  <1>13. RightRows(messages', M!NewId', Edited(editing'))  BY <1>10, <1>11, <1>12, SameRight
  <1>14. ChatTypes'
    <2>1. messages' \in Seq(ChatRow)  BY <1>12 DEF SameRows
    <2> QED  BY <1>1, <1>6, <2>1 DEF ChatInv, ChatTypes
  <1>15. editing' # <<>> => editing'[1].of = 0 /\ editing'[1].id \in 1..M!NewId' - 1
    <2>1. editing # <<>> => editing[1].of = 0 /\ editing[1].id \in 1..M!NewId - 1  BY DEF ChatInv
    <2> QED  BY <1>1, <1>2, <1>6, <2>1
  <1> QED  BY <1>6, <1>12, <1>13, <1>14, <1>15 DEF ChatInv

LEMMA EditStep == ASSUME ChatInv, M!ApplyMessageEdit PROVE ChatInv'
  <1> DEFINE m == editing[1]
             e == M!Event("edit", M!NewId, m.id, TRUE)
             changed == WithText(m, M!NewId)
  <1>1. /\ editing # <<>> /\ editing' = <<>> /\ M!Sends(e) /\ merged' = FALSE
        /\ messages' = [i \in DOMAIN messages |-> IF messages[i].id = m.id THEN changed ELSE messages[i]]
    BY DEF M!ApplyMessageEdit, M!Changes, WithText
  <1>2. M!NewId \in Nat \ {0}  BY NewIdIs DEF ChatInv
  <1>3. /\ messages \in Seq(ChatRow) /\ m \in ChatRow /\ m.of = 0 /\ m.id \in 1..M!NewId - 1 /\ m.id \in Nat /\ m.id # 0
        /\ Edited(editing) = m.id /\ RightRows(messages, M!NewId, m.id)
    BY <1>1 DEF ChatInv, ChatTypes, Edited
  <1> HIDE DEF m
  <1>4. /\ e \in ChatEvent /\ e.kind = "edit" /\ e.id = M!NewId /\ e.of = m.id /\ e.mine /\ IsMade(e)
    BY <1>2, <1>3 DEF M!Event, ChatEvent, IsMade
  <1> HIDE DEF e
  <1>5. changed \in ChatRow /\ changed.id = m.id /\ changed.of = 0 /\ changed.text = M!NewId
    BY <1>2, <1>3, TextShows
  <1> HIDE DEF changed
  <1>6. Edited(editing') \in {0, Edited(editing)}  BY <1>1 DEF Edited
  <1>7. /\ OneEvent(log', outbox') /\ outbox' \subseteq Sending /\ log' = log
        /\ made' \in [DOMAIN Limit -> Nat] /\ M!NewId' = M!NewId + 1
        /\ RightEvents(log', outbox', M!NewId', Edited(editing'))
        /\ RightRows(messages, M!NewId', Edited(editing'))
        /\ ListFits(log', outbox', messages, seen, passed)
        /\ OwnEdit(log', outbox', seen, m.id)
        /\ UNCHANGED <<cursor, answer, seen, passed>>
    BY <1>1, <1>4, <1>6, SendsIs
  <1>8. /\ Len(messages) \in Nat /\ DOMAIN messages = 1..Len(messages)
        /\ \A i \in 1..Len(messages) : messages[i] \in ChatRow
    BY <1>3, RowsAre
  <1>9. ASSUME NEW i \in 1..Len(messages)
        PROVE  /\ messages'[i] \in ChatRow /\ messages'[i].id = messages[i].id
               /\ messages'[i].of = messages[i].of
               /\ messages'[i].text = messages[i].text \/ messages[i].id = m.id
    <2>1. messages'[i] = IF messages[i].id = m.id THEN changed ELSE messages[i]  BY <1>1, <1>8
    <2>2. messages[i].id = m.id => messages[i].of = 0  BY <1>3, <1>8 DEF RightRows
    <2> QED  BY <1>5, <1>8, <2>1, <2>2
  <1>10. messages' \in Seq(ChatRow) /\ Len(messages') = Len(messages)  BY <1>1, <1>8, <1>9
  <1>11. SameRows(messages, messages')  BY <1>9, <1>10 DEF SameRows
  <1>12. ListFits(log', outbox', messages', seen, passed)
    <2>1. ASSUME NEW i \in 1..Len(messages)
          PROVE  \/ messages'[i].text \in {0, messages[i].text}
                 \/ OwnEdit(log', outbox', seen, messages[i].id)
      BY <1>7, <1>9
    <2> QED  BY <1>3, <1>7, <1>11, <2>1, FitsSame
  <1>13. RightRows(messages', M!NewId', Edited(editing'))  BY <1>3, <1>7, <1>11, SameRight
  <1>14. ChatTypes'  BY <1>1, <1>7, <1>10 DEF ChatInv, ChatTypes
  <1> QED  BY <1>1, <1>7, <1>12, <1>13, <1>14 DEF ChatInv

LEMMA ReactStep == ASSUME ChatInv, M!ReactToMessage PROVE ChatInv'
  <1>1. PICK i \in M!Bases(messages) :
           LET m == messages[i]
               e == M!Event(IF m.reaction = 0 THEN "reaction" ELSE "none", M!NewId, m.id, TRUE)
           IN M!Sends(e) /\ M!Changes(M!ApplyMessageReaction(messages, e)) /\ UNCHANGED editing
    BY DEF M!ReactToMessage
  <1> DEFINE m == messages[i]
             e == M!Event(IF m.reaction = 0 THEN "reaction" ELSE "none", M!NewId, m.id, TRUE)
  <1>2. /\ M!Sends(e) /\ messages' = M!ApplyMessageReaction(messages, e) /\ merged' = FALSE
        /\ UNCHANGED editing
    BY <1>1 DEF M!Changes
  <1>3. M!NewId \in Nat \ {0} /\ messages \in Seq(ChatRow)  BY NewIdIs DEF ChatInv, ChatTypes
  <1>4. i \in DOMAIN messages /\ m \in ChatRow /\ m.id \in Nat /\ m.id # 0
    <2>1. i \in DOMAIN messages /\ m \in ChatRow  BY <1>3, RowsAre DEF M!Bases
    <2>2. m.id \in 1..M!NewId - 1  BY <2>1 DEF ChatInv, RightRows
    <2> QED  BY <1>3, <2>1, <2>2
  <1>5. /\ e \in ChatEvent /\ e.kind \in {"reaction", "none"} /\ e.id = M!NewId /\ e.of = m.id /\ e.mine
        /\ IsMade(e)
    BY <1>3, <1>4 DEF M!Event, ChatEvent, IsMade
  <1> HIDE DEF e
  <1>6. Edited(editing') \in {0, Edited(editing)}  BY <1>2 DEF Edited
  <1>7. /\ OneEvent(log', outbox') /\ outbox' \subseteq Sending /\ log' = log
        /\ made' \in [DOMAIN Limit -> Nat] /\ M!NewId' = M!NewId + 1
        /\ RightEvents(log', outbox', M!NewId', Edited(editing'))
        /\ RightRows(messages, M!NewId', Edited(editing'))
        /\ ListFits(log', outbox', messages, seen, passed)
        /\ UNCHANGED <<cursor, answer, seen, passed>>
    BY <1>2, <1>5, <1>6, SendsIs
  <1>8. SameRows(messages, messages') /\ \A k \in 1..Len(messages) : messages'[k].text = messages[k].text
    BY <1>2, <1>3, <1>5, ReactionIs
  <1>9. ListFits(log', outbox', messages', seen, passed)  BY <1>3, <1>7, <1>8, FitsSame
  <1>10. RightRows(messages', M!NewId', Edited(editing'))  BY <1>3, <1>7, <1>8, SameRight
  <1>11. ChatTypes'
    <2>1. messages' \in Seq(ChatRow)  BY <1>8 DEF SameRows
    <2> QED  BY <1>2, <1>7, <2>1 DEF ChatInv, ChatTypes
  <1>12. editing' # <<>> => editing'[1].of = 0 /\ editing'[1].id \in 1..M!NewId' - 1
    <2>1. editing # <<>> => editing[1].of = 0 /\ editing[1].id \in 1..M!NewId - 1  BY DEF ChatInv
    <2> QED  BY <1>2, <1>3, <1>7, <2>1
  <1> QED  BY <1>2, <1>7, <1>9, <1>10, <1>11, <1>12 DEF ChatInv

(* Nothing the events are about changes.                                   *)
LEMMA DeleteStep == ASSUME ChatInv, M!DeleteMessage PROVE ChatInv'
  <1>1. PICK d \in M!Bases(messages) : messages' = M!RemoveAt(messages, d) /\ merged' = FALSE
    BY DEF M!DeleteMessage, M!Changes
  <1>2. UNCHANGED <<log, made, cursor, answer, outbox, editing, seen, passed>>
    BY DEF M!DeleteMessage, M!server
  <1>3. /\ messages \in Seq(ChatRow) /\ seen \in Nat /\ seen <= Len(log) /\ Len(log) \in Nat
        /\ OneEvent(log, outbox) /\ ListFits(log, outbox, messages, seen, passed)
        /\ RightRows(messages, M!NewId, Edited(editing)) /\ log \in Seq(ChatEvent)
    BY DEF ChatInv, ChatTypes
  <1>4. \A p \in 1..seen : log[p].kind = "edit" => log[p].of # 0
    <2>1. \A p \in 1..seen : p \in 1..Len(log)  BY <1>3
    <2> QED  BY <1>3, <2>1 DEF OneEvent, IsMade
  <1>5. /\ messages' \in Seq(ChatRow) /\ ListFits(log, outbox, messages', seen, passed)
        /\ RightRows(messages', M!NewId, Edited(editing))
    BY <1>1, <1>3, <1>4, FitsRemoved
  <1>6. ChatTypes'  BY <1>1, <1>2, <1>5 DEF ChatInv, ChatTypes
  <1>7. M!NewId' = M!NewId /\ Edited(editing') = Edited(editing)  BY <1>2 DEF M!NewId
  <1> QED  BY <1>1, <1>2, <1>5, <1>6, <1>7 DEF ChatInv

LEMMA EditingStep == ASSUME ChatInv, M!EditMessage PROVE ChatInv'
  <1>1. PICK i \in M!Bases(messages) : editing' = <<messages[i]>>
    BY DEF M!EditMessage
  <1>2. UNCHANGED <<log, made, messages, cursor, answer, outbox, merged, seen, passed>>
    BY DEF M!EditMessage, M!server, M!history
  <1>3. messages \in Seq(ChatRow) /\ M!NewId \in Nat \ {0}  BY NewIdIs DEF ChatInv, ChatTypes
  <1> DEFINE m == messages[i]
  <1>4. i \in DOMAIN messages /\ m \in ChatRow /\ m.of = 0 /\ m.id \in 1..M!NewId - 1
    <2>1. i \in DOMAIN messages /\ m \in ChatRow /\ m.of = 0  BY <1>3, RowsAre DEF M!Bases
    <2> QED  BY <2>1 DEF ChatInv, RightRows
  <1>5. editing' = <<m>>  BY <1>1
  <1>6. /\ \A k \in DOMAIN messages : messages[k].id = m.id => messages[k].of = 0
        /\ \A e \in KnownEvents(log, outbox) : e.id = m.id => e.kind = "text"
    <2>1. /\ \A k \in DOMAIN messages : messages[k].id = m.id => k = i
          /\ \A e \in KnownEvents(log, outbox) : m.id = e.id => m.of = e.of /\ e.kind \in {"text", "edit"}
      BY <1>4 DEF ChatInv, ListFits, OneRow
    <2>2. \A e \in KnownEvents(log, outbox) : IsMade(e)  BY DEF ChatInv, OneEvent, KnownEvents
    <2> QED  BY <1>4, <2>1, <2>2 DEF IsMade
  <1> HIDE DEF m
  <1>7. /\ Edited(editing') = m.id /\ editing' # <<>> /\ editing'[1] = m /\ editing' \in Seq(ChatRow)
        /\ Len(editing') = 1
    BY <1>4, <1>5 DEF Edited
  <1>8. /\ RightRows(messages', M!NewId', Edited(editing'))
        /\ RightEvents(log', outbox', M!NewId', Edited(editing'))
        /\ M!NewId' = M!NewId
    <2>1. M!NewId' = M!NewId  BY <1>2 DEF M!NewId
    <2> QED  BY <1>2, <1>6, <1>7, <2>1 DEF ChatInv, RightRows, RightEvents
  <1>9. ChatTypes'  BY <1>2, <1>7 DEF ChatInv, ChatTypes
  <1> QED  BY <1>2, <1>4, <1>7, <1>8, <1>9 DEF ChatInv

LEMMA AskStep == ASSUME ChatInv, M!SyncProfile PROVE ChatInv'
  <1>1. answer' = <<cursor, Len(log)>>
    BY DEF M!SyncProfile
  <1>2. UNCHANGED <<log, made, messages, cursor, outbox, editing, merged, seen, passed>>
    BY DEF M!SyncProfile, M!server, M!history
  <1>3. cursor \in Nat /\ cursor <= seen /\ seen \in Nat /\ seen <= Len(log) /\ Len(log) \in Nat
    BY DEF ChatInv, ChatTypes
  <1>4. /\ answer' \in Nat \X Nat /\ answer'[1] <= seen /\ answer'[1] <= answer'[2] /\ answer'[2] <= Len(log)
    BY <1>1, <1>3
  <1>5. ChatTypes'  BY <1>2, <1>4 DEF ChatInv, ChatTypes
  <1>6. M!NewId' = M!NewId /\ Edited(editing') = Edited(editing)  BY <1>2 DEF M!NewId
  <1> QED  BY <1>2, <1>5, <1>6 DEF ChatInv

(* A send in the outbox goes on: it stays the same event.                  *)
InLog(L, e) == \E p \in 1..Len(L) : L[p] = e
LEMMA MovedIs ==
    ASSUME NEW L, NEW O, NEW r \in O, O \subseteq Sending, NEW at \in {"queued", "sealed", "stored"},
           OneEvent(L, O), NEW R, R = (O \ {r}) \cup {M!At(r, at)},
           at = "stored" => InLog(L, r.event)
    PROVE  /\ R \subseteq Sending /\ OneEvent(L, R) /\ KnownEvents(L, R) = KnownEvents(L, O)
           /\ \A s, id : OwnEdit(L, O, s, id) => OwnEdit(L, R, s, id)
  <1> DEFINE t == M!At(r, at)
  <1>1. t \in Sending /\ t.event = r.event /\ t.at = at
    <2>1. PICK e \in ChatEvent, a \in {"queued", "sealed", "stored"} : r = [event |-> e, at |-> a]
      BY DEF Sending
    <2> QED  BY <2>1 DEF Sending, M!At
  <1> HIDE DEF t
  <1>2. R = (O \ {r}) \cup {t}  BY DEF t
  <1>3. {u.event : u \in R} = {u.event : u \in O}  BY <1>1, <1>2
  <1>4. KnownEvents(L, R) = KnownEvents(L, O)  BY <1>3 DEF KnownEvents
  <1>5. \A u \in R : \E v \in O : u.event = v.event  BY <1>1, <1>2
  <1>6. \A v \in O : \E u \in R : u.event = v.event  BY <1>1, <1>2
  <1>7. OneEvent(L, R)
    <2>1. \A u \in R : u.at = "stored" => \E p \in 1..Len(L) : L[p] = u.event
      BY <1>1, <1>2 DEF OneEvent, InLog
    <2>2. \A u \in R : IsMade(u.event) /\ u.event.kind # "read" /\ u.event.mine
      BY <1>5 DEF OneEvent
    <2> QED  BY <1>4, <2>1, <2>2 DEF OneEvent
  <1>8. ASSUME NEW s, NEW id, OwnEdit(L, O, s, id) PROVE OwnEdit(L, R, s, id)
    BY <1>6, <1>8 DEF OwnEdit
  <1> QED  BY <1>1, <1>2, <1>4, <1>7, <1>8

(* The local message becomes what was given to be sent.                    *)
LEMMA LocalIs ==
    ASSUME ChatInv, NEW r \in outbox, M!UpdateLocalMessage(r)
    PROVE  /\ messages' \in Seq(ChatRow) /\ ListFits(log, outbox, messages', seen, passed)
           /\ RightRows(messages', M!NewId, Edited(editing)) /\ merged' = FALSE
           /\ \A id : M!Edits(messages', id) = M!Edits(messages, id)
           /\ SameRows(messages, messages')
  <1> DEFINE e == r.event
             text == M!Message(e).text
  <1>1. /\ outbox \subseteq Sending /\ messages \in Seq(ChatRow) /\ OneEvent(log, outbox)
        /\ ListFits(log, outbox, messages, seen, passed)
        /\ RightRows(messages, M!NewId, Edited(editing))
    BY DEF ChatInv, ChatTypes
  <1>2. e \in ChatEvent  BY <1>1 DEF Sending
  <1>3. text \in Nat /\ text = (IF e.of = 0 THEN 0 ELSE e.id) /\ e.id \in Nat
      BY <1>2, MessageIs, RowFields
  <1>4. messages' = M!SetText(messages, e.id, text) /\ merged' = FALSE
    BY DEF M!UpdateLocalMessage, M!Changes
  <1>5. e \in KnownEvents(log, outbox)  BY DEF KnownEvents
  <1> HIDE DEF e, text
  <1>6. /\ SameRows(messages, messages')
        /\ \A i \in 1..Len(messages) :
              messages'[i].text = IF messages[i].id = e.id THEN text ELSE messages[i].text
    BY <1>1, <1>3, <1>4, SetTextIs
  <1>7. ASSUME NEW i \in 1..Len(messages), messages[i].of = 0
        PROVE  messages'[i].text \in {0, messages[i].text}
    <2>1. i \in DOMAIN messages  BY <1>1, RowsAre
    <2>2. messages[i].id = e.id => e.of = 0  BY <1>1, <1>5, <1>7, <2>1 DEF ListFits, OneRow
    <2> QED  BY <1>3, <1>6, <2>2
  <1>8. ListFits(log, outbox, messages', seen, passed)  BY <1>1, <1>6, <1>7, FitsSame
  <1>9. RightRows(messages', M!NewId, Edited(editing))  BY <1>1, <1>6, SameRight
  <1>10. \A id : M!Edits(messages', id) = M!Edits(messages, id)  BY <1>1, <1>6, SameEdits
  <1> QED  BY <1>4, <1>6, <1>8, <1>9, <1>10 DEF SameRows

LEMMA SealStep == ASSUME ChatInv, NEW r \in outbox, M!Seals(r) PROVE ChatInv'
  <1>1. /\ outbox' = (outbox \ {r}) \cup {M!At(r, "sealed")} /\ M!UpdateLocalMessage(r)
        /\ UNCHANGED <<log, made, cursor, answer, editing, seen, passed>>
    BY DEF M!Seals, M!Moves, M!server
  <1>2. /\ messages' \in Seq(ChatRow) /\ ListFits(log, outbox, messages', seen, passed)
        /\ RightRows(messages', M!NewId, Edited(editing)) /\ merged' = FALSE
    BY <1>1, LocalIs
  <1>3. /\ outbox' \subseteq Sending /\ OneEvent(log, outbox')
        /\ KnownEvents(log, outbox') = KnownEvents(log, outbox)
        /\ \A s, id : OwnEdit(log, outbox, s, id) => OwnEdit(log, outbox', s, id)
    <2>1. outbox \subseteq Sending /\ OneEvent(log, outbox)  BY DEF ChatInv, ChatTypes
    <2> QED  BY <1>1, <2>1, MovedIs
  <1>4. ListFits(log, outbox', messages', seen, passed)  BY <1>2, <1>3, FitsElse
  <1>5. M!NewId' = M!NewId /\ Edited(editing') = Edited(editing)  BY <1>1 DEF M!NewId
  <1>6. RightEvents(log, outbox', M!NewId, Edited(editing))  BY <1>3 DEF ChatInv, RightEvents
  <1>7. ChatTypes'  BY <1>1, <1>2, <1>3 DEF ChatInv, ChatTypes
  <1> QED  BY <1>1, <1>2, <1>3, <1>4, <1>5, <1>6, <1>7 DEF ChatInv

LEMMA FailStep == ASSUME ChatInv, NEW r \in outbox, M!Fails(r) PROVE ChatInv'
  <1>1. /\ outbox' = (outbox \ {r}) \cup {M!At(r, "queued")}
        /\ UNCHANGED <<log, made, messages, cursor, answer, editing, merged, seen, passed>>
    BY DEF M!Fails, M!Moves, M!server, M!history
  <1>2. /\ outbox' \subseteq Sending /\ OneEvent(log, outbox')
        /\ KnownEvents(log, outbox') = KnownEvents(log, outbox)
        /\ \A s, id : OwnEdit(log, outbox, s, id) => OwnEdit(log, outbox', s, id)
    <2>1. outbox \subseteq Sending /\ OneEvent(log, outbox)  BY DEF ChatInv, ChatTypes
    <2> QED  BY <1>1, <2>1, MovedIs
  <1>3. ListFits(log, outbox', messages, seen, passed)
    <2>1. ListFits(log, outbox, messages, seen, passed)  BY DEF ChatInv
    <2> QED  BY <1>2, <2>1, FitsElse
  <1>4. M!NewId' = M!NewId /\ Edited(editing') = Edited(editing)  BY <1>1 DEF M!NewId
  <1>5. RightEvents(log, outbox', M!NewId, Edited(editing))  BY <1>2 DEF ChatInv, RightEvents
  <1>6. ChatTypes'  BY <1>1, <1>2 DEF ChatInv, ChatTypes
  <1> QED  BY <1>1, <1>2, <1>3, <1>4, <1>5, <1>6 DEF ChatInv

LEMMA PostStep == ASSUME ChatInv, NEW r \in outbox, M!Posts(r) PROVE ChatInv'
  <1> DEFINE e == r.event
  <1>1. /\ outbox' = (outbox \ {r}) \cup {M!At(r, "stored")}
        /\ log' = IF \E i \in DOMAIN log : log[i].id = e.id THEN log ELSE Append(log, e)
        /\ UNCHANGED <<made, messages, cursor, answer, editing, merged, seen, passed>>
    BY DEF M!Posts, M!Moves, M!history
  <1>2. /\ outbox \subseteq Sending /\ OneEvent(log, outbox) /\ log \in Seq(ChatEvent)
        /\ Len(log) \in Nat /\ DOMAIN log = 1..Len(log) /\ seen \in Nat /\ seen <= Len(log)
        /\ ListFits(log, outbox, messages, seen, passed)
    BY DEF ChatInv, ChatTypes
  <1>3. e \in ChatEvent /\ e.id \in Nat /\ IsMade(e) /\ e.kind # "read" /\ e.id # 0 /\ e.mine
    <2>1. e \in ChatEvent  BY <1>2 DEF Sending
    <2> QED  BY <1>2, <2>1 DEF OneEvent, IsMade, ChatEvent
  <1>4. e \in KnownEvents(log, outbox)  BY DEF KnownEvents
  <1> HIDE DEF e
  <1>5. /\ log' \in Seq(ChatEvent) /\ Len(log') \in Nat /\ Len(log) <= Len(log')
        /\ \A p \in 1..Len(log) : log'[p] = log[p]
        /\ \E p \in 1..Len(log') : log'[p] = e
        /\ OneEvent(log', outbox) /\ KnownEvents(log', outbox) = KnownEvents(log, outbox)
        /\ \A id : OwnEdit(log, outbox, seen, id) => OwnEdit(log', outbox, seen, id)
    <2>1. CASE \E i \in DOMAIN log : log[i].id = e.id
      <3>1. log' = log  BY <1>1, <2>1
      <3>2. PICK p \in 1..Len(log) : log[p].id = e.id  BY <1>2, <2>1
      <3>3. log[p].kind # "read"  BY <1>2, <1>3, <3>2 DEF OneEvent, IsMade
      <3>4. log[p] = e  BY <1>2, <1>4, <3>2, <3>3 DEF OneEvent, KnownEvents
      <3> QED  BY <1>2, <3>1, <3>4
    <2>2. CASE ~\E i \in DOMAIN log : log[i].id = e.id
      <3>1. log' = Append(log, e)  BY <1>1, <2>2
      <3> DEFINE H == Append(log, e)
                 n == Len(log)
      <3>2. /\ H \in Seq(ChatEvent) /\ Len(H) = n + 1 /\ n \in Nat /\ H[n + 1] = e
            /\ \A p \in 1..n : H[p] = log[p]
            /\ \A p : p \in 1..Len(H) <=> p \in 1..n \/ p = n + 1
            /\ n + 1 \notin 1..n
            /\ KnownEvents(H, outbox) = KnownEvents(log, outbox) \cup {e}
            /\ \A s \in 0..n : \A id : OwnEdit(log, outbox, s, id) => OwnEdit(H, outbox, s, id)
        <4>1. /\ H \in Seq(ChatEvent) /\ Len(H) = n + 1 /\ n \in Nat /\ H[n + 1] = e
              /\ \A p \in 1..n : H[p] = log[p]
              /\ \A p : p \in 1..Len(H) <=> p \in 1..n \/ p = n + 1
              /\ n + 1 \notin 1..n
              /\ KnownEvents(H, outbox) =
                    KnownEvents(log, outbox) \cup (IF e.kind = "read" THEN {} ELSE {e})
              /\ \A s \in 0..n : \A id : OwnEdit(log, outbox, s, id) => OwnEdit(H, outbox, s, id)
          BY <1>2, <1>3, LogGrows
        <4> QED  BY <1>3, <4>1
      <3> HIDE DEF H
      <3>3. KnownEvents(H, outbox) = KnownEvents(log, outbox)  BY <1>4, <3>2
      <3>4. \A p \in 1..n : log[p].id # e.id  BY <1>2, <2>2
      <3>5. /\ OneEvent(log, outbox) /\ seen \in 0..n /\ n = Len(log)  BY <1>2
      <3> HIDE DEF n
      <3>6. OneEvent(H, outbox)
        <4>1. \A p \in 1..Len(H) : IsMade(H[p])  BY <1>3, <3>2, <3>5 DEF OneEvent
        <4>2. /\ \A u \in outbox : IsMade(u.event) /\ u.event.kind # "read" /\ u.event.mine
              /\ \A u \in outbox : u.at = "stored" => \E p \in 1..Len(H) : H[p] = u.event
          BY <3>2, <3>5 DEF OneEvent
        <4>3. \A d, f \in KnownEvents(H, outbox) : d.id = f.id => d = f
          BY <3>3, <3>5 DEF OneEvent
        <4>4. ASSUME NEW p \in 1..Len(H), NEW q \in 1..Len(H), H[p].kind # "read", H[q].kind # "read",
                     H[p].id = H[q].id
              PROVE  p = q
          <5>1. CASE p \in 1..n /\ q \in 1..n  BY <3>2, <3>5, <4>4, <5>1 DEF OneEvent
          <5>2. CASE p = n + 1 /\ q \in 1..n  BY <3>2, <3>4, <4>4, <5>2
          <5>3. CASE q = n + 1 /\ p \in 1..n  BY <3>2, <3>4, <4>4, <5>3
          <5> QED  BY <3>2, <5>1, <5>2, <5>3
        <4> QED  BY <4>1, <4>2, <4>3, <4>4 DEF OneEvent
      <3>7. n + 1 \in 1..Len(H) /\ n <= Len(H) /\ Len(H) \in Nat  BY <3>2
      <3> QED  BY <3>1, <3>2, <3>3, <3>5, <3>6, <3>7 DEF H
    <2> QED  BY <2>1, <2>2
  <1>6. /\ outbox' \subseteq Sending /\ OneEvent(log', outbox')
        /\ KnownEvents(log', outbox') = KnownEvents(log', outbox)
        /\ \A s, id : OwnEdit(log', outbox, s, id) => OwnEdit(log', outbox', s, id)
    <2>1. /\ OneEvent(log', outbox) /\ outbox \subseteq Sending /\ r \in outbox
          /\ InLog(log', r.event)
          /\ outbox' = (outbox \ {r}) \cup {M!At(r, "stored")}
      BY <1>1, <1>2, <1>5 DEF e, InLog
    <2> QED  BY <2>1, MovedIs
  <1>7. ListFits(log', outbox', messages, seen, passed)
    <2>1. \A p \in 1..seen : log'[p] = log[p]  BY <1>2, <1>5
    <2>2. \A id : OwnEdit(log, outbox, seen, id) => OwnEdit(log', outbox', seen, id)  BY <1>5, <1>6
    <2> QED  BY <1>2, <1>5, <1>6, <2>1, <2>2, FitsElse
  <1>8. M!NewId' = M!NewId /\ Edited(editing') = Edited(editing)  BY <1>1 DEF M!NewId
  <1>9. RightEvents(log', outbox', M!NewId, Edited(editing))
    BY <1>5, <1>6 DEF ChatInv, RightEvents
  <1>10. ChatTypes'
    <2>1. seen <= Len(log') /\ (answer # <<>> => answer[2] <= Len(log'))
      BY <1>2, <1>5 DEF ChatInv, ChatTypes
    <2> QED  BY <1>1, <1>5, <1>6, <2>1 DEF ChatInv, ChatTypes
  <1> QED  BY <1>1, <1>6, <1>7, <1>8, <1>9, <1>10 DEF ChatInv

LEMMA AnswerStep == ASSUME ChatInv, NEW r \in outbox, M!Answered(r) PROVE ChatInv'
  <1> DEFINE e == r.event
  <1>1. /\ outbox' = outbox \ {r} /\ r.at = "stored" /\ M!UpdateLocalMessage(r)
        /\ UNCHANGED <<log, made, cursor, answer, editing, seen, passed>>
    BY DEF M!Answered, M!Moves, M!server
  <1>2. /\ messages' \in Seq(ChatRow) /\ ListFits(log, outbox, messages', seen, passed)
        /\ RightRows(messages', M!NewId, Edited(editing)) /\ merged' = FALSE
    BY <1>1, LocalIs
  <1>3. /\ outbox \subseteq Sending /\ OneEvent(log, outbox) /\ log \in Seq(ChatEvent)
        /\ Len(log) \in Nat /\ seen \in Nat /\ seen <= Len(log)
    BY DEF ChatInv, ChatTypes
  <1>4. PICK p \in 1..Len(log) : log[p] = e  BY <1>1, <1>3 DEF OneEvent
  <1>5. e.mine /\ e.kind # "read"  BY <1>3 DEF OneEvent
  <1>6. KnownEvents(log, outbox') \subseteq KnownEvents(log, outbox)  BY <1>1 DEF KnownEvents
  <1>7. OneEvent(log, outbox')  BY <1>1, <1>3, <1>6 DEF OneEvent
  <1>8. ASSUME NEW id, OwnEdit(log, outbox, seen, id)
        PROVE  OwnEdit(log, outbox', seen, id) \/ id \in passed \/ M!Edits(messages', id) # {}
    <2>1. CASE e.kind = "edit" /\ e.of = id
      <3>1. CASE p \in seen + 1..Len(log)  BY <1>4, <1>5, <2>1, <3>1 DEF OwnEdit
      <3>2. CASE p \in 1..seen
        <4>1. CASE id \in passed  BY <4>1
        <4>2. CASE id \notin passed
          <5>1. PICK i \in DOMAIN messages' : messages'[i].of = log[p].of
            BY <1>2, <1>4, <2>1, <3>2, <4>2 DEF ListFits, EditsThere
          <5>2. i \in M!Edits(messages', id)  BY <1>4, <2>1, <5>1 DEF M!Edits
          <5> QED  BY <5>2
        <4> QED  BY <4>1, <4>2
      <3> QED  BY <1>3, <3>1, <3>2
    <2>2. CASE ~(e.kind = "edit" /\ e.of = id)  BY <1>1, <1>8, <2>2 DEF OwnEdit
    <2> QED  BY <2>1, <2>2
  <1>9. ListFits(log, outbox', messages', seen, passed)  BY <1>2, <1>6, <1>8, FitsElse
  <1>10. M!NewId' = M!NewId /\ Edited(editing') = Edited(editing)  BY <1>1 DEF M!NewId
  <1>11. RightEvents(log, outbox', M!NewId, Edited(editing))  BY <1>6 DEF ChatInv, RightEvents
  <1>12. ChatTypes'  BY <1>1, <1>2 DEF ChatInv, ChatTypes
  <1> QED  BY <1>1, <1>2, <1>7, <1>9, <1>10, <1>11, <1>12 DEF ChatInv

(* Somebody else adds an event to the log.                                 *)
LEMMA LogStep ==
    ASSUME ChatInv, NEW e \in ChatEvent, IsMade(e), ~e.mine, log' = Append(log, e),
           UNCHANGED <<messages, cursor, answer, outbox, editing, merged, seen, passed>>,
           made' \in [DOMAIN Limit -> Nat],
           \/ e.kind = "read" /\ M!NewId' = M!NewId
           \/ e.kind # "read" /\ e.id = M!NewId /\ M!NewId' = M!NewId + 1
    PROVE  ChatInv'
  <1> DEFINE n == Len(log)
             id == M!NewId
             x == Edited(editing)
  <1>1. /\ log' \in Seq(ChatEvent) /\ Len(log') = n + 1 /\ n \in Nat /\ log'[n + 1] = e
        /\ \A p \in 1..n : log'[p] = log[p]
        /\ \A p : p \in 1..Len(log') <=> p \in 1..n \/ p = n + 1
        /\ n + 1 \notin 1..n
        /\ KnownEvents(log', outbox) = KnownEvents(log, outbox) \cup (IF e.kind = "read" THEN {} ELSE {e})
        /\ \A s \in 0..n : \A k : OwnEdit(log, outbox, s, k) => OwnEdit(log', outbox, s, k)
    <2>1. log \in Seq(ChatEvent)  BY DEF ChatInv, ChatTypes
    <2> QED  BY <2>1, LogGrows
  <1>2. /\ OneEvent(log, outbox) /\ ListFits(log, outbox, messages, seen, passed) /\ seen \in Nat /\ seen <= n
        /\ RightEvents(log, outbox, id, x) /\ RightRows(messages, id, x)
    BY DEF ChatInv, ChatTypes
  <1>3. id \in Nat \ {0} /\ x \in 0..id - 1 /\ Edited(editing') = x
      BY NewIdIs, EditedIs DEF ChatInv, Edited
  <1>4. outbox' = outbox  OBVIOUS
  <1>5. n = Len(log)  OBVIOUS
  <1>6. \/ e.kind = "read" /\ id' = id
        \/ e.kind # "read" /\ e.id = id /\ id' = id + 1
    OBVIOUS
  <1> HIDE DEF n, id, x
  <1>7. /\ RightEvents(log', outbox, id', x) /\ RightRows(messages, id', x)
        /\ \A d, f \in KnownEvents(log', outbox) : d.id = f.id => d = f
        /\ e.kind # "read" => /\ \A i \in DOMAIN messages : messages[i].id # e.id
                              /\ \A d \in KnownEvents(log, outbox) : d.id # e.id
    <2>1. \A d, f \in KnownEvents(log, outbox) : d.id = f.id => d = f  BY <1>2 DEF OneEvent
    <2>2. CASE e.kind = "read"
      <3>1. KnownEvents(log', outbox) = KnownEvents(log, outbox) /\ id' = id  BY <1>1, <1>6, <2>2
      <3> QED  BY <1>2, <2>1, <2>2, <3>1 DEF RightEvents
    <2>3. CASE e.kind # "read"
      <3>1. KnownEvents(log', outbox) = KnownEvents(log, outbox) \cup {e} /\ id' = id + 1 /\ e.id = id
        BY <1>1, <1>6, <2>3
      <3>2. \A d \in KnownEvents(log, outbox) :
               d.id \in 1..id /\ d.id # id /\ (d.id = x => d.kind = "text")
        BY <1>2, <1>3 DEF RightEvents
      <3>3. \A i \in DOMAIN messages :
               messages[i].id \in 1..id /\ messages[i].id # id /\ (messages[i].id = x => messages[i].of = 0)
        BY <1>2, <1>3 DEF RightRows
      <3>4. (id + 1) - 1 = id /\ id \in 1..id /\ id # x  BY <1>3
      <3>5. RightEvents(log', outbox, id', x)  BY <3>1, <3>2, <3>4 DEF RightEvents
      <3>6. RightRows(messages, id', x)  BY <3>1, <3>3, <3>4 DEF RightRows
      <3> QED  BY <2>1, <3>1, <3>2, <3>3, <3>5, <3>6
    <2> QED  BY <2>2, <2>3
  <1>8. OneEvent(log', outbox)
    <2>1. \A p \in 1..Len(log') : IsMade(log'[p])  BY <1>1, <1>2, <1>5 DEF OneEvent
    <2>2. /\ \A u \in outbox : IsMade(u.event) /\ u.event.kind # "read" /\ u.event.mine
          /\ \A u \in outbox : u.at = "stored" => \E p \in 1..Len(log') : log'[p] = u.event
      BY <1>1, <1>2, <1>5 DEF OneEvent
    <2>3. ASSUME NEW p \in 1..Len(log'), NEW q \in 1..Len(log'), log'[p].kind # "read", log'[q].kind # "read",
                 log'[p].id = log'[q].id
          PROVE  p = q
      <3>0. \A k \in 1..n : log[k].kind # "read" => log[k] \in KnownEvents(log, outbox)
        BY <1>5 DEF KnownEvents
      <3>1. CASE p \in 1..n /\ q \in 1..n  BY <1>1, <1>2, <1>5, <2>3, <3>1 DEF OneEvent
      <3>2. CASE p = n + 1 /\ q \in 1..n  BY <1>1, <1>7, <2>3, <3>0, <3>2
      <3>3. CASE q = n + 1 /\ p \in 1..n  BY <1>1, <1>7, <2>3, <3>0, <3>3
      <3> QED  BY <1>1, <3>1, <3>2, <3>3
    <2> QED  BY <1>7, <2>1, <2>2, <2>3 DEF OneEvent
  <1>9. ListFits(log', outbox, messages, seen, passed)
    <2>1. \A p \in 1..seen : log'[p] = log[p]  BY <1>1, <1>2
    <2>2. \A d \in KnownEvents(log', outbox) :
             d \in KnownEvents(log, outbox) \/ \A i \in DOMAIN messages : messages[i].id # d.id
      BY <1>1, <1>7
    <2>3. \A k : OwnEdit(log, outbox, seen, k) => OwnEdit(log', outbox, seen, k)
      BY <1>1, <1>2
    <2> QED  BY <1>2, <2>1, <2>2, <2>3, FitsElse
  <1>10. editing' # <<>> => editing'[1].of = 0 /\ editing'[1].id \in 1..id' - 1
    <2>1. editing # <<>> => editing[1].of = 0 /\ editing[1].id \in 1..id - 1  BY DEF ChatInv, id
    <2> QED  BY <1>3, <1>6, <2>1
  <1>11. ChatTypes'
    <2>1. seen <= Len(log') /\ (answer # <<>> => answer[2] <= Len(log'))
      BY <1>1, <1>2, <1>5 DEF ChatInv, ChatTypes
    <2> QED  BY <1>1, <1>4, <2>1 DEF ChatInv, ChatTypes
  <1> QED  BY <1>3, <1>4, <1>7, <1>8, <1>9, <1>10, <1>11 DEF ChatInv, id, x

LEMMA ElsewhereStep == ASSUME ChatInv, M!Elsewhere PROVE ChatInv'
  <1>1. UNCHANGED <<messages, cursor, answer, outbox, editing, merged, seen, passed>>
    BY DEF M!Elsewhere, M!history
  <1>2. made \in [DOMAIN Limit -> Nat] /\ log \in Seq(ChatEvent)  BY DEF ChatInv, ChatTypes
  <1>3. ASSUME NEW kind \in {"text", "edit", "reaction"}, M!Makes(kind), NEW e,
               e \in ChatEvent, e.kind # "read", IsMade(e), ~e.mine, e.id = M!NewId, log' = Append(log, e)
        PROVE  ChatInv'
    <2>1. made' \in [DOMAIN Limit -> Nat] /\ M!NewId' = M!NewId + 1  BY <1>2, <1>3, MakesIs
    <2> QED  BY <1>1, <1>3, <2>1, LogStep
  <1>4. M!NewId \in Nat \ {0}  BY NewIdIs DEF ChatInv
  <1>5. CASE M!Makes("text") /\ log' = Append(log, M!Event("text", M!NewId, 0, FALSE))
    <2> DEFINE e == M!Event("text", M!NewId, 0, FALSE)
    <2>1. e \in ChatEvent /\ e.kind # "read" /\ IsMade(e) /\ ~e.mine /\ e.id = M!NewId
      BY <1>4 DEF M!Event, ChatEvent, IsMade
    <2>2. log' = Append(log, e)  BY <1>5
    <2> HIDE DEF e
    <2> QED  BY <1>3, <1>5, <2>1, <2>2
  <1>6. ASSUME NEW i \in DOMAIN log, log[i].kind = "text",
               NEW kind \in {"edit", "reaction", "none"}, M!Makes(IF kind = "edit" THEN "edit" ELSE "reaction"),
               log' = Append(log, M!Event(kind, M!NewId, log[i].id, FALSE))
        PROVE  ChatInv'
    <2> DEFINE e == M!Event(kind, M!NewId, log[i].id, FALSE)
    <2>1. log[i].id \in Nat /\ log[i].id # 0
      <3>1. i \in 1..Len(log) /\ log[i] \in ChatEvent  BY <1>2
      <3>2. IsMade(log[i])  BY <3>1 DEF ChatInv, OneEvent
      <3> QED  BY <1>6, <3>1, <3>2 DEF IsMade, ChatEvent
    <2>2. e \in ChatEvent /\ e.kind # "read" /\ IsMade(e) /\ ~e.mine /\ e.id = M!NewId
      BY <1>4, <2>1 DEF M!Event, ChatEvent, IsMade
    <2>3. log' = Append(log, e)  BY <1>6
    <2> HIDE DEF e
    <2>4. CASE kind = "edit"  BY <1>3, <1>6, <2>2, <2>3, <2>4
    <2>5. CASE kind # "edit"  BY <1>3, <1>6, <2>2, <2>3, <2>5
    <2> QED  BY <2>4, <2>5
  <1> QED  BY <1>5, <1>6 DEF M!Elsewhere

LEMMA PeerReadsStep == ASSUME ChatInv, M!PeerReads PROVE ChatInv'
  <1>1. UNCHANGED <<messages, cursor, answer, outbox, editing, merged, seen, passed>> /\ M!Makes("read")
    BY DEF M!PeerReads, M!history
  <1>2. made \in [DOMAIN Limit -> Nat] /\ log \in Seq(ChatEvent)  BY DEF ChatInv, ChatTypes
  <1>3. PICK i \in DOMAIN log : log[i].kind = "text" /\ log' = Append(log, M!Event("read", 0, log[i].id, FALSE))
    BY DEF M!PeerReads
  <1> DEFINE e == M!Event("read", 0, log[i].id, FALSE)
  <1>4. log[i].id \in Nat /\ log[i].id # 0
    <2>1. i \in 1..Len(log) /\ log[i] \in ChatEvent  BY <1>2
    <2>2. IsMade(log[i])  BY <2>1 DEF ChatInv, OneEvent
    <2> QED  BY <1>3, <2>1, <2>2 DEF IsMade, ChatEvent
  <1>5. e \in ChatEvent /\ e.kind = "read" /\ IsMade(e) /\ ~e.mine
    BY <1>4 DEF M!Event, ChatEvent, IsMade
  <1>6. log' = Append(log, e)  BY <1>3
  <1> HIDE DEF e
  <1>7. made' \in [DOMAIN Limit -> Nat] /\ M!NewId' = M!NewId  BY <1>1, <1>2, MakesIs
  <1> QED  BY <1>1, <1>5, <1>6, <1>7, LogStep

LEMMA ChatInit == M!Init => ChatInv
  <1> SUFFICES ASSUME M!Init PROVE ChatInv
    OBVIOUS
  <1>1. /\ log = <<>> /\ made = [kind \in DOMAIN Limit |-> 0] /\ messages = <<>> /\ cursor = 0 /\ answer = <<>>
        /\ outbox = {} /\ editing = <<>> /\ merged = FALSE /\ seen = 0 /\ passed = {}
    BY DEF M!Init
  <1>2. /\ Len(log) = 0 /\ \A p : p \notin 1..0
        /\ DOMAIN messages = {} /\ DOMAIN log = {}
    BY <1>1
  <1>3. ChatTypes
    <2>1. /\ <<>> \in Seq(ChatEvent) /\ <<>> \in Seq(ChatRow)
          /\ [kind \in DOMAIN Limit |-> 0] \in [DOMAIN Limit -> Nat]
      OBVIOUS
    <2>2. log \in Seq(ChatEvent) /\ messages \in Seq(ChatRow) /\ made \in [DOMAIN Limit -> Nat]
      BY <1>1, <2>1
    <2>3. merged \in BOOLEAN  BY <1>1
    <2>4. /\ outbox \subseteq Sending /\ passed \subseteq Nat /\ cursor \in Nat /\ seen \in Nat
          /\ cursor <= seen /\ seen <= Len(log)
      BY <1>1, <1>2
    <2> QED  BY <1>1, <2>2, <2>3, <2>4 DEF ChatTypes
  <1>4. KnownEvents(log, outbox) = {}  BY <1>1, <1>2 DEF KnownEvents
  <1>5. OneEvent(log, outbox)  BY <1>1, <1>2, <1>4 DEF OneEvent
  <1>6. ListFits(log, outbox, messages, seen, passed)
    BY <1>1, <1>2, <1>4 DEF ListFits, OneRow, EditsThere, EditsOfLog, InOrder, Untouched, M!Bases
  <1>7. RightRows(messages, M!NewId, Edited(editing))  BY <1>2 DEF RightRows
  <1>8. RightEvents(log, outbox, M!NewId, Edited(editing))  BY <1>4 DEF RightEvents
  <1> QED  BY <1>1, <1>3, <1>5, <1>6, <1>7, <1>8 DEF ChatInv

LEMMA ChatStep == ChatInv /\ [M!Next]_(M!vars) => ChatInv'
  <1> SUFFICES ASSUME ChatInv, [M!Next]_(M!vars) PROVE ChatInv'
    OBVIOUS
  <1>1. CASE UNCHANGED M!vars
    <2>1. UNCHANGED <<log, made, messages, cursor, answer, outbox, editing, merged, seen, passed>>
      BY <1>1 DEF M!vars, M!server, M!history
    <2>2. M!NewId' = M!NewId /\ Edited(editing') = Edited(editing)  BY <2>1 DEF M!NewId
    <2>3. ChatTypes'  BY <2>1 DEF ChatInv, ChatTypes
    <2> QED  BY <2>1, <2>2, <2>3 DEF ChatInv
  <1>2. CASE M!Next
    <2>1. CASE \E r \in outbox : M!Seals(r) \/ M!Posts(r) \/ M!Answered(r) \/ M!Fails(r)
      BY <2>1, SealStep, PostStep, AnswerStep, FailStep
    <2> QED
      BY <1>2, <2>1, RealtimeStep, AskStep, SyncStep, ReadableStep, SendMessageStep, EditingStep,
         EditStep,
         ReactStep, DeleteStep, ElsewhereStep, PeerReadsStep
      DEF M!Next
  <1> QED  BY <1>1, <1>2

LEMMA ChatAgrees == ChatInv => M!EditsAgree
  <1> SUFFICES ASSUME ChatInv, merged, NEW i \in M!Bases(messages),
                      ~M!UnderWay({"edit"}, messages[i].id), messages[i].id \notin passed
               PROVE  messages[i].text = IF M!About({"edit"}, messages[i].id) = {} THEN 0
                                         ELSE log[M!Max(M!About({"edit"}, messages[i].id))].id
    BY DEF M!EditsAgree
  <1> DEFINE m == messages[i]
             places == M!About({"edit"}, m.id)
  <1>1. /\ ListFits(log, outbox, messages, seen, passed) /\ Resolved(messages) /\ OneEvent(log, outbox)
        /\ RightRows(messages, M!NewId, Edited(editing)) /\ messages \in Seq(ChatRow) /\ seen \in Nat
        /\ seen <= Len(log) /\ Len(log) \in Nat /\ log \in Seq(ChatEvent)
    BY DEF ChatInv, ChatTypes
  <1>2. i \in DOMAIN messages /\ m.of = 0  BY DEF M!Bases
  <1>3. ~OwnEdit(log, outbox, seen, m.id)  BY DEF OwnEdit, M!UnderWay
  <1>4. \A p \in 1..seen : p \in places <=> log[p].kind = "edit" /\ log[p].of = m.id  BY DEF M!About
  <1>5. CASE places = {}
    <2>1. M!Edits(messages, m.id) = {}
      <3>1. SUFFICES ASSUME NEW j \in M!Edits(messages, m.id) PROVE FALSE
        OBVIOUS
      <3>2. j \in DOMAIN messages /\ messages[j].of = m.id  BY DEF M!Edits
      <3>3. m.id # 0
        <4>1. M!NewId \in Nat /\ m.id \in 1..M!NewId - 1
            BY <1>1, <1>2, NewIdIs DEF RightRows, ChatInv
        <4> QED  BY <4>1
      <3>4. PICK p \in 1..seen : log[p].kind = "edit" /\ messages[j].of = log[p].of
        BY <1>1, <3>2, <3>3 DEF ListFits, EditsOfLog
      <3> QED  BY <1>4, <1>5, <3>2, <3>4
    <2>2. m.text = 0  BY <1>1, <1>3, <2>1 DEF ListFits, Untouched
    <2> QED  BY <1>5, <2>2
  <1>6. CASE places # {}
    <2> DEFINE p == M!Max(places)
    <2>1. places \in SUBSET (1..seen)  BY DEF M!About
    <2>2. p \in places /\ \A q \in places : p >= q  BY <1>1, <1>6, <2>1, GreatestOf
    <2> HIDE DEF places, p
    <2>3. /\ p \in 1..seen /\ p \in 1..Len(log) /\ p \in Nat
          /\ log[p].kind = "edit" /\ log[p].of = m.id
      BY <1>1, <1>4, <2>1, <2>2
    <2>4. PICK k \in DOMAIN messages : messages[k].id = log[p].id /\ messages[k].of = m.id
      BY <1>1, <2>3 DEF ListFits, EditsThere
    <2>5. k \in M!Edits(messages, m.id)  BY <2>4 DEF M!Edits
    <2>6. PICK j \in M!Edits(messages, m.id) :
             M!LastEdit(messages, m.id) = messages[j].id /\ \A h \in M!Edits(messages, m.id) : h <= j
      BY <1>1, <2>5, EditsAre
    <2>7. j \in DOMAIN messages /\ messages[j].of = m.id /\ k <= j /\ j \in Nat /\ k \in Nat
      <3>1. j \in DOMAIN messages /\ messages[j].of = m.id  BY DEF M!Edits
      <3>2. DOMAIN messages = 1..Len(messages)  BY <1>1, RowsAre
      <3> QED  BY <2>4, <2>5, <2>6, <3>1, <3>2
    <2>8. m.id # 0 /\ messages[j].id # 0
      <3>1. /\ M!NewId \in Nat /\ m.id \in 1..M!NewId - 1 /\ messages[j].id \in 1..M!NewId - 1
        BY <1>1, <1>2, <2>7, NewIdIs DEF RightRows, ChatInv
      <3> QED  BY <3>1
    <2>9. PICK q \in 1..seen :
             log[q].kind = "edit" /\ messages[j].id = log[q].id /\ messages[j].of = log[q].of
      BY <1>1, <2>7, <2>8 DEF ListFits, EditsOfLog
    <2>10. q \in places /\ q \in Nat /\ q <= p  BY <1>4, <2>1, <2>2, <2>7, <2>9
    <2>11. ~(q < p)
      <3>1. SUFFICES ASSUME q < p PROVE FALSE
        OBVIOUS
      <3>2. j < k  BY <1>1, <2>3, <2>4, <2>7, <2>9, <3>1 DEF ListFits, InOrder
      <3> QED  BY <2>7, <3>2
    <2>12. q = p  BY <2>3, <2>10, <2>11
    <2>13. M!LastEdit(messages, m.id) = log[p].id /\ M!LastEdit(messages, m.id) # 0
      BY <2>6, <2>8, <2>9, <2>12
    <2>14. m.text = log[p].id  BY <1>1, <2>13 DEF Resolved
    <2> QED  BY <1>6, <2>14 DEF p, places
  <1> QED  BY <1>5, <1>6

(* What a merge leaves shows every message as the last edit of the log has *)
(* it, with any number of messages, edits, syncs and faults: two devices   *)
(* that have seen as much of the log agree on what a message says          *)
(* (resolveMessageEdits and its callers).                                  *)
THEOREM EditsAlwaysAgree == Spec => []EditsAgree
  <1>1. Init => ChatInv  BY ChatInit DEF Init
  <1>2. ChatInv /\ [Next]_vars => ChatInv'
    <2> SUFFICES ASSUME ChatInv, [Next]_vars PROVE ChatInv'
      OBVIOUS
    <2>1. [M!Next]_(M!vars)
      BY DEF Next, vars, chat, M!vars, M!server, M!counters, M!history
    <2> QED  BY <2>1, ChatStep
  <1>3. ChatInv => EditsAgree  BY ChatAgrees DEF EditsAgree
  <1> QED  BY <1>1, <1>2, <1>3, PTL DEF Spec
===============================================================================
