-------------------------------- MODULE KeyStore --------------------------------
(***************************************************************************)
(* Where the mobile client keeps the private key of a device (mobile       *)
(* rn-e2e.ts): in the Keychain, or in AsyncStorage in a browser, from which*)
(* a native build moves an older key.  Every call of the Keychain may fail,*)
(* or be given up after ten seconds and still take effect later; the app   *)
(* may be killed between any two steps.                                    *)
(***************************************************************************)
EXTENDS Naturals, FiniteSets

CONSTANTS Calls, MaxKeys, MaxOutages
BoundsAssumption == {MaxKeys, MaxOutages} \subseteq Nat

VARIABLES
    store,    \* "keychain" or "web"
    secure, fallback, \* the key in each of them, 0 when there is none
    requests, \* ensureDeviceKeys under way, by caller: [at, key, clean]
    deleting, \* deleteDeviceKeys: what it does next
    landing,  \* writes of the Keychain that were given up and may yet land
    keys, outages,
    returned, \* history: keys handed out since they were last deleted
    late      \* history: a write has landed after it was given up
vars == <<store, secure, fallback, requests, deleting, landing, keys, outages, returned, late>>

Idle == [at |-> "idle", key |-> 0, clean |-> TRUE]
Init ==
    /\ store \in {"keychain", "web"} /\ secure = 0 /\ fallback \in {0, 1} /\ keys = 1
    /\ requests = [c \in Calls |-> Idle] /\ deleting = "idle" /\ landing = {}
    /\ outages = 0 /\ returned = {} /\ late = FALSE

Outage == outages < MaxOutages /\ outages' = outages + 1
Set(c, at, key) ==
    requests' = [requests EXCEPT ![c] = [at |-> at, key |-> key, clean |-> requests[c].clean]]
Goes(c, at) == Set(c, at, requests[c].key)
At(c, at) == requests[c].at = at
Throws(c) == requests' = [requests EXCEPT ![c] = Idle]
Returns(c, key) ==
    /\ Throws(c) /\ returned' = IF requests[c].clean THEN returned \cup {key} ELSE returned

-------------------------------------------------------------------------------
(* One request at a time: who asks meanwhile waits for the same answer.    *)
NonePending_Always == TRUE
NonePending == \A c \in Calls : At(c, "idle")
EnsureDeviceKeys(c) ==
    /\ At(c, "idle") /\ NonePending
    /\ requests' = [requests EXCEPT ![c] = [at |-> "read", key |-> 0, clean |-> deleting = "idle"]]
    /\ UNCHANGED <<store, secure, fallback, deleting, landing, keys, outages, returned, late>>
(* readPrivateValue.  An older key is moved when the Keychain has none.    *)
ReadDevice(c) ==
    /\ At(c, "read")
    /\ LET raw == IF store = "keychain" THEN secure ELSE fallback IN
       \/ raw # 0 /\ Returns(c, raw)
       \/ raw = 0 /\ store = "keychain" /\ fallback # 0 /\ Set(c, "migrate", fallback) /\ UNCHANGED returned
       \/ raw = 0 /\ (store = "web" \/ fallback = 0) /\ Goes(c, "generate") /\ UNCHANGED returned
    /\ UNCHANGED <<store, secure, fallback, deleting, landing, keys, outages, late>>
Migrate(c) ==
    /\ At(c, "migrate") /\ secure' = requests[c].key /\ Goes(c, "migrated")
    /\ UNCHANGED <<store, fallback, deleting, landing, keys, outages, returned, late>>
RemoveLegacy(c) ==
    /\ At(c, "migrated") /\ fallback' = 0 /\ Returns(c, requests[c].key)
    /\ UNCHANGED <<store, secure, deleting, landing, keys, outages, late>>
GenerateDevice(c) ==
    /\ At(c, "generate") /\ keys < MaxKeys /\ keys' = keys + 1 /\ Set(c, "write", keys')
    /\ UNCHANGED <<store, secure, fallback, deleting, landing, outages, returned, late>>
(* writePrivateValue; what the Keychain has is then removed from the other.*)
WriteDevice(c) ==
    /\ At(c, "write") /\ Goes(c, "written")
    /\ IF store = "keychain" THEN secure' = requests[c].key /\ UNCHANGED fallback
       ELSE fallback' = requests[c].key /\ UNCHANGED secure
    /\ UNCHANGED <<store, deleting, landing, keys, outages, returned, late>>
Cleanup(c) ==
    /\ At(c, "written") /\ Returns(c, requests[c].key)
    /\ \/ fallback' = IF store = "keychain" THEN 0 ELSE fallback
       \/ UNCHANGED fallback
    /\ UNCHANGED <<store, secure, deleting, landing, keys, outages, late>>
(* A store that is not there, a call that fails or one that is given up.   *)
Fails(c) ==
    /\ Outage
    /\ requests[c].at \in {"read", "migrate", "migrated", "write"} /\ Throws(c)
    /\ landing' \in {landing} \cup
          {landing \cup {k} : k \in IF store = "keychain" /\ requests[c].at \in {"migrate", "write"}
                                    THEN {requests[c].key} ELSE {}}
    /\ UNCHANGED <<store, secure, fallback, deleting, keys, returned, late>>
Lands ==
    /\ \E k \in landing : landing' = landing \ {k} /\ secure' = k /\ late' = TRUE
    /\ UNCHANGED <<store, fallback, requests, deleting, keys, outages, returned>>

-------------------------------------------------------------------------------
(* The profile is removed, or its keys are forgotten.                      *)
DeleteDeviceKeys ==
    /\ deleting = "idle" /\ deleting' = "reset" /\ returned' = {}
    /\ requests' = [c \in Calls |-> [requests[c] EXCEPT !.clean = FALSE]]
    /\ UNCHANGED <<store, secure, fallback, landing, keys, outages, late>>
(* A Keychain that is not there or fails is passed over.                   *)
Reset ==
    /\ deleting = "reset" /\ deleting' = "remove"
    /\ \/ secure' = (IF store = "keychain" THEN 0 ELSE secure) /\ UNCHANGED outages
       \/ store = "keychain" /\ Outage /\ UNCHANGED secure
    /\ UNCHANGED <<store, fallback, requests, landing, keys, returned, late>>
RemoveFallback ==
    /\ deleting = "remove" /\ deleting' = "idle"
    /\ \/ fallback' = 0 /\ UNCHANGED outages
       \/ Outage /\ UNCHANGED fallback
    /\ UNCHANGED <<store, secure, requests, landing, keys, returned, late>>
Killed ==
    /\ Outage /\ requests' = [c \in Calls |-> Idle] /\ deleting' = "idle" /\ landing' = {}
    /\ UNCHANGED <<store, secure, fallback, keys, returned, late>>

Next ==
    \/ \E c \in Calls :
          \/ EnsureDeviceKeys(c) \/ ReadDevice(c) \/ Migrate(c) \/ RemoveLegacy(c)
          \/ GenerateDevice(c) \/ WriteDevice(c) \/ Cleanup(c) \/ Fails(c)
    \/ Lands \/ DeleteDeviceKeys \/ Reset \/ RemoveFallback \/ Killed
Spec == Init /\ [][Next]_vars

(* The device has one key until it is deleted: whoever asks for it, before *)
(* or after the app was killed, a call failed or an older key was moved, is*)
(* given the same one, unless a write landed after it had been given up.   *)
KeyStays == ~late => \A key, other \in returned : key = other
(* The same without the exception.  Does not hold: the write that was given*)
(* up lands over the key that was made and handed out after it.            *)
KeyStaysAnyway == \A key, other \in returned : key = other
===============================================================================
