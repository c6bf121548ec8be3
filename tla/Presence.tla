------------------------------- MODULE Presence -------------------------------
(***************************************************************************)
(* RealtimeHub and the websocket tasks that use it (server/src/main.rs):   *)
(* admission and its limits, the broadcast channels of the accounts, and   *)
(* the presence published to the watchers of an account.                   *)
(*                                                                         *)
(* Each of the hub's methods takes a lock of its own, and a task awaits    *)
(* between any two of them, so each is an action and the tasks interleave  *)
(* at every await.  The store answers its queries: when it does not, the   *)
(* code publishes nothing.                                                 *)
(***************************************************************************)
EXTENDS Integers, FiniteSets

CONSTANTS
    Accounts,
    Sessions,         \* bound: websocket tasks that run at a time
    MaxConnections,   \* REALTIME_MAX_CONNECTIONS
    MaxPerAccount     \* REALTIME_MAX_CONNECTIONS_PER_ACCOUNT

ASSUME PresenceAssumption ==
    /\ IsFiniteSet(Accounts) /\ IsFiniteSet(Sessions)
    /\ MaxConnections \in Nat \ {0}
    /\ MaxPerAccount \in Nat \ {0}

VARIABLES
    task,       \* task[s]: how far the task is in realtime_session
    account,    \* account[s]: the account it authenticated as
    first,      \* first[s]: first_presence_session
    sessions,   \* presence_sessions (0: no entry)
    active,     \* the metric active_connections
    channels,   \* the accounts with an entry in channels
    receivers,  \* the tasks whose receiver belongs to the entry of their account
    told        \* told[a]: the last presence of a published to a watcher of
                \* it (each watcher has its own channel: any one of them)

vars == <<task, account, first, sessions, active, channels, receivers, told>>

-------------------------------------------------------------------------------
Init ==
    /\ task = [s \in Sessions |-> "idle"]
    /\ account \in [Sessions -> Accounts]
    /\ first = [s \in Sessions |-> FALSE]
    /\ sessions = [a \in Accounts |-> 0]
    /\ active = 0
    /\ channels = {} /\ receivers = {}
    /\ told = [a \in Accounts |-> "nothing"]

Goto(s, place) == task' = [task EXCEPT ![s] = place]

Full(a) == active >= MaxConnections \/ sessions[a] >= MaxPerAccount

(* try_connect, after the hello of a valid session of account a.  A        *)
(* rejected connection is closed and leaves the hub as it was.             *)
TryConnect(s, a) ==
    /\ task[s] = "idle" /\ ~Full(a)
    /\ sessions' = [sessions EXCEPT ![a] = @ + 1]
    /\ active' = active + 1
    /\ first' = [first EXCEPT ![s] = sessions[a] = 0]
    /\ account' = [account EXCEPT ![s] = a]
    /\ Goto(s, "accepted")
    /\ UNCHANGED <<channels, receivers, told>>

Subscribe(s) ==
    /\ task[s] = "accepted"
    /\ channels' = channels \cup {account[s]}
    /\ receivers' = receivers \cup {s}
    /\ Goto(s, "greeting")
    /\ UNCHANGED <<account, first, sessions, active, told>>

(* `ready` and the snapshot are sent. *)
Greet(s) ==
    /\ task[s] = "greeting"
    /\ Goto(s, IF first[s] THEN "announcing" ELSE "streaming")
    /\ UNCHANGED <<account, first, sessions, active, channels, receivers, told>>

(* One of them cannot be: the task says goodbye and returns, without       *)
(* unsubscribe.  Its receiver lives until it returns.                      *)
GreetFails(s) ==
    /\ task[s] = "greeting"
    /\ Goto(s, "failed")
    /\ UNCHANGED <<account, first, sessions, active, channels, receivers, told>>

Announce(s) ==
    /\ task[s] = "announcing"
    /\ told' = [told EXCEPT ![account[s]] = "online"]
    /\ Goto(s, "streaming")
    /\ UNCHANGED <<account, first, sessions, active, channels, receivers>>

(* The select loop breaks, and the receiver is dropped. *)
Stop(s) ==
    /\ task[s] = "streaming"
    /\ receivers' = receivers \ {s}
    /\ Goto(s, "stopped")
    /\ UNCHANGED <<account, first, sessions, active, channels, told>>

(* Where a task goes after disconnect_presence. *)
Return(s) ==
    IF s \in receivers
    THEN Goto(s, "idle") /\ receivers' = receivers \ {s}
    ELSE Goto(s, "unsubscribing") /\ UNCHANGED receivers

(* Mutants: the last session is not recognised; its entry stays. *)
IsLast_OffByOne(a) == sessions[a] < 1
IsLast(a) == sessions[a] <= 1

Left_EntryStays(a) == IF IsLast(a) THEN sessions[a] ELSE sessions[a] - 1
Left(a) == IF IsLast(a) THEN 0 ELSE sessions[a] - 1

(* presence_disconnected; the last session of the account goes on to touch *)
(* last_seen_at.                                                           *)
PresenceDisconnected(s) ==
    /\ task[s] \in {"failed", "stopped"}
    /\ sessions' = [sessions EXCEPT ![account[s]] = Left(account[s])]
    /\ active' = active - 1
    /\ IF IsLast(account[s])
       THEN Goto(s, IF task[s] = "failed" THEN "parting failed" ELSE "parting")
            /\ UNCHANGED receivers
       ELSE Return(s)
    /\ UNCHANGED <<account, first, channels, told>>

(* ... and then to publish that the account is offline. *)
Part(s) ==
    /\ task[s] \in {"parting", "parting failed"}
    /\ told' = [told EXCEPT ![account[s]] = "offline"]
    /\ Return(s)
    /\ UNCHANGED <<account, first, sessions, active, channels>>

(* Mutant: the channel is removed under its receivers. *)
NobodyListens_Ignored(a) == TRUE
NobodyListens(a) == \A r \in receivers : account[r] # a

Unsubscribe(s) ==
    /\ task[s] = "unsubscribing"
    /\ IF NobodyListens(account[s])
       THEN /\ channels' = channels \ {account[s]}
            /\ receivers' = {r \in receivers : account[r] # account[s]}
       ELSE UNCHANGED <<channels, receivers>>
    /\ Goto(s, "idle")
    /\ UNCHANGED <<account, first, sessions, active, told>>

Next ==
    \E s \in Sessions :
        \/ \E a \in Accounts : TryConnect(s, a)
        \/ Subscribe(s) \/ Greet(s) \/ GreetFails(s) \/ Announce(s)
        \/ Stop(s) \/ PresenceDisconnected(s) \/ Part(s) \/ Unsubscribe(s)

Spec == Init /\ [][Next]_vars

-------------------------------------------------------------------------------
Places == {"idle", "accepted", "greeting", "announcing", "streaming", "failed", "stopped",
           "parting", "parting failed", "unsubscribing"}

(* The variables have their types, and the limits on connections hold.     *)
TypeOK ==
    /\ task \in [Sessions -> Places]
    /\ account \in [Sessions -> Accounts]
    /\ first \in [Sessions -> BOOLEAN]
    /\ sessions \in [Accounts -> 0..MaxPerAccount]
    /\ active \in 0..MaxConnections
    /\ channels \subseteq Accounts /\ receivers \subseteq Sessions
    /\ told \in [Accounts -> {"nothing", "online", "offline"}]

Registered(s) ==
    task[s] \in {"accepted", "greeting", "announcing", "streaming", "failed", "stopped"}

RegisteredOf(a) == {s \in Sessions : Registered(s) /\ account[s] = a}

(* Every admitted connection is given back exactly once, whichever way its *)
(* task ends: the counts the limits are tested against are those of the    *)
(* tasks, so a slot is neither lost for good nor given twice.              *)
CountsMatchTasks ==
    /\ \A a \in Accounts : sessions[a] = Cardinality(RegisteredOf(a))
    /\ active = Cardinality({s \in Sessions : Registered(s)})

(* A task that listens, listens to the channel its account's events are    *)
(* published on: an unsubscribe that overlaps a new connection never cuts  *)
(* the new one off.                                                        *)
NobodyIsCutOff ==
    \A s \in Sessions :
        task[s] \in {"greeting", "announcing", "streaming"} =>
            s \in receivers /\ account[s] \in channels

(* When the last task of an account has ended, its watchers have not been  *)
(* left with "online", however connects and disconnects overlapped.        *)
OfflineOnceGone ==
    \A a \in Accounts :
        (\A s \in Sessions : account[s] = a => task[s] = "idle") => told[a] # "online"

(* An account stays online until its last session closes: when none of its *)
(* tasks is connecting or leaving and one is streaming, what the watchers  *)
(* were told last is "online".                                             *)
OnlineUntilLastCloses ==
    \A a \in Accounts :
        LET mine == {s \in Sessions : account[s] = a}
        IN  (\A s \in mine : task[s] \in {"idle", "streaming"})
            /\ (\E s \in mine : task[s] = "streaming")
              => told[a] = "online"
===============================================================================
