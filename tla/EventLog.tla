------------------------------- MODULE EventLog -------------------------------
(***************************************************************************)
(* What the realtime event log promises to whoever reads it: every account *)
(* owns a log of events numbered 1, 2, 3, ... without a gap; a stored      *)
(* event never changes and never moves; an event (kind, source) is stored  *)
(* at most once; and a log disappears only as a whole, with its account.   *)
(*                                                                         *)
(* The clients' cursors, the websocket stream and the paged /sync all lean *)
(* on these promises.  EventStore implements them on the tables of         *)
(* server/src/storage.rs.                                                  *)
(***************************************************************************)
EXTENDS Integers

CONSTANT Accounts

VARIABLES
    log,      \* log[a]: the set of events stored for account a
    cursors   \* cursors[a]: the cursor of the newest one (0 when there is none)

vars == <<log, cursors>>

SameEvent(e, f) == e.kind = f.kind /\ e.source = f.source

Init ==
    /\ log = [a \in Accounts |-> {}]
    /\ cursors = [a \in Accounts |-> 0]

(* One transaction appends one or more events to the log of one account. *)
Append(a) ==
    LET new == log'[a] \ log[a] IN
    /\ log[a] \subseteq log'[a]
    /\ cursors'[a] > cursors[a]
    /\ {e.cursor : e \in new} = (cursors[a] + 1)..cursors'[a]
    /\ \A e, f \in new : e.cursor = f.cursor => e = f
    /\ \A e \in new : \A f \in log'[a] : SameEvent(e, f) => e = f
    /\ \A b \in Accounts \ {a} : log'[b] = log[b] /\ cursors'[b] = cursors[b]

(* The account is deleted: its log and its cursor go with it. *)
Forget(a) ==
    /\ log' = [log EXCEPT ![a] = {}]
    /\ cursors' = [cursors EXCEPT ![a] = 0]

Next == \E a \in Accounts : Append(a) \/ Forget(a)

Spec == Init /\ [][Next]_vars

===============================================================================
