----------------------------- MODULE MCEventStore -----------------------------
(* Small instances of EventStore: two accounts and a peer elsewhere.       *)
EXTENDS EventStore, TLC

CONSTANTS alice, bob, remote, m1, m2, m3, MaxEvents, MaxConversations

MCAccounts == {alice, bob}
MCRemotePeers == {remote}
MCSenderOf == (m1 :> alice) @@ (m2 :> alice) @@ (m3 :> remote)

(* The bounds: states with at most MaxEvents events in each log and at     *)
(* most MaxConversations conversations are explored further; the           *)
(* properties are also checked one operation beyond.                       *)
BoundedLog ==
    /\ \A a \in Accounts : cursors[a] <= MaxEvents
    /\ Cardinality(conversations) <= MaxConversations
===============================================================================
