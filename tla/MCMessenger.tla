----------------------------- MODULE MCMessenger ------------------------------
(* Model-checking module of Messenger: two profiles, one with two chats and *)
(* one with one; a message with two edits and a reaction.                   *)
EXTENDS Messenger, TLC
CONSTANTS a, b, a1, a2, b1
TwoProfiles == {a, b}
ThreeChats == {a1, a2, b1}
OwnerOf == a1 :> a @@ a2 :> a @@ b1 :> b
CallsAtOnce == "desktop" :> 1 @@ "mobile" :> 2
ThreeEntries == 1..3
TwoServers == 1..2
OneMessage == [text |-> 1, edit |-> 2, reaction |-> 1, read |-> 1]
===============================================================================
