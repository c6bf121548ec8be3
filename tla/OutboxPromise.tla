---------------------------- MODULE OutboxPromise -----------------------------
(***************************************************************************)
(* What an outbox promises of each message it takes: it is kept until the  *)
(* server confirms it, until its attempts are used up, until its           *)
(* conversation takes no messages, or until the user clears the queue.  A  *)
(* message that left comes back only by a restart, from the copy that was  *)
(* saved; the server may still get it from a late request.                 *)
(***************************************************************************)
CONSTANTS Messages
VARIABLES phase, saved, closed

Init == phase = [m \in Messages |-> "new"] /\ saved = {} /\ closed \subseteq Messages

Kept == {m \in Messages : phase[m] = "kept"}
Leave(S, to) == phase' = [m \in Messages |-> IF m \in S THEN to ELSE phase[m]]

Take(m) == phase[m] = "new" /\ Leave({m}, "kept")
Confirm(m) == phase[m] \in {"givenUp", "discarded", "kept"} /\ Leave({m}, "served")
GiveUp(m) == phase[m] = "kept" /\ Leave({m}, "givenUp")
(* Of the messages that leave without a confirmation some were served, and *)
(* some had used up their attempts too.                                    *)
Gone(S) == \E left \in [S -> {"served", "givenUp", "discarded"}] :
              phase' = [m \in Messages |-> IF m \in S THEN left[m] ELSE phase[m]]
Clear == Gone(Kept)
Lose == \E S \in SUBSET (Kept \cap closed) : Gone(S)
Restart == \E left \in [Messages \ saved -> {"served", "givenUp", "discarded"}] :
    phase' = [m \in Messages |-> IF m \in saved THEN "kept"
                                 ELSE IF phase[m] = "new" THEN "new" ELSE left[m]]

Next == /\ saved' \subseteq Messages /\ closed' \subseteq Messages
        /\ \/ \E m \in Messages : Take(m) \/ Confirm(m) \/ GiveUp(m)
           \/ Clear \/ Lose \/ Restart \/ UNCHANGED phase

Spec == Init /\ [][Next]_<<phase, saved, closed>>
===============================================================================
