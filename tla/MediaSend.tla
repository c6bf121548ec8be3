-------------------------------- MODULE MediaSend --------------------------------
(***************************************************************************)
(* Messages with attachments under way: sendMessageToConversation of both  *)
(* App.tsx as far as the attachments go, the composer that starts it and   *)
(* the forwarding of a message, which does not wait for the composer.  On  *)
(* the desktop one upload aborts the one before it, on the phone the end of*)
(* any message hides the progress of all.                                  *)
(***************************************************************************)
EXTENDS Naturals, FiniteSets

CONSTANTS MaxSends, MaxForwards
BoundsAssumption == {MaxSends, MaxForwards} \subseteq Nat

VARIABLES
    app,        \* "desktop" or "phone"
    operation,  \* mediaOperationRef: the last upload, or the switch that ended it
    controller, \* mediaAbortRef: the upload it aborts, 0 when there is none
    progress,   \* mediaUploadProgress is shown, and the composer waits
    sends,      \* [op, at, aborted], at "encrypt", "upload" or "queued" in the outbox
    forwards,   \* messages being prepared to be forwarded
    started,
    vanished    \* history: messages neither queued nor reported
vars == <<app, operation, controller, progress, sends, forwards, started, vanished>>

Init ==
    /\ app \in {"desktop", "phone"} /\ operation = 0 /\ controller = 0 /\ progress = FALSE
    /\ sends = {} /\ forwards = 0 /\ started = 0 /\ vanished = {}

(* The upload is the one the composer waits for; the phone does not ask.   *)
Owns_Any(s) == TRUE
Owns(s) == app = "phone" \/ s.op = operation
Aborted == {IF s.op = controller THEN [s EXCEPT !.aborted = TRUE] ELSE s : s \in sends}
Starts(rest) ==
    /\ started < MaxSends /\ started' = started + 1 /\ operation' = operation + 1 /\ progress' = TRUE
    /\ sends' = rest \cup {[op |-> operation', at |-> "encrypt", aborted |-> FALSE]}
    /\ UNCHANGED <<app, vanished>>
Begins == app = "desktop" /\ Starts(Aborted) /\ controller' = operation'
MobileBegins == app = "phone" /\ Starts(sends) /\ UNCHANGED controller
Submit == ~progress /\ Begins /\ UNCHANGED forwards
MobileSubmit == ~progress /\ MobileBegins /\ UNCHANGED forwards
(* Its attachments are downloaded, decrypted and encrypted again.          *)
ForwardMessage ==
    /\ forwards < MaxForwards /\ forwards' = forwards + 1
    /\ UNCHANGED <<app, operation, controller, progress, sends, started, vanished>>
Forwarded == forwards > 0 /\ forwards' = forwards - 1 /\ Begins
SendForwardedMessage == forwards > 0 /\ forwards' = forwards - 1 /\ MobileBegins
ForwardFails ==
    /\ forwards > 0 /\ forwards' = forwards - 1
    /\ UNCHANGED <<app, operation, controller, progress, sends, started, vanished>>

(* Attachments are encrypted and uploaded one after the other.             *)
Goes(s, ats) ==
    /\ \E at \in ats : sends' = (sends \ {s}) \cup {[s EXCEPT !.at = at]}
    /\ UNCHANGED <<app, operation, controller, forwards, started, vanished>>
EncryptMedia(s) == app = "desktop" /\ s.at = "encrypt" /\ Goes(s, {"upload"}) /\ UNCHANGED progress
MobileEncryptMedia(s) == app = "phone" /\ s.at = "encrypt" /\ Goes(s, {"upload"}) /\ UNCHANGED progress
UpdateMediaProgress(s) == progress' = (progress \/ Owns(s))
UploadMedia(s) ==
    /\ app = "desktop" /\ s.at = "upload" /\ ~s.aborted
    /\ UpdateMediaProgress(s) /\ Goes(s, {"upload", "encrypt", "queued"})
MobileUploadMedia(s) ==
    /\ app = "phone" /\ s.at = "upload"
    /\ progress' = TRUE /\ Goes(s, {"upload", "encrypt", "queued"})
Ends(s) ==
    /\ sends' = sends \ {s} /\ progress' = (progress /\ ~Owns(s))
    /\ controller' = IF controller = s.op /\ Owns(s) THEN 0 ELSE controller
    /\ UNCHANGED <<app, operation, forwards, started>>
Sent(s) == s.at = "queued" /\ Ends(s) /\ UNCHANGED vanished
(* An upload that is not the last any more fails without a word.           *)
Fails(s) ==
    /\ Ends(s) /\ vanished' = IF s.at # "queued" /\ ~Owns(s) THEN vanished \cup {s.op} ELSE vanished
(* On the phone the end of any message, a text or a reaction, hides it.    *)
PlainEnds ==
    /\ app = "phone" /\ progress' = FALSE
    /\ UNCHANGED <<app, operation, controller, sends, forwards, started, vanished>>
(* Another profile is selected, or this one is removed.                    *)
CancelMediaOperation ==
    /\ app = "desktop" /\ started < MaxSends /\ started' = started + 1
    /\ operation' = operation + 1 /\ controller' = 0 /\ progress' = FALSE /\ sends' = Aborted
    /\ UNCHANGED <<app, forwards, vanished>>

Next ==
    \/ Submit \/ MobileSubmit \/ ForwardMessage \/ Forwarded \/ SendForwardedMessage \/ ForwardFails
    \/ \E s \in sends :
          \/ EncryptMedia(s) \/ MobileEncryptMedia(s) \/ UploadMedia(s) \/ MobileUploadMedia(s)
          \/ Sent(s) \/ Fails(s)
    \/ PlainEnds \/ CancelMediaOperation
Spec == Init /\ [][Next]_vars

(* The composer waits exactly while the last upload is under way, whatever *)
(* was aborted, forwarded, refused or switched away from meanwhile: it is  *)
(* never locked for good, nor open to a second message on the desktop.  On *)
(* the phone it does not wait for all of them, but it is never locked.     *)
ComposerWaits ==
    /\ progress => \E s \in sends : Owns(s)
    /\ app = "desktop" /\ (\E s \in sends : s.op = operation) => progress
(* A message with an attachment is sent, kept or reported.  Does not hold: *)
(* the upload a forwarded message aborts is gone without a word.           *)
NoneVanishes == vanished = {}
===============================================================================
