-------------------------- MODULE ClientSessionProofs --------------------------
(***************************************************************************)
(* Proofs about ClientSession, for any number of events, moves, failures   *)
(* and sessions: the session is quiet in the background, always on its way *)
(* to a connection in front, and believes what is the case.                *)
(***************************************************************************)
EXTENDS ClientSession, FiniteSetTheorems, TLAPS

(* What each client does is one of these actions.                          *)
Step ==
    \/ Move \/ Commit \/ ServerAccepts \/ SocketDies \/ WindowChanges \/ NetworkChanges
    \/ CacheRead \/ StartSession \/ StopSession \/ HandleFrame \/ SocketCloses \/ Reconnects
    \/ FallbackFires \/ Heartbeat \/ SyncRead \/ SyncFails \/ SyncSkips \/ SyncApplies
    \/ PrepareDone \/ PrepareFails \/ WaitOver

LEMMA NextIsStep == Next => Step
  <1>1. World => Step  BY DEF World, Step
  <1>2. DesktopNext => Step
    BY DEF DesktopNext, Desktop, HandleWindow, HandleOnlineOffline, Step
  <1>3. TakeFrame(HandleReady) \/ TakeFrame(HandleSnapshot) \/ TakeFrame(HandleEvent) => HandleFrame
    BY DEF TakeFrame, HandleFrame
  <1>4. MobileNext => Step
    BY <1>3 DEF MobileNext, Mobile, AppStateChanges, ApplyNetworkState, MobileStart, MobileCleanup,
           MobileReady, MobileSnapshot, MobileEvent, MobileClose, MobileReconnects, MobileFallback,
           MobileHeartbeat, MobileSync, MobileSyncInForeground, MobileApply, MobileEnsureBundle, Step
  <1> QED  BY <1>1, <1>2, <1>4 DEF Next

-------------------------------------------------------------------------------
(* Without a socket nothing is on its way and the session is not ready: so *)
(* no frame ends the polling of a client that waits for its socket.        *)
NothingComes == socket = "none" => inbox = <<>> /\ ~ready
LinkInv == NothingComes /\ QuietWhenSuspended /\ StaysConnected

LEMMA LinkInit == Init => LinkInv
  BY DEF Init, LinkInv, NothingComes, QuietWhenSuspended, StaysConnected, Live, Allowed

LEMMA FollowKeeps ==
    ASSUME LinkInv, on, on' = on, Follow
    PROVE  LinkInv'
  <1>1. CASE ~(front' /\ online')
    BY <1>1 DEF Follow, Suspend, LetGo, LinkInv, NothingComes, QuietWhenSuspended, StaysConnected,
           Live, Allowed
  <1>2. CASE front' /\ online' /\ ~Allowed
    BY <1>2 DEF Follow, Resume, OpenRealtime, LinkInv, NothingComes, QuietWhenSuspended,
           StaysConnected, Live, Allowed
  <1>3. CASE front' /\ online' /\ Allowed
    BY <1>3 DEF Follow, link, timers, LinkInv, NothingComes, QuietWhenSuspended, StaysConnected,
           Live, Allowed
  <1> QED  BY <1>1, <1>2, <1>3

LEMMA LinkStep == LinkInv /\ [Next]_vars => LinkInv'
  <1> SUFFICES ASSUME LinkInv, Step \/ UNCHANGED vars PROVE LinkInv'
    BY NextIsStep
  <1> USE DEF LinkInv, NothingComes, QuietWhenSuspended, StaysConnected, Live, Allowed
  <1>1. CASE Move  BY <1>1 DEF Move, link, timers
  <1>2. CASE Commit  BY <1>2 DEF Commit, timers
  <1>3. CASE ServerAccepts  BY <1>3 DEF ServerAccepts, timers
  <1>4. CASE SocketDies  BY <1>4 DEF SocketDies, timers
  <1>5. CASE WindowChanges
    <2>1. on /\ on' = on /\ Follow  BY <1>5 DEF WindowChanges
    <2> QED  BY <2>1, FollowKeeps
  <1>6. CASE NetworkChanges
    <2>1. on /\ on' = on /\ Follow  BY <1>6 DEF NetworkChanges
    <2> QED  BY <2>1, FollowKeeps
  <1>7. CASE CacheRead  BY <1>7 DEF CacheRead, link, timers
  <1>8. CASE StartSession  BY <1>8 DEF StartSession
  <1>9. CASE StopSession  BY <1>9 DEF StopSession, Suspend, LetGo
  <1>10. CASE HandleFrame
    <2>1. /\ inbox # <<>> /\ UNCHANGED <<on, front, online, socket, heartbeat, reconnect, polling>>
          /\ (ready' = TRUE /\ fallback' = FALSE) \/ UNCHANGED <<ready, fallback>>
      BY <1>10 DEF HandleFrame, TakeFrame, HandleReady, HandleSnapshot, HandleEvent, outside
    <2> QED  BY <2>1
  <1>11. CASE SocketCloses  BY <1>11 DEF SocketCloses, HandleClose, LetGo
  <1>12. CASE Reconnects  BY <1>12 DEF Reconnects, OpenRealtime
  <1>13. CASE FallbackFires  BY <1>13 DEF FallbackFires, link
  <1>14. CASE Heartbeat  BY <1>14 DEF Heartbeat, HandleClose, LetGo
  <1>15. CASE SyncRead  BY <1>15 DEF SyncRead, Rest, link, timers
  <1>16. ASSUME NEW c, NEW b, FinishSync(c, b), UNCHANGED Rest PROVE LinkInv'
    BY <1>16 DEF FinishSync, Rest, link
  <1>17. CASE SyncFails  BY <1>16, <1>17 DEF SyncFails, NothingApplied
  <1>18. CASE SyncSkips  BY <1>16, <1>18 DEF SyncSkips, NothingApplied
  <1>19. ASSUME UNCHANGED <<Rest, timers>> PROVE LinkInv'
    BY <1>19 DEF Rest, link, timers
  <1>20. CASE SyncApplies  BY <1>16, <1>19, <1>20 DEF SyncApplies, NothingApplied
  <1>21. CASE PrepareDone  BY <1>16, <1>19, <1>21 DEF PrepareDone
  <1>22. CASE PrepareFails  BY <1>16, <1>19, <1>22 DEF PrepareFails
  <1>23. CASE WaitOver  BY <1>19, <1>23 DEF WaitOver
  <1>24. CASE UNCHANGED vars  BY <1>24 DEF vars, link, timers
  <1> QED  BY <1>1, <1>2, <1>3, <1>4, <1>5, <1>6, <1>7, <1>8, <1>9, <1>10, <1>11, <1>12, <1>13,
              <1>14, <1>15, <1>17, <1>18, <1>20, <1>21, <1>22, <1>23, <1>24 DEF Step

(* In the background, offline or signed out a client keeps no socket, no   *)
(* timer and no frame (suspendRealtime), whatever was under way.           *)
THEOREM QuietInTheBackground == Spec => []QuietWhenSuspended
  <1>1. LinkInv => QuietWhenSuspended  BY DEF LinkInv
  <1> QED  BY LinkInit, LinkStep, <1>1, PTL DEF Spec

(* In the foreground a client has a socket or a timer that opens one, its  *)
(* heartbeat, and polls while it has none: handleRealtimeClose and         *)
(* resumeRealtime never leave it without a way back.                       *)
THEOREM AlwaysAWayBack == Spec => []StaysConnected
  <1>1. LinkInv => StaysConnected  BY DEF LinkInv
  <1> QED  BY LinkInit, LinkStep, <1>1, PTL DEF Spec
-------------------------------------------------------------------------------
(* What the session knows of the window or the network is what is the case *)
(* unless it has yet to hear of it, and then the last notice says so.      *)
Says(told, kind, value) ==
    \E i \in 1..Len(told) :
        /\ told[i] = <<kind, value>>
        /\ \A j \in 1..Len(told) : i < j => told[j][1] # kind
Silent(told, kind) == \A i \in 1..Len(told) : told[i][1] # kind
Heard(told, kind, known, value) ==
    Says(told, kind, value) \/ (Silent(told, kind) /\ known = value)
Notices == Seq({"window", "net"} \X BOOLEAN)
NoticeInv ==
    /\ notices \in Notices /\ window \in BOOLEAN /\ net \in BOOLEAN
    /\ on => Heard(notices, "window", front, window) /\ Heard(notices, "net", online, net)

LEMMA NewNotice ==
    ASSUME NEW told \in Notices, NEW kind \in {"window", "net"}, NEW value \in BOOLEAN
    PROVE  /\ Append(told, <<kind, value>>) \in Notices
           /\ \A known : Heard(Append(told, <<kind, value>>), kind, known, value)
           /\ \A other \in {"window", "net"} \ {kind} : \A known, v :
                 Heard(told, other, known, v) => Heard(Append(told, <<kind, value>>), other, known, v)
  <1> DEFINE longer == Append(told, <<kind, value>>)
  <1>1. /\ longer \in Notices /\ Len(longer) = Len(told) + 1 /\ Len(told) \in Nat
        /\ longer[Len(told) + 1] = <<kind, value>>
        /\ \A i \in 1..Len(told) : longer[i] = told[i]
    BY DEF Notices
  <1> HIDE DEF longer
  <1>2. \A known : Heard(longer, kind, known, value)
    BY <1>1 DEF Heard, Says
  <1>3. ASSUME NEW other \in {"window", "net"} \ {kind}, NEW known, NEW v, Heard(told, other, known, v)
        PROVE  Heard(longer, other, known, v)
    <2>1. ASSUME NEW i \in 1..Len(longer) PROVE i \in 1..Len(told) \/ longer[i][1] = kind
      BY <1>1
    <2>2. CASE Says(told, other, v)
      <3>1. PICK i \in 1..Len(told) : /\ told[i] = <<other, v>>
                                       /\ \A j \in 1..Len(told) : i < j => told[j][1] # other
        BY <2>2 DEF Says
      <3>2. i \in 1..Len(longer) /\ longer[i] = <<other, v>>  BY <1>1, <3>1
      <3>3. \A j \in 1..Len(longer) : i < j => longer[j][1] # other  BY <1>1, <2>1, <3>1
      <3> QED  BY <3>2, <3>3 DEF Heard, Says
    <2>3. CASE Silent(told, other) /\ known = v
      BY <1>1, <2>1, <2>3 DEF Heard, Silent
    <2> QED  BY <1>3, <2>2, <2>3 DEF Heard
  <1> QED  BY <1>1, <1>2, <1>3 DEF longer

LEMMA NoticeTaken ==
    ASSUME NEW told \in Notices, told # <<>>
    PROVE  /\ Tail(told) \in Notices
           /\ \A known, v : Heard(told, Head(told)[1], known, v)
                               => Heard(Tail(told), Head(told)[1], Head(told)[2], v)
           /\ \A other : other # Head(told)[1] => \A known, v :
                 Heard(told, other, known, v) => Heard(Tail(told), other, known, v)
  <1> DEFINE rest == Tail(told)
  <1>1. /\ rest \in Notices /\ Len(told) \in Nat \ {0} /\ Len(rest) = Len(told) - 1
        /\ \A i \in 1..Len(rest) : rest[i] = told[i + 1]
        /\ Head(told) = told[1]
    BY DEF Notices
  <1> HIDE DEF rest
  <1>2. ASSUME NEW i \in 1..Len(told), i # 1
        PROVE  i - 1 \in 1..Len(rest) /\ rest[i - 1] = told[i]
    BY <1>1, <1>2
  <1>3. ASSUME NEW kind, NEW v, NEW i \in 1..Len(told), i # 1, told[i] = <<kind, v>>,
               \A j \in 1..Len(told) : i < j => told[j][1] # kind
        PROVE  Says(rest, kind, v)
    <2>1. i - 1 \in 1..Len(rest) /\ rest[i - 1] = <<kind, v>>  BY <1>2, <1>3
    <2>2. \A j \in 1..Len(rest) : i - 1 < j => rest[j][1] # kind  BY <1>1, <1>3
    <2> QED  BY <2>1, <2>2 DEF Says
  <1>4. ASSUME NEW known, NEW v, Heard(told, told[1][1], known, v)
        PROVE  Heard(rest, told[1][1], told[1][2], v)
    <2>1. PICK i \in 1..Len(told) : /\ told[i] = <<told[1][1], v>>
                                     /\ \A j \in 1..Len(told) : i < j => told[j][1] # told[1][1]
      BY <1>1, <1>4 DEF Heard, Says, Silent
    <2>2. CASE i = 1
      <3>1. Silent(rest, told[1][1])  BY <1>1, <2>1, <2>2 DEF Silent
      <3>2. told[1][2] = v  BY <2>1, <2>2
      <3> QED  BY <3>1, <3>2 DEF Heard
    <2>3. CASE i # 1  BY <1>3, <2>1, <2>3 DEF Heard
    <2> QED  BY <2>2, <2>3
  <1>5. ASSUME NEW other, other # told[1][1], NEW known, NEW v, Heard(told, other, known, v)
        PROVE  Heard(rest, other, known, v)
    <2>1. CASE Says(told, other, v)
      <3>1. PICK i \in 1..Len(told) : /\ told[i] = <<other, v>>
                                       /\ \A j \in 1..Len(told) : i < j => told[j][1] # other
        BY <2>1 DEF Says
      <3>2. i # 1  BY <1>5, <3>1
      <3> QED  BY <1>3, <3>1, <3>2 DEF Heard
    <2>2. CASE Silent(told, other) /\ known = v
      BY <1>1, <2>2 DEF Heard, Silent
    <2> QED  BY <1>5, <2>1, <2>2 DEF Heard
  <1> QED  BY <1>1, <1>4, <1>5 DEF rest

LEMMA NoticeInit == Init => NoticeInv
  BY DEF Init, NoticeInv, Notices

LEMMA NoticeStep == NoticeInv /\ [Next]_vars => NoticeInv'
  <1> SUFFICES ASSUME NoticeInv, Step \/ UNCHANGED vars PROVE NoticeInv'
    BY NextIsStep
  <1>1. CASE Move
    <2>1. CASE /\ window' = ~window /\ UNCHANGED <<net, on, front, online>>
               /\ notices' = IF on THEN Append(notices, <<"window", ~window>>) ELSE notices
      <3>1. CASE on  BY <2>1, <3>1, NewNotice DEF NoticeInv
      <3>2. CASE ~on  BY <2>1, <3>2 DEF NoticeInv
      <3> QED  BY <3>1, <3>2
    <2>2. CASE /\ net' = ~net /\ UNCHANGED <<window, on, front, online>>
               /\ notices' = IF on THEN Append(notices, <<"net", ~net>>) ELSE notices
      <3>1. CASE on  BY <2>2, <3>1, NewNotice DEF NoticeInv
      <3>2. CASE ~on  BY <2>2, <3>2 DEF NoticeInv
      <3> QED  BY <3>1, <3>2
    <2> QED  BY <1>1, <2>1, <2>2 DEF Move
  <1>2. CASE WindowChanges
    <2>1. /\ on /\ on' = on /\ notices # <<>> /\ Head(notices)[1] = "window" /\ notices' = Tail(notices)
          /\ front' = Head(notices)[2] /\ UNCHANGED <<online, window, net>>
      BY <1>2 DEF WindowChanges
    <2> QED  BY <2>1, NoticeTaken DEF NoticeInv
  <1>3. CASE NetworkChanges
    <2>1. /\ on /\ on' = on /\ notices # <<>> /\ Head(notices)[1] = "net" /\ notices' = Tail(notices)
          /\ online' = Head(notices)[2] /\ UNCHANGED <<front, window, net>>
      BY <1>3 DEF NetworkChanges
    <2> QED  BY <2>1, NoticeTaken DEF NoticeInv
  <1>4. CASE StartSession
    <2>1. front' = window /\ UNCHANGED <<window, net>>  BY <1>4 DEF StartSession
    <2>2. CASE platform = "mobile"
      <3>1. notices' = <<<<"net", net>>>>  BY <1>4, <2>2 DEF StartSession, FirstNotices
      <3>2. Len(notices') = 1 /\ notices'[1] = <<"net", net>> /\ notices' \in Notices
        BY <3>1 DEF NoticeInv, Notices
      <3>3. Says(notices', "net", net) /\ Silent(notices', "window")  BY <3>2 DEF Says, Silent
      <3> QED  BY <2>1, <3>2, <3>3 DEF NoticeInv, Heard
    <2>3. CASE platform # "mobile"
      <3>1. notices' = <<>> /\ online' = net  BY <1>4, <2>3 DEF StartSession, FirstNotices
      <3>2. notices' \in Notices /\ \A kind : Silent(notices', kind)  BY <3>1 DEF Notices, Silent
      <3> QED  BY <2>1, <3>1, <3>2 DEF NoticeInv, Heard
    <2> QED  BY <2>2, <2>3
  <1>5. CASE StopSession
    <2>1. ~on' /\ notices' = <<>> /\ UNCHANGED <<window, net>>  BY <1>5 DEF StopSession
    <2> QED  BY <2>1 DEF NoticeInv, Notices
  <1>6. ASSUME UNCHANGED <<notices, window, net, on, front, online>> PROVE NoticeInv'
    BY <1>6 DEF NoticeInv
  <1>7. Commit \/ ServerAccepts \/ SocketDies \/ CacheRead \/ HandleFrame \/ SocketCloses \/ Reconnects
           \/ FallbackFires \/ Heartbeat \/ SyncRead \/ SyncFails \/ SyncSkips \/ SyncApplies
           \/ PrepareDone \/ PrepareFails \/ WaitOver \/ UNCHANGED vars
        => UNCHANGED <<notices, window, net, on, front, online>>
    BY DEF Commit, ServerAccepts, SocketDies, CacheRead, HandleFrame, TakeFrame, SocketCloses,
       Reconnects,
           FallbackFires, Heartbeat, SyncRead, SyncFails, SyncSkips, SyncApplies, PrepareDone,
           PrepareFails, WaitOver, NothingApplied, Rest, vars, outside
  <1> QED  BY <1>1, <1>2, <1>3, <1>4, <1>5, <1>6, <1>7 DEF Step

(* Once it has heard of every change, the session believes of the window   *)
(* and the network what is the case, also when they change while a session *)
(* begins: presence.ts and the notice the mobile client asks for first.    *)
THEOREM BeliefsAreTrue == Spec => []PresenceFollows
  <1>1. NoticeInv => PresenceFollows
    <2>1. ASSUME notices = <<>>, NEW kind, NEW known, NEW v, Heard(notices, kind, known, v) PROVE known = v
      BY <2>1 DEF Heard, Says
    <2> QED  BY <2>1 DEF NoticeInv, PresenceFollows
  <1> QED  BY NoticeInit, NoticeStep, <1>1, PTL DEF Spec
-------------------------------------------------------------------------------
(* Types, and how the session stands to the account: nothing that is on    *)
(* its way to the client, or waits for the keys, is ahead of the account,  *)
(* so the cursor is not either.                                            *)
SwitchInv ==
    /\ platform \in Platforms
    /\ on \in BOOLEAN /\ front \in BOOLEAN /\ online \in BOOLEAN /\ ready \in BOOLEAN
    /\ heartbeat \in BOOLEAN /\ reconnect \in BOOLEAN /\ fallback \in BOOLEAN /\ polling \in BOOLEAN
    /\ again \in BOOLEAN /\ cacheDue \in BOOLEAN /\ partial \in BOOLEAN
    /\ moves \in Nat /\ failures \in Nat /\ sessions \in Nat
Frame == {"ready", "sync", "event"} \X Nat
Within(c) == c \in Nat /\ c <= last
Waits(f) == f = <<>> \/ (f \in Frame /\ f[2] <= last)
FrameInv ==
    /\ last \in Nat /\ Within(cursor) /\ Within(upTo) /\ Within(since)
    /\ inbox \in Seq(Frame) /\ \A i \in 1..Len(inbox) : inbox[i][2] <= last
    /\ Waits(frame) /\ pending \subseteq 1..last
(* The keys are prepared by one, who waits for them: the sync that applies *)
(* its answer, or the frame that asked first.                              *)
KeysInv ==
    /\ socket \in {"none", "opening", "open", "dead"}
    /\ sync \in {"idle", "asked", "answered", "applying"}
    /\ bundle \in {"none", "preparing", "waiting", "ready"}
    /\ on /\ bundle = "preparing" => (sync = "applying" <=> frame = <<>>)
    /\ on /\ bundle # "preparing" => sync # "applying" /\ frame = <<>>

-------------------------------------------------------------------------------
(* A page, an answer and the events applied from the realtime queue bring  *)
(* the cursor no further than the account.                                 *)
LEMMA PageWithin ==
    ASSUME last \in Nat, NEW c \in Nat, c <= last
    PROVE  Page(c) \in Nat /\ Page(c) <= last
  BY SessionAssumption DEF Page

LEMMA ApplyWithin ==
    ASSUME last \in Nat, cursor \in Nat, cursor <= last, NEW n \in Nat, n <= last, NEW c, Apply(n, c)
    PROVE  c \in Nat /\ c <= last
  BY DEF Apply, Bigger

LEMMA ThroughWithin ==
    ASSUME last \in Nat, NEW S \in SUBSET (1..last), NEW c \in Nat, c <= last
    PROVE  Through(S, c) \in Nat /\ Through(S, c) <= last
  <1> DEFINE run == {n \in S : n > c /\ (c + 1)..n \subseteq S}
  <1>1. IsFiniteSet((c + 1)..last) /\ Cardinality((c + 1)..last) = last - c
    <2>1. /\ c + 1 \in Int /\ last \in Int
          /\ (IF c + 1 > last THEN 0 ELSE last - (c + 1) + 1) = last - c
      OBVIOUS
    <2> QED  BY <2>1, FS_Interval
  <1>2. run \subseteq (c + 1)..last
    <2>1. ASSUME NEW n \in 1..last, n > c PROVE n \in (c + 1)..last
      BY <2>1
    <2> QED  BY <2>1
  <1> HIDE DEF run
  <1>3. IsFiniteSet(run) /\ Cardinality(run) <= last - c
    BY <1>1, <1>2, FS_Subset
  <1>4. Cardinality(run) \in Nat  BY <1>3, FS_CardinalityType
  <1>5. Through(S, c) = c + Cardinality(run)  BY DEF Through, run
  <1> QED  BY <1>3, <1>4, <1>5

LEMMA DrainWithin ==
    ASSUME last \in Nat, NEW S \in SUBSET (1..last), NEW c \in Nat, c <= last, NEW b,
           Drain(S, c, b), last' = last
    PROVE  Within(cursor)' /\ Waits(frame)' /\ pending' \subseteq 1..last
  <1> DEFINE n == Drained(S, c, b)
  <1>1. n \in Nat /\ n <= last  BY ThroughWithin DEF Drained
  <1>2. /\ cursor' = n /\ pending' = After(S, n)
        /\ frame' = IF AwaitsKeys(S, n, b) THEN <<"event", n + 1>> ELSE <<>>
    BY DEF Drain
  <1> HIDE DEF n
  <1>3. AwaitsKeys(S, n, b) => <<"event", n + 1>> \in Frame /\ n + 1 <= last
    <2>1. AwaitsKeys(S, n, b) => n + 1 \in 1..last  BY DEF AwaitsKeys
    <2> QED  BY <1>1, <2>1 DEF Frame
  <1>4. Waits(frame)'
    <2>1. CASE AwaitsKeys(S, n, b)
      <3>1. frame' = <<"event", n + 1>>  BY <1>2, <2>1
      <3>2. frame'[2] = n + 1  BY <3>1
      <3> QED  BY <1>3, <2>1, <3>1, <3>2 DEF Waits
    <2>2. CASE ~AwaitsKeys(S, n, b)  BY <1>2, <2>2 DEF Waits
    <2> QED  BY <2>1, <2>2
  <1> QED  BY <1>1, <1>2, <1>4 DEF Within, After

LEMMA GoesWithin ==
    ASSUME last \in Nat, NEW S \in SUBSET (1..last), NEW c \in Nat, c <= last, NEW b,
           Goes(S, c, b), last' = last
    PROVE  Within(cursor)' /\ Waits(frame)' /\ pending' \subseteq 1..last
  <1>1. CASE recovering = <<>>  BY <1>1, DrainWithin DEF Goes
  <1>2. CASE recovering # <<>>
    <2>1. cursor' = c /\ pending' = S /\ frame' = <<>>  BY <1>2 DEF Goes
    <2> QED  BY <2>1 DEF Within, Waits
  <1> QED  BY <1>1, <1>2

LEMMA FinishWithin ==
    ASSUME FrameInv, NEW c \in Nat, c <= last, NEW b, FinishSync(c, b), last' = last
    PROVE  Within(cursor)' /\ Waits(frame)' /\ pending' \subseteq 1..last /\ upTo' = 0
  <1>1. upTo' = 0  BY DEF FinishSync
  <1>2. CASE Resumes(c)
    <2>1. Drain(pending, c, b)  BY <1>2 DEF FinishSync
    <2> QED  BY <1>1, <2>1, DrainWithin DEF FrameInv
  <1>3. CASE ~Resumes(c)
    <2>1. cursor' = c /\ UNCHANGED <<pending, frame>>  BY <1>3 DEF FinishSync
    <2> QED  BY <1>1, <2>1 DEF FrameInv, Within, Waits
  <1> QED  BY <1>2, <1>3

LEMMA SwitchStep == SwitchInv /\ NoticeInv /\ [Next]_vars => SwitchInv'
  <1> SUFFICES ASSUME SwitchInv, NoticeInv, Step \/ UNCHANGED vars PROVE SwitchInv'
    BY NextIsStep
  <1> USE DEF SwitchInv
  <1>1. ASSUME NEW asked, Ask(asked) PROVE again' \in BOOLEAN
    BY <1>1 DEF Ask
  <1>2. ASSUME NEW c, NEW b, FinishSync(c, b)
        PROVE  UNCHANGED <<heartbeat, reconnect>>
          /\ again' \in BOOLEAN /\ polling' \in BOOLEAN /\ fallback' \in BOOLEAN
    BY <1>2 DEF FinishSync
  <1>3. ASSUME NEW S, NEW c, NEW b, Goes(S, c, b) PROVE again' \in BOOLEAN
    BY <1>1, <1>3 DEF Goes
  <1>4. ASSUME NEW n, NEW c, Apply(n, c) PROVE failures' \in Nat /\ partial' \in BOOLEAN
    <2>1. UNCHANGED <<partial, failures>> \/ (partial' = TRUE /\ failures' = failures + 1)
      BY <1>4 DEF Apply
    <2>2. failures' \in Nat  BY <2>1
    <2>3. partial' \in BOOLEAN  BY <2>1
    <2> QED  BY <2>2, <2>3
  <1>5. ASSUME Follow
        PROVE  /\ ready' \in BOOLEAN /\ heartbeat' \in BOOLEAN /\ reconnect' \in BOOLEAN
               /\ fallback' \in BOOLEAN /\ polling' \in BOOLEAN /\ again' \in BOOLEAN
    BY <1>1, <1>5 DEF Follow, Suspend, Resume, LetGo, link, timers
  <1>6. notices # <<>> => Head(notices)[2] \in BOOLEAN  BY DEF NoticeInv, Notices
  <1>7. window \in BOOLEAN /\ net \in BOOLEAN  BY DEF NoticeInv
  <1>8. CASE Move  BY <1>8 DEF Move, link, timers, syncing, keys, reading
  <1>9. CASE Commit  BY <1>9 DEF Commit, link, timers, syncing, keys, reading
  <1>10. CASE ServerAccepts
    <2>1. partial' \in BOOLEAN  BY <1>10 DEF ServerAccepts
    <2> QED  BY <1>10, <2>1 DEF ServerAccepts, outside, timers, syncing, keys
  <1>11. CASE SocketDies  BY <1>11 DEF SocketDies, outside, timers, syncing, keys, reading
  <1>12. CASE WindowChanges
    BY <1>5, <1>6, <1>12 DEF WindowChanges, keys, reading
  <1>13. CASE NetworkChanges
    BY <1>5, <1>6, <1>13 DEF NetworkChanges, keys, reading
  <1>14. CASE CacheRead  BY <1>1, <1>14 DEF CacheRead, outside, link, timers, reading
  <1>15. CASE StartSession
    <2>1. /\ on' = TRUE /\ front' \in BOOLEAN /\ online' \in BOOLEAN /\ cacheDue' \in BOOLEAN
          /\ ready' = FALSE /\ reconnect' = FALSE /\ fallback' = FALSE /\ polling' = FALSE
          /\ again' = FALSE /\ heartbeat' \in BOOLEAN /\ partial' = FALSE
      BY <1>7, <1>15 DEF StartSession
    <2>2. sessions' \in Nat /\ UNCHANGED <<platform, moves, failures>>  BY <1>15 DEF StartSession
    <2> QED  BY <2>1, <2>2
  <1>16. CASE StopSession  BY <1>16 DEF StopSession, Suspend, syncing, keys, reading
  <1>17. CASE HandleFrame
    <2>1. /\ UNCHANGED <<platform, moves, on, front, online, heartbeat, reconnect, polling, cacheDue, sessions>>
      BY <1>17 DEF HandleFrame, TakeFrame, outside
    <2>2. HandleReady \/ HandleSnapshot \/ HandleEvent  BY <1>17 DEF HandleFrame, TakeFrame
    <2>3. ready' \in BOOLEAN /\ fallback' \in BOOLEAN
      BY <2>2 DEF HandleReady, HandleSnapshot, HandleEvent
    <2>4. again' \in BOOLEAN /\ failures' \in Nat /\ partial' \in BOOLEAN
      <3>1. CASE HandleReady  BY <3>1 DEF HandleReady
      <3>2. CASE HandleSnapshot  BY <1>3, <1>4, <3>2 DEF HandleSnapshot
      <3>3. CASE HandleEvent  BY <1>3, <3>3 DEF HandleEvent
      <3> QED  BY <2>2, <3>1, <3>2, <3>3
    <2> QED  BY <2>1, <2>3, <2>4
  <1>18. CASE SocketCloses
    <2>1. failures' \in Nat  BY <1>18 DEF SocketCloses
    <2>2. again' \in BOOLEAN  BY <1>1, <1>18 DEF SocketCloses
    <2>3. /\ ready' = FALSE /\ reconnect' = TRUE /\ fallback' = TRUE
          /\ UNCHANGED <<platform, moves, on, front, online, heartbeat, polling, cacheDue, partial, sessions>>
      BY <1>18 DEF SocketCloses, HandleClose, outside, keys, reading
    <2> QED  BY <2>1, <2>2, <2>3
  <1>19. CASE Reconnects  BY <1>19 DEF Reconnects, outside, syncing, keys, reading
  <1>20. CASE FallbackFires
      BY <1>1, <1>20 DEF FallbackFires, outside, link, keys, reading, Live, Allowed
  <1>21. CASE Heartbeat  BY <1>1, <1>21 DEF Heartbeat, HandleClose, outside, keys, reading
  <1>22. ASSUME UNCHANGED <<Rest, heartbeat, reconnect>>, again' \in BOOLEAN, polling' \in BOOLEAN,
                fallback' \in BOOLEAN, partial' \in BOOLEAN, failures' \in Nat
         PROVE  SwitchInv'
    BY <1>22 DEF Rest, outside, link
  <1>23. CASE SyncRead
    <2>1. partial' \in BOOLEAN  BY <1>23 DEF SyncRead
    <2> QED  BY <1>23, <1>22, <2>1 DEF SyncRead, timers
  <1>24. ASSUME NothingApplied, failures' \in Nat PROVE SwitchInv'
    BY <1>2, <1>22, <1>24 DEF NothingApplied
  <1>25. CASE SyncFails  BY <1>25, <1>24 DEF SyncFails
  <1>26. CASE SyncSkips  BY <1>26, <1>24 DEF SyncSkips
  <1>27. ASSUME NEW c, NEW b, FinishSync(c, b), UNCHANGED Rest, partial' \in BOOLEAN, failures' \in Nat
         PROVE  SwitchInv'
    BY <1>2, <1>22, <1>27
  <1>28. ASSUME UNCHANGED <<Rest, timers>>, again' \in BOOLEAN, partial' \in BOOLEAN, failures' \in Nat
         PROVE  SwitchInv'
    BY <1>22, <1>28 DEF timers
  <1>29. CASE SyncApplies
    BY <1>29, <1>4, <1>24, <1>27, <1>28 DEF SyncApplies, reading
  <1>30. CASE PrepareDone
    <2>1. CASE sync = "applying"  BY <1>30, <1>4, <1>27, <2>1 DEF PrepareDone
    <2>2. CASE sync # "applying"  BY <1>30, <1>3, <1>4, <1>28, <2>2 DEF PrepareDone
    <2> QED  BY <2>1, <2>2
  <1>31. CASE PrepareFails
    <2>1. UNCHANGED <<Rest, partial>> /\ failures' \in Nat  BY <1>31 DEF PrepareFails
    <2>2. CASE sync = "applying"  BY <1>31, <1>27, <2>1, <2>2 DEF PrepareFails
    <2>3. CASE sync # "applying"  BY <1>31, <1>3, <1>28, <2>1, <2>3 DEF PrepareFails
    <2> QED  BY <2>2, <2>3
  <1>32. CASE WaitOver  BY <1>32, <1>28 DEF WaitOver, syncing, reading
  <1>33. CASE UNCHANGED vars  BY <1>33 DEF vars, outside, link, timers, syncing, keys, reading
  <1> QED  BY <1>8, <1>9, <1>10, <1>11, <1>12, <1>13, <1>14, <1>15, <1>16, <1>17, <1>18, <1>19, <1>20,
              <1>21, <1>23, <1>25, <1>26, <1>29, <1>30, <1>31, <1>32, <1>33 DEF Step

LEMMA FrameStep == FrameInv /\ KeysInv /\ [Next]_vars => FrameInv'
  <1> SUFFICES ASSUME FrameInv, KeysInv, Step \/ UNCHANGED vars PROVE FrameInv'
    BY NextIsStep
  <1> DEFINE frames == inbox \in Seq(Frame) /\ \A i \in 1..Len(inbox) : inbox[i][2] <= last
  <1>1. /\ last \in Nat /\ Within(cursor) /\ Within(upTo) /\ Within(since) /\ frames
        /\ Waits(frame) /\ pending \subseteq 1..last
    BY DEF FrameInv
  <1>2. cursor \in Nat /\ cursor <= last /\ upTo \in Nat /\ upTo <= last /\ since \in Nat /\ since <= last
    BY <1>1 DEF Within
  (* A socket that is let go, or opened.                                    *)
  <1>3. ASSUME UNCHANGED last, inbox' \in {inbox, <<>>} PROVE frames'
    <2>1. <<>> \in Seq(Frame) /\ \A i \in 1..Len(<<>>) : <<>>[i][2] <= last
      OBVIOUS
    <2> QED  BY <1>1, <1>3, <2>1
  <1>4. ASSUME UNCHANGED last, since' \in {since, cursor, 0} PROVE Within(since)'
    BY <1>1, <1>2, <1>4 DEF Within
  <1>5. ASSUME UNCHANGED last, UNCHANGED upTo \/ upTo' = 0 \/ upTo' = Page(cursor) PROVE Within(upTo)'
    <2>1. Page(cursor) \in Nat /\ Page(cursor) <= last  BY <1>1, <1>2, PageWithin
    <2> QED  BY <1>1, <1>2, <1>5, <2>1 DEF Within
  <1> HIDE DEF frames
  <1>6. ASSUME UNCHANGED <<last, frame, pending, cursor>>, UNCHANGED upTo \/ upTo' = 0 \/ upTo' = Page(cursor),
               inbox' \in {inbox, <<>>}, since' \in {since, cursor, 0}
        PROVE  FrameInv'
    <2>1. Within(cursor)' /\ Waits(frame)' /\ pending' \subseteq 1..last'
      BY <1>1, <1>6 DEF Within, Waits
    <2> QED  BY <1>1, <1>3, <1>4, <1>5, <1>6, <2>1 DEF FrameInv, frames
  <1>7. ASSUME UNCHANGED <<last, inbox, since>>, upTo' \in {upTo, 0},
               Within(cursor)', Waits(frame)', pending' \subseteq 1..last
        PROVE  FrameInv'
    BY <1>1, <1>3, <1>4, <1>5, <1>7 DEF FrameInv, frames
  <1>8. ASSUME NEW c, NEW b, FinishSync(c, b), UNCHANGED Rest, c \in Nat, c <= last PROVE FrameInv'
    <2>1. UNCHANGED <<last, inbox, since>>  BY <1>8 DEF Rest, outside, link
    <2>2. Within(cursor)' /\ Waits(frame)' /\ pending' \subseteq 1..last /\ upTo' = 0
      BY <1>8, <2>1, FinishWithin
    <2> QED  BY <1>7, <2>1, <2>2
  <1>9. ASSUME NEW S \in SUBSET (1..last), NEW c \in Nat, c <= last, NEW b, Goes(S, c, b),
               UNCHANGED <<Rest, upTo>>
        PROVE  FrameInv'
    <2>1. UNCHANGED <<last, inbox, since>>  BY <1>9 DEF Rest, outside, link
    <2>2. Within(cursor)' /\ Waits(frame)' /\ pending' \subseteq 1..last
      BY <1>1, <1>9, <2>1, GoesWithin
    <2> QED  BY <1>7, <1>9, <2>1, <2>2
  <1>10. CASE Commit
    <2>1. /\ last' = last + 1 /\ UNCHANGED <<cursor, upTo, since, frame, pending>>
          /\ inbox' = inbox \/ inbox' = Append(inbox, <<"event", last + 1>>)
      BY <1>10 DEF Commit, syncing, keys, reading, queue
    <2>2. frames'
      <3>1. \A i \in 1..Len(inbox) : inbox[i][2] \in Nat /\ inbox[i][2] <= last + 1
        <4>1. \A i \in 1..Len(inbox) : inbox[i] \in Frame  BY <1>1 DEF frames
        <4> QED  BY <1>1, <4>1 DEF Frame, frames
      <3>2. CASE inbox' = inbox  BY <1>1, <2>1, <3>1, <3>2 DEF frames
      <3>3. CASE inbox' = Append(inbox, <<"event", last + 1>>)
        <4> DEFINE e == <<"event", last + 1>>
        <4>1. e \in Frame /\ e[2] = last + 1  BY <1>1 DEF Frame
        <4>2. inbox' = Append(inbox, e)  BY <3>3
        <4> HIDE DEF e
        <4>3. /\ Append(inbox, e) \in Seq(Frame) /\ Len(Append(inbox, e)) = Len(inbox) + 1
              /\ Append(inbox, e)[Len(inbox) + 1] = e /\ Len(inbox) \in Nat
              /\ \A i \in 1..Len(inbox) : Append(inbox, e)[i] = inbox[i]
          BY <1>1, <4>1 DEF frames
        <4>4. \A i \in 1..Len(inbox) + 1 : i \in 1..Len(inbox) \/ i = Len(inbox) + 1
          BY <4>3
        <4> QED  BY <1>1, <2>1, <3>1, <4>1, <4>2, <4>3, <4>4 DEF frames
      <3> QED  BY <2>1, <3>2, <3>3
    <2>3. Within(cursor)' /\ Within(upTo)' /\ Within(since)'  BY <1>1, <1>2, <2>1 DEF Within
    <2>4. Waits(frame)'
      <3>1. frame = <<>> \/ (frame \in Frame /\ frame[2] <= last + 1)  BY <1>1 DEF Waits, Frame
      <3> QED  BY <2>1, <3>1 DEF Waits
    <2>5. pending' \subseteq 1..last'  BY <1>1, <2>1
    <2> QED  BY <1>1, <2>1, <2>2, <2>3, <2>4, <2>5 DEF FrameInv, frames
  <1>11. CASE ServerAccepts
    <2>1. /\ inbox' = <<<<"ready", 0>>, <<"sync", Page(since)>>>> /\ since' = 0
          /\ UNCHANGED <<last, cursor, upTo, frame, pending>>
      BY <1>11 DEF ServerAccepts, outside, syncing, keys, queue
    <2>2. Page(since) \in Nat /\ Page(since) <= last  BY <1>1, <1>2, PageWithin
    <2>3. inbox' \in Seq(Frame) /\ Len(inbox') = 2 /\ inbox'[1][2] = 0 /\ inbox'[2][2] = Page(since)
      BY <2>1, <2>2 DEF Frame
    <2>4. \A i \in 1..2 : i = 1 \/ i = 2  OBVIOUS
    <2>5. frames'  BY <1>1, <2>1, <2>2, <2>3, <2>4 DEF frames
    <2>6. Within(cursor)' /\ Within(upTo)' /\ Within(since)'  BY <1>1, <1>2, <2>1 DEF Within
    <2>7. Waits(frame)'  BY <1>1, <2>1 DEF Waits
    <2> QED  BY <1>1, <2>1, <2>5, <2>6, <2>7 DEF FrameInv, frames
  <1>12. CASE StartSession
    <2>1. /\ UNCHANGED <<last, cursor>> /\ frame' = <<>> /\ inbox' = <<>> /\ upTo' = 0 /\ pending' = {}
          /\ since' \in {cursor, 0}
      BY <1>12 DEF StartSession
    <2>2. frames' /\ Within(since)' /\ Within(upTo)'  BY <1>3, <1>4, <1>5, <2>1
    <2>3. Within(cursor)' /\ Waits(frame)'  BY <1>1, <2>1 DEF Within, Waits
    <2> QED  BY <1>1, <2>1, <2>2, <2>3 DEF FrameInv, frames
  <1>13. CASE HandleFrame
    <2>1. /\ inbox # <<>> /\ inbox' = Tail(inbox) /\ UNCHANGED <<last, upTo, since>>
          /\ HandleReady \/ HandleSnapshot \/ HandleEvent
      BY <1>13 DEF HandleFrame, TakeFrame, outside
    <2>2. /\ Head(inbox) \in Frame /\ Head(inbox)[2] \in Nat /\ Head(inbox)[2] <= last
          /\ Tail(inbox) \in Seq(Frame) /\ \A i \in 1..Len(Tail(inbox)) : Tail(inbox)[i][2] <= last
      <3>1. /\ Len(inbox) \in Nat \ {0} /\ Head(inbox) = inbox[1] /\ inbox[1] \in Frame
            /\ Tail(inbox) \in Seq(Frame) /\ Len(Tail(inbox)) = Len(inbox) - 1
            /\ \A i \in 1..Len(Tail(inbox)) : Tail(inbox)[i] = inbox[i + 1] /\ i + 1 \in 1..Len(inbox)
        BY <1>1, <2>1 DEF frames
      <3>2. 1 \in 1..Len(inbox)  BY <3>1
      <3>3. Head(inbox)[2] <= last  BY <1>1, <3>1, <3>2 DEF frames
      <3>4. \A i \in 1..Len(Tail(inbox)) : Tail(inbox)[i][2] <= last  BY <1>1, <3>1 DEF frames
      <3>5. Head(inbox)[2] \in Nat  BY <3>1 DEF Frame
      <3> QED  BY <3>1, <3>3, <3>4, <3>5
    <2>3. frames'  BY <2>1, <2>2 DEF frames
    <2>4. ASSUME UNCHANGED <<cursor, pending>>, frame' \in {frame, Head(inbox)}
          PROVE  Within(cursor)' /\ Waits(frame)' /\ pending' \subseteq 1..last
      BY <1>1, <2>1, <2>2, <2>4 DEF Within, Waits
    <2>5. ASSUME NEW S \in SUBSET (1..last), NEW c \in Nat, c <= last, Goes(S, c, bundle)
          PROVE  Within(cursor)' /\ Waits(frame)' /\ pending' \subseteq 1..last
      BY <1>1, <2>1, <2>5, GoesWithin
    <2>6. Within(cursor)' /\ Waits(frame)' /\ pending' \subseteq 1..last
      <3>1. CASE HandleReady  BY <2>4, <3>1 DEF HandleReady, queue
      <3>2. CASE HandleSnapshot
        <4>1. CASE UNCHANGED <<queue, cursor>> /\ frame' = Head(inbox)  BY <2>4, <4>1 DEF queue
        <4>2. ASSUME NEW c, Apply(Head(inbox)[2], c), Goes(pending, c, bundle)
              PROVE  Within(cursor)' /\ Waits(frame)' /\ pending' \subseteq 1..last
          <5>1. c \in Nat /\ c <= last  BY <1>1, <1>2, <2>2, <4>2, ApplyWithin
          <5> QED  BY <1>1, <2>5, <4>2, <5>1
        <4>3. CASE Goes(pending, cursor, bundle)  BY <1>1, <1>2, <2>5, <4>3
        <4> QED  BY <3>2, <4>1, <4>2, <4>3 DEF HandleSnapshot
      <3>3. CASE HandleEvent
        <4>1. CASE Head(inbox)[2] <= cursor  BY <2>4, <3>3, <4>1 DEF HandleEvent, queue
        <4>2. CASE ~(Head(inbox)[2] <= cursor)
          <5> DEFINE n == Head(inbox)[2]
          <5>1. n \in Nat /\ n <= last /\ ~(n <= cursor)  BY <2>2, <4>2
          <5> HIDE DEF n
          <5>2. n \in 1..last  BY <1>1, <1>2, <5>1
          <5>3. pending \cup {n} \in SUBSET (1..last)  BY <1>1, <5>2
          <5>4. Goes(pending \cup {n}, cursor, bundle)  BY <3>3, <4>2 DEF HandleEvent, n
          <5> QED  BY <1>2, <2>5, <5>3, <5>4
        <4> QED  BY <4>1, <4>2
      <3> QED  BY <2>1, <3>1, <3>2, <3>3
    <2>7. Within(upTo)' /\ Within(since)'  BY <1>4, <1>5, <2>1
    <2> QED  BY <1>1, <2>1, <2>3, <2>6, <2>7 DEF FrameInv, frames
  <1>14. ASSUME Follow PROVE inbox' \in {inbox, <<>>} /\ since' \in {since, cursor, 0}
    BY <1>14 DEF Follow, Suspend, Resume, OpenRealtime, LetGo, link
  <1>15. CASE \/ Move \/ WindowChanges \/ NetworkChanges \/ CacheRead \/ StopSession \/ SocketDies
              \/ SocketCloses \/ Reconnects \/ FallbackFires \/ Heartbeat
    <2>1. UNCHANGED <<last, frame, upTo, cursor, pending>>
      BY <1>15 DEF Move, WindowChanges, NetworkChanges, CacheRead, StopSession, SocketDies,
             SocketCloses, Reconnects, FallbackFires, Heartbeat, outside, keys, syncing, reading, queue
    <2>2. inbox' \in {inbox, <<>>} /\ since' \in {since, cursor, 0}
      BY <1>14, <1>15 DEF Move, WindowChanges, NetworkChanges, CacheRead, StopSession, SocketDies,
             SocketCloses, Reconnects, FallbackFires, Heartbeat, HandleClose, Suspend, OpenRealtime,
             LetGo, link
    <2> QED  BY <1>6, <2>1, <2>2
  <1>16. CASE SyncRead \/ WaitOver
    <2>1. UNCHANGED <<last, frame, inbox, since, cursor, pending>>
      BY <1>16 DEF SyncRead, WaitOver, Rest, outside, link, reading, queue
    <2>2. UNCHANGED upTo \/ upTo' = Page(cursor)  BY <1>16 DEF SyncRead, WaitOver, syncing
    <2> QED  BY <1>6, <2>1, <2>2
  <1>17. ASSUME NothingApplied PROVE FrameInv'
    BY <1>2, <1>8, <1>17 DEF NothingApplied
  <1>18. CASE SyncFails \/ SyncSkips  BY <1>17, <1>18 DEF SyncFails, SyncSkips
  <1>19. CASE SyncApplies
    <2>1. CASE NothingApplied  BY <1>17, <2>1
    <2>2. CASE UNCHANGED <<Rest, upTo, frame, reading>>
      BY <1>6, <2>2 DEF Rest, outside, link, reading, queue
    <2>3. ASSUME NEW c, Apply(upTo, c), FinishSync(c, bundle), UNCHANGED Rest PROVE FrameInv'
      <3>1. c \in Nat /\ c <= last  BY <1>1, <1>2, <2>3, ApplyWithin
      <3> QED  BY <1>8, <2>3, <3>1
    <2> QED  BY <1>19, <2>1, <2>2, <2>3 DEF SyncApplies
  <1>20. CASE PrepareDone
    <2>1. UNCHANGED Rest  BY <1>20 DEF PrepareDone
    <2>2. CASE sync = "applying"
      <3>1. PICK c \in {cursor, upTo} : FinishSync(c, "ready")  BY <1>20, <2>2 DEF PrepareDone
      <3> QED  BY <1>2, <1>8, <2>1, <3>1
    <2>3. CASE sync # "applying"
      <3>1. UNCHANGED <<Rest, upTo>>  BY <1>20, <2>3 DEF PrepareDone
      <3>2. CASE Goes(pending, cursor, "ready")  BY <1>1, <1>2, <1>9, <3>1, <3>2
      <3>3. CASE \E c \in {cursor, frame[2]} : Apply(frame[2], c) /\ Goes(pending, c, "ready")
        <4>1. frame # <<>>  BY <1>20, <2>3 DEF PrepareDone, KeysInv
        <4>2. frame[2] \in Nat /\ frame[2] <= last  BY <1>1, <4>1 DEF Waits, Frame
        <4>3. PICK c \in {cursor, frame[2]} : Goes(pending, c, "ready")  BY <3>3
        <4> QED  BY <1>1, <1>2, <1>9, <3>1, <4>2, <4>3
      <3> QED  BY <1>20, <2>3, <3>2, <3>3 DEF PrepareDone
    <2> QED  BY <2>2, <2>3
  <1>21. CASE PrepareFails
    <2>1. UNCHANGED Rest  BY <1>21 DEF PrepareFails
    <2>2. CASE sync = "applying"  BY <1>2, <1>8, <1>21, <2>1, <2>2 DEF PrepareFails
    <2>3. CASE sync # "applying"
      <3>1. Goes(pending, cursor, "waiting") /\ UNCHANGED upTo  BY <1>21, <2>3 DEF PrepareFails
      <3> QED  BY <1>1, <1>2, <1>9, <2>1, <3>1
    <2> QED  BY <2>2, <2>3
  <1>22. CASE UNCHANGED vars
    <2>1. UNCHANGED <<last, frame, inbox, upTo, cursor, since, pending>>
      BY <1>22 DEF vars, outside, link, syncing, keys, queue
    <2> QED  BY <1>6, <2>1
  <1> QED  BY <1>10, <1>11, <1>12, <1>13, <1>15, <1>16, <1>18, <1>19, <1>20, <1>21, <1>22 DEF Step

LEMMA KeysStep == FrameInv /\ KeysInv /\ [Next]_vars => KeysInv'
  <1> SUFFICES ASSUME FrameInv, KeysInv, Step \/ UNCHANGED vars PROVE KeysInv'
    BY NextIsStep
  <1> USE DEF KeysInv
  (* A sync is asked for, and the keys are what they were.                  *)
  <1>1. ASSUME NEW asked, Ask(asked)
        PROVE  sync' = sync \/ (sync = "idle" /\ sync' = "asked")
    BY <1>1 DEF Ask
  (* The drain leaves the keys to one who waits for them.                   *)
  <1>2. ASSUME NEW S, NEW c, NEW b, Drain(S, c, b)
        PROVE  \/ bundle' = b /\ frame' = <<>>
               \/ b = "none" /\ bundle' = "preparing" /\ frame' # <<>>
    BY <1>2 DEF Drain, AwaitsKeys, Prepares
  <1>3. ASSUME NEW S, NEW c, NEW b, Goes(S, c, b)
         PROVE  /\ \/ bundle' = b /\ frame' = <<>>
                   \/ b = "none" /\ bundle' = "preparing" /\ frame' # <<>>
                /\ sync' = sync \/ (sync = "idle" /\ sync' = "asked")
    BY <1>1, <1>2, <1>3 DEF Goes
  <1>4. ASSUME NEW c, NEW b, FinishSync(c, b)
         PROVE  /\ sync' \in {"idle", "asked"}
                /\ \/ bundle' = b /\ frame' = frame
                   \/ b = "none" /\ bundle' = "preparing" /\ frame' # <<>> /\ frame = <<>>
    <2>1. sync' \in {"idle", "asked"}  BY <1>4 DEF FinishSync
    <2>2. CASE Resumes(c)
      <3>1. frame = <<>> /\ Drain(pending, c, b)  BY <1>4, <2>2 DEF FinishSync, Resumes
      <3> QED  BY <1>2, <2>1, <3>1
    <2>3. CASE ~Resumes(c)  BY <1>4, <2>1, <2>3 DEF FinishSync
    <2> QED  BY <2>2, <2>3
  <1>5. ASSUME Follow
        PROVE  /\ sync' = sync \/ (sync = "idle" /\ sync' = "asked")
               /\ socket' \in {"none", "opening", "open", "dead"}
    <2>1. CASE ~(front' /\ online')  BY <1>1, <1>5, <2>1 DEF Follow, Suspend, LetGo
    <2>2. CASE front' /\ online' /\ ~Allowed
      BY <1>1, <1>5, <2>2 DEF Follow, Resume, OpenRealtime
    <2>3. CASE front' /\ online' /\ Allowed  BY <1>5, <2>3 DEF Follow, link
    <2> QED  BY <2>1, <2>2, <2>3
  <1>6. ASSUME UNCHANGED <<on, bundle, frame>>, socket' \in {"none", "opening", "open", "dead"},
               sync' = sync \/ (sync = "idle" /\ sync' = "asked")
        PROVE  KeysInv'
    BY <1>6
  <1>7. CASE Move \/ Commit \/ ServerAccepts \/ SocketDies
    BY <1>6, <1>7 DEF Move, Commit, ServerAccepts, SocketDies, outside, link, syncing, keys
  <1>8. CASE WindowChanges  BY <1>5, <1>6, <1>8 DEF WindowChanges, keys
  <1>9. CASE NetworkChanges  BY <1>5, <1>6, <1>9 DEF NetworkChanges, keys
  <1>10. CASE CacheRead  BY <1>1, <1>6, <1>10 DEF CacheRead, link
  <1>11. CASE StartSession  BY <1>11 DEF StartSession
  <1>12. CASE StopSession  BY <1>12 DEF StopSession, Suspend, LetGo, syncing, keys
  <1>13. CASE HandleFrame
    <2>1. /\ on /\ frame = <<>> /\ inbox # <<>> /\ UNCHANGED <<on, socket>>
          /\ HandleReady \/ HandleSnapshot \/ HandleEvent
      BY <1>13 DEF HandleFrame, TakeFrame
    <2>2. Head(inbox) # <<>>
      <3>1. inbox \in Seq(Frame) /\ \A f \in Frame : f # <<>>  BY DEF FrameInv, Frame
      <3> QED  BY <2>1, <3>1
    <2>3. /\ \/ UNCHANGED <<frame, bundle>>
             \/ bundle = "none" /\ bundle' = "preparing" /\ frame' # <<>>
          /\ sync' = sync \/ (sync = "idle" /\ sync' = "asked")
      <3>1. CASE HandleReady  BY <3>1 DEF HandleReady
      <3>2. CASE HandleSnapshot  BY <1>3, <2>1, <2>2, <3>2 DEF HandleSnapshot, Prepares
      <3>3. CASE HandleEvent  BY <1>3, <2>1, <3>3 DEF HandleEvent
      <3> QED  BY <2>1, <3>1, <3>2, <3>3
    <2>4. bundle = "preparing" => sync = "applying"  BY <2>1
    <2> QED  BY <2>1, <2>3, <2>4
  <1>14. CASE SocketCloses
    BY <1>1, <1>6, <1>14 DEF SocketCloses, HandleClose, LetGo, keys
  <1>15. CASE Heartbeat
    BY <1>1, <1>6, <1>15 DEF Heartbeat, HandleClose, LetGo, keys
  <1>16. CASE Reconnects  BY <1>6, <1>16 DEF Reconnects, OpenRealtime, syncing, keys
  <1>17. CASE FallbackFires  BY <1>1, <1>6, <1>17 DEF FallbackFires, link, keys
  <1>18. CASE SyncRead  BY <1>18 DEF SyncRead, Rest, link
  <1>19. ASSUME NEW c, NEW b, FinishSync(c, b), UNCHANGED Rest, b \in {"none", "preparing", "waiting", "ready"},
                on, b = "preparing" <=> frame # <<>>
         PROVE  KeysInv'
    <2>1. UNCHANGED <<on, socket>>  BY <1>19 DEF Rest, link
    <2> QED  BY <1>4, <1>19, <2>1
  <1>20. ASSUME NothingApplied, on, sync # "applying" PROVE KeysInv'
    BY <1>19, <1>20 DEF NothingApplied
  <1>21. CASE SyncFails \/ SyncSkips
    BY <1>21, <1>20 DEF SyncFails, SyncSkips
  <1>22. CASE SyncApplies
    <2>1. on /\ sync = "answered" /\ UNCHANGED <<on, socket>>
      BY <1>22 DEF SyncApplies, NothingApplied, Rest, link
    <2>2. CASE bundle = "none" /\ bundle' = "preparing" /\ sync' = "applying" /\ UNCHANGED frame
      BY <2>1, <2>2
    <2>3. CASE NothingApplied  BY <1>20, <2>1, <2>3
    <2>4. ASSUME NEW c, FinishSync(c, bundle), UNCHANGED Rest PROVE KeysInv'
      BY <1>19, <2>1, <2>4
    <2> QED  BY <1>22, <2>2, <2>3, <2>4 DEF SyncApplies, Prepares
  <1>23. CASE PrepareDone \/ PrepareFails
    <2>1. on /\ bundle = "preparing" /\ UNCHANGED <<on, socket, Rest>>
      BY <1>23 DEF PrepareDone, PrepareFails, Rest, link
    <2>2. CASE sync = "applying"
      <3>1. frame = <<>>  BY <2>1, <2>2
      <3>2. \E c, b : FinishSync(c, b) /\ b \in {"waiting", "ready"}
        BY <1>23, <2>2 DEF PrepareDone, PrepareFails
      <3> QED  BY <1>19, <2>1, <3>1, <3>2
    <2>3. CASE sync # "applying"
      <3>1. \E c, b : Goes(pending, c, b) /\ b \in {"waiting", "ready"}
        BY <1>23, <2>3 DEF PrepareDone, PrepareFails
      <3> QED  BY <1>3, <2>1, <2>3, <3>1
    <2> QED  BY <2>2, <2>3
  <1>24. CASE WaitOver  BY <1>24 DEF WaitOver, Rest, link, syncing
  <1>25. CASE UNCHANGED vars  BY <1>6, <1>25 DEF vars, link, syncing, keys
  <1> QED  BY <1>7, <1>8, <1>9, <1>10, <1>11, <1>12, <1>13, <1>14, <1>15, <1>16, <1>17, <1>18, <1>21,
              <1>22, <1>23, <1>24, <1>25 DEF Step

(* Everything is of its type; and what the client believes to have seen,   *)
(* its cursor, and every frame and answer on their way to it never run     *)
(* ahead of the account, and the device keys are prepared by one at a      *)
(* time, who waits for them: the sync that applies its answer, or the      *)
(* frame that came first (ensureOwnBundle).                                *)
THEOREM TypeCorrect == Spec => []TypeOK
  <1> DEFINE Inv == SwitchInv /\ NoticeInv /\ FrameInv /\ KeysInv
  <1>1. Init => Inv
    <2> SUFFICES ASSUME Init PROVE Inv  OBVIOUS
    <2>1. SwitchInv  BY DEF Init, SwitchInv
    <2>2. FrameInv
      <3>1. /\ <<>> \in Seq(Frame) /\ \A i \in 1..Len(<<>>) : <<>>[i][2] <= 0
        OBVIOUS
      <3> QED  BY <3>1 DEF Init, FrameInv, Within, Waits
    <2>3. KeysInv  BY DEF Init, KeysInv
    <2> QED  BY <2>1, <2>2, <2>3, NoticeInit
  <1>2. Inv /\ [Next]_vars => Inv'
    BY SwitchStep, NoticeStep, FrameStep, KeysStep
  <1>3. Inv => TypeOK
    BY DEF SwitchInv, NoticeInv, FrameInv, KeysInv, Within, TypeOK
  <1> QED  BY <1>1, <1>2, <1>3, PTL DEF Spec

===============================================================================
