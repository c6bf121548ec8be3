------------------------- MODULE RealtimeStreamProofs -------------------------
(***************************************************************************)
(* Proofs about RealtimeStream, for every length of the log, channel, page *)
(* and number of faults.                                                   *)
(***************************************************************************)
EXTENDS RealtimeStream, SequenceTheorems, FiniteSetTheorems, TLAPS

USE StreamAssumption

-------------------------------------------------------------------------------
(* A non-empty set of numbers has a least one: among the parts S \cap 0..n *)
(* of the set, a smallest ends at it.                                      *)
LEMMA LeastOfNaturals ==
    ASSUME NEW S, S \subseteq Nat, S # {}
    PROVE  Least(S) \in S /\ \A y \in S : Least(S) <= y
<1> DEFINE Below(n) == S \cap (0..n)
           T == {Below(n) : n \in S}
<1>1. PICK x \in T : \A y \in T : <<y, x>> \notin StrictSubsetOrdering(Nat)
  <2>1. T \subseteq FiniteSubsetsOf(Nat)
    <3> SUFFICES ASSUME NEW n \in S PROVE Below(n) \in FiniteSubsetsOf(Nat)
      OBVIOUS
    <3>1. IsFiniteSet(0..n)
      BY FS_Interval
    <3>2. IsFiniteSet(Below(n))
      BY <3>1, FS_Subset
    <3> QED BY <3>2 DEF FiniteSubsetsOf
  <2>2. T # {}
    OBVIOUS
  <2> HIDE DEF T
  <2> QED BY <2>1, <2>2, FS_StrictSubsetOrderingWellFounded, WFMin
<1>2. \E m \in S : \A y \in S : m <= y
  <2>1. PICK m \in S : x = Below(m)
    BY <1>1
  <2>2. ASSUME NEW y \in S, ~(m <= y) PROVE FALSE
    <3>1. Below(y) \subseteq Below(m) /\ m \in Below(m) /\ m \notin Below(y)
      BY <2>2
    <3>2. Below(y) \in T
      OBVIOUS
    <3>3. <<Below(y), Below(m)>> \notin StrictSubsetOrdering(Nat)
      BY <1>1, <2>1, <3>2
    <3>4. Below(y) \subseteq Nat /\ Below(m) \subseteq Nat /\ Below(y) # Below(m)
      BY <3>1
    <3> HIDE DEF Below, T
    <3> QED BY <3>1, <3>3, <3>4 DEF StrictSubsetOrdering
  <2> QED BY <2>2
<1> QED BY <1>2 DEF Least

(* A frame of a log is a frame of any longer one. *)
LEMMA FramesOfLongerLog ==
    ASSUME NEW n \in Nat, NEW m \in Nat, n <= m
    PROVE  Frame(n) \subseteq Frame(m)
<1> 1..n \subseteq 1..m /\ 0..n \subseteq 0..m
  OBVIOUS
<1> QED BY DEF Frame

(* Sequences over a larger set. *)
LEMMA SeqOfLarger ==
    ASSUME NEW S, NEW T, S \subseteq T, NEW s \in Seq(S)
    PROVE  s \in Seq(T)
OBVIOUS

(* A connection that is lost leaves a prefix of the frames. *)
LEMMA PrefixOfSeq ==
    ASSUME NEW S, NEW s \in Seq(S), NEW n \in 0..Len(s)
    PROVE  /\ SubSeq(s, 1, n) \in Seq(S)
           /\ Len(SubSeq(s, 1, n)) = n
           /\ \A i \in 1..n : SubSeq(s, 1, n)[i] = s[i]
BY SubSeqProperties

-------------------------------------------------------------------------------
(* A page lies inside the log. *)
LEMMA PageTyped ==
    ASSUME last \in Nat, NEW s \in 0..last
    PROVE  /\ PageEnd(s) \in s..last
           /\ Page(s) = (s + 1)..PageEnd(s)
           /\ Page(s) \subseteq 1..last
           /\ SyncFrame(Page(s), PageEnd(s)) \in Frame(last)
<1>1. PageEnd(s) \in s..last
  BY DEF PageEnd, Earlier
<1>2. Page(s) = (s + 1)..PageEnd(s)
  BY <1>1 DEF Page
<1>3. Page(s) \subseteq 1..last
  BY DEF Page
<1>4. SyncFrame(Page(s), PageEnd(s)) \in Frame(last)
  BY <1>1, <1>3 DEF SyncFrame, Frame
<1> QED BY <1>1, <1>2, <1>3, <1>4

(* The event the drain loop takes is one of the queued events. *)
LEMMA NextUpQueued ==
    ASSUME last \in Nat, pending \subseteq 1..last, pending # {}
    PROVE  NextUp \in pending /\ NextUp \in 1..last /\ \A e \in pending : NextUp <= e
<1>1. pending \subseteq Nat
  OBVIOUS
<1>2. Least(pending) \in pending /\ \A e \in pending : Least(pending) <= e
  BY <1>1, LeastOfNaturals
<1> QED BY <1>2 DEF NextUp

(* The initial state is well typed. *)
LEMMA InitTyped == Init => TypeOK
<1> SUFFICES ASSUME Init PROVE TypeOK
  OBVIOUS
<1>1. last = 0 /\ MaxLast \in Nat /\ MaxDrops \in Nat /\ MaxFailures \in Nat
  BY DEF Init, StreamAssumption
<1> lagged \in BOOLEAN /\ chained \in BOOLEAN /\ httpQueued \in BOOLEAN
  BY DEF Init
<1> 0 \in 0..last
  BY <1>1
<1>2. ServerTyped /\ ConnectionTyped
  <2>1. ServerTyped
    BY <1>1 DEF Init, ServerTyped
  <2>2. since \in 0..last /\ channel \in Seq(1..last)
    BY DEF Init
  <2>3. session = "closed"
    BY DEF Init
  <2> QED BY <2>1, <2>2, <2>3 DEF ConnectionTyped
<1>3. InboxTyped /\ ClientTyped
  <2>1. InboxTyped
    BY DEF Init, InboxTyped
  <2>2. cursor \in 0..last /\ settled \subseteq 1..last
    BY DEF Init
  <2>3. attempts \in [1..MaxLast -> 0..MaxDecryptRetries]
    BY DEF Init
  <2> QED BY <2>1, <2>2, <2>3 DEF ClientTyped
<1>4. QueueTyped
  BY <1>1 DEF Init, QueueTyped
<1>5. NoFrame \in Frame(last)
  BY <1>1 DEF NoFrame, SyncFrame, Frame
<1>6. RequestTyped
  <2>1. httpSince \in 0..last /\ answer \in Frame(last)
    BY <1>5 DEF Init
  <2>2. http = "idle"
    BY DEF Init
  <2> QED BY <2>1, <2>2 DEF RequestTyped
<1>7. FaultsTyped
  BY <1>1 DEF Init, FaultsTyped
<1> QED BY <1>2, <1>3, <1>4, <1>6, <1>7 DEF TypeOK

(* What a step leaves alone stays well typed. *)
LEMMA Kept ==
    ASSUME TypeOK, UNCHANGED last
    PROVE  /\ last \in Nat
           /\ UNCHANGED unpublished => ServerTyped'
           /\ UNCHANGED <<session, since, channel, lagged>> => ConnectionTyped'
           /\ UNCHANGED inbox => InboxTyped'
           /\ UNCHANGED <<chained, cursor, settled, attempts>> => ClientTyped'
           /\ UNCHANGED <<pending, drain, mark>> => QueueTyped'
           /\ UNCHANGED <<http, httpSince, answer, httpQueued>> => RequestTyped'
           /\ UNCHANGED <<drops, failures>> => FaultsTyped'
<1>1. last \in Nat
  BY DEF TypeOK, ServerTyped, StreamAssumption
<1>2. UNCHANGED unpublished => ServerTyped'
  BY DEF TypeOK, ServerTyped
<1>3. UNCHANGED <<session, since, channel, lagged>> => ConnectionTyped'
  BY DEF TypeOK, ConnectionTyped
<1>4. UNCHANGED inbox => InboxTyped'
  BY DEF TypeOK, InboxTyped
<1>5. UNCHANGED <<chained, cursor, settled, attempts>> => ClientTyped'
  BY DEF TypeOK, ClientTyped
<1>6. UNCHANGED <<pending, drain, mark>> => QueueTyped'
  BY DEF TypeOK, QueueTyped
<1>7. UNCHANGED <<http, httpSince, answer, httpQueued>> => RequestTyped'
  BY DEF TypeOK, RequestTyped
<1>8. UNCHANGED <<drops, failures>> => FaultsTyped'
  BY DEF TypeOK, FaultsTyped
<1> QED BY <1>1, <1>2, <1>3, <1>4, <1>5, <1>6, <1>7, <1>8

(* A longer log leaves everything well typed. *)
LEMMA LongerLog ==
    ASSUME TypeOK, last < MaxLast, last' = last + 1,
           UNCHANGED <<session, since, channel, lagged, inbox, chained, cursor, settled,
                       attempts, pending, drain, mark, http, httpSince, answer, httpQueued, drops,
                       failures>>
    PROVE  /\ last' \in 0..MaxLast /\ 1..last \subseteq 1..last'
           /\ ConnectionTyped' /\ InboxTyped' /\ ClientTyped' /\ QueueTyped'
           /\ RequestTyped' /\ FaultsTyped'
<1>1. last \in 0..MaxLast /\ MaxLast \in Nat
  BY DEF TypeOK, ServerTyped, StreamAssumption
<1>2. 1..last \subseteq 1..last' /\ 0..last \subseteq 0..last'
  BY <1>1
<1>3. Frame(last) \subseteq Frame(last')
  BY <1>1, FramesOfLongerLog
<1>4. ConnectionTyped'
  <2>1. channel \in Seq(1..last')
    BY <1>2, SeqOfLarger DEF TypeOK, ConnectionTyped
  <2> QED BY <1>2, <2>1 DEF TypeOK, ConnectionTyped
<1>5. InboxTyped'
  <2>1. inbox \in Seq(Frame(last'))
    BY <1>3, SeqOfLarger DEF TypeOK, InboxTyped
  <2> QED BY <2>1 DEF TypeOK, InboxTyped
<1>6. ClientTyped'
  BY <1>2 DEF TypeOK, ClientTyped
<1>7. QueueTyped'
  BY <1>2 DEF TypeOK, QueueTyped
<1>8. RequestTyped'
  BY <1>2, <1>3 DEF TypeOK, RequestTyped
<1>9. FaultsTyped'
  BY DEF TypeOK, FaultsTyped
<1> QED BY <1>1, <1>2, <1>4, <1>5, <1>6, <1>7, <1>8, <1>9

(* Frames that arrive or leave keep the inbox well typed. *)
LEMMA FramesStep ==
    ASSUME TypeOK, UNCHANGED last
    PROVE  /\ \A f \in Frame(last) :
                 (f.kind = "event" => f.next # 0) /\ inbox' = Append(inbox, f) => InboxTyped'
           /\ inbox # <<>> /\ inbox' = Tail(inbox) => InboxTyped'
           /\ \A n \in 0..Len(inbox) : inbox' = SubSeq(inbox, 1, n) => InboxTyped'
           /\ inbox # <<>> => /\ Head(inbox) \in Frame(last)
                              /\ Head(inbox).kind = "event" => Head(inbox).next \in 1..last
<1> inbox \in Seq(Frame(last)) /\ last \in Nat
  BY Kept DEF TypeOK, InboxTyped
<1>1. ASSUME NEW f \in Frame(last), f.kind = "event" => f.next # 0, inbox' = Append(inbox, f)
      PROVE  InboxTyped'
  BY <1>1, AppendProperties DEF TypeOK, InboxTyped
<1>2. ASSUME inbox # <<>>, inbox' = Tail(inbox)
      PROVE  InboxTyped'
  BY <1>2, HeadTailProperties DEF TypeOK, InboxTyped
<1>3. ASSUME NEW n \in 0..Len(inbox), inbox' = SubSeq(inbox, 1, n)
      PROVE  InboxTyped'
  BY <1>3, PrefixOfSeq DEF TypeOK, InboxTyped
<1>4. ASSUME inbox # <<>>
      PROVE  /\ Head(inbox) \in Frame(last)
             /\ Head(inbox).kind = "event" => Head(inbox).next \in 1..last
  <2>1. Head(inbox) = inbox[1] /\ 1 \in DOMAIN inbox /\ inbox[1] \in Frame(last)
    BY <1>4
  <2>2. inbox[1].next \in 0..last
    BY <2>1 DEF Frame
  <2> QED BY <2>1, <2>2 DEF TypeOK, InboxTyped
<1> QED BY <1>1, <1>2, <1>3, <1>4

(* Asking for a sync, and the end of one, keep the request and the queue   *)
(* well typed.                                                             *)
LEMMA RequestStepTyped ==
    ASSUME TypeOK, UNCHANGED last
    PROVE  /\ RequestSync => RequestTyped'
           /\ \A c \in 0..last : SyncEnds(c) => RequestTyped' /\ QueueTyped'
<1>1. RequestSync => RequestTyped'
  BY DEF RequestSync, TypeOK, RequestTyped, ClientTyped
<1>2. ASSUME NEW c \in 0..last, SyncEnds(c) PROVE RequestTyped' /\ QueueTyped'
  <2>1. NoFrame \in Frame(last)
    BY Kept DEF NoFrame, SyncFrame, Frame
  <2>2. RequestTyped'
    BY <1>2, <2>1 DEF SyncEnds, TypeOK, RequestTyped
  <2>3. drain \in {"idle", "running", "recovering", "recovered", "applying", "learning",
                  "learned"}
    BY DEF TypeOK, QueueTyped
  <2>4. drain' \in {"idle", "running", "recovering", "recovered", "applying", "learning",
                   "learned"}
    BY <1>2, <2>3 DEF SyncEnds, Woken
  <2>5. drain' \in {"applying", "learning", "learned"}
           => drain \in {"applying", "learning", "learned"}
    BY <1>2, <2>3 DEF SyncEnds, Woken
  <2>6. QueueTyped'
    BY <1>2, <2>4, <2>5 DEF SyncEnds, TypeOK, QueueTyped
  <2> QED BY <2>2, <2>6
<1> QED BY <1>1, <1>2

(* Applying a page, all of it but one event, or nothing keeps the client's *)
(* state well typed.                                                       *)
LEMMA ApplyTyped ==
    ASSUME TypeOK, UNCHANGED <<last>>, NEW f \in Frame(last), chained' \in BOOLEAN
    PROVE  /\ ApplyPage(f) => ClientTyped'
           /\ ApplyPartOf(f) => ClientTyped' /\ failures' \in 0..MaxFailures
           /\ ApplyNothing => ClientTyped' /\ failures' \in 0..MaxFailures
<1> USE Kept
<1>1. f.events \subseteq 1..last /\ f.next \in 0..last
  BY DEF Frame
<1>2. /\ last \in 0..MaxLast /\ cursor \in 0..last /\ settled \subseteq 1..last
      /\ attempts \in [1..MaxLast -> 0..MaxDecryptRetries]
  BY DEF TypeOK, ServerTyped, ClientTyped
<1>3. Forgiven(f.events) \in [1..MaxLast -> 0..MaxDecryptRetries]
  BY <1>2 DEF Forgiven
<1>4. ApplyPage(f) => ClientTyped'
  BY <1>1, <1>2, <1>3 DEF ApplyPage, Later, ClientTyped
<1>5. ASSUME ApplyPartOf(f) PROVE ClientTyped'
  <2>1. PICK bad \in {e \in f.events : ~Quarantined(e)} :
            /\ attempts' = [Forgiven(f.events) EXCEPT ![bad] = attempts[bad] + 1]
            /\ settled' = settled \cup f.events \/ settled' = settled \cup (f.events \ {bad})
            /\ cursor' = Later(cursor, f.next) \/ cursor' = cursor
    BY <1>5 DEF ApplyPartOf
  <2>2. attempts[bad] + 1 \in 0..MaxDecryptRetries
    BY <1>1, <1>2, <2>1 DEF Quarantined
  <2>3. attempts' \in [1..MaxLast -> 0..MaxDecryptRetries]
    BY <1>3, <2>1, <2>2
  <2> QED BY <1>1, <1>2, <2>1, <2>3 DEF Later, ClientTyped
<1>6. ApplyPartOf(f) \/ ApplyNothing => failures' \in 0..MaxFailures
  BY DEF ApplyPartOf, ApplyNothing, TypeOK, FaultsTyped, StreamAssumption
<1>7. ApplyNothing => ClientTyped'
  BY <1>2 DEF ApplyNothing, client, ClientTyped
<1> QED BY <1>4, <1>5, <1>6, <1>7

(* Every step keeps the state well typed. *)
LEMMA StepTyped == TypeOK /\ [Next]_vars => TypeOK'
<1> SUFFICES ASSUME TypeOK, [Next]_vars PROVE TypeOK'
  OBVIOUS
<1> USE DEF server, connection, client, queue, request, faults
<1>1. CASE Commit
  <2>1. /\ last < MaxLast /\ last' = last + 1
        /\ unpublished' \in {unpublished, unpublished \cup {last + 1}}
    BY <1>1 DEF Commit
  <2>2. /\ last' \in 0..MaxLast /\ 1..last \subseteq 1..last'
        /\ ConnectionTyped' /\ InboxTyped' /\ ClientTyped' /\ QueueTyped'
        /\ RequestTyped' /\ FaultsTyped'
    BY <1>1, <2>1, LongerLog DEF Commit
  <2>3. ServerTyped'
    BY <2>1, <2>2 DEF TypeOK, ServerTyped
  <2> QED BY <2>2, <2>3 DEF TypeOK
<1>2. ASSUME NEW e \in unpublished, Publish(e) PROVE TypeOK'
  <2>1. UNCHANGED last
    BY <1>2 DEF Publish
  <2>2. ServerTyped'
    BY <1>2, <2>1, Kept DEF Publish, TypeOK, ServerTyped
  <2>3. ConnectionTyped'
    <3>1. channel \in Seq(1..last) /\ e \in 1..last /\ lagged \in BOOLEAN
      BY DEF TypeOK, ServerTyped, ConnectionTyped
    <3>2. lagged' = lagged \/ lagged' = TRUE
      BY <1>2 DEF Publish
    <3>3. lagged' \in BOOLEAN
      BY <3>1, <3>2
    <3>4. ChannelCapacity \in Nat \ {0}
      BY StreamAssumption
    <3>5. \/ channel' = channel
          \/ channel' = Append(channel, e)
          \/ Len(channel) >= ChannelCapacity /\ channel' = Append(Tail(channel), e)
      BY <1>2, <3>1, <3>4 DEF Publish
    <3>6. Append(channel, e) \in Seq(1..last)
      BY <3>1
    <3>7. ASSUME Len(channel) >= ChannelCapacity PROVE Append(Tail(channel), e) \in Seq(1..last)
      <4>1. channel # <<>>
        BY <3>4, <3>7
      <4>2. Tail(channel) \in Seq(1..last)
        BY <3>1, <4>1
      <4> QED BY <3>1, <4>2
    <3>8. channel' \in Seq(1..last)
      BY <3>1, <3>5, <3>6, <3>7
    <3>9. session' = session /\ since' = since
      BY <1>2 DEF Publish
    <3> QED BY <2>1, <3>3, <3>8, <3>9 DEF TypeOK, ConnectionTyped
  <2> QED BY <1>2, <2>1, <2>2, <2>3, Kept DEF Publish, TypeOK
<1>3. ASSUME NEW e \in unpublished, HandlerDies(e) PROVE TypeOK'
  <2>1. UNCHANGED last
    BY <1>3 DEF HandlerDies
  <2>2. ServerTyped'
    BY <1>3, <2>1, Kept DEF HandlerDies, TypeOK, ServerTyped
  <2> QED BY <1>3, <2>1, <2>2, Kept DEF HandlerDies, TypeOK
<1>4. CASE Connect
  <2>1. UNCHANGED last
    BY <1>4 DEF Connect
  <2>2. ConnectionTyped'
    BY <1>4, <2>1, Kept DEF Connect, TypeOK, ConnectionTyped, ClientTyped
  <2> QED BY <1>4, <2>1, <2>2, Kept DEF Connect, TypeOK
<1>5. CASE AcceptHello
  <2>1. UNCHANGED last
    BY <1>5 DEF AcceptHello
  <2>2. ConnectionTyped'
    <3>1. lagged' \in BOOLEAN /\ channel' = <<>> /\ since' = since
      BY <1>5 DEF AcceptHello
    <3>2. session' \in {"closed", "subscribed"}
      BY <1>5 DEF AcceptHello
    <3> QED BY <2>1, <3>1, <3>2 DEF TypeOK, ConnectionTyped
  <2> QED BY <1>5, <2>1, <2>2, Kept DEF AcceptHello, TypeOK
<1>6. CASE Snapshot
  <2>1. UNCHANGED last
    BY <1>6 DEF Snapshot
  <2>2. ConnectionTyped'
    BY <1>6, <2>1, Kept DEF Snapshot, TypeOK, ConnectionTyped
  <2>3. InboxTyped'
    <3>1. since \in 0..last
      BY Kept, <2>1, StreamAssumption DEF TypeOK, ConnectionTyped, Later
    <3>2. SyncFrame(Page(since), PageEnd(since)) \in Frame(last)
      BY <2>1, <3>1, Kept, PageTyped
    <3>3. SyncFrame(Page(since), PageEnd(since)).kind # "event"
      BY DEF SyncFrame
    <3>4. \/ inbox' = inbox
          \/ inbox' = Append(inbox, SyncFrame(Page(since), PageEnd(since)))
      BY <1>6 DEF Snapshot
    <3> QED BY <2>1, <3>2, <3>3, <3>4, Kept, FramesStep
  <2> QED BY <1>6, <2>1, <2>2, <2>3, Kept DEF Snapshot, TypeOK
<1>7. CASE SnapshotCursor
  <2>1. UNCHANGED last
    BY <1>7 DEF SnapshotCursor
  <2>2. ConnectionTyped'
    BY <1>7, <2>1, Kept DEF SnapshotCursor, TypeOK, ConnectionTyped
  <2>3. InboxTyped'
    <3>1. SyncFrame({}, last) \in Frame(last)
      BY <2>1, Kept DEF SyncFrame, Frame
    <3>2. SyncFrame({}, last).kind # "event"
      BY DEF SyncFrame
    <3>3. inbox' = Append(inbox, SyncFrame({}, last))
      BY <1>7 DEF SnapshotCursor
    <3> QED BY <2>1, <3>1, <3>2, <3>3, FramesStep
  <2> QED BY <1>7, <2>1, <2>2, <2>3, Kept DEF SnapshotCursor, TypeOK
<1>8. CASE Forward
  <2>1. UNCHANGED last
    BY <1>8 DEF Forward
  <2>2. ConnectionTyped'
    <3>1. channel # <<>> /\ channel \in Seq(1..last) /\ channel' = Tail(channel)
      BY <1>8 DEF Forward, TypeOK, ConnectionTyped
    <3>2. channel' \in Seq(1..last')
      BY <2>1, <3>1
    <3>3. session' = session /\ since' = since /\ lagged' = lagged
      BY <1>8 DEF Forward
    <3> QED BY <2>1, <3>2, <3>3 DEF TypeOK, ConnectionTyped
  <2>3. InboxTyped'
    <3>0. channel \in Seq(1..last) /\ channel # <<>>
      BY <1>8 DEF Forward, TypeOK, ConnectionTyped
    <3>1. Head(channel) \in 1..last
      BY <3>0, HeadTailProperties
    <3>2. EventFrame(Head(channel)) \in Frame(last) /\ EventFrame(Head(channel)).next # 0
      BY <2>1, <3>1, Kept DEF EventFrame, Frame
    <3>3. inbox' = Append(inbox, EventFrame(Head(channel)))
      BY <1>8 DEF Forward
    <3> QED BY <2>1, <3>2, <3>3, FramesStep
  <2> QED BY <1>8, <2>1, <2>2, <2>3, Kept DEF Forward, TypeOK
<1>9. CASE RecoverFromLag
  <2>1. UNCHANGED last
    BY <1>9 DEF RecoverFromLag
  <2>2. ConnectionTyped'
    <3>1. lagged' \in BOOLEAN
      BY <1>9 DEF RecoverFromLag
    <3> QED BY <1>9, <2>1, <3>1 DEF RecoverFromLag, TypeOK, ConnectionTyped
  <2>3. InboxTyped'
    <3>1. LagSince \in 0..last
      BY Kept, <2>1, StreamAssumption DEF LagSince, Later
    <3>2. SyncFrame(Page(LagSince), PageEnd(LagSince)) \in Frame(last)
      BY <2>1, <3>1, Kept, PageTyped
    <3>3. SyncFrame(Page(LagSince), PageEnd(LagSince)).kind # "event"
      BY DEF SyncFrame
    <3>4. \/ inbox' = inbox
          \/ inbox' = Append(inbox, SyncFrame(Page(LagSince), PageEnd(LagSince)))
      BY <1>9 DEF RecoverFromLag
    <3> QED BY <2>1, <3>2, <3>3, <3>4, Kept, FramesStep
  <2> QED BY <1>9, <2>1, <2>2, <2>3, Kept DEF RecoverFromLag, TypeOK
<1>10. CASE Drop
  <2>1. UNCHANGED last
    BY <1>10 DEF Drop
  <2>2. ConnectionTyped'
    <3>1. lagged' \in BOOLEAN /\ channel' = <<>> /\ since' = since
      BY <1>10 DEF Drop
    <3>2. session' \in {"closed", "subscribed"}
      BY <1>10 DEF Drop
    <3> QED BY <2>1, <3>1, <3>2 DEF TypeOK, ConnectionTyped
  <2>3. InboxTyped'
    BY <1>10, <2>1, FramesStep DEF Drop
  <2>4. RequestTyped'
    BY <1>10, <2>1, RequestStepTyped DEF Drop
  <2>5. FaultsTyped'
    BY <1>10, <2>1, Kept, StreamAssumption DEF Drop, TypeOK, FaultsTyped
  <2> QED BY <1>10, <2>1, <2>2, <2>3, <2>4, <2>5, Kept DEF Drop, TypeOK
<1>11. CASE FallbackSync
  <2>1. UNCHANGED last
    BY <1>11 DEF FallbackSync
  <2>2. RequestTyped'
    BY <1>11, <2>1, RequestStepTyped DEF FallbackSync
  <2> QED BY <1>11, <2>1, <2>2, Kept DEF FallbackSync, TypeOK
<1>12. CASE Answer
  <2>1. UNCHANGED last
    BY <1>12 DEF Answer
  <2>2. RequestTyped'
    <3>1. SyncFrame(Page(httpSince), PageEnd(httpSince)) \in Frame(last)
      BY <2>1, Kept, PageTyped DEF TypeOK, RequestTyped
    <3>2. answer' \in Frame(last) /\ http' \in {"reading", "answered"}
      BY <1>12, <3>1 DEF Answer, TypeOK, RequestTyped
    <3> QED BY <1>12, <2>1, <3>2 DEF Answer, TypeOK, RequestTyped
  <2> QED BY <1>12, <2>1, <2>2, Kept DEF Answer, TypeOK
<1>13. CASE AnswerCursor
  <2>1. UNCHANGED last
    BY <1>13 DEF AnswerCursor
  <2>2. RequestTyped'
    <3>1. SyncFrame({}, last) \in Frame(last)
      BY <2>1, Kept DEF SyncFrame, Frame
    <3> QED BY <1>13, <2>1, <3>1 DEF AnswerCursor, TypeOK, RequestTyped
  <2> QED BY <1>13, <2>1, <2>2, Kept DEF AnswerCursor, TypeOK
<1>14. CASE ReceiveAnswer
  <2>1. UNCHANGED last
    BY <1>14 DEF ReceiveAnswer
  <2>2. answer \in Frame(last) /\ chained' \in BOOLEAN
    BY <1>14 DEF ReceiveAnswer, TypeOK, RequestTyped, ClientTyped
  <2>3. ClientTyped' /\ FaultsTyped'
    BY <1>14, <2>1, <2>2, ApplyTyped, Kept DEF ReceiveAnswer, TypeOK, FaultsTyped
  <2>4. RequestTyped' /\ QueueTyped'
    <3>1. cursor' \in 0..last
      BY <2>1, <2>3 DEF ClientTyped
    <3> QED BY <1>14, <2>1, <3>1, RequestStepTyped DEF ReceiveAnswer
  <2> QED BY <1>14, <2>1, <2>2, <2>3, <2>4, Kept DEF ReceiveAnswer, TypeOK
<1>15. CASE RequestFails
  <2>1. UNCHANGED last
    BY <1>15 DEF RequestFails
  <2>2. FaultsTyped'
    BY <1>15, <2>1, Kept, StreamAssumption DEF RequestFails, TypeOK, FaultsTyped
  <2>3. RequestTyped' /\ QueueTyped'
    BY <1>15, <2>1, RequestStepTyped DEF RequestFails, TypeOK, ClientTyped
  <2> QED BY <1>15, <2>1, <2>2, <2>3, Kept DEF RequestFails, TypeOK
<1>16. CASE HandleSync
  <2>1. UNCHANGED last
    BY <1>16 DEF HandleSync
  <2>2. Head(inbox) \in Frame(last) /\ InboxTyped'
    BY <1>16, <2>1, FramesStep DEF HandleSync
  <2>3. chained' \in BOOLEAN
    BY <1>16 DEF HandleSync
  <2>4. ClientTyped' /\ FaultsTyped'
    BY <1>16, <2>1, <2>2, <2>3, ApplyTyped, Kept DEF HandleSync, TypeOK, FaultsTyped
  <2>5. QueueTyped'
    BY <1>16, <2>1 DEF HandleSync, Started, TypeOK, QueueTyped
  <2> QED BY <1>16, <2>1, <2>2, <2>3, <2>4, <2>5, Kept DEF HandleSync, TypeOK
<1>17. CASE HandleEvent
  <2>1. UNCHANGED last
    BY <1>17 DEF HandleEvent
  <2>2. InboxTyped'
    BY <1>17, <2>1, FramesStep DEF HandleEvent
  <2>3. QueueTyped'
    <3>1. Head(inbox).next \in 1..last
      BY <1>17, <2>1, FramesStep DEF HandleEvent
    <3> QED BY <1>17, <2>1, <3>1 DEF HandleEvent, Started, TypeOK, QueueTyped
  <2> QED BY <1>17, <2>1, <2>2, <2>3, Kept DEF HandleEvent, TypeOK
<1>18. CASE DrainEmpty
  <2>1. UNCHANGED last
    BY <1>18 DEF DrainEmpty
  <2>2. QueueTyped'
    BY <1>18, <2>1 DEF DrainEmpty, TypeOK, QueueTyped
  <2>3. ClientTyped'
    <3>1. chained' \in BOOLEAN
      BY <1>18 DEF DrainEmpty, TypeOK, ClientTyped
    <3> QED BY <1>18, <2>1, <3>1 DEF DrainEmpty, TypeOK, ClientTyped
  <2> QED BY <1>18, <2>1, <2>2, <2>3, Kept DEF DrainEmpty, TypeOK
<1>19. CASE DrainOld
  <2>1. UNCHANGED last
    BY <1>19 DEF DrainOld
  <2>2. QueueTyped'
    BY <1>19, <2>1, NextUpQueued DEF DrainOld, TypeOK, QueueTyped
  <2> QED BY <1>19, <2>1, <2>2, Kept DEF DrainOld, TypeOK
<1>20. CASE DrainGap
  <2>1. UNCHANGED last
    BY <1>20 DEF DrainGap
  <2>2. RequestTyped'
    BY <1>20, <2>1, RequestStepTyped DEF DrainGap, Recover
  <2>3. QueueTyped'
    BY <1>20, <2>1 DEF DrainGap, Recover, TypeOK, QueueTyped, ClientTyped
  <2> QED BY <1>20, <2>1, <2>2, <2>3, Kept DEF DrainGap, TypeOK
<1>21. CASE DrainNext
  <2>1. UNCHANGED last
    BY <1>21 DEF DrainNext
  <2>2. QueueTyped'
    BY <1>21, <2>1 DEF DrainNext, TypeOK, QueueTyped
  <2> QED BY <1>21, <2>1, <2>2, Kept DEF DrainNext, TypeOK
<1>22. CASE UnknownConversation
  <2>1. UNCHANGED last
    BY <1>22 DEF UnknownConversation
  <2>2. RequestTyped'
    BY <1>22, <2>1, RequestStepTyped DEF UnknownConversation
  <2>3. QueueTyped'
    BY <1>22, <2>1 DEF UnknownConversation, TypeOK, QueueTyped, ClientTyped
  <2> QED BY <1>22, <2>1, <2>2, <2>3, Kept DEF UnknownConversation, TypeOK
<1>23. CASE Applied
  <2>1. UNCHANGED last
    BY <1>23 DEF Applied
  <2>2. last \in Nat /\ pending # {} /\ pending \subseteq 1..last
    BY <1>23, <2>1, Kept DEF Applied, TypeOK, QueueTyped
  <2>3. NextUp \in 1..last
    BY <2>2, NextUpQueued
  <2>4. ClientTyped'
    BY <1>23, <2>1, <2>2, <2>3 DEF Applied, Later, TypeOK, ClientTyped
  <2>5. QueueTyped'
    BY <1>23, <2>1 DEF Applied, TypeOK, QueueTyped
  <2> QED BY <1>23, <2>1, <2>2, <2>3, <2>4, <2>5, Kept DEF Applied, TypeOK
<1>24. CASE NotApplied
  <2>1. UNCHANGED last
    BY <1>24 DEF NotApplied
  <2>2. RequestTyped'
    BY <1>24, <2>1, RequestStepTyped DEF NotApplied, Recover
  <2>3. QueueTyped'
    BY <1>24, <2>1 DEF NotApplied, Recover, TypeOK, QueueTyped, ClientTyped
  <2>4. FaultsTyped'
    BY <1>24, <2>1, Kept, StreamAssumption DEF NotApplied, TypeOK, FaultsTyped
  <2> QED BY <1>24, <2>1, <2>2, <2>3, <2>4, Kept DEF NotApplied, TypeOK
<1>25. CASE Learned
  <2>1. UNCHANGED last
    BY <1>25 DEF Learned
  <2>2. last \in Nat /\ pending # {} /\ pending \subseteq 1..last
    BY <1>25, <2>1, Kept DEF Learned, TypeOK, QueueTyped
  <2>3. NextUp \in 1..last
    BY <2>2, NextUpQueued
  <2>4. ClientTyped'
    BY <1>25, <2>1, <2>2, <2>3 DEF Learned, Later, TypeOK, ClientTyped
  <2>5. QueueTyped'
    BY <1>25, <2>1 DEF Learned, Recover, TypeOK, QueueTyped, ClientTyped
  <2>6. RequestTyped'
    BY <1>25, <2>1, RequestStepTyped, Kept DEF Learned, Recover
  <2> QED BY <1>25, <2>1, <2>2, <2>3, <2>4, <2>5, <2>6, Kept DEF Learned, TypeOK
<1>26. CASE Recovered
  <2>1. UNCHANGED last
    BY <1>26 DEF Recovered
  <2>2. QueueTyped'
    BY <1>26, <2>1 DEF Recovered, TypeOK, QueueTyped
  <2>3. ClientTyped'
    <3>1. chained' \in BOOLEAN
      BY <1>26 DEF Recovered, TypeOK, ClientTyped
    <3> QED BY <1>26, <2>1, <3>1 DEF Recovered, TypeOK, ClientTyped
  <2> QED BY <1>26, <2>1, <2>2, <2>3, Kept DEF Recovered, TypeOK
<1>27. CASE UNCHANGED vars
  BY <1>27, Kept DEF vars, TypeOK
<1> QED
  BY <1>1, <1>2, <1>3, <1>4, <1>5, <1>6, <1>7, <1>8, <1>9, <1>10, <1>11, <1>12, <1>13,
     <1>14, <1>15, <1>16, <1>17, <1>18, <1>19, <1>20, <1>21, <1>22, <1>23, <1>24, <1>25, <1>26, <1>27
     DEF Next, SessionStep, RequestStep, ClientStep, DrainStep

(* Every reachable state is well typed; in particular no cursor, on the    *)
(* wire or in the client, runs ahead of the account's log, so the client   *)
(* never waits for an event whose number was never given.                  *)
THEOREM TypeCorrect == Spec => []TypeOK
BY InitTyped, StepTyped, PTL DEF Spec

-------------------------------------------------------------------------------
(* The client skips nothing.  NoEventSkipped alone is not inductive: what  *)
(* will move the cursor must already cover what it passes.  So no request  *)
(* starts past the cursor, every page that is under way continues a prefix *)
(* the client has settled, and the loop works on the event right after the *)
(* cursor or on one already passed.                                        *)
Covered(f) == 1..f.next \subseteq settled \cup f.events

RequestsBehind == since <= cursor /\ httpSince <= cursor
NotTorn == session # "reading" /\ http # "reading"
AnswerCovered == http = "answered" => Covered(answer)
InboxCovered == \A i \in DOMAIN inbox : inbox[i].kind = "sync" => Covered(inbox[i])
WorkIsNext ==
    /\ drain = "applying" => NextUp <= cursor + 1
    /\ drain \in {"learning", "learned"} => NextUp <= mark + 1

CoverInv ==
    /\ NoEventSkipped /\ RequestsBehind /\ NotTorn
    /\ AnswerCovered /\ InboxCovered /\ WorkIsNext

(* Initially nothing has been passed. *)
LEMMA InitCovered == Init => CoverInv
<1> SUFFICES ASSUME Init PROVE CoverInv
  OBVIOUS
<1>1. NoEventSkipped /\ RequestsBehind /\ NotTorn
  BY DEF Init, NoEventSkipped, RequestsBehind, NotTorn
<1>2. AnswerCovered /\ InboxCovered /\ WorkIsNext
  BY DEF Init, AnswerCovered, InboxCovered, WorkIsNext
<1> QED BY <1>1, <1>2 DEF CoverInv

(* A page that starts at or behind the cursor continues what is settled. *)
LEMMA PageCovered ==
    ASSUME TypeOK, NoEventSkipped, NEW s \in 0..last, s <= cursor
    PROVE  Covered(SyncFrame(Page(s), PageEnd(s)))
<1>1. last \in Nat /\ cursor \in 0..last
  BY DEF TypeOK, ServerTyped, ClientTyped, StreamAssumption
<1>2. PageEnd(s) \in s..last /\ Page(s) = (s + 1)..PageEnd(s)
  BY <1>1, PageTyped
<1>3. 1..s \subseteq settled
  BY <1>1 DEF NoEventSkipped
<1>4. 1..PageEnd(s) \subseteq settled \cup Page(s)
  BY <1>1, <1>2, <1>3
<1> QED BY <1>4 DEF Covered, SyncFrame

(* Applying a covered page, all of it but one event, or nothing, skips     *)
(* nothing.                                                                *)
LEMMA ApplyCovered ==
    ASSUME TypeOK, NoEventSkipped, NEW f \in Frame(last), Covered(f),
           ApplyPage(f) \/ ApplyPartOf(f) \/ ApplyNothing
    PROVE  NoEventSkipped' /\ cursor <= cursor' /\ settled \subseteq settled'
<1>1. last \in Nat /\ cursor \in 0..last /\ f.next \in 0..last
  BY DEF TypeOK, ServerTyped, ClientTyped, StreamAssumption, Frame
<1>2. ASSUME settled' = settled \cup f.events, cursor' = Later(cursor, f.next)
      PROVE  NoEventSkipped' /\ cursor <= cursor' /\ settled \subseteq settled'
  <2>1. cursor' \in {cursor, f.next} /\ cursor <= cursor'
    BY <1>1, <1>2 DEF Later
  <2> QED BY <1>1, <1>2, <2>1 DEF NoEventSkipped, Covered
<1>3. ASSUME settled \subseteq settled', cursor' = cursor
      PROVE  NoEventSkipped' /\ cursor <= cursor' /\ settled \subseteq settled'
  BY <1>1, <1>3 DEF NoEventSkipped
<1>4. CASE ApplyPage(f)
  BY <1>2, <1>4 DEF ApplyPage
<1>5. CASE ApplyPartOf(f)
  <2>1. \/ settled' = settled \cup f.events /\ cursor' = Later(cursor, f.next)
        \/ settled \subseteq settled' /\ cursor' = cursor
    BY <1>5 DEF ApplyPartOf
  <2> QED BY <1>2, <1>3, <2>1
<1>6. CASE ApplyNothing
  BY <1>3, <1>6 DEF ApplyNothing, client
<1> QED BY <1>4, <1>5, <1>6

(* What a step leaves alone stays covered, as the client only gains. *)
LEMMA StillCovered ==
    ASSUME TypeOK, TypeOK', CoverInv, settled \subseteq settled', cursor <= cursor'
    PROVE  /\ UNCHANGED cursor => NoEventSkipped'
           /\ UNCHANGED <<since, httpSince>> => RequestsBehind'
           /\ UNCHANGED answer /\ (http' = "answered" => http = "answered") => AnswerCovered'
           /\ UNCHANGED inbox => InboxCovered'
           /\ UNCHANGED pending /\ UNCHANGED mark
              /\ (\/ drain' \notin {"applying", "learning", "learned"}
                  \/ drain' = drain
                  \/ drain = "learning" /\ drain' = "learned") => WorkIsNext'
<1>1. /\ last \in Nat /\ cursor \in Int /\ cursor' \in Int
      /\ since \in Int /\ httpSince \in Int
  BY DEF TypeOK, ServerTyped, ClientTyped, ConnectionTyped, RequestTyped, StreamAssumption
<1>2. UNCHANGED cursor => NoEventSkipped'
  BY DEF CoverInv, NoEventSkipped
<1>3. UNCHANGED <<since, httpSince>> => RequestsBehind'
  BY <1>1 DEF CoverInv, RequestsBehind
<1>4. ASSUME NEW f, Covered(f) PROVE 1..f.next \subseteq settled' \cup f.events
  BY <1>4 DEF Covered
<1>5. UNCHANGED answer /\ (http' = "answered" => http = "answered") => AnswerCovered'
  BY <1>4 DEF CoverInv, AnswerCovered, Covered
<1>6. UNCHANGED inbox => InboxCovered'
  BY <1>4 DEF CoverInv, InboxCovered, Covered
<1>7. ASSUME UNCHANGED pending, UNCHANGED mark,
             \/ drain' \notin {"applying", "learning", "learned"}
             \/ drain' = drain
             \/ drain = "learning" /\ drain' = "learned"
      PROVE  WorkIsNext'
  <2>1. NextUp' = NextUp
    BY <1>7 DEF NextUp
  <2>2. drain \in {"applying", "learning", "learned"} => NextUp \in Int
    BY <1>1, NextUpQueued DEF TypeOK, QueueTyped
  <2> QED BY <1>1, <1>7, <2>1, <2>2 DEF CoverInv, WorkIsNext
<1> QED BY <1>2, <1>3, <1>5, <1>6, <1>7

(* A covered snapshot that arrives, an event frame, or fewer frames keep   *)
(* the inbox covered.                                                      *)
LEMMA InboxStillCovered ==
    ASSUME TypeOK, InboxCovered, settled \subseteq settled'
    PROVE  /\ \A f \in Frame(last) :
                 (f.kind = "sync" => Covered(f)) /\ inbox' = Append(inbox, f) => InboxCovered'
           /\ inbox # <<>> /\ inbox' = Tail(inbox) => InboxCovered'
           /\ \A n \in 0..Len(inbox) : inbox' = SubSeq(inbox, 1, n) => InboxCovered'
<1>1. inbox \in Seq(Frame(last))
  BY DEF TypeOK, InboxTyped
<1>2. ASSUME NEW f \in Frame(last), f.kind = "sync" => Covered(f), inbox' = Append(inbox, f)
      PROVE  InboxCovered'
  BY <1>1, <1>2, AppendProperties DEF InboxCovered, Covered
<1>3. ASSUME inbox # <<>>, inbox' = Tail(inbox)
      PROVE  InboxCovered'
  BY <1>1, <1>3, HeadTailProperties DEF InboxCovered, Covered
<1>4. ASSUME NEW n \in 0..Len(inbox), inbox' = SubSeq(inbox, 1, n)
      PROVE  InboxCovered'
  BY <1>1, <1>4, PrefixOfSeq DEF InboxCovered, Covered
<1> QED BY <1>2, <1>3, <1>4

(* A sync that is asked for starts at the cursor, and the next round of    *)
(* one at the cursor the last one left.                                    *)
LEMMA RequestStaysBehind ==
    ASSUME TypeOK, TypeOK', CoverInv, UNCHANGED since, cursor <= cursor'
    PROVE  /\ UNCHANGED <<cursor, settled>> /\ RequestSync
                 => RequestsBehind' /\ AnswerCovered' /\ http' # "reading"
           /\ SyncEnds(cursor') => RequestsBehind' /\ AnswerCovered' /\ http' # "reading"
<1>1. /\ last \in Nat /\ cursor \in Int /\ cursor' \in Int
      /\ since \in Int /\ httpSince \in Int
  BY DEF TypeOK, ServerTyped, ClientTyped, ConnectionTyped, RequestTyped, StreamAssumption
<1>2. ASSUME UNCHANGED <<cursor, settled>>, RequestSync
      PROVE  RequestsBehind' /\ AnswerCovered' /\ http' # "reading"
  <2>1. RequestsBehind' /\ http' # "reading"
    BY <1>1, <1>2 DEF RequestSync, CoverInv, RequestsBehind, NotTorn
  <2>2. http' = "answered" => http = "answered" /\ answer' = answer
    BY <1>2 DEF RequestSync
  <2>3. AnswerCovered'
    BY <1>2, <2>2 DEF CoverInv, AnswerCovered, Covered
  <2> QED BY <2>1, <2>3
<1>3. ASSUME SyncEnds(cursor')
      PROVE  RequestsBehind' /\ AnswerCovered' /\ http' # "reading"
  <2>1. http' \in {"requested", "idle"} /\ httpSince' \in {cursor', httpSince}
    BY <1>3 DEF SyncEnds
  <2>2. RequestsBehind'
    BY <1>1, <2>1 DEF CoverInv, RequestsBehind
  <2> QED BY <2>1, <2>2 DEF AnswerCovered
<1> QED BY <1>2, <1>3

(* When more events are queued, the next one is no later. *)
LEMMA NextUpFalls ==
    ASSUME last \in Nat, pending # {}, pending \subseteq pending',
           pending \subseteq 1..last, pending' \subseteq 1..last
    PROVE  NextUp' <= NextUp /\ NextUp \in Int /\ NextUp' \in Int
<1>1. NextUp \in pending /\ NextUp \in 1..last
  BY NextUpQueued
<1>2. pending' \subseteq Nat
  OBVIOUS
<1>3. pending' # {}
  OBVIOUS
<1>4. NextUp' = Least(pending')
  BY DEF NextUp
<1>5. NextUp' \in pending' /\ \A e \in pending' : NextUp' <= e
  BY <1>2, <1>3, <1>4, LeastOfNaturals
<1> QED BY <1>1, <1>2, <1>5

(* Every step of a session that has not lagged, over a sync that is not    *)
(* torn, keeps the client covered.                                         *)
LEMMA StepCovered ==
    ASSUME ~TornSync
    PROVE  TypeOK /\ TypeOK' /\ CoverInv /\ ~lagged /\ [Next]_vars => CoverInv'
<1> SUFFICES ASSUME TypeOK, TypeOK', CoverInv, ~lagged, [Next]_vars PROVE CoverInv'
  OBVIOUS
<1> USE DEF server, connection, client, queue, request, faults
<1> /\ last \in Nat /\ cursor \in 0..last /\ settled \subseteq 1..last
    /\ since \in 0..last /\ httpSince \in 0..last
  BY DEF TypeOK, ServerTyped, ClientTyped, ConnectionTyped, RequestTyped, StreamAssumption
<1> NoEventSkipped /\ RequestsBehind /\ NotTorn /\ AnswerCovered /\ InboxCovered
  BY DEF CoverInv
<1>1. CASE Commit
  <2>1. cursor' = cursor /\ settled' = settled /\ cursor <= cursor'
    BY <1>1 DEF Commit
  <2>2. NotTorn'
    BY <1>1 DEF Commit, NotTorn
  <2>3. NoEventSkipped' /\ RequestsBehind' /\ AnswerCovered' /\ InboxCovered' /\ WorkIsNext'
    BY <1>1, <2>1, StillCovered DEF Commit
  <2> QED BY <2>2, <2>3 DEF CoverInv
<1>2. ASSUME NEW e \in unpublished, Publish(e) PROVE CoverInv'
  <2>1. cursor' = cursor /\ settled' = settled /\ cursor <= cursor'
    BY <1>2 DEF Publish
  <2>2. NotTorn'
    BY <1>2 DEF Publish, NotTorn
  <2>3. NoEventSkipped' /\ RequestsBehind' /\ AnswerCovered' /\ InboxCovered' /\ WorkIsNext'
    BY <1>2, <2>1, StillCovered DEF Publish
  <2> QED BY <2>2, <2>3 DEF CoverInv
<1>3. ASSUME NEW e \in unpublished, HandlerDies(e) PROVE CoverInv'
  <2>1. cursor' = cursor /\ settled' = settled /\ cursor <= cursor'
    BY <1>3 DEF HandlerDies
  <2>2. NotTorn'
    BY <1>3 DEF HandlerDies, NotTorn
  <2>3. NoEventSkipped' /\ RequestsBehind' /\ AnswerCovered' /\ InboxCovered' /\ WorkIsNext'
    BY <1>3, <2>1, StillCovered DEF HandlerDies
  <2> QED BY <2>2, <2>3 DEF CoverInv
<1>4. CASE Connect
  <2>1. cursor' = cursor /\ settled' = settled /\ cursor <= cursor'
    BY <1>4 DEF Connect
  <2>2. RequestsBehind'
    BY <1>4 DEF Connect, RequestsBehind
  <2>3. NotTorn'
    BY <1>4 DEF Connect, NotTorn
  <2>4. NoEventSkipped' /\ AnswerCovered' /\ InboxCovered' /\ WorkIsNext'
    BY <1>4, <2>1, StillCovered DEF Connect
  <2> QED BY <2>2, <2>3, <2>4 DEF CoverInv
<1>5. CASE AcceptHello
  <2>1. cursor' = cursor /\ settled' = settled /\ cursor <= cursor'
    BY <1>5 DEF AcceptHello
  <2>2. NotTorn'
    BY <1>5 DEF AcceptHello, NotTorn
  <2>3. NoEventSkipped' /\ RequestsBehind' /\ AnswerCovered' /\ InboxCovered' /\ WorkIsNext'
    BY <1>5, <2>1, StillCovered DEF AcceptHello
  <2> QED BY <2>2, <2>3 DEF CoverInv
<1>6. CASE Snapshot
  <2>1. cursor' = cursor /\ settled' = settled /\ cursor <= cursor'
    BY <1>6 DEF Snapshot
  <2>2. NotTorn'
    BY <1>6 DEF Snapshot, TornAt, NotTorn
  <2>3. InboxCovered'
    <3>1. since \in 0..last /\ since <= cursor
      BY DEF RequestsBehind
    <3>2. Covered(SyncFrame(Page(since), PageEnd(since)))
          /\ SyncFrame(Page(since), PageEnd(since)) \in Frame(last)
      BY <3>1, PageCovered, PageTyped
    <3>3. inbox' = Append(inbox, SyncFrame(Page(since), PageEnd(since)))
      BY <1>6 DEF Snapshot, TornAt
    <3> QED BY <2>1, <3>2, <3>3, InboxStillCovered
  <2>4. NoEventSkipped' /\ RequestsBehind' /\ AnswerCovered' /\ WorkIsNext'
    BY <1>6, <2>1, StillCovered DEF Snapshot
  <2> QED BY <2>2, <2>3, <2>4 DEF CoverInv
<1>7. CASE SnapshotCursor
  BY <1>7 DEF SnapshotCursor, NotTorn
<1>8. CASE Forward
  <2>1. cursor' = cursor /\ settled' = settled /\ cursor <= cursor'
    BY <1>8 DEF Forward
  <2>2. NotTorn'
    BY <1>8 DEF Forward, NotTorn
  <2>3. InboxCovered'
    <3>0. channel \in Seq(1..last) /\ channel # <<>>
      BY <1>8 DEF Forward, TypeOK, ConnectionTyped
    <3>1. Head(channel) \in 1..last
      BY <3>0, HeadTailProperties
    <3>2. EventFrame(Head(channel)) \in Frame(last) /\ EventFrame(Head(channel)).kind # "sync"
      BY <3>1 DEF EventFrame, Frame
    <3>3. inbox' = Append(inbox, EventFrame(Head(channel)))
      BY <1>8 DEF Forward
    <3> QED BY <2>1, <3>2, <3>3, InboxStillCovered
  <2>4. NoEventSkipped' /\ RequestsBehind' /\ AnswerCovered' /\ WorkIsNext'
    BY <1>8, <2>1, StillCovered DEF Forward
  <2> QED BY <2>2, <2>3, <2>4 DEF CoverInv
<1>9. CASE RecoverFromLag
  BY <1>9 DEF RecoverFromLag
<1>10. CASE Drop
  <2>1. cursor' = cursor /\ settled' = settled /\ cursor <= cursor'
    BY <1>10 DEF Drop
  <2>2. RequestsBehind' /\ AnswerCovered' /\ http' # "reading"
    BY <1>10, <2>1, RequestStaysBehind DEF Drop
  <2>3. NotTorn'
    BY <1>10, <2>2 DEF Drop, NotTorn
  <2>4. InboxCovered'
    BY <1>10, <2>1, InboxStillCovered DEF Drop
  <2>5. NoEventSkipped' /\ WorkIsNext'
    BY <1>10, <2>1, StillCovered DEF Drop
  <2> QED BY <2>2, <2>3, <2>4, <2>5 DEF CoverInv
<1>11. CASE FallbackSync
  <2>1. cursor' = cursor /\ settled' = settled /\ cursor <= cursor'
    BY <1>11 DEF FallbackSync
  <2>2. RequestsBehind' /\ AnswerCovered' /\ http' # "reading"
    BY <1>11, <2>1, RequestStaysBehind DEF FallbackSync
  <2>3. NotTorn'
    BY <1>11, <2>2 DEF FallbackSync, NotTorn
  <2>4. NoEventSkipped' /\ InboxCovered' /\ WorkIsNext'
    BY <1>11, <2>1, StillCovered DEF FallbackSync
  <2> QED BY <2>2, <2>3, <2>4 DEF CoverInv
<1>12. CASE Answer
  <2>1. cursor' = cursor /\ settled' = settled /\ cursor <= cursor'
    BY <1>12 DEF Answer
  <2>2. NotTorn'
    BY <1>12 DEF Answer, TornAt, NotTorn
  <2>3. AnswerCovered'
    <3>1. httpSince \in 0..last /\ httpSince <= cursor
      BY DEF RequestsBehind
    <3>2. Covered(SyncFrame(Page(httpSince), PageEnd(httpSince)))
      BY <3>1, PageCovered
    <3>3. answer' = SyncFrame(Page(httpSince), PageEnd(httpSince))
      BY <1>12 DEF Answer, TornAt
    <3> QED BY <2>1, <3>2, <3>3 DEF AnswerCovered, Covered
  <2>4. NoEventSkipped' /\ RequestsBehind' /\ InboxCovered' /\ WorkIsNext'
    BY <1>12, <2>1, StillCovered DEF Answer
  <2> QED BY <2>2, <2>3, <2>4 DEF CoverInv
<1>13. CASE AnswerCursor
  BY <1>13 DEF AnswerCursor, NotTorn
<1>14. CASE ReceiveAnswer
  <2>1. http = "answered" /\ answer \in Frame(last) /\ Covered(answer)
    BY <1>14 DEF ReceiveAnswer, TypeOK, RequestTyped, AnswerCovered
  <2>2. NoEventSkipped' /\ cursor <= cursor' /\ settled \subseteq settled'
    BY <1>14, <2>1, ApplyCovered DEF ReceiveAnswer
  <2>3. RequestsBehind' /\ AnswerCovered' /\ http' # "reading"
    BY <1>14, <2>2, RequestStaysBehind DEF ReceiveAnswer
  <2>4. drain' \notin {"applying", "learning", "learned"} \/ drain' = drain
        \/ (drain = "learning" /\ drain' = "learned")
    BY <1>14 DEF ReceiveAnswer, SyncEnds, Woken, TypeOK, QueueTyped
  <2>5. InboxCovered' /\ WorkIsNext'
    BY <1>14, <2>2, <2>4, StillCovered DEF ReceiveAnswer, SyncEnds
  <2>6. NotTorn'
    BY <1>14, <2>3 DEF ReceiveAnswer, NotTorn
  <2> QED BY <2>2, <2>3, <2>5, <2>6 DEF CoverInv
<1>15. CASE RequestFails
  <2>1. cursor' = cursor /\ settled' = settled /\ cursor <= cursor'
    BY <1>15 DEF RequestFails
  <2>2. SyncEnds(cursor')
    BY <1>15, <2>1 DEF RequestFails
  <2>3. RequestsBehind' /\ AnswerCovered' /\ http' # "reading"
    BY <1>15, <2>1, <2>2, RequestStaysBehind DEF RequestFails
  <2>4. drain' \notin {"applying", "learning", "learned"} \/ drain' = drain
        \/ (drain = "learning" /\ drain' = "learned")
    BY <1>15 DEF RequestFails, SyncEnds, Woken, TypeOK, QueueTyped
  <2>5. NoEventSkipped' /\ InboxCovered' /\ WorkIsNext'
    BY <1>15, <2>1, <2>4, StillCovered DEF RequestFails, SyncEnds
  <2>6. NotTorn'
    BY <1>15, <2>3 DEF RequestFails, NotTorn
  <2> QED BY <2>3, <2>5, <2>6 DEF CoverInv
<1>16. CASE HandleSync
  <2>1. Head(inbox) \in Frame(last) /\ Covered(Head(inbox))
    <3>1. inbox \in Seq(Frame(last)) /\ inbox # <<>> /\ Head(inbox).kind = "sync"
      BY <1>16 DEF HandleSync, TypeOK, InboxTyped
    <3>2. Head(inbox) = inbox[1] /\ 1 \in DOMAIN inbox /\ Head(inbox) \in Frame(last)
      BY <3>1, HeadTailProperties
    <3> QED BY <3>1, <3>2 DEF InboxCovered
  <2>2. NoEventSkipped' /\ cursor <= cursor' /\ settled \subseteq settled'
    BY <1>16, <2>1, ApplyCovered DEF HandleSync
  <2>3. InboxCovered'
    BY <1>16, <2>2, InboxStillCovered DEF HandleSync
  <2>4. drain' \notin {"applying", "learning", "learned"} \/ drain' = drain
    BY <1>16 DEF HandleSync, Started
  <2>5. RequestsBehind' /\ AnswerCovered' /\ WorkIsNext'
    BY <1>16, <2>2, <2>4, StillCovered DEF HandleSync
  <2>6. NotTorn'
    BY <1>16 DEF HandleSync, NotTorn
  <2> QED BY <2>2, <2>3, <2>5, <2>6 DEF CoverInv
<1>17. CASE HandleEvent
  <2>1. cursor' = cursor /\ settled' = settled /\ cursor <= cursor'
    BY <1>17 DEF HandleEvent
  <2>2. NotTorn'
    BY <1>17 DEF HandleEvent, NotTorn
  <2>3. InboxCovered'
    BY <1>17, <2>1, InboxStillCovered DEF HandleEvent
  <2>4. WorkIsNext'
    <3>1. drain \in {"applying", "learning", "learned"} => NextUp' <= NextUp /\ NextUp \in Int /\ NextUp' \in Int
      <4>1. SUFFICES ASSUME drain \in {"applying", "learning", "learned"}
                     PROVE  NextUp' <= NextUp /\ NextUp \in Int /\ NextUp' \in Int
        OBVIOUS
      <4>2. pending # {} /\ pending \subseteq 1..last /\ pending' \subseteq 1..last /\ pending \subseteq pending'
        BY <1>17, <4>1 DEF HandleEvent, TypeOK, QueueTyped
      <4> QED BY <4>2, NextUpFalls
    <3>2. drain' = drain \/ drain' = "running"
      BY <1>17 DEF HandleEvent, Started
    <3>3. mark' = mark /\ mark \in Int
      BY <1>17 DEF HandleEvent, TypeOK, QueueTyped
    <3> QED BY <2>1, <3>1, <3>2, <3>3 DEF CoverInv, WorkIsNext
  <2>5. NoEventSkipped' /\ RequestsBehind' /\ AnswerCovered'
    BY <1>17, <2>1, StillCovered DEF HandleEvent
  <2> QED BY <2>2, <2>3, <2>4, <2>5 DEF CoverInv
<1>18. CASE DrainEmpty
  <2>1. cursor' = cursor /\ settled' = settled /\ cursor <= cursor'
    BY <1>18 DEF DrainEmpty
  <2>2. NotTorn'
    BY <1>18 DEF DrainEmpty, NotTorn
  <2>3. NoEventSkipped' /\ RequestsBehind' /\ AnswerCovered' /\ InboxCovered' /\ WorkIsNext'
    BY <1>18, <2>1, StillCovered DEF DrainEmpty
  <2> QED BY <2>2, <2>3 DEF CoverInv
<1>19. CASE DrainOld
  <2>1. cursor' = cursor /\ settled' = settled /\ cursor <= cursor'
    BY <1>19 DEF DrainOld
  <2>2. NotTorn'
    BY <1>19 DEF DrainOld, NotTorn
  <2>3. WorkIsNext'
    BY <1>19 DEF DrainOld, WorkIsNext
  <2>4. NoEventSkipped' /\ RequestsBehind' /\ AnswerCovered' /\ InboxCovered'
    BY <1>19, <2>1, StillCovered DEF DrainOld
  <2> QED BY <2>2, <2>3, <2>4 DEF CoverInv
<1>20. CASE DrainGap
  <2>1. cursor' = cursor /\ settled' = settled /\ cursor <= cursor'
    BY <1>20 DEF DrainGap
  <2>2. RequestsBehind' /\ AnswerCovered' /\ http' # "reading"
    BY <1>20, <2>1, RequestStaysBehind DEF DrainGap, Recover
  <2>3. NotTorn'
    BY <1>20, <2>2 DEF DrainGap, Recover, NotTorn
  <2>4. WorkIsNext'
    BY <1>20 DEF DrainGap, Recover, WorkIsNext
  <2>5. NoEventSkipped' /\ InboxCovered'
    BY <1>20, <2>1, StillCovered DEF DrainGap, Recover
  <2> QED BY <2>2, <2>3, <2>4, <2>5 DEF CoverInv
<1>21. CASE DrainNext
  <2>1. cursor' = cursor /\ settled' = settled /\ cursor <= cursor'
    BY <1>21 DEF DrainNext
  <2>2. NotTorn'
    BY <1>21 DEF DrainNext, NotTorn
  <2>3. WorkIsNext'
    <3>1. NextUp' = NextUp
      BY <1>21 DEF DrainNext, NextUp
    <3> QED BY <1>21, <2>1, <3>1 DEF DrainNext, IsNext, WorkIsNext
  <2>4. NoEventSkipped' /\ RequestsBehind' /\ AnswerCovered' /\ InboxCovered'
    BY <1>21, <2>1, StillCovered DEF DrainNext
  <2> QED BY <2>2, <2>3, <2>4 DEF CoverInv
<1>22. CASE UnknownConversation
  <2>1. cursor' = cursor /\ settled' = settled /\ cursor <= cursor'
    BY <1>22 DEF UnknownConversation
  <2>2. RequestsBehind' /\ AnswerCovered' /\ http' # "reading"
    BY <1>22, <2>1, RequestStaysBehind DEF UnknownConversation
  <2>3. NotTorn'
    BY <1>22, <2>2 DEF UnknownConversation, NotTorn
  <2>4. WorkIsNext'
    <3>1. NextUp' = NextUp
      BY <1>22 DEF UnknownConversation, NextUp
    <3> QED BY <1>22, <2>1, <3>1 DEF UnknownConversation, IsNext, WorkIsNext
  <2>5. NoEventSkipped' /\ InboxCovered'
    BY <1>22, <2>1, StillCovered DEF UnknownConversation
  <2> QED BY <2>2, <2>3, <2>4, <2>5 DEF CoverInv
<1>23. CASE Applied
  <2>1. pending # {} /\ pending \subseteq 1..last /\ NextUp <= cursor + 1
    BY <1>23 DEF Applied, TypeOK, QueueTyped, CoverInv, WorkIsNext
  <2>2. NextUp \in 1..last
    BY <2>1, NextUpQueued
  <2>3. settled' = settled \cup {NextUp} /\ cursor' = Later(cursor, NextUp)
    BY <1>23 DEF Applied
  <2>4. cursor <= cursor' /\ cursor' \in {cursor, NextUp} /\ settled \subseteq settled'
    BY <2>2, <2>3 DEF Later
  <2>5. NoEventSkipped'
    BY <2>1, <2>2, <2>3, <2>4 DEF NoEventSkipped
  <2>6. RequestsBehind' /\ AnswerCovered' /\ InboxCovered'
    BY <1>23, <2>4, StillCovered DEF Applied
  <2>7. NotTorn' /\ WorkIsNext'
    BY <1>23 DEF Applied, NotTorn, WorkIsNext
  <2> QED BY <2>5, <2>6, <2>7 DEF CoverInv
<1>24. CASE NotApplied
  <2>1. cursor' = cursor /\ settled' = settled /\ cursor <= cursor'
    BY <1>24 DEF NotApplied
  <2>2. RequestsBehind' /\ AnswerCovered' /\ http' # "reading"
    BY <1>24, <2>1, RequestStaysBehind DEF NotApplied, Recover
  <2>3. NotTorn'
    BY <1>24, <2>2 DEF NotApplied, Recover, NotTorn
  <2>4. WorkIsNext'
    BY <1>24 DEF NotApplied, Recover, WorkIsNext
  <2>5. NoEventSkipped' /\ InboxCovered'
    BY <1>24, <2>1, StillCovered DEF NotApplied, Recover
  <2> QED BY <2>2, <2>3, <2>4, <2>5 DEF CoverInv
<1>25. CASE Learned
  <2>1. pending # {} /\ pending \subseteq 1..last /\ NextUp <= mark + 1 /\ mark \in 0..last
    BY <1>25 DEF Learned, TypeOK, QueueTyped, CoverInv, WorkIsNext
  <2>2. NextUp \in 1..last
    BY <2>1, NextUpQueued
  <2>3. CASE cursor > mark
    <3>1. cursor' = cursor /\ settled' = settled
      BY <1>25, <2>1, <2>2, <2>3 DEF Learned, Later
    <3>2. NoEventSkipped' /\ RequestsBehind' /\ AnswerCovered' /\ InboxCovered'
      BY <1>25, <2>3, <3>1, StillCovered DEF Learned
    <3>3. NotTorn' /\ WorkIsNext'
      BY <1>25, <2>3 DEF Learned, NotTorn, WorkIsNext
    <3> QED BY <3>2, <3>3 DEF CoverInv
  <2>4. CASE ~(cursor > mark)
    <3>1. cursor' = cursor /\ settled' = settled /\ RequestSync /\ drain' = "recovering"
      BY <1>25, <2>4 DEF Learned, Recover
    <3>2. RequestsBehind' /\ AnswerCovered' /\ http' # "reading"
      BY <1>25, <3>1, RequestStaysBehind DEF Learned
    <3>3. NoEventSkipped' /\ InboxCovered'
      BY <1>25, <3>1, StillCovered DEF Learned
    <3>4. NotTorn' /\ WorkIsNext'
      BY <1>25, <3>1, <3>2 DEF Learned, NotTorn, WorkIsNext
    <3> QED BY <3>2, <3>3, <3>4 DEF CoverInv
  <2> QED BY <2>3, <2>4
<1>26. CASE Recovered
  <2>1. cursor' = cursor /\ settled' = settled /\ cursor <= cursor'
    BY <1>26 DEF Recovered
  <2>2. NotTorn'
    BY <1>26 DEF Recovered, NotTorn
  <2>3. NoEventSkipped' /\ RequestsBehind' /\ AnswerCovered' /\ InboxCovered' /\ WorkIsNext'
    BY <1>26, <2>1, StillCovered DEF Recovered
  <2> QED BY <2>2, <2>3 DEF CoverInv
<1>27. CASE UNCHANGED vars
  BY <1>27, StillCovered DEF vars, CoverInv, NotTorn
<1> QED
  BY <1>1, <1>2, <1>3, <1>4, <1>5, <1>6, <1>7, <1>8, <1>9, <1>10, <1>11, <1>12, <1>13,
     <1>14, <1>15, <1>16, <1>17, <1>18, <1>19, <1>20, <1>21, <1>22, <1>23, <1>24, <1>25, <1>26, <1>27
     DEF Next, SessionStep, RequestStep, ClientStep, DrainStep

(* With a sync that reads its page and cursor together, and as long as the *)
(* channel overwrites nothing the session has not read, the client's       *)
(* cursor never passes an event it has not settled (applied, or given up   *)
(* after MAX_DECRYPT_RETRIES): whatever the order of publication, the      *)
(* overlap of snapshots, pages and pushed events, lost connections, failed *)
(* requests and failed decryptions.                                        *)
THEOREM NothingSkipped ==
    ASSUME ~TornSync
    PROVE  Spec /\ [](~lagged) => []NoEventSkipped
<1>1. TypeOK /\ TypeOK' /\ CoverInv /\ ~lagged /\ [Next]_vars => CoverInv'
  BY StepCovered
<1>2. CoverInv => NoEventSkipped
  BY DEF CoverInv
<1> QED BY InitCovered, TypeCorrect, <1>1, <1>2, PTL DEF Spec

-------------------------------------------------------------------------------
(* The drain loop is not left asleep.  It stops only when its queue is     *)
(* empty or a recovery moved nothing, so the second case must need a       *)
(* failure: the request a waiting loop depends on starts at its mark or    *)
(* later, and some queued event lies past the mark, so the page it brings  *)
(* is not empty, however many runs of the sync queue it takes.             *)
Waits == {"recovering", "learning"}
Waited == {"recovered", "learned"}

MarkBehind == httpSince <= cursor /\ mark <= cursor

AnswerMoves ==
    drain \in Waits /\ ~httpQueued =>
        /\ http # "idle" /\ mark <= httpSince
        /\ http = "reading" => cursor > mark
        /\ http = "answered" => cursor > mark \/ answer.next > mark

LoopAwake ==
    /\ drain \in Waits \cup Waited => \E e \in pending : e > mark
    /\ drain = "idle" => pending = {}
    /\ drain \in Waited => cursor > mark

WakeInv == MarkBehind /\ (failures = 0 => AnswerMoves /\ LoopAwake)

(* Initially nothing is queued and nobody waits. *)
LEMMA InitAwake == Init => WakeInv
BY DEF Init, WakeInv, MarkBehind, AnswerMoves, LoopAwake, Waits, Waited

(* The cursors are numbers. *)
LEMMA Numbers ==
    ASSUME TypeOK
    PROVE  /\ last \in Nat /\ cursor \in 0..last /\ mark \in 0..last /\ httpSince \in 0..last
           /\ failures \in Nat /\ pending \subseteq 1..last /\ answer.next \in 0..last
           /\ httpQueued \in BOOLEAN
BY StreamAssumption DEF TypeOK, ServerTyped, ClientTyped, QueueTyped, RequestTyped, FaultsTyped, Frame

(* So they are after a step. *)
LEMMA NumbersNext ==
    ASSUME TypeOK' PROVE cursor' \in Int /\ failures' \in Nat
<1> last' \in Nat /\ cursor' \in 0..last' /\ failures' \in 0..MaxFailures
  BY StreamAssumption DEF TypeOK, ServerTyped, ClientTyped, FaultsTyped
<1> QED BY StreamAssumption

(* A loop that is at work waits for nobody. *)
LEMMA AtWork ==
    ASSUME TypeOK, TypeOK', WakeInv, cursor <= cursor', UNCHANGED <<mark, request>>,
           drain' \in {"running", "applying"}
    PROVE  WakeInv'
<1>1. MarkBehind'
  BY Numbers, NumbersNext DEF WakeInv, MarkBehind, request
<1>2. AnswerMoves' /\ LoopAwake'
  BY DEF AnswerMoves, LoopAwake, Waits, Waited
<1> QED BY <1>1, <1>2 DEF WakeInv

(* Neither does a step elsewhere disturb it. *)
LEMMA Undisturbed ==
    ASSUME TypeOK, TypeOK', WakeInv, cursor <= cursor', UNCHANGED <<mark, drain, request>>,
           failures' = 0 => failures = 0,
           pending \subseteq pending', drain = "idle" => pending' = pending
    PROVE  WakeInv'
<1>1. MarkBehind'
  BY Numbers, NumbersNext DEF WakeInv, MarkBehind, request
<1>2. ASSUME failures = 0 PROVE AnswerMoves' /\ LoopAwake'
  <2>1. AnswerMoves'
    BY <1>2, Numbers, NumbersNext DEF WakeInv, AnswerMoves, request
  <2>2. LoopAwake'
    BY <1>2, Numbers, NumbersNext DEF WakeInv, LoopAwake
  <2> QED BY <2>1, <2>2
<1> QED BY <1>1, <1>2 DEF WakeInv

(* A further request does not take the one the loop waits for away. *)
LEMMA RequestKeepsAwake ==
    ASSUME TypeOK, TypeOK', WakeInv, RequestSync, UNCHANGED <<cursor, queue, failures>>
    PROVE  WakeInv'
<1>1. MarkBehind'
  BY Numbers DEF WakeInv, MarkBehind, RequestSync, queue
<1>2. ASSUME failures = 0 PROVE AnswerMoves' /\ LoopAwake'
  <2>1. AnswerMoves'
    BY <1>2 DEF WakeInv, AnswerMoves, RequestSync, queue
  <2>2. LoopAwake'
    BY <1>2 DEF WakeInv, LoopAwake, queue
  <2> QED BY <2>1, <2>2
<1> QED BY <1>1, <1>2 DEF WakeInv

(* A loop that starts to wait has asked for a sync, or for one more run of *)
(* the one under way.                                                      *)
LEMMA StartsToWait ==
    ASSUME TypeOK, TypeOK', WakeInv, RequestSync, UNCHANGED <<cursor, pending, failures>>,
           mark' = cursor, drain' \in Waits, \E e \in pending : e > cursor
    PROVE  WakeInv'
<1>1. MarkBehind'
  BY Numbers DEF WakeInv, MarkBehind, RequestSync
<1>2. AnswerMoves'
  BY Numbers DEF AnswerMoves, RequestSync
<1>3. LoopAwake'
  BY DEF LoopAwake, Waits, Waited
<1> QED BY <1>1, <1>2, <1>3 DEF WakeInv

(* The end of a run wakes the loop when the cursor has moved past its mark *)
(* and goes round once more when that was asked for.                       *)
LEMMA EndOfRun ==
    ASSUME TypeOK, TypeOK', WakeInv, SyncEnds(cursor'), cursor <= cursor',
           failures' = 0 =>
              failures = 0 /\ (drain \in Waits /\ ~httpQueued => cursor' > mark)
    PROVE  WakeInv'
<1>1. /\ drain' = Woken(drain) /\ mark' = mark /\ pending' = pending /\ httpQueued' = FALSE
      /\ http' = IF httpQueued THEN "requested" ELSE "idle"
      /\ httpSince' = IF httpQueued THEN cursor' ELSE httpSince
  BY DEF SyncEnds
<1>2. MarkBehind'
  BY <1>1, Numbers, NumbersNext DEF WakeInv, MarkBehind
<1>3. drain \in {"idle", "running", "recovering", "recovered", "applying", "learning", "learned"}
  BY DEF TypeOK, QueueTyped
<1>4. /\ drain' \in Waits => drain' = drain /\ httpQueued
      /\ drain' \in Waited => drain \in Waited \/ (drain \in Waits /\ ~httpQueued)
      /\ drain' # "idle"
  BY <1>1, <1>3 DEF Woken, Waits, Waited
<1>5. ASSUME failures' = 0 PROVE AnswerMoves' /\ LoopAwake'
  <2>1. AnswerMoves'
    BY <1>1, <1>2, <1>4, <1>5 DEF AnswerMoves, MarkBehind
  <2>2. drain' \in Waits \cup Waited => \E e \in pending : e > mark
    BY <1>4, <1>5 DEF WakeInv, LoopAwake
  <2>3. drain' \in Waited => cursor' > mark
    BY <1>4, <1>5, Numbers, NumbersNext DEF WakeInv, LoopAwake
  <2> QED BY <1>1, <1>4, <2>1, <2>2, <2>3 DEF LoopAwake
<1> QED BY <1>2, <1>5 DEF WakeInv

(* Whatever part of a page is applied, the cursor does not go back. *)
LEMMA CursorRises ==
    ASSUME TypeOK, NEW f \in Frame(last), ApplyPage(f) \/ ApplyPartOf(f) \/ ApplyNothing
    PROVE  cursor <= cursor'
<1>1. f.next \in 0..last
  BY DEF Frame
<1> QED BY <1>1, Numbers DEF ApplyPage, ApplyPartOf, ApplyNothing, client, Later

(* A failed step is counted. *)
LEMMA FailureCounts ==
    ASSUME TypeOK, failures' = failures + 1 PROVE failures' # 0
BY Numbers

(* Every step keeps the loop awake. *)
LEMMA StepAwake ==
    ASSUME TypeOK, TypeOK', WakeInv, [Next]_vars PROVE WakeInv'
<1> cursor <= cursor
  BY Numbers
<1>1. CASE Commit
  BY <1>1, Undisturbed DEF Commit, client, queue, faults
<1>2. ASSUME NEW e \in unpublished, Publish(e) \/ HandlerDies(e) PROVE WakeInv'
  BY <1>2, Undisturbed DEF Publish, HandlerDies, client, queue, faults
<1>3. CASE Connect
  BY <1>3, Undisturbed DEF Connect, client, queue, faults
<1>4. CASE SessionStep
  BY <1>4, Undisturbed
     DEF SessionStep, AcceptHello, Snapshot, SnapshotCursor, Forward, RecoverFromLag, client,
         queue, faults
<1>5. CASE Drop
  BY <1>5, RequestKeepsAwake DEF Drop, client
<1>6. CASE FallbackSync
  BY <1>6, RequestKeepsAwake DEF FallbackSync, client, faults
<1>7. CASE Answer
  <2>1. /\ http = "requested" /\ UNCHANGED <<cursor, queue, httpSince, httpQueued, failures>>
        /\ \/ http' = "reading" /\ TornAt(httpSince)
           \/ http' = "answered" /\ answer'.next = PageEnd(httpSince)
    BY <1>7 DEF Answer, client, faults, SyncFrame
  <2>2. MarkBehind' /\ (failures = 0 => LoopAwake')
    BY <2>1 DEF WakeInv, MarkBehind, LoopAwake, queue
  <2>3. ASSUME failures = 0, drain \in Waits, ~httpQueued
        PROVE  /\ mark <= httpSince
               /\ http' = "reading" => cursor > mark
               /\ http' = "answered" => cursor > mark \/ answer'.next > mark
    <3>1. mark <= httpSince /\ httpSince <= cursor /\ last > mark
      BY <2>3, Numbers DEF WakeInv, MarkBehind, AnswerMoves, LoopAwake
    <3>2. CASE httpSince > mark
      BY <3>1, <3>2, Numbers
    <3>3. CASE httpSince = mark
      <4>1. PageEnd(httpSince) > mark
        BY <3>1, <3>3, Numbers, StreamAssumption DEF PageEnd, Earlier
      <4>2. PageEnd(httpSince) \in Page(httpSince)
        BY <3>1, <3>3, <4>1, Numbers, PageTyped
      <4> QED BY <2>1, <3>1, <4>1, <4>2 DEF TornAt
    <3> QED BY <3>1, <3>2, <3>3, Numbers
  <2>4. failures = 0 => AnswerMoves'
    BY <2>1, <2>3 DEF AnswerMoves, queue
  <2> QED BY <2>1, <2>2, <2>4 DEF WakeInv
<1>8. CASE AnswerCursor
  <2>1. /\ http = "reading" /\ http' = "answered"
        /\ UNCHANGED <<cursor, queue, httpSince, httpQueued, failures>>
    BY <1>8 DEF AnswerCursor, client, faults
  <2> QED BY <2>1 DEF WakeInv, MarkBehind, LoopAwake, AnswerMoves, queue
<1>9. CASE ReceiveAnswer
  <2>1. /\ http = "answered" /\ SyncEnds(cursor')
        /\ (ApplyPage(answer) /\ UNCHANGED failures) \/ ApplyPartOf(answer)
    BY <1>9 DEF ReceiveAnswer
  <2>2. answer \in Frame(last)
    BY DEF TypeOK, RequestTyped
  <2>3. cursor <= cursor'
    BY <2>1, <2>2, CursorRises
  <2>4. CASE ApplyPage(answer) /\ UNCHANGED failures
    <3>1. cursor' = Later(cursor, answer.next)
      BY <2>4 DEF ApplyPage
    <3>2. failures = 0 /\ drain \in Waits /\ ~httpQueued => cursor' > mark
      BY <2>1, <3>1, Numbers DEF WakeInv, AnswerMoves, Later
    <3> QED BY <2>1, <2>3, <2>4, <3>2, EndOfRun
  <2>5. CASE ApplyPartOf(answer)
    BY <2>1, <2>3, <2>5, EndOfRun, FailureCounts DEF ApplyPartOf
  <2> QED BY <2>1, <2>4, <2>5
<1>10. CASE RequestFails
  BY <1>10, EndOfRun, FailureCounts DEF RequestFails, client
<1>11. CASE HandleSync
  <2>1. Head(inbox) \in Frame(last)
    <3>1. UNCHANGED last /\ inbox # <<>>
      BY <1>11 DEF HandleSync, server
    <3> QED BY <3>1, FramesStep
  <2>2. /\ cursor <= cursor' /\ UNCHANGED <<pending, mark, request>> /\ drain' = Started(drain)
        /\ failures' = 0 => failures = 0
    BY <1>11, <2>1, CursorRises, FailureCounts DEF HandleSync, ApplyPartOf, ApplyNothing
  <2>3. CASE drain = "idle"
    BY <2>2, <2>3, AtWork DEF Started
  <2>4. CASE drain # "idle"
    BY <2>2, <2>4, Undisturbed DEF Started
  <2> QED BY <2>3, <2>4
<1>12. CASE HandleEvent
  <2>1. UNCHANGED <<cursor, mark, request, failures>>
    BY <1>12 DEF HandleEvent, client, faults
  <2>2. \/ UNCHANGED <<pending, drain>>
        \/ pending \subseteq pending' /\ drain' = Started(drain)
    BY <1>12 DEF HandleEvent
  <2>3. CASE UNCHANGED <<pending, drain>>
    BY <2>1, <2>3, Undisturbed
  <2>4. CASE pending \subseteq pending' /\ drain' = Started(drain)
    <3>1. CASE drain = "idle"
      BY <2>1, <2>4, <3>1, AtWork DEF Started
    <3>2. CASE drain # "idle"
      BY <2>1, <2>4, <3>2, Undisturbed DEF Started
    <3> QED BY <3>1, <3>2
  <2> QED BY <2>2, <2>3, <2>4
<1>13. CASE DrainEmpty
  <2>1. drain' = "idle" /\ pending' = {} /\ UNCHANGED <<cursor, mark, request, failures>>
    BY <1>13 DEF DrainEmpty, client, faults
  <2> QED BY <2>1 DEF WakeInv, MarkBehind, AnswerMoves, LoopAwake, Waits, Waited, request
<1>14. CASE DrainOld \/ DrainNext
  BY <1>14, AtWork DEF DrainOld, DrainNext, client
<1>15. CASE DrainGap \/ UnknownConversation
  <2>1. /\ RequestSync /\ mark' = cursor /\ drain' \in Waits
        /\ UNCHANGED <<cursor, pending, failures>> /\ pending # {} /\ NextUp > cursor
    BY <1>15 DEF DrainGap, UnknownConversation, Recover, client, faults, Waits
  <2>2. NextUp \in pending
    BY <2>1, NextUpQueued, Numbers
  <2> QED BY <2>1, <2>2, StartsToWait
<1>16. CASE Applied
  <2>1. pending # {}
    BY <1>16 DEF Applied, TypeOK, QueueTyped
  <2>2. NextUp \in 1..last
    BY <2>1, NextUpQueued, Numbers
  <2>3. cursor <= cursor'
    BY <1>16, <2>2, Numbers DEF Applied, Later
  <2> QED BY <1>16, <2>3, AtWork DEF Applied
<1>17. CASE NotApplied
  <2>1. failures' # 0
    BY <1>17, FailureCounts DEF NotApplied
  <2>2. MarkBehind'
    BY <1>17, Numbers DEF NotApplied, Recover, RequestSync, client, WakeInv, MarkBehind
  <2> QED BY <2>1, <2>2 DEF WakeInv
<1>18. CASE Learned
  <2>1. CASE cursor > mark
    <3>1. NextUp \in 1..last
      BY <1>18, NextUpQueued, Numbers DEF Learned, TypeOK, QueueTyped
    <3>2. cursor <= cursor'
      BY <1>18, <2>1, <3>1, Numbers DEF Learned, Later
    <3> QED BY <1>18, <2>1, <3>2, AtWork DEF Learned
  <2>2. CASE ~(cursor > mark)
    <3>1. failures # 0
      BY <1>18, <2>2 DEF Learned, WakeInv, LoopAwake, Waited
    <3>2. MarkBehind' /\ failures' = failures
      BY <1>18, <2>2, Numbers DEF Learned, Recover, RequestSync, faults, WakeInv, MarkBehind
    <3> QED BY <3>1, <3>2 DEF WakeInv
  <2> QED BY <2>1, <2>2
<1>19. CASE Recovered
  <2>1. /\ drain = "recovered" /\ UNCHANGED <<cursor, mark, request, failures>>
        /\ drain' = IF cursor = mark THEN "idle" ELSE "running"
    BY <1>19 DEF Recovered, client, faults
  <2>2. CASE cursor = mark
    <3>1. failures # 0
      BY <2>1, <2>2, Numbers DEF WakeInv, LoopAwake, Waited
    <3> QED BY <2>1, <3>1 DEF WakeInv, MarkBehind, request
  <2>3. CASE cursor # mark
    BY <2>1, <2>3, AtWork
  <2> QED BY <2>2, <2>3
<1>20. CASE UNCHANGED vars
  BY <1>20, Undisturbed DEF vars, client, queue, faults
<1> QED
  BY <1>1, <1>2, <1>3, <1>4, <1>5, <1>6, <1>7, <1>8, <1>9, <1>10, <1>11, <1>12, <1>13, <1>14,
     <1>15, <1>16, <1>17, <1>18, <1>19, <1>20
     DEF Next, RequestStep, ClientStep, DrainStep

(* Without a failure the drain loop never stops with an event past the     *)
(* cursor still queued, on either database, for any capacity of the        *)
(* channel and any interleaving of enqueues, finished syncs and            *)
(* recoveries.                                                             *)
THEOREM LoopNeverAsleep == Spec => []NoLostWakeup
<1>1. TypeOK /\ TypeOK' /\ WakeInv /\ [Next]_vars => WakeInv'
  BY StepAwake
<1>2. TypeOK /\ WakeInv => NoLostWakeup
  BY Numbers DEF WakeInv, LoopAwake, NoLostWakeup
<1> QED BY InitAwake, TypeCorrect, <1>1, <1>2, PTL DEF Spec
===============================================================================
