---------------------------- MODULE PresenceProofs ----------------------------
(***************************************************************************)
(* Proofs about Presence, for every set of accounts and tasks and every    *)
(* limit on connections.                                                   *)
(***************************************************************************)
EXTENDS Presence, FiniteSetTheorems, TLAPS

USE PresenceAssumption

(* A task holds its receiver from subscribe until it stops, or, when its   *)
(* greeting failed, until it returns.                                      *)
ReceiversAreTasks ==
    \A s \in Sessions :
        s \in receivers <=>
            task[s] \in {"greeting", "announcing", "streaming", "failed", "parting failed"}

ChannelsAreKept == \A s \in receivers : account[s] \in channels

(* While the watchers believe an account online, a task of it has yet to   *)
(* tell them otherwise, or to leave that to another.                       *)
Parting(s) == task[s] \in {"parting", "parting failed"}

OnlineIsOwed ==
    \A a \in Accounts :
        told[a] = "online" => \E s \in Sessions : account[s] = a /\ (Registered(s) \/ Parting(s))

IInv == TypeOK /\ CountsMatchTasks /\ ReceiversAreTasks /\ ChannelsAreKept /\ OnlineIsOwed

-------------------------------------------------------------------------------
(* The tasks are finitely many, and so are the registered ones. *)
LEMMA FinitelyManyRegistered ==
    /\ IsFiniteSet({s \in Sessions : Registered(s)})
    /\ \A a \in Accounts : IsFiniteSet(RegisteredOf(a))
<1>1. \A T \in SUBSET Sessions : IsFiniteSet(T)
  BY FS_Subset
<1> QED
  BY <1>1 DEF RegisteredOf

(* A step that registers nobody and lets nobody go keeps the counts true.  *)
LEMMA CountsKept ==
    ASSUME CountsMatchTasks,
           sessions' = sessions, active' = active, account' = account,
           \A s \in Sessions : Registered(s)' <=> Registered(s)
    PROVE  CountsMatchTasks'
<1>1. {s \in Sessions : Registered(s)}' = {s \in Sessions : Registered(s)}
  OBVIOUS
<1>2. \A a \in Accounts : RegisteredOf(a)' = RegisteredOf(a)
  BY DEF RegisteredOf
<1> QED
  BY <1>1, <1>2 DEF CountsMatchTasks

(* A task that is admitted is counted once, for its account. *)
LEMMA CountsJoin ==
    ASSUME TypeOK, CountsMatchTasks,
           NEW s \in Sessions, NEW a \in Accounts, TryConnect(s, a)
    PROVE  CountsMatchTasks'
<1> DEFINE All == {t \in Sessions : Registered(t)}
<1>1. /\ task[s] = "idle"
      /\ task' = [task EXCEPT ![s] = "accepted"]
      /\ account' = [account EXCEPT ![s] = a]
      /\ sessions' = [sessions EXCEPT ![a] = @ + 1]
      /\ active' = active + 1
  BY DEF TryConnect, Goto
<1>2. All' = All \cup {s} /\ s \notin All
  BY <1>1 DEF Registered, TypeOK
<1>3. RegisteredOf(a)' = RegisteredOf(a) \cup {s} /\ s \notin RegisteredOf(a)
  BY <1>1 DEF Registered, RegisteredOf, TypeOK
<1>4. \A b \in Accounts : b # a => RegisteredOf(b)' = RegisteredOf(b)
  BY <1>1 DEF Registered, RegisteredOf, TypeOK
<1>5. Cardinality(All') = Cardinality(All) + 1
  <2> HIDE DEF All
  <2> QED
    BY <1>2, FinitelyManyRegistered, FS_AddElement DEF All
<1>6. Cardinality(RegisteredOf(a)') = Cardinality(RegisteredOf(a)) + 1
  BY <1>3, FinitelyManyRegistered, FS_AddElement
<1>7. active' = Cardinality(All')
  BY <1>1, <1>5 DEF CountsMatchTasks
<1>8. \A b \in Accounts : sessions'[b] = Cardinality(RegisteredOf(b)')
  BY <1>1, <1>4, <1>6 DEF CountsMatchTasks, TypeOK
<1> QED
  BY <1>7, <1>8 DEF CountsMatchTasks

(* Whoever leaves is counted: the entry of its account is at least one,    *)
(* and one exactly when no other task of the account is registered.        *)
LEMMA LeaverIsCounted ==
    ASSUME TypeOK, CountsMatchTasks, NEW s \in Sessions, Registered(s)
    PROVE  /\ active \in Nat \ {0}
           /\ sessions[account[s]] \in Nat \ {0}
           /\ sessions[account[s]] = 1 =>
                 \A t \in Sessions \ {s} : Registered(t) => account[t] # account[s]
           /\ sessions[account[s]] # 1 =>
                 \E t \in Sessions \ {s} : Registered(t) /\ account[t] = account[s]
<1> DEFINE All == {t \in Sessions : Registered(t)}
           Mine == RegisteredOf(account[s])
<1>1. account[s] \in Accounts /\ s \in All /\ s \in Mine
  BY DEF RegisteredOf, TypeOK
<1>2. IsFiniteSet(All) /\ IsFiniteSet(Mine)
  BY <1>1, FinitelyManyRegistered
<1>3. active = Cardinality(All) /\ sessions[account[s]] = Cardinality(Mine)
  BY <1>1 DEF CountsMatchTasks
<1>4. Cardinality(Mine) = 1 <=> Mine = {s}
  <2> HIDE DEF Mine
  <2> QED
    BY <1>1, <1>2, FS_Singleton
<1>5. active \in Nat \ {0} /\ sessions[account[s]] \in Nat \ {0}
  <2> HIDE DEF All, Mine
  <2> QED
    BY <1>1, <1>2, <1>3, FS_EmptySet, FS_CardinalityType
<1> QED
  BY <1>1, <1>3, <1>4, <1>5 DEF RegisteredOf

(* A task that leaves is uncounted, once. *)
LEMMA CountsLeave ==
    ASSUME TypeOK, CountsMatchTasks,
           NEW s \in Sessions, PresenceDisconnected(s)
    PROVE  CountsMatchTasks'
<1> DEFINE All == {t \in Sessions : Registered(t)}
           a == account[s]
<1>1. /\ Registered(s) /\ ~Registered(s)'
      /\ \A t \in Sessions \ {s} : Registered(t)' <=> Registered(t)
      /\ account' = account /\ active' = active - 1
      /\ sessions' = [sessions EXCEPT ![a] = Left(a)]
      /\ a \in Accounts
  BY DEF PresenceDisconnected, Return, Goto, Registered, TypeOK
<1>2. Left(a) = sessions[a] - 1
  BY <1>1, LeaverIsCounted DEF Left, IsLast
<1>3. All' = All \ {s} /\ s \in All
  BY <1>1
<1>4. RegisteredOf(a)' = RegisteredOf(a) \ {s} /\ s \in RegisteredOf(a)
  BY <1>1 DEF RegisteredOf
<1>5. \A b \in Accounts : b # a => RegisteredOf(b)' = RegisteredOf(b)
  BY <1>1 DEF RegisteredOf
<1>6. Cardinality(All') = Cardinality(All) - 1
  <2> HIDE DEF All
  <2> QED
    BY <1>3, FinitelyManyRegistered, FS_RemoveElement DEF All
<1>7. Cardinality(RegisteredOf(a)') = Cardinality(RegisteredOf(a)) - 1
  BY <1>1, <1>4, FinitelyManyRegistered, FS_RemoveElement
<1>8. active' = Cardinality(All')
  BY <1>1, <1>6 DEF CountsMatchTasks
<1>9. \A b \in Accounts : sessions'[b] = Cardinality(RegisteredOf(b)')
  BY <1>1, <1>2, <1>5, <1>7 DEF CountsMatchTasks, TypeOK
<1> QED
  BY <1>8, <1>9 DEF CountsMatchTasks

-------------------------------------------------------------------------------
LEMMA InitIInv == Init => IInv
<1> SUFFICES ASSUME Init PROVE IInv
  OBVIOUS
<1>1. TypeOK
  BY DEF Init, TypeOK, Places
<1>2. \A s \in Sessions : ~Registered(s)
  BY DEF Init, Registered
<1>3. {s \in Sessions : Registered(s)} = {} /\ \A a \in Accounts : RegisteredOf(a) = {}
  BY <1>2 DEF RegisteredOf
<1>4. CountsMatchTasks
  BY <1>3, FS_EmptySet DEF CountsMatchTasks, Init
<1>5. ReceiversAreTasks /\ ChannelsAreKept /\ OnlineIsOwed
  BY DEF Init, ReceiversAreTasks, ChannelsAreKept, OnlineIsOwed
<1> QED
  BY <1>1, <1>4, <1>5 DEF IInv

(* The steps of a task, but for its admission and its leave, concern only  *)
(* its place, its receiver, the channel and what the watchers are told.    *)
QuietStep(s) ==
    \/ Subscribe(s) \/ Greet(s) \/ GreetFails(s) \/ Announce(s)
    \/ Stop(s) \/ Part(s) \/ Unsubscribe(s)

LEMMA QuietStepKeepsCounts ==
    ASSUME TypeOK, CountsMatchTasks, NEW s \in Sessions, QuietStep(s)
    PROVE  CountsMatchTasks'
<1>1. sessions' = sessions /\ active' = active /\ account' = account
  BY DEF QuietStep, Subscribe, Greet, GreetFails, Announce, Stop, Part, Unsubscribe
<1>2. \A t \in Sessions : Registered(t)' <=> Registered(t)
  BY DEF QuietStep, Subscribe, Greet, GreetFails, Announce, Stop, Part, Unsubscribe,
         Return, Goto, Registered, TypeOK
<1> QED
  BY <1>1, <1>2, CountsKept

(* Every step of a task keeps the types; the counts stay within the limits *)
(* because an admission tests them and a leave finds itself counted.       *)
LEMMA TypeOKStep ==
    ASSUME IInv, NEW s \in Sessions,
           \/ \E a \in Accounts : TryConnect(s, a)
           \/ PresenceDisconnected(s) \/ QuietStep(s)
    PROVE  TypeOK'
<1> USE DEF IInv, TypeOK
<1>1. ASSUME NEW a \in Accounts, TryConnect(s, a) PROVE TypeOK'
  <2>1. /\ task' = [task EXCEPT ![s] = "accepted"]
        /\ account' = [account EXCEPT ![s] = a]
        /\ sessions' = [sessions EXCEPT ![a] = @ + 1] /\ sessions[a] < MaxPerAccount
        /\ active' = active + 1 /\ active < MaxConnections
        /\ first' = [first EXCEPT ![s] = sessions[a] = 0]
        /\ UNCHANGED <<channels, receivers, told>>
    BY <1>1 DEF TryConnect, Goto, Full
  <2>2. sessions' \in [Accounts -> 0..MaxPerAccount] /\ active' \in 0..MaxConnections
    BY <2>1
  <2>3. (sessions[a] = 0) \in BOOLEAN
    OBVIOUS
  <2>4. first' \in [Sessions -> BOOLEAN]
    BY <2>1, <2>3
  <2>5. task' \in [Sessions -> Places] /\ account' \in [Sessions -> Accounts]
    BY <2>1 DEF Places
  <2> QED
    BY <2>1, <2>2, <2>4, <2>5
<1>2. CASE PresenceDisconnected(s)
  <2>1. /\ Registered(s) /\ account[s] \in Accounts
        /\ active' = active - 1
        /\ sessions' = [sessions EXCEPT ![account[s]] = Left(account[s])]
        /\ UNCHANGED <<account, first, channels, told>>
    BY <1>2 DEF PresenceDisconnected, Registered
  <2>2. Left(account[s]) \in 0..MaxPerAccount /\ active' \in 0..MaxConnections
    BY <2>1, LeaverIsCounted DEF Left, IsLast
  <2>3. task' \in [Sessions -> Places] /\ receivers' \subseteq Sessions
    BY <1>2 DEF PresenceDisconnected, Return, Goto, Places
  <2> QED
    BY <2>1, <2>2, <2>3
<1>3. CASE QuietStep(s)
  BY <1>3 DEF QuietStep, Subscribe, Greet, GreetFails, Announce, Stop, Part,
              Unsubscribe, Return, Goto, Places
<1> QED
  BY <1>1, <1>2, <1>3

(* A task is the only one to move its receiver, except that an unsubscribe *)
(* drops the receivers of a channel it removes, and there are none.        *)
LEMMA ReceiversStep ==
    ASSUME IInv, NEW s \in Sessions,
           \/ \E a \in Accounts : TryConnect(s, a)
           \/ PresenceDisconnected(s) \/ QuietStep(s)
    PROVE  ReceiversAreTasks'
<1> USE DEF IInv, TypeOK, ReceiversAreTasks, Goto
<1>1. ASSUME NEW a \in Accounts, TryConnect(s, a) PROVE ReceiversAreTasks'
  BY <1>1 DEF TryConnect
<1>2. CASE PresenceDisconnected(s)
  BY <1>2 DEF PresenceDisconnected, Return
<1>3. CASE QuietStep(s)
  <2>1. CASE Subscribe(s)
    BY <2>1 DEF Subscribe
  <2>2. CASE Greet(s) \/ GreetFails(s) \/ Announce(s)
    BY <2>2 DEF Greet, GreetFails, Announce
  <2>3. CASE Stop(s) \/ Part(s)
    BY <2>3 DEF Stop, Part, Return
  <2>4. CASE Unsubscribe(s)
    BY <2>4 DEF Unsubscribe, NobodyListens
  <2> QED
    BY <1>3, <2>1, <2>2, <2>3, <2>4 DEF QuietStep
<1> QED
  BY <1>1, <1>2, <1>3

LEMMA ChannelsStep ==
    ASSUME IInv, NEW s \in Sessions,
           \/ \E a \in Accounts : TryConnect(s, a)
           \/ PresenceDisconnected(s) \/ QuietStep(s)
    PROVE  ChannelsAreKept'
<1> USE DEF IInv, TypeOK, ReceiversAreTasks, ChannelsAreKept
<1>1. ASSUME NEW a \in Accounts, TryConnect(s, a) PROVE ChannelsAreKept'
  BY <1>1 DEF TryConnect
<1>2. CASE PresenceDisconnected(s)
  BY <1>2 DEF PresenceDisconnected, Return
<1>3. CASE QuietStep(s)
  <2>1. CASE Subscribe(s)
    BY <2>1 DEF Subscribe
  <2>2. CASE Greet(s) \/ GreetFails(s) \/ Announce(s) \/ Stop(s)
    BY <2>2 DEF Greet, GreetFails, Announce, Stop
  <2>3. CASE Part(s)
    BY <2>3 DEF Part, Return
  <2>4. CASE Unsubscribe(s)
    <3>1. account' = account /\ receivers' \subseteq receivers
      BY <2>4 DEF Unsubscribe
    <3>2. CASE NobodyListens(account[s])
      <4>1. channels' = channels \ {account[s]}
        BY <2>4, <3>2 DEF Unsubscribe
      <4> QED
        BY <3>1, <3>2, <4>1 DEF NobodyListens
    <3>3. CASE ~NobodyListens(account[s])
      <4>1. channels' = channels
        BY <2>4, <3>3 DEF Unsubscribe
      <4> QED
        BY <3>1, <4>1
    <3> QED
      BY <3>2, <3>3
  <2> QED
    BY <1>3, <2>1, <2>2, <2>3, <2>4 DEF QuietStep
<1> QED
  BY <1>1, <1>2, <1>3

(* Who was to tell the watchers that the account has gone either does so,  *)
(* or leaves another registered task of the account that will.             *)
LEMMA OnlineStep ==
    ASSUME IInv, NEW s \in Sessions,
           \/ \E a \in Accounts : TryConnect(s, a)
           \/ PresenceDisconnected(s) \/ QuietStep(s)
    PROVE  OnlineIsOwed'
<1> DEFINE Owes(t) == Registered(t) \/ Parting(t)
<1> SUFFICES ASSUME NEW a \in Accounts, told'[a] = "online"
             PROVE  \E t \in Sessions : account'[t] = a /\ Owes(t)'
  BY DEF OnlineIsOwed
<1>1. ASSUME told[a] = "online"
      PROVE  \E t \in Sessions : account[t] = a /\ Owes(t)
  BY <1>1 DEF IInv, OnlineIsOwed
<1>2. ASSUME \A t \in Sessions \ {s} : task'[t] = task[t]
      PROVE  \A t \in Sessions \ {s} : Owes(t)' <=> Owes(t)
  BY <1>2 DEF Registered, Parting
<1>3. ASSUME NEW b \in Accounts, TryConnect(s, b)
      PROVE  \E t \in Sessions : account'[t] = a /\ Owes(t)'
  <2>1. /\ ~Owes(s) /\ told' = told
        /\ \A t \in Sessions \ {s} : task'[t] = task[t] /\ account'[t] = account[t]
    BY <1>3 DEF TryConnect, Goto, Registered, Parting, IInv, TypeOK
  <2> HIDE DEF Owes
  <2> QED
    BY <1>1, <1>2, <2>1
<1>4. CASE PresenceDisconnected(s)
  <2>1. /\ Registered(s) /\ account' = account /\ told' = told
        /\ \A t \in Sessions \ {s} : task'[t] = task[t]
    BY <1>4 DEF PresenceDisconnected, Registered, Return, Goto, IInv, TypeOK
  <2>2. CASE IsLast(account[s])
    <3>1. task'[s] \in {"parting", "parting failed"}
      BY <1>4, <2>2 DEF PresenceDisconnected, Goto, IInv, TypeOK
    <3>2. Owes(s)'
      BY <3>1 DEF Parting
    <3> HIDE DEF Owes
    <3> QED
      BY <1>1, <1>2, <2>1, <3>2
  <2>3. CASE ~IsLast(account[s])
    <3>1. sessions[account[s]] # 1
      BY <2>3 DEF IsLast
    <3>2. PICK t \in Sessions \ {s} : Registered(t) /\ account[t] = account[s]
      BY <2>1, <3>1, LeaverIsCounted DEF IInv
    <3>3. Owes(t)
      BY <3>2
    <3> HIDE DEF Owes
    <3> QED
      BY <1>1, <1>2, <2>1, <3>2, <3>3
  <2> QED
    BY <2>2, <2>3
<1>5. CASE Subscribe(s) \/ Greet(s) \/ GreetFails(s) \/ Stop(s)
  <2>1. /\ account' = account /\ told' = told /\ Owes(s)'
        /\ \A t \in Sessions \ {s} : task'[t] = task[t]
    BY <1>5 DEF Subscribe, Greet, GreetFails, Stop, Goto, Registered, IInv, TypeOK
  <2> HIDE DEF Owes
  <2> QED
    BY <1>1, <1>2, <2>1
<1>6. CASE Unsubscribe(s)
  <2>1. /\ account' = account /\ told' = told /\ ~Owes(s)
        /\ \A t \in Sessions \ {s} : task'[t] = task[t]
    BY <1>6 DEF Unsubscribe, Goto, Registered, Parting, IInv, TypeOK
  <2> HIDE DEF Owes
  <2> QED
    BY <1>1, <1>2, <2>1
<1>7. CASE Announce(s)
  <2>1. /\ account' = account /\ told' = [told EXCEPT ![account[s]] = "online"]
        /\ Owes(s)'
        /\ \A t \in Sessions \ {s} : task'[t] = task[t]
    BY <1>7 DEF Announce, Goto, Registered, IInv, TypeOK
  <2>2. a = account[s] \/ told[a] = "online"
    BY <2>1 DEF IInv, TypeOK
  <2> HIDE DEF Owes
  <2> QED
    BY <1>1, <1>2, <2>1, <2>2
<1>8. CASE Part(s)
  <2>1. /\ account' = account /\ told' = [told EXCEPT ![account[s]] = "offline"]
        /\ \A t \in Sessions \ {s} : task'[t] = task[t]
    BY <1>8 DEF Part, Return, Goto, IInv, TypeOK
  <2>2. told[a] = "online" /\ a # account[s]
    BY <2>1 DEF IInv, TypeOK
  <2> HIDE DEF Owes
  <2> QED
    BY <1>1, <1>2, <2>1, <2>2
<1> QED
  BY <1>3, <1>4, <1>5, <1>6, <1>7, <1>8 DEF QuietStep

-------------------------------------------------------------------------------
LEMMA Inductive == Spec => []IInv
<1>1. IInv /\ [Next]_vars => IInv'
  <2> SUFFICES ASSUME IInv, [Next]_vars PROVE IInv'
    OBVIOUS
  <2>1. ASSUME NEW s \in Sessions, NEW a \in Accounts, TryConnect(s, a)
        PROVE  IInv'
    BY <2>1, CountsJoin, TypeOKStep, ReceiversStep, ChannelsStep, OnlineStep DEF IInv
  <2>2. ASSUME NEW s \in Sessions, PresenceDisconnected(s)
        PROVE  IInv'
    BY <2>2, CountsLeave, TypeOKStep, ReceiversStep, ChannelsStep, OnlineStep DEF IInv
  <2>3. ASSUME NEW s \in Sessions, QuietStep(s)
        PROVE  IInv'
    BY <2>3, QuietStepKeepsCounts, TypeOKStep, ReceiversStep, ChannelsStep, OnlineStep
       DEF IInv
  <2>4. CASE UNCHANGED vars
    <3>1. CountsMatchTasks'
      BY <2>4, CountsKept DEF IInv, vars, Registered
    <3> QED
      BY <2>4, <3>1 DEF IInv, vars, TypeOK, ReceiversAreTasks, ChannelsAreKept,
                        OnlineIsOwed, Registered, Parting
  <2> QED
    BY <2>1, <2>2, <2>3, <2>4 DEF Next, QuietStep
<1> QED
  BY <1>1, InitIInv, PTL DEF Spec

(* The limits: the hub never counts more connections than                  *)
(* REALTIME_MAX_CONNECTIONS, nor more of an account than its own limit.    *)
THEOREM TypeCorrect == Spec => []TypeOK
<1>1. IInv => TypeOK
  BY DEF IInv
<1> QED
  BY <1>1, Inductive, PTL

(* presence_sessions and active_connections are what the websocket tasks   *)
(* make them: no admission is lost or given back twice.                    *)
THEOREM CountsAreTrue == Spec => []CountsMatchTasks
<1>1. IInv => CountsMatchTasks
  BY DEF IInv
<1> QED
  BY <1>1, Inductive, PTL

(* unsubscribe never removes a channel that a running task listens to.     *)
THEOREM NobodyCutOff == Spec => []NobodyIsCutOff
<1>1. IInv => NobodyIsCutOff
  BY DEF IInv, TypeOK, ReceiversAreTasks, ChannelsAreKept, NobodyIsCutOff
<1> QED
  BY <1>1, Inductive, PTL

(* The watchers of an account whose tasks have all ended were not left     *)
(* with "online".                                                          *)
THEOREM GoneMeansOffline == Spec => []OfflineOnceGone
<1>1. IInv => OfflineOnceGone
  BY DEF IInv, OnlineIsOwed, OfflineOnceGone, Registered, Parting
<1> QED
  BY <1>1, Inductive, PTL
===============================================================================
