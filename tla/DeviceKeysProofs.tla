---------------------------- MODULE DeviceKeysProofs ----------------------------
(* A session passes over a message it has a key for only after MaxRetries   *)
(* copies of it could not be read, for every number of devices, sessions,   *)
(* messages, faults and retries.                                            *)
EXTENDS DeviceKeys, SequenceTheorems, FiniteSetTheorems, TLAPS

-------------------------------------------------------------------------------
(* The invariant.                                                           *)
DeviceKey == Devices \X (Nat \ {0})
Keys == {Account} \cup DeviceKey
Signers == {Peer} \cup DeviceKey
Copies == [id : Ids, to : Keys, by : Signers, again : BOOLEAN]

(* Keys are numbered as they are made.                                      *)
KeysMade ==
    /\ made \in [Devices -> Nat] /\ stored \in [Devices -> Nat] /\ bundle \in [Devices -> Nat]
    /\ \A d \in Devices : stored[d] <= made[d] /\ bundle[d] <= made[d]
    /\ directory \subseteq DeviceKey /\ IsFiniteSet(directory)
(* What is sent is one message, for finitely many keys.                     *)
Requested ==
    /\ sent \in 0..MaxMessages /\ pending \in [Devices -> 0..MaxMessages]
    /\ request \in [Devices -> [by : Nat, to : SUBSET Keys]]
    /\ \A d \in Devices : /\ IsFiniteSet(request[d].to)
                          /\ request[d] # NoRequest => pending[d] # 0 /\ request[d].by # 0
    /\ have \in [Devices -> SUBSET Ids] /\ due \in [Devices -> SUBSET Keys]
Logged ==
    /\ log \in Seq(SUBSET Copies) /\ IsFiniteSet(Log)
    /\ cursor \in [Devices -> Nat] /\ \A d \in Devices : cursor[d] <= Len(log)
(* A try that a session counts is a copy that could not be read; the other  *)
(* way a new session has counted none of them.                              *)
Counted ==
    /\ attempts \in [Devices -> [Ids -> Nat]] /\ refused \in [Devices -> [Ids -> Nat]]
    /\ skipped \in [Devices -> SUBSET Ids]
    /\ \A d \in Devices, i \in Ids : /\ attempts[d][i] <= refused[d][i]
                                     /\ refused[d][i] <= MaxRetries
    /\ \A d \in Devices : \A i \in skipped[d] : refused[d][i] >= MaxRetries
(* Until a device has made a second key, its first one is what it reads     *)
(* with, in every session.                                                  *)
Passed ==
    \A d \in Devices :
        made[d] <= 1 =>
            \A n \in 1..cursor[d] : \A c \in log[n] :
                c.to \in {<<d, 1>>, Account} => c.id \in have[d] \/ refused[d][c.id] >= MaxRetries
KeysInv ==
    on \subseteq Devices /\ KeysMade /\ Requested /\ Logged /\ Counted /\ Passed

-------------------------------------------------------------------------------
(* Lemmas on the operators.                                                 *)
LEMMA KeysConstants ==
    /\ Phones \subseteq Devices /\ MaxRetries \in Nat \ {0, 1} /\ MaxMessages \in Nat
    /\ MaxLog \in Nat /\ MaxFaults \in Nat
  BY KeysAssumption DEF KeysAssumption

(* A message is encrypted in finitely many copies.                          *)
LEMMA EncryptsCopies ==
    ASSUME NEW ids \in SUBSET Ids, NEW to \in SUBSET Keys, IsFiniteSet(to),
           NEW by \in Signers, NEW again \in BOOLEAN
    PROVE  /\ EncryptMessage(ids, to, by, again) \subseteq Copies
           /\ IsFiniteSet(EncryptMessage(ids, to, by, again))
  <1> DEFINE all == EncryptMessage(ids, to, by, again)
             f == [p \in ids \X to |-> [id |-> p[1], to |-> p[2], by |-> by, again |-> again]]
  <1>1. IsFiniteSet(ids)
    <2>1. IsFiniteSet(Ids)  BY KeysConstants, FS_Interval DEF Ids
    <2> QED  BY <2>1, FS_Subset
  <1>2. IsFiniteSet(ids \X to)  BY <1>1, FS_Product
  <1>3. f \in Surjection(ids \X to, all)
    <2>1. \A p \in ids \X to : f[p] \in all  BY DEF EncryptMessage
    <2>2. \A c \in all : \E p \in ids \X to : f[p] = c
      <3> TAKE c \in all
      <3>1. PICK i \in ids, t \in to : c = [id |-> i, to |-> t, by |-> by, again |-> again]
        BY DEF EncryptMessage
      <3>2. <<i, t>> \in ids \X to /\ f[<<i, t>>] = c  BY <3>1
      <3> QED  BY <3>2
    <2> QED  BY <2>1, <2>2 DEF Surjection
  <1>4. IsFiniteSet(all)  BY <1>2, <1>3, FS_Surjection
  <1>5. all \subseteq Copies  BY DEF EncryptMessage, Copies
  <1> QED  BY <1>4, <1>5

(* What is added to the log leaves what was there in its place.             *)
LEMMA LogGrows ==
    ASSUME Logged, NEW S \in SUBSET Copies, IsFiniteSet(S), Add(S), cursor' = cursor
    PROVE  Logged' /\ \A n \in 1..Len(log) : log'[n] = log[n]
  <1>1. log \in Seq(SUBSET Copies) /\ IsFiniteSet(Log) /\ Len(log) \in Nat  BY DEF Logged
  <1>2. CASE S = {}
    <2>1. log' = log  BY <1>2 DEF Add
    <2>2. Log' = Log  BY <2>1 DEF Log
    <2> QED  BY <2>1, <2>2 DEF Logged
  <1>3. CASE S # {}
    <2>1. log' = Append(log, S)  BY <1>3 DEF Add
    <2>2. /\ log' \in Seq(SUBSET Copies) /\ Len(log') = Len(log) + 1 /\ log'[Len(log) + 1] = S
          /\ \A n \in 1..Len(log) : log'[n] = log[n]
      BY <1>1, <2>1, AppendProperties
    <2>3. Log' = Log \cup S
      <3>1. \A c \in Log' : c \in Log \cup S
        <4> TAKE c \in Log'
        <4>1. PICK n \in 1..Len(log') : c \in log'[n]  BY DEF Log
        <4>2. n \in 1..Len(log) \/ n = Len(log) + 1  BY <1>1, <2>2
        <4> QED  BY <2>2, <4>1, <4>2 DEF Log
      <3>2. \A c \in Log : c \in Log'
        <4> TAKE c \in Log
        <4>1. PICK n \in 1..Len(log) : c \in log[n]  BY DEF Log
        <4>2. n \in 1..Len(log') /\ c \in log'[n]  BY <1>1, <2>2, <4>1
        <4> QED  BY <4>2 DEF Log
      <3>3. \A c \in S : c \in Log'
        <4>1. Len(log) + 1 \in 1..Len(log')  BY <1>1, <2>2
        <4> QED  BY <2>2, <4>1 DEF Log
      <3> QED  BY <3>1, <3>2, <3>3
    <2>4. IsFiniteSet(Log')  BY <1>1, <2>3, FS_Union
    <2>5. \A d \in Devices : cursor'[d] <= Len(log')  BY <1>1, <2>2 DEF Logged
    <2> QED  BY <2>2, <2>4, <2>5 DEF Logged
  <1> QED  BY <1>2, <1>3

LEMMA RestIsLess ==
    ASSUME NEW a \in Nat, NEW b \in Nat \ {0}
    PROVE  a % b \in Nat /\ a % b < b /\ a % b <= a
  OBVIOUS

(* The keys of a device are the ones it keeps or new ones, and the bundle   *)
(* of its session stays, goes or is those keys.                             *)
LEMMA EnsureKeeps ==
    ASSUME KeysMade, NEW d \in Devices, EnsureDeviceKeys(d),
           directory' = directory \/ RegisterDeviceKey(d),
           \/ bundle' = bundle
           \/ bundle' = [bundle EXCEPT ![d] = 0]
           \/ bundle' = [bundle EXCEPT ![d] = Ensured(d)]
    PROVE  /\ KeysMade' /\ Ensured(d) \in Nat \ {0} /\ <<d, Ensured(d)>> \in DeviceKey
           /\ \A e \in Devices : made[e] <= made'[e]
  <1>1. /\ made[d] \in Nat /\ stored[d] \in Nat /\ stored[d] <= made[d] /\ bundle[d] <= made[d]
        /\ bundle[d] \in Nat
    BY DEF KeysMade
  <1> DEFINE m == IF stored[d] # 0 THEN made[d] ELSE made[d] + 1
  <1>2. /\ m \in Nat /\ made[d] <= m /\ Ensured(d) \in Nat \ {0} /\ Ensured(d) <= m
        /\ stored' = [stored EXCEPT ![d] = Ensured(d)] /\ made' = [made EXCEPT ![d] = m]
    BY <1>1 DEF Ensured, GenerateDevice, EnsureDeviceKeys, StoreDevice, KeysMade
  <1> HIDE DEF m
  <1>3. /\ made' \in [Devices -> Nat] /\ stored' \in [Devices -> Nat] /\ bundle' \in [Devices -> Nat]
    BY <1>2 DEF KeysMade
  <1>4. \A e \in Devices : /\ made'[e] = (IF e = d THEN m ELSE made[e])
                           /\ stored'[e] = (IF e = d THEN Ensured(d) ELSE stored[e])
    BY <1>2 DEF KeysMade
  <1>5. \A e \in Devices : bundle'[e] = bundle[e] \/ bundle'[e] = 0 \/ (e = d /\ bundle'[e] = Ensured(d))
    BY DEF KeysMade
  <1>6. \A e \in Devices : stored'[e] <= made'[e] /\ bundle'[e] <= made'[e] /\ made[e] <= made'[e]
    BY <1>1, <1>2, <1>3, <1>4, <1>5 DEF KeysMade
  <1>7. <<d, Ensured(d)>> \in DeviceKey  BY <1>2 DEF DeviceKey
  <1>8. directory' \subseteq DeviceKey /\ IsFiniteSet(directory')
    <2>1. CASE directory' = directory  BY <2>1 DEF KeysMade
    <2>2. CASE RegisterDeviceKey(d)
      BY <1>7, <2>2, FS_AddElement DEF KeysMade, RegisterDeviceKey
    <2> QED  BY <2>1, <2>2
  <1> QED  BY <1>2, <1>3, <1>6, <1>7, <1>8 DEF KeysMade

(* What has been passed stays passed while no cursor moves.                 *)
LEMMA PassedStays ==
    ASSUME KeysInv, \A n \in 1..Len(log) : log'[n] = log[n],
           cursor' = cursor, refused' = refused,
           \A d \in Devices : have[d] \subseteq have'[d],
           made' \in [Devices -> Nat], \A d \in Devices : made[d] <= made'[d]
    PROVE  Passed'
  <1> SUFFICES ASSUME NEW d \in Devices, made'[d] <= 1, NEW n \in 1..cursor'[d], NEW c \in log'[n],
                      c.to \in {<<d, 1>>, Account}
               PROVE  c.id \in have'[d] \/ refused'[d][c.id] >= MaxRetries
    BY DEF Passed
  <1>1. made[d] \in Nat /\ made'[d] \in Nat /\ made[d] <= made'[d] /\ made[d] <= 1
    BY DEF KeysInv, KeysMade
  <1>2. n \in 1..cursor[d] /\ n \in 1..Len(log)
    BY DEF KeysInv, Logged
  <1>3. c \in log[n]  BY <1>2
  <1>4. c.id \in have[d] \/ refused[d][c.id] >= MaxRetries
    BY <1>1, <1>2, <1>3 DEF KeysInv, Passed
  <1> QED  BY <1>4

(* A session that begins, and one that ends, has counted nothing.           *)
LEMMA ResetKeeps ==
    ASSUME Counted, NEW d \in Devices, Reset(d), refused' = refused
    PROVE  Counted'
  <1>1. /\ attempts' = [attempts EXCEPT ![d] = [i \in Ids |-> 0]] /\ skipped' = [skipped EXCEPT ![d] = {}]
    BY DEF Reset
  <1>2. /\ attempts' \in [Devices -> [Ids -> Nat]] /\ skipped' \in [Devices -> SUBSET Ids]
        /\ \A e \in Devices, i \in Ids : attempts'[e][i] = (IF e = d THEN 0 ELSE attempts[e][i])
        /\ \A e \in Devices : skipped'[e] \subseteq skipped[e]
    <2> DEFINE zero == [i \in Ids |-> 0]
    <2>1. zero \in [Ids -> Nat] /\ \A i \in Ids : zero[i] = 0  OBVIOUS
    <2>2. attempts' = [attempts EXCEPT ![d] = zero]  BY <1>1
    <2> HIDE DEF zero
    <2> QED  BY <1>1, <2>1, <2>2 DEF Counted
  <1>3. \A e \in Devices, i \in Ids : refused[e][i] \in Nat /\ attempts'[e][i] <= refused[e][i]
    BY <1>2 DEF Counted
  <1> QED  BY <1>2, <1>3 DEF Counted

-------------------------------------------------------------------------------
(* The actions.                                                             *)
LEMMA KeysInit == Init => KeysInv
  <1> SUFFICES ASSUME Init PROVE KeysInv
    OBVIOUS
  <1>1. on \subseteq Devices /\ KeysMade  BY FS_EmptySet DEF Init, KeysMade
  <1>2. Requested
    <2>1. /\ sent \in 0..MaxMessages /\ pending \in [Devices -> 0..MaxMessages]
          /\ have \in [Devices -> SUBSET Ids] /\ due \in [Devices -> SUBSET Keys]
      BY KeysConstants DEF Init
    <2>2. \A d \in Devices : request[d] = NoRequest  BY DEF Init
    <2>3. NoRequest \in [by : Nat, to : SUBSET Keys] /\ NoRequest.to = {}  BY DEF NoRequest
    <2>4. request \in [Devices -> [by : Nat, to : SUBSET Keys]]  BY <2>3 DEF Init
    <2>5. IsFiniteSet({})  BY FS_EmptySet
    <2> QED  BY <2>1, <2>2, <2>3, <2>4, <2>5 DEF Requested
  <1>3. Logged
    <2>1. log = <<>> /\ Len(log) = 0 /\ log \in Seq(SUBSET Copies)  BY DEF Init
    <2>2. Log = {}  BY <2>1 DEF Log
    <2> QED  BY <2>1, <2>2, FS_EmptySet DEF Init, Logged
  <1>4. Counted  BY KeysConstants DEF Init, Counted
  <1>5. Passed  BY DEF Init, Passed
  <1> QED  BY <1>1, <1>2, <1>3, <1>4, <1>5 DEF KeysInv

(* The steps after which requests, log and counts are as before.            *)
LEMMA SignInKeeps ==
    ASSUME KeysInv, NEW d \in Devices, SignIn(d) PROVE KeysInv'
  <1>1. /\ on' \subseteq Devices /\ EnsureDeviceKeys(d) /\ RegisterDeviceKey(d) /\ Reset(d)
        /\ bundle' = [bundle EXCEPT ![d] = 0]
        /\ due' = [due EXCEPT ![d] = {}]
        /\ UNCHANGED <<log, sent, cursor, have, pending, request, refused>>
    BY DEF SignIn, PrepareProfile, Reset, outgoing, KeysInv
  <1>2. KeysMade' /\ \A e \in Devices : made[e] <= made'[e]  BY <1>1, EnsureKeeps DEF KeysInv
  <1>3. Requested'  BY <1>1 DEF KeysInv, Requested
  <1>4. Logged'  BY <1>1 DEF KeysInv, Logged, Log
  <1>5. Counted'  BY <1>1, ResetKeeps DEF KeysInv
  <1>6. Passed'  BY <1>1, <1>2, PassedStays DEF KeysMade
  <1> QED  BY <1>1, <1>2, <1>3, <1>4, <1>5, <1>6 DEF KeysInv

LEMMA RestartKeeps ==
    ASSUME KeysInv, NEW d \in Devices, Restart(d) PROVE KeysInv'
  <1>1. /\ on' = on /\ Reset(d) /\ bundle' = [bundle EXCEPT ![d] = 0]
        /\ due' = [due EXCEPT ![d] = {}]
        /\ UNCHANGED <<directory, log, sent, made, stored, cursor, have, pending, request, refused>>
    BY DEF Restart, Reset, outgoing, server, keys
  <1>2. KeysMade' /\ \A e \in Devices : made[e] <= made'[e]  BY <1>1 DEF KeysInv, KeysMade
  <1>3. Requested'  BY <1>1 DEF KeysInv, Requested
  <1>4. Logged'  BY <1>1 DEF KeysInv, Logged, Log
  <1>5. Counted'  BY <1>1, ResetKeeps DEF KeysInv
  <1>6. Passed'  BY <1>1, <1>2, PassedStays DEF KeysMade
  <1> QED  BY <1>1, <1>2, <1>3, <1>4, <1>5, <1>6 DEF KeysInv

LEMMA OwnBundleKeeps ==
    ASSUME KeysInv, NEW d \in Devices, EnsureOwnBundle(d) PROVE KeysInv'
  <1>1. /\ on' \subseteq Devices /\ EnsureDeviceKeys(d) /\ RegisterDeviceKey(d)
        /\ bundle' = bundle \/ bundle' = [bundle EXCEPT ![d] = Ensured(d)]
        /\ UNCHANGED <<log, sent, due, attempts, skipped, cursor, have, pending, request, refused>>
    BY DEF EnsureOwnBundle, PrepareProfile, outgoing, KeysInv
  <1>2. KeysMade' /\ \A e \in Devices : made[e] <= made'[e]  BY <1>1, EnsureKeeps DEF KeysInv
  <1>3. Requested'  BY <1>1 DEF KeysInv, Requested
  <1>4. Logged'  BY <1>1 DEF KeysInv, Logged, Log
  <1>5. Counted'  BY <1>1 DEF KeysInv, Counted
  <1>6. Passed'  BY <1>1, <1>2, PassedStays DEF KeysMade
  <1> QED  BY <1>1, <1>2, <1>3, <1>4, <1>5, <1>6 DEF KeysInv

LEMMA ForgetKeeps ==
    ASSUME KeysInv, NEW d \in Devices, Forget(d) PROVE KeysInv'
  <1>1. /\ on' = on /\ stored' = [stored EXCEPT ![d] = 0]
        /\ UNCHANGED <<directory, log, sent, made, bundle, due, attempts, skipped, cursor, have,
                       pending, request, refused>>
    BY DEF Forget, DeleteDeviceKeys, StoreDevice, server, session, outgoing
  <1>2. KeysMade' /\ \A e \in Devices : made[e] <= made'[e]  BY <1>1 DEF KeysInv, KeysMade
  <1>3. Requested'  BY <1>1 DEF KeysInv, Requested
  <1>4. Logged'  BY <1>1 DEF KeysInv, Logged, Log
  <1>5. Counted'  BY <1>1 DEF KeysInv, Counted
  <1>6. Passed'  BY <1>1, <1>2, PassedStays DEF KeysMade
  <1> QED  BY <1>1, <1>2, <1>3, <1>4, <1>5, <1>6 DEF KeysInv

(* The steps of a message that is sent.                                     *)
LEMMA NewMessageKeeps ==
    ASSUME KeysInv, NEW d \in Devices, NewMessage(d) PROVE KeysInv'
  <1>1. /\ on' = on /\ pending[d] = 0 /\ sent < MaxMessages /\ sent' = sent + 1
        /\ pending' = [pending EXCEPT ![d] = sent']
        /\ have' = [have EXCEPT ![d] = @ \cup {sent'}]
        /\ UNCHANGED <<directory, log, made, stored, bundle, due, attempts, skipped, cursor, request,
                       refused>>
    BY DEF NewMessage, keys, session
  <1>2. KeysMade' /\ \A e \in Devices : made[e] <= made'[e]  BY <1>1 DEF KeysInv, KeysMade
  <1>3. Requested'
    <2>1. sent' \in 1..MaxMessages /\ sent' \in Ids
        BY <1>1, KeysConstants DEF KeysInv, Requested, Ids
    <2>2. /\ pending' \in [Devices -> 0..MaxMessages] /\ have' \in [Devices -> SUBSET Ids]
          /\ \A e \in Devices : pending'[e] = IF e = d THEN sent' ELSE pending[e]
      BY <1>1, <2>1 DEF KeysInv, Requested
    <2>3. \A e \in Devices : pending[e] # 0 => pending'[e] # 0  BY <1>1, <2>1, <2>2
    <2> QED  BY <1>1, <2>1, <2>2, <2>3 DEF KeysInv, Requested
  <1>4. Logged'  BY <1>1 DEF KeysInv, Logged, Log
  <1>5. Counted'  BY <1>1 DEF KeysInv, Counted
  <1>6. Passed'
    <2>1. \A e \in Devices : have[e] \subseteq have'[e]  BY <1>1 DEF KeysInv, Requested
    <2> QED  BY <1>1, <1>2, <2>1, PassedStays DEF KeysMade
  <1> QED  BY <1>1, <1>2, <1>3, <1>4, <1>5, <1>6 DEF KeysInv

LEMMA PrepareSendKeeps ==
    ASSUME KeysInv, NEW d \in Devices, PrepareSend(d) PROVE KeysInv'
  <1>1. /\ on' = on /\ pending[d] # 0 /\ EnsureDeviceKeys(d) /\ RegisterDeviceKey(d)
        /\ UNCHANGED <<log, sent, bundle, due, attempts, skipped, cursor, have, pending, refused>>
    BY DEF PrepareSend, PrepareProfile, session
  <1>2. /\ KeysMade' /\ \A e \in Devices : made[e] <= made'[e]
        /\ Ensured(d) \in Nat \ {0} /\ <<d, Ensured(d)>> \in DeviceKey
    BY <1>1, EnsureKeeps DEF KeysInv
  <1>3. PICK fails \in BOOLEAN, more \in {{}, {Account}} :
          request' = [request EXCEPT ![d] =
                         [by |-> Ensured(d), to |-> AllDeviceKeys(d, fails) \cup more]]
    BY DEF PrepareSend
  <1> DEFINE to == AllDeviceKeys(d, fails) \cup more
  <1>4. to \in SUBSET Keys /\ IsFiniteSet(to)
    <2>1. more \subseteq Keys /\ IsFiniteSet(more)
      <3>1. IsFiniteSet({}) /\ IsFiniteSet({Account})  BY FS_EmptySet, FS_Singleton
      <3>2. more = {} \/ more = {Account}  OBVIOUS
      <3> QED  BY <3>1, <3>2 DEF Keys
    <2>2. AllDeviceKeys(d, fails) \subseteq Keys /\ IsFiniteSet(AllDeviceKeys(d, fails))
      BY <1>2, FS_Singleton DEF AllDeviceKeys, Keys, KeysMade
    <2> QED  BY <2>1, <2>2, FS_Union
  <1> HIDE DEF to
  <1>5. Requested'
    <2>1. request' = [request EXCEPT ![d] = [by |-> Ensured(d), to |-> to]]  BY <1>3 DEF to
    <2>2. request' \in [Devices -> [by : Nat, to : SUBSET Keys]]
      BY <1>2, <1>4, <2>1 DEF KeysInv, Requested
    <2>3. \A e \in Devices : request'[e] = IF e = d THEN [by |-> Ensured(d), to |-> to] ELSE request[e]
      BY <2>1 DEF KeysInv, Requested
    <2>4. \A e \in Devices : /\ IsFiniteSet(request'[e].to)
                             /\ request'[e] # NoRequest => pending[e] # 0 /\ request'[e].by # 0
      BY <1>1, <1>2, <1>4, <2>3 DEF KeysInv, Requested
    <2> QED  BY <1>1, <2>2, <2>4 DEF KeysInv, Requested
  <1>6. Logged'  BY <1>1 DEF KeysInv, Logged, Log
  <1>7. Counted'  BY <1>1 DEF KeysInv, Counted
  <1>8. Passed'  BY <1>1, <1>2, PassedStays DEF KeysMade
  <1> QED  BY <1>1, <1>2, <1>5, <1>6, <1>7, <1>8 DEF KeysInv

LEMMA PostKeeps ==
    ASSUME KeysInv, NEW d \in Devices, Post(d) PROVE KeysInv'
  <1>1. /\ on' = on /\ request[d] # NoRequest
        /\ Add(EncryptMessage({pending[d]}, request[d].to, <<d, request[d].by>>, FALSE))
        /\ pending' = [pending EXCEPT ![d] = 0] /\ request' = [request EXCEPT ![d] = NoRequest]
        /\ UNCHANGED <<directory, sent, made, stored, bundle, due, attempts, skipped, cursor, have,
                       refused>>
    BY DEF Post, keys, session
  <1>2. KeysMade' /\ \A e \in Devices : made[e] <= made'[e]  BY <1>1 DEF KeysInv, KeysMade
  <1>3. Requested'
    <2>1. /\ pending' \in [Devices -> 0..MaxMessages]
          /\ request' \in [Devices -> [by : Nat, to : SUBSET Keys]]
      BY <1>1, KeysConstants DEF KeysInv, Requested, NoRequest
    <2>2. \A e \in Devices : /\ request'[e] = (IF e = d THEN NoRequest ELSE request[e])
                             /\ pending'[e] = (IF e = d THEN 0 ELSE pending[e])
      BY <1>1 DEF KeysInv, Requested
    <2>3. IsFiniteSet(NoRequest.to)  BY FS_EmptySet DEF NoRequest
    <2>4. \A e \in Devices : /\ IsFiniteSet(request'[e].to)
                             /\ request'[e] # NoRequest => pending'[e] # 0 /\ request'[e].by # 0
      BY <2>2, <2>3 DEF KeysInv, Requested
    <2> QED  BY <1>1, <2>1, <2>4 DEF KeysInv, Requested
  <1>4. /\ {pending[d]} \in SUBSET Ids /\ request[d].to \in SUBSET Keys /\ IsFiniteSet(request[d].to)
        /\ <<d, request[d].by>> \in Signers
    BY <1>1, KeysConstants DEF KeysInv, Requested, Ids, Signers, DeviceKey
  <1>5. Logged' /\ \A n \in 1..Len(log) : log'[n] = log[n]
    BY <1>1, <1>4, EncryptsCopies, LogGrows DEF KeysInv
  <1>6. Counted'  BY <1>1 DEF KeysInv, Counted
  <1>7. Passed'  BY <1>1, <1>2, <1>5, PassedStays DEF KeysMade
  <1> QED  BY <1>1, <1>2, <1>3, <1>5, <1>6, <1>7 DEF KeysInv

LEMMA PostFailsKeeps ==
    ASSUME KeysInv, NEW d \in Devices, PostFails(d) PROVE KeysInv'
  <1>1. /\ on' = on /\ request' = [request EXCEPT ![d] = NoRequest]
        /\ UNCHANGED <<directory, log, sent, made, stored, bundle, due, attempts, skipped, cursor, have,
                       pending, refused>>
    BY DEF PostFails, server, keys, session
  <1>2. KeysMade' /\ \A e \in Devices : made[e] <= made'[e]  BY <1>1 DEF KeysInv, KeysMade
  <1>3. Requested'
    <2>1. request' \in [Devices -> [by : Nat, to : SUBSET Keys]]
      BY <1>1 DEF KeysInv, Requested, NoRequest
    <2>2. \A e \in Devices : request'[e] = (IF e = d THEN NoRequest ELSE request[e])
      BY <1>1 DEF KeysInv, Requested
    <2>3. IsFiniteSet(NoRequest.to)  BY FS_EmptySet DEF NoRequest
    <2>4. \A e \in Devices : /\ IsFiniteSet(request'[e].to)
                             /\ request'[e] # NoRequest => pending[e] # 0 /\ request'[e].by # 0
      BY <2>2, <2>3 DEF KeysInv, Requested
    <2> QED  BY <1>1, <2>1, <2>4 DEF KeysInv, Requested
  <1>4. Logged'  BY <1>1 DEF KeysInv, Logged, Log
  <1>5. Counted'  BY <1>1 DEF KeysInv, Counted
  <1>6. Passed'  BY <1>1, <1>2, PassedStays DEF KeysMade
  <1> QED  BY <1>1, <1>2, <1>3, <1>4, <1>5, <1>6 DEF KeysInv

LEMMA PeerSendsKeeps == KeysInv /\ PeerSends => KeysInv'
  <1> SUFFICES ASSUME KeysInv, PeerSends PROVE KeysInv'
    OBVIOUS
  <1>1. /\ on' = on /\ sent < MaxMessages /\ sent' = sent + 1
        /\ Add(EncryptMessage({sent'}, directory \cup {Account}, Peer, FALSE))
        /\ UNCHANGED <<directory, made, stored, bundle, due, attempts, skipped, cursor, have,
                       pending, request, refused>>
    BY DEF PeerSends, keys, session, outgoing
  <1>2. KeysMade' /\ \A e \in Devices : made[e] <= made'[e]  BY <1>1 DEF KeysInv, KeysMade
  <1>3. sent' \in 1..MaxMessages  BY <1>1, KeysConstants DEF KeysInv, Requested
  <1>4. Requested'  BY <1>1, <1>3 DEF KeysInv, Requested
  <1>5. /\ {sent'} \in SUBSET Ids /\ directory \cup {Account} \in SUBSET Keys
        /\ IsFiniteSet(directory \cup {Account}) /\ Peer \in Signers
    BY <1>3, FS_AddElement DEF KeysInv, KeysMade, Ids, Keys, Signers
  <1>6. Logged' /\ \A n \in 1..Len(log) : log'[n] = log[n]
    BY <1>1, <1>5, EncryptsCopies, LogGrows DEF KeysInv
  <1>7. Counted'  BY <1>1 DEF KeysInv, Counted
  <1>8. Passed'  BY <1>1, <1>2, <1>6, PassedStays DEF KeysMade
  <1> QED  BY <1>1, <1>2, <1>4, <1>6, <1>7, <1>8 DEF KeysInv

LEMMA BackfillKeeps ==
    ASSUME KeysInv, NEW d \in Devices, NEW t, Backfill(d, t) PROVE KeysInv'
  <1>1. /\ on' = on /\ t \in due[d] /\ due' = [due EXCEPT ![d] = @ \ {t}]
        /\ UNCHANGED <<directory, sent, bundle, attempts, skipped, cursor, have, pending, request, refused>>
    BY DEF Backfill, outgoing
  <1>2. Requested'  BY <1>1 DEF KeysInv, Requested
  <1>3. Counted'  BY <1>1 DEF KeysInv, Counted
  <1>4. CASE UNCHANGED <<made, stored, log>>
    <2>1. KeysMade' /\ \A e \in Devices : made[e] <= made'[e]  BY <1>1, <1>4 DEF KeysInv, KeysMade
    <2>2. Logged'  BY <1>1, <1>4 DEF KeysInv, Logged, Log
    <2>3. Passed'  BY <1>1, <1>4, <2>1, PassedStays DEF KeysMade
    <2> QED  BY <1>1, <1>2, <1>3, <2>1, <2>2, <2>3 DEF KeysInv
  <1>5. CASE EnsureDeviceKeys(d) /\ (log' = log \/ AddDeviceMessageCopies(d, t, ToCopy(d, t)))
    <2>1. /\ KeysMade' /\ \A e \in Devices : made[e] <= made'[e]
          /\ Ensured(d) \in Nat \ {0} /\ <<d, Ensured(d)>> \in DeviceKey
      BY <1>1, <1>5, EnsureKeeps DEF KeysInv
    <2>2. Logged' /\ \A n \in 1..Len(log) : log'[n] = log[n]
      <3>1. CASE log' = log  BY <1>1, <3>1 DEF KeysInv, Logged, Log
      <3>2. CASE AddDeviceMessageCopies(d, t, ToCopy(d, t))
        <4>1. {t} \in SUBSET Keys /\ IsFiniteSet({t}) /\ <<d, Ensured(d)>> \in Signers /\ TRUE \in BOOLEAN
          BY <1>1, <2>1, FS_Singleton DEF KeysInv, Requested, Signers
        <4>2. PICK ids \in SUBSET Ids : Add(EncryptMessage(ids, {t}, <<d, Ensured(d)>>, TRUE))
          <5> DEFINE ids == {i \in ToCopy(d, t) : /\ \E c \in Log : c.id = i
                                                  /\ \A c \in Log : ~(c.id = i /\ c.to = t /\ c.again)}
          <5>1. ToCopy(d, t) \subseteq Ids  BY DEF ToCopy, History, KeysInv, Requested
          <5>2. ids \in SUBSET Ids  BY <5>1
          <5>3. Add(EncryptMessage(ids, {t}, <<d, Ensured(d)>>, TRUE))
            BY <3>2 DEF AddDeviceMessageCopies
          <5> HIDE DEF ids
          <5> QED  BY <5>2, <5>3
        <4>3. /\ EncryptMessage(ids, {t}, <<d, Ensured(d)>>, TRUE) \in SUBSET Copies
              /\ IsFiniteSet(EncryptMessage(ids, {t}, <<d, Ensured(d)>>, TRUE))
          BY <4>1, EncryptsCopies
        <4> QED  BY <1>1, <4>2, <4>3, LogGrows DEF KeysInv
      <3> QED  BY <1>5, <3>1, <3>2
    <2>3. Passed'  BY <1>1, <2>1, <2>2, PassedStays DEF KeysMade
    <2> QED  BY <1>1, <1>2, <1>3, <2>1, <2>2, <2>3 DEF KeysInv
  <1> QED  BY <1>4, <1>5 DEF Backfill

(* A sync.  What is read is there, what is not is counted, and the cursor   *)
(* moves only when nothing is to be tried again.                            *)
LEMMA SyncKeeps ==
    ASSUME KeysInv, NEW d \in Devices, NEW fails, NEW late \in BOOLEAN, Sync(d, fails, late)
    PROVE  KeysInv'
  <1> DEFINE window == Window(d)
             Good(i) == \E c \in window : c.id = i /\ DecryptRemoteMessage(d, known'[d], c)
             Unread(i) == {c \in window : c.id = i /\ ~DecryptRemoteMessage(d, known'[d], c)}
             Bad(i) == Cardinality(Unread(i))
             hits == [i \in Ids |-> Hits(d, i, Good(i), Bad(i), late)]
  <1>1. /\ bundle[d] # 0
        /\ have' = [have EXCEPT ![d] = @ \cup {i \in Ids : Good(i)}]
        /\ skipped' = [skipped EXCEPT ![d] = @ \cup {i \in Ids : Bad(i) > 0 /\ Skips(hits[i])}]
        /\ attempts' = [attempts EXCEPT ![d] = [i \in Ids |->
               IF Bad(i) = 0 /\ ~Good(i) THEN @[i] ELSE Left(hits[i], Good(i), late)]]
        /\ refused' = [refused EXCEPT ![d] = [i \in Ids |-> Capped(@[i] + Bad(i))]]
        /\ IF \E i \in Ids : Retries(hits[i], Bad(i)) THEN UNCHANGED cursor
           ELSE cursor' = [cursor EXCEPT ![d] = Len(log)]
    BY DEF Sync
  <1>2. /\ due' = [due EXCEPT ![d] = {Account} \cup (directory \ {<<d, bundle[d]>>})]
        /\ EnsureDeviceKeys(d) \/ UNCHANGED <<made, stored>>
        /\ UNCHANGED <<directory, log, sent, on, bundle, pending, request>>
    BY DEF Sync, server, outgoing
  <1>3. /\ attempts \in [Devices -> [Ids -> Nat]] /\ refused \in [Devices -> [Ids -> Nat]]
        /\ skipped \in [Devices -> SUBSET Ids] /\ have \in [Devices -> SUBSET Ids]
        /\ cursor \in [Devices -> Nat] /\ Len(log) \in Nat /\ MaxRetries \in Nat \ {0, 1}
        /\ log \in Seq(SUBSET Copies)
    BY KeysConstants DEF KeysInv, Counted, Requested, Logged
  <1>4. \A i \in Ids : Bad(i) \in Nat /\ (Bad(i) = 0 <=> Unread(i) = {})
    <2> TAKE i \in Ids
    <2>1. \A c \in Unread(i) : c \in Log
      <3> TAKE c \in Unread(i)
      <3>1. PICK n \in cursor[d] + 1..Len(log) : c \in log[n]  BY DEF Window
      <3>2. n \in 1..Len(log)  BY <1>3
      <3> QED  BY <3>1, <3>2 DEF Log
    <2>2. Unread(i) \in SUBSET Log  BY <2>1
    <2> HIDE DEF Unread
    <2>3. IsFiniteSet(Unread(i))  BY <2>2, FS_Subset DEF KeysInv, Logged
    <2> QED  BY <2>3, FS_CardinalityType, FS_EmptySet
  <1>5. \A i \in Ids : hits[i] = (IF Good(i) /\ ~late THEN 0 ELSE attempts[d][i]) + Bad(i)
    BY DEF Hits
  <1>6. \A c \in window : /\ c.id \in Ids
                          /\ Good(c.id) \/ Unread(c.id) # {}
    <2> TAKE c \in window
    <2>1. PICK n \in cursor[d] + 1..Len(log) : c \in log[n]  BY DEF Window
    <2>2. log[n] \subseteq Copies  BY <1>3, <2>1
    <2>3. c.id \in Ids  BY <2>1, <2>2 DEF Copies
    <2>4. Good(c.id) \/ c \in Unread(c.id)  OBVIOUS
    <2> QED  BY <2>3, <2>4
  <1>7. \A n \in cursor[d] + 1..Len(log) : \A c \in log[n] :
            c.to \in OwnKeys(d) => c \in window \/ c.id \in skipped[d]
    BY DEF Window
  <1> HIDE DEF window, Good, Unread, Bad, hits
  <1>11. \A i \in Ids : hits[i] \in Nat /\ hits[i] <= attempts[d][i] + Bad(i)
    <2> TAKE i \in Ids
    <2>1. attempts[d][i] \in Nat /\ Bad(i) \in Nat  BY <1>3, <1>4
    <2>2. hits[i] = 0 + Bad(i) \/ hits[i] = attempts[d][i] + Bad(i)  BY <1>5
    <2> QED  BY <2>1, <2>2
  <1>8. /\ \A i \in Ids : refused'[d][i] = Capped(refused[d][i] + Bad(i))
        /\ \A e \in Devices \ {d} : refused'[e] = refused[e]
        /\ refused' \in [Devices -> [Ids -> Nat]]
    <2> DEFINE more == [i \in Ids |-> Capped(refused[d][i] + Bad(i))]
    <2>1. more \in [Ids -> Nat]  BY <1>3, <1>4 DEF Capped
    <2>2. refused' = [refused EXCEPT ![d] = more]  BY <1>1
    <2>3. \A i \in Ids : more[i] = Capped(refused[d][i] + Bad(i))  OBVIOUS
    <2> HIDE DEF more
    <2> QED  BY <1>3, <2>1, <2>2, <2>3
  <1>9. \A i \in Ids : /\ refused[d][i] \in Nat /\ refused'[d][i] \in Nat
                       /\ refused[d][i] <= refused'[d][i] /\ refused'[d][i] <= MaxRetries
                       /\ \/ refused'[d][i] = refused[d][i] + Bad(i)
                          \/ refused'[d][i] = MaxRetries
    <2> TAKE i \in Ids
    <2>1. refused[d][i] \in Nat /\ refused[d][i] <= MaxRetries /\ Bad(i) \in Nat
      BY <1>3, <1>4 DEF KeysInv, Counted
    <2> QED  BY <1>3, <1>8, <2>1 DEF Capped
  <1>10. /\ attempts' \in [Devices -> [Ids -> Nat]]
         /\ \A e \in Devices \ {d} : attempts'[e] = attempts[e]
         /\ \A i \in Ids : attempts'[d][i] <= refused'[d][i]
    <2> DEFINE Now(i) == IF Bad(i) = 0 /\ ~Good(i) THEN attempts[d][i] ELSE Left(hits[i], Good(i), late)
               now == [i \in Ids |-> Now(i)]
    <2>1. \A i \in Ids : Now(i) \in Nat /\ Now(i) <= refused'[d][i]
      <3> TAKE i \in Ids
      <3>1. /\ attempts[d][i] \in Nat /\ refused[d][i] \in Nat /\ attempts[d][i] <= refused[d][i]
            /\ Bad(i) \in Nat /\ hits[i] \in Nat /\ hits[i] <= attempts[d][i] + Bad(i)
        BY <1>3, <1>4, <1>11 DEF KeysInv, Counted
      <3>2. CASE Bad(i) = 0 /\ ~Good(i)  BY <1>9, <3>1, <3>2
      <3>3. CASE ~(Bad(i) = 0 /\ ~Good(i))
        <4>1. /\ Left(hits[i], Good(i), late) \in Nat
              /\ Left(hits[i], Good(i), late) <= hits[i]
              /\ Left(hits[i], Good(i), late) < MaxRetries
          <5>1. /\ hits[i] % MaxRetries \in Nat /\ hits[i] % MaxRetries < MaxRetries
                /\ hits[i] % MaxRetries <= hits[i]
            BY <1>3, <3>1, RestIsLess
          <5>2. Left(hits[i], Good(i), late) = 0 \/ Left(hits[i], Good(i), late) = hits[i] % MaxRetries
            BY DEF Left
          <5> QED  BY <1>3, <3>1, <5>1, <5>2
        <4>2. Now(i) = Left(hits[i], Good(i), late)  BY <3>3
        <4>3. refused'[d][i] = refused[d][i] + Bad(i) \/ refused'[d][i] = MaxRetries  BY <1>9
        <4> HIDE DEF Now
        <4> QED  BY <1>3, <3>1, <4>1, <4>2, <4>3
      <3> QED  BY <3>2, <3>3
    <2>2. attempts' = [attempts EXCEPT ![d] = now]  BY <1>1
    <2>3. now \in [Ids -> Nat] /\ \A i \in Ids : now[i] = Now(i)  BY <2>1
    <2> HIDE DEF now, Now
    <2> QED  BY <1>3, <2>1, <2>2, <2>3
  <1>12. \A i \in Ids : Bad(i) > 0 /\ Skips(hits[i]) => refused'[d][i] >= MaxRetries
    <2> TAKE i \in Ids
    <2>1. attempts[d][i] \in Nat /\ attempts[d][i] <= refused[d][i]
      BY <1>3 DEF KeysInv, Counted
    <2>2. /\ hits[i] \in Nat /\ hits[i] <= attempts[d][i] + Bad(i) /\ Bad(i) \in Nat
          /\ refused[d][i] \in Nat
          /\ refused'[d][i] = refused[d][i] + Bad(i) \/ refused'[d][i] = MaxRetries
      BY <1>4, <1>9, <1>11
    <2>3. Skips(hits[i]) => hits[i] >= MaxRetries  BY DEF Skips
    <2> QED  BY <1>3, <2>1, <2>2, <2>3
  <1>13. Counted'
    <2>1. /\ skipped' \in [Devices -> SUBSET Ids]
          /\ \A e \in Devices \ {d} : skipped'[e] = skipped[e]
          /\ skipped'[d] = skipped[d] \cup {i \in Ids : Bad(i) > 0 /\ Skips(hits[i])}
      BY <1>1, <1>3
    <2>2. \A e \in Devices : \A i \in skipped'[e] : refused'[e][i] >= MaxRetries
      <3> TAKE e \in Devices
      <3>1. CASE e # d  BY <1>8, <2>1, <3>1 DEF KeysInv, Counted
      <3>2. CASE e = d
        <4>1. \A i \in skipped[d] : i \in Ids /\ refused[d][i] >= MaxRetries
          BY <1>3 DEF KeysInv, Counted
        <4>2. \A i \in skipped[d] : refused'[d][i] >= MaxRetries
          BY <1>3, <1>9, <4>1
        <4> QED  BY <1>12, <2>1, <3>2, <4>2
      <3> QED  BY <3>1, <3>2
    <2>3. \A e \in Devices, i \in Ids : attempts'[e][i] <= refused'[e][i] /\ refused'[e][i] <= MaxRetries
      BY <1>8, <1>9, <1>10 DEF KeysInv, Counted
    <2> QED  BY <1>8, <1>10, <2>1, <2>2, <2>3 DEF Counted
  <1>14. KeysMade' /\ \A e \in Devices : made[e] <= made'[e]
    <2>1. CASE EnsureDeviceKeys(d)  BY <1>2, <2>1, EnsureKeeps DEF KeysInv
    <2>2. CASE UNCHANGED <<made, stored>>  BY <1>2, <2>2 DEF KeysInv, KeysMade
    <2> QED  BY <1>2, <2>1, <2>2
  <1>15. Requested'
    <2>1. have' \in [Devices -> SUBSET Ids]  BY <1>1, <1>3
    <2>2. due' \in [Devices -> SUBSET Keys]
      BY <1>2 DEF KeysInv, KeysMade, Requested, Keys
    <2> QED  BY <1>2, <2>1, <2>2 DEF KeysInv, Requested
  <1>16. /\ cursor' \in [Devices -> Nat]
         /\ \A e \in Devices \ {d} : cursor'[e] = cursor[e]
         /\ \/ cursor'[d] = cursor[d]
            \/ cursor'[d] = Len(log) /\ \A i \in Ids : ~Retries(hits[i], Bad(i))
    <2>1. CASE \E i \in Ids : Retries(hits[i], Bad(i))
      <3>1. cursor' = cursor  BY <1>1, <2>1
      <3> QED  BY <1>3, <3>1
    <2>2. CASE ~\E i \in Ids : Retries(hits[i], Bad(i))
      <3>1. cursor' = [cursor EXCEPT ![d] = Len(log)]  BY <1>1, <2>2
      <3> QED  BY <1>3, <2>2, <3>1
    <2> QED  BY <2>1, <2>2
  <1>17. Logged'
    <2>1. \A e \in Devices : cursor'[e] <= Len(log')  BY <1>2, <1>16 DEF KeysInv, Logged
    <2> QED  BY <1>2, <1>16, <2>1 DEF KeysInv, Logged, Log
  <1>18. Passed'
    <2> SUFFICES ASSUME NEW e \in Devices, made'[e] <= 1, NEW n \in 1..cursor'[e], NEW c \in log'[n],
                        c.to \in {<<e, 1>>, Account}
                 PROVE  c.id \in have'[e] \/ refused'[e][c.id] >= MaxRetries
      BY DEF Passed
    <2>1. /\ made[e] \in Nat /\ made[e] <= 1 /\ bundle[e] \in Nat /\ bundle[e] <= made[e]
          /\ log' = log
      BY <1>2, <1>14 DEF KeysInv, KeysMade
    <2>2. CASE e # d
      BY <1>1, <1>3, <1>8, <1>16, <2>1, <2>2 DEF KeysInv, Passed
    <2>3. CASE e = d
      <3>1. have'[d] = have[d] \cup {i \in Ids : Good(i)}  BY <1>1, <1>3
      <3>2. n \in 1..Len(log) /\ c \in log[n]
        BY <1>17, <1>3, <2>1 DEF Logged
      <3>3. c.id \in Ids
        <4>1. log[n] \subseteq Copies  BY <1>3, <3>2
        <4> QED  BY <3>2, <4>1 DEF Copies
      <3>4. CASE n <= cursor[d]
        <4>1. n \in 1..cursor[d]  BY <1>3, <3>2, <3>4
        <4>2. c.id \in have[d] \/ refused[d][c.id] >= MaxRetries
          BY <2>1, <2>3, <3>2, <4>1 DEF KeysInv, Passed
        <4> QED  BY <1>3, <1>9, <2>3, <3>1, <3>3, <4>2
      <3>5. CASE ~(n <= cursor[d])
        <4>1. n \in cursor[d] + 1..Len(log) /\ \A i \in Ids : ~Retries(hits[i], Bad(i))
          BY <1>3, <1>16, <2>3, <3>2, <3>5
        <4>2. bundle[d] = 1  BY <1>1, <2>1, <2>3
        <4>3. c.to \in OwnKeys(d)  BY <2>3, <4>2 DEF OwnKeys
        <4>4. c \in window \/ c.id \in skipped[d]  BY <1>7, <3>2, <4>1, <4>3
        <4>5. CASE c.id \in skipped[d]
          <5>1. refused[d][c.id] >= MaxRetries  BY <4>5 DEF KeysInv, Counted
          <5> QED  BY <1>3, <1>9, <2>3, <3>3, <5>1
        <4>6. CASE c \in window
          <5>1. CASE Good(c.id)  BY <2>3, <3>1, <3>3, <5>1
          <5>2. CASE ~Good(c.id)
            <6>1. Bad(c.id) \in Nat /\ Bad(c.id) > 0  BY <1>4, <1>6, <3>3, <4>6, <5>2
            <6>2. Skips(hits[c.id])  BY <3>3, <4>1, <6>1 DEF Retries
            <6> QED  BY <1>12, <2>3, <3>3, <6>1, <6>2
          <5> QED  BY <5>1, <5>2
        <4> QED  BY <4>4, <4>5, <4>6
      <3> QED  BY <3>4, <3>5
    <2> QED  BY <2>2, <2>3
  <1>19. on' \subseteq Devices  BY <1>2 DEF KeysInv
  <1> QED  BY <1>13, <1>14, <1>15, <1>17, <1>18, <1>19 DEF KeysInv

(* Nothing but who polls has changed.                                        *)
Still == UNCHANGED <<directory, log, sent, made, stored, on, bundle, attempts, skipped, due, cursor,
                     have, pending, request, refused>>
LEMMA StillKeeps == KeysInv /\ Still => KeysInv'
  <1> SUFFICES ASSUME KeysInv, Still PROVE KeysInv'
    OBVIOUS
  <1>1. UNCHANGED <<directory, log, sent, made, stored, on, bundle, attempts, skipped, due, cursor,
                    have, pending, request, refused>>
    BY DEF Still
  <1>2. KeysMade' /\ \A e \in Devices : made[e] <= made'[e]  BY <1>1 DEF KeysInv, KeysMade
  <1>3. Requested'  BY <1>1 DEF KeysInv, Requested
  <1>4. Logged'  BY <1>1 DEF KeysInv, Logged, Log
  <1>5. Counted'  BY <1>1 DEF KeysInv, Counted
  <1>6. Passed'  BY <1>1, <1>2, PassedStays DEF KeysMade
  <1>7. on' \subseteq Devices  BY <1>1 DEF KeysInv
  <1> QED  BY <1>2, <1>3, <1>4, <1>5, <1>6, <1>7 DEF KeysInv

LEMMA KeysStep == KeysInv /\ [Next]_vars => KeysInv'
  <1> SUFFICES ASSUME KeysInv, [Next]_vars PROVE KeysInv'
    OBVIOUS
  <1>1. CASE PeerSends  BY <1>1, PeerSendsKeeps
  <1>2. ASSUME NEW d \in Devices, Desktop(d) \/ Mobile(d) PROVE KeysInv'
    <2>1. \/ SignIn(d) \/ Restart(d) \/ EnsureOwnBundle(d) \/ Forget(d) \/ SyncStep(d)
          \/ NewMessage(d) \/ PostFails(d) \/ PrepareSend(d) \/ Post(d) \/ SocketStep(d)
          \/ \E t : Backfill(d, t)
      BY <1>2 DEF Desktop, Mobile, MobileSignIn, MobileEnsureOwnBundle, MobileSync, MobileSocket, MobileBackfill,
                  MobileSend, MobileEncryptMessage, MobilePost, SendStep, BackfillHistoryToAccount,
                  BackfillHistoryToDevices
    <2>2. CASE SyncStep(d)
      <3>1. PICK fails \in SUBSET {"own", "peer"}, late \in BOOLEAN : Sync(d, fails, late)
        BY <2>2 DEF SyncStep
      <3> QED  BY <3>1, SyncKeeps
    <2>3. CASE SocketStep(d)
      <3>1. Still  BY <2>3 DEF Still, SocketStep, server, keys, session, outgoing, counters
      <3> QED  BY <3>1, StillKeeps
    <2> QED
      BY <2>1, <2>2, <2>3, SignInKeeps, RestartKeeps, OwnBundleKeeps, ForgetKeeps, NewMessageKeeps,
         PostFailsKeeps, PrepareSendKeeps, PostKeeps, BackfillKeeps
  <1>3. CASE UNCHANGED vars
    <2>1. Still  BY <1>3 DEF Still, vars, server, keys, session, outgoing
    <2> QED  BY <2>1, StillKeeps
  <1> QED  BY <1>1, <1>2, <1>3 DEF Next

-------------------------------------------------------------------------------
(* The keys, requests, log and counts have their types, keys are numbered   *)
(* as they are made, and no session has counted more failed tries of a      *)
(* message than there were.                                                 *)
THEOREM KeysAreCounted == Spec => [](KeysMade /\ Requested /\ Logged /\ Counted)
  <1>1. KeysInv => KeysMade /\ Requested /\ Logged /\ Counted  BY DEF KeysInv
  <1> QED  BY <1>1, KeysInit, KeysStep, PTL DEF Spec

(* PassedOnlyAfterRetries (App.tsx): the cursor moves past a copy for a key *)
(* of the session only when its message was read or MaxRetries copies of it *)
(* were not, whatever other messages and other keys' copies failed, and     *)
(* however often the client starts again.                                   *)
THEOREM PassedAfterRetries == Spec => []PassedOnlyAfterRetries
  <1>1. KeysInv => PassedOnlyAfterRetries
    <2> SUFFICES ASSUME KeysInv, NEW d \in on, made[d] = 1, NEW n \in 1..cursor[d], NEW c \in log[n],
                        c.to \in {<<d, stored[d]>>, Account}
                 PROVE  c.id \in have[d] \/ refused[d][c.id] >= MaxRetries
      BY DEF PassedOnlyAfterRetries
    <2>1. d \in Devices /\ stored[d] \in Nat /\ stored[d] <= 1  BY DEF KeysInv, KeysMade
    <2>2. c.to \in Keys
      <3>1. n \in 1..Len(log) /\ log \in Seq(SUBSET Copies)  BY <2>1 DEF KeysInv, Logged
      <3>2. log[n] \subseteq Copies  BY <3>1
      <3> QED  BY <3>2 DEF Copies
    <2>3. c.to \in {<<d, 1>>, Account}
      <3>1. CASE stored[d] = 0
        <4>1. <<d, 0>> \notin DeviceKey  BY DEF DeviceKey
        <4> QED  BY <2>2, <3>1, <4>1 DEF Keys
      <3>2. CASE stored[d] = 1  BY <3>2
      <3> QED  BY <2>1, <3>1, <3>2
    <2> QED  BY <2>1, <2>3 DEF KeysInv, Passed
  <1> QED  BY <1>1, KeysInit, KeysStep, PTL DEF Spec
===============================================================================
