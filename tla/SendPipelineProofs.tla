-------------------------- MODULE SendPipelineProofs --------------------------
(***************************************************************************)
(* Proofs about SendPipeline, for any number of attempts, keys, batches    *)
(* and urls.                                                               *)
(***************************************************************************)
EXTENDS SendPipeline, TLAPS

USE SendAssumption

(* How far an attempt is: past its checks, or past its stores. *)
PastChecks == {"storing", "delivering", "cleared", "waiting", "accepted"}
PastStores == {"delivering", "cleared", "waiting", "accepted"}
AtPeer == {"delivering", "cleared", "waiting"}

(* The copy at i has been checked: its key is not still without the        *)
(* registration it lacked when the attempt began, nor is the device.       *)
Passed(h, i) ==
    Device \notin revoked[h] /\ (Here(batch[h][i]) => batch[h][i] \notin revoked[h])

(* It has its row in the sender's account. *)
Kept(h, i) == IF i = 1 THEN Primary ELSE Copied(batch[h][i])
KeptAll(h) == \A i \in 1..Len(batch[h]) : Kept(h, i)

(* The peer has it, if it is meant for the peer. *)
Arrived(h, i) == batch[h][i] \in PeerKeys => Delivered(batch[h][i])

(* An attempt has done for the copies before the one it is at what it does *)
(* in its present loop, and for all of them what it did in earlier loops.  *)
AttemptHolds(h) ==
    /\ revoked[h] \cap registered = {}
    /\ task[h] = "idle" => at[h] = 1
    /\ \A i \in 1..Len(batch[h]) :
          /\ task[h] = "checking" /\ i < at[h] => Passed(h, i)
          /\ task[h] \in PastChecks => Passed(h, i)
          /\ task[h] = "storing" /\ i < at[h] => Kept(h, i)
          /\ task[h] \in PastStores => Kept(h, i)
          /\ task[h] \in AtPeer /\ i < at[h] => Arrived(h, i)
          /\ task[h] = "accepted" => Arrived(h, i)
    /\ task[h] = "cleared" => Key(h) \in PeerKeys /\ ~federated
    /\ task[h] = "waiting" => Key(h) \in PeerKeys

AttemptsHold == \A h \in Attempts : AttemptHolds(h)

(* An attempt that began while blocked is still shut out, and has not come *)
(* past the blocklist.                                                     *)
ShutHolds == \A h \in shut : blocked /\ task[h] \notin {"idle", "cleared"}

(* A delivery at the peer's server comes from an attempt past its stores;  *)
(* once cleared it passed the registry and the blocklist, once stored the  *)
(* peer has it.                                                            *)
DeliveryHolds(d) ==
    /\ d.key \in PeerKeys /\ task[d.by] # "idle" /\ KeptAll(d.by)
    /\ Device \notin revoked[d.by]
    /\ d.stage \in {"cleared", "stored"} =>
          d.by \notin shut /\ d.key \notin revoked[d.by]
    /\ d.stage = "stored" => Delivered(d.key)

WireHolds == \A d \in wire : DeliveryHolds(d)

RowHolds(r) ==
    /\ task[r.by] # "idle"
    /\ Device \notin revoked[r.by]
    /\ r.owner = "peer" =>
          r.key \notin revoked[r.by] /\ r.by \notin shut /\ KeptAll(r.by)

RowsHold == \A r \in rows : RowHolds(r)

IInv == TypeOK /\ AttemptsHold /\ ShutHolds /\ WireHolds /\ RowsHold

-------------------------------------------------------------------------------
(* What the three ways to move a handler on come to. *)
Moved(h, place, pos) ==
    /\ task' \in [Attempts -> Places] /\ at' \in [Attempts -> Nat]
    /\ task'[h] = place /\ at'[h] = pos
    /\ \A g \in Attempts \ {h} : task'[g] = task[g] /\ at'[g] = at[g]
    /\ batch' = batch => \A g \in Attempts : at'[g] \in 1..Len(batch'[g])

LEMMA BatchLength ==
    ASSUME TypeOK, NEW h \in Attempts
    PROVE  /\ Len(batch[h]) \in Nat \ {0} /\ at[h] \in 1..Len(batch[h])
           /\ \A i \in 1..Len(batch[h]) : batch[h][i] \in Keys
           /\ Key(h) \in Keys
<1>1. batch[h] \in Batches /\ batch[h] \in Seq(Keys)
  BY DEF TypeOK
<1>2. at[h] \in 1..Len(batch[h])
  BY DEF TypeOK
<1> QED
  BY <1>1, <1>2 DEF Key

LEMMA GotoMoves ==
    ASSUME TypeOK, NEW h \in Attempts, NEW p \in Places, Goto(h, p)
    PROVE  Moved(h, p, at[h])
BY DEF TypeOK, Goto, Moved

LEMMA FailMoves ==
    ASSUME TypeOK, NEW h \in Attempts, Fail(h)
    PROVE  Moved(h, "failed", 1)
BY BatchLength DEF TypeOK, Fail, Moved, Places

LEMMA StepMoves ==
    ASSUME TypeOK, NEW h \in Attempts, NEW p \in Places, NEW q \in Places, Step(h, p, q)
    PROVE  \/ at[h] < Len(batch[h]) /\ Moved(h, p, at[h] + 1)
           \/ at[h] = Len(batch[h]) /\ Moved(h, q, 1)
<1>1. /\ at[h] \in Nat /\ Len(batch[h]) \in Nat /\ at[h] >= 1 /\ at[h] =< Len(batch[h])
      /\ \A g \in Attempts : at[g] \in 1..Len(batch[g])
      /\ task \in [Attempts -> Places] /\ at \in [Attempts -> Nat]
  BY BatchLength DEF TypeOK
<1>2. CASE at[h] < Len(batch[h])
  <2>1. task' = [task EXCEPT ![h] = p] /\ at' = [at EXCEPT ![h] = at[h] + 1]
    BY <1>2 DEF Step
  <2> QED
    BY <1>1, <1>2, <2>1 DEF Moved
<1>3. CASE at[h] = Len(batch[h])
  <2>1. task' = [task EXCEPT ![h] = q] /\ at' = [at EXCEPT ![h] = 1]
    BY <1>1, <1>3 DEF Step
  <2> QED
    BY <1>1, <1>3, <2>1 DEF Moved
<1> QED
  BY <1>1, <1>2, <1>3

-------------------------------------------------------------------------------
(* What every step leaves alone: copies stay stored, and an attempt under  *)
(* way gathers no new revocation and no new block.                         *)
Steady ==
    /\ batch' = batch /\ federated' = federated /\ rows \subseteq rows'
    /\ \A g \in Attempts :
          task[g] # "idle" =>
              task'[g] # "idle" /\ revoked'[g] \subseteq revoked[g] /\ (g \in shut' => g \in shut)

LEMMA StoredStays ==
    ASSUME batch' = batch, rows \subseteq rows'
    PROVE  /\ \A k : Delivered(k) => Delivered(k)'
           /\ \A g, i : Kept(g, i) => Kept(g, i)'
           /\ \A g : KeptAll(g) => KeptAll(g)'
           /\ \A g, i : Arrived(g, i) => Arrived(g, i)'
<1>1. /\ Primary => Primary'
      /\ \A k : Copied(k) => Copied(k)'
      /\ \A k : Delivered(k) => Delivered(k)'
  BY DEF Primary, Copied, Delivered
<1>2. \A g, i : Kept(g, i) => Kept(g, i)'
  BY <1>1 DEF Kept
<1> QED
  BY <1>1, <1>2 DEF KeptAll, Arrived

(* An attempt that does not move. *)
LEMMA AttemptStays ==
    ASSUME Steady, NEW g \in Attempts, AttemptHolds(g),
           task'[g] = task[g], at'[g] = at[g],
           revoked'[g] \subseteq revoked[g], revoked'[g] \cap registered' = {}
    PROVE  AttemptHolds(g)'
<1>1. \A i : Passed(g, i) => Passed(g, i)'
  BY DEF Passed, Here, Steady
<1>2. /\ \A i : Kept(g, i) => Kept(g, i)'
      /\ \A i : Arrived(g, i) => Arrived(g, i)'
  BY StoredStays DEF Steady
<1> QED
  BY <1>1, <1>2 DEF AttemptHolds, Steady, Key

LEMMA DeliveryStays ==
    ASSUME TypeOK, Steady, NEW d \in wire, DeliveryHolds(d)
    PROVE  DeliveryHolds(d)'
<1>1. d.by \in Attempts
  BY DEF TypeOK, Deliveries
<1> QED
  BY <1>1, StoredStays DEF Steady, DeliveryHolds

LEMMA RowStays ==
    ASSUME TypeOK, Steady, NEW r \in rows, RowHolds(r)
    PROVE  RowHolds(r)'
<1>1. r.by \in Attempts
  BY DEF TypeOK, Rows
<1> QED
  BY <1>1, StoredStays DEF Steady, RowHolds

-------------------------------------------------------------------------------
(* A handler moves: the attempts of the others, the blocklist, and what is *)
(* on the wire and in rows from before, stay right; what is left to show   *)
(* is about the attempt itself and about what it adds.                     *)
LEMMA HandlerMoves ==
    ASSUME IInv, NEW h \in Attempts, NEW p \in Places, NEW n,
           task[h] # "idle", p # "idle", Moved(h, p, n),
           h \in shut => p # "cleared",
           UNCHANGED <<setup, batch, history>>, rows \subseteq rows',
           url' \in [Attempts -> 1..Urls], wire' \subseteq Deliveries, rows' \subseteq Rows,
           AttemptHolds(h)',
           \A d \in wire' \ wire : DeliveryHolds(d)',
           \A r \in rows' \ rows : RowHolds(r)'
    PROVE  IInv'
<1>1. Steady
  BY DEF Steady, Moved, setup, history
<1>2. \A g \in Attempts \ {h} : AttemptHolds(g)'
  <2> TAKE g \in Attempts \ {h}
  <2>1. AttemptHolds(g) /\ revoked'[g] \cap registered' = {}
    BY DEF IInv, AttemptsHold, AttemptHolds, setup, history
  <2> QED
    BY <1>1, <2>1, AttemptStays DEF Moved, history
<1>3. ShutHolds'
  BY DEF ShutHolds, IInv, TypeOK, Moved, setup, history
<1>4. (\A d \in wire : DeliveryHolds(d)') /\ (\A r \in rows : RowHolds(r)')
  BY <1>1, DeliveryStays, RowStays DEF IInv, WireHolds, RowsHold
<1>5. TypeOK'
  BY DEF IInv, TypeOK, Moved, setup, history
<1> QED
  BY <1>2, <1>3, <1>4, <1>5 DEF IInv, AttemptsHold, WireHolds, RowsHold

(* An attempt that fails has nothing to show any more. *)
LEMMA FailingHolds ==
    ASSUME IInv, NEW h \in Attempts, task'[h] = "failed", UNCHANGED <<setup, batch, history>>
    PROVE  AttemptHolds(h)'
BY DEF IInv, AttemptsHold, AttemptHolds, PastChecks, PastStores, AtPeer, setup, history

LEMMA CheckKeeps ==
    ASSUME IInv, NEW h \in Attempts, Check(h)
    PROVE  IInv'
<1>1. /\ task[h] = "checking" /\ UNCHANGED <<setup, batch, url, wire, rows, history>>
      /\ TypeOK /\ AttemptHolds(h) /\ at[h] \in 1..Len(batch[h]) /\ Len(batch[h]) \in Nat
      /\ url' \in [Attempts -> 1..Urls] /\ wire' \subseteq Deliveries /\ rows' \subseteq Rows
  BY BatchLength DEF Check, IInv, AttemptsHold, TypeOK
<1>2. ASSUME NEW p \in Places, NEW n, p \notin {"idle", "cleared"}, Moved(h, p, n),
             AttemptHolds(h)'
      PROVE  IInv'
  BY <1>1, <1>2, HandlerMoves
<1>3. ASSUME Checks(Key(h)) PROVE \A i : i = at[h] => Passed(h, i)'
  BY <1>1, <1>3 DEF Checks, Key, Passed, Here, AttemptHolds, setup, history
<1>4. \A i : Passed(h, i) => Passed(h, i)'
  BY <1>1 DEF Passed, Here, setup, history
<1>5. CASE ~Checks(Key(h))
  <2>1. Moved(h, "failed", 1)
    BY <1>1, <1>5, FailMoves DEF Check
  <2> QED
    BY <1>1, <1>2, <2>1, FailingHolds DEF Places, Moved
<1>6. CASE Checks(Key(h)) /\ at[h] < Len(batch[h]) /\ Moved(h, "checking", at[h] + 1)
  <2>1. \A i \in 1..Len(batch[h]) : i < at[h] + 1 => Passed(h, i)'
    BY <1>1, <1>3, <1>4, <1>6 DEF AttemptHolds
  <2>2. task'[h] = "checking" /\ batch' = batch /\ at'[h] = at[h] + 1
    BY <1>1, <1>6 DEF Moved
  <2>3. revoked'[h] \cap registered' = {}
    BY <1>1 DEF AttemptHolds, setup, history
  <2>4. AttemptHolds(h)'
    BY <2>1, <2>2, <2>3 DEF AttemptHolds, PastChecks, PastStores, AtPeer
  <2> QED
    BY <1>2, <1>6, <2>4 DEF Places
<1>7. CASE Checks(Key(h)) /\ at[h] = Len(batch[h]) /\ Moved(h, "storing", 1)
  <2>1. \A i \in 1..Len(batch[h]) : Passed(h, i)'
    BY <1>1, <1>3, <1>4, <1>7 DEF AttemptHolds
  <2>2. task'[h] = "storing" /\ batch' = batch /\ at'[h] = 1
    BY <1>1, <1>7 DEF Moved
  <2>3. revoked'[h] \cap registered' = {}
    BY <1>1 DEF AttemptHolds, setup, history
  <2>4. AttemptHolds(h)'
    BY <1>1, <2>1, <2>2, <2>3 DEF AttemptHolds, PastStores, AtPeer
  <2> QED
    BY <1>2, <1>7, <2>4 DEF Places
<1>8. Checks(Key(h)) => Step(h, "checking", "storing")
  BY DEF Check
<1> QED
  BY <1>1, <1>5, <1>6, <1>7, <1>8, StepMoves DEF Places
LEMMA StoreOwnKeeps ==
    ASSUME IInv, NEW h \in Attempts, StoreOwn(h)
    PROVE  IInv'
<1>1. /\ task[h] = "storing" /\ UNCHANGED <<setup, batch, url, wire, history>>
      /\ TypeOK /\ AttemptHolds(h) /\ at[h] \in 1..Len(batch[h]) /\ Len(batch[h]) \in Nat
      /\ url' \in [Attempts -> 1..Urls] /\ wire' \subseteq Deliveries /\ Key(h) \in Keys
  BY BatchLength DEF StoreOwn, IInv, AttemptsHold, TypeOK
<1> DEFINE r == [owner |-> "sender", id |-> IF at[h] = 1 THEN "primary" ELSE "copy",
                 key |-> Key(h), by |-> h]
<1>2. /\ rows \subseteq rows' /\ rows' \subseteq rows \cup {r} /\ rows' \subseteq Rows
      /\ IF at[h] = 1 THEN Primary \/ r \in rows' ELSE Copied(Key(h)) \/ r \in rows'
  BY <1>1 DEF StoreOwn, Insert, Rows, TypeOK
<1>3. /\ \A i : Kept(h, i) => Kept(h, i)'
      /\ \A i : Passed(h, i) => Passed(h, i)'
  BY <1>1, <1>2, StoredStays DEF Passed, Here, setup, history
<1>4. \A i : i = at[h] => Kept(h, i)'
  <2>1. CASE at[h] = 1
    BY <1>2, <1>3, <2>1 DEF Kept, Primary
  <2>2. CASE at[h] # 1
    BY <1>1, <1>2, <1>3, <2>2 DEF Kept, Copied, Key
  <2> QED
    BY <2>1, <2>2
<1>5. \A i \in 1..Len(batch[h]) : Passed(h, i) /\ Passed(h, i)'
  BY <1>1, <1>3 DEF AttemptHolds, PastChecks
<1>6. ASSUME NEW p \in Places, NEW n, p \notin {"idle", "cleared"}, Moved(h, p, n),
             AttemptHolds(h)'
      PROVE  IInv'
  <2>1. \A q \in rows' \ rows : RowHolds(q)'
    BY <1>1, <1>2, <1>5, <1>6 DEF RowHolds, Passed, Moved
  <2> QED
    BY <1>1, <1>2, <1>6, <2>1, HandlerMoves
<1>7. revoked'[h] \cap registered' = {}
  BY <1>1 DEF AttemptHolds, setup, history
<1>8. CASE at[h] < Len(batch[h]) /\ Moved(h, "storing", at[h] + 1)
  <2>1. \A i \in 1..Len(batch[h]) : i < at[h] + 1 => Kept(h, i)'
    BY <1>1, <1>3, <1>4, <1>8 DEF AttemptHolds
  <2>2. task'[h] = "storing" /\ batch' = batch /\ at'[h] = at[h] + 1
    BY <1>1, <1>8 DEF Moved
  <2>3. AttemptHolds(h)'
    BY <1>5, <1>7, <2>1, <2>2 DEF AttemptHolds, PastChecks, PastStores, AtPeer
  <2> QED
    BY <1>6, <1>8, <2>3 DEF Places
<1>9. CASE at[h] = Len(batch[h]) /\ Moved(h, "delivering", 1)
  <2>1. \A i \in 1..Len(batch[h]) : Kept(h, i)'
    BY <1>1, <1>3, <1>4, <1>9 DEF AttemptHolds
  <2>2. task'[h] = "delivering" /\ batch' = batch /\ at'[h] = 1
    BY <1>1, <1>9 DEF Moved
  <2>3. AttemptHolds(h)'
    BY <1>1, <1>5, <1>7, <2>1, <2>2 DEF AttemptHolds, PastChecks, PastStores, AtPeer
  <2> QED
    BY <1>6, <1>9, <2>3 DEF Places
<1> HIDE DEF r
<1>10. Step(h, "storing", "delivering")
  BY DEF StoreOwn
<1> QED
  BY <1>1, <1>8, <1>9, <1>10, StepMoves DEF Places

(* The loop over the copies for the peer: one more has arrived, or has not *)
(* to.                                                                     *)
LEMMA LoopDelivers ==
    ASSUME IInv, NEW h \in Attempts, task[h] \in AtPeer,
           UNCHANGED <<setup, batch, history>>,
           rows \subseteq rows', \A i : i = at[h] => Arrived(h, i)',
           Step(h, "delivering", "accepted")
    PROVE  /\ AttemptHolds(h)'
           /\ \E p \in {"delivering", "accepted"} : \E n : Moved(h, p, n)
<1>1. /\ TypeOK /\ AttemptHolds(h) /\ at[h] \in 1..Len(batch[h]) /\ Len(batch[h]) \in Nat
      /\ "delivering" \in Places /\ "accepted" \in Places
  BY BatchLength DEF IInv, AttemptsHold, Places
<1>2. /\ \A i : Kept(h, i) => Kept(h, i)'
      /\ \A i : Arrived(h, i) => Arrived(h, i)'
      /\ \A i : Passed(h, i) => Passed(h, i)'
  BY StoredStays DEF Passed, Here, setup, history
<1>3. \A i \in 1..Len(batch[h]) : Passed(h, i)' /\ Kept(h, i)'
  BY <1>1, <1>2 DEF AttemptHolds, PastChecks, PastStores, AtPeer
<1>4. revoked'[h] \cap registered' = {}
  BY <1>1 DEF AttemptHolds, setup, history
<1>5. \A i \in 1..Len(batch[h]) : i < at[h] + 1 => Arrived(h, i)'
  BY <1>1, <1>2 DEF AttemptHolds
<1>6. CASE at[h] < Len(batch[h]) /\ Moved(h, "delivering", at[h] + 1)
  <2>1. task'[h] = "delivering" /\ at'[h] = at[h] + 1
    BY <1>6 DEF Moved
  <2>2. AttemptHolds(h)'
    BY <1>3, <1>4, <1>5, <2>1 DEF AttemptHolds
  <2> QED
    BY <1>6, <2>2
<1>7. CASE at[h] = Len(batch[h]) /\ Moved(h, "accepted", 1)
  <2>1. task'[h] = "accepted"
    BY <1>7 DEF Moved
  <2>2. \A i \in 1..Len(batch[h]) : Arrived(h, i)'
    BY <1>1, <1>5, <1>7
  <2>3. AttemptHolds(h)'
    BY <1>3, <1>4, <2>1, <2>2 DEF AttemptHolds, AtPeer
  <2> QED
    BY <1>7, <2>3
<1> QED
  BY <1>1, <1>6, <1>7, StepMoves
LEMMA SkipOwnKeeps ==
    ASSUME IInv, NEW h \in Attempts, SkipOwn(h)
    PROVE  IInv'
<1>1. /\ task[h] = "delivering" /\ UNCHANGED <<setup, batch, url, wire, rows, history>>
      /\ url' \in [Attempts -> 1..Urls] /\ wire' \subseteq Deliveries /\ rows' \subseteq Rows
      /\ Step(h, "delivering", "accepted") /\ Key(h) \in OwnKeys
  BY DEF SkipOwn, IInv, TypeOK
<1>2. \A i : i = at[h] => Arrived(h, i)'
  BY <1>1 DEF Arrived, Key
<1>3. PICK p \in {"delivering", "accepted"} : AttemptHolds(h)' /\ \E n : Moved(h, p, n)
  BY <1>1, <1>2, LoopDelivers DEF AtPeer
<1> QED
  BY <1>1, <1>3, HandlerMoves DEF Places

(* An attempt that stays at its copy, on the way to the peer. *)
LEMMA StaysAtCopy ==
    ASSUME IInv, NEW h \in Attempts, task[h] \in AtPeer,
           UNCHANGED <<setup, batch, rows, history>>,
           task'[h] \in {"cleared", "waiting"}, at'[h] = at[h],
           Key(h) \in PeerKeys, task'[h] = "cleared" => ~federated
    PROVE  AttemptHolds(h)' /\ KeptAll(h)' /\ Device \notin revoked[h]
<1>1. /\ AttemptHolds(h) /\ at[h] \in 1..Len(batch[h])
      /\ batch' = batch /\ federated' = federated /\ revoked' = revoked
      /\ registered' = registered /\ Key(h)' = Key(h)
  BY BatchLength DEF IInv, AttemptsHold, setup, history, Key
<1>2. /\ \A i : Kept(h, i) => Kept(h, i)'
      /\ \A i : Arrived(h, i) => Arrived(h, i)'
      /\ \A i : Passed(h, i) => Passed(h, i)'
  BY <1>1, StoredStays DEF Passed, Here
<1>3. \A i \in 1..Len(batch[h]) : Kept(h, i)' /\ Passed(h, i) /\ Passed(h, i)'
  BY <1>1, <1>2 DEF AttemptHolds, PastChecks, PastStores, AtPeer
<1>4. \A i \in 1..Len(batch[h]) : i < at[h] => Arrived(h, i)'
  BY <1>1, <1>2 DEF AttemptHolds
<1>5. AttemptHolds(h)'
  BY <1>1, <1>3, <1>4 DEF AttemptHolds
<1> QED
  BY <1>1, <1>3, <1>5 DEF KeptAll, Passed

LEMMA ClearLocalKeeps ==
    ASSUME IInv, NEW h \in Attempts, ClearLocal(h)
    PROVE  IInv'
<1>1. /\ task[h] = "delivering" /\ UNCHANGED <<setup, batch, url, wire, rows, history>>
      /\ url' \in [Attempts -> 1..Urls] /\ wire' \subseteq Deliveries /\ rows' \subseteq Rows
      /\ Key(h) \in PeerKeys /\ ~federated /\ TypeOK /\ AttemptHolds(h)
  BY DEF ClearLocal, IInv, AttemptsHold, TypeOK
<1>2. CASE Welcome /\ Goto(h, "cleared")
  <2>1. Moved(h, "cleared", at[h]) /\ h \notin shut
    BY <1>1, <1>2, GotoMoves DEF Places, Welcome, IInv, ShutHolds
  <2>2. AttemptHolds(h)'
    BY <1>1, <2>1, StaysAtCopy DEF Moved, AtPeer
  <2> QED
    BY <1>1, <2>1, <2>2, HandlerMoves DEF Places
<1>3. CASE Fail(h)
  <2>1. Moved(h, "failed", 1)
    BY <1>1, <1>3, FailMoves
  <2> QED
    BY <1>1, <2>1, FailingHolds, HandlerMoves DEF Places, Moved
<1> QED
  BY <1>2, <1>3 DEF ClearLocal

LEMMA DeliverLocalKeeps ==
    ASSUME IInv, NEW h \in Attempts, DeliverLocal(h)
    PROVE  IInv'
<1> DEFINE r == [owner |-> "peer", id |-> "copy", key |-> Key(h), by |-> h]
<1>1. /\ task[h] = "cleared" /\ UNCHANGED <<setup, batch, url, wire, history>>
      /\ url' \in [Attempts -> 1..Urls] /\ wire' \subseteq Deliveries
      /\ Step(h, "delivering", "accepted")
      /\ AttemptHolds(h) /\ Key(h) \in Keys /\ at[h] \in 1..Len(batch[h])
  BY BatchLength DEF DeliverLocal, IInv, AttemptsHold, TypeOK
<1>2. /\ rows \subseteq rows' /\ rows' \subseteq rows \cup {r} /\ rows' \subseteq Rows
      /\ Delivered(Key(h)) \/ r \in rows'
  BY <1>1 DEF DeliverLocal, Receive, Rows, IInv, TypeOK
<1>3. \A i : i = at[h] => Arrived(h, i)'
  BY <1>1, <1>2, StoredStays DEF Arrived, Key, Delivered
<1>4. PICK p \in {"delivering", "accepted"} : AttemptHolds(h)' /\ \E n : Moved(h, p, n)
  BY <1>1, <1>2, <1>3, LoopDelivers DEF AtPeer
<1>5. \A i : Kept(h, i) => Kept(h, i)'
  BY <1>1, <1>2, StoredStays
<1>6. /\ KeptAll(h)'
      /\ h \notin shut /\ Device \notin revoked[h] /\ Key(h) \notin revoked[h]
  BY <1>1, <1>5
     DEF AttemptHolds, PastChecks, PastStores, KeptAll, IInv, ShutHolds, Passed, Here, Key
<1>7. \A q \in rows' \ rows : RowHolds(q)'
  BY <1>1, <1>2, <1>4, <1>6 DEF RowHolds, Moved, history
<1> QED
  BY <1>1, <1>2, <1>4, <1>7, HandlerMoves DEF Places

(* A handler that posts the copy it is at, or goes on waiting for it. *)
LEMMA PostKeeps ==
    ASSUME IInv, NEW h \in Attempts, NEW u \in 1..Urls,
           task[h] \in {"delivering", "waiting"}, Key(h) \in PeerKeys,
           Goto(h, "waiting"), wire' = wire \cup {Delivery(h, u, "sent")},
           url' \in [Attempts -> 1..Urls], UNCHANGED <<setup, batch, rows, history>>
    PROVE  IInv'
<1>1. /\ TypeOK /\ AttemptHolds(h) /\ wire' \subseteq Deliveries /\ rows' \subseteq Rows
      /\ at[h] \in 1..Len(batch[h])
  BY BatchLength DEF IInv, AttemptsHold, TypeOK, Delivery, Deliveries
<1>2. Moved(h, "waiting", at[h])
  BY <1>1, GotoMoves DEF Places
<1>3. AttemptHolds(h)' /\ KeptAll(h)' /\ Device \notin revoked[h]
  BY <1>2, StaysAtCopy DEF Moved, AtPeer
<1>4. \A d \in wire' \ wire : DeliveryHolds(d)'
  BY <1>2, <1>3 DEF Moved, Delivery, DeliveryHolds, history
<1> QED
  BY <1>1, <1>2, <1>3, <1>4, HandlerMoves DEF Places

LEMMA ForwardKeeps ==
    ASSUME IInv, NEW h \in Attempts, Forward(h)
    PROVE  IInv'
BY PostKeeps DEF Forward, IInv, TypeOK

LEMMA NotAcknowledgedKeeps ==
    ASSUME IInv, NEW h \in Attempts, NotAcknowledged(h)
    PROVE  IInv'
<1>1. /\ task[h] = "waiting" /\ UNCHANGED <<setup, batch, rows, history>> /\ TypeOK
      /\ Key(h) \in PeerKeys /\ url[h] \in 1..Urls /\ url \in [Attempts -> 1..Urls]
  BY DEF NotAcknowledged, IInv, TypeOK, AttemptsHold, AttemptHolds
<1>2. CASE url[h] < Urls
  <2>1. url[h] + 1 \in 1..Urls
    BY <1>1, <1>2
  <2> QED
    BY <1>1, <1>2, <2>1, PostKeeps DEF NotAcknowledged
<1>3. CASE ~(url[h] < Urls)
  <2>1. Moved(h, "failed", 1) /\ UNCHANGED wire /\ url' = [url EXCEPT ![h] = 1]
    BY <1>1, <1>3, FailMoves DEF NotAcknowledged, GiveUp
  <2>2. url' \in [Attempts -> 1..Urls] /\ wire' \subseteq Deliveries /\ rows' \subseteq Rows
    BY <1>1, <2>1 DEF TypeOK
  <2> QED
    BY <1>1, <2>1, <2>2, FailingHolds, HandlerMoves DEF Places, Moved
<1> QED
  BY <1>2, <1>3

LEMMA AcknowledgedKeeps ==
    ASSUME IInv, NEW h \in Attempts, Acknowledged(h)
    PROVE  IInv'
<1>1. /\ task[h] = "waiting" /\ UNCHANGED <<setup, batch, wire, rows, history>>
      /\ url' \in [Attempts -> 1..Urls] /\ wire' \subseteq Deliveries /\ rows' \subseteq Rows
      /\ Step(h, "delivering", "accepted")
      /\ Delivery(h, url[h], "stored") \in wire
  BY DEF Acknowledged, IInv, TypeOK
<1>2. Delivered(Key(h))
  BY <1>1 DEF IInv, WireHolds, DeliveryHolds, Delivery
<1>3. \A i : i = at[h] => Arrived(h, i)'
  BY <1>1, <1>2, StoredStays DEF Arrived, Key
<1>4. PICK p \in {"delivering", "accepted"} : AttemptHolds(h)' /\ \E n : Moved(h, p, n)
  BY <1>1, <1>3, LoopDelivers DEF AtPeer
<1> QED
  BY <1>1, <1>4, HandlerMoves DEF Places

LEMMA DieKeeps ==
    ASSUME IInv, NEW h \in Attempts, Die(h)
    PROVE  IInv'
<1>1. /\ task[h] # "idle" /\ UNCHANGED <<setup, batch, wire, rows, history>> /\ TypeOK
      /\ url' \in [Attempts -> 1..Urls] /\ wire' \subseteq Deliveries /\ rows' \subseteq Rows
  BY DEF Die, IInv, TypeOK
<1>2. Moved(h, "failed", 1)
  BY <1>1, FailMoves DEF Die
<1> QED
  BY <1>1, <1>2, FailingHolds, HandlerMoves DEF Places, Moved
-------------------------------------------------------------------------------
(* The peer's server works on a delivery: the attempts do not move.        *)
LEMMA ServerMoves ==
    ASSUME IInv, UNCHANGED <<setup, progress, history>>, rows \subseteq rows',
           wire' \subseteq Deliveries, rows' \subseteq Rows,
           \A d \in wire' \ wire : DeliveryHolds(d)',
           \A r \in rows' \ rows : RowHolds(r)'
    PROVE  IInv'
<1>1. Steady
  BY DEF Steady, setup, progress, history
<1>2. AttemptsHold'
  <2> SUFFICES ASSUME NEW g \in Attempts PROVE AttemptHolds(g)'
    BY DEF AttemptsHold
  <2>1. AttemptHolds(g) /\ revoked'[g] \cap registered' = {}
    BY DEF IInv, AttemptsHold, AttemptHolds, setup, history
  <2> QED
    BY <1>1, <2>1, AttemptStays DEF progress, history
<1>3. ShutHolds'
  BY DEF ShutHolds, IInv, setup, progress, history
<1>4. (\A d \in wire : DeliveryHolds(d)') /\ (\A r \in rows : RowHolds(r)')
  BY <1>1, DeliveryStays, RowStays DEF IInv, WireHolds, RowsHold
<1>5. TypeOK'
  BY DEF IInv, TypeOK, setup, progress, history
<1> QED
  BY <1>2, <1>3, <1>4, <1>5 DEF IInv, WireHolds, RowsHold

LEMMA ClearRemoteKeeps ==
    ASSUME IInv, NEW d \in wire, ClearRemote(d)
    PROVE  IInv'
<1> DEFINE e == [d EXCEPT !.stage = "cleared"]
<1>1. /\ UNCHANGED <<setup, progress, rows, history>> /\ rows' \subseteq Rows
      /\ d \in Deliveries /\ e \in Deliveries
      /\ e.key = d.key /\ e.by = d.by /\ e.stage = "cleared"
      /\ DeliveryHolds(d) /\ d.by \in Attempts
  BY DEF ClearRemote, Deliveries, IInv, TypeOK, WireHolds
<1>2. CASE d.key \in registered /\ Welcome
  <2>1. wire' = (wire \ {d}) \cup {e}
    BY <1>2 DEF ClearRemote
  <2>2. d.by \notin shut /\ d.key \notin revoked[d.by]
    BY <1>1, <1>2 DEF Welcome, IInv, ShutHolds, AttemptsHold, AttemptHolds
  <2>3. KeptAll(d.by)'
    BY <1>1, StoredStays DEF progress, DeliveryHolds
  <2>4. DeliveryHolds(e)'
    BY <1>1, <2>2, <2>3 DEF DeliveryHolds, progress, history
  <2>5. wire' \subseteq Deliveries
    BY <1>1, <2>1 DEF IInv, TypeOK
  <2> HIDE DEF e
  <2> QED
    BY <1>1, <2>1, <2>4, <2>5, ServerMoves
<1>3. CASE ~(d.key \in registered /\ Welcome)
  <2>1. wire' \subseteq wire /\ wire' \subseteq Deliveries
    BY <1>3 DEF ClearRemote, IInv, TypeOK
  <2> QED
    BY <1>1, <2>1, ServerMoves
<1> QED
  BY <1>2, <1>3

LEMMA DeliverRemoteKeeps ==
    ASSUME IInv, NEW d \in wire, DeliverRemote(d)
    PROVE  IInv'
<1> DEFINE e == [d EXCEPT !.stage = "stored"]
           r == [owner |-> "peer", id |-> "copy", key |-> d.key, by |-> d.by]
<1>1. /\ UNCHANGED <<setup, progress, history>>
      /\ d \in Deliveries /\ e \in Deliveries /\ d.stage = "cleared"
      /\ e.key = d.key /\ e.by = d.by /\ e.stage = "stored"
      /\ DeliveryHolds(d) /\ d.by \in Attempts /\ d.key \in Keys
      /\ wire' = (wire \ {d}) \cup {e} /\ wire' \subseteq Deliveries
  BY DEF DeliverRemote, Deliveries, IInv, TypeOK, WireHolds
<1>2. /\ rows \subseteq rows' /\ rows' \subseteq rows \cup {r} /\ rows' \subseteq Rows
      /\ Delivered(d.key) \/ r \in rows'
  BY <1>1 DEF DeliverRemote, Receive, Rows, IInv, TypeOK
<1>3. Delivered(d.key)'
  BY <1>1, <1>2, StoredStays DEF Delivered, progress
<1>4. KeptAll(d.by)'
  BY <1>1, <1>2, StoredStays DEF progress, DeliveryHolds
<1>5. DeliveryHolds(e)'
  BY <1>1, <1>3, <1>4 DEF DeliveryHolds, progress, history
<1>6. \A q \in rows' \ rows : RowHolds(q)'
  BY <1>1, <1>2, <1>4 DEF RowHolds, DeliveryHolds, progress, history
<1> HIDE DEF e, r
<1> QED
  BY <1>1, <1>2, <1>5, <1>6, ServerMoves

-------------------------------------------------------------------------------
(* An attempt begins: nothing is stored or posted for it yet. *)
LEMMA BeginKeeps ==
    ASSUME IInv, NEW h \in Attempts, Begin(h)
    PROVE  IInv'
<1>1. /\ task[h] = "idle" /\ UNCHANGED <<setup, batch, url, wire, rows>>
      /\ Moved(h, "checking", at[h]) /\ TypeOK
      /\ revoked' = [revoked EXCEPT ![h] = Keys \ registered]
      /\ shut' = IF blocked THEN shut \cup {h} ELSE shut
  BY GotoMoves DEF Begin, IInv, Places
<1>2. Steady
  BY <1>1 DEF Steady, Moved, setup, TypeOK
<1>3. \A g \in Attempts \ {h} : AttemptHolds(g)'
  <2> TAKE g \in Attempts \ {h}
  <2>1. /\ AttemptHolds(g) /\ revoked'[g] = revoked[g]
        /\ revoked'[g] \cap registered' = {}
    BY <1>1 DEF IInv, AttemptsHold, AttemptHolds, setup, TypeOK
  <2> QED
    BY <1>1, <1>2, <2>1, AttemptStays DEF Moved
<1>4. at[h] = 1
  BY <1>1 DEF IInv, AttemptsHold, AttemptHolds
<1>5. AttemptHolds(h)'
  <2>1. task'[h] = "checking" /\ at'[h] = 1 /\ Len(batch'[h]) \in Nat
    BY <1>1, <1>4, BatchLength DEF Moved
  <2>2. revoked'[h] \cap registered' = {}
    BY <1>1 DEF TypeOK, setup
  <2> QED
    BY <2>1, <2>2 DEF AttemptHolds, PastChecks, PastStores, AtPeer
<1>6. ShutHolds'
  BY <1>1 DEF ShutHolds, IInv, TypeOK, Moved, setup
<1>7. WireHolds' /\ RowsHold'
  BY <1>1, <1>2, DeliveryStays, RowStays DEF IInv, WireHolds, RowsHold
<1>8. TypeOK'
  BY <1>1 DEF TypeOK, Moved, setup
<1> QED
  BY <1>3, <1>5, <1>6, <1>7, <1>8 DEF IInv, AttemptsHold

(* The registry or the blocklist changes. *)
LEMMA SetupChanges ==
    ASSUME IInv, UNCHANGED <<federated, progress, wire, rows>>,
           registered' \subseteq Keys, blocked' \in BOOLEAN, changes' \in 0..MaxChanges,
           revoked' \in [Attempts -> SUBSET Keys], shut' \subseteq shut,
           shut' # {} => blocked',
           \A g \in Attempts :
              revoked'[g] \subseteq revoked[g] /\ revoked'[g] \cap registered' = {}
    PROVE  IInv'
<1>1. Steady
  BY DEF Steady, progress
<1>2. AttemptsHold'
  <2> SUFFICES ASSUME NEW g \in Attempts PROVE AttemptHolds(g)'
    BY DEF AttemptsHold
  <2>1. AttemptHolds(g)
    BY DEF IInv, AttemptsHold
  <2> QED
    BY <1>1, <2>1, AttemptStays DEF progress
<1>3. ShutHolds'
  BY DEF ShutHolds, IInv, progress
<1>4. WireHolds' /\ RowsHold'
  BY <1>1, DeliveryStays, RowStays DEF IInv, WireHolds, RowsHold
<1>5. TypeOK'
  BY DEF IInv, TypeOK, progress
<1> QED
  BY <1>2, <1>3, <1>4, <1>5 DEF IInv

LEMMA ChangeCounts ==
    ASSUME TypeOK, Change
    PROVE  changes' \in 0..MaxChanges
BY DEF TypeOK, Change
-------------------------------------------------------------------------------
LEMMA InitIInv == Init => IInv
<1> SUFFICES ASSUME Init PROVE IInv
  OBVIOUS
<1>1. TypeOK
  <2>1. \A b \in Batches : Len(b) \in Nat /\ 1 \in 1..Len(b)
    <3> TAKE b \in Batches
    <3>1. b \in Seq(Keys) /\ Len(b) \in Nat
      OBVIOUS
    <3>2. PICK i \in 1..Len(b) : b[i] = Device
      OBVIOUS
    <3> QED
      BY <3>1, <3>2
  <2>2. \A h \in Attempts : at[h] \in 1..Len(batch[h])
    BY <2>1 DEF Init
  <2>3. url \in [Attempts -> 1..Urls] /\ task \in [Attempts -> Places]
    BY DEF Init, Places
  <2>4. changes \in 0..MaxChanges /\ at \in [Attempts -> Nat]
    BY DEF Init
  <2> QED
    BY <2>2, <2>3, <2>4 DEF Init, TypeOK
<1>2. AttemptsHold
  BY DEF Init, AttemptsHold, AttemptHolds, PastChecks, PastStores, AtPeer
<1>3. ShutHolds /\ WireHolds /\ RowsHold
  BY DEF Init, ShutHolds, WireHolds, RowsHold
<1> QED
  BY <1>1, <1>2, <1>3 DEF IInv

LEMMA NextIInv == IInv /\ [Next]_vars => IInv'
<1> SUFFICES ASSUME IInv, [Next]_vars PROVE IInv'
  OBVIOUS
<1>1. CASE UNCHANGED vars
  BY <1>1, SetupChanges
     DEF vars, setup, history, IInv, TypeOK, ShutHolds, AttemptsHold, AttemptHolds
<1>2. ASSUME NEW h \in Attempts, Handle(h) PROVE IInv'
  BY <1>2, BeginKeeps, CheckKeeps, StoreOwnKeeps, SkipOwnKeeps, ClearLocalKeeps,
     DeliverLocalKeeps, ForwardKeeps, NotAcknowledgedKeeps, AcknowledgedKeeps, DieKeeps
     DEF Handle
<1>3. ASSUME NEW d \in wire, ClearRemote(d) \/ DeliverRemote(d) PROVE IInv'
  BY <1>3, ClearRemoteKeeps, DeliverRemoteKeeps
<1>4. ASSUME NEW k \in Keys, Revoke(k) PROVE IInv'
  <2>1. changes' \in 0..MaxChanges
    BY <1>4, ChangeCounts DEF Revoke, IInv
  <2> QED
    BY <1>4, <2>1, SetupChanges
       DEF Revoke, history, IInv, TypeOK, ShutHolds, AttemptsHold, AttemptHolds
<1>5. ASSUME NEW k \in Keys, Register(k) PROVE IInv'
  <2>1. changes' \in 0..MaxChanges
    BY <1>5, ChangeCounts DEF Register, IInv
  <2>2. /\ revoked' \in [Attempts -> SUBSET Keys]
        /\ \A g \in Attempts :
              revoked'[g] \subseteq revoked[g] /\ revoked'[g] \cap registered' = {}
    BY <1>5 DEF Register, IInv, TypeOK, AttemptsHold, AttemptHolds
  <2> QED
    BY <1>5, <2>1, <2>2, SetupChanges DEF Register, IInv, TypeOK, ShutHolds
<1>6. CASE Block
  <2>1. changes' \in 0..MaxChanges
    BY <1>6, ChangeCounts DEF Block, IInv
  <2> QED
    BY <1>6, <2>1, SetupChanges
       DEF Block, history, IInv, TypeOK, ShutHolds, AttemptsHold, AttemptHolds
<1>7. CASE Unblock
  <2>1. changes' \in 0..MaxChanges
    BY <1>7, ChangeCounts DEF Unblock, IInv
  <2> QED
    BY <1>7, <2>1, SetupChanges
       DEF Unblock, history, IInv, TypeOK, AttemptsHold, AttemptHolds
<1> QED
  BY <1>1, <1>2, <1>3, <1>4, <1>5, <1>6, <1>7 DEF Next

THEOREM Invariant == Spec => []IInv
BY InitIInv, NextIInv, PTL DEF Spec

-------------------------------------------------------------------------------
(* Every value the model keeps is of its type; the loops of send_message   *)
(* stay inside the copies of the request.                                  *)
THEOREM TypeCorrect == Spec => []TypeOK
<1>1. IInv => TypeOK
  BY DEF IInv
<1> QED
  BY Invariant, <1>1, PTL

(* Whatever overlaps, fails or comes late: when send_message answers with  *)
(* success, the peer has every copy that was meant for it.                 *)
THEOREM AcceptedReachesPeer == Spec => []AcceptedIsDelivered
<1>1. IInv => AcceptedIsDelivered
  BY DEF IInv, AttemptsHold, AttemptHolds, Arrived, AcceptedIsDelivered
<1> QED
  BY Invariant, <1>1, PTL

(* The peer never has a message the sender's own account lacks, nor one    *)
(* whose further copies the sender's devices lack: send_message stores     *)
(* first and delivers afterwards.                                          *)
THEOREM SenderStoresFirst == Spec => []PeerNeverAhead
<1>1. ASSUME IInv PROVE PeerNeverAhead
  <2> SUFFICES ASSUME NEW r \in rows, r.owner = "peer"
               PROVE  Primary /\ \A i \in 2..Len(batch[r.by]) : Copied(batch[r.by][i])
    BY DEF PeerNeverAhead
  <2>1. KeptAll(r.by) /\ TypeOK /\ r.by \in Attempts
    BY <1>1 DEF IInv, RowsHold, RowHolds, TypeOK, Rows
  <2>2. Len(batch[r.by]) \in Nat \ {0}
    BY <2>1, BatchLength
  <2>3. Primary
    BY <2>1, <2>2 DEF KeptAll, Kept
  <2>4. \A i \in 2..Len(batch[r.by]) : Copied(batch[r.by][i])
    BY <2>1, <2>2 DEF KeptAll, Kept
  <2> QED
    BY <2>3, <2>4
<1> QED
  BY Invariant, <1>1, PTL

(* The blocklist check of deliver_local_message and federation_delivery is *)
(* made before and apart from the storing, and still nothing of an attempt *)
(* begun under a lasting block is stored for the peer.                     *)
THEOREM BlockIsKept == Spec => []BlockedGetsNothing
<1>1. IInv => BlockedGetsNothing
  BY DEF IInv, RowsHold, RowHolds, BlockedGetsNothing
<1> QED
  BY Invariant, <1>1, PTL

(* A key whose revocation lasts gets no copy at the peer from an attempt   *)
(* begun after it, and a revoked device sends nothing.                     *)
THEOREM RevocationIsKept == Spec => []RevokedIsLeftOut
<1>1. IInv => RevokedIsLeftOut
  BY DEF IInv, RowsHold, RowHolds, RevokedIsLeftOut
<1> QED
  BY Invariant, <1>1, PTL
===============================================================================
