--------------------------- MODULE EventStoreProofs ---------------------------
(***************************************************************************)
(* Proofs about EventStore for every set of accounts, messages, keys and   *)
(* timestamps: type correctness, the density of the event log, the match   *)
(* of rows and events, and the refinement of EventLog.                     *)
(***************************************************************************)
EXTENDS EventStore, FiniteSetTheorems, TLAPS

Sources == RowIds \cup (Messages \X Times)

(* What the ids of the rows say about them; needed to know that a read     *)
(* receipt is always told to an account of this server.                    *)
RowsWellFormed ==
    \A r \in messages :
        /\ r.author = "them" => SenderOf[r.mid] = r.peer
        /\ \A m \in Messages : r.id = Own(m) =>
                /\ r.mid = m /\ r.owner = SenderOf[m] /\ r.author = "me"
        /\ \A m \in Messages, a \in Accounts, k \in Keys :
                r.id = <<"inbound", a, m, k>> => r.mid = m /\ r.author = "them"

IInv == TypeOK /\ RowsWellFormed /\ LogIsDense /\ LogMirrorsRows

-------------------------------------------------------------------------------
(* The ids of the four kinds of rows are ids, and of different kinds. *)
LEMMA RowIdTypes ==
    ASSUME NEW a \in Accounts, NEW m \in Messages, NEW k \in Keys
    PROVE  /\ Own(m) \in RowIds
           /\ Copy(a, m, k) \in RowIds
           /\ Inbound(a, m, k) \in RowIds
           /\ DeviceCopy(a, m, k) \in RowIds
BY DEF RowIds, Own, Copy, Inbound, DeviceCopy

(* Adding one event to a set of events adds its source; the same for rows. *)
LEMMA SourcesOfUnion ==
    ASSUME NEW S, NEW x PROVE {e.source : e \in S \cup {x}} = {e.source : e \in S} \cup {x.source}
OBVIOUS

(* The ids of a set of rows with one more row. *)
LEMMA IdsOfUnion ==
    ASSUME NEW S, NEW x PROVE {r.id : r \in S \cup {x}} = {r.id : r \in S} \cup {x.id}
OBVIOUS

(* Two intervals that meet make one. *)
LEMMA IntervalUnion ==
    ASSUME NEW c \in Nat, NEW d \in Nat, c < d
    PROVE  (1..c) \cup ((c + 1)..d) = 1..d
OBVIOUS

(* A new event takes the next cursor: an Append of the abstract log. *)
LEMMA AppendEventAppends ==
    ASSUME TypeOK,
           NEW a \in Accounts, NEW kind \in Kinds, NEW source \in Sources,
           ~Stored(a, kind, source),
           AppendEvent(a, kind, source)
    PROVE  /\ Log!Append(a)
           /\ log' \in [Accounts -> SUBSET Events]
           /\ cursors' \in [Accounts -> Nat]
<1> DEFINE ev == [cursor |-> cursors[a] + 1, kind |-> kind, source |-> source]
<1>1. /\ cursors' = [cursors EXCEPT ![a] = @ + 1]
      /\ log' = [log EXCEPT ![a] = @ \cup {ev}]
    BY DEF AppendEvent
<1>2. /\ cursors[a] \in Nat
      /\ cursors \in [Accounts -> Nat]
      /\ log \in [Accounts -> SUBSET Events]
    BY DEF TypeOK
<1>3. ev \in Events
    BY <1>2 DEF Events, Sources
<1>4. /\ cursors' \in [Accounts -> Nat]
      /\ log' \in [Accounts -> SUBSET Events]
      /\ log'[a] = log[a] \cup {ev}
      /\ cursors'[a] = cursors[a] + 1
      /\ \A b \in Accounts \ {a} : log'[b] = log[b] /\ cursors'[b] = cursors[b]
    BY <1>1, <1>2, <1>3
<1>5. \A f \in log[a] : ~(f.kind = ev.kind /\ f.source = ev.source)
    BY DEF Stored
<1>6. log'[a] \ log[a] = {ev}
    BY <1>4, <1>5
<1>7. {e.cursor : e \in log'[a] \ log[a]} = (cursors[a] + 1)..cursors'[a]
    <2>1. {e.cursor : e \in {ev}} = {cursors[a] + 1}
        OBVIOUS
    <2>2. (cursors[a] + 1)..(cursors[a] + 1) = {cursors[a] + 1}
        BY <1>2
    <2> QED
        BY <2>1, <2>2, <1>4, <1>6
<1> QED
    BY <1>2, <1>4, <1>5, <1>6, <1>7 DEF Log!Append, Log!SameEvent

(* So do the read receipts of several messages, unless there is none. *)
LEMMA AppendReadReceiptsAppends ==
    ASSUME TypeOK,
           NEW a \in Accounts, NEW mids \in SUBSET Messages, NEW t \in Times,
           AppendReadReceipts(a, mids, t)
    PROVE  /\ Log!Append(a) \/ UNCHANGED <<log, cursors>>
           /\ log' \in [Accounts -> SUBSET Events]
           /\ cursors' \in [Accounts -> Nat]
           /\ \A b \in Accounts \ {a} : log'[b] = log[b] /\ cursors'[b] = cursors[b]
           /\ log[a] \subseteq log'[a]
           /\ \A e \in log'[a] \ log[a] :
                 e.kind = "readReceipt" /\ \E m \in mids : e.source = <<m, t>>
<1> DEFINE new == {m \in mids : ~Stored(a, "readReceipt", <<m, t>>)}
           n == Cardinality(new)
<1>1. n \in Nat
    BY FS_Subset, FS_CardinalityType, StoreAssumption
<1>2. PICK num \in Bijection(new, (cursors[a] + 1)..(cursors[a] + n)) :
          /\ cursors' = [cursors EXCEPT ![a] = cursors[a] + n]
          /\ log' = [log EXCEPT ![a] = @ \cup
                {[cursor |-> num[m], kind |-> "readReceipt", source |-> <<m, t>>]
                    : m \in new}]
    BY DEF AppendReadReceipts
<1> HIDE DEF n
<1>3. /\ num \in [new -> (cursors[a] + 1)..(cursors[a] + n)]
      /\ \A x, y \in new : num[x] = num[y] => x = y
      /\ \A c \in (cursors[a] + 1)..(cursors[a] + n) : \E m \in new : num[m] = c
    BY DEF Bijection, Injection, Surjection, IsInjective
<1>4. /\ cursors[a] \in Nat
      /\ cursors \in [Accounts -> Nat]
      /\ log \in [Accounts -> SUBSET Events]
    BY DEF TypeOK
<1> DEFINE ev(m) == [cursor |-> num[m], kind |-> "readReceipt", source |-> <<m, t>>]
           added == {ev(m) : m \in new}
<1>5. /\ \A e \in added : \E m \in new : /\ e.cursor = num[m]
                                        /\ e.kind = "readReceipt"
                                        /\ e.source = <<m, t>>
                                        /\ e = ev(m)
                                        /\ e \in Events
      /\ \A m \in new : \E e \in added : e.cursor = num[m]
    <2>1. ASSUME NEW m \in new
          PROVE  /\ ev(m).cursor = num[m]
                 /\ ev(m).kind = "readReceipt"
                 /\ ev(m).source = <<m, t>>
                 /\ ev(m) \in Events
        <3>1. num[m] \in Nat
            BY <1>1, <1>3, <1>4
        <3>2. <<m, t>> \in Messages \X Times
            OBVIOUS
        <3> QED
            BY <3>1, <3>2 DEF Events, Kinds
    <2>2. \A e \in added : \E m \in new : e = ev(m)
        OBVIOUS
    <2>3. \A m \in new : ev(m) \in added
        OBVIOUS
    <2> HIDE DEF ev, added
    <2> QED
        BY <2>1, <2>2, <2>3
<1>6. log' = [log EXCEPT ![a] = log[a] \cup added]
    BY <1>2
<1>7. added \subseteq Events
    BY <1>5
<1> HIDE DEF added, ev
<1>8. /\ cursors' \in [Accounts -> Nat]
      /\ log' \in [Accounts -> SUBSET Events]
      /\ log'[a] = log[a] \cup added
      /\ cursors'[a] = cursors[a] + n
      /\ \A b \in Accounts \ {a} : log'[b] = log[b] /\ cursors'[b] = cursors[b]
    <2>1. /\ log' \in [Accounts -> SUBSET Events]
          /\ log'[a] = log[a] \cup added
          /\ \A b \in Accounts \ {a} : log'[b] = log[b]
        BY <1>4, <1>6, <1>7
    <2>2. /\ cursors' \in [Accounts -> Nat]
          /\ cursors'[a] = cursors[a] + n
          /\ \A b \in Accounts \ {a} : cursors'[b] = cursors[b]
        BY <1>1, <1>2, <1>4
    <2> QED
        BY <2>1, <2>2
<1>9. \A m \in new : \A f \in log[a] : ~(f.kind = "readReceipt" /\ f.source = <<m, t>>)
    BY DEF Stored
<1>10. \A e \in added : \A f \in log[a] : ~(f.kind = e.kind /\ f.source = e.source)
    BY <1>5, <1>9
<1>11. log'[a] \ log[a] = added
    BY <1>8, <1>10
<1>12. \A e, f \in added : e.cursor = f.cursor \/ e.source = f.source => e = f
    <2> SUFFICES ASSUME NEW e \in added, NEW f \in added,
                        e.cursor = f.cursor \/ e.source = f.source
                 PROVE  e = f
        OBVIOUS
    <2>1. PICK m \in new : e.cursor = num[m] /\ e.source = <<m, t>> /\ e = ev(m)
        BY <1>5
    <2>2. PICK l \in new : f.cursor = num[l] /\ f.source = <<l, t>> /\ f = ev(l)
        BY <1>5
    <2>3. m = l
        BY <1>3, <2>1, <2>2
    <2> QED
        BY <2>1, <2>2, <2>3
<1>13. CASE n = 0
    <2>1. new = {}
        BY <1>3, <1>4, <1>13
    <2>2. added = {}
        BY <2>1, <1>5
    <2>3. \A b \in Accounts : log'[b] = log[b] /\ cursors'[b] = cursors[b]
        BY <2>2, <1>4, <1>8, <1>13
    <2>4. log' = log /\ cursors' = cursors
        BY <2>3, <1>4, <1>8
    <2> QED
        BY <2>4, <1>8
<1>14. CASE n > 0
    <2>1. {e.cursor : e \in added} = (cursors[a] + 1)..(cursors[a] + n)
        <3>1. ASSUME NEW e \in added
              PROVE  e.cursor \in (cursors[a] + 1)..(cursors[a] + n)
            BY <1>3, <1>5
        <3>2. ASSUME NEW c \in (cursors[a] + 1)..(cursors[a] + n)
              PROVE  \E e \in added : c = e.cursor
            <4>1. PICK m \in new : num[m] = c
                BY <1>3
            <4> QED
                BY <4>1, <1>5
        <3> QED
            BY <3>1, <3>2
    <2>2. \A e \in added : \A f \in log'[a] : Log!SameEvent(e, f) => e = f
        BY <1>8, <1>10, <1>12 DEF Log!SameEvent
    <2>3. cursors'[a] > cursors[a]
        BY <1>1, <1>4, <1>8, <1>14
    <2>4. Log!Append(a)
        BY <2>1, <2>2, <2>3, <1>8, <1>11, <1>12 DEF Log!Append
    <2>5. \A e \in added : e.kind = "readReceipt" /\ \E m \in mids : e.source = <<m, t>>
        BY <1>5
    <2> QED
        BY <2>4, <2>5, <1>8, <1>11
<1> QED
    BY <1>1, <1>13, <1>14

-------------------------------------------------------------------------------
(* The abstract log stays dense, and stores no event twice. *)
LEMMA AppendKeepsDense ==
    ASSUME TypeOK, LogIsDense,
           cursors' \in [Accounts -> Nat],
           NEW a \in Accounts, Log!Append(a)
    PROVE  LogIsDense'
<1>1. SUFFICES ASSUME NEW b \in Accounts
               PROVE  /\ {e.cursor : e \in log'[b]} = 1..cursors'[b]
                      /\ \A e, f \in log'[b] : e.cursor = f.cursor => e = f
    BY DEF LogIsDense
<1>2. CASE b # a
    BY <1>2 DEF LogIsDense, Log!Append
<1>3. CASE b = a
    <2> DEFINE new == log'[a] \ log[a]
               cursorsOf(S) == {e.cursor : e \in S}
    <2>1. /\ log'[a] = log[a] \cup new
          /\ cursorsOf(new) = (cursors[a] + 1)..cursors'[a]
          /\ cursors'[a] > cursors[a]
          /\ \A e, f \in new : e.cursor = f.cursor => e = f
        BY DEF Log!Append
    <2>2. /\ cursorsOf(log[a]) = 1..cursors[a]
          /\ \A e, f \in log[a] : e.cursor = f.cursor => e = f
          /\ cursors[a] \in Nat
          /\ cursors'[a] \in Nat
        BY DEF LogIsDense, TypeOK
    <2>3. cursorsOf(log'[a]) = cursorsOf(log[a]) \cup cursorsOf(new)
        BY <2>1
    <2>4. cursorsOf(log'[a]) = 1..cursors'[a]
        <3> HIDE DEF cursorsOf, new
        <3> QED
            BY <2>1, <2>2, <2>3, IntervalUnion
    <2>5. ASSUME NEW e \in log'[a], NEW f \in log'[a], e.cursor = f.cursor
          PROVE  e = f
        <3>1. /\ \A x \in new : x.cursor \in (cursors[a] + 1)..cursors'[a]
              /\ \A x \in log[a] : x.cursor \in 1..cursors[a]
            BY <2>1, <2>2
        <3> HIDE DEF new, cursorsOf
        <3> QED
            BY <2>1, <2>2, <2>5, <3>1
    <2> QED
        BY <1>3, <2>4, <2>5
<1> QED
    BY <1>2, <1>3

(* An append to the abstract log keeps its events distinct. *)
LEMMA AppendKeepsUnique ==
    ASSUME NEW a \in Accounts, Log!Append(a),
           \A b \in Accounts : \A e, f \in log[b] :
                e.kind = f.kind /\ e.source = f.source => e = f
    PROVE  \A b \in Accounts : \A e, f \in log'[b] :
                e.kind = f.kind /\ e.source = f.source => e = f
<1> SUFFICES ASSUME NEW b \in Accounts, NEW e \in log'[b], NEW f \in log'[b],
                    e.kind = f.kind /\ e.source = f.source
             PROVE  e = f
    OBVIOUS
<1>1. CASE b # a
    BY <1>1 DEF Log!Append
<1>2. CASE b = a
    BY <1>2 DEF Log!Append, Log!SameEvent
<1> QED
    BY <1>1, <1>2

-------------------------------------------------------------------------------
(* A new row brings its event into the log of its owner, and nothing else. *)
LEMMA InsertRowStep ==
    ASSUME IInv,
           NEW id \in RowIds, NEW a \in Accounts, NEW p \in Peers,
           NEW author \in {"me", "them"}, NEW m \in Messages, NEW t \in Times,
           ~RowExists(id),
           InsertRow(id, a, p, author, m, t)
    PROVE  /\ messages' = messages \cup {[id |-> id, owner |-> a, peer |-> p,
                                author |-> author, mid |-> m, createdAt |-> t]}
           /\ messages' \subseteq Rows
           /\ log' \in [Accounts -> SUBSET Events]
           /\ cursors' \in [Accounts -> Nat]
           /\ Log!Append(a)
           /\ LogIsDense'
           /\ LogMirrorsRows'
<1> DEFINE row == [id |-> id, owner |-> a, peer |-> p,
                   author |-> author, mid |-> m, createdAt |-> t]
           ev == [cursor |-> cursors[a] + 1, kind |-> "message", source |-> id]
<1>1. messages' = messages \cup {row} /\ AppendEvent(a, "message", id)
    BY DEF InsertRow
<1>2. row \in Rows
    BY DEF Rows
<1>3. messages' \subseteq Rows
    BY <1>1, <1>2 DEF IInv, TypeOK
<1>4. ~Stored(a, "message", id)
    <2> SUFFICES ASSUME NEW x \in log[a], x.kind = "message", x.source = id
                 PROVE  FALSE
        BY DEF Stored
    <2>1. id \in {e.source : e \in {e \in log[a] : e.kind = "message"}}
        OBVIOUS
    <2>2. id \in {r.id : r \in {r \in messages : r.owner = a}}
        BY <2>1 DEF IInv, LogMirrorsRows
    <2> QED
        BY <2>2 DEF RowExists
<1>5. /\ Log!Append(a)
      /\ log' \in [Accounts -> SUBSET Events]
      /\ cursors' \in [Accounts -> Nat]
    BY <1>1, <1>4, AppendEventAppends DEF IInv, Kinds, Sources
<1>6. LogIsDense'
    BY <1>5, AppendKeepsDense DEF IInv
<1>7. \A b \in Accounts : \A e, f \in log'[b] :
          e.kind = f.kind /\ e.source = f.source => e = f
    <2>1. \A b \in Accounts : \A e, f \in log[b] :
              e.kind = f.kind /\ e.source = f.source => e = f
        BY DEF IInv, LogMirrorsRows
    <2> QED
        BY <1>5, <2>1, AppendKeepsUnique
<1>8. log' = [log EXCEPT ![a] = @ \cup {ev}]
    BY <1>1, <1>4 DEF AppendEvent
<1>9. ASSUME NEW b \in Accounts
      PROVE  {e.source : e \in {e \in log'[b] : e.kind = "message"}}
                = {r.id : r \in {r \in messages' : r.owner = b}}
    <2> DEFINE old(c) == {e.source : e \in {e \in log[c] : e.kind = "message"}}
               ids(c) == {r.id : r \in {r \in messages : r.owner = c}}
    <2>1. old(b) = ids(b)
        BY DEF IInv, LogMirrorsRows
    <2>2. CASE b # a
        <3>1. log'[b] = log[b]
            BY <1>8, <2>2 DEF IInv, TypeOK
        <3>2. {r \in messages' : r.owner = b} = {r \in messages : r.owner = b}
            BY <1>1, <2>2
        <3> QED
            BY <2>1, <3>1, <3>2
    <2>3. CASE b = a
        <3>1. {e \in log'[a] : e.kind = "message"}
                 = {e \in log[a] : e.kind = "message"} \cup {ev}
            BY <1>8 DEF IInv, TypeOK
        <3>2. {r \in messages' : r.owner = a}
                 = {r \in messages : r.owner = a} \cup {row}
            BY <1>1
        <3>3. {e.source : e \in {e \in log'[a] : e.kind = "message"}} = old(a) \cup {id}
            BY <3>1, SourcesOfUnion, ev.source = id
        <3>4. {r.id : r \in {r \in messages' : r.owner = a}} = ids(a) \cup {id}
            BY <3>2, IdsOfUnion, row.id = id
        <3> QED
            BY <2>1, <2>3, <3>3, <3>4
    <2> QED
        BY <2>2, <2>3
<1>10. LogMirrorsRows'
    BY <1>7, <1>9 DEF LogMirrorsRows
<1> QED
    BY <1>1, <1>3, <1>5, <1>6, <1>10

(* What an inserted row keeps, told apart from the tables it leaves alone. *)
LEMMA InsertRowKeepsIInv ==
    ASSUME IInv,
           NEW id \in RowIds, NEW a \in Accounts, NEW p \in Peers,
           NEW author \in {"me", "them"}, NEW m \in Messages, NEW t \in Times,
           ~RowExists(id),
           InsertRow(id, a, p, author, m, t),
           author = "them" => SenderOf[m] = p,
           \A l \in Messages : id = Own(l) => l = m /\ a = SenderOf[m] /\ author = "me",
           \A l \in Messages, b \in Accounts, k \in Keys :
                id = <<"inbound", b, l, k>> => m = l /\ author = "them",
           accounts' \in [Accounts -> {"absent", "live", "deleted"}],
           conversations' \subseteq Accounts \X Peers,
           reads' \in [Accounts \X Peers -> Nat],
           readReceipts' \in [Messages \X Accounts -> Nat],
           deliveryReceipts' \in [Messages \X Accounts -> Nat]
    PROVE  IInv' /\ Log!Next
<1>1. /\ messages' = messages \cup {[id |-> id, owner |-> a, peer |-> p,
                                author |-> author, mid |-> m, createdAt |-> t]}
      /\ messages' \subseteq Rows
      /\ log' \in [Accounts -> SUBSET Events]
      /\ cursors' \in [Accounts -> Nat]
      /\ Log!Append(a)
      /\ LogIsDense'
      /\ LogMirrorsRows'
    BY InsertRowStep
<1>2. TypeOK'
    BY <1>1 DEF TypeOK
<1>3. RowsWellFormed'
    <2> SUFFICES ASSUME NEW r \in messages'
                 PROVE  /\ r.author = "them" => SenderOf[r.mid] = r.peer
                        /\ \A l \in Messages : r.id = Own(l) =>
                              r.mid = l /\ r.owner = SenderOf[l] /\ r.author = "me"
                        /\ \A l \in Messages, b \in Accounts, k \in Keys :
                              r.id = <<"inbound", b, l, k>> => r.mid = l /\ r.author = "them"
        BY DEF RowsWellFormed, Own
    <2>1. CASE r \in messages
        BY <2>1 DEF IInv, RowsWellFormed
    <2>2. CASE r = [id |-> id, owner |-> a, peer |-> p,
                    author |-> author, mid |-> m, createdAt |-> t]
        BY <2>2
    <2> QED
        BY <1>1, <2>1, <2>2
<1>4. Log!Next
    BY <1>1 DEF Log!Next
<1> QED
    BY <1>1, <1>2, <1>3, <1>4 DEF IInv

(* A step that touches neither the rows nor the log keeps the invariant. *)
LEMMA OtherTablesKeepIInv ==
    ASSUME IInv, UNCHANGED <<messages, log, cursors>>,
           accounts' \in [Accounts -> {"absent", "live", "deleted"}],
           conversations' \subseteq Accounts \X Peers,
           reads' \in [Accounts \X Peers -> Nat],
           readReceipts' \in [Messages \X Accounts -> Nat],
           deliveryReceipts' \in [Messages \X Accounts -> Nat]
    PROVE  IInv' /\ UNCHANGED Log!vars
BY DEF IInv, TypeOK, RowsWellFormed, LogIsDense, LogMirrorsRows, Log!vars

(* Receipts join a log without touching the rows. *)
LEMMA ReceiptsKeepIInv ==
    ASSUME IInv, NEW a \in Accounts, Log!Append(a),
           messages' = messages,
           log' \in [Accounts -> SUBSET Events],
           cursors' \in [Accounts -> Nat],
           \A e \in log'[a] \ log[a] : e.kind # "message",
           accounts' \in [Accounts -> {"absent", "live", "deleted"}],
           conversations' \subseteq Accounts \X Peers,
           reads' \in [Accounts \X Peers -> Nat],
           readReceipts' \in [Messages \X Accounts -> Nat],
           deliveryReceipts' \in [Messages \X Accounts -> Nat]
    PROVE  IInv' /\ Log!Next
<1>1. TypeOK'
    BY DEF IInv, TypeOK
<1>2. RowsWellFormed'
    BY DEF IInv, RowsWellFormed
<1>3. LogIsDense'
    BY AppendKeepsDense DEF IInv
<1>4. LogMirrorsRows'
    <2>1. \A b \in Accounts : \A e, f \in log'[b] :
              e.kind = f.kind /\ e.source = f.source => e = f
        BY AppendKeepsUnique DEF IInv, LogMirrorsRows
    <2>2. ASSUME NEW b \in Accounts
          PROVE  {e \in log'[b] : e.kind = "message"} = {e \in log[b] : e.kind = "message"}
        BY DEF Log!Append
    <2> QED
        BY <2>1, <2>2 DEF IInv, LogMirrorsRows
<1>5. Log!Next
    BY DEF Log!Next
<1> QED
    BY <1>1, <1>2, <1>3, <1>4, <1>5 DEF IInv

-------------------------------------------------------------------------------
(* The empty store satisfies the invariant, and its logs are empty. *)
LEMMA InitEstablishesIInv == Init => IInv /\ Log!Init
<1> SUFFICES ASSUME Init PROVE IInv /\ Log!Init
    OBVIOUS
<1>1. TypeOK
    BY DEF Init, TypeOK
<1>2. RowsWellFormed
    BY DEF Init, RowsWellFormed
<1>3. LogIsDense
    BY DEF Init, LogIsDense
<1>4. LogMirrorsRows
    BY DEF Init, LogMirrorsRows
<1>5. Log!Init
    BY DEF Init, Log!Init
<1> QED
    BY <1>1, <1>2, <1>3, <1>4, <1>5 DEF IInv

(* Every step keeps the invariant and is a step, or none, of the abstract  *)
(* log.                                                                    *)
LEMMA NextKeepsIInv ==
    ASSUME IInv, [Next]_vars
    PROVE  IInv' /\ [Log!Next]_(Log!vars)
<1> USE DEF Peers
<1>1. ASSUME NEW a \in Accounts, CreateAccount(a)
      PROVE  IInv' /\ UNCHANGED Log!vars
    BY <1>1, OtherTablesKeepIInv DEF CreateAccount, IInv, TypeOK
<1>2. ASSUME NEW a \in Accounts, DeleteAccount(a)
      PROVE  IInv' /\ Log!Forget(a)
    <2>1. TypeOK'
        BY <1>2 DEF DeleteAccount, IInv, TypeOK
    <2>2. RowsWellFormed'
        BY <1>2 DEF DeleteAccount, IInv, RowsWellFormed
    <2>3. LogIsDense'
        BY <1>2 DEF DeleteAccount, IInv, TypeOK, LogIsDense
    <2>4. LogMirrorsRows'
        <3>1. /\ messages' = {r \in messages : r.owner # a}
              /\ log'[a] = {}
              /\ \A b \in Accounts \ {a} : log'[b] = log[b]
            BY <1>2 DEF DeleteAccount, IInv, TypeOK
        <3>2. ASSUME NEW b \in Accounts \ {a}
              PROVE  {r \in messages' : r.owner = b} = {r \in messages : r.owner = b}
            BY <3>1
        <3>3. {r \in messages' : r.owner = a} = {}
            BY <3>1
        <3> QED
            BY <3>1, <3>2, <3>3 DEF IInv, LogMirrorsRows
    <2>5. Log!Forget(a)
        BY <1>2 DEF DeleteAccount, Log!Forget
    <2> QED
        BY <2>1, <2>2, <2>3, <2>4, <2>5 DEF IInv
<1>3. ASSUME NEW a \in Accounts, NEW p \in Accounts \cup RemotePeers,
             CreateDirectConversation(a, p)
      PROVE  IInv' /\ UNCHANGED Log!vars
    BY <1>3, OtherTablesKeepIInv DEF CreateDirectConversation, IInv, TypeOK
<1>4. ASSUME NEW a \in Accounts, NEW p \in Peers, NEW m \in Messages, NEW t \in Times,
             InsertMessage(a, p, m, t)
      PROVE  IInv' /\ Log!Next
    <2>1. /\ SenderOf[m] = a
          /\ InsertRow(Own(m), a, p, "me", m, t)
          /\ ~RowExists(Own(m))
          /\ UNCHANGED <<accounts, conversations, reads, readReceipts, deliveryReceipts>>
        BY <1>4 DEF InsertMessage
    <2>2. \A l \in Messages : Own(m) = Own(l) => l = m
        BY DEF Own
    <2>3. \A l \in Messages, b \in Accounts, k \in Keys : Own(m) # <<"inbound", b, l, k>>
        BY DEF Own
    <2>4. Own(m) \in RowIds
        BY DEF Own, RowIds
    <2>5. /\ "me" \in {"me", "them"} /\ "me" # "them"
          /\ accounts' \in [Accounts -> {"absent", "live", "deleted"}]
          /\ conversations' \subseteq Accounts \X Peers
          /\ reads' \in [Accounts \X Peers -> Nat]
          /\ readReceipts' \in [Messages \X Accounts -> Nat]
          /\ deliveryReceipts' \in [Messages \X Accounts -> Nat]
        BY <2>1 DEF IInv, TypeOK
    <2> QED
        BY <2>1, <2>2, <2>3, <2>4, <2>5, InsertRowKeepsIInv DEF Own
<1>5. ASSUME NEW a \in Accounts, NEW p \in Peers, NEW m \in Messages, NEW k \in Keys,
             NEW t \in Times, InsertMessageCopy(a, p, m, k, t)
      PROVE  IInv' /\ Log!Next
    BY <1>5, InsertRowKeepsIInv, RowIdTypes
       DEF InsertMessageCopy, IInv, TypeOK, Own, Copy
<1>6. ASSUME NEW b \in Accounts, NEW m \in Messages, NEW k \in Keys, NEW t \in Times,
             DeliverMessage(b, m, k, t)
      PROVE  IInv' /\ Log!Next
    BY <1>6, InsertRowKeepsIInv, RowIdTypes, StoreAssumption
       DEF DeliverMessage, IInv, TypeOK, Own, Inbound
<1>7. ASSUME NEW a \in Accounts, NEW m \in Messages, NEW k \in Keys,
             AddDeviceMessageCopy(a, m, k)
      PROVE  IInv' /\ Log!Next
    <2> DEFINE id == DeviceCopy(a, m, k)
    <2>1. PICK r \in messages :
            /\ r.owner = a
            /\ r.id = Own(m) \/ \E sk \in Keys : r.id = <<"inbound", a, m, sk>>
            /\ ~RowExists(id)
            /\ InsertRow(id, a, r.peer, r.author, m, r.createdAt)
            /\ UNCHANGED <<accounts, conversations, reads, readReceipts, deliveryReceipts>>
        BY <1>7 DEF AddDeviceMessageCopy
    <2>2. /\ r.peer \in Peers /\ r.author \in {"me", "them"} /\ r.createdAt \in Times
          /\ r.mid = m
          /\ r.author = "them" => SenderOf[m] = r.peer
        BY <2>1 DEF IInv, TypeOK, Rows, RowsWellFormed
    <2>3. /\ \A l \in Messages : id # Own(l)
          /\ \A l \in Messages, b \in Accounts, j \in Keys : id # <<"inbound", b, l, j>>
        BY DEF Own, DeviceCopy
    <2>4. id \in RowIds
        BY RowIdTypes
    <2>5. /\ accounts' \in [Accounts -> {"absent", "live", "deleted"}]
          /\ conversations' \subseteq Accounts \X Peers
          /\ reads' \in [Accounts \X Peers -> Nat]
          /\ readReceipts' \in [Messages \X Accounts -> Nat]
          /\ deliveryReceipts' \in [Messages \X Accounts -> Nat]
        BY <2>1 DEF IInv, TypeOK
    <2> HIDE DEF id
    <2> DEFINE p == r.peer
               author == r.author
               t == r.createdAt
    <2>6. /\ p \in Peers /\ author \in {"me", "them"} /\ t \in Times
          /\ author = "them" => SenderOf[m] = p
          /\ ~RowExists(id)
          /\ InsertRow(id, a, p, author, m, t)
        BY <2>1, <2>2
    <2> HIDE DEF p, author, t
    <2> QED
        BY <2>3, <2>4, <2>5, <2>6, InsertRowKeepsIInv
<1>8. ASSUME NEW a \in Accounts, NEW p \in Accounts \cup RemotePeers, NEW t \in Times,
             MarkConversationRead(a, p, t)
      PROVE  IInv' /\ [Log!Next]_(Log!vars)
    <2> DEFINE seen == {r.mid : r \in {r \in messages :
                           /\ r.owner = a /\ r.peer = p
                           /\ r.author = "them" /\ r.createdAt <= t}}
               changed == {m \in seen : Outdated(m, a, t)}
               told == {m \in changed : RowExists(Own(m))}
    <2>1. /\ reads' = [reads EXCEPT ![<<a, p>>] = Later(@, t)]
          /\ readReceipts' = [x \in Messages \X Accounts |->
                IF x[2] = a /\ x[1] \in changed THEN t ELSE readReceipts[x]]
          /\ IF told = {} THEN UNCHANGED <<log, cursors>>
                          ELSE AppendReadReceipts(p, told, t)
          /\ UNCHANGED <<accounts, conversations, messages, deliveryReceipts>>
        BY <1>8 DEF MarkConversationRead
    <2>2. told \in SUBSET Messages
        BY DEF IInv, TypeOK, Rows
    <2>3. ASSUME told # {} PROVE p \in Accounts
        <3>1. PICK m \in Messages :
                /\ \E r \in messages : r.author = "them" /\ r.peer = p /\ r.mid = m
                /\ \E r \in messages : r.id = Own(m)
            BY <2>2, <2>3 DEF RowExists
        <3> QED
            BY <3>1 DEF IInv, TypeOK, Rows, RowsWellFormed
    <2>4. t \in Nat
        BY StoreAssumption
    <2>5. /\ reads' \in [Accounts \X Peers -> Nat]
          /\ readReceipts' \in [Messages \X Accounts -> Nat]
        <3> HIDE DEF changed
        <3> QED
            BY <2>1, <2>4 DEF IInv, TypeOK, Later
    <2> HIDE DEF told
    <2>6. CASE told = {}
        BY <2>1, <2>5, <2>6, OtherTablesKeepIInv DEF IInv, TypeOK
    <2>7. CASE told # {}
        <3>1. p \in Accounts /\ AppendReadReceipts(p, told, t)
            BY <2>1, <2>3, <2>7
        <3>2. /\ Log!Append(p) \/ UNCHANGED <<log, cursors>>
              /\ log' \in [Accounts -> SUBSET Events]
              /\ cursors' \in [Accounts -> Nat]
              /\ \A e \in log'[p] \ log[p] : e.kind = "readReceipt"
            BY <2>2, <3>1, AppendReadReceiptsAppends DEF IInv
        <3>3. CASE Log!Append(p)
            BY <2>1, <2>5, <3>1, <3>2, <3>3, ReceiptsKeepIInv DEF IInv, TypeOK
        <3>4. CASE UNCHANGED <<log, cursors>>
            BY <2>1, <2>5, <3>4, OtherTablesKeepIInv DEF IInv, TypeOK
        <3> QED
            BY <3>2, <3>3, <3>4
    <2> QED
        BY <2>6, <2>7
<1>9. ASSUME NEW b \in Accounts, NEW m \in Messages, NEW t \in Times,
             MarkMessageDelivered(b, m, t)
      PROVE  IInv' /\ [Log!Next]_(Log!vars)
    <2>1. PICK r \in messages :
             r.id = Own(m) /\ AppendEvent(r.owner, "deliveryReceipt", <<m, t>>)
        BY <1>9 DEF MarkMessageDelivered
    <2>2. /\ r.owner \in Accounts
          /\ <<m, t>> \in Sources
          /\ "deliveryReceipt" \in Kinds
          /\ t \in Nat
        BY StoreAssumption DEF IInv, TypeOK, Rows, Sources, Kinds
    <2>3. /\ deliveryReceipts' \in [Messages \X Accounts -> Nat]
          /\ UNCHANGED <<accounts, conversations, messages, reads, readReceipts>>
        BY <1>9, <2>2 DEF MarkMessageDelivered, IInv, TypeOK
    <2>4. CASE Stored(r.owner, "deliveryReceipt", <<m, t>>)
        BY <2>1, <2>3, <2>4, OtherTablesKeepIInv DEF AppendEvent, IInv, TypeOK
    <2>5. CASE ~Stored(r.owner, "deliveryReceipt", <<m, t>>)
        <3>1. /\ Log!Append(r.owner)
              /\ log' \in [Accounts -> SUBSET Events]
              /\ cursors' \in [Accounts -> Nat]
            BY <2>1, <2>2, <2>5, AppendEventAppends DEF IInv
        <3>2. \A e \in log'[r.owner] \ log[r.owner] : e.kind # "message"
            BY <2>1, <2>2, <2>5 DEF AppendEvent, IInv, TypeOK
        <3> QED
            BY <2>2, <2>3, <3>1, <3>2, ReceiptsKeepIInv DEF IInv, TypeOK
    <2> QED
        BY <2>4, <2>5
<1>10. CASE UNCHANGED vars
    BY <1>10, OtherTablesKeepIInv DEF vars, IInv, TypeOK
<1> QED
    BY <1>1, <1>2, <1>3, <1>4, <1>5, <1>6, <1>7, <1>8, <1>9, <1>10
       DEF Next, Log!Next

-------------------------------------------------------------------------------
(* The strengthened invariant, from which the others follow, always holds. *)
THEOREM InductiveInvariant == Spec => []IInv
<1>1. Init => IInv
    BY InitEstablishesIInv
<1>2. IInv /\ [Next]_vars => IInv'
    BY NextKeepsIInv
<1> QED
    BY <1>1, <1>2, PTL DEF Spec

(* Type correctness of the tables, for every instance. *)
THEOREM TypeCorrect == Spec => []TypeOK
<1>1. IInv => TypeOK
    BY DEF IInv
<1> QED
    BY <1>1, InductiveInvariant, PTL

(* The cursors of an account's events are 1 to its cursor, each once, in   *)
(* every reachable state: what a client's "cursor + 1" test relies on.     *)
THEOREM LogDensity == Spec => []LogIsDense
<1>1. IInv => LogIsDense
    BY DEF IInv
<1> QED
    BY <1>1, InductiveInvariant, PTL

(* Rows and message events match one to one, through resends, duplicate    *)
(* deliveries, device copies and account deletion.                         *)
THEOREM RowsMatchEvents == Spec => []LogMirrorsRows
<1>1. IInv => LogMirrorsRows
    BY DEF IInv
<1> QED
    BY <1>1, InductiveInvariant, PTL

(* The store implements the abstract event log: every operation appends    *)
(* fresh, consecutively numbered events to one log, forgets a whole log,   *)
(* or leaves the logs alone.                                               *)
THEOREM StoreImplementsEventLog == Spec => ImplementsEventLog
<1>1. Init => Log!Init
    BY InitEstablishesIInv
<1>2. IInv /\ [Next]_vars => [Log!Next]_(Log!vars)
    BY NextKeepsIInv
<1> QED
    BY <1>1, <1>2, InductiveInvariant, PTL DEF Spec, Log!Spec, ImplementsEventLog

-------------------------------------------------------------------------------
(* Receipts.  While the sender of a message is there, the message has one  *)
(* reader: the peer of the sender's own row.  What a sender has heard of   *)
(* it rests on that reader's copy, read mark and receipt, or the reader    *)
(* has deleted the account.                                                *)
SentTo(m, s, b) == \E o \in messages : o.id = Own(m) /\ o.owner = s /\ o.peer = b

HeardOf(s, kind, m, t) ==
    \E b \in Accounts \ {s} :
        /\ SentTo(m, s, b)
        /\ \/ accounts[b] = "deleted"
           \/ /\ \E r \in messages :
                    /\ r.owner = b /\ r.peer = s /\ r.author = "them" /\ r.mid = m
                    /\ kind = "readReceipt" => r.createdAt <= t
              /\ kind = "readReceipt" => t <= readReceipts[<<m, b>>] /\ t <= reads[<<b, s>>]
              /\ kind = "deliveryReceipt" => deliveryReceipts[<<m, b>>] # 0

IdsAreUnique == \A r, q \in messages : r.id = q.id => r = q
OwnersLive ==
    /\ \A c \in conversations : Live(c[1])
    /\ \A r \in messages : Live(r.owner)
    /\ \A a \in Accounts : ~Live(a) => log[a] = {}
OneReader ==
    \A r \in messages : r.author = "them" =>
        /\ r.peer # r.owner
        /\ r.peer \in Accounts => accounts[r.peer] = "deleted" \/ SentTo(r.mid, r.peer, r.owner)
RowsInv == IdsAreUnique /\ OwnersLive /\ OneReader

ReceiptsHeard ==
    \A s \in Accounts : \A e \in log[s] : e.kind # "message" =>
        \E m \in Messages, t \in Times : e.source = <<m, t>> /\ HeardOf(s, e.kind, m, t)
DeliveredOnce ==
    \A s \in Accounts : \A e, f \in log[s] :
        e.kind = "deliveryReceipt" /\ f.kind = "deliveryReceipt" /\ e.source[1] = f.source[1]
            => e = f
ReceiptInv == RowsInv /\ ReceiptsHeard /\ ReadReceiptsGoForward /\ DeliveredOnce

(* What no step takes back, save with an account.                          *)
NothingIsTakenBack ==
    /\ \A b \in Accounts : accounts[b] = "deleted" => accounts'[b] = "deleted"
    /\ \A r \in messages : r \in messages' \/ accounts'[r.owner] = "deleted"
    /\ \A b \in Accounts : accounts'[b] # "deleted" =>
          /\ \A m \in Messages :
                /\ readReceipts[<<m, b>>] <= readReceipts'[<<m, b>>]
                /\ deliveryReceipts[<<m, b>>] # 0 => deliveryReceipts'[<<m, b>>] # 0
          /\ \A s \in Accounts : reads[<<b, s>>] <= reads'[<<b, s>>]

(* What was heard stays true.                                              *)
LEMMA HeardStays ==
    ASSUME TypeOK, TypeOK', NothingIsTakenBack, NEW s \in Accounts, accounts'[s] # "deleted",
           NEW kind, NEW m \in Messages, NEW t \in Times, HeardOf(s, kind, m, t)
    PROVE  HeardOf(s, kind, m, t)'
<1>1. PICK b \in Accounts \ {s} :
        /\ SentTo(m, s, b)
        /\ \/ accounts[b] = "deleted"
           \/ /\ \E r \in messages :
                    /\ r.owner = b /\ r.peer = s /\ r.author = "them" /\ r.mid = m
                    /\ kind = "readReceipt" => r.createdAt <= t
              /\ kind = "readReceipt" => t <= readReceipts[<<m, b>>] /\ t <= reads[<<b, s>>]
              /\ kind = "deliveryReceipt" => deliveryReceipts[<<m, b>>] # 0
    BY DEF HeardOf
<1>2. SentTo(m, s, b)'
    BY <1>1 DEF SentTo, NothingIsTakenBack, Own
<1>3. CASE accounts'[b] = "deleted"
    BY <1>2, <1>3 DEF HeardOf
<1>4. CASE accounts'[b] # "deleted"
    <2>1. accounts[b] # "deleted"
        BY <1>4 DEF NothingIsTakenBack
    <2>2. \E r \in messages' :
            /\ r.owner = b /\ r.peer = s /\ r.author = "them" /\ r.mid = m
            /\ kind = "readReceipt" => r.createdAt <= t
        BY <1>1, <1>4, <2>1 DEF NothingIsTakenBack
    <2>3. /\ readReceipts[<<m, b>>] \in Nat /\ readReceipts'[<<m, b>>] \in Nat
          /\ reads[<<b, s>>] \in Nat /\ reads'[<<b, s>>] \in Nat /\ t \in Nat
        BY StoreAssumption DEF TypeOK, Peers
    <2>4. /\ readReceipts[<<m, b>>] <= readReceipts'[<<m, b>>]
          /\ deliveryReceipts[<<m, b>>] # 0 => deliveryReceipts'[<<m, b>>] # 0
          /\ reads[<<b, s>>] <= reads'[<<b, s>>]
        BY <1>4 DEF NothingIsTakenBack
    <2>5. /\ kind = "readReceipt" => t <= readReceipts'[<<m, b>>] /\ t <= reads'[<<b, s>>]
          /\ kind = "deliveryReceipt" => deliveryReceipts'[<<m, b>>] # 0
        BY <1>1, <2>1, <2>3, <2>4
    <2> QED
        BY <1>2, <2>2, <2>5 DEF HeardOf
<1> QED
    BY <1>3, <1>4

(* A new receipt is true, and the only one of its message but for read     *)
(* receipts of an earlier time.                                            *)
IsNews(s, e) ==
    \E m \in Messages, t \in Times :
        /\ e.source = <<m, t>> /\ HeardOf(s, e.kind, m, t)'
        /\ \A f \in log'[s] : f.kind = e.kind /\ f.source[1] = m =>
              f = e \/ (e.kind = "readReceipt" /\ f \in log[s] /\ f.source[2] < t)

LEMMA NewEventsComeLast ==
    ASSUME IInv, IInv', [Log!Next]_(Log!vars), NEW s \in Accounts, NEW e \in log'[s] \ log[s]
    PROVE  \A f \in log[s] : f.cursor < e.cursor
<1> SUFFICES ASSUME NEW f \in log[s] PROVE f.cursor < e.cursor
    OBVIOUS
<1>1. f.cursor \in 1..cursors[s] /\ cursors[s] \in Nat
    BY DEF IInv, TypeOK, LogIsDense
<1>2. PICK a \in Accounts : Log!Append(a) \/ Log!Forget(a)
    BY DEF Log!Next, Log!vars
<1>3. Log!Append(s)
    BY <1>2 DEF Log!Append, Log!Forget, IInv, TypeOK
<1>4. e.cursor \in (cursors[s] + 1)..cursors'[s] /\ cursors'[s] \in Nat
    BY <1>3 DEF Log!Append, IInv, TypeOK
<1> QED
    BY <1>1, <1>4

LEMMA NewsKeepsReceiptInv ==
    ASSUME IInv, IInv', ReceiptInv, RowsInv', NothingIsTakenBack, [Log!Next]_(Log!vars),
           \A s \in Accounts : \A e \in log'[s] \ log[s] : e.kind # "message" => IsNews(s, e)
    PROVE  ReceiptInv'
<1>1. ReceiptsHeard'
    <2> SUFFICES ASSUME NEW s \in Accounts, NEW e \in log'[s], e.kind # "message"
                 PROVE  \E m \in Messages, t \in Times :
                            e.source = <<m, t>> /\ HeardOf(s, e.kind, m, t)'
        BY DEF ReceiptsHeard
    <2>1. accounts'[s] # "deleted"
        BY DEF RowsInv, OwnersLive, Live
    <2>2. CASE e \in log[s]
        <3>1. PICK m \in Messages, t \in Times : e.source = <<m, t>> /\ HeardOf(s, e.kind, m, t)
            BY <2>2 DEF ReceiptInv, ReceiptsHeard
        <3> QED
            BY <2>1, <3>1, HeardStays DEF IInv
    <2>3. CASE e \notin log[s]
        BY <2>3 DEF IsNews
    <2> QED
        BY <2>2, <2>3
<1>2. ReadReceiptsGoForward'
    <2> SUFFICES ASSUME NEW s \in Accounts, NEW e \in log'[s], NEW f \in log'[s],
                        e.kind = "readReceipt", f.kind = "readReceipt",
                        e.source[1] = f.source[1], e.cursor < f.cursor
                 PROVE  e.source[2] < f.source[2]
        BY DEF ReadReceiptsGoForward
    <2>1. CASE e \in log[s] /\ f \in log[s]
        BY <2>1 DEF ReceiptInv, ReadReceiptsGoForward
    <2>2. CASE f \notin log[s]
        <3>1. PICK m \in Messages, t \in Times :
                /\ f.source = <<m, t>>
                /\ \A g \in log'[s] : g.kind = f.kind /\ g.source[1] = m =>
                      g = f \/ (f.kind = "readReceipt" /\ g \in log[s] /\ g.source[2] < t)
            BY <2>2 DEF IsNews
        <3>2. e # f
            <4>1. f.cursor \in Nat
                BY DEF IInv, TypeOK, Events
            <4> QED
                BY <4>1
        <3>3. e.source[1] = m /\ f.source[2] = t
            BY <3>1
        <3> QED
            BY <3>1, <3>2, <3>3
    <2>3. CASE e \notin log[s] /\ f \in log[s]
        <3>1. f.cursor < e.cursor
            BY <2>3, NewEventsComeLast
        <3>2. f.cursor \in Nat /\ e.cursor \in Nat
            BY DEF IInv, TypeOK, Events
        <3> QED
            BY <3>1, <3>2
    <2> QED
        BY <2>1, <2>2, <2>3
<1>3. DeliveredOnce'
    <2> SUFFICES ASSUME NEW s \in Accounts, NEW e \in log'[s], NEW f \in log'[s],
                        e.kind = "deliveryReceipt", f.kind = "deliveryReceipt",
                        e.source[1] = f.source[1]
                 PROVE  e = f
        BY DEF DeliveredOnce
    <2>1. CASE e \in log[s] /\ f \in log[s]
        BY <2>1 DEF ReceiptInv, DeliveredOnce
    <2>2. ASSUME NEW g \in log'[s], NEW h \in log'[s], g \notin log[s],
                 g.kind = "deliveryReceipt", h.kind = "deliveryReceipt", g.source[1] = h.source[1]
          PROVE  g = h
        <3>1. PICK m \in Messages, t \in Times :
                /\ g.source = <<m, t>>
                /\ \A x \in log'[s] : x.kind = g.kind /\ x.source[1] = m =>
                      x = g \/ (g.kind = "readReceipt" /\ x \in log[s] /\ x.source[2] < t)
            BY <2>2 DEF IsNews
        <3>2. g.source[1] = m
            BY <3>1
        <3> QED
            BY <2>2, <3>1, <3>2
    <2> QED
        BY <2>1, <2>2
<1> QED
    BY <1>1, <1>2, <1>3 DEF ReceiptInv

(* A row that joins the others, with its message event.                    *)
LEMMA InsertRowKeepsReceiptInv ==
    ASSUME IInv, IInv', ReceiptInv, [Log!Next]_(Log!vars),
           NEW id \in RowIds, NEW a \in Accounts, NEW p \in Peers,
           NEW author \in {"me", "them"}, NEW m \in Messages, NEW t \in Times,
           ~RowExists(id), InsertRow(id, a, p, author, m, t), Live(a),
           \A c \in conversations' : c \in conversations \/ c[1] = a,
           UNCHANGED <<accounts, reads, readReceipts, deliveryReceipts>>,
           author = "them" =>
              /\ p # a
              /\ p \in Accounts => accounts[p] = "deleted" \/ SentTo(m, p, a)
    PROVE  ReceiptInv'
<1> DEFINE row == [id |-> id, owner |-> a, peer |-> p,
                   author |-> author, mid |-> m, createdAt |-> t]
<1>1. messages' = messages \cup {row} /\ AppendEvent(a, "message", id)
    BY DEF InsertRow
<1>2. /\ row.id = id /\ row.owner = a /\ row.peer = p /\ row.author = author /\ row.mid = m
      /\ log \in [Accounts -> SUBSET Events]
    BY DEF IInv, TypeOK
<1>3. \A s \in Accounts : \A e \in log'[s] \ log[s] : s = a /\ e.kind = "message"
    BY <1>1, <1>2 DEF AppendEvent
<1>4. \A s \in Accounts \ {a} : log'[s] = log[s]
    BY <1>1, <1>2 DEF AppendEvent
<1> HIDE DEF row
<1>5. \A l \in Messages, s \in Accounts, b \in Accounts : SentTo(l, s, b) => SentTo(l, s, b)'
    BY <1>1 DEF SentTo, Own
<1>6. IdsAreUnique'
    BY <1>1, <1>2 DEF ReceiptInv, RowsInv, IdsAreUnique, RowExists
<1>7. OwnersLive'
    BY <1>1, <1>2, <1>4 DEF ReceiptInv, RowsInv, OwnersLive, Live
<1>8. OneReader'
    <2> SUFFICES ASSUME NEW r \in messages', r.author = "them"
                 PROVE  /\ r.peer # r.owner
                        /\ r.peer \in Accounts =>
                              accounts'[r.peer] = "deleted" \/ SentTo(r.mid, r.peer, r.owner)'
        BY DEF OneReader
    <2>1. CASE r \in messages
        BY <1>5, <2>1 DEF ReceiptInv, RowsInv, OneReader, IInv, TypeOK, Rows
    <2>2. CASE r = row
        BY <1>2, <1>5, <2>2
    <2> QED
        BY <1>1, <2>1, <2>2
<1>9. NothingIsTakenBack
    BY <1>1 DEF NothingIsTakenBack, IInv, TypeOK, Peers
<1> QED
    BY <1>3, <1>6, <1>7, <1>8, <1>9, NewsKeepsReceiptInv DEF RowsInv

(* The row a sender's own message is, and whom it went to.                 *)
LEMMA ReaderIsTheirs ==
    ASSUME IInv, RowsInv, NEW r \in messages, r.author = "them",
           NEW o \in messages, o.id = Own(r.mid)
    PROVE  /\ r.peer \in Accounts \ {r.owner} /\ o.owner = r.peer /\ o.peer = r.owner
           /\ SentTo(r.mid, r.peer, r.owner) /\ Live(r.owner)
<1>1. r.mid \in Messages /\ SenderOf[r.mid] = r.peer /\ r.owner \in Accounts
    BY DEF IInv, TypeOK, Rows, RowsWellFormed
<1>2. o.owner = r.peer /\ o.owner \in Accounts /\ Live(o.owner)
    BY <1>1 DEF IInv, TypeOK, Rows, RowsWellFormed, RowsInv, OwnersLive
<1>3. SentTo(r.mid, r.peer, r.owner) /\ r.peer # r.owner
    BY <1>2 DEF RowsInv, OneReader, Live
<1>4. o.peer = r.owner
    BY <1>3 DEF SentTo, RowsInv, IdsAreUnique
<1> QED
    BY <1>1, <1>2, <1>3, <1>4 DEF RowsInv, OwnersLive

(* Whoever a message was sent to, it was sent to nobody else.              *)
LEMMA SentToOne ==
    ASSUME RowsInv, NEW m, NEW s, NEW b, NEW c, SentTo(m, s, b), SentTo(m, s, c)
    PROVE  b = c
BY DEF RowsInv, IdsAreUnique, SentTo

LEMMA ReadKeepsReceiptInv ==
    ASSUME IInv, IInv', ReceiptInv, [Log!Next]_(Log!vars),
           NEW a \in Accounts, NEW p \in Accounts \cup RemotePeers, NEW t \in Times,
           MarkConversationRead(a, p, t)
    PROVE  ReceiptInv'
<1> DEFINE seen == {r.mid : r \in {r \in messages :
                       /\ r.owner = a /\ r.peer = p
                       /\ r.author = "them" /\ r.createdAt <= t}}
           changed == {m \in seen : Outdated(m, a, t)}
           told == {m \in changed : RowExists(Own(m))}
<1>1. /\ <<a, p>> \in conversations
      /\ reads' = [reads EXCEPT ![<<a, p>>] = Later(@, t)]
      /\ readReceipts' = [x \in Messages \X Accounts |->
            IF x[2] = a /\ x[1] \in changed THEN t ELSE readReceipts[x]]
      /\ IF told = {} THEN UNCHANGED <<log, cursors>> ELSE AppendReadReceipts(p, told, t)
      /\ UNCHANGED <<accounts, conversations, messages, deliveryReceipts>>
    BY DEF MarkConversationRead
<1>2. \A m \in changed : m \in Messages /\ readReceipts[<<m, a>>] < t
    BY DEF IInv, TypeOK, Rows, Outdated
<1>3. told \subseteq changed
    OBVIOUS
<1>4. \A m \in told :
        \E r \in messages :
            /\ r.owner = a /\ r.peer = p /\ r.author = "them" /\ r.createdAt <= t /\ r.mid = m
            /\ \E o \in messages : o.id = Own(m)
    BY DEF RowExists
<1> HIDE DEF changed, told
<1>5. RowsInv /\ RowsInv' /\ Live(a)
    <2>1. RowsInv /\ Live(a)
        BY <1>1 DEF ReceiptInv, RowsInv, OwnersLive
    <2>2. IdsAreUnique' /\ OneReader'
        BY <1>1, <2>1 DEF RowsInv, IdsAreUnique, OneReader, SentTo, Own
    <2>3. \A s \in Accounts : ~Live(s) => log'[s] = {}
        <3>1. CASE told = {}
            BY <1>1, <2>1, <3>1 DEF RowsInv, OwnersLive
        <3>2. CASE told # {}
            <4>1. p \in Accounts /\ Live(p)
                <5>1. PICK m \in told : TRUE
                    BY <3>2
                <5>2. PICK r \in messages :
                        /\ r.owner = a /\ r.peer = p /\ r.author = "them" /\ r.mid = m
                        /\ \E o \in messages : o.id = Own(m)
                    BY <1>4, <5>1
                <5>3. PICK o \in messages : o.id = Own(r.mid)
                    BY <5>2
                <5>4. r.peer \in Accounts /\ o.owner = r.peer
                    BY <2>1, <5>2, <5>3, ReaderIsTheirs
                <5> QED
                    BY <2>1, <5>2, <5>4 DEF RowsInv, OwnersLive
            <4>2. \A s \in Accounts \ {p} : log'[s] = log[s]
                BY <1>1, <3>2 DEF AppendReadReceipts, IInv, TypeOK
            <4> QED
                BY <2>1, <4>1, <4>2 DEF RowsInv, OwnersLive
        <3> QED
            BY <3>1, <3>2
    <2> QED
        BY <1>1, <2>1, <2>2, <2>3 DEF RowsInv, OwnersLive, Live
<1>6. t \in Nat /\ reads' \in [Accounts \X Peers -> Nat]
      /\ readReceipts' \in [Messages \X Accounts -> Nat]
    BY StoreAssumption DEF IInv, TypeOK
<1>7. NothingIsTakenBack
    <2>1. \A x \in Accounts \X Peers : reads[x] <= reads'[x]
        BY <1>1, <1>6 DEF IInv, TypeOK, Later
    <2>2. \A x \in Messages \X Accounts : readReceipts[x] <= readReceipts'[x]
        <3> SUFFICES ASSUME NEW m \in Messages, NEW b \in Accounts
                     PROVE  readReceipts[<<m, b>>] <= readReceipts'[<<m, b>>]
            OBVIOUS
        <3>1. readReceipts'[<<m, b>>] =
                 IF b = a /\ m \in changed THEN t ELSE readReceipts[<<m, b>>]
            BY <1>1
        <3>2. readReceipts[<<m, b>>] \in Nat
            BY DEF IInv, TypeOK
        <3> QED
            BY <1>2, <1>6, <3>1, <3>2
    <2> QED
        BY <1>1, <2>1, <2>2 DEF NothingIsTakenBack, Peers
<1>8. ASSUME NEW s \in Accounts, NEW e \in log'[s] \ log[s], e.kind # "message"
      PROVE  IsNews(s, e)
    <2>1. told # {} /\ AppendReadReceipts(p, told, t)
        BY <1>1, <1>8
    <2>2. told \in SUBSET Messages
        BY <1>2, <1>3
    <2>3. s = p
        BY <1>8, <2>1 DEF AppendReadReceipts, IInv, TypeOK
    <2>4. PICK m \in told : e.source = <<m, t>>
        BY <1>8, <2>1, <2>2, <2>3, AppendReadReceiptsAppends DEF IInv
    <2>5. e.kind = "readReceipt"
        BY <1>8, <2>1, <2>2, <2>3, AppendReadReceiptsAppends DEF IInv
    <2>6. m \in Messages /\ m \in changed /\ readReceipts[<<m, a>>] < t
        BY <1>2, <1>3
    <2>7. PICK r \in messages :
            /\ r.owner = a /\ r.peer = p /\ r.author = "them" /\ r.createdAt <= t /\ r.mid = m
            /\ \E o \in messages : o.id = Own(m)
        BY <1>4
    <2>8. PICK o \in messages : o.id = Own(r.mid)
        BY <2>7
    <2>9. p # a /\ SentTo(m, p, a) /\ accounts[a] # "deleted"
        BY <1>5, <2>7, <2>8, ReaderIsTheirs DEF Live
    <2>10. readReceipts'[<<m, a>>] = t
        BY <1>1, <2>6
    <2>11. t <= reads'[<<a, p>>]
        BY <1>1, <1>6 DEF Later, IInv, TypeOK, Peers
    <2>12. HeardOf(p, "readReceipt", m, t)'
        <3>1. SentTo(m, p, a)'
            BY <1>1, <2>9 DEF SentTo, Own
        <3>2. r \in messages'
            BY <1>1
        <3> QED
            BY <1>6, <2>3, <2>7, <2>9, <2>10, <2>11, <3>1, <3>2 DEF HeardOf
    <2>13. ASSUME NEW f \in log'[s], f.kind = "readReceipt", f.source[1] = m
           PROVE  f = e \/ (f \in log[s] /\ f.source[2] < t)
        <3>1. CASE f \in log[s]
            <4>1. PICK l \in Messages, u \in Times :
                    f.source = <<l, u>> /\ HeardOf(s, "readReceipt", l, u)
                BY <2>13, <3>1 DEF ReceiptInv, ReceiptsHeard
            <4>2. l = m /\ f.source[2] = u
                BY <2>13, <4>1
            <4>3. PICK b \in Accounts \ {s} :
                    /\ SentTo(m, s, b)
                    /\ accounts[b] = "deleted" \/ u <= readReceipts[<<m, b>>]
                BY <4>1, <4>2 DEF HeardOf
            <4>4. b = a
                BY <1>5, <2>3, <2>9, <4>3, SentToOne
            <4>5. u <= readReceipts[<<m, a>>]
                BY <2>9, <4>3, <4>4
            <4>6. readReceipts[<<m, a>>] \in Nat /\ u \in Nat
                BY <2>6, StoreAssumption DEF IInv, TypeOK
            <4> QED
                BY <1>6, <2>6, <3>1, <4>2, <4>5, <4>6
        <3>2. CASE f \notin log[s]
            <4>1. PICK l \in told : f.source = <<l, t>>
                BY <2>1, <2>2, <2>3, <3>2, AppendReadReceiptsAppends DEF IInv
            <4>2. f.source = e.source
                BY <2>4, <2>13, <4>1
            <4> QED
                BY <2>5, <2>13, <4>2 DEF IInv, LogMirrorsRows
        <3> QED
            BY <3>1, <3>2
    <2> QED
        BY <2>3, <2>4, <2>5, <2>6, <2>12, <2>13 DEF IsNews
<1> QED
    BY <1>5, <1>7, <1>8, NewsKeepsReceiptInv

LEMMA DeliveredKeepsReceiptInv ==
    ASSUME IInv, IInv', ReceiptInv, [Log!Next]_(Log!vars),
           NEW b \in Accounts, NEW m \in Messages, NEW t \in Times,
           MarkMessageDelivered(b, m, t)
    PROVE  ReceiptInv'
<1>1. PICK r \in messages : r.owner = b /\ r.author = "them" /\ r.mid = m
    BY DEF MarkMessageDelivered
<1>2. PICK o \in messages :
         o.id = Own(m) /\ AppendEvent(o.owner, "deliveryReceipt", <<m, t>>)
    BY DEF MarkMessageDelivered
<1> DEFINE s == o.owner
<1>3. /\ deliveryReceipts[<<m, b>>] = 0
      /\ deliveryReceipts' = [deliveryReceipts EXCEPT ![<<m, b>>] = t]
      /\ UNCHANGED <<accounts, conversations, messages, reads, readReceipts>>
    BY DEF MarkMessageDelivered, FirstAck
<1>4. /\ s \in Accounts \ {b} /\ r.peer = s /\ SentTo(m, s, b) /\ Live(b) /\ Live(s)
    BY <1>1, <1>2, ReaderIsTheirs DEF ReceiptInv, RowsInv, OwnersLive
<1>5. \A c \in Accounts \ {s} : log'[c] = log[c]
    BY <1>2, <1>4 DEF AppendEvent, IInv, TypeOK
<1>6. \A e \in log'[s] \ log[s] : e.kind = "deliveryReceipt" /\ e.source = <<m, t>>
    BY <1>2, <1>4 DEF AppendEvent, IInv, TypeOK
<1> HIDE DEF s
<1>7. RowsInv'
    BY <1>3, <1>4, <1>5
       DEF ReceiptInv, RowsInv, IdsAreUnique, OneReader, OwnersLive, SentTo, Own, Live
<1>8. t \in Nat \ {0}
    BY StoreAssumption
<1>9. NothingIsTakenBack
    BY <1>3, <1>8 DEF NothingIsTakenBack, IInv, TypeOK, Peers
<1>10. ASSUME NEW c \in Accounts, NEW e \in log'[c] \ log[c], e.kind # "message"
       PROVE  IsNews(c, e)
    <2>1. c = s /\ e.kind = "deliveryReceipt" /\ e.source = <<m, t>>
        BY <1>5, <1>6, <1>10
    <2>2. HeardOf(s, "deliveryReceipt", m, t)'
        <3>1. SentTo(m, s, b)' /\ r \in messages' /\ deliveryReceipts'[<<m, b>>] # 0
            BY <1>3, <1>4, <1>8 DEF SentTo, Own, IInv, TypeOK
        <3> QED
            BY <1>1, <1>4, <3>1 DEF HeardOf
    <2>3. ASSUME NEW f \in log'[s], f.kind = "deliveryReceipt", f.source[1] = m
          PROVE  f = e
        <3>1. CASE f \in log[s]
            <4>1. PICK l \in Messages, u \in Times :
                    f.source = <<l, u>> /\ HeardOf(s, "deliveryReceipt", l, u)
                BY <1>4, <2>3, <3>1 DEF ReceiptInv, ReceiptsHeard
            <4>2. l = m
                BY <2>3, <4>1
            <4>3. PICK c2 \in Accounts \ {s} :
                    /\ SentTo(m, s, c2)
                    /\ accounts[c2] = "deleted" \/ deliveryReceipts[<<m, c2>>] # 0
                BY <4>1, <4>2 DEF HeardOf
            <4>4. c2 = b
                BY <1>4, <4>3, SentToOne DEF ReceiptInv
            <4> QED
                BY <1>3, <1>4, <4>3, <4>4 DEF Live
        <3>2. CASE f \notin log[s]
            BY <1>4, <1>6, <2>1, <3>2 DEF IInv, LogMirrorsRows
        <3> QED
            BY <3>1, <3>2
    <2> QED
        BY <2>1, <2>2, <2>3 DEF IsNews
<1> QED
    BY <1>7, <1>9, <1>10, NewsKeepsReceiptInv

LEMMA DeleteKeepsReceiptInv ==
    ASSUME IInv, IInv', ReceiptInv, [Log!Next]_(Log!vars), NEW a \in Accounts, DeleteAccount(a)
    PROVE  ReceiptInv'
<1>1. /\ accounts' = [accounts EXCEPT ![a] = "deleted"]
      /\ conversations' = {c \in conversations : c[1] # a}
      /\ messages' = {r \in messages : r.owner # a}
      /\ log' = [log EXCEPT ![a] = {}]
      /\ reads' = [x \in Accounts \X Peers |-> IF x[1] = a THEN 0 ELSE reads[x]]
      /\ readReceipts' =
            [x \in Messages \X Accounts |-> IF x[2] = a THEN 0 ELSE readReceipts[x]]
      /\ deliveryReceipts' =
            [x \in Messages \X Accounts |-> IF x[2] = a THEN 0 ELSE deliveryReceipts[x]]
    BY DEF DeleteAccount
<1>2. /\ accounts'[a] = "deleted" /\ \A b \in Accounts \ {a} : accounts'[b] = accounts[b]
      /\ log'[a] = {} /\ \A b \in Accounts \ {a} : log'[b] = log[b]
    BY <1>1 DEF IInv, TypeOK
<1>3. NothingIsTakenBack
    <2>1. ASSUME NEW b \in Accounts, accounts'[b] # "deleted"
          PROVE  /\ \A m \in Messages :
                       /\ readReceipts[<<m, b>>] <= readReceipts'[<<m, b>>]
                       /\ deliveryReceipts[<<m, b>>] # 0 => deliveryReceipts'[<<m, b>>] # 0
                 /\ \A s \in Accounts : reads[<<b, s>>] <= reads'[<<b, s>>]
        <3>1. b # a
            BY <1>2, <2>1
        <3>2. \A m \in Messages : /\ readReceipts'[<<m, b>>] = readReceipts[<<m, b>>]
                                  /\ deliveryReceipts'[<<m, b>>] = deliveryReceipts[<<m, b>>]
                                  /\ readReceipts[<<m, b>>] \in Nat
            BY <1>1, <3>1 DEF IInv, TypeOK
        <3>3. \A s \in Accounts : reads'[<<b, s>>] = reads[<<b, s>>] /\ reads[<<b, s>>] \in Nat
            BY <1>1, <3>1 DEF IInv, TypeOK, Peers
        <3> QED
            BY <3>2, <3>3
    <2>2. \A r \in messages : r \in messages' \/ accounts'[r.owner] = "deleted"
        BY <1>1, <1>2
    <2> QED
        BY <1>2, <2>1, <2>2 DEF NothingIsTakenBack
<1>4. \A m \in Messages, s \in Accounts \ {a}, b \in Accounts : SentTo(m, s, b) => SentTo(m, s, b)'
    BY <1>1 DEF SentTo, Own
<1>5. IdsAreUnique' /\ OwnersLive'
    BY <1>1, <1>2 DEF ReceiptInv, RowsInv, IdsAreUnique, OwnersLive, Live, IInv, TypeOK, Rows
<1>6. OneReader'
    <2> SUFFICES ASSUME NEW r \in messages', r.author = "them"
                 PROVE  /\ r.peer # r.owner
                        /\ r.peer \in Accounts =>
                              accounts'[r.peer] = "deleted" \/ SentTo(r.mid, r.peer, r.owner)'
        BY DEF OneReader
    <2>1. r \in messages /\ r.mid \in Messages /\ r.owner \in Accounts
        BY <1>1 DEF IInv, TypeOK, Rows
    <2> QED
        BY <1>2, <1>4, <2>1 DEF ReceiptInv, RowsInv, OneReader
<1>7. \A s \in Accounts : log'[s] \ log[s] = {}
    BY <1>2
<1> QED
    BY <1>3, <1>5, <1>6, <1>7, NewsKeepsReceiptInv DEF RowsInv

(* A step that leaves rows, logs and receipts alone and deletes nobody.    *)
LEMMA OtherTablesKeepReceiptInv ==
    ASSUME IInv, IInv', ReceiptInv, [Log!Next]_(Log!vars),
           UNCHANGED <<messages, log, reads, readReceipts, deliveryReceipts>>,
           \A b \in Accounts : accounts'[b] = accounts[b]
                                 \/ (accounts[b] = "absent" /\ accounts'[b] = "live"),
           \A c \in conversations' : c \in conversations \/ accounts'[c[1]] = "live"
    PROVE  ReceiptInv'
<1>1. \A b \in Accounts : Live(b) => Live(b)'
    BY DEF Live
<1>2. IdsAreUnique' /\ OwnersLive'
    BY <1>1 DEF ReceiptInv, RowsInv, IdsAreUnique, OwnersLive, Live, IInv, TypeOK, Rows
<1>3. OneReader'
    <2> SUFFICES ASSUME NEW r \in messages, r.author = "them"
                 PROVE  /\ r.peer # r.owner
                        /\ r.peer \in Accounts =>
                              accounts'[r.peer] = "deleted" \/ SentTo(r.mid, r.peer, r.owner)'
        BY DEF OneReader
    <2>1. SentTo(r.mid, r.peer, r.owner) => SentTo(r.mid, r.peer, r.owner)'
        BY DEF SentTo, Own
    <2> QED
        BY <2>1 DEF ReceiptInv, RowsInv, OneReader
<1>4. NothingIsTakenBack
    BY DEF NothingIsTakenBack, IInv, TypeOK, Peers
<1> QED
    BY <1>2, <1>3, <1>4, NewsKeepsReceiptInv DEF RowsInv

LEMMA NextKeepsReceiptInv ==
    ASSUME IInv, ReceiptInv, [Next]_vars
    PROVE  ReceiptInv'
<1>0. IInv' /\ [Log!Next]_(Log!vars)
    BY NextKeepsIInv
<1>1. ASSUME NEW a \in Accounts, CreateAccount(a) PROVE ReceiptInv'
    <2>1. /\ accounts[a] = "absent" /\ accounts' = [accounts EXCEPT ![a] = "live"]
          /\ conversations' = conversations \cup {<<a, Official>>, <<a, Favorites>>}
          /\ UNCHANGED <<messages, log, reads, readReceipts, deliveryReceipts>>
        BY <1>1 DEF CreateAccount
    <2>2. accounts'[a] = "live" /\ \A b \in Accounts \ {a} : accounts'[b] = accounts[b]
        BY <2>1 DEF IInv, TypeOK
    <2>3. \A b \in Accounts : accounts'[b] = accounts[b]
                                 \/ (accounts[b] = "absent" /\ accounts'[b] = "live")
        BY <2>1, <2>2
    <2>4. \A c \in conversations' : c \in conversations \/ accounts'[c[1]] = "live"
        BY <2>1, <2>2 DEF Live
    <2> QED
        BY <1>0, <2>1, <2>3, <2>4, OtherTablesKeepReceiptInv
<1>2. ASSUME NEW a \in Accounts, DeleteAccount(a) PROVE ReceiptInv'
    BY <1>0, <1>2, DeleteKeepsReceiptInv
<1>3. ASSUME NEW a \in Accounts, NEW p \in Accounts \cup RemotePeers,
             CreateDirectConversation(a, p)
      PROVE  ReceiptInv'
    <2>1. /\ Live(a) /\ conversations' = conversations \cup {<<a, p>>}
          /\ UNCHANGED <<accounts, messages, log, reads, readReceipts, deliveryReceipts>>
        BY <1>3 DEF CreateDirectConversation
    <2>2. \A c \in conversations' : c \in conversations \/ accounts'[c[1]] = "live"
        BY <2>1 DEF Live
    <2>3. \A b \in Accounts : accounts'[b] = accounts[b]
                                 \/ (accounts[b] = "absent" /\ accounts'[b] = "live")
        BY <2>1
    <2> QED
        BY <1>0, <2>1, <2>2, <2>3, OtherTablesKeepReceiptInv
<1>4. ASSUME NEW a \in Accounts, NEW p \in Peers, NEW m \in Messages, NEW t \in Times,
             InsertMessage(a, p, m, t)
      PROVE  ReceiptInv'
    <2>1. Live(a)
        BY <1>4 DEF InsertMessage, ReceiptInv, RowsInv, OwnersLive
    <2>2. Own(m) \in RowIds /\ "me" \in {"me", "them"} /\ "me" # "them"
        BY DEF Own, RowIds
    <2> QED
        BY <1>0, <1>4, <2>1, <2>2, InsertRowKeepsReceiptInv DEF InsertMessage
<1>5. ASSUME NEW a \in Accounts, NEW p \in Peers, NEW m \in Messages, NEW k \in Keys,
             NEW t \in Times, InsertMessageCopy(a, p, m, k, t)
      PROVE  ReceiptInv'
    <2>1. Live(a)
        BY <1>5 DEF InsertMessageCopy, ReceiptInv, RowsInv, OwnersLive
    <2> QED
        BY <1>0, <1>5, <2>1, RowIdTypes, InsertRowKeepsReceiptInv DEF InsertMessageCopy
<1>6. ASSUME NEW b \in Accounts, NEW m \in Messages, NEW k \in Keys, NEW t \in Times,
             DeliverMessage(b, m, k, t)
      PROVE  ReceiptInv'
    <2> DEFINE p == SenderOf[m]
    <2>1. /\ p \in Peers /\ p # b
          /\ p \in Accounts => accounts[p] = "deleted" \/ SentTo(m, p, b)
        <3>1. p \in Accounts \cup RemotePeers
            BY StoreAssumption
        <3>2. p # b
            BY <1>6, StoreAssumption DEF DeliverMessage, Deliverable
        <3>3. ASSUME p \in Accounts, accounts[p] # "deleted" PROVE SentTo(m, p, b)
            <4>1. PICK o \in messages : o.id = Own(m) /\ o.peer = b
                BY <1>6, <3>3, StoreAssumption DEF DeliverMessage, Deliverable
            <4> QED
                BY <4>1 DEF SentTo, IInv, RowsWellFormed
        <3> QED
            BY <3>1, <3>2, <3>3 DEF Peers
    <2>2. /\ Live(b) /\ ~RowExists(Inbound(b, m, k)) /\ Inbound(b, m, k) \in RowIds
          /\ InsertRow(Inbound(b, m, k), b, p, "them", m, t)
          /\ conversations' = conversations \cup {<<b, p>>}
          /\ UNCHANGED <<accounts, reads, readReceipts, deliveryReceipts>>
        BY <1>6, RowIdTypes DEF DeliverMessage
    <2> HIDE DEF p
    <2> QED
        BY <1>0, <2>1, <2>2, InsertRowKeepsReceiptInv
<1>7. ASSUME NEW a \in Accounts, NEW m \in Messages, NEW k \in Keys,
             AddDeviceMessageCopy(a, m, k)
      PROVE  ReceiptInv'
    <2> DEFINE id == DeviceCopy(a, m, k)
    <2>1. PICK r \in messages :
            /\ r.owner = a
            /\ r.id = Own(m) \/ \E sk \in Keys : r.id = <<"inbound", a, m, sk>>
            /\ ~RowExists(id)
            /\ InsertRow(id, a, r.peer, r.author, m, r.createdAt)
            /\ UNCHANGED <<accounts, conversations, reads, readReceipts, deliveryReceipts>>
        BY <1>7 DEF AddDeviceMessageCopy
    <2> DEFINE p == r.peer
               author == r.author
               t == r.createdAt
    <2>2. /\ p \in Peers /\ author \in {"me", "them"} /\ t \in Times /\ r.mid = m /\ Live(a)
        BY <2>1 DEF IInv, TypeOK, Rows, RowsWellFormed, ReceiptInv, RowsInv, OwnersLive
    <2>3. author = "them" =>
             p # a /\ (p \in Accounts => accounts[p] = "deleted" \/ SentTo(m, p, a))
        BY <2>1, <2>2 DEF ReceiptInv, RowsInv, OneReader
    <2>4. id \in RowIds /\ ~RowExists(id) /\ InsertRow(id, a, p, author, m, t)
        BY <2>1, RowIdTypes
    <2> HIDE DEF id, p, author, t
    <2> QED
        BY <1>0, <2>1, <2>2, <2>3, <2>4, InsertRowKeepsReceiptInv
<1>8. ASSUME NEW a \in Accounts, NEW p \in Accounts \cup RemotePeers, NEW t \in Times,
             MarkConversationRead(a, p, t)
      PROVE  ReceiptInv'
    BY <1>0, <1>8, ReadKeepsReceiptInv
<1>9. ASSUME NEW b \in Accounts, NEW m \in Messages, NEW t \in Times,
             MarkMessageDelivered(b, m, t)
      PROVE  ReceiptInv'
    BY <1>0, <1>9, DeliveredKeepsReceiptInv
<1>10. CASE UNCHANGED vars
    <2>1. UNCHANGED <<accounts, conversations, messages, log, reads, readReceipts,
                      deliveryReceipts>>
        BY <1>10 DEF vars
    <2>2. \A c \in conversations' : c \in conversations \/ accounts'[c[1]] = "live"
        BY <2>1
    <2>3. \A b \in Accounts : accounts'[b] = accounts[b]
                                 \/ (accounts[b] = "absent" /\ accounts'[b] = "live")
        BY <2>1
    <2> QED
        BY <1>0, <2>1, <2>2, <2>3, OtherTablesKeepReceiptInv
<1> QED
    BY <1>1, <1>2, <1>3, <1>4, <1>5, <1>6, <1>7, <1>8, <1>9, <1>10 DEF Next

LEMMA InitEstablishesReceiptInv == Init => ReceiptInv
BY DEF Init, ReceiptInv, RowsInv, IdsAreUnique, OwnersLive, OneReader, ReceiptsHeard,
       ReadReceiptsGoForward, DeliveredOnce, Live

LEMMA ReceiptsAlways == Spec => [](IInv /\ ReceiptInv)
<1>1. Init => IInv /\ ReceiptInv
    BY InitEstablishesIInv, InitEstablishesReceiptInv
<1>2. IInv /\ ReceiptInv /\ [Next]_vars => IInv' /\ ReceiptInv'
    BY NextKeepsIInv, NextKeepsReceiptInv
<1> QED
    BY <1>1, <1>2, PTL DEF Spec

(* The read receipts a sender hears of one message go forward in time,     *)
(* for any clock: mark_conversation_read rewrites a receipt only when it   *)
(* is outdated, and a message has one reader.                              *)
THEOREM ReceiptsGoForward == Spec => []ReadReceiptsGoForward
<1>1. ReceiptInv => ReadReceiptsGoForward
    BY DEF ReceiptInv
<1> QED
    BY <1>1, ReceiptsAlways, PTL

(* Who hears "read at t" can rely on it: the reader has marked the         *)
(* conversation read up to t and holds a copy that t covers.               *)
THEOREM ReadReceiptsTrue == Spec => []ReadReceiptsAreTrue
<1>1. IInv /\ ReceiptInv => ReadReceiptsAreTrue
    <2> SUFFICES ASSUME IInv, ReceiptInv, NEW s \in Accounts, NEW e \in log[s],
                        e.kind = "readReceipt"
                 PROVE  \E b \in Accounts \ {s} :
                          \/ accounts[b] = "deleted"
                          \/ /\ reads[<<b, s>>] >= e.source[2]
                             /\ \E r \in messages :
                                  /\ r.owner = b /\ r.peer = s /\ r.author = "them"
                                  /\ r.mid = e.source[1] /\ r.createdAt <= e.source[2]
        BY DEF ReadReceiptsAreTrue
    <2>1. PICK m \in Messages, t \in Times : e.source = <<m, t>> /\ HeardOf(s, "readReceipt", m, t)
        BY DEF ReceiptInv, ReceiptsHeard
    <2>2. e.source[1] = m /\ e.source[2] = t
        BY <2>1
    <2>3. t \in Nat /\ \A b \in Accounts : reads[<<b, s>>] \in Nat
        BY StoreAssumption DEF IInv, TypeOK, Peers
    <2> QED
        BY <2>1, <2>2, <2>3 DEF HeardOf
<1> QED
    BY <1>1, ReceiptsAlways, PTL

(* A sender hears of one delivery of each message at most, and only when   *)
(* the peer holds a copy of it or has deleted the account.                 *)
THEOREM DeliveredOnceTruly == Spec => []DeliveredOnceAndTruly
<1>1. ReceiptInv => DeliveredOnceAndTruly
    <2> SUFFICES ASSUME ReceiptInv, NEW s \in Accounts, NEW m \in Messages, NEW e \in log[s],
                        e.kind = "deliveryReceipt", e.source[1] = m
                 PROVE  /\ \A f \in log[s] :
                              f.kind = "deliveryReceipt" /\ f.source[1] = m => e = f
                        /\ \E b \in Accounts \ {s} :
                              \/ accounts[b] = "deleted"
                              \/ \E r \in messages :
                                    r.owner = b /\ r.peer = s /\ r.author = "them" /\ r.mid = m
        BY DEF DeliveredOnceAndTruly
    <2>1. PICK l \in Messages, t \in Times :
            e.source = <<l, t>> /\ HeardOf(s, "deliveryReceipt", l, t)
        BY DEF ReceiptInv, ReceiptsHeard
    <2>2. l = m
        BY <2>1
    <2> QED
        BY <2>1, <2>2 DEF ReceiptInv, DeliveredOnce, HeardOf
<1> QED
    BY <1>1, ReceiptsAlways, PTL

-------------------------------------------------------------------------------
(* Paging.  The log is dense, so the events after `since` up to one of     *)
(* them are as many as the difference of their cursors.                    *)
LEMMA CountSince ==
    ASSUME LogIsDense, NEW a \in Accounts, cursors[a] \in Nat,
           NEW since \in 0..cursors[a], NEW e \in EventsSince(a, since)
    PROVE  /\ e.cursor \in Nat
           /\ Cardinality({f \in EventsSince(a, since) : f.cursor <= e.cursor})
                 = e.cursor - since
<1> DEFINE S == {f \in EventsSince(a, since) : f.cursor <= e.cursor}
           I == (since + 1)..e.cursor
           h == [c \in I |-> CHOOSE f \in S : f.cursor = c]
<1>1. /\ e \in log[a] /\ e.cursor > since
      /\ \A f \in log[a] : f.cursor \in 1..cursors[a]
      /\ \A c \in 1..cursors[a] : \E f \in log[a] : f.cursor = c
      /\ \A f, g \in log[a] : f.cursor = g.cursor => f = g
    <2>1. {f.cursor : f \in log[a]} = 1..cursors[a]
        BY DEF LogIsDense
    <2> QED
        BY <2>1 DEF LogIsDense, EventsSince
<1>2. e.cursor \in Nat /\ e.cursor > since /\ since \in Nat /\ e.cursor <= cursors[a]
    BY <1>1
<1>3. \A c \in I : \E f \in S : f.cursor = c
    BY <1>1, <1>2 DEF EventsSince
<1>4. \A f \in S : f.cursor \in I
    BY <1>1, <1>2 DEF EventsSince
<1>5. \A f, g \in S : f.cursor = g.cursor => f = g
    BY <1>1 DEF EventsSince
<1> HIDE DEF S
<1>6. \A c \in I : h[c] \in S /\ h[c].cursor = c
    BY <1>3
<1> HIDE DEF h, I
<1>7. h \in Bijection(I, S)
    <2>1. h \in [I -> S]
        BY <1>6 DEF h
    <2>2. \A c, d \in I : h[c] = h[d] => c = d
        BY <1>6
    <2>3. \A f \in S : \E c \in I : h[c] = f
        BY <1>4, <1>5, <1>6
    <2> QED
        BY <2>1, <2>2, <2>3 DEF Bijection, Injection, Surjection, IsInjective
<1>8. IsFiniteSet(I) /\ Cardinality(I) = e.cursor - since
    <2>1. \A x, y \in Int : IsFiniteSet(x..y)
                            /\ Cardinality(x..y) = IF x > y THEN 0 ELSE y - x + 1
        BY FS_Interval
    <2>2. since + 1 \in Int /\ e.cursor \in Int /\ ~(since + 1 > e.cursor)
        BY <1>2
    <2>3. IsFiniteSet(I) /\ Cardinality(I) = e.cursor - (since + 1) + 1
        BY <2>1, <2>2 DEF I
    <2> QED
        BY <1>2, <2>3
<1>9. Cardinality(S) = e.cursor - since
    BY <1>7, <1>8, FS_Bijection DEF ExistsBijection
<1> QED
    BY <1>2, <1>9 DEF S

(* So a page holds the events of the next MaxSyncEvents cursors. *)
LEMMA PageIsAnInterval ==
    ASSUME LogIsDense, NEW a \in Accounts, cursors[a] \in Nat, NEW since \in 0..cursors[a]
    PROVE  SyncPage(a, since) =
              {e \in log[a] : since < e.cursor /\ e.cursor <= since + MaxSyncEvents}
<1>1. \A e \in EventsSince(a, since) :
          /\ e.cursor \in Nat
          /\ Cardinality({f \in EventsSince(a, since) : f.cursor <= e.cursor})
                = e.cursor - since
    BY CountSince
<1>2. \A e \in EventsSince(a, since) : e \in SyncPage(a, since)
                                         <=> e.cursor - since <= MaxSyncEvents
    BY <1>1 DEF SyncPage
<1>3. \A e \in EventsSince(a, since) : e \in SyncPage(a, since)
                                         <=> e.cursor <= since + MaxSyncEvents
    <2> SUFFICES ASSUME NEW e \in EventsSince(a, since)
                 PROVE  e.cursor - since <= MaxSyncEvents <=> e.cursor <= since + MaxSyncEvents
        BY <1>2
    <2>1. e.cursor \in Nat
        BY <1>1
    <2>2. since \in Nat
        OBVIOUS
    <2>3. MaxSyncEvents \in Nat
        BY StoreAssumption
    <2> QED
        BY <2>1, <2>2, <2>3
<1>4. {e.cursor : e \in log[a]} = 1..cursors[a]
    BY DEF LogIsDense
<1>5. \A e \in log[a] : e.cursor \in Nat
    BY <1>4
<1>6. \A e \in log[a] : e \in EventsSince(a, since) <=> since < e.cursor
    BY <1>5 DEF EventsSince
<1>7. SyncPage(a, since) \subseteq EventsSince(a, since)
    BY DEF SyncPage
<1>8. EventsSince(a, since) \subseteq log[a]
    BY DEF EventsSince
<1> QED
    BY <1>3, <1>6, <1>7, <1>8

(* A client that pages from the cursor it got never skips an event and     *)
(* always gets on: what sync returns covers the log up to its cursor.      *)
THEOREM PagingSkipsNothing == Spec => []PagesDoNotSkip
<1>1. IInv => PagesDoNotSkip
    <2> SUFFICES ASSUME IInv, NEW a \in Accounts, NEW since \in 0..cursors[a]
                 PROVE  /\ SyncPage(a, since) =
                              {e \in log[a] : /\ since < e.cursor
                                              /\ e.cursor <= SyncCursor(a, since)}
                        /\ since < cursors[a] => SyncCursor(a, since) > since
        BY DEF PagesDoNotSkip
    <2> DEFINE P == SyncPage(a, since)
               top == IF cursors[a] <= since + MaxSyncEvents
                      THEN cursors[a] ELSE since + MaxSyncEvents
    <2>1. /\ cursors[a] \in Nat /\ since \in Nat /\ since <= cursors[a]
          /\ MaxSyncEvents \in Nat \ {0} /\ LogIsDense
        BY StoreAssumption DEF IInv, TypeOK
    <2>2. P = {e \in log[a] : since < e.cursor /\ e.cursor <= since + MaxSyncEvents}
        BY <2>1, PageIsAnInterval
    <2>3. {e.cursor : e \in log[a]} = 1..cursors[a]
        BY <2>1 DEF LogIsDense
    <2>4. /\ \A e \in log[a] : e.cursor \in Nat /\ e.cursor <= cursors[a]
          /\ top \in Nat /\ top <= cursors[a]
        BY <2>1, <2>3
    <2>5. P = {e \in log[a] : since < e.cursor /\ e.cursor <= top}
        BY <2>1, <2>2, <2>4
    <2>6. ASSUME since < cursors[a] PROVE since < top /\ \E e \in P : e.cursor = top
        <3>1. since < top /\ top \in 1..cursors[a]
            BY <2>1, <2>6
        <3>2. PICK e \in log[a] : e.cursor = top
            BY <2>3, <3>1
        <3> QED
            BY <2>4, <2>5, <3>1, <3>2
    <2> HIDE DEF P, top
    <2>7. CASE since < cursors[a]
        <3>1. PICK e \in P : e.cursor = top
            BY <2>6, <2>7
        <3>2. P # {} /\ top \in {f.cursor : f \in P} /\ \A f \in P : f.cursor <= top
            BY <2>5, <3>1
        <3>3. \A c \in {f.cursor : f \in P} : (\A f \in P : f.cursor <= c) => c = top
            BY <2>4, <2>5, <3>1
        <3> DEFINE Best(c) == \A f \in P : f.cursor <= c
        <3>4. (CHOOSE c \in {f.cursor : f \in P} : Best(c)) = top
            BY <3>2, <3>3
        <3>5. SyncCursor(a, since) = top
            BY <3>2, <3>4 DEF SyncCursor, P
        <3> QED
            BY <2>5, <2>6, <2>7, <3>5, <2>1, <2>4 DEF P
    <2>8. CASE ~(since < cursors[a])
        <3>1. since = cursors[a]
            BY <2>1, <2>8
        <3>2. P = {}
            BY <2>1, <2>4, <2>5, <3>1
        <3>3. SyncCursor(a, since) = cursors[a]
            BY <3>2 DEF SyncCursor, P
        <3> QED
            BY <2>1, <2>4, <3>1, <3>2, <3>3 DEF P
    <2> QED
        BY <2>7, <2>8
<1> QED
    BY <1>1, ReceiptsAlways, PTL
===============================================================================
