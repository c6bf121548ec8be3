------------------------------ MODULE ClientProofs ------------------------------
(***************************************************************************)
(* Proofs about two parts of the clients with a specification of their     *)
(* own: the outbox of the desktop client, which keeps the promise of       *)
(* OutboxPromise, and the preview extension.                               *)
(***************************************************************************)
EXTENDS DesktopOutbox, PreviewPanel, FiniteSetTheorems, SequenceTheorems, TLAPS

-------------------------------------------------------------------------------
(* Filtering: positions in their order.                                     *)
Rank(places, i) == Cardinality({j \in places : j <= i})

LEMMA FewPlaces ==
    ASSUME NEW N \in Nat, NEW places \in SUBSET (1..N)
    PROVE  /\ IsFiniteSet(places) /\ Cardinality(places) \in 0..N
           /\ \A i \in places : Rank(places, i) \in 1..Cardinality(places)
  <1>1. IsFiniteSet(1..N) /\ Cardinality(1..N) = N  BY FS_Interval
  <1>2. IsFiniteSet(places) /\ Cardinality(places) <= N  BY <1>1, FS_Subset
  <1>3. Cardinality(places) \in 0..N  BY <1>2, FS_CardinalityType
  <1>4. ASSUME NEW i \in places PROVE Rank(places, i) \in 1..Cardinality(places)
    <2> DEFINE before == {j \in places : j <= i}
    <2>1. IsFiniteSet(before) /\ Cardinality(before) <= Cardinality(places)
      BY <1>2, FS_Subset
    <2>2. i \in before  OBVIOUS
    <2>3. Cardinality(before) \in Nat /\ Cardinality(before) # 0
      BY <2>1, <2>2, FS_CardinalityType, FS_EmptySet
    <2>4. Cardinality(before) \in 1..Cardinality(places)  BY <1>3, <2>1, <2>3
    <2> QED  BY <2>4 DEF Rank
  <1> QED  BY <1>2, <1>3, <1>4

LEMMA RankRises ==
    ASSUME NEW N \in Nat, NEW places \in SUBSET (1..N), NEW i \in places, NEW j \in places, i < j
    PROVE  Rank(places, i) < Rank(places, j)
  <1> DEFINE before(k) == {x \in places : x <= k}
  <1>1. IsFiniteSet(places)  BY FewPlaces
  <1>2. IsFiniteSet(before(j)) /\ IsFiniteSet(before(i))  BY <1>1, FS_Subset
  <1>3. before(i) \subseteq before(j) /\ j \in before(j) /\ j \notin before(i)
    <2>1. i \in 1..N /\ j \in 1..N /\ \A x \in places : x \in 1..N  OBVIOUS
    <2>2. \A x \in places : x <= i => x <= j  BY <2>1
    <2>3. j <= j /\ ~(j <= i)  BY <2>1
    <2> QED  BY <2>2, <2>3
  <1>4. Cardinality(before(i)) <= Cardinality(before(j)) /\ Cardinality(before(i)) # Cardinality(before(j))
    BY <1>2, <1>3, FS_Subset
  <1>5. Cardinality(before(i)) \in Nat /\ Cardinality(before(j)) \in Nat
    BY <1>2, FS_CardinalityType
  <1> QED  BY <1>4, <1>5 DEF Rank

LEMMA NthIs ==
    ASSUME NEW N \in Nat, NEW places \in SUBSET (1..N)
    PROVE  /\ \A n \in 1..Cardinality(places) :
                  Nth(places, n) \in places /\ Rank(places, Nth(places, n)) = n
           /\ \A i \in places : Nth(places, Rank(places, i)) = i
  <1> DEFINE f == [i \in places |-> Rank(places, i)]
             K == Cardinality(places)
  <1>1. IsFiniteSet(places) /\ K \in Nat /\ \A i \in places : Rank(places, i) \in 1..K
    <2>1. K \in 0..N  BY FewPlaces
    <2>2. K \in Nat  BY <2>1
    <2> QED  BY <2>2, FewPlaces
  <1>2. ASSUME NEW i \in places, NEW j \in places, Rank(places, i) = Rank(places, j) PROVE i = j
    <2>1. i \in Nat /\ j \in Nat  OBVIOUS
    <2>2. ~(i < j) /\ ~(j < i)
      <3>1. Rank(places, i) \in Nat  BY <1>1
      <3> QED  BY <1>2, <3>1, RankRises
    <2> QED  BY <2>1, <2>2
  <1>3. f \in Injection(places, 1..K)  BY <1>1, <1>2 DEF Injection, IsInjective
  <1>4. IsFiniteSet(1..K) /\ Cardinality(1..K) = K  BY <1>1, FS_Interval
  <1>5. f \in Surjection(places, 1..K)  BY <1>3, <1>4, FS_Injection
  <1>6. \A n \in 1..K : \E i \in places : Rank(places, i) = n  BY <1>5 DEF Surjection
  <1>7. ASSUME NEW n \in 1..K
        PROVE  Nth(places, n) \in places /\ Rank(places, Nth(places, n)) = n
    <2>1. \E i \in places : Cardinality({j \in places : j <= i}) = n  BY <1>6 DEF Rank
    <2> QED  BY <2>1 DEF Nth, Rank
  <1>8. ASSUME NEW i \in places PROVE Nth(places, Rank(places, i)) = i
    <2>1. Rank(places, i) \in 1..K  BY <1>1
    <2> QED  BY <1>2, <1>7, <2>1
  <1> QED  BY <1>7, <1>8

(* What is kept of a queue is what was at the positions, in their order.    *)
LEMMA OnlyIs ==
    ASSUME NEW S, NEW queue \in Seq(S), NEW places \in SUBSET DOMAIN queue
    PROVE  /\ Only(queue, places) \in Seq(S)
           /\ Len(Only(queue, places)) = Cardinality(places) /\ Cardinality(places) <= Len(queue)
           /\ Cardinality(places) \in Nat /\ DOMAIN Only(queue, places) = 1..Cardinality(places)
           /\ \A n \in 1..Cardinality(places) :
                  /\ Nth(places, n) \in places /\ Only(queue, places)[n] = queue[Nth(places, n)]
                  /\ \A m \in 1..Cardinality(places) : Nth(places, m) = Nth(places, n) => m = n
           /\ \A i \in places : \E n \in 1..Cardinality(places) : Only(queue, places)[n] = queue[i]
  <1>1. Len(queue) \in Nat /\ DOMAIN queue = 1..Len(queue)  BY LenProperties
  <1>2. Cardinality(places) \in 0..Len(queue)  BY <1>1, FewPlaces
  <1>3. /\ \A n \in 1..Cardinality(places) :
               Nth(places, n) \in places /\ Rank(places, Nth(places, n)) = n
        /\ \A i \in places : Nth(places, Rank(places, i)) = i
    BY <1>1, NthIs
  <1>4. \A n \in 1..Cardinality(places) : queue[Nth(places, n)] \in S  BY <1>1, <1>3, ElementOfSeq
  <1>5. Cardinality(places) \in Nat  BY <1>2
  <1>6. Only(queue, places) \in [1..Cardinality(places) -> S]  BY <1>4 DEF Only
  <1>7. Only(queue, places) \in Seq(S) /\ Len(Only(queue, places)) = Cardinality(places)
        /\ DOMAIN Only(queue, places) = 1..Cardinality(places)
    BY <1>5, <1>6
  <1>8. \A n \in 1..Cardinality(places) : Only(queue, places)[n] = queue[Nth(places, n)]
    BY DEF Only
  <1>9. \A i \in places : Rank(places, i) \in 1..Cardinality(places)  BY <1>1, FewPlaces
  <1>10. \A i \in places : Only(queue, places)[Rank(places, i)] = queue[i]
    BY <1>3, <1>8, <1>9
  <1>11. \A n, m \in 1..Cardinality(places) : Nth(places, m) = Nth(places, n) => m = n
    BY <1>3
  <1>12. Cardinality(places) <= Len(queue)  BY <1>1, <1>2
  <1> QED  BY <1>3, <1>5, <1>7, <1>8, <1>9, <1>10, <1>11, <1>12

LEMMA OnlyAll ==
    ASSUME NEW S, NEW queue \in Seq(S)
    PROVE  Only(queue, DOMAIN queue) = queue
  <1> DEFINE K == DOMAIN queue
  <1>1. Len(queue) \in Nat /\ K = 1..Len(queue)  BY LenProperties
  <1>2. Cardinality(K) = Len(queue)  BY <1>1, FS_Interval
  <1>3. ASSUME NEW n \in 1..Len(queue) PROVE Nth(K, n) = n
    <2>1. {j \in 1..Len(queue) : j <= n} = 1..n  BY <1>1
    <2>2. Cardinality(1..n) = n  BY <1>1, FS_Interval
    <2>3. Rank(K, n) = n  BY <1>1, <2>1, <2>2 DEF Rank
    <2>4. K \in SUBSET (1..Len(queue)) /\ n \in K  BY <1>1
    <2> QED  BY <1>1, <2>3, <2>4, NthIs
  <1>4. /\ Only(queue, K) \in Seq(S) /\ Len(Only(queue, K)) = Len(queue)
        /\ \A n \in 1..Len(queue) : Only(queue, K)[n] = queue[n]
    BY <1>1, <1>2, <1>3, OnlyIs
  <1> QED  BY <1>4, SeqEqual

-------------------------------------------------------------------------------
(* The outbox.  Every copy of the queue has each message once, and no entry *)
(* that has used up its attempts without being blocked.                     *)
Entry == [id : Messages, attempts : Nat, blocked : BOOLEAN, due : BOOLEAN]
Fits(queue, most) ==
    /\ queue \in Seq(Entry) /\ Len(queue) <= MaxEntries
    /\ \A i, j \in DOMAIN queue : queue[i].id = queue[j].id => i = j
    /\ \A i \in DOMAIN queue : queue[i].blocked \/ queue[i].attempts < most
(* What a queue holds was taken, and its attempts were counted.             *)
Counts(queue, most, from, count) ==
    \A i \in DOMAIN queue :
        /\ queue[i].id \in from
        /\ queue[i].attempts <= count[queue[i].id] \/ count[queue[i].id] >= most
(* SanitizeOutbox, with the limit as a parameter.                           *)
Unspent(queue, most) == {i \in DOMAIN queue : queue[i].attempts < most}
Read(queue, most) ==
    LET left == Only(queue, Unspent(queue, most))
    IN  SubSeq(left, IF Len(left) > MaxEntries THEN Len(left) - MaxEntries + 1 ELSE 1,
               Len(left))

(* Filtering keeps all that, and takes no more than it says.                *)
LEMMA OnlyFits ==
    ASSUME NEW most, NEW queue, Fits(queue, most), NEW places \in SUBSET DOMAIN queue
    PROVE  /\ Fits(Only(queue, places), most)
           /\ IdsOf(Only(queue, places)) = {queue[i].id : i \in places}
           /\ \A from, count : Counts(queue, most, from, count) =>
                                   Counts(Only(queue, places), most, from, count)
           /\ \A n \in DOMAIN Only(queue, places) :
                  \E i \in places : Only(queue, places)[n] = queue[i]
  <1> DEFINE kept == Only(queue, places)
             K == Cardinality(places)
  <1>1. queue \in Seq(Entry) /\ Len(queue) \in Nat /\ Len(queue) <= MaxEntries
    BY LenProperties DEF Fits
  <1>2. /\ kept \in Seq(Entry) /\ Len(kept) = K /\ K <= Len(queue) /\ K \in Nat /\ DOMAIN kept = 1..K
        /\ \A n \in 1..K : /\ Nth(places, n) \in places /\ kept[n] = queue[Nth(places, n)]
                           /\ \A m \in 1..K : Nth(places, m) = Nth(places, n) => m = n
        /\ \A i \in places : \E n \in 1..K : kept[n] = queue[i]
    BY <1>1, OnlyIs
  <1>3. Len(kept) <= MaxEntries  BY <1>1, <1>2, OutboxAssumption
  <1>4. \A i, j \in DOMAIN kept : kept[i].id = kept[j].id => i = j
    <2> SUFFICES ASSUME NEW i \in 1..K, NEW j \in 1..K, kept[i].id = kept[j].id PROVE i = j
      BY <1>2
    <2>1. queue[Nth(places, i)].id = queue[Nth(places, j)].id
          /\ Nth(places, i) \in DOMAIN queue /\ Nth(places, j) \in DOMAIN queue
      BY <1>2
    <2>2. Nth(places, i) = Nth(places, j)  BY <2>1 DEF Fits
    <2> QED  BY <1>2, <2>2
  <1>5. \A i \in DOMAIN kept : kept[i].blocked \/ kept[i].attempts < most  BY <1>2 DEF Fits
  <1>6. \A n \in DOMAIN kept : \E i \in places : kept[n] = queue[i]  BY <1>2
  <1>7. IdsOf(kept) = {queue[i].id : i \in places}
    <2>1. ASSUME NEW x \in IdsOf(kept) PROVE x \in {queue[i].id : i \in places}
      BY <1>6 DEF IdsOf
    <2>2. ASSUME NEW i \in places PROVE queue[i].id \in IdsOf(kept)
      <3>1. PICK n \in DOMAIN kept : kept[n] = queue[i]  BY <1>2
      <3> QED  BY <3>1 DEF IdsOf
    <2> QED  BY <2>1, <2>2
  <1>8. \A from, count : Counts(queue, most, from, count) => Counts(kept, most, from, count)
    BY <1>6 DEF Counts
  <1> QED  BY <1>2, <1>3, <1>4, <1>5, <1>6, <1>7, <1>8 DEF Fits

(* A queue that fits is not cut; what was read is read as it is.            *)
LEMMA ReadIs ==
    ASSUME NEW most, NEW queue, Fits(queue, most)
    PROVE  Read(queue, most) = Only(queue, Unspent(queue, most))
  <1> DEFINE left == Only(queue, Unspent(queue, most))
  <1>1. Fits(left, most)  BY OnlyFits DEF Unspent
  <1>2. left \in Seq(Entry) /\ Len(left) <= MaxEntries /\ Len(left) \in Nat
    BY <1>1, LenProperties DEF Fits
  <1>3. ~(Len(left) > MaxEntries)  BY <1>2, OutboxAssumption
  <1>4. Read(queue, most) = SubSeq(left, 1, Len(left))  BY <1>3 DEF Read
  <1>5. SubSeq(left, 1, Len(left)) = left  BY <1>2, SubSeqFull
  <1> QED  BY <1>4, <1>5

LEMMA ReadFits ==
    ASSUME NEW most, NEW queue, Fits(queue, most)
    PROVE  /\ Fits(Read(queue, most), most) /\ IdsOf(Read(queue, most)) \subseteq IdsOf(queue)
           /\ \A from, count : Counts(queue, most, from, count) =>
                                   Counts(Read(queue, most), most, from, count)
           /\ Read(Read(queue, most), most) = Read(queue, most)
  <1> DEFINE left == Only(queue, Unspent(queue, most))
  <1>1. Unspent(queue, most) \in SUBSET DOMAIN queue  BY DEF Unspent
  <1>2. Read(queue, most) = left  BY ReadIs
  <1>3. /\ Fits(left, most) /\ IdsOf(left) = {queue[i].id : i \in Unspent(queue, most)}
        /\ \A from, count : Counts(queue, most, from, count) => Counts(left, most, from, count)
        /\ \A n \in DOMAIN left : \E i \in Unspent(queue, most) : left[n] = queue[i]
    BY <1>1, OnlyFits
  <1>4. Unspent(left, most) = DOMAIN left  BY <1>3 DEF Unspent
  <1>5. Read(left, most) = Only(left, DOMAIN left)  BY <1>3, <1>4, ReadIs
  <1>6. Only(left, DOMAIN left) = left  BY <1>3, OnlyAll DEF Fits
  <1>7. IdsOf(left) \subseteq IdsOf(queue)  BY <1>1, <1>3 DEF IdsOf
  <1> QED  BY <1>2, <1>3, <1>5, <1>6, <1>7

LEMMA NothingFits ==
    ASSUME NEW most
    PROVE  /\ Fits(<<>>, most) /\ IdsOf(<<>>) = {} /\ Read(<<>>, most) = <<>>
           /\ \A from, count : Counts(<<>>, most, from, count)
  <1>1. <<>> \in Seq(Entry) /\ Len(<<>>) = 0 /\ DOMAIN <<>> = {}  BY EmptySeq
  <1>2. 0 <= MaxEntries  BY OutboxAssumption
  <1>3. Fits(<<>>, most)  BY <1>1, <1>2 DEF Fits
  <1>4. Unspent(<<>>, most) = DOMAIN <<>>  BY <1>1 DEF Unspent
  <1>5. Read(<<>>, most) = Only(<<>>, DOMAIN <<>>)  BY <1>3, <1>4, ReadIs
  <1>6. Only(<<>>, DOMAIN <<>>) = <<>>  BY <1>1, OnlyAll
  <1> QED  BY <1>1, <1>3, <1>5, <1>6 DEF IdsOf, Counts

(* The entries of a message become due, here and in what is read.           *)
LEMMA DueFits ==
    ASSUME NEW most, NEW queue, Fits(queue, most), NEW m
    PROVE  /\ Fits(Due(queue, m), most) /\ IdsOf(Due(queue, m)) = IdsOf(queue)
           /\ \A from, count : Counts(queue, most, from, count) =>
                                   Counts(Due(queue, m), most, from, count)
           /\ Read(Due(queue, m), most) = Due(Read(queue, most), m)
           /\ queue = <<>> => Due(queue, m) = <<>>
  <1> DEFINE q == Due(queue, m)
             places == Unspent(queue, most)
             K == Cardinality(places)
  <1>1. queue \in Seq(Entry) /\ Len(queue) \in Nat /\ DOMAIN queue = 1..Len(queue)
        /\ Len(queue) <= MaxEntries
    BY LenProperties DEF Fits
  <1>2. \A i \in 1..Len(queue) : queue[i] \in Entry  BY <1>1, ElementOfSeq
  <1>3. ASSUME NEW i \in 1..Len(queue)
        PROVE  /\ q[i] \in Entry /\ q[i].id = queue[i].id /\ q[i].attempts = queue[i].attempts
               /\ q[i].blocked = queue[i].blocked
    <2>1. q[i] = IF queue[i].id = m /\ ~queue[i].blocked
                 THEN [queue[i] EXCEPT !.due = TRUE] ELSE queue[i]
      BY <1>1 DEF Due
    <2>2. queue[i] \in Entry  BY <1>2
    <2> QED  BY <2>1, <2>2 DEF Entry
  <1>4. q \in [1..Len(queue) -> Entry]  BY <1>1, <1>3 DEF Due
  <1>5. q \in Seq(Entry) /\ Len(q) = Len(queue) /\ DOMAIN q = 1..Len(queue)  BY <1>1, <1>4
  <1>6. Fits(q, most)
    <2>1. \A i, j \in DOMAIN q : q[i].id = q[j].id => i = j  BY <1>1, <1>3, <1>5 DEF Fits
    <2>2. \A i \in DOMAIN q : q[i].blocked \/ q[i].attempts < most
      BY <1>1, <1>3, <1>5 DEF Fits
    <2> QED  BY <1>1, <1>5, <2>1, <2>2 DEF Fits
  <1>7. IdsOf(q) = IdsOf(queue)  BY <1>1, <1>3, <1>5 DEF IdsOf
  <1>8. \A from, count : Counts(queue, most, from, count) => Counts(q, most, from, count)
    BY <1>1, <1>3, <1>5 DEF Counts
  <1>9. Unspent(q, most) = places  BY <1>1, <1>3, <1>5 DEF Unspent
  <1>10. Read(q, most) = Only(q, places) /\ Read(queue, most) = Only(queue, places)
    BY <1>6, <1>9, ReadIs
  <1>11. places \in SUBSET DOMAIN queue  BY DEF Unspent
  <1>12. /\ DOMAIN Only(queue, places) = 1..K /\ K \in Nat
         /\ \A n \in 1..K : Nth(places, n) \in DOMAIN queue
                            /\ Only(queue, places)[n] = queue[Nth(places, n)]
    BY <1>1, <1>11, OnlyIs
  <1>13. Only(q, places) = Due(Only(queue, places), m)
    <2>1. Only(q, places) = [n \in 1..K |-> q[Nth(places, n)]]  BY DEF Only
    <2>2. Due(Only(queue, places), m) =
              [n \in 1..K |-> IF Only(queue, places)[n].id = m /\ ~Only(queue, places)[n].blocked
                              THEN [Only(queue, places)[n] EXCEPT !.due = TRUE]
                              ELSE Only(queue, places)[n]]
      BY <1>12 DEF Due
    <2>3. ASSUME NEW n \in 1..K
          PROVE  q[Nth(places, n)] =
                     IF Only(queue, places)[n].id = m /\ ~Only(queue, places)[n].blocked
                     THEN [Only(queue, places)[n] EXCEPT !.due = TRUE]
                     ELSE Only(queue, places)[n]
      <3>1. Nth(places, n) \in DOMAIN queue /\ Only(queue, places)[n] = queue[Nth(places, n)]
        BY <1>12
      <3>2. \A i \in DOMAIN queue : q[i] = IF queue[i].id = m /\ ~queue[i].blocked
                                           THEN [queue[i] EXCEPT !.due = TRUE] ELSE queue[i]
        BY DEF Due
      <3> QED  BY <3>1, <3>2
    <2> HIDE DEF q, K, places
    <2> QED  BY <2>1, <2>2, <2>3
  <1>14. queue = <<>> => q = <<>>
    <2> SUFFICES ASSUME queue = <<>> PROVE q = <<>>
      OBVIOUS
    <2>1. Len(q) = 0  BY <1>5, EmptySeq
    <2> QED  BY <1>5, <2>1, EmptySeq
  <1> QED  BY <1>6, <1>7, <1>8, <1>10, <1>13, <1>14

(* A message more, at the end.                                              *)
LEMMA AppendFits ==
    ASSUME NEW most \in Nat \ {0}, NEW queue, Fits(queue, most), Len(queue) < MaxEntries,
           NEW m \in Messages \ IdsOf(queue)
    PROVE  /\ Fits(Append(queue, NewEntry(m)), most)
           /\ IdsOf(Append(queue, NewEntry(m))) = IdsOf(queue) \cup {m}
           /\ \A from, count :
                  /\ Counts(queue, most, from, count) /\ m \in from /\ count \in [Messages -> Nat]
                  => Counts(Append(queue, NewEntry(m)), most, from, count)
  <1> DEFINE e == NewEntry(m)
             q == Append(queue, e)
             L == Len(queue)
  <1>1. queue \in Seq(Entry) /\ L \in Nat /\ DOMAIN queue = 1..L  BY LenProperties DEF Fits
  <1>2. e \in Entry /\ e.id = m /\ e.attempts = 0 /\ ~e.blocked  BY DEF Entry, NewEntry
  <1>3. q \in Seq(Entry) /\ Len(q) = L + 1 /\ DOMAIN q = 1..(L + 1)
        /\ q[L + 1] = e /\ \A i \in 1..L : q[i] = queue[i]
    BY <1>1, <1>2
  <1>4. \A i \in 1..(L + 1) : i = L + 1 \/ i \in 1..L  BY <1>1
  <1>5. Fits(q, most)
    <2>1. \A i, j \in DOMAIN q : q[i].id = q[j].id => i = j
      <3> SUFFICES ASSUME NEW i \in 1..(L + 1), NEW j \in 1..(L + 1), q[i].id = q[j].id PROVE i = j
        BY <1>3
      <3>1. \A k \in 1..L : queue[k].id # m  BY <1>1 DEF IdsOf
      <3> QED  BY <1>1, <1>2, <1>3, <1>4, <3>1 DEF Fits
    <2>2. \A i \in DOMAIN q : q[i].blocked \/ q[i].attempts < most
      BY <1>1, <1>2, <1>3, <1>4 DEF Fits
    <2>3. L + 1 <= MaxEntries  BY <1>1, OutboxAssumption
    <2> QED  BY <1>3, <2>1, <2>2, <2>3 DEF Fits
  <1>6. IdsOf(q) = IdsOf(queue) \cup {m}
    <2>1. ASSUME NEW i \in DOMAIN q PROVE q[i].id \in IdsOf(queue) \cup {m}
      BY <1>1, <1>2, <1>3, <1>4 DEF IdsOf
    <2>2. ASSUME NEW i \in DOMAIN queue PROVE queue[i].id \in IdsOf(q)
      <3>1. i \in DOMAIN q /\ q[i] = queue[i]  BY <1>1, <1>3
      <3> QED  BY <3>1 DEF IdsOf
    <2>3. m \in IdsOf(q)
      <3>1. L + 1 \in DOMAIN q  BY <1>1, <1>3
      <3> QED  BY <1>2, <1>3, <3>1 DEF IdsOf
    <2> QED  BY <2>1, <2>2, <2>3 DEF IdsOf
  <1>7. ASSUME NEW from, NEW count, Counts(queue, most, from, count), m \in from,
               count \in [Messages -> Nat]
        PROVE  Counts(q, most, from, count)
    <2>1. 0 <= count[m]  BY <1>7
    <2> QED  BY <1>1, <1>2, <1>3, <1>4, <1>7, <2>1 DEF Counts
  <1> QED  BY <1>5, <1>6, <1>7

(* An attempt at a message has failed: it is counted, and the message goes  *)
(* only when it has no more attempts.                                       *)
LEMMA FailedFits ==
    ASSUME NEW most \in Nat \ {0}, most = MaxAttempts, NEW queue, Fits(queue, most),
           NEW m \in IdsOf(queue), NEW blocked \in BOOLEAN, NEW from, NEW count, NEW then,
           Counts(queue, most, from, count), count \in [Messages -> Nat],
           then[m] = (IF count[m] < most THEN count[m] + 1 ELSE count[m]),
           \A x \in Messages : x # m => then[x] = count[x]
    PROVE  /\ Fits(Failed(queue, m, blocked), most)
           /\ Counts(Failed(queue, m, blocked), most, from, then)
           /\ IdsOf(Failed(queue, m, blocked)) \in {IdsOf(queue), IdsOf(queue) \ {m}}
           /\ m \notin IdsOf(Failed(queue, m, blocked)) => then[m] >= most /\ ~blocked
  <1> DEFINE i == CHOOSE j \in DOMAIN queue : queue[j].id = m
             e == [queue[i] EXCEPT !.attempts = @ + 1, !.due = FALSE, !.blocked = @ \/ blocked]
             L == Len(queue)
  <1>1. queue \in Seq(Entry) /\ L \in Nat /\ DOMAIN queue = 1..L  BY LenProperties DEF Fits
  <1>2. i \in 1..L /\ queue[i].id = m  BY <1>1 DEF IdsOf
  <1> HIDE DEF i
  <1>3. queue[i] \in Entry  BY <1>1, <1>2, ElementOfSeq
  <1>4. m \in Messages /\ queue[i].attempts \in Nat /\ queue[i].blocked \in BOOLEAN
    BY <1>2, <1>3 DEF Entry
  <1>5. /\ e \in Entry /\ e.id = m /\ e.attempts = queue[i].attempts + 1
        /\ e.blocked = (queue[i].blocked \/ blocked)
    <2>1. PICK b \in BOOLEAN : b = (queue[i].blocked \/ blocked)  BY <1>4
    <2>2. PICK n \in Nat : n = queue[i].attempts + 1  BY <1>4
    <2>3. PICK r \in Entry : r = queue[i]  BY <1>3
    <2>4. e = [r EXCEPT !.attempts = n, !.due = FALSE, !.blocked = b]  BY <2>1, <2>2, <2>3
    <2> HIDE DEF e
    <2>5. e \in Entry  BY <2>4 DEF Entry
    <2>6. e.id = r.id /\ e.attempts = n /\ e.blocked = b  BY <2>4 DEF Entry
    <2> QED  BY <1>2, <2>1, <2>2, <2>3, <2>5, <2>6
  <1>6. count[m] \in Nat /\ (queue[i].attempts <= count[m] \/ count[m] >= most)
    BY <1>1, <1>2, <1>4 DEF Counts
  <1>7. /\ then[m] = (IF count[m] < most THEN count[m] + 1 ELSE count[m])
        /\ \A x \in Messages : x # m => then[x] = count[x]
    OBVIOUS
  <1>8. e.attempts <= then[m] \/ then[m] >= most  BY <1>4, <1>5, <1>6, <1>7
  <1>9. Counts(queue, most, from, then)
    <2> SUFFICES ASSUME NEW k \in DOMAIN queue
                 PROVE  /\ queue[k].id \in from
                        /\ queue[k].attempts <= then[queue[k].id] \/ then[queue[k].id] >= most
      BY DEF Counts
    <2>1. queue[k] \in Entry  BY <1>1, ElementOfSeq
    <2>2. queue[k].id \in Messages /\ queue[k].attempts \in Nat /\ count[queue[k].id] \in Nat
      BY <2>1 DEF Entry
    <2>3. queue[k].id \in from
          /\ (queue[k].attempts <= count[queue[k].id] \/ count[queue[k].id] >= most)
      BY DEF Counts
    <2>4. CASE queue[k].id # m  BY <1>7, <2>2, <2>3, <2>4
    <2>5. CASE queue[k].id = m
      <3>1. then[m] >= count[m] /\ then[m] \in Nat  BY <1>6, <1>7
      <3> QED  BY <1>6, <2>2, <2>3, <2>5, <3>1
    <2> QED  BY <2>4, <2>5
  <1>10. CASE UsedUp(e, blocked)
    <2>1. Failed(queue, m, blocked) = Without(queue, m)  BY <1>10 DEF Failed, i
    <2> DEFINE places == {j \in DOMAIN queue : queue[j].id # m}
    <2>2. Without(queue, m) = Only(queue, places)  BY DEF Without
    <2>3. /\ Fits(Only(queue, places), most)
          /\ IdsOf(Only(queue, places)) = {queue[j].id : j \in places}
          /\ Counts(Only(queue, places), most, from, then)
      BY <1>9, OnlyFits
    <2>4. {queue[j].id : j \in places} = IdsOf(queue) \ {m}  BY DEF IdsOf
    <2>5. e.attempts >= most /\ ~blocked  BY <1>10 DEF UsedUp
    <2>6. then[m] >= most  BY <1>4, <1>5, <1>6, <1>7, <1>8, <2>5
    <2> QED  BY <2>1, <2>2, <2>3, <2>4, <2>5, <2>6
  <1>11. CASE ~UsedUp(e, blocked)
    <2> DEFINE q == [queue EXCEPT ![i] = e]
    <2>1. Failed(queue, m, blocked) = q  BY <1>11 DEF Failed, i
    <2> HIDE DEF e
    <2>2. /\ q \in Seq(Entry) /\ Len(q) = L /\ DOMAIN q = 1..L
          /\ \A j \in 1..L : q[j] = IF j = i THEN e ELSE queue[j]
      BY <1>1, <1>2, <1>5, ExceptSeq
    <2>3. \A j \in 1..L : q[j].id = queue[j].id  BY <1>2, <1>5, <2>2
    <2>4. e.blocked \/ e.attempts < most
      BY <1>4, <1>5, <1>11 DEF UsedUp
    <2>5. Fits(q, most)
      <3>1. \A j, k \in DOMAIN q : q[j].id = q[k].id => j = k  BY <1>1, <2>2, <2>3 DEF Fits
      <3>2. \A j \in DOMAIN q : q[j].blocked \/ q[j].attempts < most
        BY <1>1, <2>2, <2>4 DEF Fits
      <3>3. L <= MaxEntries  BY DEF Fits
      <3> QED  BY <2>2, <3>1, <3>2, <3>3 DEF Fits
    <2>6. Counts(q, most, from, then)
      BY <1>1, <1>2, <1>5, <1>8, <1>9, <2>2 DEF Counts
    <2>7. IdsOf(q) = IdsOf(queue)
      <3> HIDE DEF q
      <3>1. \A j \in DOMAIN queue : j \in DOMAIN q /\ q[j].id = queue[j].id  BY <1>1, <2>2, <2>3
      <3>2. \A j \in DOMAIN q : j \in DOMAIN queue /\ q[j].id = queue[j].id  BY <1>1, <2>2, <2>3
      <3> QED  BY <3>1, <3>2, Zenon DEF IdsOf
    <2> QED  BY <2>1, <2>5, <2>6, <2>7
  <1> QED  BY <1>10, <1>11

(* Signing in frees the blocked entries.                                    *)
LEMMA FreedFits ==
    ASSUME NEW most \in Nat \ {0}, NEW queue, Fits(queue, most)
    PROVE  LET q == [i \in DOMAIN queue |-> NewEntry(queue[i].id)] IN
           /\ Fits(q, most) /\ IdsOf(q) = IdsOf(queue)
           /\ \A from, count : Counts(queue, most, from, count) /\ count \in [Messages -> Nat]
                                   => Counts(q, most, from, count)
  <1> DEFINE q == [i \in DOMAIN queue |-> NewEntry(queue[i].id)]
             L == Len(queue)
  <1>1. queue \in Seq(Entry) /\ L \in Nat /\ DOMAIN queue = 1..L /\ L <= MaxEntries
    BY LenProperties DEF Fits
  <1>2. \A i \in 1..L : queue[i] \in Entry  BY <1>1, ElementOfSeq
  <1>3. \A i \in 1..L : /\ q[i] \in Entry /\ q[i].id = queue[i].id /\ q[i].attempts = 0
                        /\ queue[i].id \in Messages
    BY <1>1, <1>2 DEF Entry, NewEntry
  <1>4. q \in [1..L -> Entry]  BY <1>1, <1>3
  <1>5. q \in Seq(Entry) /\ Len(q) = L /\ DOMAIN q = 1..L  BY <1>1, <1>4
  <1> HIDE DEF q
  <1>6. Fits(q, most)
    <2>1. \A i, j \in DOMAIN q : q[i].id = q[j].id => i = j  BY <1>1, <1>3, <1>5 DEF Fits
    <2>2. \A i \in DOMAIN q : q[i].blocked \/ q[i].attempts < most  BY <1>3, <1>5
    <2> QED  BY <1>1, <1>5, <2>1, <2>2 DEF Fits
  <1>7. IdsOf(q) = IdsOf(queue)  BY <1>1, <1>3, <1>5 DEF IdsOf
  <1>8. ASSUME NEW from, NEW count, Counts(queue, most, from, count), count \in [Messages -> Nat]
        PROVE  Counts(q, most, from, count)
    <2>1. \A i \in 1..L : q[i].attempts <= count[q[i].id]  BY <1>3, <1>8
    <2> QED  BY <1>1, <1>3, <1>5, <1>8, <2>1 DEF Counts
  <1> QED  BY <1>6, <1>7, <1>8 DEF q

(* What counts goes on to count when more was taken and more has failed.    *)
LEMMA StillCounts ==
    ASSUME NEW most, NEW queue, NEW from, NEW count \in [Messages -> Nat],
           NEW more, NEW then \in [Messages -> Nat], most \in Nat,
           Fits(queue, most), Counts(queue, most, from, count), from \subseteq more,
           \A m \in Messages : count[m] <= then[m]
    PROVE  Counts(queue, most, more, then)
  <1> SUFFICES ASSUME NEW i \in DOMAIN queue
               PROVE  /\ queue[i].id \in more
                      /\ queue[i].attempts <= then[queue[i].id] \/ then[queue[i].id] >= most
    BY DEF Counts
  <1>1. queue[i] \in Entry
    <2>1. queue \in Seq(Entry) /\ DOMAIN queue = 1..Len(queue)  BY LenProperties DEF Fits
    <2> QED  BY <2>1, ElementOfSeq
  <1>2. queue[i].id \in Messages /\ queue[i].attempts \in Nat  BY <1>1 DEF Entry
  <1>3. count[queue[i].id] \in Nat /\ then[queue[i].id] \in Nat
        /\ count[queue[i].id] <= then[queue[i].id]
    BY <1>2
  <1>4. queue[i].id \in from
        /\ (queue[i].attempts <= count[queue[i].id] \/ count[queue[i].id] >= most)
    BY DEF Counts
  <1> QED  BY <1>2, <1>3, <1>4

-------------------------------------------------------------------------------
(* The invariant.  A request that is past its upload is of a message that   *)
(* was taken, and an upload is the only one of its message.                 *)
AnyRequest == [tab : Tabs, id : Messages, kind : {"upload", "first", "retry"}, media : BOOLEAN]
IsRequest(r) ==
    /\ r.tab \in open /\ r.id \in used
    /\ r.kind = "upload" <=> r.id \notin taken
    /\ \A q \in requests : r.kind = "upload" /\ q.kind = "upload" /\ q.id = r.id => q = r
RequestTypes ==
    /\ open \subseteq Tabs /\ open # {}
    /\ known \in [Tabs -> SUBSET Messages] /\ failures \in [Messages -> Nat]
    /\ requests \subseteq AnyRequest /\ \A r \in requests : IsRequest(r)
    /\ taken \subseteq used /\ server \subseteq taken /\ used \subseteq Messages
QueueTypes ==
    /\ ref \in [Tabs -> Seq(Entry)] /\ state \in [Tabs -> Seq(Entry)]
    /\ dirty \in [Tabs -> BOOLEAN] /\ events \subseteq open
IsKept(queue) == Fits(queue, MaxAttempts) /\ Counts(queue, MaxAttempts, taken, failures)
Queues == IsKept(disk) /\ \A t \in Tabs : IsKept(ref[t]) /\ IsKept(state[t])
(* A tab with nothing to render shows its ref and, once it has heard of     *)
(* every change, nothing or what is saved, as it was written or as read.    *)
Settled ==
    \A t \in Tabs :
        /\ dirty[t] => t \in open
        /\ ~dirty[t] => ref[t] = state[t]
        /\ ~dirty[t] /\ t \in open \ events =>
               state[t] \in {<<>>, disk, Read(disk, MaxAttempts)}
(* A single tab hears of no other, and shows its ref.                       *)
Alone == Cardinality(open) = 1 => events = {} /\ state = ref
Showing == QueueTypes /\ Queues /\ Settled /\ Alone
OutboxInv == RequestTypes /\ Showing

LEMMA MostIs ==
    ASSUME RequestTypes
    PROVE  /\ MaxAttempts \in Nat \ {0} /\ Cardinality(open) \in 1..Cardinality(Tabs)
           /\ SessionViews[Cardinality(open)] \subseteq SUBSET Messages
           /\ \A t \in open : Cardinality(open) = 1 => open = {t}
  <1>1. IsFiniteSet(open) /\ Cardinality(open) <= Cardinality(Tabs) /\ Cardinality(Tabs) \in Nat
    BY OutboxAssumption, FS_Subset, FS_CardinalityType DEF RequestTypes
  <1>2. Cardinality(open) \in Nat /\ Cardinality(open) # 0
    BY <1>1, FS_CardinalityType, FS_EmptySet DEF RequestTypes
  <1>3. Cardinality(open) \in 1..Cardinality(Tabs)  BY <1>1, <1>2
  <1>4. Limits[Cardinality(open)] \in [attempts : Nat \ {0}, turns : Nat, requests : Nat,
                                     sockets : BOOLEAN]
    BY <1>3, OutboxAssumption
  <1>5. Cardinality(open) = 1 => \E x : open = {x}  BY <1>1, FS_Singleton
  <1>6. SessionViews[Cardinality(open)] \subseteq SUBSET Messages  BY <1>3, OutboxAssumption
  <1> QED  BY <1>3, <1>4, <1>5, <1>6 DEF MaxAttempts

LEMMA KeptIds ==
    ASSUME NEW queue, IsKept(queue)
    PROVE  IdsOf(queue) \subseteq taken /\ IdsOf(queue) \subseteq Messages
  <1>1. IdsOf(queue) \subseteq taken  BY DEF IsKept, Counts, IdsOf
  <1>2. IdsOf(queue) \subseteq Messages
    <2>1. queue \in Seq(Entry) /\ DOMAIN queue = 1..Len(queue)  BY LenProperties DEF IsKept, Fits
    <2>2. \A i \in DOMAIN queue : queue[i] \in Entry  BY <2>1, ElementOfSeq
    <2> QED  BY <2>2 DEF IdsOf, Entry
  <1> QED  BY <1>1, <1>2

(* The set of tabs stays, messages are only taken, failures only counted.   *)
Counting ==
    /\ open' = open /\ taken \subseteq taken' /\ failures' \in [Messages -> Nat]
    /\ \A m \in Messages : failures[m] <= failures'[m]

LEMMA KeptStays ==
    ASSUME RequestTypes, Counting, NEW queue, IsKept(queue)
    PROVE  /\ MaxAttempts' = MaxAttempts
           /\ Fits(queue, MaxAttempts) /\ Counts(queue, MaxAttempts, taken', failures')
  <1>1. MaxAttempts' = MaxAttempts  BY DEF Counting, MaxAttempts
  <1>2. Fits(queue, MaxAttempts) /\ Counts(queue, MaxAttempts, taken, failures)  BY DEF IsKept
  <1>3. MaxAttempts \in Nat  BY MostIs
  <1>4. failures \in [Messages -> Nat]  BY DEF RequestTypes
  <1>5. Counts(queue, MaxAttempts, taken', failures')
    BY <1>2, <1>3, <1>4, StillCounts DEF Counting
  <1> QED  BY <1>1, <1>2, <1>5

(* One tab sets its queue.                                                  *)
LEMMA SetsQueue ==
    ASSUME OutboxInv, Counting, NEW t \in open, NEW queue, SetOutboxProfile(t, queue),
           Fits(queue, MaxAttempts), Counts(queue, MaxAttempts, taken', failures'),
           UNCHANGED <<disk, events>>
    PROVE  Showing' /\ state'[t] = queue
  <1>1. t \in Tabs /\ open \subseteq Tabs  BY DEF OutboxInv, RequestTypes
  <1>2. /\ \A s \in Tabs : /\ ref'[s] = (IF s = t THEN queue ELSE ref[s])
                           /\ state'[s] = (IF s = t THEN queue ELSE state[s])
        /\ dirty'[t] = TRUE /\ \A s \in Tabs : s # t => dirty'[s] = dirty[s]
    BY <1>1 DEF SetOutboxProfile, OutboxInv, Showing, QueueTypes
  <1>3. MaxAttempts' = MaxAttempts
    BY DEF Counting, MaxAttempts
  <1>4. Queues'
    <2>1. IsKept(disk)'
      BY <1>3, KeptStays DEF OutboxInv, Showing, Queues, IsKept
    <2>2. ASSUME NEW s \in Tabs PROVE IsKept(ref[s])' /\ IsKept(state[s])'
      <3>1. CASE s = t  BY <1>2, <1>3, <3>1 DEF IsKept
      <3>2. CASE s # t
        <4>1. IsKept(ref[s]) /\ IsKept(state[s])  BY DEF OutboxInv, Showing, Queues
        <4>2. ref'[s] = ref[s] /\ state'[s] = state[s]  BY <1>2, <3>2
        <4>3. /\ Fits(ref[s], MaxAttempts) /\ Counts(ref[s], MaxAttempts, taken', failures')
              /\ Fits(state[s], MaxAttempts) /\ Counts(state[s], MaxAttempts, taken', failures')
          BY <4>1, KeptStays DEF OutboxInv
        <4> QED  BY <1>3, <4>2, <4>3 DEF IsKept
      <3> QED  BY <3>1, <3>2
    <2> QED  BY <2>1, <2>2 DEF Queues
  <1>5. QueueTypes'
    <2>1. queue \in Seq(Entry)  BY DEF Fits
    <2> QED  BY <1>1, <2>1 DEF QueueTypes, SetOutboxProfile, OutboxInv, Showing, Counting
  <1>6. Settled'
    <2> SUFFICES ASSUME NEW s \in Tabs
                 PROVE  /\ dirty'[s] => s \in open
                        /\ ~dirty'[s] => ref'[s] = state'[s]
                        /\ ~dirty'[s] /\ s \in open \ events =>
                               state'[s] \in {<<>>, disk, Read(disk, MaxAttempts)}
      BY <1>3 DEF Settled, Counting
    <2>1. CASE s = t  BY <1>2, <2>1
    <2>2. CASE s # t
      <3>1. dirty'[s] = dirty[s] /\ ref'[s] = ref[s] /\ state'[s] = state[s]  BY <1>2, <2>2
      <3>2. /\ dirty[s] => s \in open
            /\ ~dirty[s] => ref[s] = state[s]
            /\ ~dirty[s] /\ s \in open \ events =>
                   state[s] \in {<<>>, disk, Read(disk, MaxAttempts)}
        BY DEF OutboxInv, Showing, Settled
      <3> QED  BY <3>1, <3>2
    <2> QED  BY <2>1, <2>2
  <1>7. Alone'
    <2> SUFFICES ASSUME Cardinality(open) = 1 PROVE events = {} /\ state' = ref'
      BY DEF Alone, Counting
    <2>1. events = {} /\ state = ref  BY DEF OutboxInv, Showing, Alone
    <2> QED  BY <2>1 DEF SetOutboxProfile
  <1> QED  BY <1>1, <1>2, <1>4, <1>5, <1>6, <1>7 DEF Showing

(* No tab does.                                                             *)
LEMMA QueuesStay ==
    ASSUME OutboxInv, Counting, Untouched, UNCHANGED <<disk, events>>
    PROVE  Showing'
  <1>1. MaxAttempts' = MaxAttempts  BY DEF Counting, MaxAttempts
  <1>2. Queues'
    <2>1. ASSUME NEW queue, IsKept(queue)
          PROVE  Fits(queue, MaxAttempts) /\ Counts(queue, MaxAttempts, taken', failures')
      BY <2>1, KeptStays DEF OutboxInv
    <2>2. IsKept(disk)'  BY <1>1, <2>1 DEF OutboxInv, Showing, Queues, IsKept
    <2>3. ASSUME NEW s \in Tabs PROVE IsKept(ref[s])' /\ IsKept(state[s])'
      <3>1. IsKept(ref[s]) /\ IsKept(state[s])  BY DEF OutboxInv, Showing, Queues
      <3>2. /\ Fits(ref[s], MaxAttempts) /\ Counts(ref[s], MaxAttempts, taken', failures')
            /\ Fits(state[s], MaxAttempts) /\ Counts(state[s], MaxAttempts, taken', failures')
        BY <2>1, <3>1
      <3> QED  BY <1>1, <3>2 DEF IsKept, Untouched
    <2> QED  BY <2>2, <2>3 DEF Queues
  <1>3. QueueTypes'  BY DEF QueueTypes, Untouched, OutboxInv, Showing, Counting
  <1>4. Settled'  BY <1>1 DEF Settled, Untouched, OutboxInv, Showing, Counting
  <1>5. Alone'  BY DEF Alone, Untouched, OutboxInv, Showing, Counting
  <1> QED  BY <1>2, <1>3, <1>4, <1>5 DEF Showing

(* Requests only go.                                                        *)
LEMMA RequestsGo ==
    ASSUME RequestTypes, requests' \subseteq requests, UNCHANGED <<open, used, taken>>,
           known' \in [Tabs -> SUBSET Messages], failures' \in [Messages -> Nat],
           server' \subseteq taken
    PROVE  RequestTypes'
  BY DEF RequestTypes, IsRequest

-------------------------------------------------------------------------------
(* The steps.                                                               *)
LEMMA OutboxInit == Init => OutboxInv
  <1> SUFFICES ASSUME Init PROVE OutboxInv
    OBVIOUS
  <1>1. open \subseteq Tabs /\ open # {}  BY OutboxAssumption DEF Init
  <1>2. IsFiniteSet(open) /\ Cardinality(open) <= Cardinality(Tabs) /\ Cardinality(Tabs) \in Nat
    BY <1>1, OutboxAssumption, FS_Subset, FS_CardinalityType
  <1>3. Cardinality(open) \in 1..Cardinality(Tabs)
    <2>1. Cardinality(open) \in Nat /\ Cardinality(open) # 0
      BY <1>1, <1>2, FS_CardinalityType, FS_EmptySet
    <2> QED  BY <1>2, <2>1
  <1>4. known \in [Tabs -> SUBSET Messages]
    <2>1. SessionViews[Cardinality(open)] \subseteq SUBSET Messages  BY <1>3, OutboxAssumption
    <2>2. PICK view \in SessionViews[Cardinality(open)] : known = [t \in Tabs |-> view]
      BY DEF Init
    <2> QED  BY <2>1, <2>2
  <1>5. RequestTypes  BY <1>1, <1>4 DEF Init, RequestTypes
  <1>6. \A most : Fits(<<>>, most) /\ \A from, count : Counts(<<>>, most, from, count)
    BY NothingFits
  <1>7. /\ ref = [t \in Tabs |-> <<>>] /\ state = ref /\ dirty = [t \in Tabs |-> FALSE]
        /\ disk = <<>> /\ events = {}
    BY DEF Init
  <1>8. Queues  BY <1>6, <1>7 DEF Queues, IsKept
  <1>9. QueueTypes  BY <1>7, EmptySeq DEF QueueTypes
  <1>10. Settled /\ Alone  BY <1>7 DEF Settled, Alone
  <1> QED  BY <1>5, <1>8, <1>9, <1>10 DEF OutboxInv, Showing

LEMMA IdsAreTaken ==
    ASSUME OutboxInv
    PROVE  /\ \A t \in Tabs : /\ IdsOf(ref[t]) \subseteq taken /\ IdsOf(state[t]) \subseteq taken
                              /\ IsKept(ref[t]) /\ IsKept(state[t])
           /\ IdsOf(disk) \subseteq taken
           /\ open \subseteq Tabs /\ taken \subseteq used /\ used \subseteq Messages
  BY KeptIds DEF OutboxInv, Showing, Queues, RequestTypes

(* A message that no tab has taken is queued as it is new.                  *)
LEMMA QueuesMessage ==
    ASSUME OutboxInv, NEW t \in open, NEW m \in Messages \ taken, QueueOutbox(t, m),
           UNCHANGED <<open, disk, events, failures>>
    PROVE  /\ Showing' /\ taken' = taken \cup {m} /\ IdsOf(state'[t]) = IdsOf(ref[t]) \cup {m}
           /\ \A s \in Tabs : s # t => state'[s] = state[s]
  <1>1. t \in Tabs /\ m \notin IdsOf(ref[t]) /\ IsKept(ref[t])  BY IdsAreTaken
  <1>2. /\ Len(ref[t]) < MaxEntries /\ SetOutboxProfile(t, Append(ref[t], NewEntry(m)))
        /\ taken' = taken \cup {m}
    BY <1>1 DEF QueueOutbox
  <1>3. MaxAttempts \in Nat \ {0} /\ failures \in [Messages -> Nat]
    BY MostIs DEF OutboxInv, RequestTypes
  <1>4. Counting  BY <1>2, <1>3 DEF Counting
  <1>5. Fits(ref[t], MaxAttempts) /\ Counts(ref[t], MaxAttempts, taken', failures')
    BY <1>1, <1>4, KeptStays DEF OutboxInv
  <1>6. /\ Fits(Append(ref[t], NewEntry(m)), MaxAttempts)
        /\ IdsOf(Append(ref[t], NewEntry(m))) = IdsOf(ref[t]) \cup {m}
        /\ Counts(Append(ref[t], NewEntry(m)), MaxAttempts, taken', failures')
    BY <1>1, <1>2, <1>3, <1>5, AppendFits
  <1>7. Showing' /\ state'[t] = Append(ref[t], NewEntry(m))  BY <1>2, <1>4, <1>6, SetsQueue
  <1>8. \A s \in Tabs : s # t => state'[s] = state[s]
    BY <1>2 DEF SetOutboxProfile, OutboxInv, Showing, QueueTypes
  <1> QED  BY <1>2, <1>6, <1>7, <1>8

LEMMA SendKeeps ==
    ASSUME OutboxInv, NEW t \in Tabs, NEW m \in Messages, Send(t, m)
    PROVE  OutboxInv'
  <1>1. /\ t \in open /\ m \notin used /\ QueueOutbox(t, m) /\ used' = used \cup {m}
        /\ requests' = requests \cup {Request(t, m, "first", FALSE)}
        /\ UNCHANGED <<open, disk, events, failures, known, server>>
    BY DEF Send, storage, session
  <1>2. m \notin taken  BY <1>1, IdsAreTaken
  <1>3. Showing' /\ taken' = taken \cup {m}  BY <1>1, <1>2, QueuesMessage
  <1>4. RequestTypes'
    <2>1. RequestTypes  BY DEF OutboxInv
    <2>2. Request(t, m, "first", FALSE) \in AnyRequest
      BY DEF Request, AnyRequest
    <2>3. ASSUME NEW r \in requests' PROVE IsRequest(r)'
      <3>1. CASE r \in requests
        <4>1. IsRequest(r) /\ r.id # m  BY <1>1, <2>1, <3>1 DEF RequestTypes, IsRequest
        <4>2. \A q \in requests' : q.kind = "upload" => q \in requests  BY <1>1 DEF Request
        <4> QED  BY <1>1, <1>3, <4>1, <4>2 DEF IsRequest
      <3>2. CASE r = Request(t, m, "first", FALSE)
        <4>1. r.tab = t /\ r.id = m /\ r.kind = "first"  BY <3>2 DEF Request
        <4> QED  BY <1>1, <1>3, <4>1 DEF IsRequest
      <3> QED  BY <1>1, <3>1, <3>2
    <2> QED  BY <1>1, <1>3, <2>1, <2>2, <2>3 DEF RequestTypes
  <1> QED  BY <1>3, <1>4 DEF OutboxInv

LEMMA SendMediaKeeps ==
    ASSUME OutboxInv, NEW t \in Tabs, NEW m \in Messages, SendMedia(t, m)
    PROVE  OutboxInv'
  <1>1. /\ t \in open /\ m \notin used /\ Untouched /\ used' = used \cup {m}
        /\ requests' = {r \in requests : r.tab # t \/ r.kind # "upload"}
                       \cup {Request(t, m, "upload", TRUE)}
        /\ UNCHANGED <<open, disk, events, failures, known, taken, server>>
    BY DEF SendMedia, storage, session
  <1>2. RequestTypes  BY DEF OutboxInv
  <1>3. Counting  BY <1>1, <1>2 DEF Counting, RequestTypes
  <1>4. Showing'  BY <1>1, <1>3, QueuesStay
  <1>5. m \notin taken  BY <1>1, IdsAreTaken
  <1>6. Request(t, m, "upload", TRUE) \in AnyRequest  BY DEF Request, AnyRequest
  <1>7. ASSUME NEW r \in requests' PROVE IsRequest(r)'
    <2>1. \A q \in requests : IsRequest(q) /\ q.id # m  BY <1>1, <1>2 DEF RequestTypes, IsRequest
    <2>2. LET q == Request(t, m, "upload", TRUE) IN q.tab = t /\ q.id = m /\ q.kind = "upload"
      BY DEF Request
    <2>3. CASE r \in requests  BY <1>1, <2>1, <2>2, <2>3 DEF IsRequest
    <2>4. CASE r = Request(t, m, "upload", TRUE)  BY <1>1, <1>5, <2>1, <2>2, <2>4 DEF IsRequest
    <2> QED  BY <1>1, <2>3, <2>4
  <1>8. RequestTypes'  BY <1>1, <1>2, <1>6, <1>7 DEF RequestTypes
  <1> QED  BY <1>4, <1>8 DEF OutboxInv

LEMMA UploadedKeeps ==
    ASSUME OutboxInv, NEW r \in requests, Uploaded(r)
    PROVE  OutboxInv'
  <1>1. /\ r.kind = "upload" /\ UNCHANGED <<open, disk, events, failures, known, used, server>>
    BY DEF Uploaded, storage, session
  <1>2. /\ RequestTypes /\ IsRequest(r) /\ r \in AnyRequest /\ r.id \in Messages \ taken
        /\ r.tab \in open /\ failures \in [Messages -> Nat]
    BY <1>1 DEF OutboxInv, RequestTypes, IsRequest
  <1>3. CASE requests' = requests \ {r} /\ Untouched /\ UNCHANGED taken
    <2>1. Showing'
      <3>1. Counting  BY <1>1, <1>2, <1>3 DEF Counting
      <3> QED  BY <1>1, <1>3, <3>1, QueuesStay
    <2>2. server \subseteq taken /\ known \in [Tabs -> SUBSET Messages]
      BY <1>2 DEF RequestTypes
    <2>3. RequestTypes'  BY <1>1, <1>2, <1>3, <2>2, RequestsGo
    <2> QED  BY <2>1, <2>3 DEF OutboxInv
  <1>4. CASE /\ QueueOutbox(r.tab, r.id)
             /\ requests' = (requests \ {r}) \cup {[r EXCEPT !.kind = "first"]}
    <2>1. Showing' /\ taken' = taken \cup {r.id}  BY <1>1, <1>2, <1>4, QueuesMessage
    <2> DEFINE p == [r EXCEPT !.kind = "first"]
    <2>2. p \in AnyRequest /\ p.tab = r.tab /\ p.id = r.id /\ p.kind = "first"
      BY <1>2 DEF AnyRequest
    <2> HIDE DEF p
    <2>3. ASSUME NEW q \in requests' PROVE IsRequest(q)'
      <3>1. CASE q \in requests \ {r}
        <4>1. IsRequest(q) /\ q \in AnyRequest  BY <1>2, <3>1 DEF RequestTypes
        <4>2. q.kind = "upload" => q.id # r.id  BY <1>1, <1>2, <3>1, <4>1 DEF IsRequest
        <4>3. q.kind = "upload" <=> q.id \notin taken'  BY <2>1, <4>1, <4>2 DEF IsRequest
        <4>4. \A o \in requests' : o.kind = "upload" => o \in requests
          BY <1>4, <2>2 DEF p
        <4> QED  BY <1>1, <4>1, <4>3, <4>4 DEF IsRequest
      <3>2. CASE q = p  BY <1>1, <1>2, <2>1, <2>2, <3>2 DEF IsRequest
      <3> QED  BY <1>4, <3>1, <3>2 DEF p
    <2>4. taken' \subseteq used  BY <1>2, <2>1, IdsAreTaken DEF IsRequest
    <2>5. requests' \subseteq AnyRequest  BY <1>2, <1>4, <2>2 DEF RequestTypes, p
    <2>6. RequestTypes'  BY <1>1, <1>2, <2>1, <2>3, <2>4, <2>5 DEF RequestTypes
    <2> QED  BY <2>1, <2>6 DEF OutboxInv
  <1> QED  BY <1>3, <1>4 DEF Uploaded

LEMMA CancelMediaOperationKeeps ==
    ASSUME OutboxInv, NEW t \in Tabs, CancelMediaOperation(t)
    PROVE  OutboxInv'
  <1>1. /\ Untouched /\ requests' \subseteq requests
        /\ UNCHANGED <<open, disk, events, failures, known, taken, used, server>>
    BY DEF CancelMediaOperation, storage, session
  <1>2. RequestTypes  BY DEF OutboxInv
  <1>3. Counting  BY <1>1, <1>2 DEF Counting, RequestTypes
  <1>4. Showing'  BY <1>1, <1>3, QueuesStay
  <1>5. known' \in [Tabs -> SUBSET Messages] /\ failures' \in [Messages -> Nat]
        /\ server' \subseteq taken
    BY <1>1, <1>2 DEF RequestTypes
  <1>6. RequestTypes'  BY <1>1, <1>2, <1>5, RequestsGo
  <1> QED  BY <1>4, <1>6 DEF OutboxInv

(* A request of m by t has ended, as far as the phase of m goes.            *)
Ended(t, m) ==
    /\ taken' = taken /\ server' \in {server, server \cup {m}}
    /\ \A x \in Messages : x # m \/ m \notin IdsOf(ref[t]) => failures'[x] = failures[x]
    /\ state' = state
       \/ /\ IdsOf(state'[t]) \in {IdsOf(ref[t]), IdsOf(ref[t]) \ {m}}
          /\ m \in IdsOf(ref[t]) \ IdsOf(state'[t]) => m \in server' \/ failures'[m] >= MaxAttempts

LEMMA EndedRequest ==
    ASSUME OutboxInv, NEW r \in requests, r.kind # "upload", requests' = requests \ {r},
           UNCHANGED <<open, known, used, taken>>, server' \in {server, server \cup {r.id}},
           failures' \in [Messages -> Nat]
    PROVE  RequestTypes' /\ r.id \in taken /\ r.id \in Messages /\ r.tab \in open
  <1>1. RequestTypes /\ IsRequest(r) /\ r \in AnyRequest  BY DEF OutboxInv, RequestTypes
  <1>2. r.id \in taken /\ r.id \in Messages /\ r.tab \in open  BY <1>1 DEF IsRequest, AnyRequest
  <1>3. server' \subseteq taken /\ known' \in [Tabs -> SUBSET Messages] /\ requests' \subseteq requests
    BY <1>1, <1>2 DEF RequestTypes
  <1>4. RequestTypes'  BY <1>1, <1>3, RequestsGo
  <1> QED  BY <1>2, <1>4

LEMMA AcceptedKeeps ==
    ASSUME OutboxInv, NEW r \in requests, Accepted(r)
    PROVE  OutboxInv' /\ Ended(r.tab, r.id) /\ r.id \in Messages /\ r.tab \in open
  <1> DEFINE t == r.tab
             m == r.id
             q == ref[t]
  <1>1. /\ r.kind # "upload" /\ requests' = requests \ {r} /\ server' = server \cup {m}
        /\ RemoveOutbox(t, m) /\ UNCHANGED <<open, disk, events, known, used, taken, failures>>
    BY DEF Accepted, storage, session
  <1>2. failures \in [Messages -> Nat]  BY DEF OutboxInv, RequestTypes
  <1>3. RequestTypes' /\ m \in taken /\ m \in Messages /\ t \in open
    BY <1>1, <1>2, EndedRequest
  <1>4. Counting  BY <1>1, <1>2 DEF Counting
  <1>5. t \in Tabs /\ IsKept(q)  BY <1>3, IdsAreTaken
  <1>6. CASE m \notin IdsOf(q)
    <2>1. Untouched  BY <1>1, <1>6 DEF RemoveOutbox
    <2>2. Showing'  BY <1>1, <1>4, <2>1, QueuesStay
    <2> QED  BY <1>1, <1>3, <2>1, <2>2 DEF OutboxInv, Ended, Untouched
  <1>7. CASE m \in IdsOf(q)
    <2> DEFINE places == {i \in DOMAIN q : q[i].id # m}
    <2>1. SetOutboxProfile(t, Without(q, m))  BY <1>1, <1>7 DEF RemoveOutbox
    <2>2. Without(q, m) = Only(q, places)  BY DEF Without
    <2>3. Fits(q, MaxAttempts) /\ Counts(q, MaxAttempts, taken', failures')
      BY <1>4, <1>5, KeptStays DEF OutboxInv
    <2>4. /\ Fits(Only(q, places), MaxAttempts)
          /\ Counts(Only(q, places), MaxAttempts, taken', failures')
          /\ IdsOf(Only(q, places)) = {q[i].id : i \in places}
      BY <2>3, OnlyFits
    <2>5. {q[i].id : i \in places} = IdsOf(q) \ {m}  BY DEF IdsOf
    <2>6. Showing' /\ state'[t] = Without(q, m)
      BY <1>1, <1>3, <1>4, <2>1, <2>2, <2>4, SetsQueue
    <2>7. IdsOf(state'[t]) = IdsOf(q) \ {m}  BY <2>2, <2>4, <2>5, <2>6
    <2>8. Ended(t, m)  BY <1>1, <2>7 DEF Ended
    <2> QED  BY <1>3, <2>6, <2>8 DEF OutboxInv
  <1> QED  BY <1>6, <1>7

LEMMA OneMoreCounts ==
    ASSUME OutboxInv, NEW t \in open, NEW m \in Messages, OneMore(t, m), UNCHANGED <<open, taken>>
    PROVE  /\ Counting
           /\ \A x \in Messages : x # m \/ m \notin IdsOf(ref[t]) => failures'[x] = failures[x]
           /\ m \in IdsOf(ref[t]) =>
                  failures'[m] = IF failures[m] < MaxAttempts THEN failures[m] + 1 ELSE failures[m]
  <1>1. failures \in [Messages -> Nat] /\ MaxAttempts \in Nat
    BY MostIs DEF OutboxInv, RequestTypes
  <1>2. failures' = [failures EXCEPT ![m] =
            IF m \in IdsOf(ref[t]) /\ failures[m] < MaxAttempts THEN failures[m] + 1 ELSE failures[m]]
    BY DEF OneMore
  <1>3. failures' \in [Messages -> Nat]  BY <1>1, <1>2
  <1>4. \A x \in Messages : /\ failures[x] <= failures'[x]
                            /\ x # m \/ m \notin IdsOf(ref[t]) => failures'[x] = failures[x]
    <2>1. ASSUME NEW x \in Messages, x # m PROVE failures'[x] = failures[x]
      BY <1>1, <1>2, <2>1
    <2>2. failures'[m] = IF m \in IdsOf(ref[t]) /\ failures[m] < MaxAttempts
                         THEN failures[m] + 1 ELSE failures[m]
      BY <1>1, <1>2
    <2>3. failures[m] \in Nat /\ \A x \in Messages : failures[x] \in Nat  BY <1>1
    <2>4. failures[m] <= failures'[m]  BY <2>2, <2>3
    <2> QED  BY <2>1, <2>2, <2>3, <2>4
  <1> QED  BY <1>1, <1>2, <1>3, <1>4 DEF Counting

LEMMA FailKeeps ==
    ASSUME OutboxInv, NEW t \in open, NEW m \in Messages, NEW blocked \in BOOLEAN,
           FailOutbox(t, m, blocked), OneMore(t, m), UNCHANGED <<open, taken, disk, events>>,
           server' \in {server, server \cup {m}}
    PROVE  Showing' /\ Ended(t, m)
  <1> DEFINE q == ref[t]
  <1>1. /\ Counting
        /\ \A x \in Messages : x # m \/ m \notin IdsOf(ref[t]) => failures'[x] = failures[x]
    BY OneMoreCounts
  <1>2. CASE m \notin IdsOf(q)
    <2>1. Untouched  BY <1>2 DEF FailOutbox
    <2>2. Showing'  BY <1>1, <2>1, QueuesStay
    <2> QED  BY <1>1, <2>1, <2>2 DEF Ended, Untouched
  <1>3. CASE m \in IdsOf(q)
    <2>1. SetOutboxProfile(t, Failed(q, m, blocked))  BY <1>3 DEF FailOutbox
    <2>2. t \in Tabs /\ IsKept(q)  BY IdsAreTaken
    <2>3. Fits(q, MaxAttempts) /\ Counts(q, MaxAttempts, taken, failures)  BY <2>2 DEF IsKept
    <2>4. MaxAttempts \in Nat \ {0} /\ failures \in [Messages -> Nat]
      BY MostIs DEF OutboxInv, RequestTypes
    <2>5. /\ failures'[m] = IF failures[m] < MaxAttempts THEN failures[m] + 1 ELSE failures[m]
          /\ \A x \in Messages : x # m => failures'[x] = failures[x]
      BY <1>1, <1>3, OneMoreCounts
    <2>6. /\ Fits(Failed(q, m, blocked), MaxAttempts)
          /\ Counts(Failed(q, m, blocked), MaxAttempts, taken, failures')
          /\ IdsOf(Failed(q, m, blocked)) \in {IdsOf(q), IdsOf(q) \ {m}}
          /\ m \notin IdsOf(Failed(q, m, blocked)) => failures'[m] >= MaxAttempts
      BY <1>3, <2>3, <2>4, <2>5, FailedFits
    <2>7. Showing' /\ state'[t] = Failed(q, m, blocked)
      BY <1>1, <2>1, <2>6, SetsQueue
    <2>8. Ended(t, m)  BY <1>1, <2>6, <2>7 DEF Ended
    <2> QED  BY <2>7, <2>8
  <1> QED  BY <1>2, <1>3

LEMMA RequestFailedKeeps ==
    ASSUME OutboxInv, NEW r \in requests, RequestFailed(r)
    PROVE  OutboxInv' /\ Ended(r.tab, r.id) /\ r.id \in Messages /\ r.tab \in open
  <1>1. /\ r.kind # "upload" /\ requests' = requests \ {r} /\ server' \in {server, server \cup {r.id}}
        /\ OneMore(r.tab, r.id) /\ UNCHANGED <<open, disk, events, known, used, taken>>
        /\ IF Superseded(r) THEN Untouched ELSE FailOutbox(r.tab, r.id, FALSE)
    BY DEF RequestFailed, storage, session
  <1>2. r.id \in Messages /\ r.tab \in open
    BY DEF OutboxInv, RequestTypes, IsRequest, AnyRequest
  <1>3. Counting  BY <1>1, <1>2, OneMoreCounts
  <1>4. RequestTypes'  BY <1>1, <1>3, EndedRequest DEF Counting
  <1>5. CASE Superseded(r)
    <2>1. Untouched  BY <1>1, <1>5
    <2>2. Showing'  BY <1>1, <1>3, <2>1, QueuesStay
    <2>3. Ended(r.tab, r.id)  BY <1>1, <1>2, <2>1, OneMoreCounts DEF Ended, Untouched
    <2> QED  BY <1>2, <1>4, <2>2, <2>3 DEF OutboxInv
  <1>6. CASE ~Superseded(r)
    <2>1. FailOutbox(r.tab, r.id, FALSE)  BY <1>1, <1>6
    <2>2. Showing' /\ Ended(r.tab, r.id)  BY <1>1, <1>2, <2>1, FailKeeps
    <2> QED  BY <1>2, <1>4, <2>2 DEF OutboxInv
  <1> QED  BY <1>5, <1>6

LEMMA UnauthorizedKeeps ==
    ASSUME OutboxInv, NEW r \in requests, Unauthorized(r)
    PROVE  OutboxInv' /\ Ended(r.tab, r.id) /\ r.id \in Messages /\ r.tab \in open
  <1>1. /\ r.kind # "upload" /\ requests' = requests \ {r}
        /\ OneMore(r.tab, r.id) /\ UNCHANGED <<open, disk, events, known, used, taken, server>>
        /\ FailOutbox(r.tab, r.id, TRUE)
    BY DEF Unauthorized, storage, session
  <1>2. r.id \in Messages /\ r.tab \in open
    BY DEF OutboxInv, RequestTypes, IsRequest, AnyRequest
  <1>3. Counting  BY <1>1, <1>2, OneMoreCounts
  <1>4. RequestTypes'  BY <1>1, <1>3, EndedRequest DEF Counting
  <1>5. Showing' /\ Ended(r.tab, r.id)  BY <1>1, <1>2, FailKeeps
  <1> QED  BY <1>2, <1>4, <1>5 DEF OutboxInv

LEMMA RetryOutboxKeeps ==
    ASSUME OutboxInv, NEW t \in Tabs, Retries(t)
    PROVE  /\ OutboxInv' /\ t \in open /\ UNCHANGED <<taken, server, failures, known>>
           /\ \/ state' = state
              \/ \E lost \in SUBSET (IdsOf(ref[t]) \ known[t]) :
                     IdsOf(state'[t]) = IdsOf(ref[t]) \ lost
  <1> DEFINE ids == {e.id : e \in Ready(t)}
             q == ref[t]
             lost == ids \ known[t]
             places == {i \in DOMAIN q : q[i].id \notin lost}
  <1>1. /\ t \in open /\ requests' = requests \cup {Request(t, m, "retry", FALSE) : m \in ids \cap known[t]}
        /\ IF ids \subseteq known[t] THEN Untouched ELSE SetOutboxProfile(t, Only(q, places))
        /\ UNCHANGED <<open, disk, events, known, used, taken, server, failures>>
    BY DEF Retries, storage
  <1>2. ids \subseteq IdsOf(q)  BY DEF Ready, Range, IdsOf
  <1>3. IsKept(q) /\ ids \subseteq taken /\ ids \subseteq used /\ ids \subseteq Messages
        /\ lost \in SUBSET (IdsOf(ref[t]) \ known[t])
    BY <1>2, IdsAreTaken
  <1>4. RequestTypes  BY DEF OutboxInv
  <1> HIDE DEF ids
  <1>5. RequestTypes'
    <2>1. ASSUME NEW r \in requests', r \notin requests
          PROVE  r \in AnyRequest /\ r.kind = "retry" /\ r.tab = t /\ r.id \in ids
      <3>1. PICK m \in ids \cap known[t] : r = Request(t, m, "retry", FALSE)  BY <1>1, <2>1
      <3>2. t \in Tabs /\ m \in Messages /\ m \in ids  BY <1>3
      <3> QED  BY <3>1, <3>2 DEF Request, AnyRequest
    <2>2. ASSUME NEW r \in requests' PROVE IsRequest(r)'
      <3>1. \A p \in requests' : p.kind = "upload" => p \in requests  BY <2>1
      <3>2. CASE r \in requests  BY <1>1, <1>4, <3>1, <3>2 DEF RequestTypes, IsRequest
      <3>3. CASE r \notin requests
        <4>1. r.kind = "retry" /\ r.tab = t /\ r.id \in taken /\ r.id \in used
          BY <1>3, <2>1, <3>3
        <4> QED  BY <1>1, <4>1 DEF IsRequest
      <3> QED  BY <3>2, <3>3
    <2>3. requests' \subseteq AnyRequest  BY <1>4, <2>1 DEF RequestTypes
    <2> QED  BY <1>1, <1>4, <2>2, <2>3 DEF RequestTypes
  <1>6. Counting  BY <1>1, <1>4 DEF Counting, RequestTypes
  <1>7. CASE ids \subseteq known[t]
    <2>1. Untouched  BY <1>1, <1>7
    <2>2. Showing'  BY <1>1, <1>6, <2>1, QueuesStay
    <2> QED  BY <1>1, <1>5, <2>1, <2>2 DEF OutboxInv, Untouched
  <1>8. CASE ~(ids \subseteq known[t])
    <2>1. SetOutboxProfile(t, Only(q, places))  BY <1>1, <1>8
    <2>2. Fits(q, MaxAttempts) /\ Counts(q, MaxAttempts, taken', failures')
      BY <1>3, <1>6, KeptStays DEF OutboxInv
    <2>3. /\ Fits(Only(q, places), MaxAttempts)
          /\ Counts(Only(q, places), MaxAttempts, taken', failures')
          /\ IdsOf(Only(q, places)) = {q[i].id : i \in places}
      BY <2>2, OnlyFits
    <2>4. {q[i].id : i \in places} = IdsOf(q) \ lost  BY DEF IdsOf
    <2>5. Showing' /\ state'[t] = Only(q, places)
      BY <1>1, <1>6, <2>1, <2>3, SetsQueue
    <2>6. IdsOf(state'[t]) = IdsOf(q) \ lost  BY <2>3, <2>4, <2>5
    <2> QED  BY <1>1, <1>3, <1>5, <2>5, <2>6 DEF OutboxInv
  <1> QED  BY <1>7, <1>8

LEMMA RenderKeeps ==
    ASSUME OutboxInv, NEW t \in Tabs, Render(t)
    PROVE  OutboxInv' /\ UNCHANGED <<state, taken, server, failures, known>>
  <1>1. /\ dirty[t] /\ dirty' = [dirty EXCEPT ![t] = FALSE]
        /\ ref' = [ref EXCEPT ![t] = state[t]] /\ disk' \in {disk, state[t]}
        /\ disk' = state[t] \/ state[t] = <<>>
        /\ events' = IF disk' = disk THEN events ELSE events \cup (open \ {t})
        /\ UNCHANGED <<open, state, known, requests, used, server, failures, taken>>
    BY DEF Render, session, request
  <1>2. RequestTypes /\ QueueTypes /\ Queues /\ Settled /\ Alone  BY DEF OutboxInv, Showing
  <1>3. RequestTypes'  BY <1>1, <1>2 DEF RequestTypes, IsRequest
  <1>4. MaxAttempts' = MaxAttempts  BY <1>1 DEF MaxAttempts
  <1>5. t \in open  BY <1>1, <1>2 DEF Settled
  <1>6. \A s \in Tabs : /\ ref'[s] = (IF s = t THEN state[s] ELSE ref[s])
                        /\ dirty'[s] = (IF s = t THEN FALSE ELSE dirty[s])
    BY <1>1, <1>2 DEF QueueTypes
  <1>7. QueueTypes'  BY <1>1, <1>2 DEF QueueTypes
  <1>8. Queues'
    <2>1. IsKept(disk')  BY <1>1, <1>2 DEF Queues
    <2>2. \A s \in Tabs : IsKept(ref'[s]) /\ IsKept(state'[s])  BY <1>1, <1>2, <1>6 DEF Queues
    <2> QED  BY <1>1, <1>4, <2>1, <2>2 DEF Queues, IsKept
  <1>9. Settled'
    <2> SUFFICES ASSUME NEW s \in Tabs
                 PROVE  /\ dirty'[s] => s \in open
                        /\ ~dirty'[s] => ref'[s] = state'[s]
                        /\ ~dirty'[s] /\ s \in open \ events' =>
                               state'[s] \in {<<>>, disk', Read(disk', MaxAttempts)}
      BY <1>1, <1>4 DEF Settled
    <2>1. CASE s = t  BY <1>1, <1>6, <2>1
    <2>2. CASE s # t
      <3>1. /\ dirty[s] => s \in open
            /\ ~dirty[s] => ref[s] = state[s]
            /\ ~dirty[s] /\ s \in open \ events =>
                   state[s] \in {<<>>, disk, Read(disk, MaxAttempts)}
        BY <1>2 DEF Settled
      <3>2. CASE disk' = disk
        <4>1. events' = events  BY <1>1, <3>2
        <4> QED  BY <1>1, <1>6, <2>2, <3>1, <3>2, <4>1
      <3>3. CASE disk' # disk
        <4>1. s \notin open \ events'  BY <1>1, <2>2, <3>3
        <4> QED  BY <1>1, <1>6, <2>2, <3>1, <4>1
      <3> QED  BY <3>2, <3>3
    <2> QED  BY <2>1, <2>2
  <1>10. Alone'
    <2> SUFFICES ASSUME Cardinality(open) = 1 PROVE events' = {} /\ state' = ref'
      BY <1>1 DEF Alone
    <2>1. open = {t}  BY <1>2, <1>5, MostIs
    <2>2. events = {} /\ state = ref  BY <1>2 DEF Alone
    <2>3. ref' = ref  BY <1>1, <1>2, <2>2 DEF QueueTypes
    <2> QED  BY <1>1, <2>1, <2>2, <2>3
  <1> QED  BY <1>1, <1>3, <1>7, <1>8, <1>9, <1>10 DEF OutboxInv, Showing

LEMMA ReadsSaved ==
    /\ \A queue : SanitizeOutbox(queue) = Read(queue, MaxAttempts)
    /\ ReadOutboxProfile = Read(disk, MaxAttempts)
  BY DEF SanitizeOutbox, Read, Unspent, ReadOutboxProfile

LEMMA WhatIsSaved ==
    ASSUME OutboxInv
    PROVE  IsKept(ReadOutboxProfile) /\ IdsOf(ReadOutboxProfile) \subseteq taken
           /\ ReadOutboxProfile \in Seq(Entry)
           /\ SanitizeOutbox(ReadOutboxProfile) = ReadOutboxProfile
  <1>1. IsKept(disk)  BY DEF OutboxInv, Showing, Queues
  <1>2. Fits(disk, MaxAttempts) /\ Counts(disk, MaxAttempts, taken, failures)  BY <1>1 DEF IsKept
  <1>3. /\ Fits(Read(disk, MaxAttempts), MaxAttempts)
        /\ Counts(Read(disk, MaxAttempts), MaxAttempts, taken, failures)
        /\ Read(Read(disk, MaxAttempts), MaxAttempts) = Read(disk, MaxAttempts)
    BY <1>2, ReadFits
  <1>4. IsKept(ReadOutboxProfile)  BY <1>3, ReadsSaved DEF IsKept
  <1>5. ReadOutboxProfile \in Seq(Entry)  BY <1>4 DEF IsKept, Fits
  <1> QED  BY <1>3, <1>4, <1>5, KeptIds, ReadsSaved

LEMMA HandleStorageKeeps ==
    ASSUME OutboxInv, NEW t \in Tabs, HandleStorage(t)
    PROVE  OutboxInv' /\ Cardinality(open) # 1
  <1> DEFINE saved == ReadOutboxProfile
  <1>1. /\ t \in events /\ events' = events \ {t} /\ state' = [state EXCEPT ![t] = saved]
        /\ dirty' = [dirty EXCEPT ![t] = @ \/ state'[t] # <<>> \/ state[t] # <<>>]
        /\ UNCHANGED <<open, ref, disk, known, requests, used, server, failures, taken>>
    BY DEF HandleStorage, session, request
  <1>2. RequestTypes /\ QueueTypes /\ Queues /\ Settled /\ Alone  BY DEF OutboxInv, Showing
  <1>3. IsKept(saved) /\ saved \in Seq(Entry) /\ saved = Read(disk, MaxAttempts)
    BY WhatIsSaved, ReadsSaved
  <1> HIDE DEF saved
  <1>4. MaxAttempts' = MaxAttempts  BY <1>1 DEF MaxAttempts
  <1>5. Cardinality(open) # 1 /\ t \in open  BY <1>1, <1>2 DEF Alone, QueueTypes
  <1>6. /\ \A s \in Tabs : s # t => state'[s] = state[s] /\ dirty'[s] = dirty[s]
        /\ state'[t] = saved /\ dirty'[t] = (dirty[t] \/ saved # <<>> \/ state[t] # <<>>)
        /\ dirty' \in [Tabs -> BOOLEAN] /\ state' \in [Tabs -> Seq(Entry)]
    BY <1>1, <1>2, <1>3 DEF QueueTypes
  <1>7. RequestTypes'  BY <1>1, <1>2 DEF RequestTypes, IsRequest
  <1>8. QueueTypes'  BY <1>1, <1>2, <1>6 DEF QueueTypes
  <1>9. Queues'
    <2>1. \A s \in Tabs : IsKept(state'[s]) /\ IsKept(ref[s])  BY <1>2, <1>3, <1>6 DEF Queues
    <2> QED  BY <1>1, <1>2, <1>4, <2>1 DEF Queues, IsKept
  <1>10. Settled'
    <2> SUFFICES ASSUME NEW s \in Tabs
                 PROVE  /\ dirty'[s] => s \in open
                        /\ ~dirty'[s] => ref[s] = state'[s]
                        /\ ~dirty'[s] /\ s \in open \ events' =>
                               state'[s] \in {<<>>, disk, Read(disk, MaxAttempts)}
      BY <1>1, <1>4 DEF Settled
    <2>1. /\ dirty[s] => s \in open
          /\ ~dirty[s] => ref[s] = state[s]
          /\ ~dirty[s] /\ s \in open \ events =>
                 state[s] \in {<<>>, disk, Read(disk, MaxAttempts)}
      BY <1>2 DEF Settled
    <2>2. CASE s = t  BY <1>3, <1>5, <1>6, <2>1, <2>2
    <2>3. CASE s # t
      <3>1. s \in open \ events' => s \in open \ events  BY <1>1, <2>3
      <3> QED  BY <1>6, <2>1, <2>3, <3>1
    <2> QED  BY <2>2, <2>3
  <1>11. Alone'  BY <1>1, <1>5 DEF Alone
  <1> QED  BY <1>5, <1>7, <1>8, <1>9, <1>10, <1>11 DEF OutboxInv, Showing

LEMMA BecomesDueKeeps ==
    ASSUME OutboxInv, NEW m \in Messages, BecomesDue(m)
    PROVE  /\ OutboxInv' /\ UNCHANGED <<open, taken, server, failures, known>>
           /\ \A s \in Tabs : IdsOf(state'[s]) = IdsOf(state[s])
  <1>1. /\ ref' = [s \in Tabs |-> Due(ref[s], m)] /\ state' = [s \in Tabs |-> Due(state[s], m)]
        /\ disk' = Due(disk, m)
        /\ UNCHANGED <<open, dirty, events, known, requests, used, server, failures, taken>>
    BY DEF BecomesDue, session, request
  <1>2. RequestTypes /\ QueueTypes /\ Queues /\ Settled /\ Alone  BY DEF OutboxInv, Showing
  <1>3. MaxAttempts' = MaxAttempts  BY <1>1 DEF MaxAttempts
  <1>4. ASSUME NEW queue, IsKept(queue)
        PROVE  /\ IsKept(Due(queue, m)) /\ IdsOf(Due(queue, m)) = IdsOf(queue)
               /\ Due(queue, m) \in Seq(Entry)
               /\ Read(Due(queue, m), MaxAttempts) = Due(Read(queue, MaxAttempts), m)
    <2>1. Fits(queue, MaxAttempts) /\ Counts(queue, MaxAttempts, taken, failures)
      BY <1>4 DEF IsKept
    <2>2. /\ Fits(Due(queue, m), MaxAttempts)
          /\ Counts(Due(queue, m), MaxAttempts, taken, failures)
          /\ IdsOf(Due(queue, m)) = IdsOf(queue)
          /\ Read(Due(queue, m), MaxAttempts) = Due(Read(queue, MaxAttempts), m)
      BY <2>1, DueFits
    <2> QED  BY <2>2 DEF IsKept, Fits
  <1>5. Due(<<>>, m) = <<>>
    BY NothingFits, DueFits
  <1>6. RequestTypes'  BY <1>1, <1>2 DEF RequestTypes, IsRequest
  <1>7. \A s \in Tabs : ref'[s] = Due(ref[s], m) /\ state'[s] = Due(state[s], m)  BY <1>1
  <1>8. \A s \in Tabs : IsKept(ref[s]) /\ IsKept(state[s])  BY <1>2 DEF Queues
  <1>9. QueueTypes'
    <2>1. \A s \in Tabs : Due(ref[s], m) \in Seq(Entry) /\ Due(state[s], m) \in Seq(Entry)
      BY <1>4, <1>8
    <2>2. ref' \in [Tabs -> Seq(Entry)] /\ state' \in [Tabs -> Seq(Entry)]  BY <1>1, <2>1
    <2> QED  BY <1>1, <1>2, <2>2 DEF QueueTypes
  <1>10. Queues'
    <2>1. IsKept(disk') /\ \A s \in Tabs : IsKept(ref'[s]) /\ IsKept(state'[s])
      BY <1>1, <1>2, <1>4, <1>7, <1>8 DEF Queues
    <2> QED  BY <1>1, <1>3, <2>1 DEF Queues, IsKept
  <1>11. Settled'
    <2> SUFFICES ASSUME NEW s \in Tabs
                 PROVE  /\ dirty[s] => s \in open
                        /\ ~dirty[s] => ref'[s] = state'[s]
                        /\ ~dirty[s] /\ s \in open \ events =>
                               state'[s] \in {<<>>, disk', Read(disk', MaxAttempts)}
      BY <1>1, <1>3 DEF Settled
    <2>1. /\ dirty[s] => s \in open
          /\ ~dirty[s] => ref[s] = state[s]
          /\ ~dirty[s] /\ s \in open \ events =>
                 state[s] \in {<<>>, disk, Read(disk, MaxAttempts)}
      BY <1>2 DEF Settled
    <2>2. Read(disk', MaxAttempts) = Due(Read(disk, MaxAttempts), m)
      BY <1>1, <1>2, <1>4 DEF Queues
    <2> QED  BY <1>1, <1>5, <1>7, <2>1, <2>2
  <1>12. Alone'
    <2> SUFFICES ASSUME Cardinality(open) = 1 PROVE events = {} /\ state' = ref'
      BY <1>1 DEF Alone
    <2> QED  BY <1>1, <1>2 DEF Alone
  <1>13. \A s \in Tabs : IdsOf(state'[s]) = IdsOf(state[s])  BY <1>4, <1>7, <1>8
  <1> QED  BY <1>1, <1>6, <1>9, <1>10, <1>11, <1>12, <1>13 DEF OutboxInv, Showing

LEMMA NewView ==
    ASSUME RequestTypes, NEW t \in Tabs,
           known' \in {[known EXCEPT ![t] = view] : view \in SessionViews[Cardinality(open)]}
    PROVE  known' \in [Tabs -> SUBSET Messages]
  <1>1. PICK view \in SessionViews[Cardinality(open)] : known' = [known EXCEPT ![t] = view]
    OBVIOUS
  <1>2. view \subseteq Messages  BY MostIs
  <1> QED  BY <1>1, <1>2 DEF RequestTypes

LEMMA SignInKeeps ==
    ASSUME OutboxInv, NEW t \in Tabs, SignIn(t)
    PROVE  /\ OutboxInv' /\ t \in open /\ UNCHANGED <<open, taken, server, failures>>
           /\ state' = state \/ IdsOf(state'[t]) = IdsOf(ref[t])
  <1> DEFINE q == [i \in DOMAIN ref[t] |-> NewEntry(ref[t][i].id)]
  <1>1. /\ t \in open
        /\ known' \in {[known EXCEPT ![t] = view] : view \in SessionViews[Cardinality(open)]}
        /\ IF \E e \in Range(ref[t]) : e.blocked THEN SetOutboxProfile(t, q) ELSE Untouched
        /\ UNCHANGED <<open, disk, events, requests, used, server, failures, taken>>
    BY DEF SignIn, storage, session, request
  <1>2. RequestTypes  BY DEF OutboxInv
  <1>3. Counting  BY <1>1, <1>2 DEF Counting, RequestTypes
  <1>4. RequestTypes'
    <2>1. known' \in [Tabs -> SUBSET Messages]  BY <1>1, <1>2, NewView
    <2>2. server' \subseteq taken /\ failures' \in [Messages -> Nat] /\ requests' \subseteq requests
      BY <1>1, <1>2 DEF RequestTypes
    <2> QED  BY <1>1, <1>2, <2>1, <2>2, RequestsGo
  <1>5. CASE Untouched
    <2>1. Showing'  BY <1>1, <1>3, <1>5, QueuesStay
    <2> QED  BY <1>1, <1>4, <1>5, <2>1 DEF OutboxInv, Untouched
  <1>6. CASE SetOutboxProfile(t, q)
    <2>1. Fits(ref[t], MaxAttempts) /\ Counts(ref[t], MaxAttempts, taken', failures')
      BY <1>3, IdsAreTaken, KeptStays DEF OutboxInv
    <2>2. MaxAttempts \in Nat \ {0} /\ failures' \in [Messages -> Nat]
      BY <1>2, <1>3, MostIs DEF Counting
    <2>3. /\ Fits(q, MaxAttempts) /\ IdsOf(q) = IdsOf(ref[t])
          /\ Counts(q, MaxAttempts, taken', failures')
      BY <2>1, <2>2, FreedFits
    <2> HIDE DEF q
    <2>4. Showing' /\ state'[t] = q  BY <1>1, <1>3, <1>6, <2>3, SetsQueue
    <2> QED  BY <1>1, <1>4, <2>3, <2>4 DEF OutboxInv
  <1> QED  BY <1>1, <1>5, <1>6

LEMMA ClearActiveOutboxKeeps ==
    ASSUME OutboxInv, NEW t \in Tabs, ClearActiveOutbox(t)
    PROVE  /\ OutboxInv' /\ t \in open /\ UNCHANGED <<open, taken, server, failures>>
           /\ IdsOf(state'[t]) = {}
  <1>1. /\ t \in open /\ SetOutboxProfile(t, <<>>)
        /\ UNCHANGED <<open, disk, events, known, requests, used, server, failures, taken>>
    BY DEF ClearActiveOutbox, storage, session, request
  <1>2. RequestTypes  BY DEF OutboxInv
  <1>3. Counting  BY <1>1, <1>2 DEF Counting, RequestTypes
  <1>4. Fits(<<>>, MaxAttempts) /\ Counts(<<>>, MaxAttempts, taken', failures')
        /\ IdsOf(<<>>) = {}
    BY NothingFits
  <1>5. Showing' /\ state'[t] = <<>>  BY <1>1, <1>3, <1>4, SetsQueue
  <1>6. RequestTypes'  BY <1>1, <1>2 DEF RequestTypes, IsRequest
  <1> QED  BY <1>1, <1>4, <1>5, <1>6 DEF OutboxInv

LEMMA ReloadKeeps ==
    ASSUME OutboxInv, NEW t \in Tabs, Reload(t)
    PROVE  /\ OutboxInv' /\ t \in open /\ UNCHANGED <<open, taken, failures>>
           /\ state'[t] = ReadOutboxProfile
  <1> DEFINE saved == ReadOutboxProfile
  <1>1. /\ t \in open /\ ref' = [ref EXCEPT ![t] = saved] /\ state' = [state EXCEPT ![t] = saved]
        /\ dirty' = [dirty EXCEPT ![t] = FALSE] /\ requests' \subseteq requests
        /\ known' \in {[known EXCEPT ![t] = view] : view \in SessionViews[Cardinality(open)]}
        /\ events' = events \ {t} /\ UNCHANGED <<open, disk, used, taken, failures>>
    BY DEF Reload
  <1>2. PICK heard \in SUBSET {r.id : r \in {q \in requests : q.tab = t /\ q.kind # "upload"}} :
            server' = server \cup heard
    BY DEF Reload
  <1>3. RequestTypes /\ QueueTypes /\ Queues /\ Settled /\ Alone  BY DEF OutboxInv, Showing
  <1>4. IsKept(saved) /\ saved \in Seq(Entry) /\ saved = Read(disk, MaxAttempts)
    BY WhatIsSaved, ReadsSaved
  <1> HIDE DEF saved
  <1>5. MaxAttempts' = MaxAttempts  BY <1>1 DEF MaxAttempts
  <1>6. RequestTypes'
    <2>1. known' \in [Tabs -> SUBSET Messages]  BY <1>1, <1>3, NewView
    <2>2. heard \subseteq taken  BY <1>2, <1>3 DEF RequestTypes, IsRequest
    <2>3. server' \subseteq taken /\ failures' \in [Messages -> Nat]
      BY <1>1, <1>2, <1>3, <2>2 DEF RequestTypes
    <2> QED  BY <1>1, <1>3, <2>1, <2>3, RequestsGo
  <1>7. /\ \A s \in Tabs : s # t => /\ ref'[s] = ref[s] /\ state'[s] = state[s]
                                    /\ dirty'[s] = dirty[s]
        /\ ref'[t] = saved /\ state'[t] = saved /\ ~dirty'[t]
        /\ dirty' \in [Tabs -> BOOLEAN]
        /\ ref' \in [Tabs -> Seq(Entry)] /\ state' \in [Tabs -> Seq(Entry)]
    BY <1>1, <1>3, <1>4 DEF QueueTypes
  <1>8. QueueTypes'  BY <1>1, <1>3, <1>7 DEF QueueTypes
  <1>9. Queues'
    <2>1. \A s \in Tabs : IsKept(state'[s]) /\ IsKept(ref'[s])  BY <1>3, <1>4, <1>7 DEF Queues
    <2> QED  BY <1>1, <1>3, <1>5, <2>1 DEF Queues, IsKept
  <1>10. Settled'
    <2> SUFFICES ASSUME NEW s \in Tabs
                 PROVE  /\ dirty'[s] => s \in open
                        /\ ~dirty'[s] => ref'[s] = state'[s]
                        /\ ~dirty'[s] /\ s \in open \ events' =>
                               state'[s] \in {<<>>, disk, Read(disk, MaxAttempts)}
      BY <1>1, <1>5 DEF Settled
    <2>1. /\ dirty[s] => s \in open
          /\ ~dirty[s] => ref[s] = state[s]
          /\ ~dirty[s] /\ s \in open \ events =>
                 state[s] \in {<<>>, disk, Read(disk, MaxAttempts)}
      BY <1>3 DEF Settled
    <2>2. CASE s = t  BY <1>4, <1>7, <2>2
    <2>3. CASE s # t
      <3>1. s \in open \ events' => s \in open \ events  BY <1>1, <2>3
      <3> QED  BY <1>7, <2>1, <2>3, <3>1
    <2> QED  BY <2>2, <2>3
  <1>11. Alone'
    <2> SUFFICES ASSUME Cardinality(open) = 1 PROVE events' = {} /\ state' = ref'
      BY <1>1 DEF Alone
    <2>1. events = {} /\ state = ref  BY <1>3 DEF Alone
    <2> QED  BY <1>1, <2>1
  <1> QED  BY <1>1, <1>6, <1>7, <1>8, <1>9, <1>10, <1>11 DEF OutboxInv, Showing, saved

(* A lost socket touches no queue.                                          *)
LEMMA SocketLostKeeps == ASSUME OutboxInv, NEW t, SocketLost(t) PROVE OutboxInv'
  <1>1. UNCHANGED <<open, ref, state, dirty, disk, events, known, requests, used, taken, server,
                    failures>>
    BY DEF SocketLost, storage, request, Untouched
  <1> QED
    BY <1>1 DEF OutboxInv, RequestTypes, IsRequest, Showing, QueueTypes, Queues, IsKept,
                Settled, Alone, MaxAttempts

LEMMA OutboxStutters == OutboxInv /\ UNCHANGED vars => OutboxInv'
  BY DEF vars, OutboxInv, RequestTypes, IsRequest, Showing, QueueTypes, Queues, IsKept, Settled,
         Alone, MaxAttempts

LEMMA OutboxStep == OutboxInv /\ [Next]_vars => OutboxInv'
  <1> SUFFICES ASSUME OutboxInv, [Next]_vars PROVE OutboxInv'
    OBVIOUS
  <1>1. ASSUME NEW t \in Tabs, Retries(t) PROVE OutboxInv'  BY <1>1, RetryOutboxKeeps
  <1>2. ASSUME NEW t \in Tabs, Render(t) PROVE OutboxInv'  BY <1>2, RenderKeeps
  <1>3. ASSUME NEW t \in Tabs, HandleStorage(t) PROVE OutboxInv'  BY <1>3, HandleStorageKeeps
  <1>4. ASSUME NEW t \in Tabs, SignIn(t) PROVE OutboxInv'  BY <1>4, SignInKeeps
  <1>5. ASSUME NEW t \in Tabs, ClearActiveOutbox(t) PROVE OutboxInv'
    BY <1>5, ClearActiveOutboxKeeps
  <1>6. ASSUME NEW t \in Tabs, CancelMediaOperation(t) PROVE OutboxInv'
    BY <1>6, CancelMediaOperationKeeps
  <1>7. ASSUME NEW t \in Tabs, Reload(t) PROVE OutboxInv'  BY <1>7, ReloadKeeps
  <1>8. ASSUME NEW t \in Tabs, NEW m \in Messages, Send(t, m) PROVE OutboxInv'
    BY <1>8, SendKeeps
  <1>9. ASSUME NEW t \in Tabs, NEW m \in Messages, SendMedia(t, m) PROVE OutboxInv'
    BY <1>9, SendMediaKeeps
  <1>10. ASSUME NEW m \in Messages, BecomesDue(m) PROVE OutboxInv'  BY <1>10, BecomesDueKeeps
  <1>11. ASSUME NEW r \in requests, Uploaded(r) PROVE OutboxInv'  BY <1>11, UploadedKeeps
  <1>12. ASSUME NEW r \in requests, Accepted(r) PROVE OutboxInv'  BY <1>12, AcceptedKeeps
  <1>13. ASSUME NEW r \in requests, RequestFailed(r) PROVE OutboxInv'
    BY <1>13, RequestFailedKeeps
  <1>14. ASSUME NEW r \in requests, Unauthorized(r) PROVE OutboxInv'
    BY <1>14, UnauthorizedKeeps
  <1>15. CASE UNCHANGED vars  BY <1>15, OutboxStutters
  <1>16. ASSUME NEW t \in Tabs, SocketLost(t) PROVE OutboxInv'  BY <1>16, SocketLostKeeps
  <1> QED  BY <1>1, <1>2, <1>3, <1>4, <1>5, <1>6, <1>7, <1>8, <1>9, <1>10, <1>11, <1>12, <1>13,
              <1>14, <1>15, <1>16 DEF Next, RetryOutbox, SocketReady

LEMMA OutboxHolds == Spec => []OutboxInv
  BY OutboxInit, OutboxStep, PTL DEF Spec

-------------------------------------------------------------------------------
(* Every copy is a queue.                                                   *)
LEMMA KeptIsQueue ==
    ASSUME OutboxInv, NEW queue, IsKept(queue)
    PROVE  IsQueue(queue)
  <1> DEFINE L == Len(queue)
             f == [i \in 1..L |-> queue[i].id]
  <1>1. /\ queue \in Seq(Entry) /\ L <= MaxEntries /\ L \in Nat /\ DOMAIN queue = 1..L
        /\ \A i, j \in 1..L : queue[i].id = queue[j].id => i = j
        /\ \A i \in 1..L : queue[i].blocked \/ queue[i].attempts < MaxAttempts
    BY LenProperties DEF IsKept, Fits
  <1>2. MaxAttempts \in Nat  BY MostIs DEF OutboxInv
  <1>3. ASSUME NEW i \in 1..L PROVE queue[i] \in Entries
    <2>1. queue[i] \in Entry  BY <1>1, ElementOfSeq
    <2>2. CASE queue[i].blocked
      <3>1. queue[i].blocked = TRUE  BY <2>1, <2>2 DEF Entry
      <3> QED  BY <2>1, <3>1 DEF Entry, Entries
    <2>3. CASE queue[i].attempts < MaxAttempts
      <3>1. queue[i].attempts \in 0..(MaxAttempts - 1)  BY <1>2, <2>1, <2>3 DEF Entry
      <3> QED  BY <2>1, <3>1 DEF Entry, Entries
    <2> QED  BY <1>1, <2>2, <2>3
  <1>4. Range(queue) \subseteq Entries  BY <1>1, <1>3 DEF Range
  <1>5. f \in Bijection(1..L, IdsOf(queue))
    BY <1>1 DEF IdsOf, Bijection, Injection, Surjection, IsInjective
  <1>6. IsFiniteSet(1..L) /\ Cardinality(1..L) = L
    <2>1. L \in Nat  BY <1>1
    <2> HIDE DEF L
    <2> QED  BY <2>1, FS_Interval
  <1>7. Cardinality(IdsOf(queue)) = L  BY <1>5, <1>6, FS_Bijection DEF ExistsBijection
  <1> QED  BY <1>1, <1>4, <1>7 DEF IsQueue

(* The tabs that poll are tabs.                                             *)
TabsPoll == polls \subseteq Tabs
LEMMA PollsStep == TabsPoll /\ [Next]_vars => TabsPoll'
  <1> SUFFICES ASSUME TabsPoll, [Next]_vars PROVE TabsPoll'
    OBVIOUS
  <1>1. ASSUME UNCHANGED polls PROVE TabsPoll'  BY <1>1 DEF TabsPoll
  <1>2. ASSUME NEW t \in Tabs, \/ RetryOutbox(t) \/ SocketReady(t) \/ SocketLost(t)
                               \/ SignIn(t) \/ Reload(t)
        PROVE  TabsPoll'
    BY <1>2 DEF RetryOutbox, SocketReady, SocketLost, SignIn, Reload, TabsPoll
  <1>3. ASSUME NEW t \in Tabs, \/ Render(t) \/ HandleStorage(t) \/ ClearActiveOutbox(t)
                               \/ CancelMediaOperation(t)
        PROVE  UNCHANGED polls
    BY <1>3 DEF Render, HandleStorage, ClearActiveOutbox, CancelMediaOperation, session
  <1>4. ASSUME NEW t \in Tabs, NEW m \in Messages, Send(t, m) \/ SendMedia(t, m)
        PROVE  UNCHANGED polls
    BY <1>4 DEF Send, SendMedia, session
  <1>5. ASSUME NEW m \in Messages, BecomesDue(m) PROVE UNCHANGED polls
    BY <1>5 DEF BecomesDue, session
  <1>6. ASSUME NEW r \in requests,
               Uploaded(r) \/ Accepted(r) \/ RequestFailed(r) \/ Unauthorized(r)
        PROVE  UNCHANGED polls
    BY <1>6 DEF Uploaded, Accepted, RequestFailed, Unauthorized, session
  <1>7. CASE UNCHANGED vars  BY <1>1, <1>7 DEF vars
  <1> QED  BY <1>1, <1>2, <1>3, <1>4, <1>5, <1>6, <1>7 DEF Next

(* TypeOK: every copy of the queue has each message once, is no longer than *)
(* MaxEntries and has no entry without attempts left (App.tsx, queueOutbox, *)
(* failOutbox, sanitizeOutbox), in the ref, the state and localStorage.     *)
THEOREM OutboxTypes == Spec => []TypeOK
  <1>1. OutboxInv /\ TabsPoll => TypeOK
    <2> SUFFICES ASSUME OutboxInv, TabsPoll PROVE TypeOK
      OBVIOUS
    <2>1. IsQueue(disk) /\ \A t \in Tabs : IsQueue(ref[t]) /\ IsQueue(state[t])
      BY KeptIsQueue DEF OutboxInv, Showing, Queues
    <2> QED  BY <2>1 DEF TypeOK, TabsPoll, OutboxInv, RequestTypes, AnyRequest
  <1>2. Init => TabsPoll  BY DEF Init, TabsPoll
  <1> QED  BY <1>1, <1>2, OutboxHolds, PollsStep, PTL DEF Spec

(* TabsAgree: whatever the order in which tabs write the shared queue, and  *)
(* hear of it, once all have rendered and heard, a tab whose queue is not   *)
(* empty shows the one that is saved, less the entries a read would drop.   *)
THEOREM OpenTabsAgree == Spec => []TabsAgree
  <1>1. OutboxInv => TabsAgree
    <2> SUFFICES ASSUME OutboxInv, events = {}, \A t \in open : ~dirty[t], NEW t \in open
                 PROVE  SanitizeOutbox(ref[t]) \in {<<>>, ReadOutboxProfile} /\ state[t] = ref[t]
      BY DEF TabsAgree
    <2>1. t \in Tabs  BY IdsAreTaken
    <2>2. ref[t] = state[t] /\ state[t] \in {<<>>, disk, Read(disk, MaxAttempts)}
      BY <2>1 DEF OutboxInv, Showing, Settled
    <2>3. SanitizeOutbox(<<>>) = <<>>  BY NothingFits, ReadsSaved
    <2>4. SanitizeOutbox(disk) = ReadOutboxProfile  BY DEF ReadOutboxProfile
    <2>5. SanitizeOutbox(ReadOutboxProfile) = ReadOutboxProfile  BY WhatIsSaved
    <2> QED  BY <2>2, <2>3, <2>4, <2>5, ReadsSaved
  <1> QED  BY <1>1, OutboxHolds, PTL

-------------------------------------------------------------------------------
(* The outbox keeps the promise of OutboxPromise.                           *)
PhaseIn(t, m) == IF m \notin taken THEN "new"
                 ELSE IF m \in IdsOf(state[t]) THEN "kept" ELSE Departed(m)

LEMMA PhaseOfOne ==
    ASSUME NEW t, open = {t}
    PROVE  /\ Phase = [m \in Messages |-> PhaseIn(t, m)]
           /\ t \in open /\ Cardinality(open) = 1
  <1>1. Cardinality(open) = 1  BY FS_Singleton
  <1>2. ~(Cardinality(open) > 1)  BY <1>1
  <1>3. \A m \in Messages : (\E s \in open : m \in IdsOf(state[s])) <=> m \in IdsOf(state[t])
    OBVIOUS
  <1> QED  BY <1>1, <1>2, <1>3 DEF Phase, PhaseIn

LEMMA PhaseOfOneNext ==
    ASSUME NEW t, open' = {t}
    PROVE  Phase' = [m \in Messages |-> PhaseIn(t, m)']
  <1>1. Cardinality(open)' = 1  BY FS_Singleton
  <1>2. ~(Cardinality(open)' > 1)  BY <1>1
  <1>3. \A m \in Messages : (\E s \in open : m \in IdsOf(state[s]))' <=> m \in IdsOf(state'[t])
    OBVIOUS
  <1> QED  BY <1>2, <1>3 DEF Phase, PhaseIn

(* A step that neither takes a message nor answers for one.                 *)
LEMMA PhaseStays ==
    ASSUME NEW t, open = {t}, UNCHANGED <<open, taken, server, failures>>,
           IdsOf(state'[t]) = IdsOf(state[t])
    PROVE  Phase' = Phase
  <1>1. MaxAttempts' = MaxAttempts  BY DEF MaxAttempts
  <1>2. \A m \in Messages : PhaseIn(t, m)' = PhaseIn(t, m)  BY <1>1 DEF PhaseIn, Departed
  <1> QED  BY <1>2, PhaseOfOne, PhaseOfOneNext

LEMMA TakesOne ==
    ASSUME NEW t, open = {t}, NEW m \in Messages \ taken, taken' = taken \cup {m},
           UNCHANGED <<open, server, failures>>, IdsOf(state'[t]) = IdsOf(state[t]) \cup {m}
    PROVE  Promise!Take(m)
  <1>1. MaxAttempts' = MaxAttempts  BY DEF MaxAttempts
  <1>2. PhaseIn(t, m) = "new" /\ PhaseIn(t, m)' = "kept"  BY DEF PhaseIn
  <1>3. \A x \in Messages : x # m => PhaseIn(t, x)' = PhaseIn(t, x)
    BY <1>1 DEF PhaseIn, Departed
  <1>4. Phase[m] = "new"  BY <1>2, PhaseOfOne
  <1>5. Phase' = [x \in Messages |-> IF x \in {m} THEN "kept" ELSE Phase[x]]
    BY <1>2, <1>3, PhaseOfOne, PhaseOfOneNext
  <1> QED  BY <1>4, <1>5 DEF Promise!Take, Promise!Leave

LEMMA EndsOne ==
    ASSUME OutboxInv, NEW t, open = {t}, open' = open, NEW m \in Messages \cap taken, Ended(t, m)
    PROVE  Promise!Confirm(m) \/ Promise!GiveUp(m) \/ Phase' = Phase
  <1>1. MaxAttempts' = MaxAttempts  BY DEF MaxAttempts
  <1>2. state = ref /\ t \in Tabs
    BY IdsAreTaken, PhaseOfOne DEF OutboxInv, Showing, Alone
  <1>3. /\ taken' = taken /\ server' \in {server, server \cup {m}}
        /\ \A x \in Messages : x # m \/ m \notin IdsOf(state[t]) => failures'[x] = failures[x]
        /\ IdsOf(state'[t]) \in {IdsOf(state[t]), IdsOf(state[t]) \ {m}}
        /\ m \in IdsOf(state[t]) \ IdsOf(state'[t]) => m \in server' \/ failures'[m] >= MaxAttempts
    BY <1>2 DEF Ended
  <1>4. \A x \in Messages : x # m => PhaseIn(t, x)' = PhaseIn(t, x)
    BY <1>1, <1>3 DEF PhaseIn, Departed
  <1>5. ASSUME NEW to, PhaseIn(t, m)' = to
        PROVE  Promise!Leave({m}, to)
    <2>1. Phase' = [x \in Messages |-> IF x \in {m} THEN to ELSE Phase[x]]
      BY <1>4, <1>5, PhaseOfOne, PhaseOfOneNext
    <2> QED  BY <2>1 DEF Promise!Leave
  <1>6. Phase[m] = PhaseIn(t, m)  BY PhaseOfOne
  <1>7. PhaseIn(t, m)' = PhaseIn(t, m) => Phase' = Phase
    <2> SUFFICES ASSUME PhaseIn(t, m)' = PhaseIn(t, m) PROVE Phase' = Phase
      OBVIOUS
    <2>1. \A x \in Messages : PhaseIn(t, x)' = PhaseIn(t, x)  BY <1>4
    <2> QED  BY <2>1, PhaseOfOne, PhaseOfOneNext
  <1>8. CASE m \in IdsOf(state[t])
    <2>1. Phase[m] = "kept"  BY <1>6, <1>8 DEF PhaseIn
    <2>2. CASE m \in IdsOf(state'[t])
      <3>1. PhaseIn(t, m)' = PhaseIn(t, m)  BY <1>3, <1>8, <2>2 DEF PhaseIn
      <3> QED  BY <1>7, <3>1
    <2>3. CASE m \notin IdsOf(state'[t])
      <3>1. PhaseIn(t, m)' \in {"served", "givenUp"}
        BY <1>1, <1>3, <1>8, <2>3 DEF PhaseIn, Departed
      <3> QED  BY <1>5, <2>1, <3>1 DEF Promise!Confirm, Promise!GiveUp
    <2> QED  BY <2>2, <2>3
  <1>9. CASE m \notin IdsOf(state[t])
    <2>1. m \notin IdsOf(state'[t]) /\ failures'[m] = failures[m]  BY <1>3, <1>9
    <2>2. CASE m \in server' \ server
      <3>1. PhaseIn(t, m)' = "served"  BY <1>3, <2>1, <2>2 DEF PhaseIn, Departed
      <3>2. Phase[m] \in {"givenUp", "discarded"}  BY <1>6, <1>9, <2>2 DEF PhaseIn, Departed
      <3> QED  BY <1>5, <3>1, <3>2 DEF Promise!Confirm
    <2>3. CASE m \notin server' \ server
      <3>1. m \in server' <=> m \in server  BY <1>3, <2>3
      <3>2. PhaseIn(t, m)' = PhaseIn(t, m)  BY <1>1, <1>3, <1>9, <2>1, <3>1 DEF PhaseIn, Departed
      <3> QED  BY <1>7, <3>2
    <2> QED  BY <2>2, <2>3
  <1> QED  BY <1>8, <1>9

(* Messages leave without an answer.                                        *)
LEMMA GoneSome ==
    ASSUME OutboxInv, NEW t, open = {t}, UNCHANGED <<open, taken, server, failures>>,
           NEW lost \in SUBSET IdsOf(state[t]), IdsOf(state'[t]) = IdsOf(state[t]) \ lost
    PROVE  Promise!Gone(lost) /\ lost \subseteq Promise!Kept
           /\ (lost = IdsOf(state[t]) => lost = Promise!Kept)
  <1>1. MaxAttempts' = MaxAttempts  BY DEF MaxAttempts
  <1>2. IdsOf(state[t]) \subseteq taken /\ taken \subseteq Messages
    BY IdsAreTaken, PhaseOfOne DEF OutboxInv
  <1>3. \A m \in Messages : m \in IdsOf(state[t]) <=> Phase[m] = "kept"
    BY <1>2, PhaseOfOne DEF PhaseIn, Departed
  <1>4. Promise!Kept = IdsOf(state[t])  BY <1>2, <1>3 DEF Promise!Kept
  <1> DEFINE left == [m \in lost |-> Departed(m)]
  <1>5. left \in [lost -> {"served", "givenUp", "discarded"}]  BY DEF Departed
  <1>6. ASSUME NEW m \in Messages
        PROVE  PhaseIn(t, m)' = IF m \in lost THEN left[m] ELSE PhaseIn(t, m)
    <2>1. Departed(m)' = Departed(m)  BY <1>1 DEF Departed
    <2>2. CASE m \in lost
      <3>1. m \in taken' /\ m \notin IdsOf(state'[t])  BY <1>2, <2>2
      <3> QED  BY <2>1, <2>2, <3>1 DEF PhaseIn
    <2>3. CASE m \notin lost
      <3>1. m \in IdsOf(state'[t]) <=> m \in IdsOf(state[t])  BY <2>3
      <3> QED  BY <2>1, <2>3, <3>1 DEF PhaseIn
    <2> QED  BY <2>2, <2>3
  <1> HIDE DEF left
  <1>7. Phase' = [m \in Messages |-> IF m \in lost THEN left[m] ELSE Phase[m]]
    BY <1>6, PhaseOfOne, PhaseOfOneNext
  <1>8. Promise!Gone(lost)  BY <1>5, <1>7 DEF Promise!Gone
  <1> QED  BY <1>4, <1>8

LEMMA Restarts ==
    ASSUME OutboxInv, NEW t \in Tabs, open = {t}, Reload(t)
    PROVE  Promise!Restart
  <1> DEFINE saved == IdsOf(ReadOutboxProfile)
  <1>1. UNCHANGED <<open, taken, failures>> /\ state'[t] = ReadOutboxProfile  BY ReloadKeeps
  <1>2. saved \subseteq taken  BY WhatIsSaved
  <1> DEFINE left == [m \in Messages \ saved |-> Departed(m)']
  <1>3. left \in [Messages \ saved -> {"served", "givenUp", "discarded"}]  BY DEF Departed
  <1>4. ASSUME NEW m \in Messages
        PROVE  PhaseIn(t, m)' = IF m \in saved THEN "kept"
                                ELSE IF Phase[m] = "new" THEN "new" ELSE left[m]
    <2>1. Phase[m] = "new" <=> m \notin taken  BY PhaseOfOne DEF PhaseIn, Departed
    <2>2. CASE m \in saved  BY <1>1, <1>2, <2>2 DEF PhaseIn
    <2>3. CASE m \notin saved
      <3>1. left[m] = Departed(m)'  BY <2>3
      <3> HIDE DEF left
      <3>2. m \notin IdsOf(state'[t]) /\ taken' = taken  BY <1>1, <2>3
      <3> HIDE DEF saved
      <3>3. CASE m \notin taken  BY <2>1, <2>3, <3>2, <3>3 DEF PhaseIn
      <3>4. CASE m \in taken  BY <2>1, <2>3, <3>1, <3>2, <3>4 DEF PhaseIn
      <3> QED  BY <3>3, <3>4
    <2> QED  BY <2>2, <2>3
  <1> HIDE DEF left
  <1>5. open' = {t}  BY <1>1
  <1>6. Phase' = [m \in Messages |-> PhaseIn(t, m)']  BY <1>5, PhaseOfOneNext
  <1>7. Phase' = [m \in Messages |-> IF m \in saved THEN "kept"
                                     ELSE IF Phase[m] = "new" THEN "new" ELSE left[m]]
    BY <1>4, <1>6
  <1> QED  BY <1>3, <1>7 DEF Promise!Restart

LEMMA OpenStays == [Next]_vars => open' = open
  <1> SUFFICES ASSUME [Next]_vars PROVE open' = open
    OBVIOUS
  <1>1. ASSUME NEW t \in Tabs,
               \/ Retries(t) \/ Render(t) \/ HandleStorage(t) \/ SignIn(t) \/ SocketLost(t)
               \/ ClearActiveOutbox(t) \/ CancelMediaOperation(t) \/ Reload(t)
        PROVE  open' = open
    BY <1>1 DEF Retries, Render, HandleStorage, SignIn, SocketLost, ClearActiveOutbox,
                CancelMediaOperation, Reload
  <1>2. ASSUME NEW t \in Tabs, NEW m \in Messages, Send(t, m) \/ SendMedia(t, m)
        PROVE  open' = open
    BY <1>2 DEF Send, SendMedia
  <1>3. ASSUME NEW m \in Messages, BecomesDue(m) PROVE open' = open  BY <1>3 DEF BecomesDue
  <1>4. ASSUME NEW r \in requests,
               Uploaded(r) \/ Accepted(r) \/ RequestFailed(r) \/ Unauthorized(r)
        PROVE  open' = open
    BY <1>4 DEF Uploaded, Accepted, RequestFailed, Unauthorized
  <1>5. CASE UNCHANGED vars  BY <1>5 DEF vars
  <1> QED  BY <1>1, <1>2, <1>3, <1>4, <1>5 DEF Next, RetryOutbox, SocketReady

(* Every step of a single tab is one that OutboxPromise allows.             *)
Allowed ==
    \/ \E m \in Messages : Promise!Take(m) \/ Promise!Confirm(m) \/ Promise!GiveUp(m)
    \/ Promise!Clear \/ Promise!Lose \/ Promise!Restart \/ Phase' = Phase

LEMMA OneTabSteps ==
    ASSUME OutboxInv, [Next]_vars, NEW t \in Tabs, open = {t} PROVE Allowed
  <1>1. open' = open /\ state = ref /\ \A s \in open : s = t
    BY OpenStays, PhaseOfOne DEF OutboxInv, Showing, Alone
  <1>2. taken \subseteq used  BY IdsAreTaken
  <1>3. ASSUME NEW s \in Tabs, Retries(s) PROVE Allowed
    <2>1. s = t /\ UNCHANGED <<taken, server, failures>>  BY <1>1, <1>3, RetryOutboxKeeps
    <2>2. CASE state' = state
      BY <1>1, <2>1, <2>2, PhaseStays DEF Allowed
    <2>3. CASE state' # state
      <3>1. PICK lost \in SUBSET (IdsOf(ref[t]) \ known[t]) :
                IdsOf(state'[t]) = IdsOf(ref[t]) \ lost
        BY <1>3, <2>1, <2>3, RetryOutboxKeeps
      <3>2. Promise!Gone(lost) /\ lost \subseteq Promise!Kept
        BY <1>1, <2>1, <3>1, GoneSome
      <3>3. lost \subseteq Closed
        <4>1. IdsOf(ref[t]) \subseteq Messages  BY IdsAreTaken
        <4> QED  BY <1>1, <3>1, <4>1, PhaseOfOne DEF Closed
      <3>4. Promise!Lose  BY <3>2, <3>3 DEF Promise!Lose
      <3> QED  BY <3>4 DEF Allowed
    <2> QED  BY <2>2, <2>3
  <1>4. ASSUME NEW s \in Tabs, Render(s) PROVE Allowed
    BY <1>1, <1>4, RenderKeeps, PhaseStays DEF Allowed
  <1>5. ASSUME NEW s \in Tabs, HandleStorage(s) PROVE Allowed
    BY <1>5, HandleStorageKeeps, PhaseOfOne
  <1>6. ASSUME NEW s \in Tabs, SignIn(s) PROVE Allowed
    <2>1. s = t /\ UNCHANGED <<taken, server, failures>>  BY <1>1, <1>6, SignInKeeps
    <2>2. IdsOf(state'[t]) = IdsOf(state[t])  BY <1>1, <1>6, <2>1, SignInKeeps
    <2> QED  BY <1>1, <2>1, <2>2, PhaseStays DEF Allowed
  <1>7. ASSUME NEW s \in Tabs, ClearActiveOutbox(s) PROVE Allowed
    <2> DEFINE lost == IdsOf(state[t])
    <2>1. s = t /\ UNCHANGED <<taken, server, failures>> /\ IdsOf(state'[t]) = {}
      BY <1>1, <1>7, ClearActiveOutboxKeeps
    <2>2. Promise!Gone(lost) /\ lost = Promise!Kept  BY <1>1, <2>1, GoneSome
    <2> QED  BY <2>2 DEF Allowed, Promise!Clear
  <1>8. ASSUME NEW s \in Tabs, CancelMediaOperation(s) PROVE Allowed
    <2>1. state' = state /\ UNCHANGED <<taken, server, failures>>
      BY <1>8 DEF CancelMediaOperation, Untouched
    <2> QED  BY <1>1, <2>1, PhaseStays DEF Allowed
  <1>9. ASSUME NEW s \in Tabs, Reload(s) PROVE Allowed
    <2>1. s = t  BY <1>1, <1>9, ReloadKeeps
    <2> QED  BY <1>9, <2>1, Restarts DEF Allowed
  <1>10. ASSUME NEW s \in Tabs, NEW m \in Messages, Send(s, m) PROVE Allowed
    <2>1. /\ s = t /\ m \notin taken /\ QueueOutbox(t, m)
          /\ UNCHANGED <<open, disk, events, server, failures>>
      BY <1>1, <1>2, <1>10 DEF Send, storage, session
    <2>2. taken' = taken \cup {m} /\ IdsOf(state'[t]) = IdsOf(state[t]) \cup {m}
      BY <1>1, <2>1, QueuesMessage
    <2>3. Promise!Take(m)  BY <2>1, <2>2, TakesOne
    <2> QED  BY <2>3 DEF Allowed
  <1>11. ASSUME NEW s \in Tabs, NEW m \in Messages, SendMedia(s, m) PROVE Allowed
    <2>1. state' = state /\ UNCHANGED <<taken, server, failures>>
      BY <1>11 DEF SendMedia, Untouched
    <2> QED  BY <1>1, <2>1, PhaseStays DEF Allowed
  <1>12. ASSUME NEW m \in Messages, BecomesDue(m) PROVE Allowed
    BY <1>12, BecomesDueKeeps, PhaseStays DEF Allowed
  <1>13. ASSUME NEW r \in requests, Uploaded(r) PROVE Allowed
    <2>1. /\ r.tab = t /\ r.id \in Messages \ taken
          /\ UNCHANGED <<open, disk, events, server, failures>>
      BY <1>1, <1>13 DEF Uploaded, storage, session, OutboxInv, RequestTypes, IsRequest, AnyRequest
    <2>2. CASE Untouched /\ UNCHANGED taken
      BY <1>1, <2>1, <2>2, PhaseStays DEF Allowed, Untouched
    <2>3. CASE QueueOutbox(r.tab, r.id)
      <3>1. taken' = taken \cup {r.id} /\ IdsOf(state'[t]) = IdsOf(state[t]) \cup {r.id}
        BY <1>1, <2>1, <2>3, QueuesMessage
      <3>2. Promise!Take(r.id)  BY <2>1, <3>1, TakesOne
      <3> QED  BY <2>1, <3>2 DEF Allowed
    <2> QED  BY <1>13, <2>2, <2>3 DEF Uploaded
  <1>14. ASSUME NEW r \in requests, Accepted(r) \/ RequestFailed(r) \/ Unauthorized(r)
         PROVE  Allowed
    <2>1. Ended(r.tab, r.id) /\ r.id \in Messages /\ r.tab = t
      BY <1>1, <1>14, AcceptedKeeps, RequestFailedKeeps, UnauthorizedKeeps
    <2>2. r.kind # "upload"  BY <1>14 DEF Accepted, RequestFailed, Unauthorized
    <2>3. r.id \in taken  BY <2>2 DEF OutboxInv, RequestTypes, IsRequest
    <2>4. Promise!Confirm(r.id) \/ Promise!GiveUp(r.id) \/ Phase' = Phase
      BY <1>1, <2>1, <2>3, EndsOne
    <2> QED  BY <2>1, <2>4 DEF Allowed
  <1>15. CASE UNCHANGED vars
    <2>1. state' = state /\ UNCHANGED <<taken, server, failures>>  BY <1>15 DEF vars
    <2> QED  BY <1>1, <2>1, PhaseStays DEF Allowed
  <1>16. ASSUME NEW s \in Tabs, SocketLost(s) PROVE Allowed
    <2>1. state' = state /\ UNCHANGED <<taken, server, failures>>
      BY <1>16 DEF SocketLost, Untouched, request
    <2> QED  BY <1>1, <2>1, PhaseStays DEF Allowed
  <1> QED  BY <1>3, <1>4, <1>5, <1>6, <1>7, <1>8, <1>9, <1>10, <1>11, <1>12, <1>13, <1>14,
              <1>15, <1>16 DEF Next, RetryOutbox, SocketReady

LEMMA PromiseInit == Init => Promise!Init
  <1> SUFFICES ASSUME Init PROVE Promise!Init
    OBVIOUS
  <1>1. taken = {} /\ disk = <<>>  BY DEF Init
  <1>2. Phase = [m \in Messages |-> "new"]  BY <1>1 DEF Phase
  <1>3. IdsOf(ReadOutboxProfile) = {}  BY <1>1, NothingFits, ReadsSaved
  <1>4. Closed \subseteq Messages  BY DEF Closed
  <1> QED  BY <1>2, <1>3, <1>4 DEF Promise!Init

SavedIsKnown == IdsOf(ReadOutboxProfile) \subseteq Messages
LEMMA SavedAreMessages == OutboxInv => SavedIsKnown
  BY WhatIsSaved, IdsAreTaken DEF SavedIsKnown

LEMMA PromiseStep ==
    OutboxInv /\ SavedIsKnown' /\ [Next]_vars
        => [Promise!Next]_<<Phase, IdsOf(ReadOutboxProfile), Closed>>
  <1> SUFFICES ASSUME OutboxInv, SavedIsKnown', [Next]_vars PROVE Promise!Next
    OBVIOUS
  <1>1. Allowed
    <2>1. CASE Cardinality(open) = 1
      <3>1. PICK t : t \in open  BY DEF OutboxInv, RequestTypes
      <3>2. t \in Tabs /\ open = {t}  BY <2>1, <3>1, IdsAreTaken, MostIs DEF OutboxInv
      <3> QED  BY <3>2, OneTabSteps
    <2>2. CASE Cardinality(open) # 1
      <3>1. open' = open  BY OpenStays
      <3>2. Cardinality(open) > 1
        <4>1. Cardinality(open) \in 1..Cardinality(Tabs)  BY MostIs DEF OutboxInv
        <4> QED  BY <2>2, <4>1
      <3>3. Phase = [m \in Messages |-> "new"]  BY <3>2 DEF Phase
      <3>4. Phase' = [m \in Messages |-> "new"]  BY <3>1, <3>2 DEF Phase
      <3> QED  BY <3>3, <3>4 DEF Allowed
    <2> QED  BY <2>1, <2>2
  <1>2. IdsOf(ReadOutboxProfile)' \subseteq Messages
    BY DEF SavedIsKnown
  <1>3. Closed' \subseteq Messages  BY DEF Closed
  <1> QED  BY <1>1, <1>2, <1>3 DEF Allowed, Promise!Next

(* KeepsPromise (App.tsx): a message the outbox of a single tab has taken   *)
(* is kept until the server has confirmed it, its attempts are used up, its *)
(* conversation is unknown to the session or the user clears the queue, for *)
(* every order of sends, answers, failures, renders, sign-ins and reloads.  *)
THEOREM OutboxKeepsPromise == Spec => KeepsPromise
  <1>1. Init => Promise!Init  BY PromiseInit
  <1>2. OutboxInv /\ SavedIsKnown' /\ [Next]_vars
            => [Promise!Next]_<<Phase, IdsOf(ReadOutboxProfile), Closed>>
    BY PromiseStep
  <1> QED  BY <1>1, <1>2, OutboxHolds, SavedAreMessages, PTL DEF Spec, KeepsPromise, Promise!Spec

-------------------------------------------------------------------------------
(* The preview extension, around the panel of PreviewPanel: what it shows is*)
(* about the preview that is active, for every number of documents,         *)
(* requests, panels and failures.                                           *)
CONSTANTS Documents, Directives, NoPreview,
          MaxOffset, MaxEdits, MaxRefreshes, MaxPanels, MaxFaults
VARIABLES text, picking, panels, edits, faults, compiler, waiting, builds, buildNumber,
          refreshes, objects
P == INSTANCE Preview WITH None <- NoPreview, MaxRequests <- MaxRefreshes,
                           MaxFailures <- MaxFaults, failures <- faults, requests <- refreshes

(* There is an active preview only while there is a panel, and every panel  *)
(* has a number of its own, which is not 0.                                 *)
PanelInv ==
    /\ panels \in Nat
    /\ active # NoPreview => panel # 0
    /\ P!ShownIsActive

LEMMA PanelInit == P!Init => PanelInv
  BY DEF P!Init, PanelInv, P!ShownIsActive, P!Shows

(* refreshPreview begins with "loading" for the preview that is active.     *)
LEMMA RefreshShowsActive ==
    ASSUME P!RefreshPreview, panel' # 0 PROVE P!ShownIsActive'
  <1>1. html' = P!Shows("loading", 0, active'.object)  BY DEF P!RefreshPreview
  <1> QED  BY <1>1 DEF P!ShownIsActive, P!Shows

LEMMA OpenKeeps ==
    ASSUME PanelInv, NEW f, NEW p, P!Open(f, p) PROVE PanelInv'
  <1>1. panels' \in Nat /\ panel' # 0
    <2>1. CASE panel = 0  BY <2>1 DEF P!Open, PanelInv
    <2>2. CASE panel # 0  BY <2>2 DEF P!Open, PanelInv
    <2> QED  BY <2>1, <2>2
  <1>2. P!ShownIsActive'  BY <1>1, RefreshShowsActive DEF P!Open
  <1> QED  BY <1>1, <1>2 DEF PanelInv

(* Nothing is refreshed: the panel and what it is about stay.               *)
LEMMA StillKeeps ==
    ASSUME PanelInv, UNCHANGED <<panel, panels, active, html>> PROVE PanelInv'
  BY DEF PanelInv, P!ShownIsActive

(* An answer is shown only when it is for the panel and the preview.        *)
LEMMA PutKeeps ==
    ASSUME PanelInv, NEW b, NEW kind, P!Put(b, kind), UNCHANGED <<panel, panels, active>>
    PROVE  PanelInv'
  <1>1. CASE P!Current(b)
    <2>1. html' = P!Shows(kind, b.build, b.active) /\ panel # 0 /\ active.object = b.active
      BY <1>1 DEF P!Put, P!Current
    <2> QED  BY <2>1 DEF PanelInv, P!ShownIsActive, P!Shows
  <1>2. CASE ~P!Current(b)
    <2>1. html' = html  BY <1>2 DEF P!Put
    <2> QED  BY <2>1, StillKeeps
  <1> QED  BY <1>1, <1>2

LEMMA PanelStep == PanelInv /\ [P!Next]_(P!vars) => PanelInv'
  <1> SUFFICES ASSUME PanelInv, [P!Next]_(P!vars) PROVE PanelInv'
    OBVIOUS
  <1>1. CASE P!OpenPreview
    <2>1. CASE P!OpenLens  BY <2>1, OpenKeeps DEF P!OpenLens
    <2>2. CASE P!OpenOnly  BY <2>2, OpenKeeps DEF P!OpenOnly
    <2>3. CASE P!Ask  BY <2>3, StillKeeps DEF P!Ask, P!NoRefresh, P!counters
    <2>4. CASE P!Pick  BY <2>4, OpenKeeps DEF P!Pick
    <2>5. CASE P!PickNothing  BY <2>5, StillKeeps DEF P!PickNothing, P!NoRefresh, P!counters
    <2> QED  BY <1>1, <2>1, <2>2, <2>3, <2>4, <2>5 DEF P!OpenPreview
  <1>2. CASE P!Reload
    <2>1. panel' # 0 /\ panels' = panels /\ P!RefreshPreview  BY <1>2 DEF P!Reload, P!counters
    <2> QED  BY <2>1, RefreshShowsActive DEF PanelInv
  <1>3. CASE P!OnDidDispose
    BY <1>3 DEF P!OnDidDispose, PanelInv, P!ShownIsActive, P!Shows, P!counters
  <1>4. CASE P!Edit  BY <1>4, StillKeeps DEF P!Edit, P!NoRefresh
  <1>5. CASE P!Save
    <2>1. panel' = panel /\ panel # 0 /\ panels' = panels  BY <1>5 DEF P!Save, PanelInv, P!counters
    <2>2. CASE P!RefreshPreview  BY <2>1, <2>2, RefreshShowsActive DEF PanelInv
    <2>3. CASE P!SetActive(active.document, NoPreview) /\ html' = P!Shows("error", 0, objects')
      BY <2>1, <2>3 DEF PanelInv, P!ShownIsActive, P!SetActive, P!Shows
    <2> QED  BY <1>5, <2>2, <2>3 DEF P!Save, P!AfterSave
  <1>6. CASE P!InitializeEsbuild  BY <1>6, StillKeeps DEF P!InitializeEsbuild, P!counters
  <1>7. CASE P!InitializeFails
    <2>1. UNCHANGED <<panel, panels, active>>  BY <1>7 DEF P!InitializeFails
    <2>2. CASE \E b \in P!Range(waiting) : P!Current(b)
      <3>1. html' = P!Shows("error", 0, active.object) /\ panel # 0
        BY <1>7, <2>2 DEF P!InitializeFails, P!Current
      <3> QED  BY <2>1, <3>1 DEF PanelInv, P!ShownIsActive, P!Shows
    <2>3. CASE ~\E b \in P!Range(waiting) : P!Current(b)
      <3>1. html' = html  BY <1>7, <2>3 DEF P!InitializeFails
      <3> QED  BY <2>1, <3>1, StillKeeps
    <2> QED  BY <2>2, <2>3
  <1>8. ASSUME NEW b \in builds, P!Build(b) PROVE PanelInv'
    <2>1. CASE P!Drops(b)  BY <2>1, StillKeeps DEF P!Drops, P!Leaves
    <2>2. CASE P!Finishes(b)  BY <2>2, PutKeeps DEF P!Finishes, P!Leaves
    <2>3. CASE P!ProcessProjectStyles(b)
      BY <2>3, StillKeeps DEF P!ProcessProjectStyles, P!counters
    <2>4. CASE P!BuildFails(b)  BY <2>4, PutKeeps DEF P!BuildFails, P!Leaves
    <2> QED  BY <1>8, <2>1, <2>2, <2>3, <2>4 DEF P!Build
  <1>9. CASE UNCHANGED P!vars  BY <1>9, StillKeeps DEF P!vars, P!counters
  <1> QED  BY <1>1, <1>2, <1>3, <1>4, <1>5, <1>6, <1>7, <1>8, <1>9 DEF P!Next

(* ShownIsActive (extension.js): in whichever order builds end, fail or     *)
(* wait for the compiler, and although panels close and open in between,    *)
(* the panel shows nothing that is not about the active preview.            *)
THEOREM PanelShowsActive == P!Spec => []ShownIsActive
  <1>1. PanelInv => ShownIsActive  BY DEF PanelInv, P!ShownIsActive, ShownIsActive
  <1> QED  BY <1>1, PanelInit, PanelStep, PTL DEF P!Spec
===============================================================================
