------------------------- MODULE NotificationsProofs -------------------------
(***************************************************************************)
(* What the notification tables promise, proved for every log, every number *)
(* of processEvents goroutines and every placing of faults:                 *)
(*   CountsAccount   counts differ from rows by the statements outstanding; *)
(*   OwnRowsGo       a deletion takes no more rows than counts are behind;  *)
(*   EnvelopesRight  between operations an envelope counts and shows what   *)
(*                   it has;                                                *)
(*   ReplayRight     redelivery ends in the recipients that the log names.  *)
(* NotifyInv is the inductive invariant of the first; Lone, ShownInv and    *)
(* ReplayInv are inductive on top of it.                                    *)
(***************************************************************************)
EXTENDS Notifications, WellFoundedInduction, FiniteSetTheorems, TLAPS

-----------------------------------------------------------------------------
\* The inductive invariant.  Control states of a worker: in DeleteByRecordURI with an
\* envelope in hand, and in applyOne with one.
Discounting == {"decrement", "sweep", "recompute"}
Applying == {"participant", "undo", "bump"}
Steps == {"off", "idle", "delete", "envelope"} \cup Discounting \cup Applying

Envelopes == [live : BOOLEAN, to : Actors \cup {NoRow}, key : Keys \cup {NoKey},
              sort : Nat, count : Int, latest : Records \cup {NoRow}]
Rows == [id : Ids \cup {NoRow}, sort : Nat]

TableType ==
    /\ log \in Logs
    /\ env \in [Ids -> Envelopes] /\ nextId \in 1 .. MaxIds + 1
    /\ part \in [Records -> [Actors -> Rows]]

LocalType ==
    /\ pc \in [Workers -> Steps] /\ pos \in [Workers -> Nat]
    /\ todo \in [Workers -> Seq(Actors)] /\ at \in [Workers -> Nat]
    /\ ids \in [Workers -> SUBSET Ids] /\ cur \in [Workers -> Ids \cup {NoRow}]

HistoryType ==
    /\ done \in 0 .. Len(log) /\ torn \in SUBSET Ids /\ last \in Nat
    /\ ordered \in BOOLEAN /\ dropped \in BOOLEAN /\ drift \in [Ids -> Int]

Types == TableType /\ LocalType /\ HistoryType

\* A participant row references an envelope of its recipient that exists, and envelopes
\* have ids that were given out.
RowsSound ==
    /\ \A r \in Records, d \in Actors : part[r][d] # NoPart =>
          /\ part[r][d].id \in Ids /\ part[r][d].id < nextId
          /\ Live(part[r][d].id) /\ env[part[r][d].id].to = d
    /\ \A e \in Ids : Live(e) => e < nextId

\* What a worker holds: an operation of the log, recipients while it applies one, the
\* envelopes still to be discounted, and the envelope in hand, which is its recipient's.
Holds(w) ==
    /\ pos[w] <= Len(log) /\ (InStatement(w) => pos[w] < Len(log))
    /\ pc[w] \in {"envelope"} \cup Applying => todo[w] # <<>>
    /\ pc[w] \notin Discounting => ids[w] = {}
    /\ \A e \in ids[w] : e < nextId
    /\ pc[w] \in Discounting \cup Applying => cur[w] \in Ids /\ cur[w] < nextId
    /\ pc[w] \notin Discounting \cup Applying => cur[w] = NoRow
    /\ pc[w] = "decrement" => cur[w] \in ids[w]
    /\ pc[w] \in {"sweep", "recompute"} => cur[w] \notin ids[w]
    /\ pc[w] \in Applying /\ Live(cur[w]) => env[cur[w]].to = Head(todo[w])

HandsSound == \A w \in Workers : Holds(w)

\* A count is off for good only where an operation was cut short.
DriftSound == \A e \in Ids : drift[e] # 0 => e \in torn /\ e < nextId

NotifyInv == Types /\ RowsSound /\ HandsSound /\ DriftSound /\ CountAccounts

-----------------------------------------------------------------------------
\* Every set of naturals that is not empty has a least element: what the provers need
\* in place of induction.
LEMMA NatOrder ==
  \E R : IsWellFoundedOn(R, Nat) /\ \A x, y \in Nat : <<y, x>> \in R <=> y < x
  <1>1. \A x, y \in Nat : <<y, x>> \in OpToRel(<, Nat) <=> y < x
    BY DEF OpToRel
  <1>2. QED
    BY <1>1, NatLessThanWellFounded, Zenon

\* The least element of a set of naturals.
LEMMA LeastNat ==
  ASSUME NEW T \in SUBSET Nat, T # {}
  PROVE  \E n \in T : \A m \in T : n <= m
  <1>1. PICK R : IsWellFoundedOn(R, Nat) /\ \A x, y \in Nat : <<y, x>> \in R <=> y < x
    BY NatOrder
  <1>2. PICK n \in T : \A y \in T : ~(<<y, n>> \in R)
    BY <1>1, WFMin
  <1>3. ASSUME NEW y \in T PROVE n <= y
    <2>1. y \in Nat /\ n \in Nat
      OBVIOUS
    <2>2. ~(y < n)
      BY <1>1, <1>2, <2>1
    <2>3. QED
      BY <2>1, <2>2
  <1>4. QED
    BY <1>3

\* The k-th smallest element of a finite set of positions: what Extract chooses.
LEMMA Ranked ==
  ASSUME NEW n \in Nat, NEW M \in SUBSET (1 .. n), NEW k \in 1 .. Cardinality(M)
  PROVE  \E i \in M : Cardinality({j \in M : j <= i}) = k
  <1> DEFINE Up(i) == {j \in M : j <= i}
             T == {i \in Nat : Cardinality(Up(i)) >= k}
  <1>0. IsFiniteSet(M) /\ Cardinality(M) \in Nat /\ k \in Nat \ {0} /\ M \subseteq Nat \ {0}
    <2>1. IsFiniteSet(1 .. n)
      BY FS_Interval
    <2>2. IsFiniteSet(M)
      BY <2>1, FS_Subset
    <2>3. QED
      BY <2>2, FS_CardinalityType
  <1>1. \A i \in Nat : IsFiniteSet(Up(i)) /\ Cardinality(Up(i)) \in Nat
    BY <1>0, FS_Subset, FS_CardinalityType
  <1>2. Up(n) = M /\ Up(0) = {}
    <2>1. \A j \in M : j \in Nat /\ j <= n /\ ~(j <= 0)
      OBVIOUS
    <2>2. QED
      BY <2>1
  <1>a. \A i \in Nat \ {0} :
          /\ Up(i - 1) \subseteq Up(i) /\ i \notin Up(i - 1)
          /\ Up(i) = Up(i - 1) \cup (M \cap {i})
    <2> SUFFICES ASSUME NEW i \in Nat \ {0} PROVE <1>a!(i)
      OBVIOUS
    <2>1. \A j \in M : j \in Nat /\ (j <= i <=> j <= i - 1 \/ j = i)
      OBVIOUS
    <2>2. ~(i <= i - 1)
      OBVIOUS
    <2>3. QED
      BY <2>1, <2>2
  <1> HIDE DEF Up
  <1>3. n \in T
    BY <1>0, <1>2
  <1>4. PICK i \in T : \A m \in T : i <= m
    BY <1>3, LeastNat
  <1>5. i # 0 /\ i \in Nat /\ i - 1 \in Nat
    BY <1>0, <1>2, <1>4, FS_EmptySet
  <1>6. i - 1 \notin T
    BY <1>4, <1>5
  <1>7. Cardinality(Up(i - 1)) < k /\ k <= Cardinality(Up(i))
    BY <1>0, <1>1, <1>4, <1>5, <1>6
  <1>8. i \in M
    <2> SUFFICES ASSUME i \notin M PROVE FALSE
      OBVIOUS
    <2>1. Up(i) = Up(i - 1)
      BY <1>a, <1>5
    <2>2. QED
      BY <1>0, <1>1, <1>5, <1>7, <2>1
  <1>9. Up(i) = Up(i - 1) \cup {i} /\ i \notin Up(i - 1)
    BY <1>a, <1>5, <1>8
  <1>10. Cardinality(Up(i)) = Cardinality(Up(i - 1)) + 1
    BY <1>1, <1>5, <1>9, FS_AddElement
  <1>11. Cardinality(Up(i)) = k
    BY <1>0, <1>1, <1>5, <1>7, <1>10
  <1>12. QED
    BY <1>8, <1>11 DEF Up

\* Extract returns DIDs.
LEMMA ExtractType ==
  ASSUME NEW l \in Logs, NEW i \in DOMAIN l
  PROVE  Extract(l[i]) \in Seq(Actors)
  <1> DEFINE o == l[i]
             M == Mentions(o)
  <1>1. o.to \in Seq(Range(o.to)) /\ DOMAIN o.to = 1 .. Len(o.to) /\ Len(o.to) \in Nat
    BY NotificationsAssumption
  <1>2. M \in SUBSET (1 .. Len(o.to)) /\ \A j \in M : o.to[j] \in Actors
    BY <1>1 DEF Mentions
  <1>3. IsFiniteSet(M) /\ Cardinality(M) \in Nat
    <2>1. IsFiniteSet(1 .. Len(o.to))
      BY <1>1, FS_Interval
    <2>2. QED
      BY <1>2, <2>1, FS_Subset, FS_CardinalityType
  <1> HIDE DEF M, o
  <1> DEFINE Nth(k) == CHOOSE j \in M : Cardinality({x \in M : x <= j}) = k
             n == IF Cardinality(M) < MaxFanOutPerRecord THEN Cardinality(M) ELSE MaxFanOutPerRecord
  <1>4. n \in Nat /\ n <= Cardinality(M)
    BY <1>3, NotificationsAssumption
  <1>5. ASSUME NEW k \in 1 .. n PROVE o.to[Nth(k)] \in Actors
    <2>1. k \in 1 .. Cardinality(M)
      BY <1>3, <1>4
    <2>2. \E j \in M : Cardinality({x \in M : x <= j}) = k
      BY <1>1, <1>2, <2>1, Ranked
    <2>3. Nth(k) \in M
      BY <2>2
    <2>4. QED
      BY <1>2, <2>3
  <1>6. Extract(o) = IF Len(o.to) > 2 * MaxFanOutPerRecord THEN <<>> ELSE [k \in 1 .. n |-> o.to[Nth(k)]]
    BY DEF Extract, M
  <1> HIDE DEF Nth, n
  <1>7. [k \in 1 .. n |-> o.to[Nth(k)]] \in Seq(Actors)
    BY <1>4, <1>5
  <1>8. QED
    BY <1>6, <1>7 DEF o

\* The recipients that are left when there is more than one.
LEMMA LongerTail ==
  ASSUME NEW S, NEW q \in Seq(S), Len(q) > 1
  PROVE  Tail(q) \in Seq(S) /\ Tail(q) # <<>>
  <1>1. PICK n \in Nat : n = Len(q)
    OBVIOUS
  <1>2. n - 1 # 0 /\ n # 0
    BY <1>1
  <1>3. q # <<>>
    BY <1>1, <1>2
  <1>4. Tail(q) \in Seq(S) /\ Len(Tail(q)) = Len(q) - 1
    BY <1>3
  <1>5. QED
    BY <1>1, <1>2, <1>4

\* The operation that a worker has in hand.
LEMMA OpType ==
  ASSUME Types, NEW w \in Workers, pos[w] < Len(log)
  PROVE  /\ Op(w).op \in Operations /\ Op(w).uri \in Records /\ Op(w).key \in Keys \cup {NoKey}
         /\ Extract(Op(w)) \in Seq(Actors) /\ SortAt(Op(w)) \subseteq Nat
         /\ Len(log) \in Nat
  <1>1. log \in Seq(Range(log)) /\ pos[w] \in Nat
    BY NotificationsAssumption DEF Types, TableType, LocalType
  <1>2. pos[w] + 1 \in DOMAIN log /\ log \in Logs /\ Len(log) \in Nat
    BY <1>1 DEF Types, TableType
  <1>3. Extract(Op(w)) \in Seq(Actors)
    BY <1>2, ExtractType DEF Op
  <1>4. SortAt(Op(w)) \subseteq Nat
    BY <1>2, NotificationsAssumption DEF Op, SortAt
  <1>5. QED
    BY <1>2, <1>3, <1>4, NotificationsAssumption DEF Op

\* A step of worker w after which it has the envelopes of S still to discount.
Moved(w, S) ==
    /\ LocalType' /\ Holds(w)' /\ pc'[w] # "bump" /\ ids'[w] = S
    /\ done' \in 0 .. Len(log) /\ last' \in Nat
    /\ \A v \in Workers \ {w} : /\ pc'[v] = pc[v] /\ pos'[v] = pos[v] /\ todo'[v] = todo[v]
                                /\ ids'[v] = ids[v] /\ cur'[v] = cur[v]

\* process returns with nothing in hand.
LEMMA FinishMoves ==
  ASSUME Types, NEW w \in Workers, pos[w] < Len(log), log' = log, Finish(w)
  PROVE  Moved(w, {})
  <1>1. pos[w] \in Nat /\ Len(log) \in Nat
    BY OpType DEF Types, LocalType
  <1>2. /\ pc'[w] = "idle" /\ pos'[w] = pos[w] + 1 /\ todo'[w] = <<>> /\ ids'[w] = {}
        /\ cur'[w] = NoRow
    BY DEF Finish, Types, LocalType
  <1>3. LocalType'
    BY <1>1 DEF Finish, Types, LocalType, Steps, NoRow
  <1>4. Holds(w)'
    BY <1>1, <1>2 DEF Holds, InStatement, Discounting, Applying
  <1>5. done' \in 0 .. Len(log) /\ last' \in Nat
    BY <1>1 DEF Finish, Types, HistoryType
  <1>6. QED
    BY <1>2, <1>3, <1>4, <1>5 DEF Moved, Finish, Types, LocalType

\* The recipients that Apply starts with are DIDs.
LEMMA ExtractMoves ==
  ASSUME Types, NEW w \in Workers, pos[w] < Len(log), log' = log, ExtractAndApply(w)
  PROVE  Moved(w, {})
  <1>1. CASE Finish(w)
    BY <1>1, FinishMoves
  <1>2. CASE ~Finish(w)
    <2>0. pos[w] \in Nat /\ Len(log) \in Nat /\ Extract(Op(w)) \in Seq(Actors) /\ Extract(Op(w)) # <<>>
      BY <1>2, OpType DEF ExtractAndApply, Types, LocalType
    <2>1. PICK s \in SortAt(Op(w)) : at' = [at EXCEPT ![w] = s]
      BY <1>2 DEF ExtractAndApply
    <2>2. s \in Nat
      BY <2>1, OpType
    <2>3. /\ pc' = [pc EXCEPT ![w] = "envelope"] /\ todo' = [todo EXCEPT ![w] = Extract(Op(w))]
          /\ ids' = [ids EXCEPT ![w] = {}] /\ cur' = [cur EXCEPT ![w] = NoRow]
          /\ last' = pos[w] /\ UNCHANGED <<pos, done>>
      BY <1>2 DEF ExtractAndApply
    <2>4. LocalType'
      BY <2>0, <2>1, <2>2, <2>3 DEF Types, LocalType, Steps, NoRow
    <2>5. Holds(w)'
      BY <2>0, <2>3 DEF Types, LocalType, Holds, InStatement, Discounting, Applying
    <2>6. QED
      BY <2>0, <2>3, <2>4, <2>5 DEF Moved, Types, LocalType, HistoryType
  <1>3. QED
    BY <1>1, <1>2

\* The loop of DeleteByRecordURI takes up one of the envelopes that are left.
LEMMA DeletedMoves ==
  ASSUME Types, NEW w \in Workers, pos[w] < Len(log), log' = log, nextId' = nextId,
         NEW S \in SUBSET Ids, \A e \in S : e < nextId, NextDeleted(w, S)
  PROVE  Moved(w, S)
  <1>1. CASE S = {}
    <2>1. Finish(w) \/ ExtractAndApply(w)
      BY <1>1 DEF NextDeleted
    <2>2. QED
      BY <1>1, <2>1, FinishMoves, ExtractMoves
  <1>2. CASE S # {}
    <2>1. PICK e \in S : cur' = [cur EXCEPT ![w] = e]
      BY <1>2 DEF NextDeleted
    <2>2. /\ pc' = [pc EXCEPT ![w] = "decrement"] /\ ids' = [ids EXCEPT ![w] = S]
          /\ UNCHANGED <<pos, todo, at, done, last>>
      BY <1>2 DEF NextDeleted
    <2>3. LocalType'
      BY <2>1, <2>2 DEF Types, LocalType, Steps, Discounting
    <2>4. Holds(w)'
      <3>1. pc'[w] = "decrement" /\ ids'[w] = S /\ cur'[w] = e /\ pos'[w] = pos[w] /\ pos[w] \in Nat
        BY <2>1, <2>2 DEF Types, LocalType
      <3>2. Len(log) \in Nat
        BY OpType
      <3>3. QED
        BY <2>1, <3>1, <3>2 DEF Holds, InStatement, Discounting, Applying
    <2>5. QED
      BY <2>1, <2>2, <2>3, <2>4 DEF Moved, Types, LocalType, HistoryType
  <1>3. QED
    BY <1>1, <1>2

\* The loop of Apply goes on to the next recipient.
LEMMA NotifiedMoves ==
  ASSUME Types, NEW w \in Workers, Holds(w), pc[w] \in Applying, log' = log, nextId' = nextId,
         NextNotification(w)
  PROVE  Moved(w, {})
  <1>0. pos[w] < Len(log) /\ ids[w] = {} /\ todo[w] # <<>> /\ todo[w] \in Seq(Actors) /\ pos[w] \in Nat
    BY DEF Holds, InStatement, Applying, Discounting, Types, LocalType
  <1>1. CASE Finish(w)
    BY <1>0, <1>1, FinishMoves
  <1>2. CASE ~Finish(w)
    <2>1. /\ pc' = [pc EXCEPT ![w] = "envelope"] /\ todo' = [todo EXCEPT ![w] = Tail(todo[w])]
          /\ cur' = [cur EXCEPT ![w] = NoRow] /\ Len(todo[w]) > 1
          /\ UNCHANGED <<pos, at, ids, done, last>>
      BY <1>2 DEF NextNotification
    <2>2. Tail(todo[w]) \in Seq(Actors) /\ Tail(todo[w]) # <<>>
      BY <1>0, <2>1, LongerTail
    <2>3. LocalType'
      BY <2>1, <2>2 DEF Types, LocalType, Steps, NoRow
    <2>4. Holds(w)'
      <3>1. /\ pc'[w] = "envelope" /\ ids'[w] = {} /\ cur'[w] = NoRow /\ pos'[w] = pos[w]
            /\ todo'[w] = Tail(todo[w])
        BY <1>0, <2>1 DEF Types, LocalType
      <3>2. Len(log) \in Nat
        BY <1>0, OpType
      <3>3. QED
        BY <1>0, <2>2, <3>1, <3>2 DEF Holds, InStatement, Discounting, Applying
    <2>5. QED
      BY <1>0, <2>1, <2>3, <2>4 DEF Moved, Types, LocalType, HistoryType
  <1>3. QED
    BY <1>1, <1>2

-----------------------------------------------------------------------------
\* Workers other than the one that moves keep what they hold: ids are not used twice,
\* so that an envelope they know stays their recipient's for as long as it lives.
LEMMA HandsFrame ==
  ASSUME Types, HandsSound, NEW w \in Workers, Holds(w)', log' = log,
         nextId' \in Int, nextId <= nextId',
         \A e \in Ids : e < nextId /\ Live(e)' => Live(e) /\ env'[e].to = env[e].to,
         \A v \in Workers \ {w} : /\ pc'[v] = pc[v] /\ pos'[v] = pos[v] /\ todo'[v] = todo[v]
                                  /\ ids'[v] = ids[v] /\ cur'[v] = cur[v]
  PROVE  HandsSound'
  <1> SUFFICES ASSUME NEW v \in Workers \ {w} PROVE Holds(v)'
    BY DEF HandsSound
  <1>1. Holds(v) /\ ids[v] \in SUBSET Ids /\ nextId \in Int
    BY DEF HandsSound, Types, LocalType, TableType
  <1>2. \A e \in Ids : e < nextId => e < nextId'
    BY <1>1 DEF Ids
  <1>3. QED
    BY <1>1, <1>2 DEF Holds, InStatement

\* The equation of CountAccounts.
Accounts(e) ==
    env[e].count + Cardinality(Uncounted(e)) + drift[e]
        = Cardinality(Participants(e)) + Cardinality(Undiscounted(e))

\* What was cut short stays so, and ids are not given out twice.
LEMMA DriftFrame ==
  ASSUME NotifyInv, drift' = drift, torn \subseteq torn', nextId' \in Int, nextId <= nextId'
  PROVE  DriftSound'
  <1>1. \A e \in Ids : e \in Int /\ nextId \in Int
    BY DEF Ids, NotifyInv, Types, TableType
  <1>2. QED
    BY <1>1 DEF DriftSound, NotifyInv

\* What CountAccounts counts is finite.
LEMMA SetsFinite ==
  \A e : /\ IsFiniteSet(Uncounted(e)) /\ IsFiniteSet(Undiscounted(e)) /\ IsFiniteSet(Participants(e))
         /\ Cardinality(Uncounted(e)) \in Nat /\ Cardinality(Undiscounted(e)) \in Nat
         /\ Cardinality(Participants(e)) \in Nat
  <1> SUFFICES ASSUME NEW e
               PROVE  /\ IsFiniteSet(Uncounted(e)) /\ IsFiniteSet(Undiscounted(e))
                      /\ IsFiniteSet(Participants(e))
    BY FS_CardinalityType
  <1>1. IsFiniteSet(Records \X Actors)
    BY NotificationsAssumption, FS_Product
  <1>2. Uncounted(e) \subseteq Workers /\ Undiscounted(e) \subseteq Workers
        /\ Participants(e) \subseteq Records \X Actors
    BY DEF Uncounted, Undiscounted, Participants
  <1>3. QED
    BY <1>1, <1>2, NotificationsAssumption, FS_Subset

\* Whose statements are outstanding changes only with the worker that moves.
LEMMA Outstanding ==
  ASSUME NEW w \in Workers, NEW e,
         \A v \in Workers \ {w} : pc'[v] = pc[v] /\ ids'[v] = ids[v] /\ cur'[v] = cur[v]
  PROVE  /\ (w \in Uncounted(e)' <=> w \in Uncounted(e)) => Uncounted(e)' = Uncounted(e)
         /\ (w \in Undiscounted(e)' <=> w \in Undiscounted(e)) => Undiscounted(e)' = Undiscounted(e)
         /\ w \in Uncounted(e)' /\ w \notin Uncounted(e) => Uncounted(e)' = Uncounted(e) \cup {w}
         /\ w \notin Uncounted(e)' /\ w \in Uncounted(e) => Uncounted(e)' = Uncounted(e) \ {w}
         /\ w \in Undiscounted(e)' /\ w \notin Undiscounted(e)
               => Undiscounted(e)' = Undiscounted(e) \cup {w}
         /\ w \notin Undiscounted(e)' /\ w \in Undiscounted(e)
               => Undiscounted(e)' = Undiscounted(e) \ {w}
  <1>1. \A v \in Workers \ {w} : v \in Uncounted(e)' <=> v \in Uncounted(e)
    BY DEF Uncounted
  <1>2. \A v \in Workers \ {w} : v \in Undiscounted(e)' <=> v \in Undiscounted(e)
    BY DEF Undiscounted
  <1>3. /\ Uncounted(e) \subseteq Workers /\ Uncounted(e)' \subseteq Workers
        /\ Undiscounted(e) \subseteq Workers /\ Undiscounted(e)' \subseteq Workers
    BY DEF Uncounted, Undiscounted
  <1>4. /\ (w \in Uncounted(e)' <=> w \in Uncounted(e)) => Uncounted(e)' = Uncounted(e)
        /\ w \in Uncounted(e)' /\ w \notin Uncounted(e) => Uncounted(e)' = Uncounted(e) \cup {w}
        /\ w \notin Uncounted(e)' /\ w \in Uncounted(e) => Uncounted(e)' = Uncounted(e) \ {w}
    BY <1>1, <1>3
  <1>5. /\ (w \in Undiscounted(e)' <=> w \in Undiscounted(e)) => Undiscounted(e)' = Undiscounted(e)
        /\ w \in Undiscounted(e)' /\ w \notin Undiscounted(e)
               => Undiscounted(e)' = Undiscounted(e) \cup {w}
        /\ w \notin Undiscounted(e)' /\ w \in Undiscounted(e)
               => Undiscounted(e)' = Undiscounted(e) \ {w}
    BY <1>2, <1>3
  <1>6. QED
    BY <1>4, <1>5

\* An envelope of which a step changes neither the count nor what it accounts for.
LEMMA CountFrame ==
  ASSUME NEW w \in Workers, NEW e, Accounts(e), env'[e].count = env[e].count, drift' = drift,
         Participants(e)' = Participants(e),
         \A v \in Workers \ {w} : pc'[v] = pc[v] /\ ids'[v] = ids[v] /\ cur'[v] = cur[v],
         w \in Uncounted(e)' <=> w \in Uncounted(e),
         w \in Undiscounted(e)' <=> w \in Undiscounted(e)
  PROVE  Accounts(e)'
  <1>1. Uncounted(e)' = Uncounted(e) /\ Undiscounted(e)' = Undiscounted(e)
    BY Outstanding
  <1>2. QED
    BY <1>1 DEF Accounts

\* CountAccounts, by its equation.
LEMMA CountsAre == CountAccounts <=> \A e \in Ids : Live(e) => Accounts(e)
  BY DEF CountAccounts, Accounts

\* Deleting an envelope with the rows that reference it.
LEMMA CascadeType ==
  ASSUME Types, RowsSound, NEW x \in Ids, env' = [env EXCEPT ![x] = Dead], part' = Cascade(x),
         nextId' = nextId
  PROVE  /\ env' \in [Ids -> Envelopes] /\ part' \in [Records -> [Actors -> Rows]]
         /\ RowsSound' /\ ~Live(x)'
         /\ \A e \in Ids \ {x} : env'[e] = env[e] /\ Participants(e)' = Participants(e)
  <1>1. Dead \in Envelopes /\ NoPart \in Rows /\ NoPart.id = NoRow /\ Dead.live = FALSE
    BY DEF Dead, Envelopes, NoPart, Rows, NoRow
  <1>2. env' \in [Ids -> Envelopes] /\ ~Live(x)' /\ \A e \in Ids \ {x} : env'[e] = env[e]
    BY <1>1 DEF Types, TableType, Live
  <1>3. part' \in [Records -> [Actors -> Rows]]
    BY <1>1 DEF Cascade, Types, TableType
  <1>4. \A r \in Records, d \in Actors :
           part'[r][d] = IF part[r][d].id = x THEN NoPart ELSE part[r][d]
    BY DEF Cascade
  <1>5. RowsSound'
    BY <1>2, <1>4 DEF RowsSound, Live
  <1>6. ASSUME NEW e \in Ids \ {x} PROVE Participants(e)' = Participants(e)
    <2>1. e # NoRow
      BY DEF Ids, NoRow
    <2>2. \A r \in Records, d \in Actors : part'[r][d].id = e <=> part[r][d].id = e
      BY <1>1, <1>4, <2>1
    <2>3. QED
      BY <2>2 DEF Participants
  <1>7. QED
    BY <1>2, <1>3, <1>5, <1>6

-----------------------------------------------------------------------------
\* A step of worker w that changes at most what envelopes show, and leaves what it has
\* to discount alone.
LEMMA ShownStep ==
  ASSUME NotifyInv, NEW w \in Workers, Moved(w, ids[w]), pc[w] # "bump",
         env' \in [Ids -> Envelopes],
         \A e \in Ids : /\ env'[e].live = env[e].live /\ env'[e].to = env[e].to
                        /\ env'[e].count = env[e].count,
         UNCHANGED <<log, nextId, part, drift>>, torn' \in SUBSET Ids, torn \subseteq torn',
         ordered' \in BOOLEAN, dropped' \in BOOLEAN
  PROVE  NotifyInv'
  <1>1. Types'
    BY DEF NotifyInv, Moved, Types, TableType, HistoryType
  <1>2. RowsSound'
    BY DEF NotifyInv, RowsSound, Live
  <1>3. HandsSound'
    <2>1. \A e \in Ids : e < nextId /\ Live(e)' => Live(e) /\ env'[e].to = env[e].to
      BY DEF Live
    <2>2. QED
      BY <2>1, HandsFrame DEF NotifyInv, Moved, Types, TableType
  <1>4. ASSUME NEW e \in Ids, Live(e)' PROVE Accounts(e)'
    <2>1. Accounts(e)
      BY <1>4, CountsAre DEF NotifyInv, Live
    <2>2. w \notin Uncounted(e) /\ w \notin Uncounted(e)'
      BY DEF Uncounted, Moved
    <2>3. w \in Undiscounted(e)' <=> w \in Undiscounted(e)
      BY DEF Undiscounted, Moved
    <2>4. Participants(e)' = Participants(e)
      BY DEF Participants
    <2>5. QED
      BY <2>1, <2>2, <2>3, <2>4, CountFrame DEF Moved
  <1>5. CountAccounts'
    BY <1>4 DEF CountAccounts, Accounts
  <1>6. DriftSound'
    BY DriftFrame DEF NotifyInv, Types, TableType
  <1>7. QED
    BY <1>1, <1>2, <1>3, <1>5, <1>6 DEF NotifyInv

\* One that writes no table.
LEMMA QuietStep ==
  ASSUME NotifyInv, NEW w \in Workers, Moved(w, ids[w]), pc[w] # "bump",
         UNCHANGED <<log, env, nextId, part, drift>>, torn' \in SUBSET Ids, torn \subseteq torn',
         ordered' \in BOOLEAN, dropped' \in BOOLEAN
  PROVE  NotifyInv'
  <1>1. /\ env' \in [Ids -> Envelopes]
        /\ \A e \in Ids : /\ env'[e].live = env[e].live /\ env'[e].to = env[e].to
                          /\ env'[e].count = env[e].count
    BY DEF NotifyInv, Types, TableType
  <1>2. QED
    BY <1>1, ShownStep

\* A step of worker w that deletes the envelope in its hand.
LEMMA CascadeStep ==
  ASSUME NotifyInv, NEW w \in Workers, Moved(w, ids[w]), pc[w] # "bump", NEW x \in Ids,
         env' = [env EXCEPT ![x] = Dead], part' = Cascade(x),
         UNCHANGED <<log, nextId, torn, drift, ordered, dropped>>
  PROVE  NotifyInv'
  <1>0. /\ env' \in [Ids -> Envelopes] /\ part' \in [Records -> [Actors -> Rows]]
        /\ RowsSound' /\ ~Live(x)'
        /\ \A e \in Ids \ {x} : env'[e] = env[e] /\ Participants(e)' = Participants(e)
    BY CascadeType DEF NotifyInv
  <1>1. Types'
    BY <1>0 DEF NotifyInv, Moved, Types, TableType, HistoryType
  <1>2. HandsSound'
    <2>1. \A e \in Ids : e < nextId /\ Live(e)' => Live(e) /\ env'[e].to = env[e].to
      BY <1>0 DEF Live
    <2>2. QED
      BY <2>1, HandsFrame DEF NotifyInv, Moved, Types, TableType
  <1>3. ASSUME NEW e \in Ids, Live(e)' PROVE Accounts(e)'
    <2>1. Accounts(e) /\ env'[e] = env[e] /\ Participants(e)' = Participants(e)
      BY <1>0, <1>3, CountsAre DEF NotifyInv, Live
    <2>2. w \notin Uncounted(e) /\ w \notin Uncounted(e)'
      BY DEF Uncounted, Moved
    <2>3. w \in Undiscounted(e)' <=> w \in Undiscounted(e)
      BY DEF Undiscounted, Moved
    <2>4. QED
      BY <2>1, <2>2, <2>3, CountFrame DEF Moved
  <1>4. CountAccounts'
    BY <1>3 DEF CountAccounts, Accounts
  <1>5. DriftSound'
    BY DriftFrame DEF NotifyInv, Types, TableType
  <1>6. QED
    BY <1>0, <1>1, <1>2, <1>4, <1>5 DEF NotifyInv

\* One lemma per action: the invariant is kept.  A connection opens.
LEMMA StartInv ==
  ASSUME NotifyInv, NEW w \in Workers, NEW p \in 0 .. done, Start(w, p)
  PROVE  NotifyInv'
  <1>0. Len(log) \in Nat
    BY NotificationsAssumption DEF NotifyInv, Types, TableType
  <1>1. Moved(w, ids[w])
    <2>1. LocalType'
      BY DEF Start, NotifyInv, Types, LocalType, Steps, HistoryType
    <2>2. Holds(w)
      BY DEF NotifyInv, HandsSound
    <2>3. pc[w] = "off" /\ pc'[w] = "idle" /\ pos'[w] = p /\ p <= Len(log)
      BY <1>0 DEF Start, NotifyInv, Types, LocalType, HistoryType
    <2>4. Holds(w)'
      BY <2>2, <2>3 DEF Start, tables, Holds, InStatement, Discounting, Applying
    <2>5. QED
      BY <2>1, <2>3, <2>4 DEF Start, Moved, NotifyInv, Types, LocalType, HistoryType
  <1>2. QED
    BY <1>1, QuietStep DEF Start, tables, NotifyInv, Types, HistoryType

\* A connection is drained.
LEMMA EndInv ==
  ASSUME NotifyInv, NEW w \in Workers, End(w)
  PROVE  NotifyInv'
  <1>1. Moved(w, ids[w])
    <2>1. LocalType'
      BY DEF End, NotifyInv, Types, LocalType, Steps
    <2>2. Holds(w)
      BY DEF NotifyInv, HandsSound
    <2>3. pc[w] = "idle" /\ pc'[w] = "off"
      BY DEF End, NotifyInv, Types, LocalType
    <2>4. Holds(w)'
      BY <2>2, <2>3 DEF End, tables, Holds, InStatement, Discounting, Applying
    <2>5. QED
      BY <2>1, <2>3, <2>4 DEF End, bounds, hist, Moved, NotifyInv, Types, LocalType, HistoryType
  <1>2. QED
    BY <1>1, QuietStep DEF End, tables, bounds, hist, NotifyInv, Types, HistoryType

\* An operation is taken.
LEMMA ProcessInv ==
  ASSUME NotifyInv, NEW w \in Workers, Process(w)
  PROVE  NotifyInv'
  <1>0. Holds(w) /\ ids[w] = {} /\ pc[w] = "idle" /\ pos[w] < Len(log) /\ log' = log /\ pos[w] \in Nat
    BY DEF Process, NotifyInv, HandsSound, Holds, Discounting, Types, LocalType
  <1>1. Moved(w, ids[w])
    <2>1. CASE ExtractAndApply(w)
      BY <1>0, <2>1, ExtractMoves DEF NotifyInv
    <2>2. CASE ~ExtractAndApply(w)
      <3>1. pc' = [pc EXCEPT ![w] = "delete"] /\ last' = pos[w] /\ UNCHANGED <<pos, todo, at, ids, cur, done>>
        BY <2>2 DEF Process
      <3>2. LocalType'
        BY <3>1 DEF NotifyInv, Types, LocalType, Steps
      <3>3. pc'[w] = "delete"
        BY <3>1 DEF NotifyInv, Types, LocalType
      <3>4. Holds(w)'
        BY <1>0, <3>1, <3>3 DEF Holds, InStatement, Discounting, Applying
      <3>5. QED
        BY <1>0, <3>1, <3>2, <3>3, <3>4 DEF Moved, NotifyInv, Types, LocalType, HistoryType
    <2>3. QED
      BY <2>1, <2>2
  <1>2. QED
    BY <1>0, <1>1, QuietStep DEF Process, tables, NotifyInv, Types, HistoryType

\* DeleteByRecordURI takes one row of each envelope at most, since all rows of an envelope
\* have its recipient.
LEMMA DeleteInv ==
  ASSUME NotifyInv, NEW w \in Workers, DeleteParticipants(w)
  PROVE  NotifyInv'
  <1> DEFINE r == Op(w).uri
             S == {part[r][d].id : d \in Actors} \ {NoRow}
  <1>0. /\ Types /\ RowsSound /\ Holds(w) /\ ids[w] = {} /\ pc[w] = "delete" /\ pos[w] < Len(log)
        /\ UNCHANGED <<log, env, nextId, torn, drift, dropped, ordered>> /\ NextDeleted(w, S)
        /\ part' = [part EXCEPT ![r] = [d \in Actors |-> NoPart]]
    BY DEF DeleteParticipants, NotifyInv, HandsSound, Holds, InStatement, Discounting
  <1>1. r \in Records
    BY <1>0, OpType
  <1>2. NoPart \in Rows /\ NoPart.id = NoRow /\ NoRow \notin Ids
    BY DEF NoPart, Rows, NoRow, Ids
  <1>3. PICK q \in Records : q = r
    BY <1>1
  <1> HIDE DEF r
  <1>4. /\ \A d \in Actors : part'[q][d] = NoPart
        /\ \A x \in Records \ {q} : part'[x] = part[x]
        /\ part' \in [Records -> [Actors -> Rows]]
    BY <1>0, <1>2, <1>3 DEF Types, TableType
  <1>5. S \in SUBSET Ids /\ \A e \in S : e < nextId
    BY <1>0, <1>2, <1>3 DEF RowsSound, Types, TableType, Rows
  <1>6. Moved(w, S)
    BY <1>0, <1>5, DeletedMoves
  <1>7. Types'
    BY <1>0, <1>4, <1>6 DEF Moved, Types, TableType, HistoryType
  <1>8. RowsSound'
    BY <1>0, <1>4 DEF RowsSound, Live
  <1>9. HandsSound'
    BY <1>0, <1>6, HandsFrame DEF NotifyInv, Moved, Types, TableType, Live
  <1>10. ASSUME NEW e \in Ids, Live(e)' PROVE Accounts(e)'
    <2>1. Accounts(e) /\ env'[e] = env[e]
      BY <1>0, <1>10, CountsAre DEF NotifyInv, Live
    <2>2. w \notin Uncounted(e) /\ w \notin Uncounted(e)' /\ w \notin Undiscounted(e)
      BY <1>0, <1>6 DEF Uncounted, Undiscounted, Moved
    <2>3. \A v \in Workers \ {w} : pc'[v] = pc[v] /\ ids'[v] = ids[v] /\ cur'[v] = cur[v]
      BY <1>6 DEF Moved
    <2>4. w \in Undiscounted(e)' <=> e \in S
      BY <1>6 DEF Undiscounted, Moved
    <2>5. CASE e \notin S
      <3>1. \A d \in Actors : part[q][d].id # e
        BY <1>2, <1>3, <2>5
      <3>2. \A p \in Records \X Actors : part'[p[1]][p[2]].id = e <=> part[p[1]][p[2]].id = e
        BY <1>2, <1>4, <3>1
      <3>3. Participants(e)' = Participants(e)
        BY <3>2 DEF Participants
      <3>4. QED
        BY <1>0, <2>1, <2>2, <2>3, <2>4, <2>5, <3>3, CountFrame
    <2>6. CASE e \in S
      <3>1. PICK d \in Actors : part[q][d].id = e
        BY <1>3, <2>6
      <3>2. \A c \in Actors : part[q][c].id = e => c = d
        BY <1>0, <1>2, <3>1 DEF RowsSound
      <3>3. Participants(e)' = Participants(e) \ {<<q, d>>} /\ <<q, d>> \in Participants(e)
        <4>1. \A x \in Records, c \in Actors :
                 part'[x][c].id = e <=> part[x][c].id = e /\ ~(x = q /\ c = d)
          BY <1>2, <1>4, <3>2
        <4>2. \A p \in Records \X Actors : p = <<q, d>> <=> p[1] = q /\ p[2] = d
          OBVIOUS
        <4>3. QED
          BY <3>1, <4>1, <4>2 DEF Participants
      <3>4. Cardinality(Participants(e)') = Cardinality(Participants(e)) - 1
        BY <3>3, SetsFinite, FS_RemoveElement
      <3>5. Undiscounted(e)' = Undiscounted(e) \cup {w} /\ Uncounted(e)' = Uncounted(e)
        BY <2>2, <2>3, <2>4, <2>6, Outstanding
      <3>6. Cardinality(Undiscounted(e)') = Cardinality(Undiscounted(e)) + 1
        BY <2>2, <3>5, SetsFinite, FS_AddElement
      <3>7. env[e].count \in Int /\ drift[e] \in Int
        BY <1>0 DEF Types, TableType, HistoryType, Envelopes
      <3>8. QED
        BY <1>0, <2>1, <3>4, <3>5, <3>6, <3>7, SetsFinite DEF Accounts
    <2>7. QED
      BY <2>5, <2>6
  <1>11. CountAccounts'
    BY <1>10 DEF CountAccounts, Accounts
  <1>12. DriftSound'
    BY <1>0, DriftFrame DEF Types, TableType
  <1>13. QED
    BY <1>7, <1>8, <1>9, <1>11, <1>12 DEF NotifyInv

\* The envelope is discounted by the row that went, and is no longer outstanding.
LEMMA DecrementInv ==
  ASSUME NotifyInv, NEW w \in Workers, Decrement(w)
  PROVE  NotifyInv'
  <1>0. PICK x \in Ids : x = cur[w]
    BY DEF NotifyInv, HandsSound, Holds, Decrement, Discounting
  <1>1. /\ Types /\ RowsSound /\ Holds(w) /\ pc[w] = "decrement" /\ x \in ids[w]
        /\ UNCHANGED <<log, nextId, part, pos, todo, cur, torn, drift, dropped, ordered, done, last>>
        /\ env' = IF Live(x) THEN [env EXCEPT ![x].count = @ - 1] ELSE env
        /\ pc' = [pc EXCEPT ![w] = "sweep"] /\ ids' = [ids EXCEPT ![w] = @ \ {x}]
    BY <1>0 DEF Decrement, bounds, hist, NotifyInv, HandsSound, Holds
  <1>2. /\ pc'[w] = "sweep" /\ ids'[w] = ids[w] \ {x} /\ pc \in [Workers -> Steps]
        /\ \A v \in Workers \ {w} : pc'[v] = pc[v] /\ ids'[v] = ids[v] /\ cur'[v] = cur[v]
    BY <1>1 DEF Types, LocalType
  <1>3. /\ \A e \in Ids : env'[e].live = env[e].live /\ env'[e].to = env[e].to
        /\ \A e \in Ids \ {x} : env'[e] = env[e]
        /\ Live(x) => env'[x].count = env[x].count - 1
        /\ env' \in [Ids -> Envelopes]
    BY <1>1 DEF Types, TableType, Envelopes
  <1>4. LocalType'
    BY <1>1 DEF Decrement, Types, LocalType, Steps, Discounting
  <1>5. Types'
    BY <1>1, <1>3, <1>4 DEF Types, TableType, HistoryType
  <1>6. RowsSound'
    BY <1>1, <1>3 DEF RowsSound, Live
  <1>7. Holds(w)'
    BY <1>0, <1>1, <1>2 DEF Holds, InStatement, Discounting, Applying
  <1>8. HandsSound'
    BY <1>1, <1>2, <1>3, <1>7, HandsFrame DEF NotifyInv, Types, TableType, Live
  <1>9. ASSUME NEW e \in Ids, Live(e)' PROVE Accounts(e)'
    <2>1. Accounts(e) /\ Live(e) /\ Participants(e)' = Participants(e)
      BY <1>1, <1>3, <1>9, CountsAre DEF NotifyInv, Live, Participants
    <2>2. w \notin Uncounted(e) /\ w \notin Uncounted(e)'
      BY <1>1, <1>2 DEF Uncounted
    <2>3. CASE e # x
      <3>1. w \in Undiscounted(e)' <=> w \in Undiscounted(e)
        BY <1>2, <2>3 DEF Undiscounted
      <3>2. QED
        BY <1>1, <1>2, <1>3, <2>1, <2>2, <2>3, <3>1, CountFrame
    <2>4. CASE e = x
      <3>1. w \in Undiscounted(e) /\ w \notin Undiscounted(e)'
        BY <1>1, <1>2, <2>4 DEF Undiscounted
      <3>2. Undiscounted(e)' = Undiscounted(e) \ {w} /\ Uncounted(e)' = Uncounted(e)
        BY <1>2, <2>2, <3>1, Outstanding
      <3>3. Cardinality(Undiscounted(e)') = Cardinality(Undiscounted(e)) - 1
        BY <3>1, <3>2, SetsFinite, FS_RemoveElement
      <3>4. env[e].count \in Int /\ env'[e].count = env[e].count - 1 /\ drift[e] \in Int
        BY <1>1, <1>3, <2>1, <2>4 DEF Types, TableType, HistoryType, Envelopes
      <3>5. QED
        BY <1>1, <2>1, <3>2, <3>3, <3>4, SetsFinite DEF Accounts
    <2>5. QED
      BY <2>3, <2>4
  <1>10. CountAccounts'
    BY <1>9 DEF CountAccounts, Accounts
  <1>11. DriftSound'
    BY <1>1, DriftFrame DEF Types, TableType
  <1>12. QED
    BY <1>5, <1>6, <1>8, <1>10, <1>11 DEF NotifyInv

\* An envelope without participants goes, with what references it.
LEMMA SweepInv ==
  ASSUME NotifyInv, NEW w \in Workers, Sweep(w)
  PROVE  NotifyInv'
  <1>0. PICK x \in Ids : x = cur[w]
    BY DEF NotifyInv, HandsSound, Holds, Sweep, Discounting
  <1>1. /\ Types /\ Holds(w) /\ pc[w] = "sweep" /\ pos[w] < Len(log)
        /\ ids[w] \in SUBSET Ids /\ \A e \in ids[w] : e < nextId
        /\ UNCHANGED <<log, nextId, torn, drift, dropped, ordered>>
    BY DEF Sweep, NotifyInv, HandsSound, Holds, InStatement, Types, LocalType
  <1>2. CASE env' = [env EXCEPT ![x] = Dead] /\ part' = Cascade(x) /\ NextDeleted(w, ids[w])
    <2>1. Moved(w, ids[w])
      BY <1>1, <1>2, DeletedMoves
    <2>2. QED
      BY <1>1, <1>2, <2>1, CascadeStep
  <1>3. CASE pc' = [pc EXCEPT ![w] = "recompute"] /\ UNCHANGED <<env, part, pos, todo, at, ids, cur, done, last>>
    <2>1. LocalType'
      BY <1>1, <1>3 DEF Types, LocalType, Steps, Discounting
    <2>2. pc'[w] = "recompute"
      BY <1>1, <1>3 DEF Types, LocalType
    <2>3. Holds(w)'
      BY <1>1, <1>3, <2>2 DEF Holds, InStatement, Discounting, Applying, Live
    <2>4. Moved(w, ids[w])
      BY <1>1, <1>3, <2>1, <2>2, <2>3 DEF Moved, Types, LocalType, HistoryType
    <2>5. QED
      BY <1>1, <1>3, <2>4, QuietStep DEF Types, HistoryType
  <1>4. QED
    BY <1>0, <1>2, <1>3 DEF Sweep

\* What the envelope shows changes, its count does not.
LEMMA RecomputeInv ==
  ASSUME NotifyInv, NEW w \in Workers, Recompute(w)
  PROVE  NotifyInv'
  <1>0. PICK x \in Ids : x = cur[w]
    BY DEF NotifyInv, HandsSound, Holds, Recompute, Discounting
  <1>1. /\ Types /\ Holds(w) /\ pc[w] = "recompute" /\ pos[w] < Len(log)
        /\ ids[w] \in SUBSET Ids /\ \A e \in ids[w] : e < nextId
        /\ UNCHANGED <<log, nextId, part, torn, drift, dropped, ordered>> /\ NextDeleted(w, ids[w])
    BY DEF Recompute, NotifyInv, HandsSound, Holds, InStatement, Types, LocalType
  <1>2. Moved(w, ids[w])
    BY <1>1, DeletedMoves
  <1>3. /\ env' \in [Ids -> Envelopes]
        /\ \A e \in Ids : /\ env'[e].live = env[e].live /\ env'[e].to = env[e].to
                          /\ env'[e].count = env[e].count
    <2>1. CASE env' = env
      BY <1>1, <2>1 DEF Types, TableType
    <2>2. CASE env' # env
      <3>1. PICK p \in Newest(x) : env' = [env EXCEPT ![x].latest = p[1], ![x].sort = part[p[1]][p[2]].sort]
        BY <1>0, <2>2 DEF Recompute
      <3>2. p[1] \in Records /\ part[p[1]][p[2]].sort \in Nat
        BY <1>1 DEF Newest, Participants, Types, TableType, Rows
      <3>3. QED
        BY <1>1, <3>1, <3>2 DEF Types, TableType, Envelopes
    <2>3. QED
      BY <2>1, <2>2
  <1>4. QED
    BY <1>1, <1>2, <1>3, ShownStep DEF Types, HistoryType

\* An envelope is found, or one is inserted under an id that nobody has seen.
LEMMA EnvelopeInv ==
  ASSUME NotifyInv, NEW w \in Workers, Envelope(w)
  PROVE  NotifyInv'
  <1> DEFINE d == Head(todo[w])
             k == Op(w).key
  <1>0. /\ Types /\ Holds(w) /\ pc[w] = "envelope" /\ pos[w] < Len(log) /\ ids[w] = {}
        /\ todo[w] # <<>> /\ todo[w] \in Seq(Actors)
        /\ UNCHANGED <<log, part, pos, todo, at, ids, torn, drift, dropped, ordered, done, last>>
        /\ pc' = [pc EXCEPT ![w] = "participant"]
    BY DEF Envelope, bounds, hist, NotifyInv, HandsSound, Holds, InStatement, Types, LocalType,
           Discounting
  <1>1. d \in Actors /\ k \in Keys \cup {NoKey} /\ Op(w).uri \in Records
    BY <1>0, OpType
  <1>2. pc'[w] = "participant" /\ \A v \in Workers \ {w} : pc'[v] = pc[v]
    BY <1>0 DEF Types, LocalType
  <1>3. CASE \E e \in Group(d, k) : cur' = [cur EXCEPT ![w] = e] /\ UNCHANGED <<env, nextId>>
    <2>1. PICK x \in Ids : /\ Live(x) /\ env[x].to = d /\ cur' = [cur EXCEPT ![w] = x]
                           /\ UNCHANGED <<env, nextId>>
      BY <1>3 DEF Group
    <2>2. x < nextId
      BY <2>1 DEF NotifyInv, RowsSound
    <2>3. cur'[w] = x /\ \A v \in Workers \ {w} : cur'[v] = cur[v]
      BY <1>0, <2>1 DEF Types, LocalType
    <2>4. LocalType'
      BY <1>0, <2>1 DEF Types, LocalType, Steps, Applying
    <2>5. Holds(w)'
      BY <1>0, <1>2, <2>1, <2>2, <2>3 DEF Holds, InStatement, Discounting, Applying, Live
    <2>6. Moved(w, ids[w])
      BY <1>0, <1>2, <2>3, <2>4, <2>5 DEF Moved, Types, HistoryType
    <2>7. QED
      BY <1>0, <2>1, <2>6, QuietStep DEF Types, HistoryType
  <1>4. CASE /\ nextId \in Ids /\ cur' = [cur EXCEPT ![w] = nextId] /\ nextId' = nextId + 1
             /\ env' = [env EXCEPT ![nextId] = [live |-> TRUE, to |-> d, key |-> k,
                                      sort |-> at[w], count |-> 0, latest |-> Op(w).uri]]
    <2>0. PICK x \in Ids : x = nextId
      BY <1>4
    <2>1. /\ env' \in [Ids -> Envelopes] /\ \A e \in Ids \ {x} : env'[e] = env[e]
          /\ env'[x].live = TRUE /\ env'[x].to = d /\ env'[x].count = 0
          /\ nextId' = x + 1 /\ nextId' \in 1 .. MaxIds + 1 /\ x \in Int
      BY <1>0, <1>1, <1>4, <2>0, NotificationsAssumption
         DEF Types, TableType, LocalType, Envelopes, Ids
    <2>2. cur'[w] = x /\ \A v \in Workers \ {w} : cur'[v] = cur[v]
      BY <1>0, <1>4, <2>0 DEF Types, LocalType
    <2>3. LocalType'
      BY <1>0, <1>4 DEF Types, LocalType, Steps, Applying
    <2>4. Types'
      BY <1>0, <2>1, <2>3 DEF Types, TableType, HistoryType
    <2>5. \A e \in Ids : e < x => e < x + 1 /\ e # x
      BY DEF Ids
    <2>6. RowsSound'
      <3>1. ASSUME NEW r \in Records, NEW c \in Actors, part'[r][c] # NoPart
            PROVE  /\ part'[r][c].id \in Ids /\ part'[r][c].id < nextId'
                   /\ env'[part'[r][c].id].live /\ env'[part'[r][c].id].to = c
        <4>1. part'[r][c] = part[r][c]
          BY <1>0
        <4>2. PICK i \in Ids : /\ i = part[r][c].id /\ i < x /\ env[i].live /\ env[i].to = c
          BY <2>0, <3>1, <4>1 DEF NotifyInv, RowsSound, Live
        <4>3. env'[i] = env[i] /\ i < nextId'
          BY <2>1, <2>5, <4>2
        <4>4. QED
          BY <4>1, <4>2, <4>3
      <3>2. ASSUME NEW e \in Ids, Live(e)' PROVE e < nextId'
        <4>1. CASE e = x
          BY <2>1, <4>1
        <4>2. CASE e # x
          BY <2>0, <2>1, <2>5, <3>2, <4>2 DEF NotifyInv, RowsSound, Live
        <4>3. QED
          BY <4>1, <4>2
      <3>3. QED
        BY <3>1, <3>2 DEF RowsSound, Live
    <2>7. Holds(w)'
      BY <1>0, <1>2, <2>1, <2>2 DEF Holds, InStatement, Discounting, Applying, Live
    <2>8. HandsSound'
      <3>1. \A e \in Ids : e < nextId /\ Live(e)' => Live(e) /\ env'[e].to = env[e].to
        BY <2>0, <2>1, <2>5 DEF Live
      <3>2. nextId <= nextId' /\ nextId' \in Int
        BY <2>0, <2>1
      <3>3. QED
        BY <1>0, <1>2, <2>2, <2>7, <3>1, <3>2, HandsFrame DEF NotifyInv
    <2>9. ASSUME NEW e \in Ids, Live(e)' PROVE Accounts(e)'
      <3>1. w \notin Uncounted(e) /\ w \notin Uncounted(e)'
        BY <1>0, <1>2 DEF Uncounted
      <3>2. w \notin Undiscounted(e) /\ w \notin Undiscounted(e)'
        BY <1>0 DEF Undiscounted
      <3>3. Participants(e)' = Participants(e)
        BY <1>0 DEF Participants
      <3>4. \A v \in Workers \ {w} : pc'[v] = pc[v] /\ ids'[v] = ids[v] /\ cur'[v] = cur[v]
        BY <1>0, <1>2, <2>2
      <3>5. CASE e # x
        <4>1. Accounts(e) /\ env'[e].count = env[e].count
          BY <1>0, <2>1, <2>9, <3>5, CountsAre DEF NotifyInv, Live
        <4>2. QED
          BY <1>0, <3>1, <3>2, <3>3, <3>4, <4>1, CountFrame
      <3>6. CASE e = x
        <4>1. Participants(e) = {}
          <5>1. \A r \in Records, c \in Actors : part[r][c].id # e
            BY <2>0, <2>5, <3>6 DEF NotifyInv, RowsSound, NoPart, NoRow, Ids
          <5>2. QED
            BY <5>1 DEF Participants
        <4>2. Uncounted(e) = {} /\ Undiscounted(e) = {}
          <5>1. \A v \in Workers : Holds(v)
            BY DEF NotifyInv, HandsSound
          <5>2. QED
            BY <2>0, <2>5, <3>6, <5>1 DEF Uncounted, Undiscounted, Holds, Applying
        <4>3. Uncounted(e)' = {} /\ Undiscounted(e)' = {}
          BY <3>1, <3>2, <3>4, <4>2, Outstanding
        <4>4. drift'[e] = 0
          BY <1>0, <2>0, <2>1, <3>6 DEF NotifyInv, DriftSound
        <4>5. QED
          BY <2>1, <3>3, <3>6, <4>1, <4>3, <4>4, FS_EmptySet DEF Accounts
      <3>7. QED
        BY <3>5, <3>6
    <2>10. CountAccounts'
      BY <2>9 DEF CountAccounts, Accounts
    <2>11. DriftSound'
      BY <1>0, <2>0, <2>1, DriftFrame
    <2>12. QED
      BY <2>4, <2>6, <2>8, <2>10, <2>11 DEF NotifyInv
  <1>5. QED
    BY <1>3, <1>4 DEF Envelope

\* What Participant, Undo and Bump find in the hand of their worker.
LEMMA ApplyingHolds ==
  ASSUME NotifyInv, NEW w \in Workers, pc[w] \in Applying
  PROVE  /\ Types /\ RowsSound /\ Holds(w) /\ pos[w] < Len(log) /\ ids[w] = {} /\ cur[w] \in Ids
         /\ Head(todo[w]) \in Actors /\ Op(w).uri \in Records /\ at[w] \in Nat
         /\ Live(cur[w]) => env[cur[w]].to = Head(todo[w])
  <1>1. Types /\ RowsSound /\ Holds(w) /\ pos[w] < Len(log) /\ todo[w] \in Seq(Actors) /\ at[w] \in Nat
    BY DEF NotifyInv, HandsSound, Holds, InStatement, Applying, Types, LocalType
  <1>2. Head(todo[w]) \in Actors
    BY <1>1 DEF Holds
  <1>3. QED
    BY <1>1, <1>2, OpType DEF Holds, Applying, Discounting

\* The row that goes in is outstanding until Bump counts it.
LEMMA ParticipantInv ==
  ASSUME NotifyInv, NEW w \in Workers, Participant(w)
  PROVE  NotifyInv'
  <1>0. pc[w] = "participant" /\ pc[w] \in Applying /\ UNCHANGED <<log, env, nextId, drift, ordered>>
    BY DEF Participant, Applying
  <1>1. /\ Types /\ RowsSound /\ Holds(w) /\ pos[w] < Len(log) /\ ids[w] = {} /\ cur[w] \in Ids
        /\ Head(todo[w]) \in Actors /\ Op(w).uri \in Records /\ at[w] \in Nat
        /\ Live(cur[w]) => env[cur[w]].to = Head(todo[w])
    BY <1>0, ApplyingHolds
  <1>2. PICK x \in Ids, d \in Actors, q \in Records :
           x = cur[w] /\ d = Head(todo[w]) /\ q = Op(w).uri
    BY <1>1
  <1>3. CASE /\ pc' = [pc EXCEPT ![w] = "undo"]
             /\ UNCHANGED <<part, pos, todo, at, ids, cur, done, last, torn, dropped>>
    <2>1. LocalType' /\ pc'[w] = "undo" /\ \A v \in Workers \ {w} : pc'[v] = pc[v]
      BY <1>1, <1>3 DEF Types, LocalType, Steps, Applying
    <2>2. Holds(w)'
      BY <1>0, <1>1, <1>3, <2>1 DEF Holds, InStatement, Discounting, Applying, Live
    <2>3. Moved(w, ids[w])
      BY <1>1, <1>3, <2>1, <2>2 DEF Moved, Types, HistoryType
    <2>4. QED
      BY <1>0, <1>1, <1>3, <2>3, QuietStep DEF Types, HistoryType
  <1>4. CASE /\ NextNotification(w) /\ UNCHANGED <<part, dropped>>
             /\ torn' = IF Participants(cur[w]) = {} THEN torn \cup {cur[w]} ELSE torn
    <2>1. Moved(w, ids[w])
      BY <1>0, <1>1, <1>4, NotifiedMoves
    <2>2. QED
      BY <1>0, <1>1, <1>4, <2>1, QuietStep DEF Types, HistoryType
  <1>5. CASE dropped' = TRUE /\ Finish(w) /\ UNCHANGED <<part, torn>>
    <2>1. Moved(w, ids[w])
      BY <1>0, <1>1, <1>5, FinishMoves
    <2>2. QED
      BY <1>0, <1>1, <1>5, <2>1, QuietStep DEF Types, HistoryType
  <1>6. CASE /\ part[q][d] = NoPart /\ Live(x)
             /\ part' = [part EXCEPT ![q][d] = [id |-> x, sort |-> at[w]]]
             /\ pc' = [pc EXCEPT ![w] = "bump"]
             /\ UNCHANGED <<pos, todo, at, ids, cur, done, last, torn, dropped>>
    <2>1. LocalType' /\ pc'[w] = "bump" /\ \A v \in Workers \ {w} : pc'[v] = pc[v]
      BY <1>1, <1>6 DEF Types, LocalType, Steps, Applying
    <2>2. /\ part' \in [Records -> [Actors -> Rows]] /\ part'[q][d] = [id |-> x, sort |-> at[w]]
          /\ \A r \in Records, c \in Actors : ~(r = q /\ c = d) => part'[r][c] = part[r][c]
      BY <1>1, <1>6 DEF Types, TableType, Rows
    <2>3. Types'
      BY <1>0, <1>1, <1>6, <2>1, <2>2 DEF Types, TableType, HistoryType
    <2>4. RowsSound'
      <3>1. x < nextId /\ env[x].to = d
        BY <1>1, <1>2, <1>6 DEF RowsSound
      <3>2. ASSUME NEW r \in Records, NEW c \in Actors, part'[r][c] # NoPart
            PROVE  /\ part'[r][c].id \in Ids /\ part'[r][c].id < nextId
                   /\ env[part'[r][c].id].live /\ env[part'[r][c].id].to = c
        BY <1>1, <1>6, <2>2, <3>1, <3>2 DEF RowsSound, Live
      <3>3. QED
        BY <1>0, <1>1, <3>2 DEF RowsSound, Live
    <2>5. Holds(w)'
      BY <1>0, <1>1, <1>6, <2>1 DEF Holds, InStatement, Discounting, Applying, Live
    <2>6. HandsSound'
      BY <1>0, <1>1, <1>6, <2>1, <2>5, HandsFrame DEF NotifyInv, Types, TableType, Live
    <2>7. ASSUME NEW e \in Ids, Live(e)' PROVE Accounts(e)'
      <3>1. Accounts(e) /\ env'[e] = env[e]
        BY <1>0, <1>6, <2>7, CountsAre DEF NotifyInv, Live
      <3>2. \A v \in Workers \ {w} : pc'[v] = pc[v] /\ ids'[v] = ids[v] /\ cur'[v] = cur[v]
        BY <1>6, <2>1
      <3>3. w \notin Undiscounted(e) /\ w \notin Undiscounted(e)'
        BY <1>1, <1>6 DEF Undiscounted
      <3>4. w \notin Uncounted(e) /\ (w \in Uncounted(e)' <=> e = x)
        BY <1>0, <1>2, <1>6, <2>1 DEF Uncounted
      <3>5. NoPart.id # e
        BY DEF NoPart, NoRow, Ids
      <3>6. CASE e # x
        <4>1. \A p \in Records \X Actors : part'[p[1]][p[2]].id = e <=> part[p[1]][p[2]].id = e
          BY <1>6, <2>2, <3>5, <3>6
        <4>2. Participants(e)' = Participants(e)
          BY <4>1 DEF Participants
        <4>3. QED
          BY <1>0, <3>1, <3>2, <3>3, <3>4, <3>6, <4>2, CountFrame
      <3>7. CASE e = x
        <4>1. Participants(e)' = Participants(e) \cup {<<q, d>>} /\ <<q, d>> \notin Participants(e)
          <5>1. \A r \in Records, c \in Actors :
                   part'[r][c].id = e <=> part[r][c].id = e \/ (r = q /\ c = d)
            BY <1>6, <2>2, <3>7
          <5>2. \A p \in Records \X Actors : p = <<q, d>> <=> p[1] = q /\ p[2] = d
            OBVIOUS
          <5>3. part[q][d].id # e
            BY <1>6, <3>5
          <5>4. QED
            BY <5>1, <5>2, <5>3 DEF Participants
        <4>2. Cardinality(Participants(e)') = Cardinality(Participants(e)) + 1
          BY <4>1, SetsFinite, FS_AddElement
        <4>3. Uncounted(e)' = Uncounted(e) \cup {w} /\ Undiscounted(e)' = Undiscounted(e)
          BY <3>2, <3>3, <3>4, <3>7, Outstanding
        <4>4. Cardinality(Uncounted(e)') = Cardinality(Uncounted(e)) + 1
          BY <3>4, <4>3, SetsFinite, FS_AddElement
        <4>5. env[e].count \in Int /\ drift[e] \in Int
          BY <1>1 DEF Types, TableType, HistoryType, Envelopes
        <4>6. Cardinality(Undiscounted(e)') = Cardinality(Undiscounted(e)) /\ drift'[e] = drift[e]
          BY <1>0, <4>3
        <4>7. QED
          BY <3>1, <4>2, <4>4, <4>5, <4>6, SetsFinite DEF Accounts
      <3>8. QED
        BY <3>6, <3>7
    <2>8. CountAccounts'
      BY <2>7 DEF CountAccounts, Accounts
    <2>9. DriftSound'
      BY <1>0, <1>1, <1>6, DriftFrame DEF Types, TableType
    <2>10. QED
      BY <2>3, <2>4, <2>6, <2>8, <2>9 DEF NotifyInv
  <1>7. QED
    BY <1>2, <1>3, <1>4, <1>5, <1>6 DEF Participant

\* An envelope that was inserted for a notification that exists goes again.
LEMMA UndoInv ==
  ASSUME NotifyInv, NEW w \in Workers, Undo(w)
  PROVE  NotifyInv'
  <1>0. /\ pc[w] = "undo" /\ pc[w] \in Applying /\ NextNotification(w)
        /\ UNCHANGED <<log, nextId, torn, drift, dropped, ordered>>
    BY DEF Undo, Applying
  <1>1. Types /\ Holds(w) /\ ids[w] = {} /\ cur[w] \in Ids
    BY <1>0, ApplyingHolds
  <1>2. Moved(w, ids[w])
    BY <1>0, <1>1, NotifiedMoves
  <1>3. PICK x \in Ids : x = cur[w]
    BY <1>1
  <1>4. CASE env' = [env EXCEPT ![x] = Dead] /\ part' = Cascade(x)
    BY <1>0, <1>2, <1>4, CascadeStep
  <1>5. CASE UNCHANGED <<env, part>>
    BY <1>0, <1>1, <1>2, <1>5, QuietStep DEF Types, HistoryType
  <1>6. QED
    BY <1>3, <1>4, <1>5 DEF Undo

\* Envelopes stay envelopes when one field changes.
LEMMA FieldTypes ==
  ASSUME NEW f \in [Ids -> Envelopes], NEW x \in Ids
  PROVE  /\ \A c \in Int : [f EXCEPT ![x].count = c] \in [Ids -> Envelopes]
         /\ \A s \in Nat : [f EXCEPT ![x].sort = s] \in [Ids -> Envelopes]
         /\ \A l \in Records \cup {NoRow} : [f EXCEPT ![x].latest = l] \in [Ids -> Envelopes]
  BY DEF Envelopes

\* The row is counted.
LEMMA BumpInv ==
  ASSUME NotifyInv, NEW w \in Workers, Bump(w)
  PROVE  NotifyInv'
  <1>0. /\ pc[w] = "bump" /\ pc[w] \in Applying /\ NextNotification(w)
        /\ UNCHANGED <<log, nextId, part, torn, drift, dropped, ordered>>
    BY DEF Bump, Applying
  <1>1. Types /\ RowsSound /\ Holds(w) /\ ids[w] = {} /\ cur[w] \in Ids /\ Op(w).uri \in Records /\ at[w] \in Nat
    BY <1>0, ApplyingHolds
  <1>2. Moved(w, ids[w])
    BY <1>0, <1>1, NotifiedMoves
  <1>3. PICK x \in Ids : x = cur[w]
    BY <1>1
  <1>4. /\ env' \in [Ids -> Envelopes]
        /\ \A e \in Ids : env'[e].live = env[e].live /\ env'[e].to = env[e].to
        /\ \A e \in Ids \ {x} : env'[e] = env[e]
        /\ Live(x) => env'[x].count = env[x].count + 1
    <2>0. env \in [Ids -> Envelopes]
      BY <1>1 DEF Types, TableType
    <2>1. CASE ~Live(x)
      <3>1. env' = env
        BY <1>3, <2>1 DEF Bump
      <3>2. QED
        BY <2>0, <2>1, <3>1
    <2>2. CASE Live(x)
      <3>1. PICK s, l :
               /\ s = (IF at[w] > env[x].sort THEN at[w] ELSE env[x].sort)
               /\ l = (IF at[w] >= env[x].sort THEN Op(w).uri ELSE env[x].latest)
        OBVIOUS
      <3>2. env[x].sort \in Nat /\ env[x].latest \in Records \cup {NoRow} /\ env[x].count \in Int
        BY <2>0 DEF Envelopes
      <3>3. s \in Nat /\ l \in Records \cup {NoRow}
        BY <1>1, <3>1, <3>2
      <3>4. env' = [env EXCEPT ![x].count = env[x].count + 1, ![x].sort = s, ![x].latest = l]
        BY <1>3, <2>0, <2>2, <3>1 DEF Bump, Envelopes
      <3>5. \A e \in Ids \ {x} : env'[e] = env[e]
        BY <2>0, <3>4
      <3>6. /\ env'[x].live = env[x].live /\ env'[x].to = env[x].to /\ env'[x].count = env[x].count + 1
            /\ env'[x].sort = s /\ env'[x].latest = l
        BY <2>0, <3>4 DEF Envelopes
      <3>7. env' \in [Ids -> Envelopes]
        <4>0. PICK c \in Int : c = env[x].count + 1
          BY <3>2
        <4>1. PICK f \in [Ids -> Envelopes] : f = [env EXCEPT ![x].count = c]
          BY <2>0, FieldTypes, Zenon
        <4>2. PICK g \in [Ids -> Envelopes] : g = [f EXCEPT ![x].sort = s]
          BY <3>3, FieldTypes, Zenon
        <4>3. [g EXCEPT ![x].latest = l] \in [Ids -> Envelopes]
          BY <3>3, FieldTypes, Zenon
        <4>4. env' = [g EXCEPT ![x].latest = l]
          BY <3>4, <4>0, <4>1, <4>2
        <4>5. QED
          BY <4>3, <4>4
      <3>8. QED
        BY <3>5, <3>6, <3>7
    <2>3. QED
      BY <2>1, <2>2
  <1>5. Types'
    BY <1>0, <1>1, <1>2, <1>4 DEF Moved, Types, TableType, HistoryType
  <1>6. RowsSound'
    BY <1>0, <1>1, <1>4 DEF RowsSound, Live
  <1>7. HandsSound'
    <2>1. \A e \in Ids : e < nextId /\ Live(e)' => Live(e) /\ env'[e].to = env[e].to
      BY <1>4 DEF Live
    <2>2. QED
      BY <1>0, <1>1, <1>2, <2>1, HandsFrame DEF NotifyInv, Moved, Types, TableType
  <1>8. ASSUME NEW e \in Ids, Live(e)' PROVE Accounts(e)'
    <2>1. Accounts(e) /\ Live(e) /\ Participants(e)' = Participants(e)
      BY <1>0, <1>4, <1>8, CountsAre DEF NotifyInv, Live, Participants
    <2>2. \A v \in Workers \ {w} : pc'[v] = pc[v] /\ ids'[v] = ids[v] /\ cur'[v] = cur[v]
      BY <1>2 DEF Moved
    <2>3. w \notin Undiscounted(e) /\ w \notin Undiscounted(e)' /\ w \notin Uncounted(e)'
          /\ (w \in Uncounted(e) <=> e = x)
      BY <1>0, <1>1, <1>2, <1>3 DEF Undiscounted, Uncounted, Moved
    <2>4. CASE e # x
      BY <1>0, <1>4, <2>1, <2>2, <2>3, <2>4, CountFrame
    <2>5. CASE e = x
      <3>1. Uncounted(e)' = Uncounted(e) \ {w} /\ Undiscounted(e)' = Undiscounted(e)
        BY <2>2, <2>3, <2>5, Outstanding
      <3>2. Cardinality(Uncounted(e)') = Cardinality(Uncounted(e)) - 1
        BY <2>3, <2>5, <3>1, SetsFinite, FS_RemoveElement
      <3>3. env[e].count \in Int /\ env'[e].count = env[e].count + 1 /\ drift[e] \in Int
        BY <1>1, <1>4, <2>1, <2>5 DEF Types, TableType, HistoryType, Envelopes
      <3>4. /\ Cardinality(Undiscounted(e)') = Cardinality(Undiscounted(e))
            /\ Cardinality(Participants(e)') = Cardinality(Participants(e)) /\ drift'[e] = drift[e]
        BY <1>0, <2>1, <3>1
      <3>5. QED
        BY <2>1, <3>2, <3>3, <3>4, SetsFinite DEF Accounts
    <2>6. QED
      BY <2>4, <2>5
  <1>9. CountAccounts'
    BY <1>8 DEF CountAccounts, Accounts
  <1>10. DriftSound'
    BY <1>0, <1>1, DriftFrame DEF Types, TableType
  <1>11. QED
    BY <1>5, <1>6, <1>7, <1>9, <1>10 DEF NotifyInv

\* A worker that stops where it is leaves the envelopes it had work on in torn.
LEMMA LeftType ==
  ASSUME Types, HandsSound, NEW w \in Workers
  PROVE  Left(w) \subseteq Ids /\ \A e \in Left(w) : e < nextId
  <1>1. Holds(w) /\ ids[w] \subseteq Ids
    BY DEF HandsSound, Types, LocalType
  <1>2. pc[w] \in {"participant", "undo", "bump", "sweep", "recompute"} => cur[w] \in Ids /\ cur[w] < nextId
    BY <1>1 DEF Holds, Discounting, Applying
  <1>3. QED
    BY <1>1, <1>2 DEF Left, Holds

\* What the workers of W leave behind is a number, and none where they left nothing.
LEMMA DriftIs ==
  ASSUME Types, NEW W \in SUBSET Workers, drift' = Drift(W), NEW e \in Ids
  PROVE  /\ drift'[e] = drift[e] + Cardinality(Uncounted(e) \cap W) - Cardinality(Undiscounted(e) \cap W)
         /\ Cardinality(Uncounted(e) \cap W) \in Nat /\ Cardinality(Undiscounted(e) \cap W) \in Nat
         /\ drift[e] \in Int /\ drift'[e] \in Int
         /\ (\A w \in W : e \notin Left(w)) => drift'[e] = drift[e]
  <1>1. drift[e] \in Int
    BY DEF Types, HistoryType
  <1>2. Cardinality(Uncounted(e) \cap W) \in Nat /\ Cardinality(Undiscounted(e) \cap W) \in Nat
    <2>1. Uncounted(e) \cap W \subseteq Uncounted(e) /\ Undiscounted(e) \cap W \subseteq Undiscounted(e)
      OBVIOUS
    <2>2. IsFiniteSet(Uncounted(e) \cap W) /\ IsFiniteSet(Undiscounted(e) \cap W)
      BY <2>1, SetsFinite, FS_Subset
    <2>3. QED
      BY <2>2, FS_CardinalityType
  <1>3. drift'[e] = drift[e] + Cardinality(Uncounted(e) \cap W) - Cardinality(Undiscounted(e) \cap W)
    BY DEF Drift
  <1>4. ASSUME \A w \in W : e \notin Left(w) PROVE drift'[e] = drift[e]
    <2>1. Uncounted(e) \cap W = {} /\ Undiscounted(e) \cap W = {}
      BY <1>4 DEF Left, Uncounted, Undiscounted
    <2>2. Cardinality(Uncounted(e) \cap W) = 0 /\ Cardinality(Undiscounted(e) \cap W) = 0
      BY <2>1, FS_EmptySet
    <2>3. QED
      BY <1>1, <1>3, <2>2
  <1>5. QED
    BY <1>1, <1>2, <1>3, <1>4

\* Where workers stop, their envelopes are in torn.
LEMMA DriftLeft ==
  ASSUME NotifyInv, NEW W \in SUBSET Workers, drift' = Drift(W), nextId' = nextId,
         torn' = torn \cup UNION {Left(w) : w \in W}
  PROVE  drift' \in [Ids -> Int] /\ DriftSound'
  <1>1. Types /\ HandsSound
    BY DEF NotifyInv
  <1>2. drift' \in [Ids -> Int]
    <2>1. \A e \in Ids : drift'[e] \in Int
      BY <1>1, DriftIs
    <2>2. QED
      BY <2>1 DEF Drift
  <1>3. ASSUME NEW e \in Ids, drift'[e] # 0 PROVE e \in torn' /\ e < nextId'
    <2>1. CASE \A w \in W : e \notin Left(w)
      <3>1. drift[e] # 0
        BY <1>1, <1>3, <2>1, DriftIs
      <3>2. QED
        BY <3>1 DEF NotifyInv, DriftSound
    <2>2. ASSUME NEW w \in W, e \in Left(w) PROVE e \in torn' /\ e < nextId'
      BY <1>1, <2>2, LeftType
    <2>3. QED
      BY <2>1, <2>2
  <1>4. QED
    BY <1>2, <1>3 DEF DriftSound

\* The part of a finite set that lies in {w}.
LEMMA OneTaken ==
  ASSUME NEW S, IsFiniteSet(S), NEW w
  PROVE  Cardinality(S \ {w}) + Cardinality(S \cap {w}) = Cardinality(S)
  <1>0. Cardinality(S) \in Nat
    BY FS_CardinalityType
  <1>1. CASE w \in S
    <2>1. S \cap {w} = {w} /\ Cardinality(S \ {w}) = Cardinality(S) - 1
      BY <1>1, FS_RemoveElement
    <2>2. Cardinality(S \cap {w}) = 1
      BY <2>1, FS_Singleton
    <2>3. QED
      BY <1>0, <2>1, <2>2
  <1>2. CASE w \notin S
    <2>1. S \cap {w} = {} /\ S \ {w} = S
      BY <1>2
    <2>2. Cardinality(S \cap {w}) = 0 /\ Cardinality(S \ {w}) = Cardinality(S)
      BY <2>1, FS_EmptySet
    <2>3. QED
      BY <1>0, <2>2
  <1>3. QED
    BY <1>1, <1>2

\* A failed statement moves what was outstanding into the drift.
LEMMA FailInv ==
  ASSUME NotifyInv, NEW w \in Workers, Fail(w)
  PROVE  NotifyInv'
  <1>0. /\ Types /\ HandsSound /\ RowsSound /\ Holds(w) /\ pos[w] < Len(log)
        /\ torn' = torn \cup Left(w) /\ drift' = Drift({w})
        /\ UNCHANGED <<log, env, nextId, part, ordered>>
        /\ dropped' \in BOOLEAN
    BY DEF Fail, tables, NotifyInv, HandsSound, Holds, Types, HistoryType
  <1>1. Moved(w, {})
    <2>1. CASE Finish(w)
      BY <1>0, <2>1, FinishMoves
    <2>2. CASE pc[w] = "undo" /\ NextNotification(w)
      BY <1>0, <2>2, NotifiedMoves DEF Applying
    <2>3. QED
      BY <2>1, <2>2 DEF Fail
  <1>2. drift' \in [Ids -> Int] /\ DriftSound'
    <2>1. {w} \in SUBSET Workers /\ UNION {Left(v) : v \in {w}} = Left(w)
      OBVIOUS
    <2>2. QED
      BY <1>0, <2>1, DriftLeft
  <1>3. Types'
    BY <1>0, <1>1, <1>2, LeftType DEF Moved, Types, TableType, HistoryType
  <1>4. RowsSound'
    BY <1>0 DEF RowsSound, Live
  <1>5. HandsSound'
    BY <1>0, <1>1, HandsFrame DEF Moved, Types, TableType, Live
  <1>6. ASSUME NEW e \in Ids, Live(e)' PROVE Accounts(e)'
    <2>1. Accounts(e) /\ env[e].count \in Int /\ env'[e].count = env[e].count
      BY <1>0, <1>6, CountsAre DEF NotifyInv, Live, Types, TableType, Envelopes
    <2>2. Uncounted(e)' = Uncounted(e) \ {w} /\ Undiscounted(e)' = Undiscounted(e) \ {w}
      BY <1>1 DEF Moved, Uncounted, Undiscounted
    <2>3. Participants(e)' = Participants(e)
      BY <1>0 DEF Participants
    <2>4. /\ Cardinality(Uncounted(e) \ {w}) + Cardinality(Uncounted(e) \cap {w}) = Cardinality(Uncounted(e))
          /\ Cardinality(Undiscounted(e) \ {w}) + Cardinality(Undiscounted(e) \cap {w})
                = Cardinality(Undiscounted(e))
      BY SetsFinite, OneTaken
    <2>5. /\ drift'[e] = drift[e] + Cardinality(Uncounted(e) \cap {w}) - Cardinality(Undiscounted(e) \cap {w})
          /\ Cardinality(Uncounted(e) \cap {w}) \in Nat /\ Cardinality(Undiscounted(e) \cap {w}) \in Nat
          /\ drift[e] \in Int
      <3>1. {w} \in SUBSET Workers
        OBVIOUS
      <3>2. QED
        BY <1>0, <3>1, DriftIs
    <2>6. Cardinality(Uncounted(e) \ {w}) \in Nat /\ Cardinality(Undiscounted(e) \ {w}) \in Nat
      <3>1. IsFiniteSet(Uncounted(e) \ {w}) /\ IsFiniteSet(Undiscounted(e) \ {w})
        BY SetsFinite, FS_Subset
      <3>2. QED
        BY <3>1, FS_CardinalityType
    <2>7. /\ Cardinality(Uncounted(e)') = Cardinality(Uncounted(e) \ {w})
          /\ Cardinality(Undiscounted(e)') = Cardinality(Undiscounted(e) \ {w})
          /\ Cardinality(Participants(e)') = Cardinality(Participants(e))
      BY <2>2, <2>3
    <2>8. env[e].count + Cardinality(Uncounted(e)) + drift[e]
             = Cardinality(Participants(e)) + Cardinality(Undiscounted(e))
      BY <2>1 DEF Accounts
    <2>9. env[e].count + Cardinality(Uncounted(e) \ {w}) + drift'[e]
             = Cardinality(Participants(e)) + Cardinality(Undiscounted(e) \ {w})
      BY <2>1, <2>4, <2>5, <2>6, <2>8, SetsFinite
    <2>10. QED
      BY <2>1, <2>7, <2>9 DEF Accounts
  <1>7. CountAccounts'
    BY <1>6 DEF CountAccounts, Accounts
  <1>8. QED
    BY <1>2, <1>3, <1>4, <1>5, <1>7 DEF NotifyInv

\* So does a crash, for every worker.
LEMMA CrashInv ==
  ASSUME NotifyInv, Crash
  PROVE  NotifyInv'
  <1>0. /\ Types /\ HandsSound /\ RowsSound /\ Len(log) \in Nat
        /\ torn' = torn \cup UNION {Left(w) : w \in Workers} /\ drift' = Drift(Workers)
        /\ UNCHANGED <<log, env, nextId, part, done, dropped, last, ordered>>
    BY NotificationsAssumption DEF Crash, tables, NotifyInv, Types, TableType
  <1>1. \A w \in Workers : pc'[w] = "off" /\ pos'[w] = 0 /\ ids'[w] = {} /\ cur'[w] = NoRow
    BY DEF Crash
  <1>2. drift' \in [Ids -> Int] /\ DriftSound'
    BY <1>0, DriftLeft
  <1>3. Types'
    <2>1. LocalType'
      BY DEF Crash, LocalType, Steps, NoRow
    <2>2. torn' \subseteq Ids
      BY <1>0, LeftType DEF Types, HistoryType
    <2>3. QED
      BY <1>0, <1>2, <2>1, <2>2 DEF Types, TableType, HistoryType
  <1>4. RowsSound'
    BY <1>0 DEF RowsSound, Live
  <1>5. HandsSound'
    BY <1>0, <1>1 DEF HandsSound, Holds, InStatement, Discounting, Applying
  <1>6. ASSUME NEW e \in Ids, Live(e)' PROVE Accounts(e)'
    <2>1. Accounts(e) /\ env[e].count \in Int /\ env'[e].count = env[e].count
      BY <1>0, <1>6, CountsAre DEF NotifyInv, Live, Types, TableType, Envelopes
    <2>2. Uncounted(e) \cap Workers = Uncounted(e) /\ Undiscounted(e) \cap Workers = Undiscounted(e)
      BY DEF Uncounted, Undiscounted
    <2>3. Uncounted(e)' = {} /\ Undiscounted(e)' = {}
      BY <1>1 DEF Uncounted, Undiscounted
    <2>4. Participants(e)' = Participants(e)
      BY <1>0 DEF Participants
    <2>5. drift'[e] = drift[e] + Cardinality(Uncounted(e)) - Cardinality(Undiscounted(e)) /\ drift[e] \in Int
      BY <1>0, <2>2, DriftIs
    <2>6. QED
      BY <2>1, <2>3, <2>4, <2>5, SetsFinite, FS_EmptySet DEF Accounts
  <1>7. CountAccounts'
    BY <1>6 DEF CountAccounts, Accounts
  <1>8. QED
    BY <1>2, <1>3, <1>4, <1>5, <1>7 DEF NotifyInv

\* The tables are empty at first.
LEMMA InitInv == Init => NotifyInv
  <1> SUFFICES ASSUME Init PROVE NotifyInv
    OBVIOUS
  <1>0. Len(log) \in Nat /\ MaxIds \in Nat
    BY NotificationsAssumption DEF Init
  <1>1. Types
    <2>1. Dead \in Envelopes /\ NoPart \in Rows
      BY DEF Dead, NoPart, Envelopes, Rows, NoRow
    <2>2. TableType
      BY <1>0, <2>1 DEF Init, TableType
    <2>3. LocalType
      <3>1. <<>> \in Seq(Actors)
        OBVIOUS
      <3>2. QED
        BY <3>1 DEF Init, LocalType, Steps, NoRow
    <2>4. HistoryType
      <3>1. done \in 0 .. Len(log) /\ torn \in SUBSET Ids /\ last \in Nat
        BY <1>0 DEF Init
      <3>2. ordered \in BOOLEAN /\ dropped \in BOOLEAN
        BY DEF Init
      <3>3. drift \in [Ids -> Int]
        BY DEF Init
      <3>4. QED
        BY <3>1, <3>2, <3>3 DEF HistoryType
    <2>5. QED
      BY <2>2, <2>3, <2>4 DEF Types
  <1>2. \A e \in Ids : ~Live(e)
    BY DEF Init, Live, Dead
  <1>3. RowsSound
    BY <1>2 DEF RowsSound, Init
  <1>4. HandsSound
    BY <1>0 DEF Init, HandsSound, Holds, InStatement, Discounting, Applying
  <1>5. DriftSound
    BY DEF Init, DriftSound
  <1>6. QED
    BY <1>1, <1>2, <1>3, <1>4, <1>5 DEF NotifyInv, CountAccounts

\* Every step keeps the invariant.
LEMMA StepInv == NotifyInv /\ [Next]_vars => NotifyInv'
  <1> SUFFICES ASSUME NotifyInv, [Next]_vars PROVE NotifyInv'
    OBVIOUS
  <1>1. ASSUME NEW w \in Workers,
               \/ \E p \in 0 .. done : Start(w, p)
               \/ End(w) \/ Process(w)
               \/ DeleteParticipants(w) \/ Decrement(w) \/ Sweep(w) \/ Recompute(w)
               \/ Envelope(w) \/ Participant(w) \/ Undo(w) \/ Bump(w)
               \/ Fail(w)
        PROVE  NotifyInv'
    BY <1>1, StartInv, EndInv, ProcessInv, DeleteInv, DecrementInv, SweepInv, RecomputeInv, EnvelopeInv,
       ParticipantInv, UndoInv, BumpInv, FailInv
  <1>2. CASE Crash
    BY <1>2, CrashInv
  <1>3. CASE UNCHANGED vars
    <2>1. Types'
      BY <1>3 DEF vars, tables, local, bounds, hist, NotifyInv, Types, TableType, LocalType, HistoryType
    <2>2. RowsSound'
      BY <1>3 DEF vars, tables, NotifyInv, RowsSound, Live
    <2>3. HandsSound'
      BY <1>3 DEF vars, tables, local, NotifyInv, HandsSound, Holds, InStatement, Live
    <2>4. CountAccounts'
      BY <1>3 DEF vars, tables, local, bounds, NotifyInv, CountAccounts, Uncounted, Undiscounted,
                  Participants, Live
    <2>5. DriftSound'
      BY <1>3 DEF vars, tables, bounds, hist, NotifyInv, DriftSound
    <2>6. QED
      BY <2>1, <2>2, <2>3, <2>4, <2>5 DEF NotifyInv
  <1>4. QED
    BY <1>1, <1>2, <1>3 DEF Next

\* However the statements of applyOne and DeleteByRecordURI interleave, an envelope's count
\* differs from its participants by exactly the statements that workers have still to run
\* and those that operations cut short never ran.
THEOREM CountsAccount == Spec => []CountAccounts
  <1>1. NotifyInv => CountAccounts
    BY DEF NotifyInv
  <1>2. QED
    BY <1>1, InitInv, StepInv, PTL DEF Spec

-----------------------------------------------------------------------------
\* While the run is ordered, one worker is at work.
Lone == ordered => \A v, w \in Workers : pc[v] # "off" /\ pc[w] # "off" => v = w

\* A step that worker w takes once it is started touches no other worker.
Worked(w) ==
    \/ End(w) \/ Process(w)
    \/ DeleteParticipants(w) \/ Decrement(w) \/ Sweep(w) \/ Recompute(w)
    \/ Envelope(w) \/ Participant(w) \/ Undo(w) \/ Bump(w)
    \/ Fail(w)

Alone(w) == \A v \in Workers \ {w} : /\ pc'[v] = pc[v] /\ pos'[v] = pos[v] /\ todo'[v] = todo[v]
                                     /\ at'[v] = at[v] /\ ids'[v] = ids[v] /\ cur'[v] = cur[v]

\* The loops end a statement of w and touch w only.
LEMMA HelpersAlone ==
  ASSUME Types, NEW w \in Workers,
         Finish(w) \/ ExtractAndApply(w) \/ NextNotification(w) \/ \E S : NextDeleted(w, S)
  PROVE  Alone(w) /\ pc'[w] \in {"idle", "envelope", "decrement"}
  <1>1. CASE Finish(w)
    BY <1>1 DEF Finish, Alone, Types, LocalType
  <1>2. CASE ExtractAndApply(w)
    <2>1. CASE ~Finish(w)
      BY <1>2, <2>1 DEF ExtractAndApply, Alone, Types, LocalType
    <2>2. QED
      BY <1>1, <2>1
  <1>3. CASE NextNotification(w)
    <2>1. CASE ~Finish(w)
      BY <1>3, <2>1 DEF NextNotification, Alone, Types, LocalType
    <2>2. QED
      BY <1>1, <2>1
  <1>4. CASE \E S : NextDeleted(w, S)
    <2>1. CASE ~Finish(w) /\ ~ExtractAndApply(w)
      BY <1>4, <2>1 DEF NextDeleted, Alone, Types, LocalType
    <2>2. QED
      BY <1>1, <1>2, <2>1
  <1>5. QED
    BY <1>1, <1>2, <1>3, <1>4

\* So does every step of w; it never takes back what the history records.
LEMMA WorkedAlone ==
  ASSUME Types, NEW w \in Workers, Worked(w)
  PROVE  /\ Alone(w) /\ pc[w] # "off" /\ ordered' = ordered /\ log' = log /\ torn \subseteq torn'
         /\ dropped => dropped'
  <1>1. CASE End(w)
    BY <1>1 DEF End, hist, Alone, Types, LocalType
  <1>2. CASE Process(w)
    <2>1. CASE ~ExtractAndApply(w)
      BY <1>2, <2>1 DEF Process, Alone, Types, LocalType
    <2>2. QED
      BY <1>2, <2>1, HelpersAlone DEF Process
  <1>3. CASE DeleteParticipants(w)
    BY <1>3, HelpersAlone DEF DeleteParticipants
  <1>4. CASE Decrement(w)
    BY <1>4 DEF Decrement, hist, Alone, Types, LocalType
  <1>5. CASE Sweep(w)
    <2>1. CASE NextDeleted(w, ids[w])
      BY <1>5, <2>1, HelpersAlone DEF Sweep
    <2>2. CASE ~NextDeleted(w, ids[w])
      BY <1>5, <2>2 DEF Sweep, Alone, Types, LocalType
    <2>3. QED
      BY <2>1, <2>2
  <1>6. CASE Recompute(w)
    BY <1>6, HelpersAlone DEF Recompute
  <1>7. CASE Envelope(w)
    BY <1>7 DEF Envelope, hist, Alone, Types, LocalType
  <1>8. CASE Participant(w)
    <2>1. CASE NextNotification(w) \/ Finish(w)
      <3>1. Alone(w)
        BY <2>1, HelpersAlone
      <3>2. QED
        BY <1>8, <3>1 DEF Participant
    <2>2. CASE ~NextNotification(w) /\ ~Finish(w)
      BY <1>8, <2>2 DEF Participant, Alone, Types, LocalType
    <2>3. QED
      BY <2>1, <2>2
  <1>9. CASE Undo(w)
    BY <1>9, HelpersAlone DEF Undo
  <1>10. CASE Bump(w)
    BY <1>10, HelpersAlone DEF Bump
  <1>11. CASE Fail(w)
    BY <1>11, HelpersAlone DEF Fail, InStatement
  <1>12. QED
    BY <1>1, <1>2, <1>3, <1>4, <1>5, <1>6, <1>7, <1>8, <1>9, <1>10, <1>11 DEF Worked

\* Only Start brings a second worker in, and then the run is not ordered.
LEMMA LoneStep == NotifyInv /\ Lone /\ [Next]_vars => Lone'
  <1> SUFFICES ASSUME NotifyInv, Lone, [Next]_vars PROVE Lone'
    OBVIOUS
  <1>1. ASSUME NEW w \in Workers, NEW p \in 0 .. done, Start(w, p) PROVE Lone'
    BY <1>1 DEF Start, Lone, NotifyInv, Types, LocalType
  <1>2. ASSUME NEW w \in Workers, Worked(w) PROVE Lone'
    BY <1>2, WorkedAlone DEF Lone, Alone, NotifyInv
  <1>3. CASE Crash
    BY <1>3 DEF Crash, Lone
  <1>4. CASE UNCHANGED vars
    BY <1>4 DEF vars, local, hist, Lone
  <1>5. QED
    BY <1>1, <1>2, <1>3, <1>4 DEF Next, Worked

\* The only worker at work finds in the count what the rows of an envelope amount to.
LEMMA LoneCount ==
  ASSUME NotifyInv, Lone, ordered, NEW w \in Workers, pc[w] # "off", pc[w] # "bump",
         NEW e \in Ids \ torn, Live(e), e \notin ids[w]
  PROVE  env[e].count = Cardinality(Participants(e)) /\ (env[e].count <= 0 <=> Participants(e) = {})
  <1>1. \A v \in Workers : v # w => ids[v] = {} /\ pc[v] = "off"
    BY DEF Lone, NotifyInv, HandsSound, Holds, Discounting
  <1>2. Uncounted(e) = {} /\ Undiscounted(e) = {}
    BY <1>1 DEF Uncounted, Undiscounted
  <1>3. Accounts(e) /\ env[e].count \in Int
    BY CountsAre DEF NotifyInv, Types, TableType, Envelopes
  <1>a. drift[e] = 0
    BY DEF NotifyInv, DriftSound
  <1>4. env[e].count = Cardinality(Participants(e))
    BY <1>2, <1>3, <1>a, SetsFinite, FS_EmptySet DEF Accounts
  <1>5. QED
    BY <1>4, SetsFinite, FS_EmptySet

\* So the envelope it deletes has no rows to go with it.
LEMMA NothingCascades ==
  ASSUME NEW x, Participants(x) = {}, Types
  PROVE  Cascade(x) = part
  <1>1. ASSUME NEW r \in Records, NEW d \in Actors PROVE part[r][d].id # x
    <2>1. <<r, d>> \in Records \X Actors /\ <<r, d>>[1] = r /\ <<r, d>>[2] = d
      OBVIOUS
    <2>2. <<r, d>> \notin Participants(x)
      OBVIOUS
    <2>3. QED
      BY <2>1, <2>2 DEF Participants
  <1>2. Cascade(x) = [r \in Records |-> [d \in Actors |-> part[r][d]]]
    BY <1>1 DEF Cascade
  <1>3. QED
    BY <1>2 DEF Types, TableType

\* The steps that remove rows or envelopes.
LEMMA Removals ==
  ASSUME [Next]_vars, part' # part \/ env' # env
  PROVE  \E w \in Workers : \/ DeleteParticipants(w) \/ Decrement(w) \/ Sweep(w) \/ Recompute(w)
                            \/ Envelope(w) \/ Participant(w) \/ Undo(w) \/ Bump(w)
  <1>1. ASSUME NEW w \in Workers, (\E p \in 0 .. done : Start(w, p)) \/ End(w) \/ Process(w) \/ Fail(w)
        PROVE  FALSE
    BY <1>1 DEF Start, End, Process, Fail, tables
  <1>2. ~Crash /\ ~UNCHANGED vars
    BY DEF Crash, vars, tables
  <1>3. QED
    BY <1>1, <1>2 DEF Next

\* An envelope is deleted by Sweep or Undo, which found its count at zero or below.
LEMMA EnvelopeGoes ==
  ASSUME NotifyInv, [Next]_vars, NEW e \in Ids, Live(e), ~Live(e)'
  PROVE  Cardinality(Participants(e)) <= Cardinality(Uncounted(e)) + drift[e]
  <1>0. Types /\ env[e].live /\ ~env'[e].live /\ env' # env
    BY DEF NotifyInv, Live
  <1>1. PICK w \in Workers : \/ DeleteParticipants(w) \/ Decrement(w) \/ Sweep(w) \/ Recompute(w)
                             \/ Envelope(w) \/ Participant(w) \/ Undo(w) \/ Bump(w)
    BY <1>0, Removals
  <1>2. Sweep(w) \/ Undo(w)
    <2>0. env \in [Ids -> Envelopes]
      BY <1>0 DEF Types, TableType
    <2>1. ~DeleteParticipants(w) /\ ~Participant(w)
      BY <1>0 DEF DeleteParticipants, Participant
    <2>2. ~Decrement(w)
      BY <1>0, <2>0 DEF Decrement, Envelopes
    <2>3. ~Recompute(w)
      BY <1>0, <2>0 DEF Recompute, Envelopes
    <2>4. ~Envelope(w)
      BY <1>0, <2>0 DEF Envelope
    <2>5. ~Bump(w)
      BY <1>0, <2>0 DEF Bump, Envelopes
    <2>6. QED
      BY <1>1, <2>1, <2>2, <2>3, <2>4, <2>5
  <1>3. env' = [env EXCEPT ![cur[w]] = Dead] /\ env[cur[w]].count <= 0
    BY <1>0, <1>2 DEF Sweep, Undo
  <1>4. env[e].count <= 0
    BY <1>0, <1>3 DEF Types, TableType
  <1>5. Accounts(e) /\ env[e].count \in Int /\ drift[e] \in Int
    BY <1>0, CountsAre DEF NotifyInv, Types, TableType, HistoryType, Envelopes
  <1>6. QED
    BY <1>4, <1>5, SetsFinite DEF Accounts

\* A row goes with its record, or with its envelope.
LEMMA RowsStay ==
  ASSUME NotifyInv, [Next]_vars, NEW r \in Records, NEW d \in Actors,
         part[r][d] # NoPart, part'[r][d] = NoPart
  PROVE  \/ \E w \in Workers : pc[w] = "delete" /\ pc'[w] # "delete" /\ Op(w).uri = r
         \/ \E e \in Ids : part[r][d].id = e /\ Live(e) /\ ~Live(e)'
  <1>0. Types /\ part[r][d].id \in Ids /\ Live(part[r][d].id) /\ part' # part
    BY DEF NotifyInv, RowsSound
  <1>1. PICK w \in Workers : \/ DeleteParticipants(w) \/ Decrement(w) \/ Sweep(w) \/ Recompute(w)
                             \/ Envelope(w) \/ Participant(w) \/ Undo(w) \/ Bump(w)
    BY <1>0, Removals
  <1>2. DeleteParticipants(w) \/ Sweep(w) \/ Participant(w) \/ Undo(w)
    BY <1>0, <1>1 DEF Decrement, Recompute, Envelope, Bump
  <1>3. CASE DeleteParticipants(w)
    <2>1. pc[w] = "delete" /\ part' = [part EXCEPT ![Op(w).uri] = [c \in Actors |-> NoPart]]
      BY <1>3 DEF DeleteParticipants
    <2>2. Op(w).uri = r
      BY <1>0, <2>1 DEF Types, TableType
    <2>3. pc'[w] # "delete"
      BY <1>0, <1>3, HelpersAlone DEF DeleteParticipants
    <2>4. QED
      BY <2>1, <2>2, <2>3
  <1>4. CASE Participant(w)
    <2>1. PICK i, c, x : part' = [part EXCEPT ![i][c] = [id |-> x, sort |-> at[w]]] /\ x = cur[w] /\ Live(cur[w])
                         /\ pc[w] = "participant"
      BY <1>0, <1>4 DEF Participant
    <2>2. x # NoRow
      BY <2>1 DEF NotifyInv, HandsSound, Holds, Applying, Ids, NoRow
    <2>3. [id |-> x, sort |-> at[w]] # NoPart
      BY <2>2 DEF NoPart
    <2>4. QED
      BY <1>0, <2>1, <2>3 DEF Types, TableType
  <1>5. CASE Sweep(w) \/ Undo(w)
    <2>1. part' = Cascade(cur[w]) /\ env' = [env EXCEPT ![cur[w]] = Dead]
      BY <1>0, <1>5 DEF Sweep, Undo
    <2>2. part[r][d].id = cur[w]
      BY <1>0, <2>1 DEF Cascade
    <2>3. PICK e \in Ids : e = part[r][d].id
      BY <1>0
    <2>4. env'[e] = Dead
      BY <1>0, <2>1, <2>2, <2>3 DEF Types, TableType
    <2>5. QED
      BY <1>0, <2>3, <2>4 DEF Live, Dead
  <1>6. QED
    BY <1>2, <1>3, <1>4, <1>5

\* Rows go with their record or with their envelope, and an envelope goes with rows only as far
\* as its count is behind: DeleteByRecordURI and applyOne find it at zero, and the count is
\* short by the rows that workers have inserted and not counted, or were cut off before counting.
THEOREM OwnRowsGo == Spec => OnlyOwnRowsGo
  <1>1. NotifyInv /\ [Next]_vars =>
          [/\ \A r \in Records, d \in Actors :
                part[r][d] # NoPart /\ part'[r][d] = NoPart
                   => \/ \E w \in Workers : pc[w] = "delete" /\ pc'[w] # "delete" /\ Op(w).uri = r
                      \/ \E e \in Ids : part[r][d].id = e /\ Live(e) /\ ~Live(e)'
           /\ \A e \in Ids : Live(e) /\ ~Live(e)' =>
                Cardinality(Participants(e)) <= Cardinality(Uncounted(e)) + drift[e]]_vars
    BY RowsStay, EnvelopeGoes
  <1>2. QED
    BY <1>1, InitInv, StepInv, PTL DEF Spec, OnlyOwnRowsGo

-----------------------------------------------------------------------------
\* What an envelope shows: its newest participant.
Shows(e) ==
    \E p \in Participants(e) :
        /\ env[e].latest = p[1] /\ env[e].sort = part[p[1]][p[2]].sort
        /\ \A q \in Participants(e) : part[q[1]][q[2]].sort <= env[e].sort

\* The envelope that worker w has just inserted for the record in hand.
Fresh(w, e) == Participants(e) = {} /\ env[e].sort = at[w] /\ env[e].latest = Op(w).uri

\* The participant of w is in and the envelope shows the newest of the others, if any.
Added(w, e) ==
    /\ <<Op(w).uri, Head(todo[w])>> \in Participants(e)
    /\ part[Op(w).uri][Head(todo[w])].sort = at[w]
    /\ \E p \in Participants(e) :
          /\ env[e].latest = p[1] /\ env[e].sort = part[p[1]][p[2]].sort
          /\ \A q \in Participants(e) : \/ q = <<Op(w).uri, Head(todo[w])>>
                                        \/ part[q[1]][q[2]].sort <= env[e].sort

\* What is known of envelope e while worker w has it in hand.
InHand(w, e) ==
    cur[w] = e => /\ pc[w] \in {"participant", "undo"} => Shows(e) \/ Fresh(w, e)
                  /\ pc[w] = "bump" => Added(w, e)
                  /\ pc[w] = "recompute" => Participants(e) # {}

ShownInv ==
    ordered => \A e \in Ids \ torn : Live(e) =>
        (Untouched(e) => Shows(e)) /\ \A w \in Workers : InHand(w, e)

\* Of finitely many participants one is newest: the one that fewest are newer than.
LEMMA NewestExists ==
  ASSUME Types, NEW e, Participants(e) # {}
  PROVE  Newest(e) # {}
  <1> DEFINE P == Participants(e)
             Sort(p) == part[p[1]][p[2]].sort
             Newer(p) == {q \in P : Sort(p) < Sort(q)}
             T == {n \in Nat : \E p \in P : Cardinality(Newer(p)) = n}
  <1>0. \A p \in P : Sort(p) \in Nat
    BY DEF Participants, Types, TableType, Rows
  <1>1. Newest(e) = {p \in P : \A q \in P : Sort(q) <= Sort(p)}
    BY DEF Newest
  <1>2. IsFiniteSet(P)
    BY SetsFinite
  <1> HIDE DEF P, Sort
  <1>3. \A p \in P : IsFiniteSet(Newer(p)) /\ Cardinality(Newer(p)) \in Nat
    BY <1>2, FS_Subset, FS_CardinalityType
  <1>4. T # {} /\ T \subseteq Nat
    BY <1>3 DEF P
  <1>5. PICK n \in T : \A m \in T : n <= m
    BY <1>4, LeastNat
  <1>6. PICK p \in P : Cardinality(Newer(p)) = n
    BY <1>5
  <1>7. ASSUME NEW q \in P, Sort(p) < Sort(q) PROVE FALSE
    <2>1. Newer(q) \subseteq Newer(p) /\ q \in Newer(p) /\ q \notin Newer(q)
      BY <1>0, <1>7
    <2>2. Cardinality(Newer(q)) < Cardinality(Newer(p))
      <3>1. Newer(q) # Newer(p)
        BY <2>1
      <3>2. QED
        BY <1>3, <2>1, <3>1, FS_Subset
    <2>3. Cardinality(Newer(q)) \in T
      BY <1>3
    <2>4. QED
      BY <1>3, <1>5, <1>6, <2>2, <2>3
  <1>8. \A q \in P : Sort(q) <= Sort(p)
    BY <1>0, <1>7
  <1>9. QED
    BY <1>1, <1>8

\* Shows, by Newest.
LEMMA ShowsNewest ==
  ASSUME NEW e
  PROVE  Shows(e) <=> \E p \in Newest(e) : /\ env[e].latest = p[1]
                                           /\ env[e].sort = part[p[1]][p[2]].sort
  BY DEF Shows, Newest

\* A step that changes neither an envelope nor its rows.
LEMMA ShowsFrame ==
  ASSUME NEW e, Shows(e), env'[e].latest = env[e].latest, env'[e].sort = env[e].sort,
         Participants(e)' = Participants(e),
         \A p \in Participants(e) : part'[p[1]][p[2]] = part[p[1]][p[2]]
  PROVE  Shows(e)'
  BY DEF Shows

\* Others than the worker that moves are off and have nothing in hand.
LEMMA OthersOff ==
  ASSUME NotifyInv, Lone, ordered, NEW w \in Workers, pc[w] # "off"
  PROVE  \A v \in Workers \ {w} : pc[v] = "off" /\ ids[v] = {} /\ cur[v] = NoRow
  BY DEF Lone, NotifyInv, HandsSound, Holds, Discounting, Applying

\* After a step of w only what w has in hand is to be looked at.
LEMMA ShownByHand ==
  ASSUME NotifyInv, Lone, NEW w \in Workers, Worked(w), ordered,
         \A e \in Ids \ torn' : Live(e)' =>
             (e \notin ids'[w] /\ cur'[w] # e => Shows(e)') /\ InHand(w, e)'
  PROVE  ShownInv'
  <1>1. Alone(w) /\ pc[w] # "off"
    BY WorkedAlone DEF NotifyInv
  <1>2. \A v \in Workers \ {w} : pc'[v] = "off" /\ ids'[v] = {} /\ cur'[v] = NoRow
    BY <1>1, OthersOff DEF Alone
  <1>3. ASSUME NEW e \in Ids \ torn', Live(e)'
        PROVE  (Untouched(e)' => Shows(e)') /\ \A v \in Workers : InHand(v, e)'
    <2>1. Untouched(e)' => e \notin ids'[w] /\ cur'[w] # e
      BY DEF Untouched
    <2>2. \A v \in Workers \ {w} : InHand(v, e)'
      BY <1>2 DEF InHand
    <2>3. QED
      BY <1>3, <2>1, <2>2
  <1>4. QED
    BY <1>3 DEF ShownInv

\* What an envelope shows that the worker has not in hand.
LEMMA ShownBefore ==
  ASSUME NotifyInv, Lone, ShownInv, ordered, NEW w \in Workers, pc[w] # "off",
         NEW e \in Ids \ torn, Live(e)
  PROVE  (e \notin ids[w] /\ cur[w] # e => Shows(e)) /\ InHand(w, e)
  <1>1. e \notin ids[w] /\ cur[w] # e => Untouched(e)
    BY OthersOff DEF Untouched, Ids, NoRow
  <1>2. QED
    BY <1>1 DEF ShownInv

\* A step after which w has at most envelopes to discount in hand.
LEMMA ShownRest ==
  ASSUME NotifyInv, NotifyInv', Lone, NEW w \in Workers, Worked(w), ordered,
         pc'[w] \in {"off", "idle", "delete", "envelope", "decrement"},
         \A e \in Ids \ torn' : Live(e)' /\ e \notin ids'[w] => Shows(e)'
  PROVE  ShownInv'
  <1>1. Holds(w)'
    BY DEF NotifyInv, HandsSound
  <1>2. \A e \in Ids : InHand(w, e)'
    BY <1>1 DEF InHand
  <1>3. QED
    BY <1>2, ShownByHand

\* A step that writes no table.
LEMMA TablesKept ==
  ASSUME UNCHANGED <<env, part>>, NEW e
  PROVE  /\ Participants(e)' = Participants(e) /\ (Shows(e)' <=> Shows(e)) /\ (Live(e)' <=> Live(e))
  <1>1. Participants(e)' = Participants(e)
    BY DEF Participants
  <1>2. QED
    BY <1>1 DEF Shows, Live

\* Steps that write no table show what they showed; a failure tears what was in hand.
LEMMA QuietShown ==
  ASSUME NotifyInv, NotifyInv', Lone, ShownInv, ordered, NEW w \in Workers,
         End(w) \/ Process(w) \/ Fail(w)
  PROVE  ShownInv'
  <1>0. Types /\ Holds(w) /\ Worked(w) /\ UNCHANGED <<env, part>>
    BY DEF NotifyInv, HandsSound, Worked, End, Process, Fail, tables
  <1>1. pc[w] # "off" /\ torn \subseteq torn'
    BY <1>0, WorkedAlone
  <1>2. pc'[w] \in {"off", "idle", "delete", "envelope", "decrement"}
    <2>1. CASE End(w)
      BY <1>0, <2>1 DEF End, Types, LocalType
    <2>2. CASE Process(w) /\ ~ExtractAndApply(w)
      BY <1>0, <2>2 DEF Process, Types, LocalType
    <2>3. CASE ExtractAndApply(w) \/ Finish(w) \/ NextNotification(w)
      BY <1>0, <2>3, HelpersAlone
    <2>4. QED
      BY <2>1, <2>2, <2>3 DEF Process, Fail
  <1>3. ASSUME NEW e \in Ids \ torn', Live(e)' PROVE Shows(e)'
    <2>1. e \in Ids \ torn /\ Live(e)
      BY <1>0, <1>1, <1>3, TablesKept
    <2>2. e \notin ids[w] /\ cur[w] # e
      <3>1. CASE pc[w] = "idle"
        BY <1>0, <3>1 DEF Holds, Discounting, Applying, Ids, NoRow
      <3>2. CASE Fail(w)
        <4>1. e \notin Left(w) /\ pc[w] \in Steps
          BY <1>0, <1>3, <3>2 DEF Fail, Types, LocalType
        <4>2. QED
          BY <1>0, <4>1 DEF Left, Holds, Steps, Discounting, Applying, Ids, NoRow
      <3>3. QED
        BY <3>1, <3>2 DEF End, Process
    <2>3. QED
      BY <1>0, <1>1, <2>1, <2>2, ShownBefore, TablesKept
  <1>4. QED
    BY <1>0, <1>2, <1>3, ShownRest

\* The envelopes that the loop still has to take up are in hand.
LEMMA LeftInHand ==
  ASSUME Types, NEW w \in Workers, NEW S, NextDeleted(w, S), NEW e, e \notin ids'[w]
  PROVE  e \notin S
  BY DEF NextDeleted, Types, LocalType

\* The envelopes of the rows that go are in hand afterwards.
LEMMA DeleteShown ==
  ASSUME NotifyInv, NotifyInv', Lone, ShownInv, ordered, NEW w \in Workers, DeleteParticipants(w)
  PROVE  ShownInv'
  <1> DEFINE S == {part[Op(w).uri][d].id : d \in Actors} \ {NoRow}
  <1>0. /\ Types /\ Holds(w) /\ Worked(w) /\ pc[w] = "delete" /\ UNCHANGED <<env, torn>>
        /\ NextDeleted(w, S) /\ ids[w] = {} /\ cur[w] = NoRow /\ pos[w] < Len(log)
    BY DEF NotifyInv, HandsSound, Worked, DeleteParticipants, Holds, Discounting, Applying, InStatement
  <1>1. pc'[w] \in {"off", "idle", "delete", "envelope", "decrement"}
    BY <1>0, HelpersAlone
  <1>2. PICK q \in Records : q = Op(w).uri
    BY <1>0, OpType
  <1>3. /\ \A d \in Actors : part'[q][d] = NoPart
        /\ \A x \in Records \ {q} : part'[x] = part[x]
    BY <1>0, <1>2 DEF DeleteParticipants, Types, TableType
  <1>4. ASSUME NEW e \in Ids \ torn', Live(e)', e \notin ids'[w] PROVE Shows(e)'
    <2>1. e \notin S /\ e # NoRow
      <3>1. e # NoRow
        BY DEF Ids, NoRow
      <3>2. QED
        BY <1>0, <1>4, <3>1, LeftInHand
    <2>2. \A d \in Actors : part[q][d].id # e
      BY <1>2, <2>1
    <2>3. NoPart.id # e
      BY <2>1 DEF NoPart
    <2>4. \A r \in Records, d \in Actors : part'[r][d].id = e <=> part[r][d].id = e
      BY <1>3, <2>2, <2>3
    <2>5. Participants(e)' = Participants(e)
      BY <2>4 DEF Participants
    <2>6. \A p \in Participants(e) : part'[p[1]][p[2]] = part[p[1]][p[2]]
      BY <1>3, <2>2 DEF Participants
    <2>7. Live(e) /\ Shows(e)
      BY <1>0, <1>4, <2>1, ShownBefore DEF Live
    <2>8. QED
      BY <1>0, <2>5, <2>6, <2>7, ShowsFrame
  <1>5. QED
    BY <1>0, <1>1, <1>4, ShownRest

\* The envelope that is discounted stays in hand.
LEMMA DecrementShown ==
  ASSUME NotifyInv, NotifyInv', Lone, ShownInv, ordered, NEW w \in Workers, Decrement(w)
  PROVE  ShownInv'
  <1>0. PICK x \in Ids : x = cur[w]
    BY DEF NotifyInv, HandsSound, Holds, Decrement, Discounting
  <1>1. /\ Types /\ Worked(w) /\ pc[w] = "decrement" /\ UNCHANGED <<part, torn, cur>>
        /\ env' = (IF Live(x) THEN [env EXCEPT ![x].count = @ - 1] ELSE env)
        /\ pc' = [pc EXCEPT ![w] = "sweep"] /\ ids' = [ids EXCEPT ![w] = @ \ {x}]
    BY <1>0 DEF NotifyInv, Worked, Decrement, hist
  <1>2. pc'[w] = "sweep" /\ ids'[w] = ids[w] \ {x}
    BY <1>1 DEF Types, LocalType
  <1>3. \A e \in Ids : /\ env'[e].live = env[e].live /\ env'[e].latest = env[e].latest
                       /\ env'[e].sort = env[e].sort
    BY <1>1 DEF Types, TableType, Envelopes
  <1>4. ASSUME NEW e \in Ids \ torn', Live(e)'
        PROVE  (e \notin ids'[w] /\ cur'[w] # e => Shows(e)') /\ InHand(w, e)'
    <2>1. InHand(w, e)'
      BY <1>2 DEF InHand
    <2>2. ASSUME e \notin ids'[w], cur'[w] # e PROVE Shows(e)'
      <3>1. Live(e) /\ e \notin ids[w] /\ cur[w] # e
        BY <1>0, <1>1, <1>2, <1>3, <1>4, <2>2 DEF Live
      <3>2. Shows(e)
        BY <1>1, <3>1, ShownBefore
      <3>3. Participants(e)' = Participants(e)
        BY <1>1 DEF Participants
      <3>4. QED
        BY <1>1, <1>3, <3>2, <3>3, ShowsFrame
    <2>3. QED
      BY <2>1, <2>2
  <1>5. QED
    BY <1>1, <1>4, ShownByHand

\* Deleting the envelope in hand takes what others show out of no other.
LEMMA CascadeShown ==
  ASSUME NotifyInv, NEW x \in Ids, env' = [env EXCEPT ![x] = Dead], part' = Cascade(x),
         nextId' = nextId, NEW e \in Ids, Live(e)'
  PROVE  e # x /\ Live(e) /\ (Shows(e) => Shows(e)')
  <1>1. ~Live(x)' /\ \A i \in Ids \ {x} : env'[i] = env[i] /\ Participants(i)' = Participants(i)
    BY CascadeType DEF NotifyInv
  <1>2. e # x /\ Live(e)
    BY <1>1 DEF Live
  <1>3. \A r \in Records, d \in Actors : part[r][d].id = e => part'[r][d] = part[r][d]
    BY <1>2 DEF Cascade
  <1>4. \A p \in Participants(e) : part'[p[1]][p[2]] = part[p[1]][p[2]]
    BY <1>3 DEF Participants
  <1>5. QED
    BY <1>1, <1>2, <1>4, ShowsFrame

\* What the sweep leaves has participants.
LEMMA SweepShown ==
  ASSUME NotifyInv, NotifyInv', Lone, ShownInv, ordered, NEW w \in Workers, Sweep(w)
  PROVE  ShownInv'
  <1>0. PICK x \in Ids : x = cur[w] /\ x \notin ids[w]
    BY DEF NotifyInv, HandsSound, Holds, Sweep, Discounting
  <1>1. /\ Types /\ Worked(w) /\ pc[w] = "sweep" /\ UNCHANGED <<torn, nextId>>
    BY DEF NotifyInv, Worked, Sweep
  <1>2. CASE env' = [env EXCEPT ![x] = Dead] /\ part' = Cascade(x) /\ NextDeleted(w, ids[w])
    <2>1. pc'[w] \in {"off", "idle", "delete", "envelope", "decrement"}
      BY <1>1, <1>2, HelpersAlone
    <2>2. ASSUME NEW e \in Ids \ torn', Live(e)', e \notin ids'[w] PROVE Shows(e)'
      <3>1. e \notin ids[w]
        BY <1>1, <1>2, <2>2, LeftInHand
      <3>2. e # x /\ Live(e) /\ (Shows(e) => Shows(e)')
        BY <1>1, <1>2, <2>2, CascadeShown
      <3>3. Shows(e)
        BY <1>0, <1>1, <3>1, <3>2, ShownBefore
      <3>4. QED
        BY <3>2, <3>3
    <2>3. QED
      BY <1>1, <2>1, <2>2, ShownRest
  <1>3. CASE /\ ~(Live(x) /\ env[x].count <= 0) /\ pc' = [pc EXCEPT ![w] = "recompute"]
             /\ UNCHANGED <<env, part, ids, cur>>
    <2>1. pc'[w] = "recompute"
      BY <1>1, <1>3 DEF Types, LocalType
    <2>2. ASSUME NEW e \in Ids \ torn', Live(e)'
          PROVE  (e \notin ids'[w] /\ cur'[w] # e => Shows(e)') /\ InHand(w, e)'
      <3>1. Live(e) /\ Participants(e)' = Participants(e) /\ (Shows(e)' <=> Shows(e))
        BY <1>3, <2>2, TablesKept
      <3>2. InHand(w, e)'
        <4>1. CASE e = x
          <5>1. Participants(e) # {}
            BY <1>0, <1>1, <1>3, <3>1, <4>1, LoneCount
          <5>2. QED
            BY <2>1, <3>1, <5>1 DEF InHand
        <4>2. CASE e # x
          BY <1>0, <1>3, <4>2 DEF InHand
        <4>3. QED
          BY <4>1, <4>2
      <3>3. e \notin ids'[w] /\ cur'[w] # e => Shows(e)'
        BY <1>1, <1>3, <3>1, ShownBefore
      <3>4. QED
        BY <3>2, <3>3
    <2>3. QED
      BY <1>1, <2>2, ShownByHand
  <1>4. QED
    BY <1>0, <1>2, <1>3 DEF Sweep

\* An envelope that is left with participants is set to the newest.
LEMMA RecomputeShown ==
  ASSUME NotifyInv, NotifyInv', Lone, ShownInv, ordered, NEW w \in Workers, Recompute(w)
  PROVE  ShownInv'
  <1>0. PICK x \in Ids : x = cur[w] /\ x \notin ids[w]
    BY DEF NotifyInv, HandsSound, Holds, Recompute, Discounting
  <1>1. /\ Types /\ Worked(w) /\ pc[w] = "recompute" /\ UNCHANGED <<torn, part>>
        /\ NextDeleted(w, ids[w])
    BY DEF NotifyInv, Worked, Recompute
  <1>2. pc'[w] \in {"off", "idle", "delete", "envelope", "decrement"}
    BY <1>1, HelpersAlone
  <1>3. /\ \A e \in Ids : env'[e].live = env[e].live
        /\ \A e \in Ids \ {x} : env'[e] = env[e]
        /\ Live(x) /\ Newest(x) # {} =>
              \E p \in Newest(x) : env'[x].latest = p[1] /\ env'[x].sort = part[p[1]][p[2]].sort
    <2>1. CASE Live(x) /\ Newest(x) # {}
      <3>1. PICK p \in Newest(x) : env' = [env EXCEPT ![x].latest = p[1], ![x].sort = part[p[1]][p[2]].sort]
        BY <1>0, <2>1 DEF Recompute
      <3>2. QED
        BY <1>1, <3>1 DEF Types, TableType, Envelopes
    <2>2. CASE ~(Live(x) /\ Newest(x) # {})
      <3>1. env' = env
        BY <1>0, <2>2 DEF Recompute
      <3>2. QED
        BY <2>2, <3>1
    <2>3. QED
      BY <2>1, <2>2
  <1>4. ASSUME NEW e \in Ids \ torn', Live(e)', e \notin ids'[w] PROVE Shows(e)'
    <2>1. e \notin ids[w] /\ Live(e) /\ e \in Ids \ torn
      BY <1>1, <1>3, <1>4, LeftInHand DEF Live
    <2>2. Participants(e)' = Participants(e)
      BY <1>1 DEF Participants
    <2>3. (cur[w] # e => Shows(e)) /\ InHand(w, e)
      BY <1>1, <2>1, ShownBefore
    <2>4. CASE e # x
      BY <1>0, <1>1, <1>3, <2>2, <2>3, <2>4, ShowsFrame
    <2>5. CASE e = x
      <3>1. Newest(e) # {}
        BY <1>0, <1>1, <2>3, <2>5, NewestExists DEF InHand
      <3>2. PICK p \in Newest(e) : env'[e].latest = p[1] /\ env'[e].sort = part[p[1]][p[2]].sort
        BY <1>3, <2>1, <2>5, <3>1
      <3>3. QED
        BY <1>1, <2>2, <3>2 DEF Newest, Shows
    <2>6. QED
      BY <2>4, <2>5
  <1>5. QED
    BY <1>1, <1>2, <1>4, ShownRest

\* The envelope found shows its participants; the one inserted has none.
LEMMA EnvelopeShown ==
  ASSUME NotifyInv, NotifyInv', Lone, ShownInv, ordered, NEW w \in Workers, Envelope(w)
  PROVE  ShownInv'
  <1> DEFINE d == Head(todo[w])
             k == Op(w).key
  <1>0. /\ Types /\ Holds(w) /\ Worked(w) /\ pc[w] = "envelope" /\ ids[w] = {} /\ cur[w] = NoRow
        /\ UNCHANGED <<log, part, pos, at, ids, torn>> /\ pc' = [pc EXCEPT ![w] = "participant"]
    BY DEF NotifyInv, HandsSound, Holds, Worked, Envelope, hist, Discounting, Applying
  <1>1. pc'[w] = "participant" /\ \A e \in Ids : e # NoRow
    BY <1>0 DEF Types, LocalType, Ids, NoRow
  <1>2. \A e : Participants(e)' = Participants(e)
    BY <1>0 DEF Participants
  <1>3. CASE \E e \in Group(d, k) : cur' = [cur EXCEPT ![w] = e] /\ UNCHANGED <<env, nextId>>
    <2>1. ASSUME NEW e \in Ids \ torn', Live(e)' PROVE Shows(e)'
      BY <1>0, <1>1, <1>3, <2>1, TablesKept, ShownBefore
    <2>2. \A e \in Ids \ torn' : Live(e)' => InHand(w, e)'
      BY <1>1, <2>1 DEF InHand
    <2>3. QED
      BY <1>0, <2>1, <2>2, ShownByHand
  <1>4. CASE /\ nextId \in Ids /\ cur' = [cur EXCEPT ![w] = nextId]
             /\ env' = [env EXCEPT ![nextId] = [live |-> TRUE, to |-> d, key |-> k,
                                      sort |-> at[w], count |-> 0, latest |-> Op(w).uri]]
    <2>0. PICK x \in Ids : x = nextId
      BY <1>4
    <2>1. /\ \A e \in Ids \ {x} : env'[e] = env[e]
          /\ env'[x].sort = at[w] /\ env'[x].latest = Op(w).uri /\ cur'[w] = x
      BY <1>0, <1>4, <2>0 DEF Types, TableType, LocalType
    <2>2. Participants(x) = {}
      <3>1. \A r \in Records, c \in Actors : part[r][c].id # x
        BY <1>1, <2>0 DEF NotifyInv, RowsSound, NoPart, Ids
      <3>2. QED
        BY <3>1 DEF Participants
    <2>3. ASSUME NEW e \in Ids \ torn', Live(e)'
          PROVE  (e \notin ids'[w] /\ cur'[w] # e => Shows(e)') /\ InHand(w, e)'
      <3>1. CASE e = x
        <4>1. Op(w)' = Op(w)
          BY <1>0 DEF Op
        <4>2. Fresh(w, x)'
          BY <1>0, <1>2, <2>1, <2>2, <4>1 DEF Fresh
        <4>3. QED
          BY <1>1, <2>1, <3>1, <4>2 DEF InHand
      <3>2. CASE e # x
        <4>1. Live(e) /\ env'[e] = env[e]
          BY <2>1, <2>3, <3>2 DEF Live
        <4>2. Shows(e)
          BY <1>0, <1>1, <4>1, ShownBefore
        <4>3. Shows(e)'
          BY <1>0, <1>2, <4>1, <4>2, ShowsFrame
        <4>4. QED
          BY <2>1, <3>2, <4>3 DEF InHand
      <3>3. QED
        BY <3>1, <3>2
    <2>4. QED
      BY <1>0, <2>3, ShownByHand
  <1>5. QED
    BY <1>3, <1>4 DEF Envelope

\* The envelope of a conflict shows its participants or is torn; the row that goes in
\* is the one that Bump has still to show.
LEMMA ParticipantShown ==
  ASSUME NotifyInv, NotifyInv', Lone, ShownInv, ordered, NEW w \in Workers, Participant(w)
  PROVE  ShownInv'
  <1>0. /\ pc[w] = "participant" /\ pc[w] \in Applying /\ UNCHANGED <<log, env>> /\ Worked(w)
    BY DEF Participant, Applying, Worked
  <1>1. /\ Types /\ ids[w] = {} /\ cur[w] \in Ids /\ Head(todo[w]) \in Actors /\ Op(w).uri \in Records
        /\ torn \subseteq torn' /\ pc[w] # "off"
    BY <1>0, ApplyingHolds, WorkedAlone
  <1>2. PICK x \in Ids, d \in Actors, q \in Records :
           x = cur[w] /\ d = Head(todo[w]) /\ q = Op(w).uri
    BY <1>1
  <1>3. \A e \in Ids \ torn : Live(e) => (e # x => Shows(e)) /\ (e = x => Shows(e) \/ Fresh(w, e))
    BY <1>0, <1>1, <1>2, ShownBefore DEF InHand
  <1>4. CASE /\ pc' = [pc EXCEPT ![w] = "undo"]
             /\ UNCHANGED <<part, pos, todo, at, ids, cur, torn>>
    <2>1. pc'[w] = "undo"
      BY <1>1, <1>4 DEF Types, LocalType
    <2>2. ASSUME NEW e \in Ids \ torn', Live(e)'
          PROVE  (e \notin ids'[w] /\ cur'[w] # e => Shows(e)') /\ InHand(w, e)'
      <3>1. Live(e) /\ Participants(e)' = Participants(e) /\ (Shows(e)' <=> Shows(e))
        BY <1>0, <1>4, <2>2, TablesKept
      <3>2. Fresh(w, e) => Fresh(w, e)'
        BY <1>0, <1>4, <3>1 DEF Fresh, Op
      <3>3. QED
        BY <1>2, <1>3, <1>4, <2>1, <3>1, <3>2 DEF InHand
    <2>3. QED
      BY <1>0, <2>2, ShownByHand
  <1>5. CASE /\ NextNotification(w) /\ UNCHANGED part
             /\ torn' = IF Participants(cur[w]) = {} THEN torn \cup {cur[w]} ELSE torn
    <2>1. pc'[w] \in {"off", "idle", "delete", "envelope", "decrement"}
      BY <1>1, <1>5, HelpersAlone
    <2>2. ASSUME NEW e \in Ids \ torn', Live(e)', e \notin ids'[w] PROVE Shows(e)'
      <3>1. Live(e) /\ (Shows(e)' <=> Shows(e))
        BY <1>0, <1>5, <2>2, TablesKept
      <3>2. e = x => Participants(e) # {}
        BY <1>2, <1>5
      <3>3. QED
        BY <1>1, <1>3, <3>1, <3>2 DEF Fresh
    <2>3. QED
      BY <1>0, <2>1, <2>2, ShownRest
  <1>6. CASE ~Live(x) /\ Finish(w) /\ UNCHANGED part
    <2>1. pc'[w] \in {"off", "idle", "delete", "envelope", "decrement"}
      BY <1>1, <1>6, HelpersAlone
    <2>2. ASSUME NEW e \in Ids \ torn', Live(e)', e \notin ids'[w] PROVE Shows(e)'
      BY <1>0, <1>1, <1>3, <1>6, <2>2, TablesKept
    <2>3. QED
      BY <1>0, <2>1, <2>2, ShownRest
  <1>7. CASE /\ part[q][d] = NoPart
             /\ part' = [part EXCEPT ![q][d] = [id |-> x, sort |-> at[w]]]
             /\ pc' = [pc EXCEPT ![w] = "bump"] /\ UNCHANGED <<pos, todo, at, ids, cur, torn>>
    <2>1. pc'[w] = "bump" /\ Op(w)' = Op(w)
      BY <1>0, <1>1, <1>7 DEF Types, LocalType, Op
    <2>2. /\ part'[q][d] = [id |-> x, sort |-> at[w]] /\ part'[q][d].id = x /\ part'[q][d].sort = at[w]
          /\ \A r \in Records, c \in Actors : ~(r = q /\ c = d) => part'[r][c] = part[r][c]
      BY <1>1, <1>7 DEF Types, TableType
    <2>3. \A e \in Ids : part[q][d].id # e
      BY <1>7 DEF NoPart, NoRow, Ids
    <2>4. \A p \in Records \X Actors : p = <<q, d>> <=> p[1] = q /\ p[2] = d
      OBVIOUS
    <2>5. \A e \in Ids : /\ <<q, d>> \notin Participants(e)
                         /\ \A p \in Participants(e) : part'[p[1]][p[2]] = part[p[1]][p[2]]
      BY <2>2, <2>3, <2>4 DEF Participants
    <2>6. ASSUME NEW e \in Ids \ torn', Live(e)'
          PROVE  (e \notin ids'[w] /\ cur'[w] # e => Shows(e)') /\ InHand(w, e)'
      <3>0. Live(e) /\ e \in Ids \ torn
        BY <1>0, <1>7, <2>6 DEF Live
      <3>1. CASE e # x
        <4>1. Participants(e)' = Participants(e)
          <5>1. \A p \in Records \X Actors : part'[p[1]][p[2]].id = e <=> part[p[1]][p[2]].id = e
            BY <2>2, <2>3, <3>1
          <5>2. QED
            BY <5>1 DEF Participants
        <4>2. Shows(e)'
          BY <1>0, <1>3, <2>5, <3>0, <3>1, <4>1, ShowsFrame
        <4>3. QED
          BY <1>2, <1>7, <3>1, <4>2 DEF InHand
      <3>2. CASE e = x
        <4>1. Participants(e)' = Participants(e) \cup {<<q, d>>}
          <5>1. \A p \in Records \X Actors :
                   part'[p[1]][p[2]].id = e <=> part[p[1]][p[2]].id = e \/ p = <<q, d>>
            BY <2>2, <2>4, <3>2
          <5>2. QED
            BY <5>1 DEF Participants
        <4>2. \E p \in Participants(e)' :
                 /\ env[e].latest = p[1] /\ env[e].sort = part'[p[1]][p[2]].sort
                 /\ \A y \in Participants(e)' : y = <<q, d>> \/ part'[y[1]][y[2]].sort <= env[e].sort
          <5>1. CASE Shows(e)
            <6>1. PICK p \in Participants(e) :
                     /\ env[e].latest = p[1] /\ env[e].sort = part[p[1]][p[2]].sort
                     /\ \A y \in Participants(e) : part[y[1]][y[2]].sort <= env[e].sort
              BY <5>1 DEF Shows
            <6>2. QED
              BY <2>5, <4>1, <6>1
          <5>2. CASE Fresh(w, e)
            <6>1. Participants(e)' = {<<q, d>>} /\ env[e].latest = q /\ env[e].sort = at[w]
              BY <1>2, <4>1, <5>2 DEF Fresh
            <6>2. <<q, d>>[1] = q /\ <<q, d>>[2] = d
              OBVIOUS
            <6>3. QED
              BY <2>2, <6>1, <6>2
          <5>3. QED
            BY <1>3, <3>0, <3>2, <5>1, <5>2
        <4>3. Added(w, e)'
          BY <1>0, <1>2, <1>7, <2>1, <2>2, <4>1, <4>2 DEF Added
        <4>4. QED
          BY <1>2, <1>7, <2>1, <3>2, <4>3 DEF InHand
      <3>3. QED
        BY <3>1, <3>2
    <2>7. QED
      BY <1>0, <2>6, ShownByHand
  <1>8. QED
    BY <1>2, <1>4, <1>5, <1>6, <1>7 DEF Participant

\* An envelope that has no participant goes.
LEMMA UndoShown ==
  ASSUME NotifyInv, NotifyInv', Lone, ShownInv, ordered, NEW w \in Workers, Undo(w)
  PROVE  ShownInv'
  <1>0. /\ pc[w] = "undo" /\ pc[w] \in Applying /\ UNCHANGED <<log, nextId, torn>> /\ Worked(w)
        /\ NextNotification(w)
    BY DEF Undo, Applying, Worked
  <1>1. Types /\ ids[w] = {} /\ cur[w] \in Ids
    BY <1>0, ApplyingHolds
  <1>2. PICK x \in Ids : x = cur[w]
    BY <1>1
  <1>3. \A e \in Ids \ torn : Live(e) => (e # x => Shows(e)) /\ (e = x => Shows(e) \/ Fresh(w, e))
    BY <1>0, <1>1, <1>2, ShownBefore DEF InHand
  <1>4. pc'[w] \in {"off", "idle", "delete", "envelope", "decrement"}
    BY <1>0, <1>1, HelpersAlone
  <1>5. ASSUME NEW e \in Ids \ torn', Live(e)', e \notin ids'[w] PROVE Shows(e)'
    <2>1. CASE env' = [env EXCEPT ![x] = Dead] /\ part' = Cascade(x)
      BY <1>0, <1>3, <1>5, <2>1, CascadeShown
    <2>2. CASE env[x].count # 0 /\ UNCHANGED <<env, part>>
      <3>1. Live(e) /\ (Shows(e)' <=> Shows(e)) /\ e \in Ids \ torn
        BY <1>0, <1>5, <2>2, TablesKept
      <3>2. CASE e = x
        <4>1. env[e].count = Cardinality(Participants(e))
          BY <1>0, <1>1, <3>1, LoneCount
        <4>2. Participants(e) # {}
          BY <2>2, <3>2, <4>1, FS_EmptySet
        <4>3. QED
          BY <1>3, <3>1, <3>2, <4>2 DEF Fresh
      <3>3. QED
        BY <1>3, <3>1, <3>2
    <2>3. QED
      BY <1>2, <2>1, <2>2 DEF Undo
  <1>6. QED
    BY <1>0, <1>4, <1>5, ShownRest

\* Bump shows the row that went in when it is the newest.
LEMMA BumpShown ==
  ASSUME NotifyInv, NotifyInv', Lone, ShownInv, ordered, NEW w \in Workers, Bump(w)
  PROVE  ShownInv'
  <1>0. /\ pc[w] = "bump" /\ pc[w] \in Applying /\ UNCHANGED <<log, part, torn>> /\ Worked(w)
        /\ NextNotification(w)
    BY DEF Bump, Applying, Worked
  <1>1. /\ Types /\ ids[w] = {} /\ cur[w] \in Ids /\ at[w] \in Nat
        /\ Head(todo[w]) \in Actors /\ Op(w).uri \in Records
    BY <1>0, ApplyingHolds
  <1>2. PICK x \in Ids, d \in Actors, q \in Records :
           x = cur[w] /\ d = Head(todo[w]) /\ q = Op(w).uri
    BY <1>1
  <1>3. \A e \in Ids \ torn : Live(e) => (e # x => Shows(e)) /\ (e = x => Added(w, e))
    BY <1>0, <1>1, <1>2, ShownBefore DEF InHand
  <1>4. pc'[w] \in {"off", "idle", "delete", "envelope", "decrement"}
    BY <1>0, <1>1, HelpersAlone
  <1>5. env[x].sort \in Nat /\ env[x] \in Envelopes
    BY <1>1 DEF Types, TableType, Envelopes
  <1>6. /\ \A e \in Ids : env'[e].live = env[e].live
        /\ \A e \in Ids \ {x} : env'[e] = env[e]
        /\ Live(x) => /\ env'[x].sort = (IF at[w] > env[x].sort THEN at[w] ELSE env[x].sort)
                      /\ env'[x].latest = (IF at[w] >= env[x].sort THEN q ELSE env[x].latest)
    <2>1. CASE ~Live(x)
      <3>1. env' = env
        BY <1>2, <2>1 DEF Bump
      <3>2. QED
        BY <2>1, <3>1
    <2>2. CASE Live(x)
      BY <1>1, <1>2, <1>5, <2>2 DEF Bump, Types, TableType, Envelopes
    <2>3. QED
      BY <2>1, <2>2
  <1>7. ASSUME NEW e \in Ids \ torn', Live(e)', e \notin ids'[w] PROVE Shows(e)'
    <2>1. Live(e) /\ e \in Ids \ torn
      BY <1>0, <1>6, <1>7 DEF Live
    <2>2. Participants(e)' = Participants(e)
      BY <1>0 DEF Participants
    <2>3. CASE e # x
      BY <1>0, <1>3, <1>6, <2>1, <2>2, <2>3, ShowsFrame
    <2>4. CASE e = x
      <3>1. PICK p \in Participants(e) :
               /\ env[e].latest = p[1] /\ env[e].sort = part[p[1]][p[2]].sort
               /\ \A y \in Participants(e) : y = <<q, d>> \/ part[y[1]][y[2]].sort <= env[e].sort
        BY <1>2, <1>3, <2>1, <2>4 DEF Added
      <3>2. <<q, d>> \in Participants(e) /\ part[q][d].sort = at[w]
        BY <1>2, <1>3, <2>1, <2>4 DEF Added
      <3>3. <<q, d>>[1] = q /\ <<q, d>>[2] = d
        OBVIOUS
      <3>4. \A y \in Participants(e) : part[y[1]][y[2]].sort \in Nat
        BY <1>1 DEF Participants, Types, TableType, Rows
      <3>5. CASE at[w] >= env[e].sort
        <4>1. env'[e].sort = at[w] /\ env'[e].latest = q
          BY <1>1, <1>5, <1>6, <2>1, <2>4, <3>5
        <4>2. \A y \in Participants(e) : part[y[1]][y[2]].sort <= at[w]
          BY <1>1, <1>5, <2>4, <3>1, <3>2, <3>3, <3>4, <3>5
        <4>3. QED
          BY <1>0, <2>2, <3>2, <3>3, <4>1, <4>2 DEF Shows
      <3>6. CASE ~(at[w] >= env[e].sort)
        <4>1. env'[e].sort = env[e].sort /\ env'[e].latest = env[e].latest /\ at[w] <= env[e].sort
          BY <1>1, <1>5, <1>6, <2>1, <2>4, <3>6
        <4>2. \A y \in Participants(e) : part[y[1]][y[2]].sort <= env[e].sort
          BY <3>1, <3>2, <3>3, <4>1
        <4>3. QED
          BY <1>0, <2>2, <3>1, <4>1, <4>2 DEF Shows
      <3>7. QED
        BY <3>5, <3>6
    <2>5. QED
      BY <2>3, <2>4
  <1>8. QED
    BY <1>0, <1>4, <1>7, ShownRest

\* Every step keeps ShownInv.
LEMMA ShownNext == NotifyInv /\ NotifyInv' /\ Lone /\ ShownInv /\ [Next]_vars => ShownInv'
  <1> SUFFICES ASSUME NotifyInv, NotifyInv', Lone, ShownInv, [Next]_vars, ordered' PROVE ShownInv'
    BY DEF ShownInv
  <1>1. ASSUME NEW w \in Workers, NEW p \in 0 .. done, Start(w, p) PROVE ShownInv'
    <2>1. ordered /\ UNCHANGED <<env, part, ids, cur, torn>> /\ \A v \in Workers : pc[v] = "off"
      BY <1>1 DEF Start, tables
    <2>2. \A v \in Workers : ids[v] = {} /\ cur[v] = NoRow
      BY <2>1 DEF NotifyInv, HandsSound, Holds, Discounting, Applying
    <2>3. ASSUME NEW e \in Ids \ torn', Live(e)' PROVE Shows(e)' /\ \A v \in Workers : InHand(v, e)'
      <3>1. Untouched(e)
        BY <2>2 DEF Untouched, Ids, NoRow
      <3>2. Shows(e)'
        BY <2>1, <2>3, <3>1, TablesKept DEF ShownInv
      <3>3. QED
        BY <2>1, <3>1, <3>2 DEF InHand, Untouched
    <2>4. QED
      BY <2>3 DEF ShownInv
  <1>2. ASSUME NEW w \in Workers, Worked(w) PROVE ShownInv'
    <2>1. ordered
      BY <1>2, WorkedAlone DEF NotifyInv
    <2>2. QED
      BY <1>2, <2>1, QuietShown, DeleteShown, DecrementShown, SweepShown, RecomputeShown, EnvelopeShown,
         ParticipantShown, UndoShown, BumpShown DEF Worked
  <1>3. CASE Crash
    <2>1. /\ ordered /\ UNCHANGED <<env, part>> /\ torn \subseteq torn'
          /\ \A v \in Workers : pc'[v] = "off" /\ Left(v) \subseteq torn'
      BY <1>3 DEF Crash, tables
    <2>2. ASSUME NEW e \in Ids \ torn', Live(e)' PROVE Shows(e)' /\ \A v \in Workers : InHand(v, e)'
      <3>1. Untouched(e)
        <4>1. ASSUME NEW v \in Workers PROVE e \notin ids[v] /\ cur[v] # e
          <5>1. e \notin Left(v) /\ Holds(v) /\ pc[v] \in Steps
            BY <2>1 DEF NotifyInv, HandsSound, Types, LocalType
          <5>2. QED
            BY <5>1 DEF Left, Holds, Steps, Discounting, Applying, Ids, NoRow
        <4>2. QED
          BY <4>1 DEF Untouched
      <3>2. Shows(e)'
        BY <2>1, <2>2, <3>1, TablesKept DEF ShownInv
      <3>3. QED
        BY <2>1, <3>2 DEF InHand
    <2>3. QED
      BY <2>2 DEF ShownInv
  <1>4. CASE UNCHANGED vars
    <2>1. ordered /\ UNCHANGED <<env, part, torn, log>> /\ UNCHANGED <<pc, pos, todo, at, ids, cur>>
      BY <1>4 DEF vars, tables, local, hist
    <2>2. ASSUME NEW e \in Ids \ torn', Live(e)'
          PROVE  (Untouched(e)' => Shows(e)') /\ \A w \in Workers : InHand(w, e)'
      <3>1. Participants(e)' = Participants(e) /\ (Shows(e)' <=> Shows(e)) /\ Live(e)
        BY <2>1, <2>2, TablesKept
      <3>2. (Untouched(e) => Shows(e)) /\ \A w \in Workers : InHand(w, e)
        BY <2>1, <3>1 DEF ShownInv
      <3>3. \A w \in Workers : (Fresh(w, e) => Fresh(w, e)') /\ (Added(w, e) => Added(w, e)')
        BY <2>1, <3>1 DEF Fresh, Added, Op
      <3>4. QED
        BY <2>1, <3>1, <3>2, <3>3 DEF Untouched, InHand
    <2>3. QED
      BY <2>2 DEF ShownInv
  <1>5. QED
    BY <1>1, <1>2, <1>3, <1>4 DEF Next, Worked

\* Between the operations of a lone worker every envelope that none of them left half done
\* counts its participants and shows the newest, whichever of them were inserted, deleted or
\* redelivered, and in whatever order of sort_at.
THEOREM EnvelopesRight == Spec => []EnvelopesSettled
  <1>1. Init => Lone /\ ShownInv
    BY DEF Init, Lone, ShownInv, Live, Dead
  <1>2. NotifyInv /\ ShownInv => EnvelopesSettled
    <2> SUFFICES ASSUME NotifyInv, ShownInv, ordered, NEW e \in Ids \ torn, Live(e), Untouched(e)
                 PROVE  /\ env[e].count = Cardinality(Participants(e))
                        /\ \E p \in Newest(e) : /\ env[e].latest = p[1]
                                                /\ env[e].sort = part[p[1]][p[2]].sort
      BY DEF EnvelopesSettled
    <2>1. Shows(e) /\ Accounts(e) /\ env[e].count \in Int
      BY CountsAre DEF ShownInv, NotifyInv, Types, TableType, Envelopes
    <2>2. Uncounted(e) = {} /\ Undiscounted(e) = {}
      BY DEF Untouched, Uncounted, Undiscounted
    <2>a. drift[e] = 0
      BY DEF NotifyInv, DriftSound
    <2>3. env[e].count = Cardinality(Participants(e))
      BY <2>1, <2>2, <2>a, SetsFinite, FS_EmptySet DEF Accounts
    <2>4. QED
      BY <2>1, <2>3, ShowsNewest
  <1>3. QED
    BY <1>1, <1>2, InitInv, StepInv, LoneStep, ShownNext, PTL DEF Spec

-----------------------------------------------------------------------------
\* The recipients that have a row for record r, and those that operation i names.
Notified(r) == {d \in Actors : part[r][d] # NoPart}
NamedBy(i) == IF log[i].op = "delete" THEN {} ELSE Range(Extract(log[i]))

\* Operation i, the last one on record r: its recipients stand once it is processed, and
\* a create finds no others.
Stands(r, i) ==
    /\ i <= last => Notified(r) = NamedBy(i)
    /\ (/\ last < i /\ log[i].op = "create"
        /\ \A j \in DOMAIN log : last < j /\ j < i => log[j].uri # r)
       => Notified(r) \subseteq NamedBy(i)

\* The operation that worker w has in hand.
Underway(w) ==
    LET r == Op(w).uri IN
    /\ pc[w] = "idle" => pos[w] <= last
    /\ InStatement(w) => pos[w] = last
    /\ pc[w] \in Discounting => Notified(r) = {}
    /\ pc[w] \in {"envelope"} \cup Applying =>
          /\ Range(todo[w]) \subseteq NamedBy(pos[w] + 1)
          /\ pos[w] + 1 \in LastOp(r) =>
                /\ Notified(r) \subseteq NamedBy(pos[w] + 1)
                /\ NamedBy(pos[w] + 1) \subseteq Notified(r) \cup Range(todo[w])
    /\ pc[w] \in {"undo", "bump"} => Head(todo[w]) \in Notified(r)

TablesStand ==
    \A r \in Records : /\ \A i \in LastOp(r) : Stands(r, i)
                       /\ (\A i \in DOMAIN log : log[i].uri # r) => Notified(r) = {}

Sound == torn = {} /\ ~dropped /\ ordered

ReplayInv == Sound => TablesStand /\ \A w \in Workers : Underway(w)

\* What the log names does not change.
LEMMA LogKept ==
  ASSUME log' = log
  PROVE  /\ \A r : LastOp(r)' = LastOp(r)
         /\ \A i : NamedBy(i)' = NamedBy(i)
  BY DEF LastOp, NamedBy

\* The operation in hand, as rigid values.
Hand(w, q, i) ==
    /\ i = pos[w] + 1 /\ i \in DOMAIN log /\ i \in Nat /\ q \in Records /\ q = log[i].uri
    /\ q = Op(w).uri /\ pos[w] \in Nat /\ last \in Nat /\ log \in Logs /\ DOMAIN log \subseteq Nat

\* A worker that is not at the end of the log has an operation.
LEMMA HandIs ==
  ASSUME Types, NEW w \in Workers, pos[w] < Len(log)
  PROVE  \E q, i : Hand(w, q, i)
  <1>1. log \in Seq(Range(log)) /\ pos[w] \in Nat /\ log \in Logs /\ last \in Nat
    BY NotificationsAssumption DEF Types, TableType, LocalType, HistoryType
  <1>2. pos[w] + 1 \in DOMAIN log /\ DOMAIN log \subseteq Nat /\ pos[w] + 1 \in Nat
    BY <1>1
  <1>3. Op(w).uri \in Records
    BY OpType
  <1>4. QED
    BY <1>1, <1>2, <1>3 DEF Hand, Op

\* The operation is processed: its recipients stand if it is the last one on its record,
\* and if a create follows it was a delete.
LEMMA StandsFinish ==
  ASSUME NEW w \in Workers, NEW q, NEW i0, Hand(w, q, i0), pos[w] <= last, log' = log, TablesStand,
         \A r \in Records \ {q} : Notified(r)' = Notified(r),
         last' = i0, i0 \in LastOp(q) => Notified(q)' = NamedBy(i0),
         log[i0].op = "delete" => Notified(q)' = {}
  PROVE  TablesStand'
  <1>1. ASSUME NEW r \in Records, NEW i \in LastOp(r), r # q PROVE Stands(r, i)'
    <2>1. Stands(r, i) /\ i \in DOMAIN log /\ log[i].uri = r /\ i \in Nat /\ i # i0
      <3>1. Stands(r, i)
        BY DEF TablesStand
      <3>2. i \in DOMAIN log /\ log[i].uri = r
        BY DEF LastOp
      <3>3. QED
        BY <1>1, <3>1, <3>2 DEF Hand
    <2>2. Notified(r)' = Notified(r) /\ NamedBy(i)' = NamedBy(i)
      BY <1>1, LogKept
    <2>3. i <= last' => i <= last
      BY <2>1 DEF Hand
    <2>4. ASSUME last' < i, log[i].op = "create", \A j \in DOMAIN log : last' < j /\ j < i => log[j].uri # r
          PROVE  Notified(r) \subseteq NamedBy(i)
      <3>1. CASE i <= last
        BY <2>1, <3>1 DEF Stands
      <3>2. CASE last < i
        <4>1. ASSUME NEW j \in DOMAIN log, last < j, j < i PROVE log[j].uri # r
          <5>1. j = i0 \/ last' < j
            BY <4>1 DEF Hand
          <5>2. QED
            BY <1>1, <2>4, <4>1, <5>1 DEF Hand
        <4>2. QED
          BY <2>1, <2>4, <3>2, <4>1 DEF Stands
      <3>3. QED
        BY <2>1, <3>1, <3>2 DEF Hand
    <2>5. QED
      BY <2>1, <2>2, <2>3, <2>4 DEF Stands
  <1>2. ASSUME NEW i \in LastOp(q) PROVE Stands(q, i)'
    <2>1. i \in DOMAIN log /\ log[i].uri = q /\ i \in Nat /\ i0 <= i
      BY DEF LastOp, Hand
    <2>2. NamedBy(i)' = NamedBy(i)
      BY LogKept
    <2>3. CASE i = i0
      BY <2>1, <2>2, <2>3 DEF Stands, Hand
    <2>4. CASE i # i0
      <3>1. i0 < i /\ ~(i <= last')
        BY <2>1, <2>4 DEF Hand
      <3>2. ASSUME log[i].op = "create", \A j \in DOMAIN log : last' < j /\ j < i => log[j].uri # q
            PROVE  Notified(q)' = {}
        <4>1. \A k \in i0 + 1 .. i - 1 : log[k].uri # q
          <5> SUFFICES ASSUME NEW k \in i0 + 1 .. i - 1 PROVE log[k].uri # q
            OBVIOUS
          <5>1. k \in DOMAIN log /\ i0 < k /\ k < i
            <6>1. DOMAIN log = 1 .. Len(log) /\ Len(log) \in Nat
              BY NotificationsAssumption DEF Hand
            <6>2. QED
              BY <2>1, <6>1 DEF Hand
          <5>2. QED
            BY <3>2, <5>1
        <4>2. log[i0].op = "delete"
          BY <2>1, <3>1, <3>2, <4>1, CreatesAssumption DEF Hand
        <4>3. QED
          BY <4>2
      <3>3. QED
        BY <2>2, <3>1, <3>2 DEF Stands
    <2>5. QED
      BY <2>3, <2>4
  <1>3. ASSUME NEW r \in Records, \A i \in DOMAIN log : log[i].uri # r PROVE Notified(r)' = {}
    <2>1. r # q
      BY <1>3 DEF Hand
    <2>2. Notified(r) = {}
      BY <1>3 DEF TablesStand
    <2>3. QED
      BY <2>1, <2>2
  <1>4. QED
    BY <1>1, <1>2, <1>3, LogKept DEF TablesStand

\* The operation is begun or goes on.
LEMMA StandsHold ==
  ASSUME NEW w \in Workers, NEW q, NEW i0, Hand(w, q, i0), pos[w] <= last, log' = log, TablesStand,
         \A r \in Records \ {q} : Notified(r)' = Notified(r),
         last' = pos[w], i0 \in LastOp(q) /\ log[i0].op = "create" => Notified(q)' \subseteq NamedBy(i0)
  PROVE  TablesStand'
  <1>1. ASSUME NEW r \in Records, NEW i \in LastOp(r), r # q PROVE Stands(r, i)'
    <2>1. Stands(r, i) /\ i \in DOMAIN log /\ log[i].uri = r /\ i \in Nat
      <3>1. Stands(r, i)
        BY DEF TablesStand
      <3>2. i \in DOMAIN log /\ log[i].uri = r
        BY DEF LastOp
      <3>3. QED
        BY <3>1, <3>2 DEF Hand
    <2>2. Notified(r)' = Notified(r) /\ NamedBy(i)' = NamedBy(i)
      BY <1>1, LogKept
    <2>3. i <= last' => i <= last
      BY <2>1 DEF Hand
    <2>4. ASSUME log[i].op = "create", \A j \in DOMAIN log : last' < j /\ j < i => log[j].uri # r
          PROVE  Notified(r) \subseteq NamedBy(i)
      <3>1. CASE i <= last
        BY <2>1, <3>1 DEF Stands
      <3>2. CASE last < i
        <4>1. \A j \in DOMAIN log : last < j /\ j < i => log[j].uri # r
          BY <2>4 DEF Hand
        <4>2. QED
          BY <2>1, <2>4, <3>2, <4>1 DEF Stands
      <3>3. QED
        BY <2>1, <3>1, <3>2 DEF Hand
    <2>5. QED
      BY <2>1, <2>2, <2>3, <2>4 DEF Stands
  <1>2. ASSUME NEW i \in LastOp(q) PROVE Stands(q, i)'
    <2>1. i \in DOMAIN log /\ log[i].uri = q /\ i \in Nat /\ i0 <= i
      BY DEF LastOp, Hand
    <2>2. NamedBy(i)' = NamedBy(i) /\ ~(i <= last') /\ last' < i0
      BY <2>1, LogKept DEF Hand
    <2>3. ASSUME \A j \in DOMAIN log : last' < j /\ j < i => log[j].uri # q PROVE i = i0
      <3>1. i0 \in DOMAIN log /\ log[i0].uri = q /\ i0 \in Nat
        BY DEF Hand
      <3>2. ~(i0 < i)
        BY <2>2, <2>3, <3>1
      <3>3. QED
        BY <2>1, <3>1, <3>2
    <2>4. QED
      BY <2>1, <2>2, <2>3 DEF Stands
  <1>3. ASSUME NEW r \in Records, \A i \in DOMAIN log : log[i].uri # r PROVE Notified(r)' = {}
    <2>1. r # q
      BY <1>3 DEF Hand
    <2>2. Notified(r) = {}
      BY <1>3 DEF TablesStand
    <2>3. QED
      BY <2>1, <2>2
  <1>4. QED
    BY <1>1, <1>2, <1>3, LogKept DEF TablesStand

\* What Underway says of the next state, over rigid values.
LEMMA StillUnderway ==
  ASSUME NEW w \in Workers, NEW q, NEW i0, Hand(w, q, i0), log' = log, pos'[w] = pos[w], last' = pos[w],
         pc'[w] \in Discounting => Notified(q)' = {},
         pc'[w] \in {"envelope"} \cup Applying =>
            /\ Range(todo'[w]) \subseteq NamedBy(i0)
            /\ i0 \in LastOp(q) => /\ Notified(q)' \subseteq NamedBy(i0)
                                   /\ NamedBy(i0) \subseteq Notified(q)' \cup Range(todo'[w]),
         pc'[w] \in {"undo", "bump"} => Head(todo'[w]) \in Notified(q)'
  PROVE  Underway(w)'
  <1>1. Op(w)'.uri = q /\ pos'[w] + 1 = i0 /\ pos[w] <= pos[w]
    BY DEF Hand, Op
  <1>2. LastOp(q)' = LastOp(q) /\ NamedBy(i0)' = NamedBy(i0)
    BY LogKept
  <1>3. PICK r, i : r = Op(w)'.uri /\ i = pos'[w] + 1
    OBVIOUS
  <1>4. QED
    BY <1>1, <1>2, <1>3 DEF Underway

\* A worker that is off has nothing underway.
LEMMA OffUnderway ==
  ASSUME NEW v \in Workers, pc'[v] = "off"
  PROVE  Underway(v)'
  BY DEF Underway, InStatement, Discounting, Applying

\* The recipients of a list: the first and those of the rest.
LEMMA RangeTail ==
  ASSUME NEW S, NEW q \in Seq(S), q # <<>>
  PROVE  /\ Head(q) \in Range(q)
         /\ Len(q) = 1 => Range(q) = {Head(q)}
         /\ Len(q) > 1 => Range(q) = {Head(q)} \cup Range(Tail(q))
  <1>1. PICK n \in Nat : n = Len(q) /\ n # 0 /\ DOMAIN q = 1 .. n
    OBVIOUS
  <1>2. Head(q) = q[1] /\ 1 \in DOMAIN q
    BY <1>1
  <1>3. Head(q) \in Range(q)
    BY <1>2 DEF Range
  <1>4. ASSUME n = 1 PROVE Range(q) = {Head(q)}
    BY <1>1, <1>2, <1>4 DEF Range
  <1>5. ASSUME n > 1 PROVE Range(q) = {Head(q)} \cup Range(Tail(q))
    <2>1. DOMAIN Tail(q) = 1 .. n - 1 /\ \A k \in 1 .. n - 1 : Tail(q)[k] = q[k + 1]
      BY <1>1
    <2>2. Range(Tail(q)) \subseteq Range(q)
      <3>1. \A k \in 1 .. n - 1 : k + 1 \in DOMAIN q
        BY <1>1
      <3>2. QED
        BY <2>1, <3>1 DEF Range
    <2>3. ASSUME NEW k \in DOMAIN q PROVE q[k] = Head(q) \/ q[k] \in Range(Tail(q))
      <3>1. CASE k = 1
        BY <1>2, <3>1
      <3>2. CASE k # 1
        <4>1. k - 1 \in 1 .. n - 1 /\ (k - 1) + 1 = k
          BY <1>1, <3>2
        <4>2. Tail(q)[k - 1] = q[k] /\ k - 1 \in DOMAIN Tail(q)
          BY <2>1, <4>1
        <4>3. QED
          BY <4>2 DEF Range
      <3>3. QED
        BY <3>1, <3>2
    <2>4. Range(q) \subseteq {Head(q)} \cup Range(Tail(q))
      BY <2>3 DEF Range
    <2>5. QED
      BY <1>3, <2>2, <2>4
  <1>6. QED
    BY <1>1, <1>3, <1>4, <1>5

\* The operation in hand ends.
LEMMA FinishReplays ==
  ASSUME Types, NEW w \in Workers, NEW q, NEW i0, Hand(w, q, i0), pos[w] <= last, log' = log, TablesStand,
         \A r \in Records \ {q} : Notified(r)' = Notified(r), Finish(w),
         i0 \in LastOp(q) => Notified(q)' = NamedBy(i0),
         log[i0].op = "delete" => Notified(q)' = {}
  PROVE  TablesStand' /\ Underway(w)'
  <1>1. last' = i0 /\ pc'[w] = "idle" /\ pos'[w] = i0 /\ i0 \in Nat
    BY DEF Finish, Hand, Types, LocalType
  <1>2. TablesStand'
    BY <1>1, StandsFinish
  <1>3. Underway(w)'
    BY <1>1 DEF Underway, InStatement, Discounting, Applying
  <1>4. QED
    BY <1>2, <1>3

\* A record is extracted, and its recipients are still to be notified.
LEMMA ApplyReplays ==
  ASSUME Types, NEW w \in Workers, NEW q, NEW i0, Hand(w, q, i0), pos[w] <= last, log' = log, TablesStand,
         \A r \in Records \ {q} : Notified(r)' = Notified(r), ExtractAndApply(w),
         log[i0].op # "delete", i0 \in LastOp(q) => Notified(q)' \subseteq NamedBy(i0)
  PROVE  TablesStand' /\ Underway(w)'
  <1>1. NamedBy(i0) = Range(Extract(Op(w)))
    BY DEF NamedBy, Hand, Op
  <1>2. CASE Extract(Op(w)) = <<>> /\ Finish(w)
    <2>1. NamedBy(i0) = {}
      BY <1>1, <1>2 DEF Range
    <2>2. QED
      BY <1>2, <2>1, FinishReplays
  <1>3. CASE /\ pc' = [pc EXCEPT ![w] = "envelope"] /\ todo' = [todo EXCEPT ![w] = Extract(Op(w))]
             /\ last' = pos[w] /\ UNCHANGED pos
    <2>1. pc'[w] = "envelope" /\ todo'[w] = Extract(Op(w)) /\ pos'[w] = pos[w]
      BY <1>3 DEF Types, LocalType
    <2>2. TablesStand'
      BY <1>3, StandsHold
    <2>3. Range(todo'[w]) = NamedBy(i0)
      BY <1>1, <2>1
    <2>4. Underway(w)'
      BY <1>3, <2>1, <2>3, StillUnderway DEF Discounting
    <2>5. QED
      BY <2>2, <2>4
  <1>4. QED
    BY <1>2, <1>3 DEF ExtractAndApply

\* The rows of the record are gone, and the loop over their envelopes goes on.
LEMMA DeletedReplays ==
  ASSUME Types, NEW w \in Workers, NEW q, NEW i0, Hand(w, q, i0), pos[w] = last, log' = log, TablesStand,
         \A r \in Records \ {q} : Notified(r)' = Notified(r), NEW S, NextDeleted(w, S),
         Notified(q)' = {}
  PROVE  TablesStand' /\ Underway(w)'
  <1>0. log[i0] = Op(w) /\ pos[w] <= last
    BY DEF Hand, Op
  <1>1. CASE /\ pc' = [pc EXCEPT ![w] = "decrement"] /\ UNCHANGED <<pos, todo, last>>
    <2>1. pc'[w] = "decrement" /\ pos'[w] = pos[w] /\ last' = pos[w]
      BY <1>1 DEF Types, LocalType
    <2>2. TablesStand'
      BY <1>0, <2>1, StandsHold
    <2>3. Underway(w)'
      BY <2>1, StillUnderway DEF Applying
    <2>4. QED
      BY <2>2, <2>3
  <1>2. CASE Op(w).op = "delete" /\ Finish(w)
    <2>1. NamedBy(i0) = {}
      BY <1>0, <1>2 DEF NamedBy
    <2>2. QED
      BY <1>0, <1>2, <2>1, FinishReplays
  <1>3. CASE Op(w).op = "update" /\ ExtractAndApply(w)
    BY <1>0, <1>3, ApplyReplays
  <1>4. QED
    BY <1>1, <1>2, <1>3 DEF NextDeleted

\* The recipient in hand is notified, and the loop over the others goes on.
LEMMA NotifiedReplays ==
  ASSUME Types, NEW w \in Workers, NEW q, NEW i0, Hand(w, q, i0), pos[w] = last, log' = log, TablesStand,
         \A r \in Records \ {q} : Notified(r)' = Notified(r), NextNotification(w), todo[w] # <<>>,
         Range(todo[w]) \subseteq NamedBy(i0), Head(todo[w]) \in Notified(q)',
         i0 \in LastOp(q) => /\ Notified(q)' \subseteq NamedBy(i0)
                             /\ NamedBy(i0) \subseteq Notified(q)' \cup Range(todo[w])
  PROVE  TablesStand' /\ Underway(w)'
  <1>0. todo[w] \in Seq(Actors) /\ pos[w] <= last
    BY DEF Types, LocalType, Hand
  <1>1. log[i0].op # "delete"
    <2>1. NamedBy(i0) # {}
      BY <1>0, RangeTail
    <2>2. QED
      BY <2>1 DEF NamedBy
  <1>2. CASE Len(todo[w]) = 1 /\ Finish(w)
    <2>1. Range(todo[w]) \subseteq Notified(q)'
      BY <1>0, <1>2, RangeTail
    <2>2. i0 \in LastOp(q) => Notified(q)' = NamedBy(i0)
      BY <2>1
    <2>3. QED
      BY <1>0, <1>1, <1>2, <2>2, FinishReplays
  <1>3. CASE /\ Len(todo[w]) > 1 /\ pc' = [pc EXCEPT ![w] = "envelope"]
             /\ todo' = [todo EXCEPT ![w] = Tail(@)] /\ UNCHANGED <<pos, last>>
    <2>1. pc'[w] = "envelope" /\ todo'[w] = Tail(todo[w]) /\ pos'[w] = pos[w] /\ last' = pos[w]
      BY <1>3 DEF Types, LocalType
    <2>2. Range(todo[w]) = {Head(todo[w])} \cup Range(todo'[w])
      BY <1>0, <1>3, <2>1, RangeTail
    <2>3. TablesStand'
      BY <1>0, <2>1, StandsHold
    <2>4. Underway(w)'
      BY <2>1, <2>2, StillUnderway DEF Discounting
    <2>5. QED
      BY <2>3, <2>4
  <1>4. QED
    BY <1>2, <1>3 DEF NextNotification

\* After a step of w only what w has underway is to be looked at.
LEMMA ReplayStep ==
  ASSUME NotifyInv, Lone, ordered, NEW w \in Workers, Worked(w), TablesStand', Underway(w)'
  PROVE  ReplayInv'
  <1>1. Alone(w) /\ pc[w] # "off"
    BY WorkedAlone DEF NotifyInv
  <1>2. \A v \in Workers \ {w} : pc'[v] = "off"
    BY <1>1, OthersOff DEF Alone
  <1>3. \A v \in Workers : Underway(v)'
    BY <1>2, OffUnderway
  <1>4. QED
    BY <1>3 DEF ReplayInv

\* What a worker in a statement finds.
LEMMA UnderwayFacts ==
  ASSUME NotifyInv, NEW w \in Workers, InStatement(w), Underway(w)
  PROVE  \E q, i0 :
            /\ Hand(w, q, i0) /\ pos[w] = last
            /\ pc[w] \in Discounting => Notified(q) = {}
            /\ pc[w] \in {"envelope"} \cup Applying =>
                  /\ todo[w] # <<>> /\ Range(todo[w]) \subseteq NamedBy(i0)
                  /\ i0 \in LastOp(q) => /\ Notified(q) \subseteq NamedBy(i0)
                                         /\ NamedBy(i0) \subseteq Notified(q) \cup Range(todo[w])
            /\ pc[w] \in {"undo", "bump"} => Head(todo[w]) \in Notified(q)
  <1>1. Types /\ Holds(w) /\ pos[w] < Len(log)
    BY DEF NotifyInv, HandsSound, Holds
  <1>2. PICK q, i0 : Hand(w, q, i0)
    BY <1>1, HandIs
  <1>3. q = Op(w).uri /\ i0 = pos[w] + 1
    BY <1>2 DEF Hand
  <1>4. pc[w] \in {"envelope"} \cup Applying => todo[w] # <<>>
    BY <1>1 DEF Holds
  <1>5. QED
    BY <1>2, <1>3, <1>4 DEF Underway

\* A step that writes no participant.
LEMMA RowsKept ==
  ASSUME part' = part
  PROVE  \A r : Notified(r)' = Notified(r)
  BY DEF Notified

\* Steps of a worker that has nothing in hand.
LEMMA ProcessReplays ==
  ASSUME NotifyInv, Lone, ReplayInv, Sound, NEW w \in Workers, Process(w)
  PROVE  ReplayInv'
  <1>0. /\ Types /\ pc[w] = "idle" /\ pos[w] < Len(log) /\ UNCHANGED <<log, part>> /\ Worked(w)
        /\ TablesStand /\ Underway(w) /\ ordered
    BY DEF NotifyInv, Process, tables, Worked, ReplayInv, Sound
  <1>1. pos[w] <= last
    BY <1>0 DEF Underway
  <1>2. PICK q, i0 : Hand(w, q, i0)
    BY <1>0, HandIs
  <1>3. \A r : Notified(r)' = Notified(r)
    BY <1>0, RowsKept
  <1>4. log[i0] = Op(w)
    BY <1>2 DEF Hand, Op
  <1>5. i0 \in LastOp(q) /\ log[i0].op = "create" => Notified(q) \subseteq NamedBy(i0)
    <2> SUFFICES ASSUME i0 \in LastOp(q), log[i0].op = "create" PROVE Notified(q) \subseteq NamedBy(i0)
      OBVIOUS
    <2>1. Stands(q, i0)
      BY <1>0, <1>2 DEF TablesStand, Hand
    <2>2. CASE i0 <= last
      BY <2>1, <2>2 DEF Stands
    <2>3. CASE ~(i0 <= last)
      <3>1. last < i0 /\ \A j \in DOMAIN log : ~(last < j /\ j < i0)
        BY <1>1, <1>2, <2>3 DEF Hand
      <3>2. QED
        BY <2>1, <3>1 DEF Stands
    <2>4. QED
      BY <2>2, <2>3
  <1>6. CASE Op(w).op = "create" /\ ExtractAndApply(w)
    <2>1. TablesStand' /\ Underway(w)'
      BY <1>0, <1>1, <1>2, <1>3, <1>4, <1>5, <1>6, ApplyReplays
    <2>2. QED
      BY <1>0, <2>1, ReplayStep
  <1>7. CASE pc' = [pc EXCEPT ![w] = "delete"] /\ last' = pos[w] /\ UNCHANGED pos
    <2>1. pc'[w] = "delete" /\ pos'[w] = pos[w]
      BY <1>0, <1>7 DEF Types, LocalType
    <2>2. TablesStand'
      BY <1>0, <1>1, <1>2, <1>3, <1>5, <1>7, StandsHold
    <2>3. Underway(w)'
      BY <1>0, <1>2, <1>7, <2>1, StillUnderway DEF Discounting, Applying
    <2>4. QED
      BY <1>0, <2>2, <2>3, ReplayStep
  <1>8. QED
    BY <1>6, <1>7 DEF Process

\* The rows of the record go.
LEMMA DeleteReplays ==
  ASSUME NotifyInv, Lone, ReplayInv, Sound, NEW w \in Workers, DeleteParticipants(w)
  PROVE  ReplayInv'
  <1>0. /\ Types /\ pc[w] = "delete" /\ InStatement(w) /\ log' = log /\ Worked(w)
        /\ TablesStand /\ Underway(w) /\ ordered
    BY DEF NotifyInv, DeleteParticipants, Worked, ReplayInv, Sound, InStatement
  <1>1. PICK q, i0 : Hand(w, q, i0) /\ pos[w] = last
    BY <1>0, UnderwayFacts
  <1>2. q \in Records /\ part' = [part EXCEPT ![q] = [d \in Actors |-> NoPart]]
    BY <1>1 DEF DeleteParticipants, Hand
  <1>3. /\ \A r \in Records \ {q} : part'[r] = part[r]
        /\ \A d \in Actors : part'[q][d] = NoPart
    BY <1>0, <1>2 DEF Types, TableType
  <1>4. Notified(q)' = {} /\ \A r \in Records \ {q} : Notified(r)' = Notified(r)
    BY <1>3 DEF Notified
  <1>5. PICK S : NextDeleted(w, S)
    BY DEF DeleteParticipants
  <1>6. TablesStand' /\ Underway(w)'
    BY <1>0, <1>1, <1>4, <1>5, DeletedReplays
  <1>7. QED
    BY <1>0, <1>6, ReplayStep

\* An envelope that is deleted without a fault has no rows.
LEMMA DiscountReplays ==
  ASSUME NotifyInv, Lone, ReplayInv, Sound, NEW w \in Workers,
         Decrement(w) \/ Sweep(w) \/ Recompute(w)
  PROVE  ReplayInv'
  <1>0. /\ Types /\ pc[w] \in Discounting /\ InStatement(w) /\ log' = log /\ Worked(w)
        /\ TablesStand /\ Underway(w) /\ ordered /\ torn = {}
    BY DEF NotifyInv, Decrement, Sweep, Recompute, Worked, ReplayInv, Sound, InStatement, Discounting
  <1>1. PICK q, i0 : Hand(w, q, i0) /\ pos[w] = last /\ Notified(q) = {}
    BY <1>0, UnderwayFacts
  <1>2. part' = part
    <2>1. CASE Decrement(w) \/ Recompute(w)
      BY <2>1 DEF Decrement, Recompute
    <2>2. CASE Sweep(w)
      <3>1. cur[w] \in Ids /\ cur[w] \notin ids[w] /\ pc[w] = "sweep"
        BY <2>2 DEF Sweep, NotifyInv, HandsSound, Holds, Discounting
      <3>2. CASE Live(cur[w]) /\ env[cur[w]].count <= 0 /\ part' = Cascade(cur[w])
        <4>1. Participants(cur[w]) = {}
          BY <1>0, <3>1, <3>2, LoneCount
        <4>2. QED
          BY <1>0, <3>2, <4>1, NothingCascades
      <3>3. QED
        BY <2>2, <3>2 DEF Sweep
    <2>3. QED
      BY <2>1, <2>2
  <1>3. \A r : Notified(r)' = Notified(r)
    BY <1>2, RowsKept
  <1>4. CASE NextDeleted(w, ids[w])
    <2>1. TablesStand' /\ Underway(w)'
      BY <1>0, <1>1, <1>3, <1>4, DeletedReplays
    <2>2. QED
      BY <1>0, <2>1, ReplayStep
  <1>5. CASE pc'[w] \in Discounting /\ UNCHANGED <<pos, last>>
    <2>0. pos[w] <= last
      BY <1>1 DEF Hand
    <2>1. TablesStand'
      BY <1>0, <1>1, <1>3, <1>5, <2>0, StandsHold
    <2>2. Underway(w)'
      BY <1>0, <1>1, <1>3, <1>5, StillUnderway DEF Discounting, Applying
    <2>3. QED
      BY <1>0, <2>1, <2>2, ReplayStep
  <1>6. QED
    <2>1. CASE Decrement(w)
      BY <1>0, <1>5, <2>1 DEF Decrement, hist, Types, LocalType, Discounting
    <2>2. CASE Sweep(w)
      BY <1>0, <1>4, <1>5, <2>2 DEF Sweep, Types, LocalType, Discounting
    <2>3. CASE Recompute(w)
      BY <1>4, <2>3 DEF Recompute
    <2>4. QED
      BY <2>1, <2>2, <2>3

\* The recipients of an operation are notified one by one.
LEMMA ApplyingReplays ==
  ASSUME NotifyInv, Lone, ReplayInv, Sound, Sound', NEW w \in Workers,
         Envelope(w) \/ Participant(w) \/ Undo(w) \/ Bump(w)
  PROVE  ReplayInv'
  <1>0. /\ Types /\ pc[w] \in {"envelope"} \cup Applying /\ InStatement(w) /\ log' = log /\ Worked(w)
        /\ TablesStand /\ Underway(w) /\ ordered /\ torn = {} /\ torn' = {} /\ ~dropped'
    BY DEF NotifyInv, Envelope, Participant, Undo, Bump, Worked, ReplayInv, Sound, InStatement, Applying
  <1>1. PICK q, i0 :
           /\ Hand(w, q, i0) /\ pos[w] = last /\ todo[w] # <<>> /\ Range(todo[w]) \subseteq NamedBy(i0)
           /\ i0 \in LastOp(q) => /\ Notified(q) \subseteq NamedBy(i0)
                                  /\ NamedBy(i0) \subseteq Notified(q) \cup Range(todo[w])
           /\ pc[w] \in {"undo", "bump"} => Head(todo[w]) \in Notified(q)
    BY <1>0, UnderwayFacts
  <1>2. pos[w] <= last /\ q \in Records /\ q = Op(w).uri
    BY <1>1 DEF Hand
  <1>3. todo[w] \in Seq(Actors) /\ Head(todo[w]) \in Actors /\ Head(todo[w]) \in Range(todo[w])
    BY <1>0, <1>1, RangeTail DEF Types, LocalType
  <1>4. PICK d \in Actors : d = Head(todo[w])
    BY <1>3
  <1>5. CASE part' = part /\ NextNotification(w) /\ d \in Notified(q)
    <2>1. \A r : Notified(r)' = Notified(r)
      BY <1>5, RowsKept
    <2>2. TablesStand' /\ Underway(w)'
      BY <1>0, <1>1, <1>2, <1>4, <1>5, <2>1, NotifiedReplays
    <2>3. QED
      BY <1>0, <2>2, ReplayStep
  <1>6. CASE part' = part /\ pc'[w] \in Applying /\ UNCHANGED <<pos, todo, last>>
             /\ (pc'[w] \in {"undo", "bump"} => d \in Notified(q))
    <2>1. \A r : Notified(r)' = Notified(r)
      BY <1>6, RowsKept
    <2>2. TablesStand'
      BY <1>0, <1>1, <1>2, <1>6, <2>1, StandsHold
    <2>3. Underway(w)'
      BY <1>0, <1>1, <1>4, <1>6, <2>1, StillUnderway DEF Discounting, Applying
    <2>4. QED
      BY <1>0, <2>2, <2>3, ReplayStep
  <1>7. CASE Envelope(w)
    <2>1. part' = part /\ pc'[w] = "participant" /\ UNCHANGED <<pos, todo, last>>
      BY <1>0, <1>7 DEF Envelope, hist, Types, LocalType
    <2>2. QED
      BY <1>6, <2>1 DEF Applying
  <1>8. CASE Participant(w)
    <2>1. part[q][d] # NoPart => d \in Notified(q)
      BY DEF Notified
    <2>2. CASE part[q][d] # NoPart /\ pc' = [pc EXCEPT ![w] = "undo"] /\ UNCHANGED <<part, pos, todo, last>>
      <3>1. pc'[w] = "undo"
        BY <1>0, <2>2 DEF Types, LocalType
      <3>2. QED
        BY <1>6, <2>1, <2>2, <3>1 DEF Applying
    <2>3. CASE part[q][d] # NoPart /\ NextNotification(w) /\ UNCHANGED part
      BY <1>5, <2>1, <2>3
    <2>4. CASE /\ part' = [part EXCEPT ![q][d] = [id |-> cur[w], sort |-> at[w]]] /\ Live(cur[w])
               /\ pc' = [pc EXCEPT ![w] = "bump"] /\ UNCHANGED <<pos, todo, last>>
      <3>1. pc'[w] = "bump" /\ cur[w] \in Ids
        BY <1>0, <1>8, <2>4 DEF Types, LocalType, Participant, NotifyInv, HandsSound, Holds, Applying
      <3>2. [id |-> cur[w], sort |-> at[w]] # NoPart
        BY <3>1 DEF NoPart, Ids, NoRow
      <3>3. /\ \A r \in Records \ {q} : part'[r] = part[r]
            /\ \A c \in Actors \ {d} : part'[q][c] = part[q][c]
            /\ part'[q][d] # NoPart
        BY <1>0, <1>2, <2>4, <3>2 DEF Types, TableType
      <3>4. Notified(q)' = Notified(q) \cup {d} /\ \A r \in Records \ {q} : Notified(r)' = Notified(r)
        BY <3>3 DEF Notified
      <3>5. TablesStand'
        BY <1>0, <1>1, <1>2, <1>3, <1>4, <2>4, <3>4, StandsHold
      <3>6. Underway(w)'
        BY <1>0, <1>1, <1>3, <1>4, <2>4, <3>1, <3>4, StillUnderway DEF Discounting
      <3>7. QED
        BY <1>0, <3>5, <3>6, ReplayStep
    <2>5. QED
      BY <1>0, <1>2, <1>4, <1>8, <2>2, <2>3, <2>4 DEF Participant
  <1>9. CASE Undo(w)
    <2>1. pc[w] = "undo" /\ pc[w] \in Applying
      BY <1>9 DEF Undo, Applying
    <2>2. ids[w] = {} /\ cur[w] \in Ids /\ RowsSound
      BY <2>1, ApplyingHolds
    <2>3. part' = part
      <3>1. CASE env[cur[w]].count = 0 /\ part' = Cascade(cur[w])
        <4>1. Participants(cur[w]) = {}
          <5>1. CASE Live(cur[w])
            BY <1>0, <2>1, <2>2, <3>1, <5>1, LoneCount
          <5>2. CASE ~Live(cur[w])
            <6>1. \A r \in Records, c \in Actors : part[r][c].id # cur[w]
              BY <2>2, <5>2 DEF RowsSound, NoPart, NoRow, Ids
            <6>2. QED
              BY <6>1 DEF Participants
          <5>3. QED
            BY <5>1, <5>2
        <4>2. QED
          BY <1>0, <3>1, <4>1, NothingCascades
      <3>2. QED
        BY <1>9, <3>1 DEF Undo
    <2>4. QED
      BY <1>1, <1>4, <1>5, <1>9, <2>1, <2>3 DEF Undo
  <1>10. CASE Bump(w)
    BY <1>1, <1>4, <1>5, <1>10 DEF Bump
  <1>11. QED
    BY <1>7, <1>8, <1>9, <1>10

\* Every step keeps ReplayInv.
LEMMA ReplayNext == NotifyInv /\ Lone /\ ReplayInv /\ [Next]_vars => ReplayInv'
  <1> SUFFICES ASSUME NotifyInv, Lone, ReplayInv, [Next]_vars, Sound' PROVE ReplayInv'
    BY DEF ReplayInv
  <1>1. ASSUME UNCHANGED <<log, part, last>>, TablesStand PROVE TablesStand'
    BY <1>1, LogKept, RowsKept DEF TablesStand, Stands
  <1>2. ASSUME NEW w \in Workers, NEW p \in 0 .. done, Start(w, p) PROVE ReplayInv'
    <2>1. /\ Sound /\ UNCHANGED <<log, part, last>> /\ p <= last /\ \A v \in Workers : pc[v] = "off"
          /\ pc'[w] = "idle" /\ pos'[w] = p /\ \A v \in Workers \ {w} : pc'[v] = "off"
      BY <1>2 DEF Start, tables, Sound, NotifyInv, Types, LocalType
    <2>2. Underway(w)'
      BY <2>1 DEF Underway, InStatement, Discounting, Applying
    <2>3. \A v \in Workers : Underway(v)'
      BY <2>1, <2>2, OffUnderway
    <2>4. QED
      BY <1>1, <2>1, <2>3 DEF ReplayInv
  <1>3. ASSUME NEW w \in Workers, Worked(w) PROVE ReplayInv'
    <2>1. Sound
      BY <1>3, WorkedAlone DEF Sound, NotifyInv
    <2>2. CASE End(w)
      <3>1. UNCHANGED <<log, part, last>> /\ pc'[w] = "off" /\ TablesStand
        BY <2>1, <2>2 DEF End, tables, hist, NotifyInv, Types, LocalType, ReplayInv
      <3>2. QED
        BY <1>1, <1>3, <2>1, <3>1, OffUnderway, ReplayStep DEF Sound
    <2>3. CASE Fail(w)
      <3>1. dropped' \/ (pc[w] = "undo" /\ torn' = torn \cup Left(w))
        BY <2>3 DEF Fail
      <3>2. pc[w] = "undo" => cur[w] \in Left(w)
        BY DEF Left
      <3>3. QED
        BY <3>1, <3>2 DEF Sound
    <2>4. QED
      BY <1>3, <2>1, <2>2, <2>3, ProcessReplays, DeleteReplays, DiscountReplays, ApplyingReplays DEF Worked
  <1>4. CASE Crash
    <2>1. Sound /\ UNCHANGED <<log, part, last>> /\ \A v \in Workers : pc'[v] = "off"
      BY <1>4 DEF Crash, tables, Sound
    <2>2. QED
      BY <1>1, <2>1, OffUnderway DEF ReplayInv
  <1>5. CASE UNCHANGED vars
    <2>1. Sound /\ UNCHANGED <<log, part, last>> /\ UNCHANGED <<pc, pos, todo>>
      BY <1>5 DEF vars, tables, local, hist, Sound
    <2>2. \A w \in Workers : Underway(w) => Underway(w)'
      BY <2>1, LogKept, RowsKept DEF Underway, InStatement, Op
    <2>3. QED
      BY <1>1, <2>1, <2>2 DEF ReplayInv
  <1>6. QED
    BY <1>2, <1>3, <1>4, <1>5 DEF Next, Worked

\* A record with operations has a last one.
LEMMA LastExists ==
  ASSUME Types, NEW r, NEW k \in DOMAIN log, log[k].uri = r
  PROVE  LastOp(r) # {}
  <1> DEFINE T == {n \in Nat : \A i \in DOMAIN log : log[i].uri = r => i <= n}
  <1>1. DOMAIN log = 1 .. Len(log) /\ Len(log) \in Nat
    BY NotificationsAssumption DEF Types, TableType
  <1>2. Len(log) \in T
    BY <1>1
  <1>3. PICK n \in T : \A m \in T : n <= m
    BY <1>2, LeastNat
  <1>4. ASSUME ~(n \in DOMAIN log /\ log[n].uri = r) PROVE FALSE
    <2>1. k <= n /\ k \in Nat /\ 1 <= k /\ n \in Nat
      BY <1>1, <1>3
    <2>2. n - 1 \in Nat
      BY <2>1
    <2>3. \A i \in DOMAIN log : log[i].uri = r => i <= n - 1
      BY <1>1, <1>3, <1>4
    <2>4. n - 1 \in T
      BY <2>2, <2>3
    <2>5. QED
      BY <1>3, <2>1, <2>4
  <1>5. n \in LastOp(r)
    BY <1>3, <1>4 DEF LastOp
  <1>6. QED
    BY <1>5

\* Redelivery from any earlier position, after any number of restarts, ends in exactly the
\* participants that the current version of each record names.
THEOREM ReplayRight == Spec => []ReplayConverges
  <1>1. Init => Lone /\ ReplayInv
    <2> SUFFICES ASSUME Init PROVE Lone /\ ReplayInv
      OBVIOUS
    <2>1. \A r \in Records : Notified(r) = {}
      BY DEF Init, Notified
    <2>2. \A w \in Workers : Underway(w)
      BY DEF Init, Underway, InStatement, Discounting, Applying
    <2>3. \A r \in Records : \A i \in LastOp(r) : i \in Nat /\ ~(i <= last)
      <3>1. DOMAIN log = 1 .. Len(log) /\ last = 0
        BY NotificationsAssumption DEF Init
      <3>2. QED
        BY <3>1 DEF LastOp
    <2>4. TablesStand
      BY <2>1, <2>3 DEF TablesStand, Stands
    <2>5. Lone
      BY DEF Init, Lone
    <2>6. QED
      BY <2>2, <2>4, <2>5 DEF ReplayInv
  <1>2. NotifyInv /\ ReplayInv => ReplayConverges
    <2> SUFFICES ASSUME NotifyInv, ReplayInv, torn = {}, ~dropped, ordered,
                        NEW w \in Workers, pc[w] = "idle", pos[w] = Len(log), NEW r \in Records
                 PROVE  Notified(r) = Named(r)
      BY DEF ReplayConverges, Notified
    <2>1. TablesStand /\ Underway(w) /\ Types
      BY DEF ReplayInv, Sound, NotifyInv
    <2>2. Len(log) <= last /\ last \in Nat
      BY <2>1 DEF Underway, Types, HistoryType
    <2>3. DOMAIN log = 1 .. Len(log) /\ Len(log) \in Nat
      BY <2>1, NotificationsAssumption DEF Types, TableType
    <2>4. CASE LastOp(r) = {}
      <3>1. \A i \in DOMAIN log : log[i].uri # r
        BY <2>1, <2>4, LastExists
      <3>2. Notified(r) = {}
        BY <2>1, <3>1 DEF TablesStand
      <3>3. QED
        BY <2>4, <3>2 DEF Named
    <2>5. ASSUME NEW i \in LastOp(r) PROVE Notified(r) = Named(r)
      <3>1. i \in DOMAIN log /\ \A j \in LastOp(r) : j = i
        BY <2>3 DEF LastOp
      <3>2. i <= last
        BY <2>2, <2>3, <3>1
      <3>3. Notified(r) = NamedBy(i)
        BY <2>1, <3>2 DEF TablesStand, Stands
      <3>4. Named(r) = NamedBy(i)
        BY <3>1 DEF Named, NamedBy
      <3>5. QED
        BY <3>3, <3>4
    <2>6. QED
      BY <2>4, <2>5
  <1>3. QED
    BY <1>1, <1>2, InitInv, StepInv, LoneStep, ReplayNext, PTL DEF Spec

=============================================================================
