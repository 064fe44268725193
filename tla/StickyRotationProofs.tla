------------------------ MODULE StickyRotationProofs ------------------------
(* Theorems of StickyRotation, for any finite set of accounts, any limit and    *)
(* any sets of accounts that are busy at a pick.                                *)
EXTENDS StickyRotation, Integers, FiniteSetTheorems, TLAPS

Used(a)   == accounts[a].lastUsed
Consec(a) == accounts[a].consec

\* The uses of the other accounts since account a was used last: one pair for each
\* use that a later account's consecutive_use_count counts.
UsesSince(a) == {u \in Accounts \X (1..Keep) : Used(u[1]) > Used(a) /\ u[2] <= Consec(u[1])}

Types == /\ now \in Nat \ {0}
         /\ accounts \in [Accounts -> Row]
         /\ last \in SUBSET Accounts
         /\ kept \in Nat /\ streak \in Nat
         /\ passed \in [Accounts -> Nat]

\* No row is ahead of the clock, and none counts more uses than the limit.
Rows == \A a \in Accounts : Used(a) <= now /\ Consec(a) <= Keep

\* No account was used in a later second than the one picked last, whose row
\* counts the streak.
LastPick == /\ \A a \in last : /\ Used(a) # 0 /\ streak <= Consec(a)
                               /\ \A b \in Accounts : Used(b) <= Used(a)
                               /\ last = {a}
            /\ last = {} => streak = 0

\* Every pick that passes account a over is counted in some other row.
PassesCounted == \A a \in Accounts : passed[a] <= Cardinality(UsesSince(a))

IInv == Types /\ Rows /\ LastPick /\ PassesCounted

-----------------------------------------------------------------------------
(* What a pick does.                                                          *)

LEMMA KeepType == Keep \in Nat \ {0} /\ Keep >= StickyLimit
BY StickyAssumption DEF Keep

\* The row of an account that is picked, field by field.
LEMMA UseRow ==
    ASSUME NEW T \in [Accounts -> Row], NEW a \in Accounts, NEW reuse \in BOOLEAN, NEW t \in Nat
    PROVE  /\ Use(T, a, reuse, t) \in [Accounts -> Row]
           /\ Use(T, a, reuse, t)[a].lastUsed = t
           /\ Use(T, a, reuse, t)[a].consec = IF reuse THEN T[a].consec + 1 ELSE 1
           /\ \A b \in Accounts \ {a} : Use(T, a, reuse, t)[b] = T[b]
<1> DEFINE n == IF reuse THEN T[a].consec + 1 ELSE 1
           r == [T[a] EXCEPT !.consec = n]
           q == [r EXCEPT !.lastUsed = t]
<1>1. T[a] \in Row /\ T[a].consec \in Nat
  BY DEF Row
<1>2. n \in Nat
  BY <1>1
<1> HIDE DEF n
<1>3. r \in Row /\ r.consec = n
  BY <1>1, <1>2 DEF Row
<1> HIDE DEF r
<1>4. q \in Row /\ q.lastUsed = t /\ q.consec = n
  BY <1>3 DEF Row
<1> HIDE DEF q
<1>5. Use(T, a, reuse, t) = [T EXCEPT ![a] = q]
  BY DEF Use, q, r, n
<1> QED BY <1>4, <1>5 DEF n

\* Whom pick_account chooses: the account of the available ones that was used last, again,
\* while its limit lasts, or else one that none of them was used before.
LEMMA ChoosesWhom ==
    ASSUME Types, NEW S \in SUBSET Accounts, NEW rank \in Rankings, NEW a \in S,
           NEW reuse \in BOOLEAN, Chooses(accounts, S, rank, a, reuse)
    PROVE  /\ reuse => /\ Used(a) # 0 /\ Consec(a) < StickyLimit
                       /\ \A b \in S : Used(b) <= Used(a)
           /\ ~reuse => \A b \in S : Used(a) <= Used(b)
<1>1. \A b \in Accounts : Used(b) \in Nat /\ Consec(b) \in Nat
  BY DEF Types, Row, Used, Consec
<1>2. PICK recent \in S : /\ IsRecent(accounts, S, rank, recent)
                          /\ reuse = Reusable(accounts[recent])
                          /\ IF reuse THEN a = recent ELSE IsOldest(accounts, S, rank, a)
  BY DEF Chooses
<1>3. \A b \in S : Used(b) <= Used(recent)
  BY <1>1, <1>2 DEF IsRecent, Used
<1>4. CASE reuse
  BY <1>2, <1>3, <1>4 DEF Reusable, Used, Consec
<1>5. CASE ~reuse
  <2>1. \A b \in S : Used(a) <= Used(b)
    BY <1>1, <1>2, <1>5 DEF IsOldest, Used
  <2> QED BY <1>5, <2>1
<1> QED BY <1>4, <1>5

\* There are finitely many uses to count.
LEMMA PairsFinite == IsFiniteSet(Accounts \X (1..Keep))
<1>1. IsFiniteSet(1..Keep)
  BY KeepType, FS_Interval
<1> QED BY <1>1, AccountsAssumption, FS_Product

\* The sets of uses are finite, and bounded by the limit of every other account.
LEMMA UsesBounded ==
    ASSUME NEW a \in Accounts
    PROVE  /\ IsFiniteSet(UsesSince(a)) /\ Cardinality(UsesSince(a)) \in Nat
           /\ Types => Cardinality(UsesSince(a)) <= (Cardinality(Accounts) - 1) * Keep
<1> DEFINE others == Accounts \ {a}
<1>1. IsFiniteSet(1..Keep) /\ Cardinality(1..Keep) = Keep
  BY KeepType, FS_Interval
<1>2. IsFiniteSet(others) /\ Cardinality(others) = Cardinality(Accounts) - 1
  BY AccountsAssumption, FS_RemoveElement
<1>4. IsFiniteSet(UsesSince(a)) /\ Cardinality(UsesSince(a)) \in Nat
  BY PairsFinite, FS_Subset, FS_CardinalityType DEF UsesSince
<1>5. ASSUME Types PROVE UsesSince(a) \subseteq others \X (1..Keep)
  BY <1>5 DEF UsesSince, Types, Row, Used
<1> HIDE DEF others
<1>6. /\ IsFiniteSet(others \X (1..Keep))
      /\ Cardinality(others \X (1..Keep)) = (Cardinality(Accounts) - 1) * Keep
  BY <1>1, <1>2, FS_Product
<1>7. ASSUME Types PROVE Cardinality(UsesSince(a)) <= (Cardinality(Accounts) - 1) * Keep
  BY <1>5, <1>6, <1>7, FS_Subset
<1> QED BY <1>4, <1>7

-----------------------------------------------------------------------------
(* The steps.                                                                 *)

\* A pick by which account a, one of the available ones, comes out as used in this
\* second.
LEMMA PickUses ==
    ASSUME IInv, NEW busy \in SUBSET Accounts, Pick(busy)
    PROVE  \E a \in Accounts \ busy, reuse \in BOOLEAN :
              /\ now' = now /\ accounts' \in [Accounts -> Row]
              /\ Used(a)' = now /\ Consec(a)' = IF reuse THEN Consec(a) + 1 ELSE 1
              /\ \A b \in Accounts \ {a} : Used(b)' = Used(b) /\ Consec(b)' = Consec(b)
              /\ reuse => /\ Used(a) # 0 /\ Consec(a) < StickyLimit
                          /\ \A b \in Accounts \ busy : Used(b) <= Used(a)
              /\ ~reuse => \A b \in Accounts \ busy : Used(a) <= Used(b)
              /\ Count(Accounts \ busy, a)
<1> DEFINE free == Accounts \ busy
<1>1. PICK rank \in Rankings, a \in free, reuse \in BOOLEAN :
           /\ Chooses(accounts, free, rank, a, reuse)
           /\ accounts' = Use(accounts, a, reuse, now)
           /\ Count(free, a)
           /\ UNCHANGED now
  BY DEF Pick
<1>2. Types /\ now \in Nat /\ accounts \in [Accounts -> Row] /\ a \in Accounts
  BY DEF IInv, Types
<1>3. /\ accounts' \in [Accounts -> Row]
      /\ Used(a)' = now /\ Consec(a)' = IF reuse THEN Consec(a) + 1 ELSE 1
      /\ \A b \in Accounts \ {a} : accounts'[b] = accounts[b]
  BY <1>1, <1>2, UseRow DEF Used, Consec
<1>4. /\ reuse => /\ Used(a) # 0 /\ Consec(a) < StickyLimit
                  /\ \A b \in free : Used(b) <= Used(a)
      /\ ~reuse => \A b \in free : Used(a) <= Used(b)
  BY <1>1, <1>2, ChoosesWhom
<1> QED BY <1>1, <1>3, <1>4 DEF Used, Consec

LEMMA PickOK ==
    ASSUME IInv, NEW busy \in SUBSET Accounts, Pick(busy)
    PROVE  IInv'
<1> DEFINE free == Accounts \ busy
<1>1. PICK a \in free, reuse \in BOOLEAN :
           /\ now' = now /\ accounts' \in [Accounts -> Row]
           /\ Used(a)' = now /\ Consec(a)' = IF reuse THEN Consec(a) + 1 ELSE 1
           /\ \A b \in Accounts \ {a} : Used(b)' = Used(b) /\ Consec(b)' = Consec(b)
           /\ reuse => /\ Used(a) # 0 /\ Consec(a) < StickyLimit
                       /\ \A b \in free : Used(b) <= Used(a)
           /\ ~reuse => \A b \in free : Used(a) <= Used(b)
           /\ Count(free, a)
  BY PickUses
<1>2. /\ now \in Nat \ {0} /\ kept \in Nat /\ streak \in Nat /\ passed \in [Accounts -> Nat]
      /\ \A b \in Accounts : Used(b) \in Nat /\ Consec(b) \in Nat
      /\ a \in Accounts
  BY DEF IInv, Types, Row, Used, Consec
<1>3. /\ last' = {a} /\ kept' \in Nat
      /\ streak' = IF last = {a} /\ \E b \in free \ {a} : Used(b) < Used(a)
                   THEN streak + 1 ELSE 1
      /\ passed' = [b \in Accounts |->
                       IF b \in free \ {a}
                       THEN IF Used(b) < now THEN passed[b] + 1 ELSE passed[b]
                       ELSE 0]
  BY <1>1, <1>2 DEF Count, Used
<1>4. Types'
  BY <1>1, <1>2, <1>3 DEF Types
<1>5. Consec(a)' \in 1..Keep
  BY <1>1, <1>2, KeepType, StickyAssumption
<1> HIDE DEF Used, Consec, free
<1>6. Rows'
  <2>1. \A b \in Accounts : Used(b)' <= now' /\ Consec(b)' <= Keep
    BY <1>1, <1>2, <1>5, KeepType DEF IInv, Rows
  <2> QED BY <2>1 DEF Rows, Used, Consec
<1>7. LastPick'
  <2>1. Used(a)' # 0 /\ \A b \in Accounts : Used(b)' <= Used(a)'
    BY <1>1, <1>2 DEF IInv, Rows
  <2>2. streak' <= Consec(a)'
    <3>1. CASE last = {a} /\ \E b \in free \ {a} : Used(b) < Used(a)
      <4>1. streak <= Consec(a)
        BY <3>1 DEF IInv, LastPick
      <4>2. PICK b \in free : Used(b) < Used(a)
        BY <3>1
      <4>3. reuse
        BY <1>1, <1>2, <4>2 DEF free
      <4> QED BY <1>1, <1>2, <1>3, <3>1, <4>1, <4>3
    <3>2. CASE ~(last = {a} /\ \E b \in free \ {a} : Used(b) < Used(a))
      BY <1>1, <1>3, <1>5, <3>2
    <3> QED BY <3>1, <3>2
  <2> QED BY <1>3, <2>1, <2>2 DEF LastPick
<1>8. PassesCounted'
  <2> SUFFICES ASSUME NEW c \in Accounts PROVE passed'[c] <= Cardinality(UsesSince(c)')
    BY DEF PassesCounted
  <2>1. /\ IsFiniteSet(UsesSince(c)) /\ Cardinality(UsesSince(c)) \in Nat
        /\ IsFiniteSet(UsesSince(c)') /\ Cardinality(UsesSince(c)') \in Nat
    <3>1. UsesSince(c) \subseteq Accounts \X (1..Keep) /\ UsesSince(c)' \subseteq Accounts \X (1..Keep)
      BY DEF UsesSince
    <3> QED BY <3>1, PairsFinite, FS_Subset, FS_CardinalityType
  <2>2. CASE c \notin free \ {a}
    BY <1>3, <2>1, <2>2
  <2>3. CASE c \in free \ {a} /\ ~(Used(c) < now)
    <3>1. UsesSince(c) = {}
      BY <1>2, <2>3 DEF UsesSince, IInv, Rows
    <3>2. Cardinality({}) = 0
      BY FS_EmptySet
    <3>3. passed[c] <= Cardinality(UsesSince(c)) /\ passed'[c] = passed[c]
      BY <1>3, <2>3 DEF IInv, PassesCounted
    <3>4. passed'[c] = 0
      BY <1>2, <3>1, <3>2, <3>3
    <3> QED BY <2>1, <3>4
  <2>4. CASE c \in free \ {a} /\ Used(c) < now
    <3> DEFINE u == <<a, Consec(a)'>>
    <3>1. u \notin UsesSince(c)
      BY <1>1, <1>2, <2>4 DEF UsesSince
    <3>2. UsesSince(c) \cup {u} \subseteq UsesSince(c)'
      <4>1. u \in UsesSince(c)'
        BY <1>1, <1>2, <1>5, <2>4 DEF UsesSince
      <4>2. ASSUME NEW v \in UsesSince(c) PROVE v \in UsesSince(c)'
        BY <1>1, <1>2, <2>4, <4>2 DEF UsesSince
      <4> QED BY <4>1, <4>2
    <3>3. Cardinality(UsesSince(c) \cup {u}) = Cardinality(UsesSince(c)) + 1
      BY <2>1, <3>1, FS_AddElement
    <3>4. Cardinality(UsesSince(c) \cup {u}) <= Cardinality(UsesSince(c)')
      BY <2>1, <3>2, FS_Subset
    <3>5. passed[c] <= Cardinality(UsesSince(c)) /\ passed'[c] = passed[c] + 1
      BY <1>3, <2>4 DEF IInv, PassesCounted
    <3> HIDE DEF u
    <3> QED BY <1>2, <2>1, <3>3, <3>4, <3>5
  <2> QED BY <2>2, <2>4, <2>3
<1> QED BY <1>4, <1>6, <1>7, <1>8 DEF IInv

\* The clock, the first state and a step that changes nothing.
LEMMA TickOK == ASSUME IInv, Tick PROVE IInv'
<1>1. now \in Nat \ {0} /\ now' = now + 1 /\ UNCHANGED <<accounts, last, kept, streak, passed>>
  BY DEF IInv, Types, Tick
<1>2. Types' /\ LastPick' /\ PassesCounted'
  BY <1>1 DEF IInv, Types, LastPick, PassesCounted, UsesSince, Used, Consec
<1>3. Rows'
  <2>1. \A a \in Accounts : Used(a) \in Nat
    BY DEF IInv, Types, Row, Used
  <2> QED BY <1>1, <2>1 DEF IInv, Rows, Used, Consec
<1> QED BY <1>2, <1>3 DEF IInv

LEMMA InitOK == ASSUME Init PROVE IInv
<1>1. NewRow(TRUE) \in Row /\ NewRow(TRUE).lastUsed = 0 /\ NewRow(TRUE).consec = 0
  BY BackoffAssumption DEF NewRow, NoLocks, Row, Plans
<1>2. \A a \in Accounts : Used(a) = 0 /\ Consec(a) = 0 /\ passed[a] = 0
  BY <1>1 DEF Init, Used, Consec
<1>3. Types /\ LastPick
  <2>1. Types
    <3>1. accounts \in [Accounts -> Row]
      BY <1>1 DEF Init
    <3>2. /\ passed \in [Accounts -> Nat] /\ now \in Nat \ {0}
          /\ kept \in Nat /\ streak \in Nat
      BY DEF Init
    <3>3. last \in SUBSET Accounts
      BY DEF Init
    <3> QED BY <3>1, <3>2, <3>3 DEF Types
  <2>2. LastPick
    BY DEF Init, LastPick
  <2> QED BY <2>1, <2>2
<1>4. Rows
  BY <1>2, KeepType DEF Init, Rows
<1>5. PassesCounted
  BY <1>2, UsesBounded DEF PassesCounted
<1> QED BY <1>3, <1>4, <1>5 DEF IInv

\* The invariant of the rotation: every pass is counted in a row, and no row counts
\* more than the limit.
THEOREM InvariantHolds == Spec => []IInv
<1>1. Init => IInv
  BY InitOK
<1>2. IInv /\ [Next]_vars => IInv'
  <2> SUFFICES ASSUME IInv, [Next]_vars PROVE IInv'
    OBVIOUS
  <2>1. CASE Tick
    BY <2>1, TickOK
  <2>2. ASSUME NEW busy \in SUBSET Accounts, Pick(busy) PROVE IInv'
    BY <2>2, PickOK
  <2>3. CASE UNCHANGED vars
    BY <2>3 DEF vars, IInv, Types, Rows, LastPick, PassesCounted, UsesSince, Used, Consec
  <2> QED BY <2>1, <2>2, <2>3 DEF Next
<1> QED BY <1>1, <1>2, PTL DEF Spec

\* Counted from the last pick at which no available account had been used in an
\* earlier second, pick_account keeps to an account at most
\* sticky_round_robin_limit times in a row.
THEOREM LimitHolds == Spec => []LimitHoldsBetweenTies
<1>1. IInv => LimitHoldsBetweenTies
  <2> SUFFICES ASSUME IInv PROVE streak <= Keep
    BY DEF LimitHoldsBetweenTies
  <2>1. CASE last = {}
    BY <2>1, KeepType DEF IInv, LastPick
  <2>2. ASSUME NEW a \in last PROVE streak <= Keep
    <3>1. /\ streak <= Consec(a) /\ Consec(a) <= Keep
          /\ Consec(a) \in Nat /\ streak \in Nat /\ Keep \in Nat
      BY KeepType DEF IInv, Types, Row, LastPick, Rows, Consec
    <3> HIDE DEF Consec
    <3> QED BY <3>1
  <2> QED BY <2>1, <2>2
<1> QED BY <1>1, InvariantHolds, PTL

\* And none that is available to every request waits longer, once the second of its
\* last use is over, than it takes to use up the limit of every other account,
\* whichever of those come and go meanwhile.
THEOREM NobodyIsPassedOver == Spec => []NobodyPassedOver
<1>1. IInv => NobodyPassedOver
  <2> SUFFICES ASSUME IInv, NEW a \in Accounts
               PROVE  passed[a] <= (Cardinality(Accounts) - 1) * Keep
    BY DEF NobodyPassedOver
  <2>1. /\ passed[a] \in Nat /\ Cardinality(UsesSince(a)) \in Nat
        /\ passed[a] <= Cardinality(UsesSince(a))
        /\ Cardinality(UsesSince(a)) <= (Cardinality(Accounts) - 1) * Keep
    BY UsesBounded DEF IInv, Types, PassesCounted
  <2>2. (Cardinality(Accounts) - 1) * Keep \in Int
    BY AccountsAssumption, FS_CardinalityType, KeepType
  <2> QED BY <2>1, <2>2
<1> QED BY <1>1, InvariantHolds, PTL
=============================================================================
