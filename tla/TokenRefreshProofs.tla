------------------------- MODULE TokenRefreshProofs -------------------------
(* Theorems of TokenRefresh, for any callers and any set of tokens. *)
EXTENDS TokenRefresh, SequenceTheorems, TLAPS

Holding == {"asking"} \cup Answers
InLock  == {"queued"} \cup Holding

\* The lock of refresh_account: no caller is in its queue twice, those in it are
\* the ones that wait or hold, and only its head holds.
LockOK(q, who) ==
    /\ \A i, j \in 1..Len(q) : q[i] = q[j] => i = j
    /\ \A i \in 1..Len(q) : who[q[i]].pc \in InLock
    /\ \A c \in Callers : who[c].pc = "queued" => \E i \in 1..Len(q) : q[i] = c
    /\ \A c \in Callers : who[c].pc \in Holding => q # <<>> /\ q[1] = c

\* Until an answer has been lost, the row's token is the accepted one, but for
\* the time a new one is under way.
RowIsGood == row.live /\ ~lost /\ (\A c \in Callers : ~Replaces(caller[c])) => row.refresh = good

\* What a caller has sent or is about to store is the accepted token.
CallerIsGood ==
    \A c \in Callers : /\ caller[c].pc = "asking" /\ ~lost => caller[c].sent = good
                       /\ caller[c].pc = "granted" => /\ NewRefresh(caller[c]) = good
                                                       /\ caller[c].access \in Tokens

IInv == TypeOK /\ LockOK(queue, caller) /\ RowIsGood /\ CallerIsGood

-----------------------------------------------------------------------------
(* What a step of one caller does to the queue of the lock.                   *)

\* The holder leaves: the lock passes on.
LEMMA LeavesLock ==
    ASSUME NEW q \in Seq(Callers), q # <<>>, NEW who \in [Callers -> Caller], LockOK(q, who),
           NEW rec \in Caller, rec.pc \notin InLock
    PROVE  /\ LockOK(Tail(q), [who EXCEPT ![q[1]] = rec])
           /\ Tail(q) \in Seq(Callers)
<1> DEFINE t == Tail(q)
           w == [who EXCEPT ![q[1]] = rec]
<1>1. /\ t \in Seq(Callers) /\ Len(t) = Len(q) - 1 /\ Len(q) \in Nat \ {0}
      /\ \A i \in 1..Len(t) : t[i] = q[i + 1]
  BY HeadTailProperties, EmptySeq, LenProperties
<1>2. q[1] \in Callers
  BY <1>1, ElementOfSeq
<1> HIDE DEF t
<1>3. ASSUME NEW i \in 1..Len(t)
      PROVE  /\ i + 1 \in 1..Len(q) /\ t[i] = q[i + 1] /\ t[i] # q[1] /\ t[i] \in Callers
  <2>1. i + 1 \in 1..Len(q) /\ t[i] = q[i + 1] /\ 1 \in 1..Len(q) /\ i + 1 # 1
    BY <1>1
  <2>2. q[i + 1] \in Callers
    BY <2>1, ElementOfSeq
  <2> QED BY <2>1, <2>2 DEF LockOK
<1>4. ASSUME NEW i \in 1..Len(t), NEW j \in 1..Len(t), t[i] = t[j] PROVE i = j
  <2>1. i + 1 = j + 1
    BY <1>3, <1>4 DEF LockOK
  <2> QED BY <2>1
<1>5. ASSUME NEW i \in 1..Len(t) PROVE w[t[i]].pc \in InLock
  BY <1>3, <1>2 DEF LockOK
<1>6. ASSUME NEW c \in Callers, w[c].pc = "queued" PROVE \E i \in 1..Len(t) : t[i] = c
  <2>1. c # q[1] /\ who[c].pc = "queued"
    BY <1>6, <1>2 DEF InLock
  <2>2. PICK i \in 1..Len(q) : q[i] = c
    BY <2>1 DEF LockOK
  <2>3. i - 1 \in 1..Len(t) /\ t[i - 1] = q[i]
    BY <2>1, <2>2, <1>1
  <2> QED BY <2>2, <2>3
<1>7. ASSUME NEW c \in Callers PROVE w[c].pc \notin Holding
  BY <1>2 DEF LockOK, InLock
<1> HIDE DEF w
<1> QED BY <1>1, <1>4, <1>5, <1>6, <1>7 DEF LockOK, t, w

\* The holder goes on holding.
LEMMA KeepsLock ==
    ASSUME NEW q \in Seq(Callers), q # <<>>, NEW who \in [Callers -> Caller], LockOK(q, who),
           NEW rec \in Caller, rec.pc \in Holding
    PROVE  LockOK(q, [who EXCEPT ![q[1]] = rec])
<1> DEFINE w == [who EXCEPT ![q[1]] = rec]
<1>1. Len(q) \in Nat \ {0} /\ q[1] \in Callers
  BY EmptySeq, ElementOfSeq
<1>2. \A i \in 1..Len(q) : q[i] \in Callers
  BY ElementOfSeq
<1>3. \A c \in Callers : w[c] = IF c = q[1] THEN rec ELSE who[c]
  BY <1>1
<1>4. rec.pc # "queued" /\ rec.pc \in InLock
  BY DEF Holding, InLock, Answers
<1> HIDE DEF w
<1> QED BY <1>1, <1>2, <1>3, <1>4 DEF LockOK, w

\* A caller from outside waits behind the others.
LEMMA JoinsQueue ==
    ASSUME NEW q \in Seq(Callers), q # <<>>, NEW who \in [Callers -> Caller], LockOK(q, who),
           NEW c \in Callers, who[c].pc \notin InLock, NEW rec \in Caller, rec.pc = "queued"
    PROVE  /\ LockOK(Append(q, c), [who EXCEPT ![c] = rec])
           /\ Append(q, c) \in Seq(Callers)
<1> DEFINE t == Append(q, c)
           w == [who EXCEPT ![c] = rec]
<1>1. /\ t \in Seq(Callers) /\ t # <<>> /\ Len(t) = Len(q) + 1 /\ Len(q) \in Nat \ {0}
      /\ \A i \in 1..Len(q) : t[i] = q[i]
      /\ t[Len(q) + 1] = c
  BY AppendProperties, EmptySeq
<1>2. \A d \in Callers : w[d] = IF d = c THEN rec ELSE who[d]
  OBVIOUS
<1>3. \A i \in 1..Len(q) : q[i] \in Callers /\ q[i] # c
  BY ElementOfSeq DEF LockOK
<1>4. rec.pc \in InLock /\ rec.pc \notin Holding
  BY DEF Holding, InLock, Answers
<1> HIDE DEF t, w
<1>5. \A i \in 1..Len(t) : i \in 1..Len(q) \/ i = Len(q) + 1
  BY <1>1
<1>6. ASSUME NEW i \in 1..Len(t), NEW j \in 1..Len(t), t[i] = t[j] PROVE i = j
  BY <1>1, <1>3, <1>5, <1>6 DEF LockOK
<1>7. ASSUME NEW i \in 1..Len(t) PROVE w[t[i]].pc \in InLock
  BY <1>1, <1>2, <1>3, <1>4, <1>5 DEF LockOK
<1>8. ASSUME NEW d \in Callers, w[d].pc = "queued" PROVE \E i \in 1..Len(t) : t[i] = d
  <2>1. CASE d = c
    BY <2>1, <1>1
  <2>2. CASE d # c
    <3>1. PICK i \in 1..Len(q) : q[i] = d
      BY <2>2, <1>2, <1>8 DEF LockOK
    <3>2. i \in 1..Len(t) /\ t[i] = d
      BY <3>1, <1>1
    <3> QED BY <3>2
  <2> QED BY <2>1, <2>2
<1>9. ASSUME NEW d \in Callers, w[d].pc \in Holding PROVE t[1] = d
  <2>1. d # c /\ who[d].pc \in Holding
    BY <1>2, <1>4, <1>9
  <2>2. q[1] = d /\ 1 \in 1..Len(q)
    BY <2>1, <1>1 DEF LockOK
  <2> QED BY <2>2, <1>1
<1> QED BY <1>1, <1>6, <1>7, <1>8, <1>9 DEF LockOK, t, w

\* A caller from outside takes a free lock.
LEMMA TakesLock ==
    ASSUME NEW who \in [Callers -> Caller], LockOK(<<>>, who),
           NEW c \in Callers, NEW rec \in Caller, rec.pc \in Holding
    PROVE  LockOK(<<c>>, [who EXCEPT ![c] = rec])
<1> DEFINE w == [who EXCEPT ![c] = rec]
<1>1. \A d \in Callers : who[d].pc \notin InLock
  BY EmptySeq DEF LockOK, InLock
<1>2. \A d \in Callers : w[d] = IF d = c THEN rec ELSE who[d]
  OBVIOUS
<1>3. rec.pc # "queued" /\ rec.pc \in InLock
  BY DEF Holding, InLock, Answers
<1> HIDE DEF w
<1>4. \A d \in Callers : w[d].pc \in InLock => d = c
  BY <1>1, <1>2
<1>5. <<c>> # <<>> /\ Len(<<c>>) = 1 /\ <<c>>[1] = c
  OBVIOUS
<1> QED BY <1>2, <1>3, <1>4, <1>5 DEF LockOK, InLock, w

\* A step outside the lock leaves it as it was.
LEMMA StaysOutside ==
    ASSUME NEW q \in Seq(Callers), NEW who \in [Callers -> Caller], LockOK(q, who),
           NEW c \in Callers, who[c].pc \notin InLock, NEW rec \in Caller, rec.pc \notin InLock
    PROVE  LockOK(q, [who EXCEPT ![c] = rec])
<1> DEFINE w == [who EXCEPT ![c] = rec]
<1>1. \A d \in Callers : w[d] = IF d = c THEN rec ELSE who[d]
  OBVIOUS
<1>2. \A i \in 1..Len(q) : q[i] \in Callers
  BY ElementOfSeq
<1> HIDE DEF w
<1> QED BY <1>1, <1>2 DEF LockOK, InLock, w

-----------------------------------------------------------------------------
(* The records of the callers.                                                *)

LEMMA IdleType == Idle \in Caller /\ Idle.pc \notin InLock
BY DEF Idle, Caller, InLock, Holding, Answers

\* A caller to whom refresh_account has returned is outside the lock.
LEMMA AfterReturnType ==
    ASSUME NEW c \in Callers, NEW rec \in Caller, NEW got, NEW r \in Row
    PROVE  /\ AfterReturn(c, rec, got, r) \in Caller
           /\ AfterReturn(c, rec, got, r).pc \notin InLock
<1>1. PICK idle \in Caller : idle = Idle /\ idle.pc \notin InLock
  BY IdleType
<1>2. [idle EXCEPT !.pc = "sleeping"] \in Caller
  BY DEF Caller
<1>3. [idle EXCEPT !.pc = "fetching", !.round = rec.round, !.used = r.access] \in Caller
  BY DEF Caller, Row
<1>4. AfterReturn(c, rec, got, r) \in
         {idle, [idle EXCEPT !.pc = "sleeping"],
          [idle EXCEPT !.pc = "fetching", !.round = rec.round, !.used = r.access]}
  <2>1. CASE c = Loop
    BY <1>1, <2>1, CallerAssumption DEF AfterReturn
  <2>2. CASE c # Loop /\ c = Usage /\ r.live /\ (got \/ rec.round = 1)
    BY <1>1, <2>2 DEF AfterReturn
  <2>3. CASE c # Loop /\ ~(c = Usage /\ r.live /\ (got \/ rec.round = 1))
    BY <1>1, <2>3 DEF AfterReturn
  <2> QED BY <2>1, <2>2, <2>3
<1> QED BY <1>1, <1>2, <1>3, <1>4 DEF Caller, InLock, Holding, Answers

LEMMA FailedType == ASSUME row \in Row PROVE Failed \in Row
BY DEF Failed, Row

LEMMA StoredType ==
    ASSUME row \in Row, NEW rec, rec.access \in Tokens, NewRefresh(rec) \in Tokens, NEW dated
    PROVE  Stored(rec, dated) \in Row
BY DEF Stored, Row

\* A step of one caller that neither stores a token nor loses an answer.  If the
\* caller asks next, it sends the token of a row that nobody is about to renew.
LEMMA TokensKept ==
    ASSUME IInv, NEW c \in Callers, caller[c].pc # "granted",
           NEW next \in Caller, Set(c, next), next.pc # "granted",
           next.pc = "asking" => /\ row.live /\ next.sent = row.refresh
                                 /\ \A d \in Callers : caller[d].pc # "granted",
           row'.live => row.live, row'.refresh = row.refresh, UNCHANGED <<good, lost>>
    PROVE  RowIsGood' /\ CallerIsGood'
<1>1. \A d \in Callers : caller'[d] = IF d = c THEN next ELSE caller[d]
  BY DEF Set, IInv, TypeOK
<1>2. ASSUME \A d \in Callers : ~Replaces(caller'[d])
      PROVE  \A d \in Callers : ~Replaces(caller[d])
  BY <1>1, <1>2 DEF Replaces
<1>3. RowIsGood'
  BY <1>2 DEF RowIsGood, IInv
<1>4. ASSUME next.pc = "asking", ~lost PROVE next.sent = good
  BY <1>4 DEF IInv, RowIsGood, Replaces
<1>5. CallerIsGood'
  BY <1>1, <1>4 DEF CallerIsGood, IInv
<1> QED BY <1>3, <1>5

\* refresh_account as far as its first await, for a caller that gets the lock at
\* once, and for one that waits.
LEMMA EnterOK ==
    ASSUME IInv, NEW c \in Callers, caller[c].pc \notin InLock,
           NEW rec \in Caller, rec.pc \notin InLock, Enter(c, rec),
           UNCHANGED <<row, good, lost>>
    PROVE  IInv'
<1>0. /\ row \in Row /\ queue \in Seq(Callers) /\ caller \in [Callers -> Caller]
      /\ LockOK(queue, caller) /\ good \in Tokens /\ lost \in BOOLEAN
  BY DEF IInv, TypeOK
<1>1. PICK next \in Caller :
         /\ Set(c, next) /\ next.pc # "granted"
         /\ next.pc = "asking" => row.live /\ next.sent = row.refresh /\ queue = <<>>
         /\ LockOK(queue', caller') /\ queue' \in Seq(Callers)
  <2>1. CASE MustWait
    <3> DEFINE next == [rec EXCEPT !.pc = "queued"]
    <3>1. next \in Caller /\ next.pc = "queued"
      BY DEF Caller
    <3>2. Set(c, next) /\ queue' = Append(queue, c) /\ queue # <<>>
      BY <2>1 DEF Enter, MustWait
    <3> HIDE DEF next
    <3> QED BY <1>0, <3>1, <3>2, JoinsQueue DEF Set
  <2>2. CASE ~MustWait /\ NeedsRefresh(row)
    <3> DEFINE next == [rec EXCEPT !.pc = "asking", !.sent = row.refresh]
    <3>1. /\ next \in Caller /\ next.pc = "asking" /\ next.sent = row.refresh
          /\ next.pc \in Holding
      BY <1>0 DEF Caller, Row, Holding
    <3>2. Set(c, next) /\ queue' = <<c>> \o <<>> /\ queue = <<>> /\ row.live
      BY <2>2 DEF Enter, Proceed, MustWait, NeedsRefresh
    <3>3. queue' = <<c>> /\ <<c>> \in Seq(Callers)
      BY <3>2, ConcatEmptySeq
    <3> HIDE DEF next
    <3>4. LockOK(queue', caller')
      BY <1>0, <3>1, <3>2, <3>3, TakesLock DEF Set
    <3> QED BY <3>1, <3>2, <3>3, <3>4
  <2>3. CASE ~MustWait /\ ~NeedsRefresh(row)
    <3> DEFINE next == AfterReturn(c, rec, row.live, row)
    <3>1. next \in Caller /\ next.pc \notin InLock
      BY <1>0, AfterReturnType
    <3>2. Set(c, next) /\ queue' = <<>> /\ queue = <<>>
      BY <2>3 DEF Enter, Proceed, MustWait
    <3> HIDE DEF next
    <3>3. next.pc \notin {"asking", "granted"}
      BY <3>1 DEF InLock, Holding, Answers
    <3>4. LockOK(queue', caller')
      BY <1>0, <3>1, <3>2, StaysOutside DEF Set
    <3> QED BY <1>0, <3>1, <3>2, <3>3, <3>4
  <2> QED BY <2>1, <2>2, <2>3
<1>2. queue = <<>> => \A d \in Callers : caller[d].pc # "granted"
  BY <1>0 DEF LockOK, Holding, Answers
<1>3. caller[c].pc # "granted"
  BY DEF InLock, Holding, Answers
<1>4. RowIsGood' /\ CallerIsGood'
  BY <1>1, <1>2, <1>3, TokensKept
<1>5. TypeOK'
  BY <1>0, <1>1 DEF TypeOK, Set
<1> QED BY <1>1, <1>4, <1>5 DEF IInv

\* The head of the queue gets the lock.
LEMMA AcquireOK ==
    ASSUME IInv, NEW c \in Callers, Acquire(c)
    PROVE  IInv'
<1>0. /\ row \in Row /\ queue \in Seq(Callers) /\ caller \in [Callers -> Caller]
      /\ LockOK(queue, caller) /\ good \in Tokens /\ lost \in BOOLEAN
  BY DEF IInv, TypeOK
<1>1. caller[c].pc = "queued" /\ caller[c] \in Caller
  BY <1>0 DEF Acquire
<1>2. queue # <<>> /\ queue[1] = c
  <2>1. PICK i \in 1..Len(queue) : queue[i] = c
    BY <1>0, <1>1 DEF LockOK
  <2>2. queue # <<>>
    BY <2>1
  <2> QED BY <2>2, <1>0 DEF Acquire
<1>3. \A d \in Callers : caller[d].pc # "granted"
  BY <1>0, <1>1, <1>2 DEF LockOK, Holding, Answers
<1>4. PICK next \in Caller :
         /\ Set(c, next) /\ next.pc # "granted"
         /\ next.pc = "asking" => row.live /\ next.sent = row.refresh
         /\ LockOK(queue', caller') /\ queue' \in Seq(Callers)
  <2>1. CASE NeedsRefresh(row)
    <3> DEFINE next == [caller[c] EXCEPT !.pc = "asking", !.sent = row.refresh]
    <3>1. /\ next \in Caller /\ next.pc = "asking" /\ next.sent = row.refresh
          /\ next.pc \in Holding
      BY <1>0, <1>1 DEF Caller, Row, Holding
    <3>2. Set(c, next) /\ queue' = <<c>> \o Tail(queue) /\ row.live
      BY <2>1 DEF Acquire, Proceed, NeedsRefresh
    <3>3. queue' = queue
      BY <3>2, <1>0, <1>2
    <3> HIDE DEF next
    <3>4. LockOK(queue', caller')
      BY <1>0, <1>2, <3>1, <3>2, <3>3, KeepsLock DEF Set
    <3> QED BY <1>0, <3>1, <3>2, <3>3, <3>4
  <2>2. CASE ~NeedsRefresh(row)
    <3> DEFINE next == AfterReturn(c, caller[c], row.live, row)
    <3>1. next \in Caller /\ next.pc \notin InLock
      BY <1>0, <1>1, AfterReturnType
    <3>2. Set(c, next) /\ queue' = Tail(queue)
      BY <2>2 DEF Acquire, Proceed
    <3> HIDE DEF next
    <3>3. next.pc \notin {"asking", "granted"}
      BY <3>1 DEF InLock, Holding, Answers
    <3>4. LockOK(queue', caller') /\ queue' \in Seq(Callers)
      BY <1>0, <1>2, <3>1, <3>2, LeavesLock DEF Set
    <3> QED BY <3>1, <3>2, <3>3, <3>4
  <2> QED BY <2>1, <2>2
<1>5. UNCHANGED <<row, good, lost>>
  BY DEF Acquire
<1>6. RowIsGood' /\ CallerIsGood'
  BY <1>1, <1>3, <1>4, <1>5, TokensKept
<1>7. TypeOK'
  BY <1>0, <1>4, <1>5 DEF TypeOK, Set
<1> QED BY <1>4, <1>6, <1>7 DEF IInv

-----------------------------------------------------------------------------
(* The other steps.                                                           *)

\* The answer of the service is written down.
LEMMA AnswerArrivesOK ==
    ASSUME IInv, NEW c \in Callers, AnswerArrives(c)
    PROVE  IInv'
<1>0. /\ row \in Row /\ queue \in Seq(Callers) /\ caller \in [Callers -> Caller]
      /\ LockOK(queue, caller) /\ good \in Tokens /\ lost \in BOOLEAN
  BY DEF IInv, TypeOK
<1> DEFINE granted == caller[c].pc = "granted"
           next == AfterReturn(c, caller[c], granted /\ row.live, row')
<1>1. /\ caller[c].pc \in Answers /\ caller[c] \in Caller
      /\ \E dated \in BOOLEAN : row' = IF granted THEN Stored(caller[c], dated) ELSE Failed
      /\ Set(c, next) /\ queue' = Tail(queue) /\ good' = good /\ lost' = lost
  BY <1>0 DEF AnswerArrives
<1>2. queue # <<>> /\ queue[1] = c
  BY <1>0, <1>1 DEF LockOK, Holding
<1>3. \A d \in Callers : caller[d].pc \in Holding => d = c
  BY <1>0, <1>1, <1>2 DEF LockOK, Holding
<1>4. /\ row' \in Row /\ row'.live = row.live
      /\ granted /\ row'.live => row'.refresh = good
      /\ ~granted => row'.refresh = row.refresh
  <2>1. CASE granted
    <3>1. PICK dated \in BOOLEAN : row' = Stored(caller[c], dated)
      BY <1>1, <2>1
    <3>2. NewRefresh(caller[c]) = good /\ caller[c].access \in Tokens
      BY <2>1 DEF IInv, CallerIsGood
    <3>3. row' \in Row
      BY <1>0, <3>1, <3>2, StoredType
    <3> QED BY <1>0, <2>1, <3>1, <3>2, <3>3 DEF Stored, Row
  <2>2. CASE ~granted
    <3>1. row' = Failed
      BY <1>1, <2>2
    <3> QED BY <1>0, <2>2, <3>1, FailedType DEF Failed, Row
  <2> QED BY <2>1, <2>2
<1>5. next \in Caller /\ next.pc \notin InLock
  BY <1>1, <1>4, AfterReturnType
<1> HIDE DEF next, granted
<1>6. LockOK(queue', caller') /\ queue' \in Seq(Callers)
  BY <1>0, <1>1, <1>2, <1>5, LeavesLock DEF Set
<1>7. TypeOK'
  BY <1>0, <1>1, <1>4, <1>5, <1>6 DEF TypeOK, Set
<1>8. \A d \in Callers : caller'[d] = IF d = c THEN next ELSE caller[d]
  BY <1>0, <1>1 DEF Set
<1>9. \A d \in Callers : caller'[d].pc \notin Holding
  BY <1>3, <1>5, <1>8 DEF InLock
<1>10. CallerIsGood'
  BY <1>9 DEF CallerIsGood, Holding, Answers
<1>11. RowIsGood'
  <2>1. CASE granted
    BY <2>1, <1>1, <1>4 DEF RowIsGood
  <2>2. CASE ~granted
    <3>1. \A d \in Callers : caller[d].pc # "granted"
      BY <2>2, <1>3 DEF granted, Holding, Answers
    <3> QED BY <2>2, <3>1, <1>1, <1>4 DEF RowIsGood, IInv, Replaces
  <2> QED BY <2>1, <2>2
<1> QED BY <1>6, <1>7, <1>10, <1>11 DEF IInv

\* It is not: the caller leaves the lock with the tokens of the row as they were.
LEMMA UnstoredOK ==
    ASSUME IInv, NEW c \in Callers, caller[c].pc \in Holding,
           NEW next \in Caller, next.pc \notin InLock, Set(c, next), queue' = Tail(queue),
           row' \in Row, row'.live = row.live, row'.refresh = row.refresh,
           good' = good, lost' = (lost \/ Replaces(caller[c]))
    PROVE  IInv'
<1>0. /\ row \in Row /\ queue \in Seq(Callers) /\ caller \in [Callers -> Caller]
      /\ LockOK(queue, caller) /\ good \in Tokens /\ lost \in BOOLEAN
  BY DEF IInv, TypeOK
<1>1. queue # <<>> /\ queue[1] = c
  BY <1>0 DEF LockOK
<1>2. \A d \in Callers : caller[d].pc \in Holding => d = c
  BY <1>0, <1>1 DEF LockOK
<1>3. LockOK(queue', caller') /\ queue' \in Seq(Callers)
  BY <1>0, <1>1, LeavesLock DEF Set
<1>4. lost' \in BOOLEAN
  BY <1>0 DEF Replaces
<1>5. TypeOK'
  BY <1>0, <1>3, <1>4 DEF TypeOK, Set
<1>6. \A d \in Callers : caller'[d] = IF d = c THEN next ELSE caller[d]
  BY <1>0 DEF Set
<1>7. \A d \in Callers : caller'[d].pc \notin Holding
  BY <1>2, <1>6 DEF InLock
<1>8. CallerIsGood'
  BY <1>7 DEF CallerIsGood, Holding, Answers
<1>9. ASSUME ~lost' PROVE ~lost /\ \A d \in Callers : ~Replaces(caller[d])
  BY <1>2, <1>9 DEF Replaces, Holding, Answers
<1>10. RowIsGood'
  BY <1>9 DEF RowIsGood, IInv
<1> QED BY <1>3, <1>5, <1>8, <1>10 DEF IInv

\* It never arrives.
LEMMA AnswerLostOK ==
    ASSUME IInv, NEW c \in Callers, AnswerLost(c)
    PROVE  IInv'
<1>0. row \in Row /\ caller \in [Callers -> Caller]
  BY DEF IInv, TypeOK
<1> DEFINE next == AfterReturn(c, caller[c], FALSE, row')
<1>1. /\ caller[c].pc \in Holding /\ caller[c] \in Caller
      /\ row' = Failed /\ lost' = (lost \/ Replaces(caller[c]))
      /\ Set(c, next) /\ queue' = Tail(queue) /\ good' = good
  BY <1>0 DEF AnswerLost, Holding, Answers
<1>2. row' \in Row /\ row'.live = row.live /\ row'.refresh = row.refresh
  BY <1>0, <1>1, FailedType DEF Failed, Row
<1>3. next \in Caller /\ next.pc \notin InLock
  BY <1>1, <1>2, AfterReturnType
<1> HIDE DEF next
<1> QED BY <1>1, <1>2, <1>3, UnstoredOK

\* It cannot be read.
LEMMA AnswerRaisesOK ==
    ASSUME IInv, NEW c \in Callers, AnswerRaises(c)
    PROVE  IInv'
<1>1. /\ row \in Row /\ caller[c].pc \in Holding
      /\ Set(c, AfterRaise(c)) /\ queue' = Tail(queue) /\ UNCHANGED <<row, good>>
      /\ lost' = (lost \/ Replaces(caller[c]))
  BY DEF AnswerRaises, Holding, Answers, IInv, TypeOK
<1>2. PICK idle \in Caller : idle = Idle /\ idle.pc \notin InLock
  BY IdleType
<1>3. [idle EXCEPT !.pc = "sleeping"] \in Caller
  BY DEF Caller
<1>4. AfterRaise(c) \in Caller /\ AfterRaise(c).pc \notin InLock
  BY <1>2, <1>3 DEF AfterRaise, InLock, Holding, Answers
<1> QED BY <1>1, <1>4, UnstoredOK

LEMMA ServiceGrantsOK ==
    ASSUME IInv, NEW c \in Callers, ServiceGrants(c)
    PROVE  IInv'
<1>0. /\ row \in Row /\ queue \in Seq(Callers) /\ caller \in [Callers -> Caller]
      /\ LockOK(queue, caller) /\ good \in Tokens /\ lost \in BOOLEAN
  BY DEF IInv, TypeOK
<1>1. PICK new, access \in Tokens : new = Unseen[1] /\ access = Unseen[2]
  <2>1. Unseen \in UnseenPairs
    BY DEF ServiceGrants, Unseen
  <2> QED BY <2>1 DEF UnseenPairs
<1>2. PICK rotate \in BOOLEAN :
         /\ good' = IF rotate THEN new ELSE good
         /\ Set(c, [caller[c] EXCEPT !.pc = "granted", !.access = access,
                                     !.refresh = IF rotate THEN good' ELSE NoToken])
  BY <1>1 DEF ServiceGrants
<1> DEFINE next == [caller[c] EXCEPT !.pc = "granted", !.access = access,
                                     !.refresh = IF rotate THEN good' ELSE NoToken]
<1>3. /\ caller[c].pc = "asking" /\ caller[c].sent = good /\ caller[c] \in Caller
      /\ UNCHANGED <<row, queue, lost>>
  BY <1>0 DEF ServiceGrants
<1>4. good' \in Tokens
  BY <1>0, <1>2
<1>5. /\ next \in Caller /\ next.pc = "granted" /\ next.access = access
      /\ next.sent = good /\ next.refresh = IF rotate THEN good' ELSE NoToken
  BY <1>3, <1>4 DEF Caller, Answers
<1>6. Set(c, next)
  BY <1>2
<1> HIDE DEF next
<1>7. NewRefresh(next) = good' /\ (next.refresh = NoToken => good' = good)
  BY <1>2, <1>4, <1>5, TokenAssumption DEF NewRefresh
<1>8. queue # <<>> /\ queue[1] = c /\ next.pc \in Holding
  BY <1>0, <1>3, <1>5 DEF LockOK, Holding, Answers
<1>9. LockOK(queue', caller')
  BY <1>0, <1>3, <1>5, <1>6, <1>8, KeepsLock DEF Set
<1>10. TypeOK'
  BY <1>0, <1>3, <1>4, <1>5, <1>6 DEF TypeOK, Set
<1>11. \A d \in Callers : caller'[d] = IF d = c THEN next ELSE caller[d]
  BY <1>0, <1>6 DEF Set
<1>12. \A d \in Callers : caller[d].pc \in Holding => d = c
  BY <1>0, <1>3, <1>8 DEF LockOK, Holding
<1>13. CallerIsGood'
  BY <1>5, <1>7, <1>11, <1>12 DEF CallerIsGood, Holding, Answers
<1>14. ASSUME \A d \in Callers : ~Replaces(caller'[d])
       PROVE  good' = good /\ \A d \in Callers : ~Replaces(caller[d])
  BY <1>3, <1>5, <1>7, <1>11, <1>14 DEF Replaces
<1>15. RowIsGood'
  BY <1>3, <1>14 DEF RowIsGood, IInv
<1> QED BY <1>9, <1>10, <1>13, <1>15 DEF IInv

LEMMA ServiceRefusesOK ==
    ASSUME IInv, NEW c \in Callers, ServiceRefuses(c)
    PROVE  IInv'
<1>0. /\ row \in Row /\ queue \in Seq(Callers) /\ caller \in [Callers -> Caller]
      /\ LockOK(queue, caller) /\ good \in Tokens /\ lost \in BOOLEAN
  BY DEF IInv, TypeOK
<1> DEFINE next == [caller[c] EXCEPT !.pc = "refused"]
<1>1. /\ caller[c].pc = "asking" /\ caller[c] \in Caller
      /\ Set(c, next) /\ UNCHANGED <<row, good, queue, lost>>
  BY <1>0 DEF ServiceRefuses
<1>2. next \in Caller /\ next.pc = "refused" /\ next.pc \in Holding
  BY <1>1 DEF Caller, Holding, Answers
<1> HIDE DEF next
<1>3. queue # <<>> /\ queue[1] = c
  BY <1>0, <1>1 DEF LockOK, Holding
<1>4. LockOK(queue', caller')
  BY <1>0, <1>1, <1>2, <1>3, KeepsLock DEF Set
<1>5. TypeOK'
  BY <1>0, <1>1, <1>2 DEF TypeOK, Set
<1>6. RowIsGood' /\ CallerIsGood'
  BY <1>1, <1>2, TokensKept
<1> QED BY <1>4, <1>5, <1>6 DEF IInv

\* A caller outside the lock stays there.
LEMMA OutsideOK ==
    ASSUME IInv, NEW c \in Callers, caller[c].pc \notin InLock,
           NEW next \in Caller, next.pc \notin InLock, Set(c, next),
           UNCHANGED <<row, good, queue, lost>>
    PROVE  IInv'
<1>0. /\ row \in Row /\ queue \in Seq(Callers) /\ caller \in [Callers -> Caller]
      /\ LockOK(queue, caller) /\ good \in Tokens /\ lost \in BOOLEAN
  BY DEF IInv, TypeOK
<1>1. LockOK(queue', caller')
  BY <1>0, StaysOutside DEF Set
<1>2. TypeOK'
  BY <1>0 DEF TypeOK, Set
<1>3. /\ caller[c].pc # "granted" /\ next.pc # "granted" /\ next.pc # "asking"
  BY DEF InLock, Holding, Answers
<1>4. RowIsGood' /\ CallerIsGood'
  BY <1>3, TokensKept
<1> QED BY <1>1, <1>2, <1>4 DEF IInv

\* A change of the row by others leaves the tokens in it alone, and does not
\* bring a deleted account back.
LEMMA RowStepOK ==
    ASSUME IInv, row' \in Row, row'.live => row.live, row'.refresh = row.refresh,
           UNCHANGED <<good, queue, caller, lost>>
    PROVE  IInv'
BY DEF IInv, TypeOK, RowIsGood, CallerIsGood

LEMMA RestartOK == ASSUME IInv, Restart PROVE IInv'
<1>0. /\ row \in Row /\ queue \in Seq(Callers) /\ caller \in [Callers -> Caller]
      /\ LockOK(queue, caller) /\ good \in Tokens /\ lost \in BOOLEAN
  BY DEF IInv, TypeOK
<1>1. /\ queue' = <<>> /\ caller' = [c \in Callers |-> Idle] /\ row' = row /\ good' = good
      /\ lost' = (lost \/ \E c \in Callers : Replaces(caller[c]))
  BY DEF Restart
<1>2. Idle \in Caller /\ Idle.pc \notin InLock /\ Idle.pc \notin {"asking", "granted"}
  BY IdleType DEF InLock, Holding, Answers
<1>3. TypeOK'
  BY <1>0, <1>1, <1>2, EmptySeq DEF TypeOK
<1>4. LockOK(queue', caller')
  BY <1>1, <1>2 DEF LockOK, InLock
<1>5. CallerIsGood'
  BY <1>1, <1>2 DEF CallerIsGood
<1>6. RowIsGood'
  BY <1>1 DEF RowIsGood, IInv
<1> QED BY <1>3, <1>4, <1>5, <1>6 DEF IInv

LEMMA InitOK == ASSUME Init PROVE IInv
<1>1. PICK r, a \in Tokens :
         row = [live |-> TRUE, status |-> "active", refresh |-> r, access |-> a, exp |-> "fresh"]
         /\ good = r
  BY DEF Init
<1>2. queue = <<>> /\ caller = [c \in Callers |-> Idle] /\ lost = FALSE
  BY DEF Init
<1>3. Idle \in Caller /\ Idle.pc \notin InLock /\ Idle.pc \notin {"asking", "granted"}
  BY IdleType DEF InLock, Holding, Answers
<1>4. row \in Row /\ row.refresh = good
  BY <1>1 DEF Row
<1>5. TypeOK
  BY <1>1, <1>2, <1>3, <1>4, EmptySeq DEF TypeOK
<1>6. LockOK(queue, caller)
  BY <1>2, <1>3 DEF LockOK, InLock
<1>7. RowIsGood /\ CallerIsGood
  BY <1>2, <1>3, <1>4 DEF RowIsGood, CallerIsGood
<1> QED BY <1>5, <1>6, <1>7 DEF IInv

-----------------------------------------------------------------------------

LEMMA StepOK == ASSUME IInv, Next PROVE IInv'
<1>0. /\ row \in Row /\ caller \in [Callers -> Caller] /\ Loop \in Callers /\ Usage \in Callers
  BY CallerAssumption DEF IInv, TypeOK
<1>1. PICK idle \in Caller : idle = Idle /\ idle.pc = "idle"
  BY IdleType DEF Idle
<1>2. "idle" \notin InLock /\ "sleeping" \notin InLock /\ "fetching" \notin InLock
  BY DEF InLock, Holding, Answers
<1>3. ASSUME NEW c \in Callers, Starts(c) PROVE IInv'
  <2> DEFINE rec == [idle EXCEPT !.round = IF c = Usage THEN 1 ELSE 0]
  <2>1. rec \in Caller /\ rec.pc = "idle"
    BY <1>1 DEF Caller
  <2>2. caller[c].pc = "idle" /\ Enter(c, rec) /\ UNCHANGED <<row, good, lost>>
    BY <1>1, <1>3 DEF Starts
  <2> HIDE DEF rec
  <2> QED BY <2>1, <2>2, <1>2, EnterOK
<1>4. CASE LoopVisits
  <2>1. CASE Skips(row)
    <3> DEFINE next == [idle EXCEPT !.pc = "sleeping"]
    <3>1. next \in Caller /\ next.pc = "sleeping"
      BY <1>1 DEF Caller
    <3>2. caller[Loop].pc = "idle" /\ Set(Loop, next) /\ UNCHANGED <<row, good, queue, lost>>
      BY <1>1, <1>4, <2>1 DEF LoopVisits
    <3> HIDE DEF next
    <3> QED BY <3>1, <3>2, <1>0, <1>2, OutsideOK
  <2>2. CASE ~Skips(row)
    <3>1. caller[Loop].pc = "idle" /\ Enter(Loop, idle) /\ UNCHANGED <<row, good, lost>>
      BY <1>1, <1>4, <2>2 DEF LoopVisits
    <3> QED BY <3>1, <1>0, <1>1, <1>2, EnterOK
  <2> QED BY <2>1, <2>2
<1>5. CASE LoopWakes
  BY <1>5, <1>0, <1>1, <1>2, OutsideOK DEF LoopWakes
<1>6. CASE FetchDenied
  <2>1. CASE caller[Usage].round = 1
    <3> DEFINE rec == [caller[Usage] EXCEPT !.round = 2]
    <3>1. caller[Usage].pc = "fetching" /\ Enter(Usage, rec) /\ UNCHANGED <<row, good, lost>>
      BY <1>6, <2>1 DEF FetchDenied
    <3>2. rec \in Caller /\ rec.pc = "fetching"
      BY <3>1, <1>0 DEF Caller
    <3> HIDE DEF rec
    <3> QED BY <3>1, <3>2, <1>0, <1>2, EnterOK
  <2>2. CASE caller[Usage].round # 1
    <3>1. /\ caller[Usage].pc = "fetching" /\ Set(Usage, idle)
          /\ UNCHANGED <<row, good, queue, lost>>
      BY <1>1, <1>6, <2>2 DEF FetchDenied
    <3> QED BY <3>1, <1>0, <1>1, <1>2, OutsideOK
  <2> QED BY <2>1, <2>2
<1>7. CASE FetchEnds
  BY <1>7, <1>0, <1>1, <1>2, OutsideOK DEF FetchEnds
<1>8. CASE TokenAges \/ ProxyMarksError \/ DeleteAccount
  <2>1. row' \in Row /\ (row'.live => row.live) /\ row'.refresh = row.refresh
    BY <1>8, <1>0, FailedType DEF TokenAges, ProxyMarksError, DeleteAccount, Failed, Row
  <2>2. UNCHANGED <<good, queue, caller, lost>>
    BY <1>8 DEF TokenAges, ProxyMarksError, DeleteAccount
  <2> QED BY <2>1, <2>2, RowStepOK
<1>9. ASSUME NEW c \in Callers, CallerStep(c) \/ ServiceStep(c) PROVE IInv'
  BY <1>3, <1>9, AcquireOK, AnswerArrivesOK, AnswerLostOK, AnswerRaisesOK, ServiceGrantsOK, ServiceRefusesOK
     DEF CallerStep, ServiceStep
<1> QED BY <1>4, <1>5, <1>6, <1>7, <1>8, <1>9, RestartOK DEF Next

\* The invariant: the lock of refresh_account, and what it protects.
THEOREM InvariantHolds == Spec => []IInv
<1>1. IInv /\ UNCHANGED vars => IInv'
  BY DEF vars, IInv, TypeOK, RowIsGood, CallerIsGood
<1>2. IInv /\ [Next]_vars => IInv'
  BY <1>1, StepOK
<1> QED BY <1>2, InitOK, PTL DEF Spec

\* Every variable keeps its type: in particular a row never gets the absent
\* refresh token of an answer without one.
THEOREM TypeCorrect == Spec => []TypeOK
<1>1. IInv => TypeOK
  BY DEF IInv
<1> QED BY <1>1, InvariantHolds, PTL

\* However many callers ask for a fresh token at the same time, the row ends up
\* with the refresh token the service accepts, unless an answer was lost.
THEOREM NewestTokenKept == Spec => []KeepsNewestToken
<1>1. IInv => KeepsNewestToken
  BY DEF IInv, RowIsGood, KeepsNewestToken, Replaces
<1> QED BY <1>1, InvariantHolds, PTL

\* None of them sends a refresh token that was replaced, unless an answer was lost.
THEOREM SpentTokenNeverSent == Spec => []NeverSendsSpentToken
<1>1. IInv => NeverSendsSpentToken
  BY DEF IInv, CallerIsGood, NeverSendsSpentToken
<1> QED BY <1>1, InvariantHolds, PTL

\* refresh_account is exclusive: from the read of the row to the write of the
\* answer a caller is at the head of the lock's queue, so that of all callers at
\* most one exchanges the refresh token, and everybody else in the queue waits.
THEOREM RefreshIsExclusive ==
    Spec => [](/\ \A c \in Callers : caller[c].pc \in Holding => queue # <<>> /\ Head(queue) = c
               /\ \A i \in 2..Len(queue) : caller[queue[i]].pc = "queued")
<1> DEFINE Exclusive ==
               /\ \A c \in Callers : caller[c].pc \in Holding => queue # <<>> /\ Head(queue) = c
               /\ \A i \in 2..Len(queue) : caller[queue[i]].pc = "queued"
<1>1. IInv => Exclusive
  <2> SUFFICES ASSUME IInv PROVE Exclusive
    OBVIOUS
  <2>0. LockOK(queue, caller) /\ queue \in Seq(Callers)
    BY DEF IInv, TypeOK
  <2>1. \A c \in Callers : caller[c].pc \in Holding => queue # <<>> /\ queue[1] = c
    BY <2>0 DEF LockOK
  <2>2. ASSUME NEW i \in 2..Len(queue) PROVE caller[queue[i]].pc = "queued"
    <3>1. queue[i] \in Callers /\ i \in 1..Len(queue) /\ 1 \in 1..Len(queue) /\ i # 1
      BY <2>0, ElementOfSeq
    <3>2. queue[i] # queue[1]
      BY <2>0, <3>1 DEF LockOK
    <3>3. caller[queue[i]].pc \in InLock /\ caller[queue[i]].pc \notin Holding
      BY <2>0, <2>1, <3>1, <3>2 DEF LockOK
    <3> QED BY <3>3 DEF InLock
  <2> QED BY <2>1, <2>2
<1> QED BY <1>1, InvariantHolds, PTL
=============================================================================
