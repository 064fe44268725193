--------------------------- MODULE KiroPoolProofs ---------------------------
(* Theorems of KiroPool, for any sets of accounts, models and requests. *)
EXTENDS KiroPool, FiniteSetTheorems, SequenceTheorems, TLAPS

-----------------------------------------------------------------------------
(* What the operators of AccountTable preserve, for every table.             *)

Table == [Accounts -> Row]

\* Every row of the table, and every lock of a row, has its type.
LEMMA RowFacts ==
    ASSUME NEW T \in Table, NEW a \in Accounts
    PROVE  /\ T[a] \in Row
           /\ T[a].level \in 0..MaxLevel
           /\ T[a].lastUsed \in Nat
           /\ T[a].consec \in Nat
           /\ T[a].locks \in [LockKeys -> Nat]
BY DEF Table, Row

\* A cooldown is never zero, nor longer than the cap (compute_backoff_ms).
LEMMA CooldownBound == ASSUME NEW l PROVE Cooldown(l) \in 1..Cap
BY BackoffAssumption DEF Cooldown

\* The next backoff level stays within the maximum (classify_upstream_error).
LEMMA NextLevelType == ASSUME NEW l \in 0..MaxLevel PROVE NextLevel(l) \in 0..MaxLevel
BY BackoffAssumption DEF NextLevel

\* So does the one a quota error leaves, and its lock is neither empty nor longer
\* than the cap.
LEMMA NewLevelType ==
    ASSUME NEW e, NEW l \in 0..MaxLevel PROVE NewLevel(e, l) \in 0..MaxLevel
BY NextLevelType, BackoffAssumption DEF NewLevel

LEMMA DelayBound == ASSUME NEW e, NEW l PROVE Delay(e, l) \in 1..Cap
BY CooldownBound, CooldownAssumption DEF Delay

\* The row of a new account, and of an id without a row, has its type.
LEMMA NewRowType ==
    /\ \A dated \in BOOLEAN : NewRow(dated) \in Row
    /\ \A mark \in {"unborn", "live", "gone"} : NoRow(mark) \in Row
<1>1. BackoffAssumption
  BY BackoffAssumption
<1>2. \A dated \in BOOLEAN : NewRow(dated) \in Row
  BY <1>1 DEF NewRow, Row, NoLocks, Plans, BackoffAssumption
<1> QED BY <1>2 DEF NoRow, Row

\* mark_account keeps the table well typed.
LEMMA MarkStatusType ==
    ASSUME NEW T \in Table, NEW a \in Accounts, NEW s \in {"active", "error"}
    PROVE  MarkStatus(T, a, s) \in Table
BY DEF MarkStatus, Table, Row

\* So does set_backoff_level.
LEMMA SetBackoffLevelType ==
    ASSUME NEW T \in Table, NEW a \in Accounts, NEW l \in 0..MaxLevel
    PROVE  SetBackoffLevel(T, a, l) \in Table
BY DEF SetBackoffLevel, Table, Row

\* So does set_model_lock.
LEMMA SetModelLockType ==
    ASSUME NEW T \in Table, NEW a \in Accounts, NEW key \in LockKeys,
           NEW until \in Nat, NEW t \in Nat
    PROVE  SetModelLock(T, a, key, until, t) \in Table
<1> DEFINE merged == [T[a].locks EXCEPT ![key] = until]
           kept   == [k \in LockKeys |-> IF merged[k] > t THEN merged[k] ELSE 0]
<1>1. merged \in [LockKeys -> Nat]
  BY RowFacts
<1>2. kept \in [LockKeys -> Nat]
  BY <1>1
<1> HIDE DEF kept
<1>3. SetModelLock(T, a, key, until, t) = IF Live(T, a) THEN [T EXCEPT ![a].locks = kept] ELSE T
  BY DEF SetModelLock, kept
<1> DEFINE row == [T[a] EXCEPT !.locks = kept]
<1>4. row \in Row
  BY <1>2, RowFacts DEF Row
<1>5. SetModelLock(T, a, key, until, t) = IF Live(T, a) THEN [T EXCEPT ![a] = row] ELSE T
  BY <1>3
<1> HIDE DEF row
<1> QED BY <1>4, <1>5 DEF Table

\* So do the writes of tokens, of a plan, and of a use.
LEMMA StoreTokensType ==
    ASSUME NEW T \in Table, NEW a \in Accounts, NEW dated \in BOOLEAN
    PROVE  StoreTokens(T, a, dated) \in Table
BY DEF StoreTokens, Table, Row

LEMMA StorePlanType ==
    ASSUME NEW T \in Table, NEW a \in Accounts, NEW p \in Plans PROVE StorePlan(T, a, p) \in Table
BY DEF StorePlan, Table, Row

LEMMA UseType ==
    ASSUME NEW T \in Table, NEW a \in Accounts, NEW reuse, NEW t \in Nat
    PROVE  Use(T, a, reuse, t) \in Table
<1>1. T[a].consec + 1 \in Nat /\ 1 \in Nat
  BY RowFacts
<1> DEFINE c == IF reuse THEN T[a].consec + 1 ELSE 1
<1>2. c \in Nat
  BY <1>1
<1>3. Use(T, a, reuse, t) = [T EXCEPT ![a] = [T[a] EXCEPT !.consec = c, !.lastUsed = t]]
  BY DEF Use, Table, Row
<1> HIDE DEF c
<1> QED BY <1>2, <1>3 DEF Table, Row

\* handle_success and handle_upstream_failure keep the table well typed.
LEMMA AfterSuccessType ==
    ASSUME NEW T \in Table, NEW a \in Accounts PROVE AfterSuccess(T, a) \in Table
<1>1. MarkStatus(T, a, "active") \in Table
  BY MarkStatusType
<1> QED BY <1>1, SetBackoffLevelType, BackoffAssumption DEF AfterSuccess

LEMMA AfterFailureType ==
    ASSUME NEW T \in Table, NEW a \in Accounts, NEW m \in Models, NEW e \in ErrorClasses,
           NEW t \in Nat
    PROVE  AfterFailure(T, a, m, e, t) \in Table
<1> DEFINE level  == NewLevel(e, T[a].level)
           delay  == Delay(e, T[a].level)
           locked == SetModelLock(T, a, m, t + delay, t)
           pinned == SetBackoffLevel(locked, a, level)
<1>1. level \in 0..MaxLevel /\ delay \in 1..Cap
  BY RowFacts, NewLevelType, DelayBound
<1> HIDE DEF level, delay
<1>2. t + delay \in Nat /\ m \in LockKeys
  BY <1>1, BackoffAssumption DEF LockKeys
<1>3. locked \in Table
  BY <1>2, SetModelLockType
<1> HIDE DEF locked
<1>4. pinned \in Table
  BY <1>1, <1>3, SetBackoffLevelType
<1> HIDE DEF pinned
<1>5. AfterFailure(T, a, m, e, t) \in {MarkStatus(pinned, a, "active"),
                                       MarkStatus(T, a, "error"),
                                       MarkStatus(T, a, "active")}
  BY DEF AfterFailure, pinned, locked, level, delay
<1>6. /\ MarkStatus(pinned, a, "active") \in Table
      /\ MarkStatus(T, a, "error") \in Table
      /\ MarkStatus(T, a, "active") \in Table
  BY <1>4, MarkStatusType
<1> QED BY <1>5, <1>6

\* reset-all keeps the table well typed.
LEMMA AfterResetType ==
    ASSUME NEW T \in Table, NEW t \in Nat PROVE AfterReset(T, t) \in Table
<1> DEFINE new(a) == SetBackoffLevel(
                         SetModelLock(MarkStatus(T, a, "active"), a, AllModels, 0, t), a, 0)
<1>1. ASSUME NEW a \in Accounts PROVE new(a)[a] \in Row
  <2>1. MarkStatus(T, a, "active") \in Table
    BY MarkStatusType
  <2>2. SetModelLock(MarkStatus(T, a, "active"), a, AllModels, 0, t) \in Table
    BY <2>1, SetModelLockType DEF LockKeys
  <2>3. new(a) \in Table
    BY <2>2, SetBackoffLevelType, BackoffAssumption
  <2> QED BY <2>3 DEF Table
<1>2. AfterReset(T, t) = [a \in Accounts |-> new(a)[a]]
  BY DEF AfterReset
<1> HIDE DEF new
<1> QED BY <1>1, <1>2 DEF Table

-----------------------------------------------------------------------------
(* What the writes leave alone.                                               *)

\* A write at time t that touches no missing row and removes none, sets no lock
\* beyond the cap and lifts no lock in force.
Keeps(T, U, t) ==
    \A a \in Accounts :
        /\ ~Live(T, a) => U[a] = T[a]
        /\ Live(T, a) => Live(U, a)
        /\ \A k \in LockKeys : /\ U[a].locks[k] <= T[a].locks[k] \/ U[a].locks[k] <= t + Cap
                               /\ T[a].locks[k] > t => U[a].locks[k] > t

\* Writes compose.
LEMMA KeepsTransitive ==
    ASSUME NEW T \in Table, NEW U \in Table, NEW V \in Table, NEW t \in Nat,
           Keeps(T, U, t), Keeps(U, V, t)
    PROVE  Keeps(T, V, t)
<1> SUFFICES ASSUME NEW a \in Accounts
             PROVE  /\ ~Live(T, a) => V[a] = T[a]
                    /\ Live(T, a) => Live(V, a)
                    /\ \A k \in LockKeys :
                          /\ V[a].locks[k] <= T[a].locks[k] \/ V[a].locks[k] <= t + Cap
                          /\ T[a].locks[k] > t => V[a].locks[k] > t
  BY DEF Keeps
<1>1. (~Live(T, a) => V[a] = T[a]) /\ (Live(T, a) => Live(V, a))
  BY DEF Keeps, Live
<1>2. ASSUME NEW k \in LockKeys
      PROVE  /\ V[a].locks[k] <= T[a].locks[k] \/ V[a].locks[k] <= t + Cap
             /\ T[a].locks[k] > t => V[a].locks[k] > t
  <2>1. T[a].locks[k] \in Nat /\ U[a].locks[k] \in Nat /\ V[a].locks[k] \in Nat
    BY RowFacts
  <2> QED BY <2>1, BackoffAssumption DEF Keeps
<1> QED BY <1>1, <1>2

\* A write of other columns than the locks, of a row that is there.
LEMMA KeepsSameLocks ==
    ASSUME NEW T \in Table, NEW U \in Table, NEW t \in Nat,
           \A a \in Accounts : /\ ~Live(T, a) => U[a] = T[a]
                               /\ Live(T, a) => Live(U, a)
                               /\ U[a].locks = T[a].locks
    PROVE  Keeps(T, U, t)
<1>1. \A a \in Accounts, k \in LockKeys : T[a].locks[k] \in Nat
  BY RowFacts
<1> QED BY <1>1 DEF Keeps

LEMMA MarkStatusKeeps ==
    ASSUME NEW T \in Table, NEW a \in Accounts, NEW s \in {"active", "error"}, NEW t \in Nat
    PROVE  Keeps(T, MarkStatus(T, a, s), t)
<1>1. MarkStatus(T, a, s) \in Table
  BY MarkStatusType
<1>2. \A b \in Accounts : /\ ~Live(T, b) => MarkStatus(T, a, s)[b] = T[b]
                          /\ Live(T, b) => Live(MarkStatus(T, a, s), b)
                          /\ MarkStatus(T, a, s)[b].locks = T[b].locks
  BY DEF MarkStatus, Live, Table, Row
<1> QED BY <1>1, <1>2, KeepsSameLocks

LEMMA SetBackoffLevelKeeps ==
    ASSUME NEW T \in Table, NEW a \in Accounts, NEW l \in 0..MaxLevel, NEW t \in Nat
    PROVE  Keeps(T, SetBackoffLevel(T, a, l), t)
<1>1. SetBackoffLevel(T, a, l) \in Table
  BY SetBackoffLevelType
<1>2. \A b \in Accounts : /\ ~Live(T, b) => SetBackoffLevel(T, a, l)[b] = T[b]
                          /\ Live(T, b) => Live(SetBackoffLevel(T, a, l), b)
                          /\ SetBackoffLevel(T, a, l)[b].locks = T[b].locks
  BY DEF SetBackoffLevel, Live, Table, Row
<1> QED BY <1>1, <1>2, KeepsSameLocks

LEMMA StoreTokensKeeps ==
    ASSUME NEW T \in Table, NEW a \in Accounts, NEW dated \in BOOLEAN, NEW t \in Nat
    PROVE  Keeps(T, StoreTokens(T, a, dated), t)
<1>1. StoreTokens(T, a, dated) \in Table
  BY StoreTokensType
<1>2. \A b \in Accounts : /\ ~Live(T, b) => StoreTokens(T, a, dated)[b] = T[b]
                          /\ Live(T, b) => Live(StoreTokens(T, a, dated), b)
                          /\ StoreTokens(T, a, dated)[b].locks = T[b].locks
  BY DEF StoreTokens, Live, Table, Row
<1> QED BY <1>1, <1>2, KeepsSameLocks

LEMMA StorePlanKeeps ==
    ASSUME NEW T \in Table, NEW a \in Accounts, NEW p \in Plans, NEW t \in Nat
    PROVE  Keeps(T, StorePlan(T, a, p), t)
<1>1. StorePlan(T, a, p) \in Table
  BY StorePlanType
<1>2. \A b \in Accounts : /\ ~Live(T, b) => StorePlan(T, a, p)[b] = T[b]
                          /\ Live(T, b) => Live(StorePlan(T, a, p), b)
                          /\ StorePlan(T, a, p)[b].locks = T[b].locks
  BY DEF StorePlan, Live, Table, Row
<1> QED BY <1>1, <1>2, KeepsSameLocks

\* A use is written to a row that is there (pick_account chose it).
LEMMA UseKeeps ==
    ASSUME NEW T \in Table, NEW a \in Accounts, Live(T, a), NEW reuse, NEW second \in Nat,
           NEW t \in Nat
    PROVE  Keeps(T, Use(T, a, reuse, second), t)
<1>1. Use(T, a, reuse, second) \in Table
  BY UseType
<1>2. \A b \in Accounts : /\ ~Live(T, b) => Use(T, a, reuse, second)[b] = T[b]
                          /\ Live(T, b) => Live(Use(T, a, reuse, second), b)
                          /\ Use(T, a, reuse, second)[b].locks = T[b].locks
  BY DEF Use, Live, Table, Row
<1> QED BY <1>1, <1>2, KeepsSameLocks

\* Setting a lock that lies ahead, but not beyond the cap, keeps the others.
LEMMA SetModelLockKeeps ==
    ASSUME NEW T \in Table, NEW a \in Accounts, NEW key \in LockKeys, NEW t \in Nat,
           NEW until \in (t + 1)..(t + Cap)
    PROVE  Keeps(T, SetModelLock(T, a, key, until, t), t)
<1> DEFINE merged == [T[a].locks EXCEPT ![key] = until]
           kept   == [k \in LockKeys |-> IF merged[k] > t THEN merged[k] ELSE 0]
           U      == SetModelLock(T, a, key, until, t)
<1>0. until \in Nat /\ t + Cap \in Nat
  BY BackoffAssumption
<1>1. \A k \in LockKeys : kept[k] = IF merged[k] > t THEN merged[k] ELSE 0
  OBVIOUS
<1>2. \A k \in LockKeys : merged[k] = IF k = key THEN until ELSE T[a].locks[k]
  BY RowFacts
<1>3. \A b \in Accounts, k \in LockKeys : T[b].locks[k] \in Nat
  BY RowFacts
<1>4. ASSUME NEW k \in LockKeys
      PROVE  /\ kept[k] <= T[a].locks[k] \/ kept[k] <= t + Cap
             /\ T[a].locks[k] > t => kept[k] > t
  BY <1>0, <1>1, <1>2, <1>3, BackoffAssumption
<1>5. U = IF Live(T, a) THEN [T EXCEPT ![a].locks = kept] ELSE T
  BY DEF SetModelLock
<1> HIDE DEF kept
<1>6. \A b \in Accounts : U[b] = IF b = a /\ Live(T, a) THEN [T[a] EXCEPT !.locks = kept] ELSE T[b]
  BY <1>5 DEF Table
<1>7. U[a].locks = IF Live(T, a) THEN kept ELSE T[a].locks
  BY <1>6 DEF Row, Table
<1> HIDE DEF U
<1>8. \A b \in Accounts : (~Live(T, b) => U[b] = T[b]) /\ (Live(T, b) => Live(U, b))
  BY <1>6 DEF Live, Table, Row
<1>9. ASSUME NEW b \in Accounts, NEW k \in LockKeys
      PROVE  /\ U[b].locks[k] <= T[b].locks[k] \/ U[b].locks[k] <= t + Cap
             /\ T[b].locks[k] > t => U[b].locks[k] > t
  <2>1. CASE b = a
    BY <2>1, <1>3, <1>4, <1>7
  <2>2. CASE b # a
    BY <2>2, <1>3, <1>6
  <2> QED BY <2>1, <2>2
<1> QED BY <1>8, <1>9 DEF Keeps, U

LEMMA AfterSuccessKeeps ==
    ASSUME NEW T \in Table, NEW a \in Accounts, NEW t \in Nat
    PROVE  Keeps(T, AfterSuccess(T, a), t)
<1>1. MarkStatus(T, a, "active") \in Table /\ Keeps(T, MarkStatus(T, a, "active"), t)
  BY MarkStatusType, MarkStatusKeeps
<1>2. AfterSuccess(T, a) \in Table /\ 0 \in 0..MaxLevel
  BY AfterSuccessType, BackoffAssumption
<1>3. Keeps(MarkStatus(T, a, "active"), AfterSuccess(T, a), t)
  BY <1>1, <1>2, SetBackoffLevelKeeps DEF AfterSuccess
<1> QED BY <1>1, <1>2, <1>3, KeepsTransitive

LEMMA AfterFailureKeeps ==
    ASSUME NEW T \in Table, NEW a \in Accounts, NEW m \in Models, NEW e \in ErrorClasses,
           NEW t \in Nat
    PROVE  Keeps(T, AfterFailure(T, a, m, e, t), t)
<1> DEFINE level  == NewLevel(e, T[a].level)
           delay  == Delay(e, T[a].level)
           locked == SetModelLock(T, a, m, t + delay, t)
           pinned == SetBackoffLevel(locked, a, level)
<1>1. level \in 0..MaxLevel /\ delay \in 1..Cap
  BY RowFacts, NewLevelType, DelayBound
<1> HIDE DEF level, delay
<1>2. t + delay \in (t + 1)..(t + Cap) /\ t + delay \in Nat /\ m \in LockKeys
  BY <1>1, BackoffAssumption DEF LockKeys
<1>3. locked \in Table /\ Keeps(T, locked, t)
  BY <1>2, SetModelLockType, SetModelLockKeeps
<1> HIDE DEF locked
<1>4. pinned \in Table /\ Keeps(T, pinned, t)
  BY <1>1, <1>3, SetBackoffLevelType, SetBackoffLevelKeeps, KeepsTransitive
<1> HIDE DEF pinned
<1>5. /\ MarkStatus(pinned, a, "active") \in Table
      /\ Keeps(pinned, MarkStatus(pinned, a, "active"), t)
  BY <1>4, MarkStatusType, MarkStatusKeeps
<1>6. Keeps(T, MarkStatus(pinned, a, "active"), t)
  BY <1>4, <1>5, KeepsTransitive
<1>7. Keeps(T, MarkStatus(T, a, "error"), t) /\ Keeps(T, MarkStatus(T, a, "active"), t)
  BY MarkStatusKeeps
<1>8. AfterFailure(T, a, m, e, t) \in {MarkStatus(pinned, a, "active"),
                                       MarkStatus(T, a, "error"),
                                       MarkStatus(T, a, "active")}
  BY DEF AfterFailure, pinned, locked, level, delay
<1> QED BY <1>6, <1>7, <1>8

\* A table that is left as it is keeps everything.
LEMMA KeepsItself ==
    ASSUME NEW T \in Table, NEW t \in Nat PROVE Keeps(T, T, t)
BY KeepsSameLocks

\* reset-all sets no lock, and touches no missing row.
LEMMA AfterResetKeeps ==
    ASSUME NEW T \in Table, NEW t \in Nat, NEW a \in Accounts
    PROVE  /\ ~Live(T, a) => AfterReset(T, t)[a] = T[a]
           /\ AfterReset(T, t)[a].row = T[a].row
           /\ \A k \in LockKeys : AfterReset(T, t)[a].locks[k] <= T[a].locks[k]
<1> DEFINE marked == MarkStatus(T, a, "active")
           merged == [T[a].locks EXCEPT ![AllModels] = 0]
           kept   == [k \in LockKeys |-> IF merged[k] > t THEN merged[k] ELSE 0]
           locked == SetModelLock(marked, a, AllModels, 0, t)
           new    == SetBackoffLevel(locked, a, 0)
<1>1. AfterReset(T, t)[a] = new[a]
  BY DEF AfterReset
<1>2. /\ marked \in Table /\ marked[a].row = T[a].row /\ marked[a].locks = T[a].locks
      /\ ~Live(T, a) => marked[a] = T[a]
  BY MarkStatusType DEF MarkStatus, Live, Table, Row
<1>3. \A k \in LockKeys : T[a].locks[k] \in Nat
  BY RowFacts
<1>4. T[a].locks \in [LockKeys -> Nat]
  BY RowFacts
<1>5. \A k \in LockKeys : merged[k] \in {0, T[a].locks[k]}
  BY <1>4
<1>6. \A k \in LockKeys : kept[k] <= T[a].locks[k]
  BY <1>3, <1>5
<1>7. locked = IF Live(marked, a) THEN [marked EXCEPT ![a].locks = kept] ELSE marked
  BY <1>2 DEF SetModelLock
<1> HIDE DEF kept, marked
<1>8. /\ locked \in Table /\ locked[a].row = T[a].row
      /\ locked[a].locks \in {kept, T[a].locks}
      /\ ~Live(T, a) => locked[a] = T[a]
  <2>1. locked \in Table
    BY <1>2, SetModelLockType DEF LockKeys
  <2> HIDE DEF locked
  <2> QED BY <2>1, <1>2, <1>7 DEF Live, Table, Row
<1> HIDE DEF locked
<1>9. /\ new[a].row = T[a].row
      /\ new[a].locks = locked[a].locks
      /\ ~Live(T, a) => new[a] = T[a]
  BY <1>8 DEF SetBackoffLevel, Live, Table, Row
<1> QED BY <1>1, <1>3, <1>6, <1>8, <1>9 DEF Live

-----------------------------------------------------------------------------
(* Which writes leave the tokens alone, and the account there or not.         *)

SameTokens(T, U) == \A a \in Accounts : /\ U[a].row = T[a].row
                                        /\ U[a].expiring = T[a].expiring

LEMMA MarkStatusTokens ==
    ASSUME NEW T \in Table, NEW a \in Accounts, NEW s \in {"active", "error"}
    PROVE  SameTokens(T, MarkStatus(T, a, s))
BY DEF MarkStatus, SameTokens, Table, Row

LEMMA SetBackoffLevelTokens ==
    ASSUME NEW T \in Table, NEW a \in Accounts, NEW l \in 0..MaxLevel
    PROVE  SameTokens(T, SetBackoffLevel(T, a, l))
BY DEF SetBackoffLevel, SameTokens, Table, Row

LEMMA SetModelLockTokens ==
    ASSUME NEW T \in Table, NEW a \in Accounts, NEW key, NEW until, NEW t
    PROVE  SameTokens(T, SetModelLock(T, a, key, until, t))
<1> DEFINE merged == [T[a].locks EXCEPT ![key] = until]
           kept   == [k \in LockKeys |-> IF merged[k] > t THEN merged[k] ELSE 0]
<1>1. SetModelLock(T, a, key, until, t) = IF Live(T, a) THEN [T EXCEPT ![a].locks = kept] ELSE T
  BY DEF SetModelLock
<1> HIDE DEF kept
<1> QED BY <1>1 DEF SameTokens, Table, Row

LEMMA StorePlanTokens ==
    ASSUME NEW T \in Table, NEW a \in Accounts, NEW p PROVE SameTokens(T, StorePlan(T, a, p))
BY DEF StorePlan, SameTokens, Table, Row

LEMMA UseTokens ==
    ASSUME NEW T \in Table, NEW a \in Accounts, NEW reuse, NEW t
    PROVE  SameTokens(T, Use(T, a, reuse, t))
BY DEF Use, SameTokens, Table, Row

LEMMA AfterSuccessTokens ==
    ASSUME NEW T \in Table, NEW a \in Accounts PROVE SameTokens(T, AfterSuccess(T, a))
<1> DEFINE U == MarkStatus(T, a, "active")
<1>1. U \in Table /\ SameTokens(T, U)
  BY MarkStatusType, MarkStatusTokens
<1> HIDE DEF U
<1>2. SameTokens(U, SetBackoffLevel(U, a, 0))
  BY <1>1, SetBackoffLevelTokens, BackoffAssumption
<1> QED BY <1>1, <1>2 DEF SameTokens, AfterSuccess, U

LEMMA AfterFailureTokens ==
    ASSUME NEW T \in Table, NEW a \in Accounts, NEW m \in Models, NEW e \in ErrorClasses,
           NEW t \in Nat
    PROVE  SameTokens(T, AfterFailure(T, a, m, e, t))
<1> DEFINE level  == NewLevel(e, T[a].level)
           delay  == Delay(e, T[a].level)
           locked == SetModelLock(T, a, m, t + delay, t)
           pinned == SetBackoffLevel(locked, a, level)
<1>1. level \in 0..MaxLevel /\ delay \in 1..Cap
  BY RowFacts, NewLevelType, DelayBound
<1> HIDE DEF level, delay
<1>2. t + delay \in Nat /\ m \in LockKeys
  BY <1>1, BackoffAssumption DEF LockKeys
<1>3. locked \in Table /\ SameTokens(T, locked)
  BY <1>2, SetModelLockType, SetModelLockTokens
<1> HIDE DEF locked
<1>4. pinned \in Table /\ SameTokens(locked, pinned)
  BY <1>1, <1>3, SetBackoffLevelType, SetBackoffLevelTokens
<1> HIDE DEF pinned
<1>5. /\ SameTokens(pinned, MarkStatus(pinned, a, "active"))
      /\ SameTokens(T, MarkStatus(T, a, "error"))
      /\ SameTokens(T, MarkStatus(T, a, "active"))
  BY <1>4, MarkStatusTokens
<1>6. AfterFailure(T, a, m, e, t) \in {MarkStatus(pinned, a, "active"),
                                       MarkStatus(T, a, "error"),
                                       MarkStatus(T, a, "active")}
  BY DEF AfterFailure, pinned, locked, level, delay
<1> QED BY <1>3, <1>4, <1>5, <1>6 DEF SameTokens

LEMMA AfterResetTokens ==
    ASSUME NEW T \in Table, NEW t \in Nat PROVE SameTokens(T, AfterReset(T, t))
<1> SUFFICES ASSUME NEW a \in Accounts
             PROVE  /\ AfterReset(T, t)[a].row = T[a].row
                    /\ AfterReset(T, t)[a].expiring = T[a].expiring
  BY DEF SameTokens
<1> DEFINE marked == MarkStatus(T, a, "active")
           locked == SetModelLock(marked, a, AllModels, 0, t)
           new    == SetBackoffLevel(locked, a, 0)
<1>1. AfterReset(T, t)[a] = new[a]
  BY DEF AfterReset
<1>2. marked \in Table /\ SameTokens(T, marked)
  BY MarkStatusType, MarkStatusTokens
<1> HIDE DEF marked
<1>3. locked \in Table /\ SameTokens(marked, locked)
  BY <1>2, SetModelLockType, SetModelLockTokens DEF LockKeys
<1> HIDE DEF locked
<1>4. SameTokens(locked, new)
  BY <1>3, SetBackoffLevelTokens, BackoffAssumption
<1> QED BY <1>1, <1>2, <1>3, <1>4 DEF SameTokens

-----------------------------------------------------------------------------
(* Types and the bookkeeping of the attempt loop.  TypeOK is not inductive on *)
(* its own: that attempt stays in range needs the exit of the loop, and the   *)
(* type of exclude needs the account of every attempt to be one.              *)

RequestOK(q) == q.pc \in InFlight =>
                    /\ q.model \in Models
                    /\ q.acct \in Accounts \ q.exclude
                    /\ IsFiniteSet(q.exclude)
                    /\ q.attempt = Cardinality(q.exclude) + 1

TaskOK(k) == k.pc \in Waiting => k.acct \in Accounts

Bookkeeping == /\ TypeOK
               /\ \A r \in Requests : RequestOK(req[r])
               /\ \A t \in Tasks : TaskOK(task[t])

USE DEF Table

\* The clock, and the seconds it shows, are numbers.
LEMMA ClockType ==
    ASSUME TypeOK PROVE now \in Nat /\ now \in Second..MaxTime /\ now \div Second \in Nat
<1>1. now \in Nat /\ now \in Second..MaxTime
  BY ClockAssumption DEF TypeOK
<1> HIDE DEF TypeOK
<1>2. now \div Second \in Nat
  BY <1>1, ClockAssumption
<1> QED BY <1>1, <1>2

\* A caller that waits does so on an account.
LEMMA WaitingAcct ==
    ASSUME Bookkeeping, NEW c \in Callers, Pc(c) \in Waiting
    PROVE  Acct(c) \in Accounts
<1>1. CASE c \in Requests
  BY <1>1 DEF Bookkeeping, RequestOK, Pc, Acct, InFlight, Trying
<1>2. CASE c \notin Requests
  BY <1>2 DEF Bookkeeping, TaskOK, Pc, Acct, Callers
<1> QED BY <1>1, <1>2

\* The request that is left when one is over.
LEMMA EndedOK ==
    ASSUME NEW m \in Models \cup {NoModel}, NEW result \in Results, NEW wait \in Nat
    PROVE  Ended(m, result, wait) \in Request /\ RequestOK(Ended(m, result, wait))
BY RetryAssumption DEF Ended, Request, RequestOK, InFlight, Trying, Waiting, Answering

\* Ending a request keeps every request in order.
LEMMA FinishOK ==
    ASSUME Bookkeeping, NEW r \in Requests, NEW q, q.model \in Models \cup {NoModel},
           NEW result \in Results, NEW wait \in Nat, Finish(r, q, result, wait)
    PROVE  /\ req' \in [Requests -> Request]
           /\ \A s \in Requests : RequestOK(req'[s])
BY EndedOK DEF Finish, Bookkeeping, TypeOK

\* What an attempt finds in the request: as many exclusions as attempts.
Ready(q) == /\ q \in Request
            /\ q.model \in Models
            /\ IsFiniteSet(q.exclude)
            /\ q.attempt = Cardinality(q.exclude)

\* The Retry-After header is a number, never below a second and never above the
\* delay it is made of, unless that is less than a second.
LEMMA HeaderBound ==
    ASSUME NEW delay \in Nat
    PROVE  /\ RetryAfter(delay) \in Nat
           /\ RetryAfter(delay) = Second \/ RetryAfter(delay) <= delay
<1>1. CASE delay < Second
  BY <1>1, ClockAssumption DEF RetryAfter
<1>2. CASE ~(delay < Second)
  <2>1. Second * (delay \div Second) \in Nat /\ Second * (delay \div Second) <= delay
    BY ClockAssumption
  <2> QED BY <1>2, <2>1 DEF RetryAfter
<1> QED BY <1>1, <1>2

\* A pick that finds nothing, for a request without an error, reads the clock
\* now or later, and what is left of the locks is a number.
LEMMA DelaysType ==
    ASSUME NEW T \in Table, NEW S \in SUBSET Accounts, NEW seen \in Nat, NEW told \in Nat,
           NEW d \in Delays(T, S, seen, told)
    PROVE  d \in Nat
<1>1. FallBack \in Nat
  BY ClockAssumption DEF FallBack
<1>2. \A u \in UNION {FutureExpiries(T[a], seen) : a \in S} : u \in Nat
  BY RowFacts DEF FutureExpiries
<1>3. CASE S = {} \/ \E a \in S : FutureExpiries(T[a], seen) = {}
  BY <1>1, <1>3 DEF Delays
<1>4. CASE ~(S = {} \/ \E a \in S : FutureExpiries(T[a], seen) = {})
  <2>1. PICK u \in Soonest(UNION {FutureExpiries(T[a], seen) : a \in S}) :
             d = IF u > told THEN u - told ELSE 0
    BY <1>4 DEF Delays
  <2>2. u \in Nat
    BY <1>2 DEF Soonest
  <2> QED BY <2>1, <2>2
<1> QED BY <1>3, <1>4

LEMMA HeaderOfAttempt ==
    ASSUME now \in Nat, NEW r, NEW q, NEW T \in Table, q.result = "none", NothingToPick(r, q, T)
    PROVE  \E wait \in Nat : Finish(r, q, "noacct", wait)
<1>1. PICK told \in now..(now + 1), seen \in now..(now + 1) :
           \E d \in Delays(T, Eligible(T, q.model, q.exclude), seen, told) :
               Finish(r, q, "noacct", RetryAfter(d))
  BY DEF NothingToPick
<1>2. PICK d \in Delays(T, Eligible(T, q.model, q.exclude), seen, told) :
           Finish(r, q, "noacct", RetryAfter(d))
  BY <1>1
<1>3. d \in Nat
  BY DelaysType DEF Eligible
<1> QED BY <1>2, <1>3, HeaderBound

\* The clock moves only in a pick that finds nothing, for a request without an
\* error, and stays within its bound.
LEMMA ClockOfAttempt ==
    ASSUME now \in Second..MaxTime, NEW r, NEW q, NEW T, NextAttempt(r, q, T)
    PROVE  /\ now' \in Second..MaxTime /\ now <= now'
           /\ now' = now \/ (accounts' = T /\ q.result = "none")
<1>1. CASE now' = now
  BY <1>1, ClockAssumption, BoundAssumption
<1>2. CASE q.result = "none" /\ NothingToPick(r, q, T)
  <2>1. PICK told \in now..(now + 1) : told <= MaxTime /\ now' = told /\ accounts' = T
    BY <1>2 DEF NothingToPick
  <2> QED BY <1>2, <2>1, ClockAssumption, BoundAssumption
<1> QED BY <1>1, <1>2 DEF NextAttempt, NothingToPick, PickAccount

\* One turn of the attempt loop keeps the bookkeeping.
LEMMA NextAttemptOK ==
    ASSUME Bookkeeping, NEW r \in Requests, NEW q, Ready(q), NEW T \in Table,
           NextAttempt(r, q, T)
    PROVE  /\ accounts' \in Table
           /\ queue' \in [Accounts -> Seq(Callers)]
           /\ req' \in [Requests -> Request]
           /\ \A s \in Requests : RequestOK(req'[s])
<1>0. /\ queue \in [Accounts -> Seq(Callers)] /\ now \in Nat /\ r \in Callers
      /\ req \in [Requests -> Request]
      /\ q.result \in Results /\ q.model \in Models \cup {NoModel}
  BY ClockType DEF Bookkeeping, TypeOK, Ready, Request, Callers
<1>1. CASE ~RetriesLeft(q)
  <2>1. accounts' = T /\ queue' = queue /\ Finish(r, q, q.result, 0)
    BY <1>1 DEF NextAttempt
  <2> QED BY <2>1, <1>0, FinishOK
<1>2. CASE RetriesLeft(q) /\ NothingToPick(r, q, T)
  <2>1. PICK result \in Results, wait \in Nat : Finish(r, q, result, wait)
    <3>1. CASE q.result = "none"
      <4>1. PICK wait \in Nat : Finish(r, q, "noacct", wait)
        BY <1>0, <1>2, <3>1, HeaderOfAttempt
      <4> QED BY <4>1 DEF Results
    <3>2. CASE q.result # "none"
      <4>1. Finish(r, q, q.result, 0)
        BY <1>2, <3>2 DEF NothingToPick
      <4> QED BY <4>1, <1>0
    <3> QED BY <3>1, <3>2
  <2>2. accounts' = T /\ queue' = queue
    BY <1>2 DEF NothingToPick
  <2> QED BY <2>1, <2>2, <1>0, FinishOK
<1>3. CASE RetriesLeft(q) /\ PickAccount(r, q, T)
  <2> DEFINE free == Available(T, q.model, q.exclude, now)
  <2>1. PICK a \in free, reuse \in BOOLEAN :
           LET pc == Enters(a, T[a].expiring) IN
           /\ accounts' = Use(T, a, reuse, now \div Second)
           /\ queue' = IF pc = "open" THEN queue ELSE [queue EXCEPT ![a] = Append(@, r)]
           /\ req' = [req EXCEPT ![r] = [q EXCEPT !.pc = pc, !.acct = a,
                                                  !.attempt = @ + 1, !.stale = T[a].expiring]]
    BY <1>3 DEF PickAccount
  <2>2. a \in Accounts \ q.exclude
    BY DEF Available, Eligible
  <2> DEFINE pc == Enters(a, T[a].expiring)
             next == [q EXCEPT !.pc = pc, !.acct = a, !.attempt = @ + 1, !.stale = T[a].expiring]
  <2>3. pc \in {"queued", "refresh", "open"}
    BY DEF Enters
  <2>4. accounts' \in Table
    <3>1. PICK t \in Nat : accounts' = Use(T, a, reuse, t)
      BY <2>1, ClockType DEF Bookkeeping
    <3> QED BY <2>2, <3>1, UseType
  <2>5. queue' \in [Accounts -> Seq(Callers)]
    BY <2>1, <2>2, <1>0
  <2>6. q.attempt + 1 \in 0..(MaxRetries + 1)
    BY <1>3, RetryAssumption DEF RetriesLeft, Ready, Request
  <2>7. T[a].expiring \in BOOLEAN
    BY <2>2 DEF Row
  <2>8. next \in Request
    BY <2>2, <2>3, <2>6, <2>7 DEF Ready, Request, InFlight, Trying, Waiting
  <2>9. RequestOK(next)
    BY <2>2, <2>3 DEF RequestOK, Ready, Request
  <2>10. req' = [req EXCEPT ![r] = next]
    BY <2>1
  <2> HIDE DEF next
  <2> QED BY <2>4, <2>5, <2>8, <2>9, <2>10, <1>0 DEF Bookkeeping
<1> QED BY <1>1, <1>2, <1>3 DEF NextAttempt

\* refresh_account returning to its caller keeps the bookkeeping.
LEMMA ReturnOK ==
    ASSUME Bookkeeping, NEW c \in Callers, Pc(c) \in Waiting, Holds(c, Acct(c)),
           NEW gotRow \in BOOLEAN, Return(c, Acct(c), gotRow)
    PROVE  /\ queue' \in [Accounts -> Seq(Callers)]
           /\ req' \in [Requests -> Request]
           /\ task' \in [Tasks -> Task]
           /\ \A r \in Requests : RequestOK(req'[r])
           /\ \A t \in Tasks : TaskOK(task'[t])
<1>1. Acct(c) \in Accounts
  BY WaitingAcct
<1>2. queue' \in [Accounts -> Seq(Callers)]
  BY <1>1 DEF Return, PassLock, Holds, Bookkeeping, TypeOK
<1>3. CASE c \in Requests
  <2> DEFINE next == [req[c] EXCEPT !.pc = "open", !.stale = FreshOrChosen(req[c].stale, gotRow)]
  <2>1. req' = [req EXCEPT ![c] = next] /\ task' = task
    BY <1>3 DEF Return
  <2>2. next \in Request
    BY <1>3 DEF FreshOrChosen, Bookkeeping, TypeOK, Request, InFlight, Trying
  <2>3. RequestOK(next)
    BY <1>3 DEF Bookkeeping, TypeOK, Request, RequestOK, Pc, InFlight, Trying
  <2> HIDE DEF next
  <2> QED BY <1>2, <2>1, <2>2, <2>3 DEF Bookkeeping, TypeOK
<1>4. CASE c \notin Requests
  <2>1. c \in Tasks /\ req' = req /\ task' = [task EXCEPT ![c] = Resting]
    BY <1>4 DEF Return, Callers
  <2>2. Resting \in Task /\ TaskOK(Resting)
    BY DEF Resting, Task, TaskOK, Waiting
  <2> QED BY <1>2, <2>1, <2>2 DEF Bookkeeping, TypeOK
<1> QED BY <1>3, <1>4

\* The first state has no request in flight.
\* What the process finds in the table.
LEMMA PriorRowType ==
    ASSUME NEW locks \in [Models -> PriorLocks]
    PROVE  /\ PriorRow(locks) \in Row /\ PriorRow(locks).row = "live"
           /\ \A k \in LockKeys : PriorRow(locks).locks[k] \in 0..(Second + Cap)
<1>1. /\ Second + Cap \in Nat /\ 0 \in 0..(Second + Cap)
      /\ \A t \in PriorLocks : t \in 0..(Second + Cap) /\ t \in Nat
  <2>1. Second \in Nat /\ Cap \in Nat
    BY ClockAssumption, BackoffAssumption
  <2>2. \A t \in PriorLocks : t \in 0..(Second + Cap)
    BY PriorAssumption
  <2> QED BY <2>1, <2>2
<1> DEFINE all == [k \in LockKeys |-> IF k \in Models THEN locks[k] ELSE 0]
<1>2. /\ all \in [LockKeys -> Nat]
      /\ \A k \in LockKeys : all[k] \in 0..(Second + Cap)
  BY <1>1
<1>3. /\ NewRow(TRUE) \in Row /\ NewRow(TRUE).row = "live"
      /\ \A k \in LockKeys : NewRow(TRUE).locks[k] = 0
  BY NewRowType DEF Plans, NewRow, NoLocks
<1>4. CASE PriorRow(locks) = NewRow(TRUE)
  BY <1>1, <1>3, <1>4
<1>5. CASE PriorRow(locks) # NewRow(TRUE)
  <2> DEFINE base == NewRow(TRUE)
  <2>0. base \in Row /\ base.row = "live" /\ all \in [LockKeys -> Nat]
    BY <1>2, <1>3
  <2> HIDE DEF all, base
  <2>1. PriorRow(locks) = [base EXCEPT !.locks = all, !.level = MaxLevel,
                                      !.lastUsed = 1, !.consec = 1]
    BY <1>5 DEF PriorRow, all, base
  <2>2. MaxLevel \in 0..MaxLevel
    BY BackoffAssumption
  <2>3. [base EXCEPT !.locks = all] \in Row
    BY <2>0 DEF Row
  <2>4. ASSUME NEW r \in Row
        PROVE  /\ [r EXCEPT !.level = MaxLevel] \in Row
               /\ [r EXCEPT !.lastUsed = 1] \in Row /\ [r EXCEPT !.consec = 1] \in Row
    BY <2>2, <2>4 DEF Row
  <2>5. PriorRow(locks) \in Row
    BY <2>1, <2>3, <2>4
  <2>6. PriorRow(locks).row = "live" /\ PriorRow(locks).locks = all
    BY <2>0, <2>1 DEF Row
  <2> QED BY <1>2, <2>5, <2>6
<1> QED BY <1>4, <1>5

LEMMA BookkeepingInit == Init => Bookkeeping
<1> SUFFICES ASSUME Init PROVE Bookkeeping
  OBVIOUS
<1>1. accounts \in Table
  BY NewRowType, PriorRowType DEF Init, Plans
<1>2. New \in Request /\ RequestOK(New)
  BY RetryAssumption DEF New, Request, Results, RequestOK, InFlight, Trying, Waiting, Answering
<1>3. Resting \in Task /\ TaskOK(Resting)
  BY DEF Resting, Task, TaskOK, Waiting
<1>4. /\ now = Second /\ events = 0
      /\ queue = [a \in Accounts |-> <<>>]
      /\ req = [r \in Requests |-> New]
      /\ task = [t \in Tasks |-> Resting]
  BY DEF Init
<1> QED BY <1>1, <1>2, <1>3, <1>4, BoundAssumption, ClockAssumption DEF Bookkeeping, TypeOK

\* Every step keeps the bookkeeping.
LEMMA BookkeepingStep == Bookkeeping /\ [Next]_vars => Bookkeeping'
<1> SUFFICES ASSUME Bookkeeping, [Next]_vars PROVE Bookkeeping'
  OBVIOUS
<1>0. /\ now \in Second..MaxTime /\ now \in Nat
      /\ accounts \in Table
      /\ queue \in [Accounts -> Seq(Callers)]
      /\ req \in [Requests -> Request] /\ \A r \in Requests : RequestOK(req[r])
      /\ task \in [Tasks -> Task] /\ \A t \in Tasks : TaskOK(task[t])
      /\ events \in 0..MaxEvents
  BY ClockAssumption DEF Bookkeeping, TypeOK
<1> USE <1>0
<1>1. ASSUME NEW r \in Requests, Arrive(r) PROVE Bookkeeping'
  <2>1. PICK m \in Models : NextAttempt(r, [New EXCEPT !.model = m], accounts)
    BY <1>1 DEF Arrive
  <2>2. Ready([New EXCEPT !.model = m])
    <3> DEFINE q == [New EXCEPT !.model = m]
    <3>1. New \in Request /\ New.exclude = {} /\ New.attempt = 0
      BY RetryAssumption DEF New, Request, Results
    <3>2. q \in Request /\ q.model = m /\ q.exclude = {} /\ q.attempt = 0
      BY <3>1 DEF Request
    <3>3. IsFiniteSet({}) /\ Cardinality({}) = 0
      BY FS_EmptySet
    <3> HIDE DEF q
    <3>4. Ready(q)
      BY <3>2, <3>3 DEF Ready
    <3> QED BY <3>4 DEF q
  <2>3. NextAttempt(r, [New EXCEPT !.model = m], accounts) /\ UNCHANGED <<task, events>>
    BY <1>1, <2>1 DEF Arrive
  <2>4. now' \in Second..MaxTime
    BY <2>3, ClockOfAttempt
  <2> QED BY <2>2, <2>3, <2>4, NextAttemptOK DEF Bookkeeping, TypeOK
<1>2. ASSUME NEW r \in Requests, UpstreamRefuses(r) PROVE Bookkeeping'
  <2>1. PICK e \in ErrorClasses :
           LET T == AfterFailure(accounts, req[r].acct, req[r].model, e, now)
               q == Excluding([req[r] EXCEPT !.result = e], req[r].acct)
           IN  IF e \in Rotatable
               THEN NextAttempt(r, q, T)
               ELSE accounts' = T /\ UNCHANGED <<now, queue>> /\ Finish(r, q, e, 0)
    BY <1>2 DEF UpstreamRefuses
  <2> DEFINE T == AfterFailure(accounts, req[r].acct, req[r].model, e, now)
             q == Excluding([req[r] EXCEPT !.result = e], req[r].acct)
  <2>2. /\ req[r].acct \in Accounts \ req[r].exclude
        /\ req[r].model \in Models
        /\ IsFiniteSet(req[r].exclude)
        /\ req[r].attempt = Cardinality(req[r].exclude) + 1
    BY <1>2 DEF UpstreamRefuses, RequestOK, InFlight, Trying
  <2>3. T \in Table
    BY <2>2, AfterFailureType
  <2>4. q \in Request /\ q.model = req[r].model /\ q.attempt = req[r].attempt
        /\ q.exclude = req[r].exclude \cup {req[r].acct} /\ e \in Results
    BY <2>2 DEF Excluding, Request, Results
  <2>5. IsFiniteSet(q.exclude) /\ Cardinality(q.exclude) = Cardinality(req[r].exclude) + 1
    <3> DEFINE S == req[r].exclude
               x == req[r].acct
    <3>1. IsFiniteSet(S) /\ x \notin S /\ q.exclude = S \cup {x}
      BY <2>2, <2>4
    <3> HIDE DEF S, x, q
    <3>2. IsFiniteSet(S \cup {x}) /\ Cardinality(S \cup {x}) = Cardinality(S) + 1
      BY <3>1, FS_AddElement
    <3> QED BY <3>1, <3>2 DEF S
  <2>6. Ready(q)
    BY <2>2, <2>4, <2>5 DEF Ready
  <2> HIDE DEF T, q
  <2>7. CASE NextAttempt(r, q, T)
    BY <1>2, <2>3, <2>6, <2>7, NextAttemptOK, ClockOfAttempt
       DEF UpstreamRefuses, Bookkeeping, TypeOK
  <2>8. CASE accounts' = T /\ UNCHANGED <<now, queue>> /\ Finish(r, q, e, 0)
    <3>1. q.model \in Models \cup {NoModel}
      BY <2>2, <2>4
    <3> QED BY <1>2, <2>3, <2>4, <2>8, <3>1, FinishOK DEF UpstreamRefuses, Bookkeeping, TypeOK
  <2> QED BY <2>1, <2>7, <2>8 DEF T, q
<1>3. ASSUME NEW r \in Requests, UpstreamAccepts(r) PROVE Bookkeeping'
  <2>1. PICK pc \in Answering : req' = [req EXCEPT ![r].pc = pc]
    BY <1>3 DEF UpstreamAccepts
  <2> DEFINE next == [req[r] EXCEPT !.pc = pc]
  <2>2. next \in Request
    BY DEF Request, InFlight
  <2>3. RequestOK(next)
    BY <1>3 DEF UpstreamAccepts, RequestOK, Request, InFlight, Trying
  <2>4. req' = [req EXCEPT ![r] = next]
    BY <2>1
  <2> HIDE DEF next
  <2> QED BY <1>3, <2>2, <2>3, <2>4 DEF UpstreamAccepts, Bookkeeping, TypeOK
<1>4. ASSUME NEW r \in Requests,
             TransportError(r) \/ Disconnect(r) \/ StreamEnds(r) \/ StreamFails(r)
      PROVE  Bookkeeping'
  <2>1. PICK result \in Results : Finish(r, req[r], result, 0)
    BY <1>4 DEF TransportError, Disconnect, StreamEnds, StreamFails, Results
  <2>2. req[r].model \in Models \cup {NoModel}
    BY DEF Request
  <2>3. req' \in [Requests -> Request] /\ \A s \in Requests : RequestOK(req'[s])
    BY <2>1, <2>2, FinishOK
  <2>4. accounts' \in Table
    <3>1. CASE accounts' = accounts
      BY <3>1
    <3>2. CASE StreamEnds(r) \/ StreamFails(r)
      <4>1. req[r].acct \in Accounts /\ req[r].model \in Models
        BY <3>2 DEF StreamEnds, StreamFails, RequestOK, InFlight
      <4>2. /\ AfterSuccess(accounts, req[r].acct) \in Table
            /\ AfterFailure(accounts, req[r].acct, req[r].model, "s5xx", now) \in Table
        BY <4>1, AfterSuccessType, AfterFailureType DEF ErrorClasses
      <4> QED BY <3>2, <4>2 DEF StreamEnds, StreamFails
    <3> QED BY <1>4, <3>1, <3>2 DEF TransportError, Disconnect
  <2>5. UNCHANGED <<now, queue, task, events>>
    BY <1>4 DEF TransportError, Disconnect, StreamEnds, StreamFails
  <2> QED BY <2>3, <2>4, <2>5 DEF Bookkeeping, TypeOK
<1>5. ASSUME NEW c \in Callers, Acquire(c) PROVE Bookkeeping'
  <2>1. Pc(c) = "queued" /\ Pc(c) \in Waiting /\ Holds(c, Acct(c)) /\ Acct(c) \in Accounts
    BY <1>5, WaitingAcct DEF Acquire, Waiting
  <2>2. UNCHANGED <<now, accounts, events>>
    BY <1>5 DEF Acquire
  <2>3. CASE MustRefresh(Acct(c)) /\ c \in Requests
    <3> DEFINE next == [req[c] EXCEPT !.pc = "refresh"]
    <3>1. req' = [req EXCEPT ![c] = next] /\ UNCHANGED <<task, queue>>
      BY <1>5, <2>3 DEF Acquire
    <3>2. next \in Request /\ RequestOK(next)
      BY <2>1, <2>3 DEF Request, RequestOK, Pc, InFlight, Trying, Waiting
    <3> HIDE DEF next
    <3> QED BY <2>2, <3>1, <3>2 DEF Bookkeeping, TypeOK
  <2>4. CASE MustRefresh(Acct(c)) /\ c \notin Requests
    <3> DEFINE next == [task[c] EXCEPT !.pc = "refresh"]
    <3>1. c \in Tasks /\ task' = [task EXCEPT ![c] = next] /\ UNCHANGED <<req, queue>>
      BY <1>5, <2>4 DEF Acquire, Callers
    <3>2. next \in Task /\ TaskOK(next)
      BY <2>1, <2>4, <3>1 DEF Task, TaskOK, Pc, Waiting
    <3> HIDE DEF next
    <3> QED BY <2>2, <3>1, <3>2 DEF Bookkeeping, TypeOK
  <2>5. CASE ~MustRefresh(Acct(c))
    <3>1. Return(c, Acct(c), Live(accounts, Acct(c))) /\ Live(accounts, Acct(c)) \in BOOLEAN
      BY <1>5, <2>5 DEF Acquire, Live
    <3> QED BY <2>1, <2>2, <3>1, ReturnOK DEF Bookkeeping, TypeOK
  <2> QED BY <2>3, <2>4, <2>5
<1>13. ASSUME NEW c \in Callers, RefreshRaises(c) PROVE Bookkeeping'
  <2>1. Holds(c, Acct(c)) /\ Acct(c) \in Accounts /\ UNCHANGED <<now, accounts, events>>
    BY <1>13, WaitingAcct DEF RefreshRaises, Waiting
  <2>2. queue' \in [Accounts -> Seq(Callers)]
    BY <1>13, <2>1 DEF RefreshRaises, PassLock, Holds
  <2>3. CASE c \in Requests
    <3>1. Finish(c, req[c], "raised", 0) /\ UNCHANGED task
      BY <1>13, <2>3 DEF RefreshRaises
    <3>2. req[c].model \in Models \cup {NoModel} /\ "raised" \in Results
      BY <2>3 DEF Request, Results
    <3> QED BY <2>1, <2>2, <2>3, <3>1, <3>2, FinishOK DEF Bookkeeping, TypeOK
  <2>4. CASE c \notin Requests
    <3>1. c \in Tasks /\ req' = req /\ task' = [task EXCEPT ![c] = Resting]
      BY <1>13, <2>4 DEF RefreshRaises, Callers
    <3>2. Resting \in Task /\ TaskOK(Resting)
      BY DEF Resting, Task, TaskOK, Waiting
    <3> QED BY <2>1, <2>2, <3>1, <3>2 DEF Bookkeeping, TypeOK
  <2> QED BY <2>3, <2>4
<1>6. ASSUME NEW c \in Callers, RefreshSucceeds(c) \/ RefreshFails(c) PROVE Bookkeeping'
  <2>1. Pc(c) \in Waiting /\ Holds(c, Acct(c)) /\ Acct(c) \in Accounts
    BY <1>6, WaitingAcct DEF RefreshSucceeds, RefreshFails, Waiting
  <2>2. UNCHANGED <<now, events>>
    BY <1>6 DEF RefreshSucceeds, RefreshFails
  <2>3. accounts' \in Table
    <3>1. \A dated \in BOOLEAN : StoreTokens(accounts, Acct(c), dated) \in Table
      BY <2>1, StoreTokensType
    <3>2. /\ \A dated \in BOOLEAN :
                MarkStatus(StoreTokens(accounts, Acct(c), dated), Acct(c), "active") \in Table
          /\ MarkStatus(accounts, Acct(c), "error") \in Table
      BY <2>1, <3>1, MarkStatusType
    <3> QED BY <1>6, <3>2 DEF RefreshSucceeds, RefreshFails
  <2>4. PICK gotRow \in BOOLEAN : Return(c, Acct(c), gotRow)
    BY <1>6 DEF RefreshSucceeds, RefreshFails, Live
  <2> QED BY <2>1, <2>2, <2>3, <2>4, ReturnOK DEF Bookkeeping, TypeOK
<1>7. ASSUME NEW t \in Tasks, NEW a \in Accounts, TaskStarts(t, a) PROVE Bookkeeping'
  <2> DEFINE pc == Enters(a, MustRefresh(a))
             next == [pc |-> pc, acct |-> a]
  <2>1. pc \in Waiting
    BY <1>7 DEF TaskStarts, Enters, Waiting
  <2>2. next \in Task /\ TaskOK(next)
    BY <2>1 DEF Task, TaskOK
  <2>3. /\ task' = [task EXCEPT ![t] = next]
        /\ queue' = [queue EXCEPT ![a] = Append(@, t)]
        /\ UNCHANGED <<now, accounts, req>>
        /\ events' \in 0..MaxEvents
    BY <1>7, BoundAssumption DEF TaskStarts, External
  <2>4. queue' \in [Accounts -> Seq(Callers)]
    BY <2>3 DEF Callers
  <2> HIDE DEF next
  <2> QED BY <2>2, <2>3, <2>4 DEF Bookkeeping, TypeOK
<1>8. ASSUME NEW a \in Accounts, AccountStep(a) PROVE Bookkeeping'
  <2>1. accounts' \in Table
    <3>1. CASE AddAccount(a)
      BY <3>1, NewRowType DEF AddAccount
    <3>2. CASE DeleteAccount(a)
      BY <3>2, NewRowType DEF DeleteAccount
    <3>3. CASE SyncUsage(a)
      BY <3>3, StorePlanType DEF SyncUsage
    <3>4. CASE TokenAges(a)
      BY <3>4 DEF TokenAges, Row
    <3> QED BY <1>8, <3>1, <3>2, <3>3, <3>4 DEF AccountStep
  <2>2. UNCHANGED <<now, queue, req, task>> /\ events' \in 0..MaxEvents
    BY <1>8, BoundAssumption
       DEF AccountStep, AddAccount, DeleteAccount, SyncUsage, TokenAges, External
  <2> QED BY <2>1, <2>2 DEF Bookkeeping, TypeOK
<1>9. CASE ResetAll
  <2>1. accounts' \in Table
    BY <1>9, AfterResetType DEF ResetAll
  <2>2. UNCHANGED <<now, queue, req, task>> /\ events' \in 0..MaxEvents
    BY <1>9, BoundAssumption DEF ResetAll, External
  <2> QED BY <2>1, <2>2 DEF Bookkeeping, TypeOK
<1>10. CASE Tick
  BY <1>10, BoundAssumption, ClockAssumption DEF Tick, Bookkeeping, TypeOK
<1>11. CASE Restart
  <2>1. Resting \in Task /\ TaskOK(Resting)
    BY DEF Resting, Task, TaskOK, Waiting
  <2>2. \A r \in Requests : req'[r] \in Request /\ RequestOK(req'[r])
    <3> SUFFICES ASSUME NEW r \in Requests PROVE req'[r] \in Request /\ RequestOK(req'[r])
      OBVIOUS
    <3>1. req[r].model \in Models \cup {NoModel} /\ "gone" \in Results
      BY DEF Request, Results
    <3>2. req'[r] \in {Ended(req[r].model, "gone", 0), req[r]}
      BY <1>11 DEF Restart
    <3> QED BY <3>1, <3>2, EndedOK
  <2>3. /\ req' \in [Requests -> Request]
        /\ task' \in [Tasks -> Task] /\ \A t \in Tasks : TaskOK(task'[t])
        /\ queue' \in [Accounts -> Seq(Callers)]
        /\ UNCHANGED <<now, accounts>> /\ events' \in 0..MaxEvents
    BY <1>11, <2>1, <2>2, BoundAssumption DEF Restart, External
  <2> QED BY <2>2, <2>3 DEF Bookkeeping, TypeOK
<1>12. CASE UNCHANGED vars
  BY <1>12 DEF vars, Bookkeeping, TypeOK
<1> QED BY <1>1, <1>2, <1>3, <1>4, <1>5, <1>6, <1>7, <1>8, <1>9, <1>10, <1>11, <1>12, <1>13
        DEF Next, RequestStep, RefreshStep

\* Every run keeps the bookkeeping of the attempt loop.
LEMMA BookkeepingHolds == Spec => []Bookkeeping
BY BookkeepingInit, BookkeepingStep, PTL DEF Spec

\* The rows, queues and requests have their types in every run, whatever the
\* number of accounts, requests and retries: attempt never passes max_retries + 1
\* and a backoff level never passes BACKOFF_MAX_LEVEL (pool.py, proxy/server.py).
THEOREM TypeCorrect == Spec => []TypeOK
BY BookkeepingHolds, PTL DEF Bookkeeping

\* The loop over attempts never sends a request twice to one account and counts
\* every account it has tried (proxy/server.py, _attempt_upstream).
THEOREM AttemptsAccounted == Spec => []AttemptAccounting
<1>1. Bookkeeping => AttemptAccounting
  BY DEF Bookkeeping, RequestOK, AttemptAccounting
<1> QED BY <1>1, BookkeepingHolds, PTL

-----------------------------------------------------------------------------
(* Locks and deleted accounts.  That every lock lies within the cap of now is *)
(* inductive with the fact that an account not yet added has an empty row.    *)

Unborn == \A a \in Accounts : accounts[a].row = "unborn" => accounts[a] = NoRow("unborn")

\* The rows without an account hold no lock.
LEMMA NewRowFacts ==
    ASSUME NEW dated \in BOOLEAN
    PROVE  NewRow(dated).row = "live" /\ \A k \in LockKeys : NewRow(dated).locks[k] = 0
BY DEF NewRow, NoLocks

LEMMA NoRowFacts ==
    ASSUME NEW mark \in {"unborn", "live", "gone"}
    PROVE  NoRow(mark).row = mark /\ \A k \in LockKeys : NoRow(mark).locks[k] = 0
<1>1. NewRow(TRUE) \in Row /\ NewRow(TRUE).locks = NoLocks
  BY NewRowType DEF NewRow
<1>2. NoRow(mark).row = mark /\ NoRow(mark).locks = NoLocks
  BY <1>1 DEF NoRow, Row
<1> QED BY <1>2 DEF NoLocks

\* One turn of the attempt loop writes at most a use of an account that is there.
LEMMA NextAttemptKeeps ==
    ASSUME Bookkeeping, NEW r \in Requests, NEW q, NEW T \in Table, NextAttempt(r, q, T)
    PROVE  Keeps(T, accounts', now)
<1>0. now \in Nat
  BY ClockType DEF Bookkeeping
<1>1. CASE accounts' = T
  BY <1>0, <1>1, KeepsItself
<1>2. CASE PickAccount(r, q, T)
  <2>1. PICK a \in Available(T, q.model, q.exclude, now), reuse \in BOOLEAN, t \in Nat :
           accounts' = Use(T, a, reuse, t)
    BY <1>2, ClockType DEF PickAccount, Bookkeeping
  <2>2. a \in Accounts /\ Live(T, a)
    BY DEF Available, Eligible
  <2> QED BY <1>0, <2>1, <2>2, UseKeeps
<1> QED BY <1>1, <1>2 DEF NextAttempt, NothingToPick

\* Only a reset, a new account and a deletion do more than the writes of a
\* request, a refresh or a usage sync.
LEMMA StepKeeps ==
    ASSUME Bookkeeping, [Next]_vars, ~ResetAll,
           \A a \in Accounts : ~AddAccount(a) /\ ~DeleteAccount(a)
    PROVE  Keeps(accounts, accounts', now)
<1>0. accounts \in Table /\ now \in Nat /\ Bookkeeping'
  BY BookkeepingStep, ClockType DEF Bookkeeping, TypeOK
<1>1. CASE accounts' = accounts
  BY <1>0, <1>1, KeepsItself
<1>2. ASSUME NEW r \in Requests, Arrive(r) PROVE Keeps(accounts, accounts', now)
  <2>1. PICK m \in Models : NextAttempt(r, [New EXCEPT !.model = m], accounts)
    BY <1>2 DEF Arrive
  <2> QED BY <1>0, <2>1, NextAttemptKeeps
<1>3. ASSUME NEW r \in Requests, UpstreamRefuses(r) PROVE Keeps(accounts, accounts', now)
  <2>1. PICK e \in ErrorClasses :
           LET T == AfterFailure(accounts, req[r].acct, req[r].model, e, now)
               q == Excluding([req[r] EXCEPT !.result = e], req[r].acct)
           IN  IF e \in Rotatable
               THEN NextAttempt(r, q, T)
               ELSE accounts' = T /\ UNCHANGED <<now, queue>> /\ Finish(r, q, e, 0)
    BY <1>3 DEF UpstreamRefuses
  <2> DEFINE T == AfterFailure(accounts, req[r].acct, req[r].model, e, now)
             q == Excluding([req[r] EXCEPT !.result = e], req[r].acct)
  <2>2. req[r].acct \in Accounts /\ req[r].model \in Models
    BY <1>3 DEF UpstreamRefuses, Bookkeeping, RequestOK, InFlight, Trying
  <2>3. T \in Table /\ Keeps(accounts, T, now)
    BY <1>0, <2>2, AfterFailureType, AfterFailureKeeps
  <2> HIDE DEF T, q
  <2>4. CASE NextAttempt(r, q, T)
    <3>1. Keeps(T, accounts', now) /\ accounts' \in Table
      BY <1>0, <2>3, <2>4, NextAttemptKeeps DEF Bookkeeping, TypeOK
    <3> QED BY <1>0, <2>3, <3>1, KeepsTransitive
  <2>5. CASE accounts' = T
    BY <2>3, <2>5
  <2> QED BY <2>1, <2>4, <2>5 DEF T, q
<1>4. ASSUME NEW r \in Requests, StreamEnds(r) \/ StreamFails(r)
      PROVE  Keeps(accounts, accounts', now)
  <2>1. req[r].acct \in Accounts /\ req[r].model \in Models /\ "s5xx" \in ErrorClasses
    BY <1>4 DEF StreamEnds, StreamFails, Bookkeeping, RequestOK, InFlight, ErrorClasses
  <2>2. /\ Keeps(accounts, AfterSuccess(accounts, req[r].acct), now)
        /\ Keeps(accounts, AfterFailure(accounts, req[r].acct, req[r].model, "s5xx", now), now)
    BY <1>0, <2>1, AfterSuccessKeeps, AfterFailureKeeps
  <2> QED BY <1>4, <2>2 DEF StreamEnds, StreamFails
<1>5. ASSUME NEW c \in Callers, RefreshSucceeds(c) \/ RefreshFails(c)
      PROVE  Keeps(accounts, accounts', now)
  <2>1. Acct(c) \in Accounts
    BY <1>5, WaitingAcct DEF RefreshSucceeds, RefreshFails, Waiting
  <2>2. CASE accounts' = MarkStatus(accounts, Acct(c), "error")
    BY <1>0, <2>1, <2>2, MarkStatusKeeps
  <2>3. ASSUME NEW dated \in BOOLEAN,
               accounts' = MarkStatus(StoreTokens(accounts, Acct(c), dated), Acct(c), "active")
        PROVE  Keeps(accounts, accounts', now)
    <3> DEFINE U == StoreTokens(accounts, Acct(c), dated)
    <3>1. U \in Table /\ Keeps(accounts, U, now)
      BY <1>0, <2>1, StoreTokensType, StoreTokensKeeps
    <3> HIDE DEF U
    <3>2. accounts' \in Table /\ Keeps(U, accounts', now)
      BY <1>0, <2>1, <2>3, <3>1, MarkStatusType, MarkStatusKeeps DEF U
    <3> QED BY <1>0, <3>1, <3>2, KeepsTransitive
  <2> QED BY <1>5, <2>2, <2>3 DEF RefreshSucceeds, RefreshFails
<1>6. ASSUME NEW a \in Accounts, SyncUsage(a) PROVE Keeps(accounts, accounts', now)
  BY <1>0, <1>6, StorePlanKeeps DEF SyncUsage
<1>7. ASSUME NEW a \in Accounts, TokenAges(a) PROVE Keeps(accounts, accounts', now)
  <2>1. accounts' \in Table
    BY <1>0 DEF Bookkeeping, TypeOK
  <2>2. \A b \in Accounts : /\ ~Live(accounts, b) => accounts'[b] = accounts[b]
                            /\ Live(accounts, b) => Live(accounts', b)
                            /\ accounts'[b].locks = accounts[b].locks
    BY <1>0, <1>7 DEF TokenAges, Live, Row
  <2> QED BY <1>0, <2>1, <2>2, KeepsSameLocks
<1> QED BY <1>1, <1>2, <1>3, <1>4, <1>5, <1>6, <1>7
        DEF Next, RequestStep, RefreshStep, AccountStep, UpstreamAccepts, TransportError,
            Disconnect, Acquire, RefreshRaises, TaskStarts, Tick, Restart, vars

\* A reset touches no missing row and only takes locks away.
LEMMA ResetOK ==
    ASSUME Bookkeeping, ResetAll, NEW a \in Accounts
    PROVE  /\ ~Live(accounts, a) => accounts'[a] = accounts[a]
           /\ accounts'[a].row = accounts[a].row
           /\ \A k \in LockKeys : accounts'[a].locks[k] <= accounts[a].locks[k]
<1>1. accounts \in Table /\ now \in Nat /\ accounts' = AfterReset(accounts, now)
  BY ClockType DEF Bookkeeping, TypeOK, ResetAll
<1>2. /\ ~Live(accounts, a) => AfterReset(accounts, now)[a] = accounts[a]
      /\ AfterReset(accounts, now)[a].row = accounts[a].row
      /\ \A k \in LockKeys : AfterReset(accounts, now)[a].locks[k] <= accounts[a].locks[k]
  BY <1>1, AfterResetKeeps
<1> QED BY <1>1, <1>2

\* What one step does to the row of an account, by the kind of step.
LEMMA RowStep ==
    ASSUME Bookkeeping, [Next]_vars, NEW a \in Accounts
    PROVE  \/ Keeps(accounts, accounts', now)
           \/ ResetAll
           \/ UNCHANGED now /\ accounts'[a] = accounts[a]
           \/ /\ UNCHANGED now /\ accounts[a].row = "unborn"
              /\ \E dated \in BOOLEAN : accounts'[a] = NewRow(dated)
           \/ UNCHANGED now /\ Live(accounts, a) /\ accounts'[a] = NoRow("gone")
<1>0. accounts \in Table
  BY DEF Bookkeeping, TypeOK
<1>1. ASSUME NEW b \in Accounts, AddAccount(b)
      PROVE  \/ UNCHANGED now /\ accounts'[a] = accounts[a]
             \/ /\ UNCHANGED now /\ accounts[a].row = "unborn"
                /\ \E dated \in BOOLEAN : accounts'[a] = NewRow(dated)
  <2>1. PICK dated \in BOOLEAN : accounts' = [accounts EXCEPT ![b] = NewRow(dated)]
    BY <1>1 DEF AddAccount
  <2>2. UNCHANGED now /\ accounts[b].row = "unborn"
    BY <1>1 DEF AddAccount
  <2>3. CASE a = b
    BY <1>0, <2>1, <2>2, <2>3 DEF Table
  <2>4. CASE a # b
    BY <1>0, <2>1, <2>2, <2>4 DEF Table
  <2> QED BY <2>3, <2>4
<1>2. ASSUME NEW b \in Accounts, DeleteAccount(b)
      PROVE  \/ UNCHANGED now /\ accounts'[a] = accounts[a]
             \/ UNCHANGED now /\ Live(accounts, a) /\ accounts'[a] = NoRow("gone")
  <2>1. /\ UNCHANGED now /\ Live(accounts, b)
        /\ accounts' = [accounts EXCEPT ![b] = NoRow("gone")]
    BY <1>2 DEF DeleteAccount
  <2>2. CASE a = b
    BY <1>0, <2>1, <2>2 DEF Table
  <2>3. CASE a # b
    BY <1>0, <2>1, <2>3 DEF Table
  <2> QED BY <2>2, <2>3
<1> QED BY <1>1, <1>2, StepKeeps

\* The clock never runs backwards, and only moves while the table rests.
LEMMA ClockStep ==
    ASSUME Bookkeeping, [Next]_vars
    PROVE  /\ now \in Nat /\ now' \in Nat /\ now <= now'
           /\ now' = now \/ accounts' = accounts
<1>1. now \in Second..MaxTime /\ now \in Nat
  BY ClockAssumption DEF Bookkeeping, TypeOK
<1>2. ASSUME NEW r \in Requests, RequestStep(r)
      PROVE  /\ now' \in Second..MaxTime /\ now <= now'
             /\ now' = now \/ accounts' = accounts
  <2>1. CASE Arrive(r)
    <3>1. PICK m \in Models : NextAttempt(r, [New EXCEPT !.model = m], accounts)
      BY <2>1 DEF Arrive
    <3> QED BY <1>1, <3>1, ClockOfAttempt
  <2>2. CASE UpstreamRefuses(r)
    <3>1. PICK e \in ErrorClasses :
             LET T == AfterFailure(accounts, req[r].acct, req[r].model, e, now)
                 q == Excluding([req[r] EXCEPT !.result = e], req[r].acct)
             IN  NextAttempt(r, q, T) \/ UNCHANGED now
      BY <2>2 DEF UpstreamRefuses
    <3> DEFINE q == Excluding([req[r] EXCEPT !.result = e], req[r].acct)
    <3>2. q.result # "none"
      BY <1>1 DEF Excluding, Request, ErrorClasses, Quotas, Bookkeeping, TypeOK
    <3> HIDE DEF q
    <3>3. now' = now
      BY <1>1, <3>1, <3>2, ClockOfAttempt DEF q
    <3> QED BY <1>1, <3>3
  <2>3. CASE UNCHANGED now
    BY <1>1, <2>3
  <2> QED BY <1>2, <2>1, <2>2, <2>3
          DEF RequestStep, UpstreamAccepts, TransportError, Disconnect, StreamEnds, StreamFails
<1>3. ASSUME NEW c \in Callers, RefreshStep(c) PROVE UNCHANGED now
  BY <1>3 DEF RefreshStep, Acquire, RefreshSucceeds, RefreshFails, RefreshRaises
<1>4. ASSUME NEW a \in Accounts, AccountStep(a) PROVE UNCHANGED now
  BY <1>4 DEF AccountStep, AddAccount, DeleteAccount, SyncUsage, TokenAges
<1>5. Tick => now' = now + 1 /\ UNCHANGED accounts
  BY DEF Tick
<1> QED BY <1>1, <1>2, <1>3, <1>4, <1>5 DEF Next, TaskStarts, ResetAll, Restart, vars

LockInv == Bookkeeping /\ Unborn /\ LockBound

LEMMA LockInvInit == Init => LockInv
<1> SUFFICES ASSUME Init PROVE LockInv
  OBVIOUS
<1>1. Bookkeeping
  BY BookkeepingInit
<1>2. ASSUME NEW a \in Accounts
      PROVE  \/ \E locks \in [Models -> PriorLocks] : accounts[a] = PriorRow(locks)
             \/ accounts[a] = NoRow("unborn")
  BY DEF Init
<1>4. Unborn
  BY <1>2, PriorRowType DEF Unborn
<1>5. now \in Nat
  BY ClockAssumption DEF Init
<1>6. LockBound
  <2>1. now = Second /\ Second + Cap \in Nat
    BY ClockAssumption, BackoffAssumption DEF Init
  <2>2. \A a \in Accounts, k \in LockKeys : accounts[a].locks[k] \in 0..(Second + Cap)
    BY <1>2, <2>1, PriorRowType, NoRowFacts
  <2> QED BY <2>1, <2>2 DEF LockBound
<1> QED BY <1>1, <1>4, <1>6 DEF LockInv

LEMMA LockInvStep == LockInv /\ [Next]_vars => LockInv'
<1> SUFFICES ASSUME LockInv, [Next]_vars PROVE LockInv'
  OBVIOUS
<1>1. Bookkeeping /\ Bookkeeping' /\ Unborn
  BY BookkeepingStep DEF LockInv
<1>2. now \in Nat /\ now' \in Nat /\ now <= now' /\ Cap \in Nat
  BY <1>1, ClockStep, BackoffAssumption
<1>3. \A a \in Accounts, k \in LockKeys : /\ accounts[a].locks[k] \in Nat
                                          /\ accounts'[a].locks[k] \in Nat
                                          /\ accounts[a].locks[k] <= now + Cap
  <2>1. accounts \in Table /\ accounts' \in Table
    BY <1>1 DEF Bookkeeping, TypeOK
  <2> QED BY <2>1, RowFacts DEF LockInv, LockBound
<1>4. ASSUME NEW a \in Accounts
      PROVE  /\ accounts'[a].row = "unborn" => accounts'[a] = NoRow("unborn")
             /\ \A k \in LockKeys : accounts'[a].locks[k] <= now' + Cap
  <2>0. accounts[a].row = "unborn" => accounts[a] = NoRow("unborn")
    BY <1>1 DEF Unborn
  <2>1. CASE Keeps(accounts, accounts', now)
    BY <1>2, <1>3, <2>0, <2>1 DEF Keeps, Live
  <2>2. CASE ResetAll
    BY <1>1, <1>2, <1>3, <2>0, <2>2, ResetOK DEF Live
  <2>3. CASE accounts'[a] = accounts[a]
    BY <1>2, <1>3, <2>0, <2>3
  <2>4. CASE \E dated \in BOOLEAN : accounts'[a] = NewRow(dated)
    <3>1. PICK dated \in BOOLEAN : accounts'[a] = NewRow(dated)
      BY <2>4
    <3>2. /\ accounts'[a].row = "live"
          /\ \A k \in LockKeys : accounts'[a].locks[k] = 0
      BY <3>1, NewRowFacts
    <3> QED BY <1>2, <3>2
  <2>5. CASE accounts'[a] = NoRow("gone")
    <3>1. /\ accounts'[a].row = "gone"
          /\ \A k \in LockKeys : accounts'[a].locks[k] = 0
      BY <2>5, NoRowFacts
    <3> QED BY <1>2, <3>1
  <2> QED BY <1>1, <2>1, <2>2, <2>3, <2>4, <2>5, RowStep
<1> QED BY <1>1, <1>4 DEF LockInv, Unborn, LockBound

LEMMA LockInvHolds == Spec => []LockInv
BY LockInvInit, LockInvStep, PTL DEF Spec

\* However long the failures go on, no account is ever locked for longer than
\* BACKOFF_MAX_MS from now (pool.py, _cooldown_ms and handle_upstream_failure).
THEOREM LocksBounded == Spec => []LockBound
BY LockInvHolds, PTL DEF LockInv

\* Short of reset-all, nothing lifts a lock that is in force on an account that
\* is still there: no success, failure, refresh, usage sync or restart.
THEOREM LocksHeld == Spec => LocksHold
<1> DEFINE Held == ~ResetAll =>
               \A a \in Accounts, k \in LockKeys :
                  accounts[a].locks[k] > now' /\ Live(accounts', a) => accounts'[a].locks[k] > now'
<1>1. LockInv /\ [Next]_vars => [Held]_vars
  <2> SUFFICES ASSUME LockInv, [Next]_vars, ~ResetAll, NEW a \in Accounts, NEW k \in LockKeys,
                      accounts[a].locks[k] > now', Live(accounts', a)
               PROVE  accounts'[a].locks[k] > now'
    OBVIOUS
  <2>1. Bookkeeping /\ Unborn
    BY DEF LockInv
  <2>2. CASE accounts' = accounts
    BY <2>2
  <2>3. CASE now' = now
    <3>1. CASE Keeps(accounts, accounts', now)
      BY <2>3, <3>1 DEF Keeps
    <3>2. CASE accounts'[a] = accounts[a]
      BY <3>2
    <3>3. CASE accounts[a].row = "unborn"
      <4>1. accounts[a].locks[k] = 0 /\ now' \in Nat
        BY <2>1, <3>3, NoRowFacts, ClockStep DEF Unborn
      <4> QED BY <4>1
    <3>4. CASE accounts'[a] = NoRow("gone")
      BY <3>4, NoRowFacts DEF Live
    <3> QED BY <2>1, <3>1, <3>2, <3>3, <3>4, RowStep
  <2> QED BY <2>1, <2>2, <2>3, ClockStep
<1> QED BY <1>1, LockInvHolds, PTL DEF Spec, LocksHold

\* A refresh, a result or a usage sync that arrives after an account was deleted
\* finds no row and writes none (storage.py: every write is an UPDATE).
THEOREM GoneStays == Spec => GoneStaysGone
<1> DEFINE Stays == \A a \in Accounts :
                       accounts[a].row = "gone" => accounts'[a] = accounts[a]
<1>1. Bookkeeping /\ [Next]_vars => [Stays]_vars
  <2> SUFFICES ASSUME Bookkeeping, [Next]_vars, NEW a \in Accounts, accounts[a].row = "gone"
               PROVE  accounts'[a] = accounts[a]
    OBVIOUS
  <2>1. CASE Keeps(accounts, accounts', now)
    BY <2>1 DEF Keeps, Live
  <2>2. CASE ResetAll
    BY <2>2, ResetOK DEF Live
  <2> QED BY <2>1, <2>2, RowStep DEF Live
<1> QED BY <1>1, BookkeepingHolds, PTL DEF Spec, GoneStaysGone

-----------------------------------------------------------------------------
(* The refresh locks.                                                         *)

\* Nobody works on an account that has not been added yet.
KnownAccounts == \A c \in Callers : Pc(c) \in Waiting => accounts[Acct(c)].row # "unborn"

RefreshInv == Bookkeeping /\ RefreshLocks /\ NoSecondRefresh /\ KnownAccounts

\* q lists every caller of W once, and no other.
Exact(q, W) ==
    \A c \in Callers : IF c \in W
                       THEN \E i \in 1..Len(q) : \A j \in 1..Len(q) : q[j] = c <=> j = i
                       ELSE \A i \in 1..Len(q) : q[i] # c

LEMMA ExactAppend ==
    ASSUME NEW q \in Seq(Callers), NEW W, Exact(q, W), NEW c \in Callers, c \notin W
    PROVE  Exact(Append(q, c), W \cup {c})
<1> DEFINE t == Append(q, c)
<1>1. /\ Len(t) = Len(q) + 1 /\ Len(q) \in Nat
      /\ \A i \in 1..Len(q) : t[i] = q[i]
      /\ t[Len(q) + 1] = c
  BY AppendProperties, LenProperties
<1>2. \A i \in 1..Len(q) : q[i] # c
  BY DEF Exact
<1> HIDE DEF t
<1> SUFFICES ASSUME NEW d \in Callers
             PROVE  IF d \in W \cup {c}
                    THEN \E i \in 1..Len(t) : \A j \in 1..Len(t) : t[j] = d <=> j = i
                    ELSE \A i \in 1..Len(t) : t[i] # d
  BY DEF Exact, t
<1>3. CASE d = c
  <2>1. Len(q) + 1 \in 1..Len(t)
    BY <1>1
  <2>2. \A j \in 1..Len(t) : t[j] = c <=> j = Len(q) + 1
    BY <1>1, <1>2
  <2> QED BY <1>3, <2>1, <2>2
<1>4. CASE d # c /\ d \in W
  <2>1. PICK i \in 1..Len(q) : \A j \in 1..Len(q) : q[j] = d <=> j = i
    BY <1>4 DEF Exact
  <2>2. i \in 1..Len(t) /\ \A j \in 1..Len(t) : t[j] = d <=> j = i
    BY <1>1, <1>4, <2>1
  <2> QED BY <1>4, <2>2
<1>5. CASE d # c /\ d \notin W
  <2>1. \A i \in 1..Len(q) : q[i] # d
    BY <1>5 DEF Exact
  <2>2. \A i \in 1..Len(t) : t[i] # d
    BY <1>1, <1>5, <2>1
  <2> QED BY <1>5, <2>2
<1> QED BY <1>3, <1>4, <1>5

LEMMA ExactTail ==
    ASSUME NEW q \in Seq(Callers), q # <<>>, NEW W, Exact(q, W)
    PROVE  Exact(Tail(q), W \ {Head(q)})
<1> DEFINE t == Tail(q)
<1>1. /\ Len(t) = Len(q) - 1 /\ Len(q) \in Nat \ {0}
      /\ \A i \in 1..Len(t) : t[i] = q[i + 1]
      /\ Head(q) = q[1]
  BY HeadTailProperties, EmptySeq
<1>2. q[1] \in Callers
  BY <1>1, ElementOfSeq
<1> HIDE DEF t
<1>3. q[1] \in W /\ \A j \in 1..Len(q) : q[j] = q[1] => j = 1
  <2>1. 1 \in 1..Len(q)
    BY <1>1
  <2>2. q[1] \in W
    BY <1>2, <2>1 DEF Exact
  <2>3. PICK i \in 1..Len(q) : \A j \in 1..Len(q) : q[j] = q[1] <=> j = i
    BY <1>2, <2>2 DEF Exact
  <2>4. i = 1
    BY <2>1, <2>3
  <2> QED BY <2>2, <2>3, <2>4
<1> SUFFICES ASSUME NEW d \in Callers
             PROVE  IF d \in W \ {q[1]}
                    THEN \E i \in 1..Len(t) : \A j \in 1..Len(t) : t[j] = d <=> j = i
                    ELSE \A i \in 1..Len(t) : t[i] # d
  BY <1>1 DEF Exact, t
<1>4. ASSUME NEW i \in 1..Len(t) PROVE i + 1 \in 1..Len(q) /\ t[i] = q[i + 1] /\ i + 1 # 1
  BY <1>1
<1>5. CASE d = q[1]
  BY <1>3, <1>4, <1>5
<1>6. CASE d # q[1] /\ d \in W
  <2>1. PICK i \in 1..Len(q) : \A j \in 1..Len(q) : q[j] = d <=> j = i
    BY <1>6 DEF Exact
  <2>2. i # 1 /\ i - 1 \in 1..Len(t)
    BY <1>1, <1>6, <2>1
  <2>3. ASSUME NEW j \in 1..Len(t) PROVE t[j] = d <=> j = i - 1
    <3>1. j + 1 \in 1..Len(q) /\ t[j] = q[j + 1]
      BY <1>4
    <3>2. q[j + 1] = d <=> j + 1 = i
      BY <2>1, <3>1
    <3> QED BY <3>1, <3>2
  <2> QED BY <1>6, <2>2, <2>3
<1>7. CASE d # q[1] /\ d \notin W
  <2>1. \A i \in 1..Len(q) : q[i] # d
    BY <1>7 DEF Exact
  <2> QED BY <1>4, <1>7, <2>1
<1> QED BY <1>5, <1>6, <1>7

\* Who waits for, or holds, the lock of an account.
Waiters(a) == {c \in Callers : Pc(c) \in Waiting /\ Acct(c) = a}

LEMMA LocksAreExact ==
    ASSUME RefreshLocks, NEW a \in Accounts PROVE Exact(queue[a], Waiters(a))
BY DEF RefreshLocks, InQueueOnce, Exact, Waiters

\* The same of the next state.
LEMMA ExactAreLocks ==
    ASSUME \A a \in Accounts : Exact(queue'[a], Waiters(a)'),
           \A c \in Callers : Pc(c)' = "refresh" => Holds(c, Acct(c))'
    PROVE  RefreshLocks'
BY DEF RefreshLocks, InQueueOnce, Exact, Waiters

SameCaller(d) == Pc(d)' = Pc(d) /\ Acct(d)' = Acct(d)

\* d is outside the locks and stays there.
StaysOut(d) == Pc(d) \notin Waiting /\ Pc(d)' \notin Waiting

\* Nobody enters or leaves a lock.
LEMMA QuietLocks ==
    ASSUME Bookkeeping, RefreshLocks, UNCHANGED queue,
           \A d \in Callers : SameCaller(d) \/ StaysOut(d)
    PROVE  RefreshLocks'
<1>1. \A a \in Accounts : Waiters(a)' = Waiters(a)
  BY DEF Waiters, SameCaller, StaysOut
<1>2. \A a \in Accounts : Exact(queue'[a], Waiters(a)')
  BY <1>1, LocksAreExact
<1>3. \A c \in Callers : Pc(c)' = "refresh" => Holds(c, Acct(c))'
  BY DEF RefreshLocks, SameCaller, StaysOut, Waiting, Holds
<1> QED BY <1>2, <1>3, ExactAreLocks

\* One caller enters the queue of an account: a free lock is its own at once.
LEMMA JoinLocks ==
    ASSUME Bookkeeping, RefreshLocks, NEW c \in Callers, NEW a \in Accounts,
           Pc(c) \notin Waiting, Pc(c)' \in Waiting, Acct(c)' = a,
           Pc(c)' = "refresh" => queue[a] = <<>>,
           \A d \in Callers \ {c} : SameCaller(d),
           queue' = [queue EXCEPT ![a] = Append(@, c)]
    PROVE  RefreshLocks'
<1>0. queue \in [Accounts -> Seq(Callers)] /\ queue[a] \in Seq(Callers)
  BY DEF Bookkeeping, TypeOK
<1>1. /\ queue'[a] = Append(queue[a], c)
      /\ \A b \in Accounts \ {a} : queue'[b] = queue[b]
  BY <1>0
<1>2. /\ Waiters(a)' = Waiters(a) \cup {c} /\ c \notin Waiters(a)
      /\ \A b \in Accounts \ {a} : Waiters(b)' = Waiters(b)
  BY DEF Waiters, SameCaller
<1>3. Exact(Append(queue[a], c), Waiters(a) \cup {c})
  BY <1>0, <1>2, LocksAreExact, ExactAppend
<1>4. \A b \in Accounts : Exact(queue'[b], Waiters(b)')
  BY <1>1, <1>2, <1>3, LocksAreExact
<1>5. ASSUME NEW d \in Callers, Pc(d)' = "refresh" PROVE Holds(d, Acct(d))'
  <2>1. CASE d = c
    <3>1. queue[a] = <<>>
      BY <1>5, <2>1
    <3>2. queue'[a] # <<>> /\ Head(queue'[a]) = c
      BY <1>0, <1>1, <3>1, AppendProperties, HeadTailAppend
    <3> QED BY <2>1, <3>2 DEF Holds
  <2>2. CASE d # c
    <3>1. Pc(d) = "refresh" /\ Acct(d)' = Acct(d) /\ Holds(d, Acct(d))
      BY <1>5, <2>2 DEF SameCaller, RefreshLocks
    <3>2. Acct(d) \in Accounts
      BY <3>1, WaitingAcct DEF Waiting
    <3>3. Append(queue[a], c) # <<>>
          /\ (queue[a] # <<>> => Head(Append(queue[a], c)) = Head(queue[a]))
      BY <1>0, AppendProperties, HeadTailAppend
    <3>4. queue'[Acct(d)] # <<>> /\ Head(queue'[Acct(d)]) = d
      BY <1>1, <3>1, <3>2, <3>3 DEF Holds
    <3> QED BY <3>1, <3>4 DEF Holds
  <2> QED BY <2>1, <2>2
<1> QED BY <1>4, <1>5, ExactAreLocks

\* The holder leaves, and the lock passes on.
LEMMA LeaveLocks ==
    ASSUME Bookkeeping, RefreshLocks, NEW c \in Callers, Pc(c) \in Waiting, Holds(c, Acct(c)),
           Pc(c)' \notin Waiting,
           \A d \in Callers \ {c} : SameCaller(d),
           queue' = PassLock(Acct(c))
    PROVE  RefreshLocks'
<1>0. PICK a \in Accounts : a = Acct(c)
  BY WaitingAcct
<1>1. /\ queue \in [Accounts -> Seq(Callers)] /\ queue[a] \in Seq(Callers)
      /\ queue[a] # <<>> /\ Head(queue[a]) = c
  BY <1>0 DEF Bookkeeping, TypeOK, Holds
<1>2. /\ queue'[a] = Tail(queue[a])
      /\ \A b \in Accounts \ {a} : queue'[b] = queue[b]
  BY <1>0, <1>1 DEF PassLock
<1>3. /\ Waiters(a)' = Waiters(a) \ {c}
      /\ \A b \in Accounts \ {a} : Waiters(b)' = Waiters(b)
  BY <1>0 DEF Waiters, SameCaller
<1>4. Exact(Tail(queue[a]), Waiters(a) \ {c})
  BY <1>1, LocksAreExact, ExactTail
<1>5. \A b \in Accounts : Exact(queue'[b], Waiters(b)')
  BY <1>2, <1>3, <1>4, LocksAreExact
<1>6. ASSUME NEW d \in Callers, Pc(d)' = "refresh" PROVE Holds(d, Acct(d))'
  <2>1. d # c /\ Pc(d) = "refresh" /\ Acct(d)' = Acct(d) /\ Holds(d, Acct(d))
    BY <1>6 DEF SameCaller, RefreshLocks, Waiting
  <2>2. Acct(d) \in Accounts
    BY <2>1, WaitingAcct DEF Waiting
  <2>3. Acct(d) # a
    BY <1>1, <2>1 DEF Holds
  <2> QED BY <1>2, <2>1, <2>2, <2>3 DEF Holds
<1> QED BY <1>5, <1>6, ExactAreLocks

\* The holder goes to the token endpoint.
LEMMA HolderRefreshes ==
    ASSUME Bookkeeping, RefreshLocks, NEW c \in Callers, Pc(c) \in Waiting, Holds(c, Acct(c)),
           Pc(c)' = "refresh", Acct(c)' = Acct(c),
           \A d \in Callers \ {c} : SameCaller(d), UNCHANGED queue
    PROVE  RefreshLocks'
<1>1. \A a \in Accounts : Waiters(a)' = Waiters(a)
  BY DEF Waiters, SameCaller, Waiting
<1>2. \A a \in Accounts : Exact(queue'[a], Waiters(a)')
  BY <1>1, LocksAreExact
<1>3. \A d \in Callers : Pc(d)' = "refresh" => Holds(d, Acct(d))'
  BY DEF RefreshLocks, SameCaller, Holds
<1> QED BY <1>2, <1>3, ExactAreLocks

-----------------------------------------------------------------------------
(* What the steps do to the refresh locks.                                    *)

\* A request that begins an attempt, or is over: it stays out of the locks, with
\* a token it need not refresh, or enters the one of the account it was given.
Moves(r) ==
    \/ /\ UNCHANGED queue /\ req'[r].pc \notin Waiting
       /\ req[r].pc # "open" /\ req'[r].pc = "open" => ~req'[r].stale
    \/ \E a \in Accounts :
          /\ queue' = [queue EXCEPT ![a] = Append(@, r)]
          /\ req'[r].pc \in Waiting /\ req'[r].acct = a
          /\ Live(accounts, a)
          /\ req'[r].pc = "refresh" => queue[a] = <<>> /\ accounts[a].expiring

LEMMA FinishMoves ==
    ASSUME Bookkeeping, NEW r \in Requests, NEW q, NEW result, NEW wait,
           Finish(r, q, result, wait), UNCHANGED queue
    PROVE  Moves(r) /\ \A s \in Requests \ {r} : req'[s] = req[s]
<1>1. Ended(q.model, result, wait).pc = "done"
  BY DEF Ended
<1>2. /\ req'[r] = Ended(q.model, result, wait)
      /\ \A s \in Requests \ {r} : req'[s] = req[s]
  BY DEF Finish, Bookkeeping, TypeOK
<1> QED BY <1>1, <1>2 DEF Moves, Waiting

LEMMA NextAttemptMoves ==
    ASSUME Bookkeeping, NEW r \in Requests, NEW q \in Request, NEW T \in Table,
           SameTokens(accounts, T), NextAttempt(r, q, T)
    PROVE  /\ Moves(r) /\ SameTokens(accounts, accounts')
           /\ \A s \in Requests \ {r} : req'[s] = req[s]
<1>1. CASE ~RetriesLeft(q) \/ NothingToPick(r, q, T)
  <2>1. accounts' = T /\ UNCHANGED queue /\ \E result, wait : Finish(r, q, result, wait)
    <3>1. CASE ~RetriesLeft(q)
      BY <3>1 DEF NextAttempt, NothingToPick, RetriesLeft
    <3>2. CASE NothingToPick(r, q, T)
      <4>1. accounts' = T /\ UNCHANGED queue
        BY <3>2 DEF NothingToPick
      <4>2. \E result, wait : Finish(r, q, result, wait)
        BY <3>2 DEF NothingToPick
      <4> QED BY <4>1, <4>2
    <3> QED BY <1>1, <3>1, <3>2
  <2>2. PICK result, wait : Finish(r, q, result, wait)
    BY <2>1
  <2> QED BY <2>1, <2>2, FinishMoves
<1>2. CASE PickAccount(r, q, T)
  <2>1. PICK a \in Available(T, q.model, q.exclude, now), reuse \in BOOLEAN :
           LET pc == Enters(a, T[a].expiring) IN
           /\ accounts' = Use(T, a, reuse, now \div Second)
           /\ queue' = IF pc = "open" THEN queue ELSE [queue EXCEPT ![a] = Append(@, r)]
           /\ req' = [req EXCEPT ![r] = [q EXCEPT !.pc = pc, !.acct = a,
                                                  !.attempt = @ + 1, !.stale = T[a].expiring]]
    BY <1>2 DEF PickAccount
  <2>2. a \in Accounts /\ Live(T, a)
    BY DEF Available, Eligible
  <2> DEFINE pc == Enters(a, T[a].expiring)
             next == [q EXCEPT !.pc = pc, !.acct = a, !.attempt = @ + 1, !.stale = T[a].expiring]
  <2>3. /\ pc \in {"queued", "refresh", "open"}
        /\ pc = "refresh" => queue[a] = <<>> /\ T[a].expiring
        /\ pc = "open" => ~T[a].expiring
    <3>1. CASE queue[a] # <<>>
      BY <3>1 DEF Enters
    <3>2. CASE queue[a] = <<>> /\ T[a].expiring
      BY <3>2 DEF Enters
    <3>3. CASE queue[a] = <<>> /\ ~T[a].expiring
      BY <3>3 DEF Enters
    <3> QED BY <3>1, <3>2, <3>3
  <2>4. /\ req' = [req EXCEPT ![r] = next]
        /\ queue' = IF pc = "open" THEN queue ELSE [queue EXCEPT ![a] = Append(@, r)]
        /\ accounts' = Use(T, a, reuse, now \div Second)
    BY <2>1
  <2> HIDE DEF pc
  <2>5. next.pc = pc /\ next.acct = a /\ next.stale = T[a].expiring
    BY DEF Request
  <2> HIDE DEF next
  <2>6. req'[r] = next /\ \A s \in Requests \ {r} : req'[s] = req[s]
    BY <2>4 DEF Bookkeeping, TypeOK
  <2>7. Live(accounts, a) /\ accounts[a].expiring = T[a].expiring
    BY <2>2 DEF SameTokens, Live
  <2>8. SameTokens(accounts, accounts')
    <3>1. SameTokens(T, Use(T, a, reuse, now \div Second))
      BY <2>2, UseTokens
    <3> QED BY <3>1, <2>4 DEF SameTokens
  <2>9. Moves(r)
    <3>1. CASE pc = "open"
      <4>1. UNCHANGED queue /\ req'[r].pc = "open" /\ ~req'[r].stale
        BY <3>1, <2>3, <2>4, <2>5, <2>6
      <4> QED BY <4>1 DEF Moves, Waiting
    <3>2. CASE pc # "open"
      <4>1. /\ queue' = [queue EXCEPT ![a] = Append(@, r)]
            /\ req'[r].pc \in Waiting /\ req'[r].acct = a
            /\ req'[r].pc = "refresh" => queue[a] = <<>> /\ accounts[a].expiring
        BY <3>2, <2>3, <2>4, <2>5, <2>6, <2>7 DEF Waiting
      <4> QED BY <4>1, <2>2, <2>7 DEF Moves
    <3> QED BY <3>1, <3>2
  <2> QED BY <2>6, <2>8, <2>9
<1> QED BY <1>1, <1>2 DEF NextAttempt

\* Every step of a request's own.
LEMMA RequestMoves ==
    ASSUME Bookkeeping, NEW r \in Requests, RequestStep(r)
    PROVE  /\ Moves(r) /\ SameTokens(accounts, accounts')
           /\ req[r].pc \notin Waiting /\ UNCHANGED task
           /\ \A s \in Requests \ {r} : req'[s] = req[s]
<1>0. /\ accounts \in Table /\ now \in Nat /\ req \in [Requests -> Request]
      /\ RequestOK(req[r]) /\ SameTokens(accounts, accounts)
  BY ClockType DEF Bookkeeping, TypeOK, SameTokens
<1>1. CASE Arrive(r)
  <2>1. PICK m \in Models : NextAttempt(r, [New EXCEPT !.model = m], accounts)
    BY <1>1 DEF Arrive
  <2> DEFINE q == [New EXCEPT !.model = m]
  <2>2. New \in Request
    BY RetryAssumption DEF New, Request, Results
  <2>3. q \in Request
    BY <2>2 DEF Request
  <2>4. NextAttempt(r, q, accounts)
    BY <2>1
  <2> HIDE DEF q
  <2> QED BY <1>0, <1>1, <2>3, <2>4, NextAttemptMoves DEF Arrive, Waiting
<1>2. CASE UpstreamRefuses(r)
  <2>1. PICK e \in ErrorClasses :
           LET T == AfterFailure(accounts, req[r].acct, req[r].model, e, now)
               q == Excluding([req[r] EXCEPT !.result = e], req[r].acct)
           IN  IF e \in Rotatable
               THEN NextAttempt(r, q, T)
               ELSE accounts' = T /\ UNCHANGED <<now, queue>> /\ Finish(r, q, e, 0)
    BY <1>2 DEF UpstreamRefuses
  <2> DEFINE T == AfterFailure(accounts, req[r].acct, req[r].model, e, now)
             q == Excluding([req[r] EXCEPT !.result = e], req[r].acct)
  <2>2. req[r].acct \in Accounts /\ req[r].model \in Models /\ req[r].pc \notin Waiting
        /\ UNCHANGED task
    BY <1>0, <1>2 DEF UpstreamRefuses, RequestOK, InFlight, Trying, Waiting
  <2>3. T \in Table /\ SameTokens(accounts, T)
    BY <1>0, <2>2, AfterFailureType, AfterFailureTokens
  <2>4. q \in Request
    BY <1>0, <2>2 DEF Excluding, Request, Results
  <2> HIDE DEF T, q
  <2>5. CASE NextAttempt(r, q, T)
    BY <2>2, <2>3, <2>4, <2>5, NextAttemptMoves
  <2>6. CASE accounts' = T /\ UNCHANGED queue /\ Finish(r, q, e, 0)
    BY <2>2, <2>3, <2>6, FinishMoves
  <2> QED BY <2>1, <2>5, <2>6 DEF T, q
<1>3. CASE UpstreamAccepts(r)
  <2>1. PICK pc \in Answering : req' = [req EXCEPT ![r].pc = pc]
    BY <1>3 DEF UpstreamAccepts
  <2>2. req'[r].pc = pc /\ \A s \in Requests \ {r} : req'[s] = req[s]
    BY <1>0, <2>1 DEF Request
  <2>3. pc \notin Waiting /\ pc # "open"
    BY DEF Answering, Waiting
  <2>4. req[r].pc \notin Waiting /\ UNCHANGED <<accounts, queue, task>>
    BY <1>3 DEF UpstreamAccepts, Waiting
  <2>5. Moves(r)
    BY <2>2, <2>3, <2>4 DEF Moves
  <2> QED BY <1>0, <2>2, <2>4, <2>5
<1>4. CASE TransportError(r) \/ Disconnect(r) \/ StreamEnds(r) \/ StreamFails(r)
  <2>1. PICK result : Finish(r, req[r], result, 0)
    BY <1>4 DEF TransportError, Disconnect, StreamEnds, StreamFails
  <2>2. UNCHANGED <<queue, task>> /\ req[r].pc \in {"open", "stream", "collect"}
    BY <1>4 DEF TransportError, Disconnect, StreamEnds, StreamFails, Answering
  <2>3. SameTokens(accounts, accounts')
    <3>1. req[r].acct \in Accounts /\ req[r].model \in Models
      BY <1>0, <2>2 DEF RequestOK, InFlight, Trying, Answering
    <3>2. /\ SameTokens(accounts, AfterSuccess(accounts, req[r].acct))
          /\ SameTokens(accounts, AfterFailure(accounts, req[r].acct, req[r].model, "s5xx", now))
      BY <1>0, <3>1, AfterSuccessTokens, AfterFailureTokens DEF ErrorClasses
    <3> QED BY <1>0, <1>4, <3>2 DEF TransportError, Disconnect, StreamEnds, StreamFails
  <2>4. Moves(r) /\ \A s \in Requests \ {r} : req'[s] = req[s]
    BY <2>1, <2>2, FinishMoves
  <2> QED BY <2>2, <2>3, <2>4 DEF Waiting
<1> QED BY <1>1, <1>2, <1>3, <1>4 DEF RequestStep

\* refresh_account returning: its caller is out of the locks, nobody else moves.
LEMMA ReturnMoves ==
    ASSUME Bookkeeping, NEW c \in Callers, NEW gotRow, Return(c, Acct(c), gotRow)
    PROVE  /\ Pc(c)' \notin Waiting /\ queue' = PassLock(Acct(c))
           /\ \A d \in Callers \ {c} : SameCaller(d)
<1>0. req \in [Requests -> Request] /\ task \in [Tasks -> Task]
  BY DEF Bookkeeping, TypeOK
<1>1. CASE c \in Requests
  <2> DEFINE next == [req[c] EXCEPT !.pc = "open", !.stale = FreshOrChosen(req[c].stale, gotRow)]
  <2>1. req' = [req EXCEPT ![c] = next] /\ task' = task /\ queue' = PassLock(Acct(c))
    BY <1>1 DEF Return
  <2>2. next.pc = "open"
    BY <1>0, <1>1 DEF Request
  <2> HIDE DEF next
  <2> QED BY <1>0, <1>1, <2>1, <2>2 DEF Pc, Acct, SameCaller, Waiting
<1>2. CASE c \notin Requests
  <2>1. /\ c \in Tasks /\ req' = req /\ task' = [task EXCEPT ![c] = Resting]
        /\ queue' = PassLock(Acct(c))
    BY <1>2 DEF Return, Callers
  <2>2. Resting.pc = "idle"
    BY DEF Resting
  <2>3. Pc(c)' = "idle"
    BY <1>0, <1>2, <2>1, <2>2 DEF Pc
  <2>4. \A d \in Callers \ {c} : SameCaller(d)
    BY <1>0, <2>1 DEF Pc, Acct, SameCaller, Callers
  <2> QED BY <2>1, <2>3, <2>4 DEF Waiting
<1> QED BY <1>1, <1>2

\* And so it is when the exception of an answer that cannot be read leaves it.
LEMMA RaiseMoves ==
    ASSUME Bookkeeping, NEW c \in Callers, RefreshRaises(c)
    PROVE  /\ Pc(c)' \notin Waiting /\ queue' = PassLock(Acct(c)) /\ UNCHANGED accounts
           /\ c \in Requests => req'[c].pc = "done"
           /\ \A d \in Callers \ {c} : SameCaller(d)
<1>0. /\ req \in [Requests -> Request] /\ task \in [Tasks -> Task]
      /\ queue' = PassLock(Acct(c)) /\ UNCHANGED accounts
  BY DEF Bookkeeping, TypeOK, RefreshRaises
<1>1. CASE c \in Requests
  <2>1. req' = [req EXCEPT ![c] = Ended(req[c].model, "raised", 0)] /\ task' = task
    BY <1>1 DEF RefreshRaises, Finish
  <2>2. Ended(req[c].model, "raised", 0).pc = "done"
    BY DEF Ended
  <2> QED BY <1>0, <1>1, <2>1, <2>2 DEF Pc, Acct, SameCaller, Waiting
<1>2. CASE c \notin Requests
  <2>1. c \in Tasks /\ req' = req /\ task' = [task EXCEPT ![c] = Resting]
    BY <1>2 DEF RefreshRaises, Callers
  <2>2. Resting.pc = "idle"
    BY DEF Resting
  <2>3. Pc(c)' = "idle"
    BY <1>0, <1>2, <2>1, <2>2 DEF Pc
  <2>4. \A d \in Callers \ {c} : SameCaller(d)
    BY <1>0, <2>1 DEF Pc, Acct, SameCaller, Callers
  <2> QED BY <1>0, <1>2, <2>3, <2>4 DEF Waiting
<1> QED BY <1>1, <1>2

\* What a refresh does to the table: tokens of its own account, no row.
Renews(c) == \A a \in Accounts : /\ accounts'[a].row = accounts[a].row
                                 /\ a # Acct(c) => accounts'[a].expiring = accounts[a].expiring

LEMMA RefreshMoves ==
    ASSUME Bookkeeping, NEW c \in Callers, RefreshStep(c)
    PROVE  /\ Pc(c) \in Waiting /\ Holds(c, Acct(c)) /\ Renews(c)
           /\ \A d \in Callers \ {c} : SameCaller(d)
           /\ \/ /\ UNCHANGED <<queue, accounts>> /\ MustRefresh(Acct(c))
                 /\ Pc(c)' = "refresh" /\ Acct(c)' = Acct(c)
              \/ Pc(c)' \notin Waiting /\ queue' = PassLock(Acct(c))
<1>0. /\ req \in [Requests -> Request] /\ task \in [Tasks -> Task] /\ accounts \in Table
      /\ Pc(c) \in Waiting /\ Holds(c, Acct(c)) /\ Acct(c) \in Accounts
  <2>1. Pc(c) \in Waiting /\ Holds(c, Acct(c))
    BY DEF RefreshStep, Acquire, RefreshSucceeds, RefreshFails, RefreshRaises, Waiting
  <2> QED BY <2>1, WaitingAcct DEF Bookkeeping, TypeOK
<1>1. CASE Acquire(c) /\ MustRefresh(Acct(c))
  <2>1. UNCHANGED <<queue, accounts>> /\ Renews(c)
    BY <1>1 DEF Acquire, Renews
  <2>2. CASE c \in Requests
    <3> DEFINE next == [req[c] EXCEPT !.pc = "refresh"]
    <3>1. req' = [req EXCEPT ![c] = next] /\ task' = task
      BY <1>1, <2>2 DEF Acquire
    <3>2. next.pc = "refresh" /\ next.acct = req[c].acct
      BY <1>0, <2>2 DEF Request
    <3> HIDE DEF next
    <3>3. /\ Pc(c)' = "refresh" /\ Acct(c)' = Acct(c)
          /\ \A d \in Callers \ {c} : SameCaller(d)
      BY <1>0, <2>2, <3>1, <3>2 DEF Pc, Acct, SameCaller
    <3> QED BY <1>0, <1>1, <2>1, <3>3
  <2>3. CASE c \notin Requests
    <3> DEFINE next == [task[c] EXCEPT !.pc = "refresh"]
    <3>1. c \in Tasks /\ task' = [task EXCEPT ![c] = next] /\ req' = req
      BY <1>1, <2>3 DEF Acquire, Callers
    <3>2. next.pc = "refresh" /\ next.acct = task[c].acct
      BY <1>0, <3>1 DEF Task
    <3> HIDE DEF next
    <3>3. /\ Pc(c)' = "refresh" /\ Acct(c)' = Acct(c)
          /\ \A d \in Callers \ {c} : SameCaller(d)
      BY <1>0, <2>3, <3>1, <3>2 DEF Pc, Acct, SameCaller, Callers
    <3> QED BY <1>0, <1>1, <2>1, <3>3
  <2> QED BY <2>2, <2>3
<1>2. CASE ~(Acquire(c) /\ MustRefresh(Acct(c))) /\ ~RefreshRaises(c)
  <2>1. PICK gotRow : Return(c, Acct(c), gotRow)
    BY <1>2 DEF RefreshStep, Acquire, RefreshSucceeds, RefreshFails
  <2>2. Renews(c)
    <3>1. CASE Acquire(c)
      BY <3>1 DEF Acquire, Renews
    <3>2. CASE RefreshSucceeds(c)
      <4>1. PICK dated \in BOOLEAN :
               accounts' = MarkStatus(StoreTokens(accounts, Acct(c), dated), Acct(c), "active")
        BY <3>2 DEF RefreshSucceeds
      <4> DEFINE T == StoreTokens(accounts, Acct(c), dated)
      <4>2. T \in Table
        BY <1>0, StoreTokensType
      <4>3. /\ \A a \in Accounts : T[a].row = accounts[a].row
            /\ \A a \in Accounts \ {Acct(c)} : T[a].expiring = accounts[a].expiring
        BY <1>0 DEF StoreTokens, Row
      <4> HIDE DEF T
      <4>4. SameTokens(T, MarkStatus(T, Acct(c), "active"))
        BY <1>0, <4>2, MarkStatusTokens
      <4> QED BY <4>1, <4>3, <4>4 DEF T, Renews, SameTokens
    <3>3. CASE RefreshFails(c)
      BY <1>0, <3>3, MarkStatusTokens DEF RefreshFails, Renews, SameTokens
    <3> QED BY <1>2, <3>1, <3>2, <3>3 DEF RefreshStep
  <2> QED BY <1>0, <2>1, <2>2, ReturnMoves
<1>3. CASE RefreshRaises(c)
  <2>1. Renews(c)
    BY <1>3, RaiseMoves DEF Renews
  <2> QED BY <1>0, <1>3, <2>1, RaiseMoves
<1> QED BY <1>1, <1>2, <1>3

\* A background task that enters refresh_account joins a lock.
LEMMA TaskMoves ==
    ASSUME Bookkeeping, NEW t \in Tasks, NEW a \in Accounts, TaskStarts(t, a)
    PROVE  /\ Pc(t) \notin Waiting /\ Pc(t)' \in Waiting /\ Acct(t)' = a
           /\ Pc(t)' = "refresh" => queue[a] = <<>> /\ MustRefresh(a)
           /\ \A d \in Callers \ {t} : SameCaller(d)
           /\ queue' = [queue EXCEPT ![a] = Append(@, t)]
           /\ UNCHANGED accounts /\ accounts[a].row # "unborn"
<1>0. task \in [Tasks -> Task] /\ t \notin Requests /\ t \in Callers
  BY NameAssumption DEF Bookkeeping, TypeOK, Callers
<1> DEFINE pc == Enters(a, MustRefresh(a))
           next == [pc |-> pc, acct |-> a]
<1>1. /\ pc \in Waiting
      /\ pc = "refresh" => queue[a] = <<>> /\ MustRefresh(a)
  <2>1. pc # "open"
    BY DEF TaskStarts
  <2>2. CASE queue[a] # <<>>
    BY <2>2 DEF Enters, Waiting
  <2>3. CASE queue[a] = <<>> /\ MustRefresh(a)
    BY <2>3 DEF Enters, Waiting
  <2>4. CASE queue[a] = <<>> /\ ~MustRefresh(a)
    BY <2>1, <2>4 DEF Enters
  <2> QED BY <2>2, <2>3, <2>4
<1>2. next.pc = pc /\ next.acct = a
  OBVIOUS
<1>3. /\ task' = [task EXCEPT ![t] = next] /\ req' = req
      /\ task[t].pc = "idle"
      /\ queue' = [queue EXCEPT ![a] = Append(@, t)]
      /\ UNCHANGED accounts /\ accounts[a].row # "unborn"
  BY DEF TaskStarts
<1> HIDE DEF pc, next
<1>4. Pc(t)' = pc /\ Acct(t)' = a /\ Pc(t) = "idle"
  BY <1>0, <1>2, <1>3 DEF Pc, Acct
<1>5. \A d \in Callers \ {t} : SameCaller(d)
  BY <1>0, <1>3 DEF Pc, Acct, SameCaller, Callers
<1> QED BY <1>1, <1>3, <1>4, <1>5 DEF Waiting

\* What no step but a refresh does to an account that was added: make its token
\* fresh, or bring its row back.
Gentle(a) == accounts[a].row # "unborn" =>
                /\ accounts'[a].row # "unborn"
                /\ Live(accounts', a) => /\ Live(accounts, a)
                                         /\ accounts[a].expiring => accounts'[a].expiring

\* A caller that does not move keeps its part of the invariant.
LEMMA BystanderOK ==
    ASSUME RefreshInv, NEW d \in Callers, SameCaller(d),
           Pc(d) = "refresh" => Gentle(Acct(d)),
           Pc(d) \in Waiting => accounts'[Acct(d)].row # "unborn"
    PROVE  /\ Pc(d)' = "refresh" /\ Live(accounts', Acct(d)') => accounts'[Acct(d)'].expiring
           /\ Pc(d)' \in Waiting => accounts'[Acct(d)'].row # "unborn"
BY DEF RefreshInv, SameCaller, Gentle, NoSecondRefresh, KnownAccounts, Waiting

\* The two invariants of the next state, caller by caller.
LEMMA EachCallerOK ==
    ASSUME \A d \in Callers :
              /\ Pc(d)' = "refresh" /\ Live(accounts', Acct(d)') => accounts'[Acct(d)'].expiring
              /\ Pc(d)' \in Waiting => accounts'[Acct(d)'].row # "unborn"
    PROVE  NoSecondRefresh' /\ KnownAccounts'
<1>1. NoSecondRefresh'
  <2> SUFFICES ASSUME NEW d \in Callers, Pc(d)' = "refresh", Live(accounts, Acct(d))'
               PROVE  accounts[Acct(d)].expiring'
    BY DEF NoSecondRefresh
  <2> QED BY DEF Live
<1>2. KnownAccounts'
  BY DEF KnownAccounts
<1> QED BY <1>1, <1>2

LEMMA RefreshInvInit == Init => RefreshInv
<1> SUFFICES ASSUME Init PROVE RefreshInv
  OBVIOUS
<1>1. New.pc = "new" /\ Resting.pc = "idle"
  BY DEF New, Resting
<1>2. /\ req = [r \in Requests |-> New] /\ task = [t \in Tasks |-> Resting]
      /\ queue = [a \in Accounts |-> <<>>]
  BY DEF Init
<1>3. \A c \in Callers : Pc(c) \notin Waiting
  BY <1>1, <1>2 DEF Pc, Callers, Waiting
<1>4. \A a \in Accounts : Len(queue[a]) = 0
  BY <1>2
<1>5. RefreshLocks
  BY <1>3, <1>4 DEF RefreshLocks, Waiting
<1> QED BY <1>3, <1>5, BookkeepingInit DEF RefreshInv, NoSecondRefresh, KnownAccounts, Waiting

\* A request takes its own steps: it may enter a lock, never leave one.
LEMMA RequestKeepsLocks ==
    ASSUME RefreshInv, NEW r \in Requests, RequestStep(r)
    PROVE  RefreshLocks' /\ NoSecondRefresh' /\ KnownAccounts'
<1>0. Bookkeeping /\ RefreshLocks /\ r \in Callers
  BY DEF RefreshInv, Callers
<1>1. /\ Moves(r) /\ SameTokens(accounts, accounts')
      /\ req[r].pc \notin Waiting /\ UNCHANGED task
      /\ \A s \in Requests \ {r} : req'[s] = req[s]
  BY <1>0, RequestMoves
<1>2. /\ \A d \in Callers \ {r} : SameCaller(d)
      /\ Pc(r) \notin Waiting /\ Pc(r)' = req'[r].pc /\ Acct(r)' = req'[r].acct
  BY <1>1 DEF SameCaller, Pc, Acct, Callers
<1>3. \A a \in Accounts : Gentle(a)
  BY <1>1 DEF Gentle, SameTokens, Live
<1>4. ASSUME NEW d \in Callers \ {r}
      PROVE  /\ Pc(d)' = "refresh" /\ Live(accounts', Acct(d)') => accounts'[Acct(d)'].expiring
             /\ Pc(d)' \in Waiting => accounts'[Acct(d)'].row # "unborn"
  <2>1. Pc(d) \in Waiting => Acct(d) \in Accounts /\ accounts[Acct(d)].row # "unborn"
    BY <1>0, WaitingAcct DEF RefreshInv, KnownAccounts
  <2>2. /\ Pc(d) = "refresh" => Gentle(Acct(d))
        /\ Pc(d) \in Waiting => accounts'[Acct(d)].row # "unborn"
    BY <1>3, <2>1 DEF Gentle, Waiting
  <2> QED BY <1>2, <2>2, BystanderOK
<1>5. CASE UNCHANGED queue /\ req'[r].pc \notin Waiting
  <2>0. \A d \in Callers : SameCaller(d) \/ StaysOut(d)
    BY <1>2, <1>5 DEF StaysOut
  <2>1. RefreshLocks'
    BY <1>0, <1>5, <2>0, QuietLocks
  <2>2. Pc(r)' \notin Waiting
    BY <1>2, <1>5
  <2> QED BY <1>4, <2>1, <2>2, EachCallerOK DEF Waiting
<1>6. CASE \E a \in Accounts :
              /\ queue' = [queue EXCEPT ![a] = Append(@, r)]
              /\ req'[r].pc \in Waiting /\ req'[r].acct = a
              /\ Live(accounts, a)
              /\ req'[r].pc = "refresh" => queue[a] = <<>> /\ accounts[a].expiring
  <2>1. PICK a \in Accounts :
              /\ queue' = [queue EXCEPT ![a] = Append(@, r)]
              /\ req'[r].pc \in Waiting /\ req'[r].acct = a
              /\ Live(accounts, a)
              /\ req'[r].pc = "refresh" => queue[a] = <<>> /\ accounts[a].expiring
    BY <1>6
  <2>2. RefreshLocks'
    BY <1>0, <1>2, <2>1, JoinLocks
  <2>3. /\ Pc(r)' = "refresh" => accounts'[Acct(r)'].expiring
        /\ accounts'[Acct(r)'].row # "unborn"
    BY <1>1, <1>2, <2>1 DEF SameTokens, Live
  <2> QED BY <1>4, <2>2, <2>3, EachCallerOK
<1> QED BY <1>1, <1>5, <1>6 DEF Moves

\* The holder of a lock goes to the endpoint or leaves; the others wait for
\* other accounts, or for this one without having gone to the endpoint.
LEMMA RefreshKeepsLocks ==
    ASSUME RefreshInv, NEW c \in Callers, RefreshStep(c)
    PROVE  RefreshLocks' /\ NoSecondRefresh' /\ KnownAccounts'
<1>0. Bookkeeping /\ RefreshLocks
  BY DEF RefreshInv
<1>1. /\ Pc(c) \in Waiting /\ Holds(c, Acct(c)) /\ Renews(c)
      /\ \A d \in Callers \ {c} : SameCaller(d)
      /\ \/ /\ UNCHANGED <<queue, accounts>> /\ MustRefresh(Acct(c))
            /\ Pc(c)' = "refresh" /\ Acct(c)' = Acct(c)
         \/ Pc(c)' \notin Waiting /\ queue' = PassLock(Acct(c))
  BY <1>0, RefreshMoves
<1>2. Acct(c) \in Accounts
  BY <1>0, <1>1, WaitingAcct
<1>3. ASSUME NEW d \in Callers \ {c}
      PROVE  /\ Pc(d)' = "refresh" /\ Live(accounts', Acct(d)') => accounts'[Acct(d)'].expiring
             /\ Pc(d)' \in Waiting => accounts'[Acct(d)'].row # "unborn"
  <2>1. Pc(d) \in Waiting => Acct(d) \in Accounts /\ accounts[Acct(d)].row # "unborn"
    BY <1>0, WaitingAcct DEF RefreshInv, KnownAccounts
  <2>2. Pc(d) = "refresh" => Acct(d) # Acct(c)
    BY <1>0, <1>1 DEF RefreshLocks, Holds
  <2>3. /\ Pc(d) = "refresh" => Gentle(Acct(d))
        /\ Pc(d) \in Waiting => accounts'[Acct(d)].row # "unborn"
    BY <1>1, <2>1, <2>2 DEF Gentle, Renews, Live, Waiting
  <2> QED BY <1>1, <2>3, BystanderOK
<1>4. CASE /\ UNCHANGED <<queue, accounts>> /\ MustRefresh(Acct(c))
           /\ Pc(c)' = "refresh" /\ Acct(c)' = Acct(c)
  <2>1. RefreshLocks'
    BY <1>0, <1>1, <1>4, HolderRefreshes
  <2>2. accounts'[Acct(c)'].expiring /\ accounts'[Acct(c)'].row # "unborn"
    BY <1>4 DEF MustRefresh, Live
  <2> QED BY <1>3, <2>1, <2>2, EachCallerOK
<1>5. CASE Pc(c)' \notin Waiting /\ queue' = PassLock(Acct(c))
  <2>1. RefreshLocks'
    BY <1>0, <1>1, <1>5, LeaveLocks
  <2> QED BY <1>3, <1>5, <2>1, EachCallerOK DEF Waiting
<1> QED BY <1>1, <1>4, <1>5

\* A background task enters a lock.
LEMMA TaskKeepsLocks ==
    ASSUME RefreshInv, NEW t \in Tasks, NEW a \in Accounts, TaskStarts(t, a)
    PROVE  RefreshLocks' /\ NoSecondRefresh' /\ KnownAccounts'
<1>0. Bookkeeping /\ RefreshLocks /\ t \in Callers
  BY DEF RefreshInv, Callers
<1>1. /\ Pc(t) \notin Waiting /\ Pc(t)' \in Waiting /\ Acct(t)' = a
      /\ Pc(t)' = "refresh" => queue[a] = <<>> /\ MustRefresh(a)
      /\ \A d \in Callers \ {t} : SameCaller(d)
      /\ queue' = [queue EXCEPT ![a] = Append(@, t)]
      /\ UNCHANGED accounts /\ accounts[a].row # "unborn"
  BY <1>0, TaskMoves
<1>2. RefreshLocks'
  BY <1>0, <1>1, JoinLocks
<1>3. ASSUME NEW d \in Callers \ {t}
      PROVE  /\ Pc(d)' = "refresh" /\ Live(accounts', Acct(d)') => accounts'[Acct(d)'].expiring
             /\ Pc(d)' \in Waiting => accounts'[Acct(d)'].row # "unborn"
  BY <1>1, BystanderOK DEF Gentle, RefreshInv, KnownAccounts, Waiting
<1>4. /\ Pc(t)' = "refresh" => accounts'[Acct(t)'].expiring
      /\ accounts'[Acct(t)'].row # "unborn"
  BY <1>1 DEF MustRefresh
<1> QED BY <1>2, <1>3, <1>4, EachCallerOK

\* The dashboard and the clock move nobody, and renew no token of an account
\* that somebody works on: one that is being added has no caller yet.
LEMMA OutsideKeepsLocks ==
    ASSUME RefreshInv, UNCHANGED <<queue, req, task>>,
           \/ \E a \in Accounts : AccountStep(a)
           \/ ResetAll \/ UNCHANGED accounts
    PROVE  RefreshLocks' /\ NoSecondRefresh' /\ KnownAccounts'
<1>0. Bookkeeping /\ RefreshLocks /\ accounts \in Table /\ now \in Nat
  BY ClockType DEF RefreshInv, Bookkeeping, TypeOK
<1>1. \A d \in Callers : SameCaller(d)
  BY DEF SameCaller, Pc, Acct
<1>2. RefreshLocks'
  <2>1. \A d \in Callers : SameCaller(d) \/ StaysOut(d)
    BY <1>1
  <2> QED BY <1>0, <2>1, QuietLocks
<1>3. \A b \in Accounts : Gentle(b)
  <2>1. CASE UNCHANGED accounts
    BY <2>1 DEF Gentle
  <2>2. CASE ResetAll
    BY <1>0, <2>2, AfterResetTokens DEF ResetAll, SameTokens, Gentle, Live
  <2>3. CASE \E a \in Accounts : AccountStep(a)
    <3>1. PICK a \in Accounts : AccountStep(a)
      BY <2>3
    <3>2. CASE AddAccount(a)
      BY <1>0, <3>2 DEF AddAccount, Gentle, Live
    <3>3. CASE DeleteAccount(a)
      <4>1. NoRow("gone").row = "gone"
        BY NoRowFacts
      <4> QED BY <1>0, <3>3, <4>1 DEF DeleteAccount, Gentle, Live
    <3>4. CASE SyncUsage(a)
      BY <1>0, <3>4, StorePlanTokens DEF SyncUsage, SameTokens, Gentle, Live
    <3>5. CASE TokenAges(a)
      <4>1. \A b \in Accounts : accounts'[b].row = accounts[b].row
                                /\ (accounts[b].expiring => accounts'[b].expiring)
        BY <1>0, <3>5 DEF TokenAges, Row
      <4> QED BY <4>1 DEF Gentle, Live
    <3> QED BY <3>1, <3>2, <3>3, <3>4, <3>5 DEF AccountStep
  <2> QED BY <2>1, <2>2, <2>3
<1>4. ASSUME NEW d \in Callers
      PROVE  /\ Pc(d)' = "refresh" /\ Live(accounts', Acct(d)') => accounts'[Acct(d)'].expiring
             /\ Pc(d)' \in Waiting => accounts'[Acct(d)'].row # "unborn"
  <2>1. Pc(d) \in Waiting => Acct(d) \in Accounts /\ accounts[Acct(d)].row # "unborn"
    BY <1>0, WaitingAcct DEF RefreshInv, KnownAccounts
  <2>2. /\ Pc(d) = "refresh" => Gentle(Acct(d))
        /\ Pc(d) \in Waiting => accounts'[Acct(d)].row # "unborn"
    BY <1>3, <2>1 DEF Gentle, Waiting
  <2> QED BY <1>1, <2>2, BystanderOK
<1> QED BY <1>2, <1>4, EachCallerOK

\* After a restart nobody waits and every lock is free.
LEMMA RestartFreesLocks ==
    ASSUME RefreshInv, Restart
    PROVE  RefreshLocks' /\ NoSecondRefresh' /\ KnownAccounts'
<1>0. req \in [Requests -> Request]
  BY DEF RefreshInv, Bookkeeping, TypeOK
<1>1. \A r \in Requests : req'[r].pc \notin Waiting
  <2> TAKE r \in Requests
  <2>1. req'[r] = IF req[r].pc \in InFlight THEN Ended(req[r].model, "gone", 0) ELSE req[r]
    BY DEF Restart
  <2>2. Ended(req[r].model, "gone", 0).pc = "done"
    BY DEF Ended
  <2> QED BY <2>1, <2>2 DEF InFlight, Trying, Waiting
<1>2. \A t \in Tasks : task'[t].pc \notin Waiting
  BY DEF Restart, Resting, Waiting
<1>3. \A c \in Callers : Pc(c)' \notin Waiting
  BY <1>1, <1>2 DEF Pc, Callers
<1>4. \A a \in Accounts : Len(queue'[a]) = 0
  BY DEF Restart
<1>5. RefreshLocks'
  BY <1>3, <1>4 DEF RefreshLocks, Waiting
<1> QED BY <1>3, <1>5, EachCallerOK DEF Waiting

LEMMA RefreshInvStep == RefreshInv /\ [Next]_vars => RefreshInv'
<1> SUFFICES ASSUME RefreshInv, [Next]_vars PROVE RefreshLocks' /\ NoSecondRefresh' /\ KnownAccounts'
  BY BookkeepingStep DEF RefreshInv
<1>1. CASE \E a \in Accounts : AccountStep(a)
  BY <1>1, OutsideKeepsLocks
     DEF AccountStep, AddAccount, DeleteAccount, SyncUsage, TokenAges
<1>2. CASE ResetAll
  BY <1>2, OutsideKeepsLocks DEF ResetAll
<1>3. CASE Tick \/ UNCHANGED vars
  BY <1>3, OutsideKeepsLocks DEF Tick, vars
<1> QED BY <1>1, <1>2, <1>3, RequestKeepsLocks, RefreshKeepsLocks, TaskKeepsLocks,
           RestartFreesLocks DEF Next

\* Every run keeps the refresh locks in order.
LEMMA RefreshInvHolds == Spec => []RefreshInv
BY RefreshInvInit, RefreshInvStep, PTL DEF Spec

\* Each caller that waits for an account's token is in that account's lock
\* queue exactly once and in no other, and whoever is at the token endpoint
\* holds the lock, through failures, deletions and restarts (kiro/auth.py,
\* refresh_account under _lock_for).
THEOREM LocksInOrder == Spec => []RefreshLocks
BY RefreshInvHolds, PTL DEF RefreshInv

\* Nobody is at the token endpoint for a token that another caller has renewed
\* meanwhile: the row is read again under the lock (kiro/auth.py).
THEOREM NoTokenRefreshedTwice == Spec => []NoSecondRefresh
BY RefreshInvHolds, PTL DEF RefreshInv

\* A request goes upstream with an expiring token only when the refresh it
\* waited for has failed, or its account was deleted (kiro/pool.py, ensure_fresh).
THEOREM StaleOnlyThen == Spec => StaleOnlyAfterFailure
<1> DEFINE Excused == \A r \in Requests :
               req[r].pc # "open" /\ req'[r].pc = "open" /\ req'[r].stale =>
                  LET row == accounts'[req'[r].acct] IN row.row = "gone" \/ row.status = "error"
<1>1. RefreshInv /\ [Next]_vars => [Excused]_vars
  <2> SUFFICES ASSUME RefreshInv, [Next]_vars, NEW r \in Requests,
                      req[r].pc # "open", req'[r].pc = "open", req'[r].stale
               PROVE  accounts'[req'[r].acct].row = "gone"
                      \/ accounts'[req'[r].acct].status = "error"
    OBVIOUS
  <2>0. /\ Bookkeeping /\ r \in Callers /\ req \in [Requests -> Request]
        /\ accounts \in Table
    BY DEF RefreshInv, Bookkeeping, TypeOK, Callers
  <2>1. CASE RefreshStep(r)
    <3>1. /\ Pc(r) \in Waiting /\ Renews(r) /\ Pc(r)' \notin {"queued", "refresh"}
          /\ Acct(r) = req[r].acct /\ Acct(r) \in Accounts
          /\ accounts[Acct(r)].row # "unborn"
      BY <2>0, <2>1, RefreshMoves, WaitingAcct DEF RefreshInv, KnownAccounts, Pc, Acct
    <3>2. ASSUME NEW gotRow \in BOOLEAN, Return(r, Acct(r), gotRow)
          PROVE  ~gotRow /\ req'[r].acct = Acct(r)
      <4> DEFINE next == [req[r] EXCEPT !.pc = "open",
                                        !.stale = FreshOrChosen(req[r].stale, gotRow)]
      <4>1. req' = [req EXCEPT ![r] = next]
        BY <3>2 DEF Return
      <4>2. next.stale = FreshOrChosen(req[r].stale, gotRow) /\ next.acct = req[r].acct
        BY <2>0 DEF Request
      <4> HIDE DEF next
      <4>3. req'[r] = next
        BY <2>0, <4>1
      <4> QED BY <3>1, <4>2, <4>3 DEF FreshOrChosen
    <3>3. accounts'[Acct(r)].row \in {"live", "gone"}
      BY <2>0, <3>1 DEF Renews, Row
    <3>4. CASE Acquire(r)
      <4>1. ~MustRefresh(Acct(r))
        <5>1. MustRefresh(Acct(r)) => req' = [req EXCEPT ![r].pc = "refresh"]
          BY <3>4 DEF Acquire
        <5> QED BY <2>0, <5>1 DEF Request
      <4>2. Return(r, Acct(r), Live(accounts, Acct(r))) /\ UNCHANGED accounts
        BY <3>4, <4>1 DEF Acquire
      <4> QED BY <3>2, <3>3, <4>2 DEF Live
    <3>5. CASE RefreshSucceeds(r)
      <4>1. Return(r, Acct(r), Live(accounts, Acct(r)))
        BY <3>5 DEF RefreshSucceeds
      <4> QED BY <3>1, <3>2, <3>3, <4>1 DEF Live, Renews
    <3>6. CASE RefreshFails(r)
      <4>1. Return(r, Acct(r), FALSE) /\ accounts' = MarkStatus(accounts, Acct(r), "error")
        BY <3>6 DEF RefreshFails
      <4>2. req'[r].acct = Acct(r)
        BY <3>2, <4>1
      <4>3. Live(accounts, Acct(r)) => accounts'[Acct(r)].status = "error"
        BY <2>0, <3>1, <4>1 DEF MarkStatus, Row
      <4>4. ~Live(accounts, Acct(r)) => accounts'[Acct(r)].row = "gone"
        BY <3>1, <3>3 DEF Renews, Live
      <4> QED BY <4>2, <4>3, <4>4
    <3>7. ~RefreshRaises(r)
      BY <2>0, RaiseMoves DEF Callers
    <3> QED BY <2>1, <3>4, <3>5, <3>6, <3>7 DEF RefreshStep
  <2>2. CASE RequestStep(r)
    <3>1. Moves(r)
      BY <2>0, <2>2, RequestMoves
    <3> QED BY <3>1 DEF Moves, Waiting
  <2>3. CASE \E s \in Requests : s # r /\ RequestStep(s)
    BY <2>0, <2>3, RequestMoves
  <2>4. CASE \E c \in Callers : c # r /\ RefreshStep(c)
    <3>1. PICK c \in Callers : c # r /\ RefreshStep(c)
      BY <2>4
    <3>2. SameCaller(r)
      BY <2>0, <3>1, RefreshMoves
    <3> QED BY <3>2 DEF SameCaller, Pc
  <2>5. CASE UNCHANGED req
    BY <2>5
  <2>6. CASE Restart
    <3>1. req'[r] = IF req[r].pc \in InFlight THEN Ended(req[r].model, "gone", 0) ELSE req[r]
      BY <2>6 DEF Restart
    <3>2. Ended(req[r].model, "gone", 0).pc = "done"
      BY DEF Ended
    <3> QED BY <3>1, <3>2
  <2> QED BY <2>1, <2>2, <2>3, <2>4, <2>5, <2>6
          DEF Next, TaskStarts, AccountStep, AddAccount, DeleteAccount, SyncUsage, TokenAges,
              ResetAll, Tick, vars
<1> QED BY <1>1, RefreshInvHolds, PTL DEF Spec, StaleOnlyAfterFailure

-----------------------------------------------------------------------------
(* How a request ends.                                                        *)

\* The client of a request q is told to wait for what is left of the locks of T.
Told(q, T, wait) ==
    \E seen \in now..now' :
        \E d \in Delays(T, Eligible(T, q.model, q.exclude), seen, now') : wait = RetryAfter(d)

\* A request that Finish ends.
LEMMA FinishEnds ==
    ASSUME Bookkeeping, NEW r \in Requests, NEW q, NEW result, NEW wait,
           Finish(r, q, result, wait)
    PROVE  /\ req'[r] = Ended(q.model, result, wait)
           /\ req'[r].pc = "done" /\ req'[r].result = result /\ req'[r].wait = wait
           /\ req'[r].model = q.model
BY DEF Finish, Ended, Bookkeeping, TypeOK

\* A turn of the attempt loop leaves a request on its way, or ends it because no
\* retry is left or no account can be picked.
LEMMA NextAttemptEnds ==
    ASSUME Bookkeeping, NEW r \in Requests, NEW q \in Request, NEW T \in Table,
           NextAttempt(r, q, T)
    PROVE  \/ req'[r].pc \in Trying /\ req'[r].result = q.result
           \/ /\ req'[r].pc = "done" /\ req'[r].model = q.model /\ accounts' = T
              /\ ~RetriesLeft(q) /\ req'[r].result = q.result
           \/ /\ req'[r].pc = "done" /\ req'[r].model = q.model /\ accounts' = T
              /\ Available(T, q.model, q.exclude, now) = {}
              /\ q.result = "none" => req'[r].result = "noacct" /\ Told(q, T, req'[r].wait)
              /\ q.result # "none" => req'[r].result = q.result
<1>1. CASE ~RetriesLeft(q)
  BY <1>1, FinishEnds DEF NextAttempt
<1>2. CASE NothingToPick(r, q, T)
  <2>1. /\ Available(T, q.model, q.exclude, now) = {} /\ accounts' = T
        /\ q.result # "none" => Finish(r, q, q.result, 0)
    BY <1>2 DEF NothingToPick
  <2>2. CASE q.result = "none"
    <3>1. PICK told \in now..(now + 1), seen \in now..(now + 1) :
               /\ seen <= told /\ now' = told
               /\ \E d \in Delays(T, Eligible(T, q.model, q.exclude), seen, told) :
                     Finish(r, q, "noacct", RetryAfter(d))
      BY <1>2, <2>2 DEF NothingToPick
    <3>2. PICK d \in Delays(T, Eligible(T, q.model, q.exclude), seen, now') :
               Finish(r, q, "noacct", RetryAfter(d))
      BY <3>1
    <3>3. seen \in now..now'
      BY <3>1, ClockType DEF Bookkeeping
    <3>4. Told(q, T, RetryAfter(d))
      BY <3>2, <3>3 DEF Told
    <3> QED BY <2>1, <2>2, <3>2, <3>4, FinishEnds
  <2>3. CASE q.result # "none"
    BY <2>1, <2>3, FinishEnds
  <2> QED BY <2>2, <2>3
<1>3. CASE PickAccount(r, q, T)
  <2>1. PICK a \in Accounts :
           req' = [req EXCEPT ![r] = [q EXCEPT !.pc = Enters(a, T[a].expiring), !.acct = a,
                                               !.attempt = @ + 1, !.stale = T[a].expiring]]
    BY <1>3 DEF PickAccount, Available, Eligible
  <2> DEFINE pc == Enters(a, T[a].expiring)
             next == [q EXCEPT !.pc = pc, !.acct = a, !.attempt = @ + 1, !.stale = T[a].expiring]
  <2>2. pc \in Trying
    <3>1. CASE queue[a] # <<>>
      BY <3>1 DEF Enters, Trying, Waiting
    <3>2. CASE queue[a] = <<>> /\ T[a].expiring
      BY <3>2 DEF Enters, Trying, Waiting
    <3>3. CASE queue[a] = <<>> /\ ~T[a].expiring
      BY <3>3 DEF Enters, Trying, Waiting
    <3> QED BY <3>1, <3>2, <3>3
  <2>3. req' = [req EXCEPT ![r] = next]
    BY <2>1
  <2> HIDE DEF pc
  <2>4. next.pc = pc /\ next.result = q.result
    BY DEF Request
  <2> HIDE DEF next
  <2>5. req'[r] = next
    BY <2>3 DEF Bookkeeping, TypeOK
  <2> QED BY <2>2, <2>4, <2>5
<1> QED BY <1>1, <1>2, <1>3 DEF NextAttempt

\* The step of a request that is not in refresh_account is its own, or nothing to it,
\* or the end of the process.
LEMMA OwnStep ==
    ASSUME Bookkeeping, [Next]_vars, NEW r \in Requests
    PROVE  \/ RequestStep(r) \/ RefreshStep(r) \/ req'[r] = req[r]
           \/ req'[r] = Ended(req[r].model, "gone", 0) /\ req[r].pc \in InFlight
<1>0. req \in [Requests -> Request]
  BY DEF Bookkeeping, TypeOK
<1>1. CASE \E s \in Requests : s # r /\ RequestStep(s)
  BY <1>1, RequestMoves
<1>2. CASE \E c \in Callers : c # r /\ RefreshStep(c)
  <2>1. PICK c \in Callers : c # r /\ RefreshStep(c)
    BY <1>2
  <2>2. ASSUME NEW a, NEW gotRow, Return(c, a, gotRow)
        PROVE  req'[r] = req[r]
    <3>1. CASE c \in Requests
      BY <1>0, <2>1, <2>2, <3>1 DEF Return
    <3>2. CASE c \notin Requests
      BY <2>2, <3>2 DEF Return
    <3> QED BY <3>1, <3>2
  <2>3. CASE Acquire(c)
    <3>1. CASE MustRefresh(Acct(c))
      BY <1>0, <2>1, <2>3, <3>1 DEF Acquire
    <3>2. CASE ~MustRefresh(Acct(c))
      BY <2>2, <2>3, <3>2 DEF Acquire
    <3> QED BY <3>1, <3>2
  <2>4. CASE RefreshSucceeds(c) \/ RefreshFails(c)
    BY <2>2, <2>4 DEF RefreshSucceeds, RefreshFails
  <2>5. CASE RefreshRaises(c)
    BY <1>0, <2>1, <2>5 DEF RefreshRaises, Finish
  <2> QED BY <2>1, <2>3, <2>4, <2>5 DEF RefreshStep
<1>3. CASE Restart
  BY <1>3 DEF Restart
<1>4. CASE UNCHANGED req
  BY <1>4
<1> QED BY <1>1, <1>2, <1>3, <1>4
        DEF Next, TaskStarts, AccountStep, AddAccount, DeleteAccount, SyncUsage, TokenAges,
            ResetAll, Tick, vars, Callers

\* refresh_account is left with the request open, or over.
LEMMA RefreshGoesOn ==
    ASSUME Bookkeeping, NEW r \in Requests, RefreshStep(r)
    PROVE  req[r].pc \in Waiting /\ req'[r].pc \in Trying \cup {"done"}
<1>0. req \in [Requests -> Request] /\ r \in Callers
  BY DEF Bookkeeping, TypeOK, Callers
<1>1. Pc(r) \in Waiting
  BY <1>0, RefreshMoves
<1>2. ASSUME NEW gotRow, Return(r, Acct(r), gotRow)
      PROVE  req'[r].pc = "open"
  <2> DEFINE next == [req[r] EXCEPT !.pc = "open", !.stale = FreshOrChosen(req[r].stale, gotRow)]
  <2>1. req' = [req EXCEPT ![r] = next]
    BY <1>2 DEF Return
  <2>2. next.pc = "open"
    BY <1>0 DEF Request
  <2> HIDE DEF next
  <2> QED BY <1>0, <2>1, <2>2
<1>3. CASE Acquire(r) /\ MustRefresh(Acct(r))
  <2>1. req' = [req EXCEPT ![r].pc = "refresh"]
    BY <1>3 DEF Acquire
  <2>2. req'[r].pc = "refresh"
    BY <1>0, <2>1 DEF Request
  <2> QED BY <1>1, <2>2 DEF Pc, Trying, Waiting
<1>4. CASE ~(Acquire(r) /\ MustRefresh(Acct(r))) /\ ~RefreshRaises(r)
  <2>1. \E gotRow : Return(r, Acct(r), gotRow)
    BY <1>4 DEF RefreshStep, Acquire, RefreshSucceeds, RefreshFails
  <2> QED BY <1>1, <1>2, <2>1 DEF Pc, Trying
<1>5. CASE RefreshRaises(r)
  BY <1>0, <1>1, <1>5, RaiseMoves DEF Pc
<1> QED BY <1>3, <1>4, <1>5

\* A request that was refused moves on to another account while _attempt_upstream has
\* retries left and pick_account finds one.
THEOREM GivesUpWhenExhausted == Spec => GivesUpOnlyWhenExhausted
<1> DEFINE Exhausted == \A r \in Requests :
               req[r].pc = "open" /\ req'[r].pc = "done" /\ req'[r].result \in Rotatable =>
                  \/ req[r].attempt = MaxRetries + 1
                  \/ Available(accounts', req[r].model,
                               req[r].exclude \cup {req[r].acct}, now) = {}
<1>1. Bookkeeping /\ [Next]_vars => [Exhausted]_vars
  <2> SUFFICES ASSUME Bookkeeping, [Next]_vars, NEW r \in Requests,
                      req[r].pc = "open", req'[r].pc = "done", req'[r].result \in Rotatable
               PROVE  \/ req[r].attempt = MaxRetries + 1
                      \/ Available(accounts', req[r].model,
                                   req[r].exclude \cup {req[r].acct}, now) = {}
    OBVIOUS
  <2>0. /\ accounts \in Table /\ now \in Nat /\ req \in [Requests -> Request]
        /\ RequestOK(req[r])
    BY ClockType DEF Bookkeeping, TypeOK
  <2>1. CASE UpstreamRefuses(r)
    <3>1. PICK e \in ErrorClasses :
             LET T == AfterFailure(accounts, req[r].acct, req[r].model, e, now)
                 q == Excluding([req[r] EXCEPT !.result = e], req[r].acct)
             IN  IF e \in Rotatable
                 THEN NextAttempt(r, q, T)
                 ELSE accounts' = T /\ UNCHANGED <<now, queue>> /\ Finish(r, q, e, 0)
      BY <2>1 DEF UpstreamRefuses
    <3> DEFINE T == AfterFailure(accounts, req[r].acct, req[r].model, e, now)
               p == [req[r] EXCEPT !.result = e]
               q == Excluding(p, req[r].acct)
    <3>2. req[r].acct \in Accounts /\ req[r].model \in Models
      BY <2>0 DEF RequestOK, InFlight, Trying
    <3>3. T \in Table
      BY <2>0, <3>2, AfterFailureType
    <3>4. p \in Request /\ p.exclude = req[r].exclude /\ p.model = req[r].model
          /\ p.attempt = req[r].attempt
      BY <2>0 DEF Request, Results
    <3> HIDE DEF T, p
    <3>5. /\ q \in Request /\ q.model = req[r].model /\ q.attempt = req[r].attempt
          /\ q.exclude = req[r].exclude \cup {req[r].acct}
      BY <3>2, <3>4 DEF Excluding, Request
    <3> HIDE DEF q
    <3>6. CASE e \notin Rotatable
      <4>1. Finish(r, q, e, 0)
        BY <3>1, <3>6 DEF q, p
      <4> QED BY <3>6, <4>1, FinishEnds
    <3>7. CASE e \in Rotatable
      <4>1. NextAttempt(r, q, T)
        BY <3>1, <3>7 DEF q, p, T
      <4>2. CASE ~RetriesLeft(q)
        <5>1. req[r].attempt \in 0..(MaxRetries + 1)
          BY <2>0 DEF Request
        <5> QED BY <3>5, <4>2, <5>1, RetryAssumption DEF RetriesLeft
      <4>3. CASE accounts' = T /\ Available(T, q.model, q.exclude, now) = {}
        BY <3>5, <4>3
      <4>4. req'[r].pc \notin Trying
        BY DEF Trying, Waiting
      <4> QED BY <3>3, <3>5, <4>1, <4>2, <4>3, <4>4, NextAttemptEnds
    <3> QED BY <3>6, <3>7
  <2>2. CASE RequestStep(r) /\ ~UpstreamRefuses(r)
    <3>1. CASE UpstreamAccepts(r)
      <4>1. PICK pc \in Answering : req' = [req EXCEPT ![r].pc = pc]
        BY <3>1 DEF UpstreamAccepts
      <4>2. req'[r].pc = pc
        BY <2>0, <4>1 DEF Request
      <4> QED BY <4>2 DEF Answering
    <3>2. CASE TransportError(r)
      <4>1. Finish(r, req[r], "transport", 0)
        BY <3>2 DEF TransportError
      <4>2. req'[r].result = "transport"
        BY <4>1, FinishEnds
      <4> QED BY <4>2 DEF Rotatable, Quotas
    <3> QED BY <2>2, <3>1, <3>2
            DEF RequestStep, Arrive, Disconnect, StreamEnds, StreamFails, Answering
  <2>3. CASE RefreshStep(r)
    BY <2>3, RefreshGoesOn DEF Waiting
  <2>4. CASE req'[r] = req[r]
    BY <2>4
  <2>5. CASE req'[r] = Ended(req[r].model, "gone", 0)
    BY <2>5 DEF Ended, Rotatable, Quotas
  <2> QED BY <2>1, <2>2, <2>3, <2>4, <2>5, OwnStep
<1> QED BY <1>1, BookkeepingHolds, PTL DEF Spec, GivesUpOnlyWhenExhausted

\* A request that takes a step of its own has arrived.
LEMMA StepsLeaveNew ==
    ASSUME Bookkeeping, NEW r \in Requests, RequestStep(r)
    PROVE  req'[r].pc # "new"
<1>0. /\ accounts \in Table /\ now \in Nat /\ req \in [Requests -> Request]
      /\ RequestOK(req[r])
  BY ClockType DEF Bookkeeping, TypeOK
<1>1. ASSUME NEW q \in Request, NEW T \in Table, NextAttempt(r, q, T)
      PROVE  req'[r].pc # "new"
  BY <1>1, NextAttemptEnds DEF Trying, Waiting
<1>2. ASSUME NEW q, NEW result, NEW wait, Finish(r, q, result, wait)
      PROVE  req'[r].pc # "new"
  BY <1>2, FinishEnds
<1>3. CASE Arrive(r)
  <2>1. PICK m \in Models : NextAttempt(r, [New EXCEPT !.model = m], accounts)
    BY <1>3 DEF Arrive
  <2>2. New \in Request
    BY RetryAssumption DEF New, Request, Results
  <2>3. [New EXCEPT !.model = m] \in Request
    BY <2>2 DEF Request
  <2> QED BY <1>0, <1>1, <2>1, <2>3
<1>4. CASE UpstreamRefuses(r)
  <2>1. PICK e \in ErrorClasses :
           LET T == AfterFailure(accounts, req[r].acct, req[r].model, e, now)
               q == Excluding([req[r] EXCEPT !.result = e], req[r].acct)
           IN  IF e \in Rotatable
               THEN NextAttempt(r, q, T)
               ELSE accounts' = T /\ UNCHANGED <<now, queue>> /\ Finish(r, q, e, 0)
    BY <1>4 DEF UpstreamRefuses
  <2> DEFINE T == AfterFailure(accounts, req[r].acct, req[r].model, e, now)
             q == Excluding([req[r] EXCEPT !.result = e], req[r].acct)
  <2>2. req[r].acct \in Accounts /\ req[r].model \in Models
    BY <1>0, <1>4 DEF UpstreamRefuses, RequestOK, InFlight, Trying
  <2>3. T \in Table
    BY <1>0, <2>2, AfterFailureType
  <2>4. q \in Request
    BY <1>0, <2>2 DEF Excluding, Request, Results
  <2>5. NextAttempt(r, q, T) \/ Finish(r, q, e, 0)
    BY <2>1
  <2> HIDE DEF T, q
  <2> QED BY <1>1, <1>2, <2>3, <2>4, <2>5
<1>5. CASE UpstreamAccepts(r)
  <2>1. PICK pc \in Answering : req' = [req EXCEPT ![r].pc = pc]
    BY <1>5 DEF UpstreamAccepts
  <2>2. req'[r].pc = pc
    BY <1>0, <2>1 DEF Request
  <2> QED BY <2>2 DEF Answering
<1>6. CASE TransportError(r) \/ Disconnect(r) \/ StreamEnds(r) \/ StreamFails(r)
  <2>1. \E result : Finish(r, req[r], result, 0)
    BY <1>6 DEF TransportError, Disconnect, StreamEnds, StreamFails
  <2> QED BY <1>2, <2>1
<1> QED BY <1>3, <1>4, <1>5, <1>6 DEF RequestStep

\* A request that has not arrived carries no result.
NewRequests == \A r \in Requests : req[r].pc = "new" => req[r].result = "none"

LEMMA NewRequestsHold == Spec => [](Bookkeeping /\ NewRequests)
<1>1. Init => NewRequests
  BY DEF Init, NewRequests, New
<1>2. Bookkeeping /\ NewRequests /\ [Next]_vars => NewRequests'
  <2> SUFFICES ASSUME Bookkeeping, NewRequests, [Next]_vars, NEW r \in Requests,
                      req'[r].pc = "new"
               PROVE  req'[r].result = "none"
    BY DEF NewRequests
  <2>1. ~RequestStep(r)
    <3>1. ASSUME RequestStep(r) PROVE req'[r].pc # "new"
      BY <3>1, StepsLeaveNew
    <3> QED BY <3>1
  <2>2. ~RefreshStep(r)
    BY RefreshGoesOn DEF Trying, Waiting
  <2>3. req'[r] # Ended(req[r].model, "gone", 0)
    BY DEF Ended
  <2> QED BY <2>1, <2>2, <2>3, OwnStep DEF NewRequests
<1> QED BY <1>1, <1>2, BookkeepingHolds, PTL DEF Spec

\* Until the soonest of their locks expires, accounts that are all locked for a model
\* when what is left of it is read are all locked for it.
LEMMA LockedUntilSoonest ==
    ASSUME NEW T \in Table, NEW m \in Models, NEW seen \in Nat, NEW told \in Nat, seen <= told,
           NEW S \in SUBSET Accounts, S # {}, \A a \in S : IsLocked(T[a], m, told),
           NEW d \in Delays(T, S, seen, told)
    PROVE  \A a \in S, t \in Nat : t < told + d => IsLocked(T[a], m, t)
<1> DEFINE expiries == UNION {FutureExpiries(T[a], seen) : a \in S}
<1>1. ASSUME NEW a \in S
      PROVE  \E k \in {m, AllModels} : /\ T[a].locks[k] \in Nat /\ T[a].locks[k] > told
                                       /\ T[a].locks[k] \in FutureExpiries(T[a], seen)
  <2>1. PICK k \in {m, AllModels} : T[a].locks[k] > told
    BY DEF IsLocked
  <2>2. k \in LockKeys /\ T[a].locks[k] \in Nat
    BY RowFacts DEF LockKeys
  <2>3. T[a].locks[k] \in FutureExpiries(T[a], seen)
    BY <2>1, <2>2 DEF FutureExpiries
  <2> QED BY <2>1, <2>2, <2>3
<1>2. PICK u \in Soonest(expiries) : d = IF u > told THEN u - told ELSE 0
  BY <1>1 DEF Delays
<1>3. u \in Nat /\ \A v \in expiries : u <= v
  <2>1. u \in expiries /\ \A v \in expiries : u <= v
    BY DEF Soonest
  <2> QED BY <2>1, RowFacts DEF FutureExpiries
<1> SUFFICES ASSUME NEW a \in S, NEW t \in Nat, t < told + d
             PROVE  IsLocked(T[a], m, t)
  OBVIOUS
<1>4. PICK k \in {m, AllModels} : /\ T[a].locks[k] \in Nat /\ T[a].locks[k] > told
                                  /\ T[a].locks[k] \in FutureExpiries(T[a], seen)
  BY <1>1
<1>5. T[a].locks[k] \in expiries
  BY <1>4
<1> HIDE DEF expiries
<1>6. t < T[a].locks[k]
  BY <1>2, <1>3, <1>4, <1>5
<1> QED BY <1>4, <1>6 DEF IsLocked

\* The Retry-After of a 503 is not too long, unless it is the least there is or a lock
\* runs out during the pick: until then pick_account would find every account that could
\* serve the model locked.
THEOREM RetryAfterHolds == Spec => RetryAfterIsNeverLate
<1> DEFINE Fits(m, w) ==
               \/ w = Second
               \/ \E a \in Eligible(accounts', m, {}) : ~IsLocked(accounts'[a], m, now')
               \/ \A a \in Eligible(accounts', m, {}), t \in now'..(now' + w) :
                     t < now' + w => IsLocked(accounts'[a], m, t)
           NotLate == \A r \in Requests :
                         ToldToWait(r) => Fits(req'[r].model, req'[r].wait)
<1>1. Bookkeeping /\ NewRequests /\ [Next]_vars => [NotLate]_vars
  <2> SUFFICES ASSUME Bookkeeping, NewRequests, [Next]_vars, NEW r \in Requests, ToldToWait(r)
               PROVE  Fits(req'[r].model, req'[r].wait)
    OBVIOUS
  <2> HIDE DEF Fits
  <2>0. /\ accounts \in Table /\ now \in Nat /\ req \in [Requests -> Request]
        /\ req[r].pc = "new" /\ req[r].result = "none" /\ req'[r].result = "noacct"
        /\ now' \in Nat
    BY ClockType, ClockStep DEF Bookkeeping, TypeOK, ToldToWait, NewRequests
  <2>1. RequestStep(r)
    <3>1. ~RefreshStep(r)
      BY <2>0, RefreshGoesOn DEF Waiting
    <3>2. req'[r] # req[r]
      BY <2>0
    <3>3. req[r].pc \notin InFlight
      BY <2>0 DEF InFlight, Trying, Waiting, Answering
    <3> QED BY <3>1, <3>2, <3>3, OwnStep
  <2>2. Arrive(r)
    BY <2>0, <2>1 DEF RequestStep, UpstreamRefuses, UpstreamAccepts, TransportError,
                      Disconnect, StreamEnds, StreamFails, Answering
  <2>3. PICK m \in Models : NextAttempt(r, [New EXCEPT !.model = m], accounts)
    BY <2>2 DEF Arrive
  <2> DEFINE q == [New EXCEPT !.model = m]
  <2>4. New \in Request /\ New.result = "none" /\ New.exclude = {} /\ New.attempt = 0
    BY RetryAssumption DEF New, Request, Results
  <2>5. /\ q \in Request /\ q.result = "none" /\ q.exclude = {} /\ q.attempt = 0
        /\ q.model = m
    BY <2>4 DEF Request
  <2>6. NextAttempt(r, q, accounts)
    BY <2>3
  <2> HIDE DEF q
  <2>7. RetriesLeft(q)
    BY <2>5, RetryAssumption DEF RetriesLeft
  <2> DEFINE S == Eligible(accounts, m, {})
             w == req'[r].wait
  <2>8. req'[r].model = m /\ accounts' = accounts /\ Told(q, accounts, w)
    BY <2>0, <2>5, <2>6, <2>7, NextAttemptEnds
  <2>9. S \in SUBSET Accounts /\ S # {}
    BY <2>8 DEF Eligible, ToldToWait
  <2>10a. PICK seen \in now..now' : \E d \in Delays(accounts, S, seen, now') : w = RetryAfter(d)
    BY <2>5, <2>8 DEF Told
  <2>10. PICK d \in Delays(accounts, S, seen, now') : w = RetryAfter(d)
    BY <2>10a
  <2>11. d \in Nat /\ seen \in Nat /\ seen <= now'
    <3>1. seen \in Nat /\ seen <= now'
      BY <2>0, <2>10a
    <3> HIDE DEF S
    <3> QED BY <2>0, <2>9, <2>10, <3>1, DelaysType
  <2>12. w = Second \/ (w \in Nat /\ w <= d)
    BY <2>10, <2>11, HeaderBound
  <2> HIDE DEF S, w
  <2>13. CASE \A a \in S : IsLocked(accounts[a], m, now')
    <3>1. \A a \in S, t \in Nat : t < now' + d => IsLocked(accounts[a], m, t)
      BY <2>0, <2>9, <2>10, <2>11, <2>13, LockedUntilSoonest
    <3>2. CASE w \in Nat /\ w <= d
      <4>1. ASSUME NEW a \in S, NEW t \in now'..(now' + w), t < now' + w
            PROVE  IsLocked(accounts[a], m, t)
        <5>1. t \in Nat /\ t < now' + d
          BY <2>0, <2>11, <3>2, <4>1
        <5> QED BY <3>1, <5>1
      <4> QED BY <2>8, <4>1 DEF Fits, S, w
    <3> QED BY <2>8, <2>12, <3>2 DEF Fits, w
  <2>14. CASE ~ \A a \in S : IsLocked(accounts[a], m, now')
    BY <2>8, <2>14 DEF Fits, S, w
  <2> QED BY <2>13, <2>14
<1> QED BY <1>1, NewRequestsHold, PTL DEF Spec, RetryAfterIsNeverLate
=============================================================================
