---------------------------- MODULE AccountTable ----------------------------
(***************************************************************************)
(* The accounts table of storage.py as far as the account pool uses it, and *)
(* the pool's pure rules over it: which accounts a request may use, which   *)
(* one it gets, and what a success or a failure writes back.                *)
(*                                                                         *)
(* A table T is a function from account ids to rows.  Every operator is a   *)
(* function of the table, because the code runs several of them between two *)
(* awaits: a handler's step is their composition.                           *)
(*                                                                         *)
(* The unit of time is whatever Base and Cap are given in.  Time 0 is       *)
(* "never": the row of a new account has last_used_at = 0 and no lock, and  *)
(* no clock starts at 0.                                                    *)
(***************************************************************************)
EXTENDS Naturals, FiniteSets

CONSTANTS
    Accounts,        \* account ids (uuid4: never used twice)
    Models,          \* model ids a request can name
    ProModels,       \* the models flagged requires_pro
    AllModels,       \* the lock key "__all__"
    MaxLevel,        \* BACKOFF_MAX_LEVEL
    Base,            \* BACKOFF_BASE_MS
    Cap,             \* BACKOFF_MAX_MS
    ShortCooldown,   \* cooldown_ms of the ERROR_RULES for texts that may stand in
    LongCooldown,    \* the body of a quota error: 5 s and 120 s
    StickyLimit      \* sticky_round_robin_limit

ASSUME ModelsAssumption == ProModels \subseteq Models /\ AllModels \notin Models
ASSUME BackoffAssumption == MaxLevel \in Nat /\ Base \in Nat \ {0} /\ Cap \in Nat \ {0}
ASSUME CooldownAssumption == ShortCooldown \in 1..Cap /\ LongCooldown \in 1..Cap
ASSUME StickyAssumption == StickyLimit \in Nat

LockKeys == Models \cup {AllModels}

Plans == {"free", "pro"}

\* A row of the table.  "unborn" is an id not handed out yet, "gone" one
\* whose row was deleted; neither has a row in SQLite.  expiring abstracts
\* expires_at: _is_expiring_soon of the stored token.
Row == [row      : {"unborn", "live", "gone"},
        status   : {"active", "error"},
        plan     : Plans,
        locks    : [LockKeys -> Nat],
        level    : 0..MaxLevel,
        lastUsed : Nat,
        consec   : Nat,
        expiring : BOOLEAN]

NoLocks == [k \in LockKeys |-> 0]

\* dated: the token came with an expiry (one without counts as expiring).
NewRow(dated) == [row |-> "live", status |-> "active", plan |-> "free", locks |-> NoLocks,
                  level |-> 0, lastUsed |-> 0, consec |-> 0, expiring |-> ~dated]

NoRow(mark) == [NewRow(TRUE) EXCEPT !.row = mark]

Live(T, a) == T[a].row = "live"

-----------------------------------------------------------------------------
(* Writes: each is one UPDATE, which touches nothing when the row is missing. *)

\* Mutant: INSERT OR REPLACE in place of UPDATE.
UpsertStatus(T, a, s) == [T EXCEPT ![a].row = "live", ![a].status = s]

MarkStatus(T, a, s) ==
    IF Live(T, a) THEN [T EXCEPT ![a].status = s] ELSE T

SetBackoffLevel(T, a, l) ==
    IF Live(T, a) THEN [T EXCEPT ![a].level = l] ELSE T

\* Mutant: the other locks of the account are lost.
SetOnlyLock(T, a, key, until, t) ==
    IF Live(T, a) THEN [T EXCEPT ![a].locks = [NoLocks EXCEPT ![key] = until]] ELSE T

\* Overwrites the lock of one key, then strips the locks that have expired.
SetModelLock(T, a, key, until, t) ==
    LET merged == [T[a].locks EXCEPT ![key] = until]
        kept   == [k \in LockKeys |-> IF merged[k] > t THEN merged[k] ELSE 0]
    IN  IF Live(T, a) THEN [T EXCEPT ![a].locks = kept] ELSE T

\* Tokens without an expiry leave expires_at as it was.
StoreTokens(T, a, dated) ==
    IF Live(T, a) THEN [T EXCEPT ![a].expiring = @ /\ ~dated] ELSE T

StorePlan(T, a, p) ==
    IF Live(T, a) THEN [T EXCEPT ![a].plan = p] ELSE T

\* bump_consecutive_use and mark_account(last_used=True) of a pick.
Use(T, a, reuse, t) ==
    [T EXCEPT ![a].consec = IF reuse THEN @ + 1 ELSE 1,
              ![a].lastUsed = t]

-----------------------------------------------------------------------------
(* Reads: locks and eligibility at time t.                                    *)

IsLocked(row, m, t) == \E k \in {m, AllModels} : row.locks[k] > t

\* soonest_lock_expiry: over the locks of every model, not only the wanted one.
FutureExpiries(row, t) == {row.locks[k] : k \in LockKeys} \ 0..t

Eligible(T, m, excluded) ==
    {a \in Accounts \ excluded : /\ Live(T, a)
                                 /\ T[a].status # "error"
                                 /\ m \in ProModels => T[a].plan = "pro"}

Available(T, m, excluded, t) ==
    {a \in Eligible(T, m, excluded) : ~IsLocked(T[a], m, t)}

\* What remains of the sort keys when priority is 1 and the status "active",
\* as they always are for an available account: remaining_credits, then the
\* order the rows came in.  Usage syncs reorder it at any time.
Rankings == {f \in [Accounts -> 1..Cardinality(Accounts)] :
                \A a, b \in Accounts : f[a] = f[b] => a = b}

\* The account of S a sort on key, ties broken by rank, puts first.
IsRecent(T, S, rank, a) ==
    \A b \in S : \/ T[b].lastUsed < T[a].lastUsed
                 \/ T[b].lastUsed = T[a].lastUsed /\ rank[a] <= rank[b]

\* Mutant: rotation by rank alone, the last use left out of the sort key.
IsFirst(T, S, rank, a) == \A b \in S : rank[a] <= rank[b]

IsOldest(T, S, rank, a) ==
    \A b \in S : \/ T[a].lastUsed < T[b].lastUsed
                 \/ T[b].lastUsed = T[a].lastUsed /\ rank[a] <= rank[b]

\* Mutant: one use too many.
ReusableOnceMore(row) == row.lastUsed # 0 /\ row.consec <= StickyLimit

Reusable(row) == row.lastUsed # 0 /\ row.consec < StickyLimit

\* pick_account chooses a among the available accounts S, keeping to the
\* account used last (reuse) or rotating.
Chooses(T, S, rank, a, reuse) ==
    \E recent \in S :
        /\ IsRecent(T, S, rank, recent)
        /\ reuse = Reusable(T[recent])
        /\ IF reuse THEN a = recent ELSE IsOldest(T, S, rank, a)

-----------------------------------------------------------------------------
(* What an upstream result writes back.                                       *)

\* 429 with a quota body; one whose body also has a text that an earlier rule
\* gives a fixed cooldown; any other 429; 401/403, the retried 5xx, the rest.
Quotas == {"quota429", "short429", "long429"}

ErrorClasses == Quotas \cup {"rate429", "auth", "s5xx", "other"}

\* The statuses _attempt_upstream retries on another account.
Rotatable == Quotas \cup {"rate429", "s5xx"}

\* Mutant: BACKOFF_MAX_LEVEL forgotten.
NextLevelUnbounded(l) == l + 1

NextLevel(l) == IF l < MaxLevel THEN l + 1 ELSE MaxLevel

\* Mutant: BACKOFF_MAX_MS forgotten.
CooldownUncapped(l) == Base * 2 ^ (IF l = 0 THEN 0 ELSE l - 1)

\* min(base * 2^(level-1), max), written so that its bounds need no fact on ^.
Cooldown(l) ==
    LET delay == Base * 2 ^ (IF l = 0 THEN 0 ELSE l - 1)
    IN  IF delay \in 1..Cap THEN delay ELSE Cap

\* What classify_upstream_error makes of a quota error: a rule with a fixed
\* cooldown sets the level back.
NewLevel(e, l) == IF e = "quota429" THEN NextLevel(l) ELSE 0

Delay(e, l) == CASE e = "short429" -> ShortCooldown
                 [] e = "long429"  -> LongCooldown
                 [] OTHER          -> Cooldown(NewLevel(e, l))

AfterSuccess(T, a) == SetBackoffLevel(MarkStatus(T, a, "active"), a, 0)

AfterFailure(T, a, m, e, t) ==
    LET until  == t + Delay(e, T[a].level)
        pinned == SetBackoffLevel(SetModelLock(T, a, m, until, t), a, NewLevel(e, T[a].level))
    IN  CASE e \in Quotas -> MarkStatus(pinned, a, "active")
          [] e = "auth"   -> MarkStatus(T, a, "error")
          [] OTHER        -> MarkStatus(T, a, "active")

\* reset-all: the lock it clears is the one under "__all__".
AfterReset(T, t) ==
    [a \in Accounts |-> SetBackoffLevel(
                            SetModelLock(MarkStatus(T, a, "active"), a, AllModels, 0, t),
                            a, 0)[a]]
=============================================================================
