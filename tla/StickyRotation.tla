--------------------------- MODULE StickyRotation ---------------------------
(***************************************************************************)
(* The sticky round robin of pick_account on its own: a sequence of picks,  *)
(* each from whatever accounts are available to that request at that time.  *)
(* last_used_at counts whole seconds, and any number of picks falls into    *)
(* one: requests arrive together, and a refused one picks again at once.    *)
(* Counting ghosts record what the rows do not: how long one account has    *)
(* been kept although there was another, and how long one was passed over.  *)
(***************************************************************************)
EXTENDS AccountTable

CONSTANT MaxTime   \* bound on the clock

ASSUME TimeAssumption == MaxTime \in Nat \ {0}
ASSUME AccountsAssumption == IsFiniteSet(Accounts)

VARIABLES now,        \* in seconds
          accounts,
          last,       \* the accounts picked last: {} or one account
          kept,       \* picks of it in a row, another account being available
          streak,     \* the same, one that was used in an earlier second than it
          passed      \* passed[a]: picks of others in a row, a being available,
                      \* since the second of its own last use

vars == <<now, accounts, last, kept, streak, passed>>

Keep == IF StickyLimit = 0 THEN 1 ELSE StickyLimit

Init == /\ now = 1
        /\ accounts = [a \in Accounts |-> NewRow(TRUE)]
        /\ last = {}
        /\ kept = 0
        /\ streak = 0
        /\ passed = [a \in Accounts |-> 0]

\* One more pick of account a out of the accounts free.  kept stops at Keep + 1.
Count(free, a) ==
    LET others  == free \ {a}
        earlier == {b \in others : accounts[b].lastUsed < accounts[a].lastUsed}
        waiting == {b \in others : accounts[b].lastUsed < now}
    IN  /\ last' = {a}
        /\ kept' = CASE last = {a} /\ others # {} /\ kept <= Keep -> kept + 1
                     [] last = {a} /\ others # {} /\ kept > Keep -> kept
                     [] OTHER -> 1
        /\ streak' = IF last = {a} /\ earlier # {} THEN streak + 1 ELSE 1
        /\ passed' = [b \in Accounts |->
                         IF b \in others
                         THEN IF b \in waiting THEN passed[b] + 1 ELSE passed[b]
                         ELSE 0]

\* A request that the accounts in busy cannot serve: excluded by an earlier
\* attempt, locked, in error or of the wrong plan.
Pick(busy) ==
    LET free == Accounts \ busy IN
    \E rank \in Rankings, a \in free, reuse \in BOOLEAN :
        /\ Chooses(accounts, free, rank, a, reuse)
        /\ accounts' = Use(accounts, a, reuse, now)
        /\ Count(free, a)
        /\ UNCHANGED now

Tick == /\ now < MaxTime
        /\ now' = now + 1
        /\ UNCHANGED <<accounts, last, kept, streak, passed>>

Next == Tick \/ \E busy \in SUBSET Accounts : Pick(busy)

Spec == Init /\ [][Next]_vars

-----------------------------------------------------------------------------

\* The limit as the comment at the pick and the README state it: an account is
\* not used more than sticky_round_robin_limit times in a row when another one
\* could have served.  It does not hold: picks of one second leave rows whose
\* last uses the rotation cannot tell apart.
StickyLimitHolds == kept <= Keep

\* What the code does keep to, however many requests pick in one second: counted
\* from the last pick at which no available account had been used in an earlier
\* second than the one picked again, the limit holds.
LimitHoldsBetweenTies == streak <= Keep

\* The rotation is fair: once the second of its last use is over, an account
\* available to every request is passed over at most as long as it takes to use
\* up the limit of every other account, whatever accounts come and go between.
NobodyPassedOver == \A a \in Accounts : passed[a] <= (Cardinality(Accounts) - 1) * Keep
=============================================================================
