------------------------------ MODULE KiroPool ------------------------------
(***************************************************************************)
(* The account pool under concurrent proxy requests: kiro/pool.py, the      *)
(* per-account refresh of kiro/auth.py, the attempt loop and the two ends   *)
(* of a response in proxy/server.py, and the dashboard operations on the    *)
(* same rows.                                                               *)
(*                                                                         *)
(* Everything runs on one asyncio event loop, so code between two awaits    *)
(* that really suspend is one step.  A request suspends at three places:    *)
(*   "queued"   waiting for the refresh lock of the account it picked,      *)
(*   "refresh"  holding that lock, waiting for the token endpoint,          *)
(*   "open"     waiting for the upstream's status or first event,           *)
(* and then streams.  Recording a failure, excluding the account and the    *)
(* next pick happen in one step: nothing in between suspends.               *)
(***************************************************************************)
EXTENDS AccountTable, Sequences

CONSTANTS
    Requests,          \* the chat requests clients send
    Tasks,             \* background tasks that call ensure_fresh
    InitialAccounts,   \* accounts in the table when the daemon starts
    PriorLocks,        \* expiries their locks may have then; 0 is none
    NoAccount,
    NoModel,
    MaxRetries,        \* DEFAULT_RETRY_429
    Second,            \* a second in units of the clock
    MaxTime,           \* bound on the clock
    MaxEvents          \* bound on the events that come from outside the requests

ASSUME RetryAssumption == MaxRetries \in Nat
ASSUME ClockAssumption == Second \in Nat \ {0}
ASSUME PriorAssumption == 0 \in PriorLocks /\ PriorLocks \subseteq 0..(Second + Cap)
ASSUME BoundAssumption == MaxTime \in Nat /\ MaxTime >= Second /\ MaxEvents \in Nat
ASSUME NameAssumption  == /\ NoAccount \notin Accounts
                          /\ InitialAccounts \subseteq Accounts
                          /\ Requests \cap Tasks = {}

VARIABLES
    now,        \* the clock
    accounts,   \* the accounts table
    queue,      \* queue[a]: callers of refresh_account(a), its lock's holder first
    req,        \* the requests
    task,       \* the background tasks
    events      \* how many events have come from outside so far

vars == <<now, accounts, queue, req, task, events>>

Callers == Requests \cup Tasks

Waiting  == {"queued", "refresh"}
Trying   == Waiting \cup {"open"}
Answering == {"stream", "collect"}
InFlight == Trying \cup Answering

\* How a request ended, or the last_exc it carries so far.
Results == ErrorClasses \cup {"none", "noacct", "transport", "error_event", "gone", "raised"}

Request == [pc      : {"new", "done"} \cup InFlight,
            model   : Models \cup {NoModel},
            exclude : SUBSET Accounts,            \* exclude_ids
            attempt : 0..(MaxRetries + 1),
            acct    : Accounts \cup {NoAccount},  \* the account of this attempt
            stale   : BOOLEAN,   \* its token was expiring in the copy of the row held
            result  : Results,
            wait    : Nat]       \* the Retry-After of a NoAccountAvailable

New == [pc |-> "new", model |-> NoModel, exclude |-> {}, attempt |-> 0,
        acct |-> NoAccount, stale |-> FALSE, result |-> "none", wait |-> 0]

Task == [pc : {"idle"} \cup Waiting, acct : Accounts \cup {NoAccount}]

Resting == [pc |-> "idle", acct |-> NoAccount]

\* The row of a new account, or of one that quota errors have locked before the
\* process started.
PriorRow(locks) ==
    IF locks = [m \in Models |-> 0] THEN NewRow(TRUE)
    ELSE [NewRow(TRUE) EXCEPT !.locks = [k \in LockKeys |-> IF k \in Models THEN locks[k] ELSE 0],
                              !.level = MaxLevel, !.lastUsed = 1, !.consec = 1]

Init == /\ now = Second
        /\ \E locks \in [InitialAccounts -> [Models -> PriorLocks]] :
              accounts = [a \in Accounts |->
                             IF a \in InitialAccounts THEN PriorRow(locks[a])
                                                      ELSE NoRow("unborn")]
        /\ queue = [a \in Accounts |-> <<>>]
        /\ req = [r \in Requests |-> New]
        /\ task = [t \in Tasks |-> Resting]
        /\ events = 0

-----------------------------------------------------------------------------
(* The attempt loop.                                                          *)

\* Mutant: no per-account lock.
EntersUnlocked(a, expiring) == IF expiring THEN "refresh" ELSE "open"

\* refresh_account on entry: an idle lock and a fresh token return at once,
\* an idle lock and an expiring token leave the caller at the endpoint.
Enters(a, expiring) ==
    CASE queue[a] # <<>> -> "queued"
      [] queue[a] = <<>> /\ expiring -> "refresh"
      [] OTHER -> "open"

\* The request is over; what is left of it is what it asked and what it got.
Ended(m, result, wait) ==
    [pc |-> "done", model |-> m, exclude |-> {}, attempt |-> 0,
     acct |-> NoAccount, stale |-> FALSE, result |-> result, wait |-> wait]

Finish(r, q, result, wait) == req' = [req EXCEPT ![r] = Ended(q.model, result, wait)]

\* Mutant: max in place of min.
Latest(times) == {u \in times : \A v \in times : v <= u}

Soonest(times) == {u \in times : \A v \in times : u <= v}

\* retry_after_ms when the accounts in locked are what there is: the locks that
\* last longer than seen are compared, and what is left of the soonest at told
\* counts.  The default is for an account with none left.
FallBack == 30 * Second

Delays(T, locked, seen, told) ==
    CASE locked = {} -> {0}
      [] \E a \in locked : FutureExpiries(T[a], seen) = {} -> {FallBack}
      [] OTHER -> {IF u > told THEN u - told ELSE 0 :
                      u \in Soonest(UNION {FutureExpiries(T[a], seen) : a \in locked})}

\* The header has whole seconds, and at least one.
RetryAfter(delay) == IF delay < Second THEN Second ELSE Second * (delay \div Second)

\* pick_account found nothing: last_exc, if there is one, is what the client
\* sees; otherwise a 503 with the soonest expiry of any lock of those accounts.
\* The clock runs on between its readings, by one unit at most.
NothingToPick(r, q, T) ==
    /\ Available(T, q.model, q.exclude, now) = {}
    /\ accounts' = T
    /\ UNCHANGED queue
    /\ IF q.result = "none"
       THEN \E told \in now..(now + 1), seen \in now..(now + 1) :
               /\ seen <= told /\ told <= MaxTime
               /\ now' = told
               /\ \E d \in Delays(T, Eligible(T, q.model, q.exclude), seen, told) :
                     Finish(r, q, "noacct", RetryAfter(d))
       ELSE UNCHANGED now /\ Finish(r, q, q.result, 0)

\* pick_account chose a, counted the use and went on to ensure_fresh.
PickAccount(r, q, T) ==
    LET free == Available(T, q.model, q.exclude, now) IN
    \E rank \in Rankings, a \in free, reuse \in BOOLEAN :
        LET pc == Enters(a, T[a].expiring) IN
        /\ Chooses(T, free, rank, a, reuse)
        /\ accounts' = Use(T, a, reuse, now \div Second)
        /\ UNCHANGED now
        /\ queue' = IF pc = "open" THEN queue ELSE [queue EXCEPT ![a] = Append(@, r)]
        /\ req' = [req EXCEPT ![r] = [q EXCEPT !.pc = pc, !.acct = a,
                                               !.attempt = @ + 1,
                                               !.stale = T[a].expiring]]

\* Mutants: one attempt too many, one too few.
RetriesLeftOver(q)  == q.attempt <= MaxRetries + 1
RetriesLeftShort(q) == q.attempt < MaxRetries

RetriesLeft(q) == q.attempt <= MaxRetries

\* One turn of the while loop, from the table T the step has computed so far.
NextAttempt(r, q, T) ==
    IF RetriesLeft(q)
    THEN NothingToPick(r, q, T) \/ PickAccount(r, q, T)
    ELSE accounts' = T /\ UNCHANGED <<now, queue>> /\ Finish(r, q, q.result, 0)

Arrive(r) ==
    /\ req[r].pc = "new"
    /\ \E m \in Models : NextAttempt(r, [New EXCEPT !.model = m], accounts)
    /\ UNCHANGED <<task, events>>

\* Mutant: exclude_ids is not extended.
ExcludingNone(q, a) == q

Excluding(q, a) == [q EXCEPT !.exclude = @ \cup {a}]

\* _open_stream got a status other than 200.
UpstreamRefuses(r) ==
    /\ req[r].pc = "open"
    /\ \E e \in ErrorClasses :
          LET T == AfterFailure(accounts, req[r].acct, req[r].model, e, now)
              q == Excluding([req[r] EXCEPT !.result = e], req[r].acct)
          IN  IF e \in Rotatable
              THEN NextAttempt(r, q, T)
              ELSE accounts' = T /\ UNCHANGED <<now, queue>> /\ Finish(r, q, e, 0)
    /\ UNCHANGED <<task, events>>

\* The first event arrived, or the stream ended without one.  The answer is
\* relayed by a _stream_ or gathered by a _nonstream_ handler.
UpstreamAccepts(r) ==
    /\ req[r].pc = "open"
    /\ \E pc \in Answering : req' = [req EXCEPT ![r].pc = pc]
    /\ UNCHANGED <<now, accounts, queue, task, events>>

\* A connection error or the 180 s read timeout: nobody marks the account.
TransportError(r) ==
    /\ req[r].pc \in {"open"} \cup Answering
    /\ Finish(r, req[r], "transport", 0)
    /\ UNCHANGED <<now, accounts, queue, task, events>>

\* The client of a StreamingResponse went away: its generator is cancelled.
Disconnect(r) ==
    /\ req[r].pc = "stream"
    /\ Finish(r, req[r], "gone", 0)
    /\ UNCHANGED <<now, accounts, queue, task, events>>

StreamEnds(r) ==
    /\ req[r].pc \in Answering
    /\ accounts' = AfterSuccess(accounts, req[r].acct)
    /\ Finish(r, req[r], "none", 0)
    /\ UNCHANGED <<now, queue, task, events>>

\* An "error" event: the _stream_ handlers write it to the client and go on to
\* handle_success, the _nonstream_ ones raise KiroUpstreamError(500).
StreamFails(r) ==
    /\ req[r].pc \in Answering
    /\ accounts' = IF req[r].pc = "stream"
                   THEN AfterSuccess(accounts, req[r].acct)
                   ELSE AfterFailure(accounts, req[r].acct, req[r].model, "s5xx", now)
    /\ Finish(r, req[r], "error_event", 0)
    /\ UNCHANGED <<now, queue, task, events>>

-----------------------------------------------------------------------------
(* refresh_account, for requests and background tasks alike.                  *)

Pc(c)   == IF c \in Requests THEN req[c].pc ELSE task[c].pc
Acct(c) == IF c \in Requests THEN req[c].acct ELSE task[c].acct

Holds(c, a) == queue[a] # <<>> /\ Head(queue[a]) = c

\* Mutants: the lock stays locked; the copy read at the pick is used regardless.
KeepLock(a) == queue
OlderCopy(stale, gotRow) == stale

\* Leaving "async with lock".
PassLock(a) == [queue EXCEPT ![a] = Tail(@)]

\* "fresh or chosen": the row returned, which holds the newest token there is, or,
\* given None, the copy read at the pick.
FreshOrChosen(stale, gotRow) == stale /\ ~gotRow

\* refresh_account returns to its caller.
Return(c, a, gotRow) ==
    /\ queue' = PassLock(a)
    /\ IF c \in Requests
       THEN /\ req' = [req EXCEPT ![c] = [req[c] EXCEPT
                            !.pc = "open", !.stale = FreshOrChosen(req[c].stale, gotRow)]]
            /\ UNCHANGED task
       ELSE /\ task' = [task EXCEPT ![c] = Resting]
            /\ UNCHANGED req

\* Mutant: the row is not read again under the lock.
MustRefreshBlindly(a) == Live(accounts, a)

MustRefresh(a) == Live(accounts, a) /\ accounts[a].expiring

\* The lock is ours: the row is read again under it.
Acquire(c) ==
    LET a == Acct(c) IN
    /\ Pc(c) = "queued" /\ Holds(c, a)
    /\ IF MustRefresh(a)
       THEN /\ IF c \in Requests
               THEN req' = [req EXCEPT ![c].pc = "refresh"] /\ UNCHANGED task
               ELSE task' = [task EXCEPT ![c].pc = "refresh"] /\ UNCHANGED req
            /\ UNCHANGED queue
       ELSE Return(c, a, Live(accounts, a))
    /\ UNCHANGED <<now, accounts, events>>

RefreshSucceeds(c) ==
    LET a == Acct(c) IN
    /\ Pc(c) = "refresh" /\ Holds(c, a)
    /\ \E dated \in BOOLEAN :
          accounts' = MarkStatus(StoreTokens(accounts, a, dated), a, "active")
    /\ Return(c, a, Live(accounts, a))
    /\ UNCHANGED <<now, events>>

\* An error answer, a timeout, a reply without accessToken, or no refresh token.
RefreshFails(c) ==
    LET a == Acct(c) IN
    /\ Pc(c) = "refresh" /\ Holds(c, a)
    /\ accounts' = MarkStatus(accounts, a, "error")
    /\ Return(c, a, FALSE)
    /\ UNCHANGED <<now, events>>

\* An answer 200 that cannot be read (not an object, an expiry that is no number):
\* the exception leaves the lock and nobody marks the account.  It ends a request
\* with a 500; the loops of the background tasks catch it.
RefreshRaises(c) ==
    LET a == Acct(c) IN
    /\ Pc(c) = "refresh" /\ Holds(c, a)
    /\ queue' = PassLock(a)
    /\ IF c \in Requests
       THEN Finish(c, req[c], "raised", 0) /\ UNCHANGED task
       ELSE task' = [task EXCEPT ![c] = Resting] /\ UNCHANGED req
    /\ UNCHANGED <<now, accounts, events>>

\* MaxEvents bounds the steps no request causes.
External == events < MaxEvents /\ events' = events + 1

\* refresh_loop and usage_loop, working through a list of accounts read
\* earlier: the row may be gone.  A fresh token and a free lock change nothing.
TaskStarts(t, a) ==
    LET pc == Enters(a, MustRefresh(a)) IN
    /\ External
    /\ task[t].pc = "idle"
    /\ accounts[a].row # "unborn"
    /\ pc # "open"
    /\ task' = [task EXCEPT ![t] = [pc |-> pc, acct |-> a]]
    /\ queue' = [queue EXCEPT ![a] = Append(@, t)]
    /\ UNCHANGED <<now, accounts, req>>

-----------------------------------------------------------------------------
(* The dashboard, the clock and the process.                                  *)

\* import-token and the OAuth flows insert a row under a new id.
AddAccount(a) ==
    /\ accounts[a].row = "unborn"
    /\ \E dated \in BOOLEAN : accounts' = [accounts EXCEPT ![a] = NewRow(dated)]
    /\ External /\ UNCHANGED <<now, queue, req, task>>

DeleteAccount(a) ==
    /\ Live(accounts, a)
    /\ accounts' = [accounts EXCEPT ![a] = NoRow("gone")]
    /\ External /\ UNCHANGED <<now, queue, req, task>>

ResetAll ==
    /\ accounts' = AfterReset(accounts, now)
    /\ External /\ UNCHANGED <<now, queue, req, task>>

\* sync_account_usage stores what the usage endpoint says of the plan.
SyncUsage(a) ==
    /\ \E p \in Plans : accounts' = StorePlan(accounts, a, p)
    /\ External /\ UNCHANGED <<now, queue, req, task>>

Tick ==
    /\ now < MaxTime
    /\ now' = now + 1
    /\ UNCHANGED <<accounts, queue, req, task, events>>

\* expires_at - 120 s comes to pass.
TokenAges(a) ==
    /\ Live(accounts, a)
    /\ accounts' = [accounts EXCEPT ![a].expiring = TRUE]
    /\ External /\ UNCHANGED <<now, queue, req, task>>

\* The daemon is stopped or dies: the table is on disk, all else is lost.
Restart ==
    /\ queue' = [a \in Accounts |-> <<>>]
    /\ req' = [r \in Requests |->
                 IF req[r].pc \in InFlight THEN Ended(req[r].model, "gone", 0) ELSE req[r]]
    /\ task' = [t \in Tasks |-> Resting]
    /\ External /\ UNCHANGED <<now, accounts>>

-----------------------------------------------------------------------------

RequestStep(r) == \/ Arrive(r) \/ UpstreamRefuses(r) \/ UpstreamAccepts(r)
                  \/ TransportError(r) \/ Disconnect(r)
                  \/ StreamEnds(r) \/ StreamFails(r)

RefreshStep(c) == Acquire(c) \/ RefreshSucceeds(c) \/ RefreshFails(c) \/ RefreshRaises(c)

AccountStep(a) == AddAccount(a) \/ DeleteAccount(a) \/ SyncUsage(a) \/ TokenAges(a)

Next == \/ \E r \in Requests : RequestStep(r)
        \/ \E c \in Callers : RefreshStep(c)
        \/ \E t \in Tasks, a \in Accounts : TaskStarts(t, a)
        \/ \E a \in Accounts : AccountStep(a)
        \/ ResetAll \/ Tick \/ Restart

Spec == Init /\ [][Next]_vars

\* The upstream answers or times out (30 s for a refresh, 180 s between reads of
\* a stream), and the event loop runs every task that is ready.
Fairness == /\ \A r \in Requests : /\ WF_vars(UpstreamRefuses(r) \/ UpstreamAccepts(r)
                                                                 \/ TransportError(r))
                                   /\ WF_vars(StreamEnds(r) \/ StreamFails(r))
            /\ \A c \in Callers : WF_vars(RefreshStep(c))

FairSpec == Spec /\ Fairness

-----------------------------------------------------------------------------
(* Invariants.                                                                *)

TypeOK == /\ now \in Second..MaxTime
          /\ accounts \in [Accounts -> Row]
          /\ queue \in [Accounts -> Seq(Callers)]
          /\ req \in [Requests -> Request]
          /\ task \in [Tasks -> Task]
          /\ events \in 0..MaxEvents

\* A request in flight has tried as many accounts as it has counted attempts,
\* all different: the loop over attempts never sends a request to an account
\* that already refused it, and never exceeds max_retries + 1 sends.
AttemptAccounting ==
    \A r \in Requests : req[r].pc \in InFlight =>
        /\ req[r].acct \in Accounts \ req[r].exclude
        /\ req[r].attempt = Cardinality(req[r].exclude) + 1

\* A caller that waits for or holds a refresh lock is in the queue of the
\* account it works on, once, and in no other.
InQueueOnce(c, a) == \E i \in 1..Len(queue[a]) :
                        \A j \in 1..Len(queue[a]) : queue[a][j] = c <=> j = i
RefreshLocks ==
    /\ \A c \in Callers, a \in Accounts :
          IF Pc(c) \in Waiting /\ Acct(c) = a
          THEN InQueueOnce(c, a)
          ELSE \A i \in 1..Len(queue[a]) : queue[a][i] # c
    /\ \A c \in Callers : Pc(c) = "refresh" => Holds(c, Acct(c))

\* Nobody is at the token endpoint for a token that another caller has renewed
\* meanwhile: the refresh token in hand would be one already spent.
NoSecondRefresh ==
    \A c \in Callers : Pc(c) = "refresh" /\ Live(accounts, Acct(c)) => accounts[Acct(c)].expiring

\* No lock reaches further than the backoff cap from now.
LockBound == \A a \in Accounts, k \in LockKeys : accounts[a].locks[k] <= now + Cap

-----------------------------------------------------------------------------
(* Action properties.                                                         *)

\* A request refused with a retryable status gives up only when the retries
\* are used up or no account it has not tried can serve the model.
GivesUpOnlyWhenExhausted ==
    [][\A r \in Requests :
          req[r].pc = "open" /\ req'[r].pc = "done" /\ req'[r].result \in Rotatable =>
              \/ req[r].attempt = MaxRetries + 1
              \/ Available(accounts', req[r].model,
                           req[r].exclude \cup {req[r].acct}, now) = {}]_vars

\* A request leaves for the upstream with an expiring token only if the refresh
\* it waited for has just failed, or the account was deleted meanwhile.
StaleOnlyAfterFailure ==
    [][\A r \in Requests :
          req[r].pc # "open" /\ req'[r].pc = "open" /\ req'[r].stale =>
              LET row == accounts'[req'[r].acct] IN row.row = "gone" \/ row.status = "error"]_vars

\* A lock in force keeps the account out of its model until it expires or the
\* account is deleted: no success, failure, refresh or restart lifts it, and a
\* lock for one model leaves those of the others alone.
LocksHold ==
    [][~ResetAll =>
          \A a \in Accounts, k \in LockKeys :
              accounts[a].locks[k] > now' /\ Live(accounts', a) => accounts'[a].locks[k] > now']_vars

ToldToWait(r) == /\ req[r].pc = "new" /\ req'[r].result = "noacct"
                 /\ Eligible(accounts', req'[r].model, {}) # {}

\* A client told to retry later is not told to wait longer than it must: before
\* that time every account that could serve the model is locked.  The exceptions
\* are the least the header can say, and a lock that runs out during the pick,
\* after it was found in force: the default then stands in for its expiry, or the
\* lock of the account for another model.
RetryAfterIsNeverLate ==
    [][\A r \in Requests : ToldToWait(r) =>
          LET m == req'[r].model
              w == req'[r].wait
          IN  \/ w = Second
              \/ \E a \in Eligible(accounts', m, {}) : ~IsLocked(accounts'[a], m, now')
              \/ \A a \in Eligible(accounts', m, {}), t \in now'..(now' + w) :
                    t < now' + w => IsLocked(accounts'[a], m, t)]_vars

\* Results that arrive after an account was deleted do not bring its row back.
GoneStaysGone ==
    [][\A a \in Accounts : accounts[a].row = "gone" => accounts'[a] = accounts[a]]_vars

-----------------------------------------------------------------------------
(* Liveness.                                                                  *)

\* Every request the proxy takes up is answered, whatever becomes of the account
\* it waits for: a refresh lock is passed on when its holder fails, and the
\* attempt loop runs out of accounts or attempts.
RequestsEnd == \A r \in Requests : req[r].pc \in InFlight ~> req[r].pc = "done"

\* A background task is never stuck behind a refresh lock.
TasksReturn == \A t \in Tasks : task[t].pc # "idle" ~> task[t].pc = "idle"
=============================================================================
