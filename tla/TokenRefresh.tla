---------------------------- MODULE TokenRefresh ----------------------------
(***************************************************************************)
(* The tokens of one account: kiro/auth.py with its three kinds of callers  *)
(* (the refresh loop, the usage sync of kiro/usage.py, and everyone else:   *)
(* the picks of the pool and the catalog), against a token service that may *)
(* replace the refresh token with every answer.  An answer travels: it can  *)
(* be lost to a timeout or to the end of the process after the service has  *)
(* already replaced the token.                                              *)
(***************************************************************************)
EXTENDS Naturals, Sequences

CONSTANTS
    Callers,       \* the coroutines that call refresh_account
    Loop, Usage,   \* two of them: refresh_loop and usage_loop
    Tokens,        \* token values; more than can be around at once
    NoToken

ASSUME CallerAssumption == {Loop, Usage} \subseteq Callers /\ Loop # Usage
ASSUME TokenAssumption  == NoToken \notin Tokens

VARIABLES
    row,      \* the account's row
    good,     \* the refresh token the service would accept
    queue,    \* the per-account lock: callers of refresh_account, its holder first
    caller,
    lost      \* history: an answer with a new refresh token was lost or unusable

vars == <<row, good, queue, caller, lost>>

\* exp is expires_at against the clock: beyond the loop's interval (20 min),
\* within it, within the 120 s of _is_expiring_soon.
Row == [live : BOOLEAN, status : {"active", "error"},
        refresh : Tokens, access : Tokens, exp : {"fresh", "soon", "urgent"}]

\* granted and refused: the service has answered, the answer is under way.
Answers == {"granted", "refused"}

\* round and used are the usage sync's: its first or second fetch, and the
\* access token it sent last.  refresh is NoToken in an answer without one.
Caller == [pc : {"idle", "sleeping", "queued", "asking", "fetching"} \cup Answers,
           sent : Tokens \cup {NoToken},
           refresh : Tokens \cup {NoToken}, access : Tokens \cup {NoToken},
           round : 0..2, used : Tokens \cup {NoToken}]

Idle == [pc |-> "idle", sent |-> NoToken, refresh |-> NoToken, access |-> NoToken,
         round |-> 0, used |-> NoToken]

Init == \E r, a \in Tokens :
            /\ r # a
            /\ row = [live |-> TRUE, status |-> "active", refresh |-> r, access |-> a,
                      exp |-> "fresh"]
            /\ good = r
            /\ queue = <<>>
            /\ caller = [c \in Callers |-> Idle]
            /\ lost = FALSE

-----------------------------------------------------------------------------
(* refresh_account.                                                           *)

Set(c, rec) == caller' = [caller EXCEPT ![c] = rec]

\* What follows the return of a row, or of None when got is FALSE: the loop
\* sleeps, the usage sync fetches with the row (the first time also without a
\* refreshed one, if there is a row at all), the others are done here.
AfterReturn(c, rec, got, r) ==
    CASE c = Loop -> [Idle EXCEPT !.pc = "sleeping"]
      [] c = Usage /\ r.live /\ (got \/ rec.round = 1) ->
             [Idle EXCEPT !.pc = "fetching", !.round = rec.round, !.used = r.access]
      [] OTHER -> Idle

\* _is_expiring_soon with its default skew, of a row that exists.
NeedsRefresh(r) == r.live /\ r.exp = "urgent"

\* The row is read under the lock, and its refresh token goes out; rest is the
\* lock's queue behind c.
Proceed(c, rec, rest) ==
    IF NeedsRefresh(row)
    THEN /\ Set(c, [rec EXCEPT !.pc = "asking", !.sent = row.refresh])
         /\ queue' = <<c>> \o rest
    ELSE /\ Set(c, AfterReturn(c, rec, row.live, row))
         /\ queue' = rest

\* Mutant: the lock is free for everyone.
NeverWaits == FALSE

MustWait == queue # <<>>

Enter(c, rec) ==
    IF MustWait
    THEN Set(c, [rec EXCEPT !.pc = "queued"]) /\ queue' = Append(queue, c)
    ELSE Proceed(c, rec, <<>>)

Acquire(c) ==
    /\ caller[c].pc = "queued" /\ Head(queue) = c
    /\ Proceed(c, caller[c], Tail(queue))
    /\ UNCHANGED <<row, good, lost>>

\* Mutant: "or refresh_token" left out.
AnsweredRefresh(rec) == rec.refresh

\* Mutant: the new refresh token is not stored.
SentRefresh(rec) == rec.sent

NewRefresh(rec) == IF rec.refresh = NoToken THEN rec.sent ELSE rec.refresh

\* dated: the answer came with an expiry; expires_at stays as it was otherwise.
Stored(rec, dated) ==
    IF row.live
    THEN [row EXCEPT !.refresh = NewRefresh(rec), !.access = rec.access,
                     !.exp = IF dated THEN "fresh" ELSE @, !.status = "active"]
    ELSE row

Failed == IF row.live THEN [row EXCEPT !.status = "error"] ELSE row

\* The answer is written to the row, and the lock passes on.
AnswerArrives(c) ==
    LET rec == caller[c]  granted == rec.pc = "granted" IN
    /\ rec.pc \in Answers
    /\ \E dated \in BOOLEAN : row' = IF granted THEN Stored(rec, dated) ELSE Failed
    /\ Set(c, AfterReturn(c, rec, granted /\ row.live, row'))
    /\ queue' = Tail(queue)
    /\ UNCHANGED <<good, lost>>

Replaces(rec) == rec.pc = "granted" /\ rec.refresh # NoToken

\* The 30 s timeout or a broken connection, before or after the service acted.
AnswerLost(c) ==
    LET rec == caller[c] IN
    /\ rec.pc \in {"asking", "granted"}
    /\ row' = Failed
    /\ lost' = (lost \/ Replaces(rec))
    /\ Set(c, AfterReturn(c, rec, FALSE, row'))
    /\ queue' = Tail(queue)
    /\ UNCHANGED good

AfterRaise(c) == IF c = Loop THEN [Idle EXCEPT !.pc = "sleeping"] ELSE Idle

\* An answer 200 that cannot be used (not an object, an expiry that is no number):
\* the exception leaves the lock before anything is written, ends a usage sync, and
\* is caught by the loop.
AnswerRaises(c) ==
    /\ caller[c].pc \in Answers
    /\ lost' = (lost \/ Replaces(caller[c]))
    /\ Set(c, AfterRaise(c))
    /\ queue' = Tail(queue)
    /\ UNCHANGED <<row, good>>

-----------------------------------------------------------------------------
(* The token service.                                                         *)

InUse == {good, row.refresh, row.access}
           \cup UNION {{caller[c].sent, caller[c].refresh, caller[c].access, caller[c].used}
                          : c \in Callers}

\* Pairs of tokens nobody has seen, and one of them; Tokens bounds their number.
UnseenPairs == {p \in (Tokens \ InUse) \X (Tokens \ InUse) : p[1] # p[2]}
Unseen == CHOOSE p \in UnseenPairs : TRUE

ServiceGrants(c) ==
    /\ caller[c].pc = "asking" /\ caller[c].sent = good
    /\ UnseenPairs # {}
    /\ \E rotate \in BOOLEAN :
          /\ good' = IF rotate THEN Unseen[1] ELSE good
          /\ Set(c, [caller[c] EXCEPT !.pc = "granted", !.access = Unseen[2],
                                      !.refresh = IF rotate THEN good' ELSE NoToken])
    /\ UNCHANGED <<row, queue, lost>>

\* A token it does not accept, or an outage.
ServiceRefuses(c) ==
    /\ caller[c].pc = "asking"
    /\ Set(c, [caller[c] EXCEPT !.pc = "refused"])
    /\ UNCHANGED <<row, good, queue, lost>>

-----------------------------------------------------------------------------
(* The callers.                                                               *)

\* ensure_fresh, or the first lines of sync_account_usage.
Starts(c) ==
    /\ c # Loop /\ caller[c].pc = "idle" /\ row.live
    /\ Enter(c, [Idle EXCEPT !.round = IF c = Usage THEN 1 ELSE 0])
    /\ UNCHANGED <<row, good, lost>>

\* Mutant: accounts in error are passed over.
SkipsErrors(r) == r.exp = "fresh" \/ r.status = "error"

\* _is_expiring_soon with the loop's interval as skew.
Skips(r) == r.exp = "fresh"

LoopVisits ==
    /\ caller[Loop].pc = "idle" /\ row.live
    /\ IF Skips(row)
       THEN Set(Loop, [Idle EXCEPT !.pc = "sleeping"]) /\ UNCHANGED queue
       ELSE Enter(Loop, Idle)
    /\ UNCHANGED <<row, good, lost>>

LoopWakes ==
    /\ caller[Loop].pc = "sleeping"
    /\ Set(Loop, Idle)
    /\ UNCHANGED <<row, good, queue, lost>>

\* 401 or 403 from the usage endpoint: the first is retried after ensure_fresh.
FetchDenied ==
    LET rec == caller[Usage] IN
    /\ rec.pc = "fetching"
    /\ IF rec.round = 1
       THEN Enter(Usage, [rec EXCEPT !.round = 2])
       ELSE Set(Usage, Idle) /\ UNCHANGED queue
    /\ UNCHANGED <<row, good, lost>>

\* The plan is stored, or the sync given up.
FetchEnds ==
    /\ caller[Usage].pc = "fetching"
    /\ Set(Usage, Idle)
    /\ UNCHANGED <<row, good, queue, lost>>

-----------------------------------------------------------------------------
(* The rest of the program, as far as it touches the row.                     *)

TokenAges ==
    /\ row.live /\ row.exp # "urgent"
    /\ row' = [row EXCEPT !.exp = IF @ = "fresh" THEN "soon" ELSE "urgent"]
    /\ UNCHANGED <<good, queue, caller, lost>>

\* handle_upstream_failure of a 401 or 403.
ProxyMarksError ==
    /\ row.live /\ row.status = "active"
    /\ row' = Failed
    /\ UNCHANGED <<good, queue, caller, lost>>

DeleteAccount ==
    /\ row.live
    /\ row' = [row EXCEPT !.live = FALSE]
    /\ UNCHANGED <<good, queue, caller, lost>>

Restart ==
    /\ queue' = <<>>
    /\ caller' = [c \in Callers |-> Idle]
    /\ lost' = (lost \/ \E c \in Callers : Replaces(caller[c]))
    /\ UNCHANGED <<row, good>>

CallerStep(c) == Starts(c) \/ Acquire(c) \/ AnswerArrives(c) \/ AnswerLost(c)
                 \/ AnswerRaises(c)

ServiceStep(c) == ServiceGrants(c) \/ ServiceRefuses(c)

Next == \/ \E c \in Callers : CallerStep(c) \/ ServiceStep(c)
        \/ LoopVisits \/ LoopWakes \/ FetchDenied \/ FetchEnds
        \/ TokenAges \/ ProxyMarksError \/ DeleteAccount \/ Restart

Spec == Init /\ [][Next]_vars

\* The event loop runs what is ready, requests time out, tokens age, and the
\* service does not refuse or drop every attempt of the loop for ever.
Fairness == /\ \A c \in Callers : WF_vars(Acquire(c)) /\ WF_vars(ServiceStep(c) \/ AnswerLost(c))
                                  /\ WF_vars(AnswerArrives(c) \/ AnswerLost(c) \/ AnswerRaises(c))
            /\ SF_vars(ServiceGrants(Loop))
            /\ SF_vars(caller[Loop].pc = "granted" /\ AnswerArrives(Loop))
            /\ WF_vars(LoopVisits) /\ WF_vars(LoopWakes)
            /\ WF_vars(FetchDenied \/ FetchEnds)
            /\ WF_vars(TokenAges)

\* From some time on the process stays up.
StaysUp == <>[][~Restart]_vars

FairSpec == Spec /\ Fairness /\ StaysUp

-----------------------------------------------------------------------------

TypeOK == /\ row \in Row
          /\ good \in Tokens
          /\ queue \in Seq(Callers)
          /\ caller \in [Callers -> Caller]
          /\ lost \in BOOLEAN

\* The refresh token in the row is the one the service accepts, unless an answer
\* has been lost: concurrent callers never store an older token over a newer one.
KeepsNewestToken ==
    /\ row.live
    /\ ~lost
    /\ \A c \in Callers : caller[c].pc # "granted"
    => row.refresh = good

\* A spent refresh token is never sent, unless an answer has been lost: of two
\* callers that find the token expiring, the second does not use the first's.
NeverSendsSpentToken ==
    \A c \in Callers : caller[c].pc = "asking" /\ ~lost => caller[c].sent = good

\* An account in error comes back by itself: the refresh loop finds its token
\* expiring sooner or later and renews it, if the refresh token is still good.
AccountRecovers == row.status = "error" ~> row.status = "active" \/ lost \/ ~row.live
=============================================================================
