---------------------------- MODULE OAuthSession ----------------------------
(***************************************************************************)
(* Sign-in sessions of kiro/oauth.py and their endpoints in                 *)
(* dashboard/server.py.  A session is a row with a status.  It is completed *)
(* by the browser flow, a task that waits for the authorization code, or by *)
(* requests that bring a code by hand; nothing keeps these apart.  Each     *)
(* completion is suspended in the exchange of the code for tokens and in    *)
(* the first usage sync; between them it creates the account.               *)
(*                                                                         *)
(* The authorization server (LogIn, and what an exchange meets) is          *)
(* external: it redeems a code once.                                        *)
(***************************************************************************)
EXTENDS Naturals, FiniteSets

CONSTANTS
    Sessions,     \* session ids, all new
    Requests,     \* requests under way at one time to complete a session by hand
    NoSession,
    MaxCodes,     \* bound on the codes issued for a session
    MaxCrashes    \* bound on the restarts of the process

ASSUME IdAssumption    == NoSession \notin Sessions /\ Sessions \cap Requests = {}
ASSUME BoundAssumption == MaxCodes \in Nat /\ MaxCrashes \in Nat

VARIABLES
    status,     \* of each session's row
    flow,       \* the completions: each session's browser flow, and the requests
    issued,     \* how many codes were issued for each session
    spent,      \* codes redeemed
    accounts,   \* the codes accounts were created from
    begun,      \* history: completions of each session, counted up to two
    cut,        \* history: sessions with a completion that ended without a word: cut off
                \* by a restart, or by an exception before the flow's try
    crashes

vars == <<status, flow, issued, spent, accounts, begun, cut, crashes>>

Flows == Sessions \cup Requests

\* Code 0 stands for anything pasted that is not a code of the session.
Codes == Sessions \X (0..MaxCodes)

Idle == [at |-> "idle", session |-> NoSession, code |-> 0]

Running(f)    == flow[f].at # "idle"
Completing(s) == {f \in Flows : Running(f) /\ flow[f].session = s}
CodeOf(f)     == <<flow[f].session, flow[f].code>>
CodesUsed(s)  == {c \in accounts : c[1] = s}

Init == /\ status = [s \in Sessions |-> "none"]
        /\ flow = [f \in Flows |-> Idle]
        /\ issued = [s \in Sessions |-> 0]
        /\ spent = {} /\ accounts = {}
        /\ begun = [s \in Sessions |-> 0]
        /\ cut = {} /\ crashes = 0

Move(f, at, code) ==
    flow' = [flow EXCEPT ![f] = [at |-> at, session |-> flow[f].session, code |-> code]]

Begin(f, s, at, code) ==
    /\ flow' = [flow EXCEPT ![f] = [at |-> at, session |-> s, code |-> code]]
    /\ begun' = [begun EXCEPT ![s] = IF @ = 0 THEN 1 ELSE 2]

\* Mutant: the newest session's row is written, not the completion's own.
SettleNewest(f, outcome) ==
    \E s \in Sessions : /\ status[s] # "none"
                        /\ status' = [status EXCEPT ![s] = outcome]

Settle(f, outcome) == status' = [status EXCEPT ![flow[f].session] = outcome]

End(f) == flow' = [flow EXCEPT ![f] = Idle]

-----------------------------------------------------------------------------

\* api_oauth_start, start_session, schedule_camoufox.  A session's id is new, so
\* no browser flow of that id can be under way.
Start(s, mode) ==
    /\ status[s] = "none"
    /\ status' = [status EXCEPT ![s] = "pending"]
    /\ IF mode = "camoufox" THEN Begin(s, s, "launching", 0) ELSE UNCHANGED <<flow, begun>>
    /\ UNCHANGED <<issued, spent, accounts, cut, crashes>>

\* The browser opens the sign-in page; or it is not installed, or fails.  An import
\* that raises anything else, or a proxy URL or a configuration that does not parse,
\* is raised outside the try: the task dies, and nobody writes to the row.
Launch(s) ==
    /\ flow[s].at = "launching"
    /\ \/ Move(s, "watching", 0) /\ UNCHANGED <<status, cut>>
       \/ End(s) /\ Settle(s, "error") /\ UNCHANGED cut
       \/ End(s) /\ cut' = cut \cup {s} /\ UNCHANGED status
    /\ UNCHANGED <<issued, spent, accounts, begun, crashes>>

\* Someone signs in with the session's URL, elsewhere than in that browser.
LogIn(s) ==
    /\ status[s] # "none" /\ issued[s] < MaxCodes
    /\ issued' = [issued EXCEPT ![s] = @ + 1]
    /\ UNCHANGED <<status, flow, spent, accounts, begun, cut, crashes>>

\* Someone signs in in the browser, and the flow sees the code go by.
Capture(s) ==
    /\ flow[s].at = "watching" /\ issued[s] < MaxCodes
    /\ issued' = [issued EXCEPT ![s] = @ + 1]
    /\ Move(s, "exchanging", issued[s] + 1)
    /\ UNCHANGED <<status, spent, accounts, begun, cut, crashes>>

\* Mutant: the flow watches for a code without a deadline.
NoDeadline(s) == FALSE

\* Ten minutes without a code, or the page or the browser fails.
Deadline(s) == flow[s].at = "watching"

GiveUp(s) == /\ Deadline(s)
             /\ End(s) /\ Settle(s, "error")
             /\ UNCHANGED <<issued, spent, accounts, begun, cut, crashes>>

\* api_oauth_complete, finalize_with_callback_url up to the exchange: whatever
\* the session's status and whoever else is completing it.
Complete(r, s, code) ==
    /\ ~Running(r)
    /\ status[s] # "none" /\ code \in 0..issued[s]
    /\ Begin(r, s, "exchanging", code)
    /\ status' = [status EXCEPT ![s] = "pending"]
    /\ UNCHANGED <<issued, spent, accounts, cut, crashes>>

\* exchange_code and create_account: no other coroutine runs between them.
Exchange(f) ==
    /\ flow[f].at = "exchanging"
    /\ flow[f].code # 0 /\ CodeOf(f) \notin spent
    /\ spent' = spent \cup {CodeOf(f)}
    /\ accounts' = accounts \cup {CodeOf(f)}
    /\ Move(f, "syncing", flow[f].code)
    /\ UNCHANGED <<status, issued, begun, cut, crashes>>

\* The server rejects the code, or its answer does not come within 30 seconds;
\* the code may be spent all the same.
ExchangeFails(f) ==
    /\ flow[f].at = "exchanging"
    /\ \/ UNCHANGED spent
       \/ flow[f].code # 0 /\ spent' = spent \cup {CodeOf(f)}
    /\ End(f) /\ Settle(f, "error")
    /\ UNCHANGED <<issued, accounts, begun, cut, crashes>>

\* Mutant: a failure of the first usage sync fails the sign-in.
SyncCounts(f) == End(f) /\ \E outcome \in {"success", "error"} : Settle(f, outcome)

\* Best effort: the outcome of the sync does not matter.
AfterSync(f) == End(f) /\ Settle(f, "success")

Sync(f) == /\ flow[f].at = "syncing"
           /\ AfterSync(f)
           /\ UNCHANGED <<issued, spent, accounts, begun, cut, crashes>>

\* The rows survive, the completions do not.
Crash == /\ crashes < MaxCrashes
         /\ crashes' = crashes + 1
         /\ cut' = cut \cup {s \in Sessions : Completing(s) # {}}
         /\ flow' = [f \in Flows |-> Idle]
         /\ UNCHANGED <<status, issued, spent, accounts, begun>>

Next == \/ \E s \in Sessions : \/ \E mode \in {"camoufox", "manual"} : Start(s, mode)
                               \/ Launch(s) \/ LogIn(s) \/ Capture(s) \/ GiveUp(s)
        \/ \E r \in Requests, s \in Sessions, code \in 0..MaxCodes : Complete(r, s, code)
        \/ \E f \in Flows : Exchange(f) \/ ExchangeFails(f) \/ Sync(f)
        \/ Crash

\* Every wait has an end: the launch and the page time out, the watch has its
\* deadline, the exchange and the sync are HTTP calls with time limits.
Fairness == /\ \A s \in Sessions : WF_vars(Launch(s)) /\ WF_vars(GiveUp(s))
            /\ \A f \in Flows : /\ WF_vars(Exchange(f) \/ ExchangeFails(f))
                                /\ WF_vars(Sync(f))

Spec == Init /\ [][Next]_vars /\ Fairness

-----------------------------------------------------------------------------

TypeOK ==
    /\ status \in [Sessions -> {"none", "pending", "success", "error"}]
    /\ flow \in [Flows -> [at : {"idle", "launching", "watching", "exchanging", "syncing"},
                           session : Sessions \cup {NoSession}, code : 0..MaxCodes]]
    /\ issued \in [Sessions -> 0..MaxCodes]
    /\ spent \subseteq Codes /\ accounts \subseteq spent
    /\ begun \in [Sessions -> 0..2] /\ cut \subseteq Sessions /\ crashes \in 0..MaxCrashes

\* A session says "success" only if an account was created from a code of its own.
\* One that a single completion was begun for, and that was not cut off, says
\* exactly whether there is an account: a failure after the account was created
\* does not show, and one before it does.
StatusTellsTheAccount ==
    \A s \in Sessions :
        /\ status[s] = "success" => CodesUsed(s) # {}
        /\ begun[s] = 1 /\ Completing(s) = {} /\ s \notin cut =>
              status[s] = IF CodesUsed(s) # {} THEN "success" ELSE "error"

\* A success is taken back only by another completion of the same session, one
\* that begins after it or was under way beside it.
SuccessIsItsOwn ==
    [][\A s \in Sessions :
          status[s] = "success" /\ status'[s] # "success" =>
              \E f \in Flows : Running(f)' # Running(f)
                               /\ s \in {flow[f].session, flow'[f].session}]_vars

\* Every completion ends and leaves the session settled, or was cut off: by a restart,
\* or by an exception raised before the try of run_camoufox_flow.  These are the only
\* two that leave a row pending; nothing that goes wrong after that try does.
CompletionsSettle ==
    \A s \in Sessions :
        Completing(s) # {} ~> (status[s] \in {"success", "error"} \/ s \in cut)
=============================================================================
