------------------------- MODULE OAuthSessionProofs -------------------------
(***************************************************************************)
(* Proofs about sign-in sessions, for any number of sessions, of requests   *)
(* that complete them by hand, of codes and of restarts.                    *)
(*                                                                         *)
(* StatusTellsTheAccount speaks of a session that nobody is completing.     *)
(* What it says then was decided while a completion was under way, so the   *)
(* invariant says what holds of a session in between.                       *)
(***************************************************************************)
EXTENDS OAuthSession, TLAPS

\* Whose completions there are: a browser flow completes its own session, and only
\* rows that exist are completed.
FlowsOK ==
    /\ \A s \in Sessions : Running(s) => flow[s].session = s
    /\ \A f \in Flows : Running(f) => flow[f].session \in Sessions
                                      /\ status[flow[f].session] # "none"

HasAccount(s) == \E c \in accounts : c[1] = s

\* A session while no second completion has been begun for it.
FirstOK(s) ==
    /\ begun[s] = 0 => /\ \A f \in Flows : flow[f].session # s
                       /\ ~HasAccount(s)
                       /\ status[s] \in {"none", "pending"}
    /\ begun[s] = 1 =>
          /\ \A f, g \in Flows : flow[f].session = s /\ flow[g].session = s => f = g
          /\ \A f \in Flows : flow[f].session = s =>
                (HasAccount(s) <=> flow[f].at = "syncing")
          /\ (\A f \in Flows : flow[f].session # s) /\ s \notin cut =>
                status[s] = IF HasAccount(s) THEN "success" ELSE "error"

\* A session whatever has been begun for it.
SessionOK(s) ==
    /\ status[s] = "none" => begun[s] = 0
    /\ status[s] = "success" => HasAccount(s)
    /\ \A f \in Flows : flow[f].session = s /\ flow[f].at = "syncing" => HasAccount(s)
    /\ FirstOK(s)

IdleOK == \A f \in Flows : flow[f].at = "idle" <=> flow[f].session = NoSession

SessionInv == TypeOK /\ FlowsOK /\ IdleOK /\ \A s \in Sessions : SessionOK(s)

FlowStates == [at : {"idle", "launching", "watching", "exchanging", "syncing"},
               session : Sessions \cup {NoSession}, code : 0..MaxCodes]

-----------------------------------------------------------------------------
(* What one step does to the completions.                                     *)

LEMMA IdleTyped == Idle \in FlowStates /\ Idle.at = "idle" /\ Idle.session = NoSession
  BY BoundAssumption DEF Idle, FlowStates

\* One completion changes, the others do not.
LEMMA OneFlow ==
    ASSUME TypeOK, NEW f \in Flows, NEW r \in FlowStates, flow' = [flow EXCEPT ![f] = r]
    PROVE  /\ flow' \in [Flows -> FlowStates]
           /\ flow'[f] = r
           /\ \A g \in Flows : g # f => flow'[g] = flow[g]
  BY DEF TypeOK, FlowStates

LEMMA Moved ==
    ASSUME TypeOK, NEW f \in Flows, NEW code \in 0..MaxCodes,
           NEW at \in {"idle", "launching", "watching", "exchanging", "syncing"},
           Move(f, at, code)
    PROVE  /\ flow' \in [Flows -> FlowStates]
           /\ flow'[f].session = flow[f].session /\ flow'[f].at = at
           /\ \A g \in Flows : g # f => flow'[g] = flow[g]
  <1> DEFINE r == [at |-> at, session |-> flow[f].session, code |-> code]
  <1>1. r \in FlowStates
    BY DEF TypeOK, FlowStates
  <1>2. flow' = [flow EXCEPT ![f] = r]
    BY DEF Move
  <1>3. r.session = flow[f].session /\ r.at = at
    OBVIOUS
  <1> HIDE DEF r
  <1> QED BY <1>1, <1>2, <1>3, OneFlow

LEMMA Ended ==
    ASSUME TypeOK, NEW f \in Flows, End(f)
    PROVE  /\ flow' \in [Flows -> FlowStates]
           /\ flow'[f].session = NoSession /\ flow'[f].at = "idle"
           /\ \A g \in Flows : g # f => flow'[g] = flow[g]
  BY IdleTyped, OneFlow DEF End

LEMMA Begun ==
    ASSUME TypeOK, NEW f \in Flows, NEW s \in Sessions, NEW code \in 0..MaxCodes,
           NEW at \in {"launching", "exchanging"}, Begin(f, s, at, code)
    PROVE  /\ flow' \in [Flows -> FlowStates]
           /\ flow'[f].session = s /\ flow'[f].at = at
           /\ \A g \in Flows : g # f => flow'[g] = flow[g]
           /\ begun' \in [Sessions -> 0..2]
           /\ begun'[s] = IF begun[s] = 0 THEN 1 ELSE 2
           /\ \A t \in Sessions : t # s => begun'[t] = begun[t]
  <1> DEFINE r == [at |-> at, session |-> s, code |-> code]
  <1>1. r \in FlowStates
    BY DEF FlowStates
  <1>2. flow' = [flow EXCEPT ![f] = r]
    BY DEF Begin
  <1>3. r.session = s /\ r.at = at
    OBVIOUS
  <1>4. /\ begun' \in [Sessions -> 0..2]
        /\ begun'[s] = IF begun[s] = 0 THEN 1 ELSE 2
        /\ \A t \in Sessions : t # s => begun'[t] = begun[t]
    BY DEF Begin, TypeOK
  <1> HIDE DEF r
  <1> QED BY <1>1, <1>2, <1>3, <1>4, OneFlow

\* A completion that is not idle completes a session that exists.
LEMMA RunningFlow ==
    ASSUME SessionInv, NEW f \in Flows, flow[f].at # "idle"
    PROVE  flow[f].session \in Sessions /\ status[flow[f].session] # "none"
  BY DEF SessionInv, FlowsOK, Running

\* A session whose row and whose completions a step leaves alone stays right.
LEMMA Untouched ==
    ASSUME SessionInv, NEW t \in Sessions,
           status'[t] = status[t], begun'[t] = begun[t],
           (t \in cut)' <=> t \in cut, HasAccount(t)' <=> HasAccount(t),
           \A g \in Flows : flow'[g].session = t \/ flow[g].session = t => flow'[g] = flow[g]
    PROVE  SessionOK(t)'
  <1>1. SessionOK(t)
    BY DEF SessionInv
  <1>2. \A g \in Flows : /\ flow'[g].session = t <=> flow[g].session = t
                         /\ flow[g].session = t => flow'[g] = flow[g]
    OBVIOUS
  <1> DEFINE h == HasAccount(t)
             k == HasAccount(t)'
  <1>3. h <=> k
    OBVIOUS
  <1> QED BY <1>1, <1>2, <1>3 DEF SessionOK, FirstOK

-----------------------------------------------------------------------------
(* What the kinds of step do to the sessions.                                 *)

\* A completion begins for s that nobody else is in.
LEMMA Begins ==
    ASSUME SessionInv, NEW f \in Flows, NEW s \in Sessions, NEW code \in 0..MaxCodes,
           NEW at \in {"launching", "exchanging"}, Begin(f, s, at, code),
           flow[f].session = NoSession, f \in Sessions => f = s,
           status' = [status EXCEPT ![s] = "pending"], accounts' = accounts, cut' = cut
    PROVE  /\ flow' \in [Flows -> FlowStates] /\ begun' \in [Sessions -> 0..2]
           /\ FlowsOK' /\ IdleOK' /\ \A t \in Sessions : SessionOK(t)'
  <1>1. TypeOK /\ FlowsOK /\ IdleOK /\ SessionOK(s)
    BY DEF SessionInv
  <1>2. /\ flow' \in [Flows -> FlowStates]
        /\ flow'[f].session = s /\ flow'[f].at = at
        /\ \A g \in Flows : g # f => flow'[g] = flow[g]
        /\ begun' \in [Sessions -> 0..2]
        /\ begun'[s] = IF begun[s] = 0 THEN 1 ELSE 2
        /\ \A t \in Sessions : t # s => begun'[t] = begun[t]
    BY <1>1, Begun
  <1>3. status'[s] = "pending" /\ \A t \in Sessions : t # s => status'[t] = status[t]
    BY <1>1 DEF TypeOK
  <1>4. s # NoSession
    BY IdAssumption
  <1>5. FlowsOK'
    BY <1>1, <1>2, <1>3 DEF FlowsOK, Running, Flows
  <1>6. IdleOK'
    BY <1>1, <1>2, <1>4 DEF IdleOK
  <1>7. \A t \in Sessions : HasAccount(t)' <=> HasAccount(t)
    BY DEF HasAccount
  <1>8. SessionOK(s)'
    <2>1. begun[s] = 0 => /\ \A g \in Flows : flow'[g].session = s => g = f
                          /\ ~HasAccount(s)'
      BY <1>1, <1>2, <1>7 DEF SessionOK, FirstOK
    <2>2. \A g \in Flows : flow'[g].session = s /\ flow'[g].at = "syncing" => HasAccount(s)'
      BY <1>1, <1>2, <1>7 DEF SessionOK
    <2>3. begun[s] \in 0..2
      BY <1>1 DEF TypeOK
    <2>4. begun'[s] = 1 => begun[s] = 0
      BY <1>2, <2>3
    <2>5. begun'[s] # 0
      BY <1>2
    <2> DEFINE h == HasAccount(s)'
    <2> HIDE DEF h
    <2>6. FirstOK(s)'
      BY <1>2, <1>3, <2>1, <2>4, <2>5 DEF FirstOK
    <2> QED BY <1>3, <2>2, <2>6 DEF SessionOK
  <1>9. ASSUME NEW t \in Sessions, t # s PROVE SessionOK(t)'
    <2>1. t # NoSession
      BY IdAssumption
    <2>2. \A g \in Flows : flow'[g].session = t \/ flow[g].session = t => flow'[g] = flow[g]
      BY <1>2, <1>9, <2>1
    <2> QED BY <1>2, <1>3, <1>7, <1>9, <2>2, Untouched
  <1> QED BY <1>2, <1>5, <1>6, <1>8, <1>9

\* A completion ends and settles its session: with "success" after the sync, and
\* before that, when there is no account of it yet, with "error".
LEMMA Settles ==
    ASSUME SessionInv, NEW f \in Flows, flow[f].at # "idle",
           NEW outcome \in {"success", "error"},
           outcome = "success" <=> flow[f].at = "syncing",
           End(f), Settle(f, outcome), begun' = begun, accounts' = accounts, cut' = cut
    PROVE  /\ flow' \in [Flows -> FlowStates]
           /\ status' \in [Sessions -> {"none", "pending", "success", "error"}]
           /\ FlowsOK' /\ IdleOK' /\ \A t \in Sessions : SessionOK(t)'
  <1>1. TypeOK /\ FlowsOK /\ IdleOK
    BY DEF SessionInv
  <1>2. PICK s \in Sessions : flow[f].session = s
    BY RunningFlow
  <1>3. status[s] # "none" /\ s # NoSession
    BY <1>2, RunningFlow, IdAssumption
  <1>4. SessionOK(s)
    BY <1>3 DEF SessionInv
  <1>5. /\ flow' \in [Flows -> FlowStates]
        /\ flow'[f].session = NoSession /\ flow'[f].at = "idle"
        /\ \A g \in Flows : g # f => flow'[g] = flow[g]
    BY <1>1, Ended
  <1>6. status' = [status EXCEPT ![s] = outcome]
    BY <1>2 DEF Settle
  <1>7. /\ status' \in [Sessions -> {"none", "pending", "success", "error"}]
        /\ status'[s] = outcome /\ \A t \in Sessions : t # s => status'[t] = status[t]
    BY <1>1, <1>3, <1>6 DEF TypeOK
  <1>8. FlowsOK'
    BY <1>1, <1>5, <1>7 DEF FlowsOK, Running, Flows
  <1>9. IdleOK'
    BY <1>1, <1>5 DEF IdleOK
  <1>10. \A t \in Sessions : HasAccount(t)' <=> HasAccount(t)
    BY DEF HasAccount
  <1>11. SessionOK(s)'
    <2>1. begun[s] # 0
      BY <1>4, <1>2 DEF SessionOK, FirstOK
    <2>2. outcome = "success" => HasAccount(s)
      BY <1>4, <1>2 DEF SessionOK
    <2>3. begun[s] = 1 => (\A g \in Flows : flow'[g].session # s)
      BY <1>3, <1>4, <1>5, <1>2 DEF SessionOK, FirstOK
    <2>4. begun[s] = 1 => (outcome = "success" <=> HasAccount(s))
      BY <1>4, <1>2 DEF SessionOK, FirstOK
    <2>5. \A g \in Flows : flow'[g].session = s /\ flow'[g].at = "syncing" => HasAccount(s)'
      BY <1>3, <1>4, <1>5, <1>10 DEF SessionOK
    <2> DEFINE h == HasAccount(s)'
    <2>6. h <=> HasAccount(s)
      BY <1>3, <1>10
    <2>7. outcome = "success" \/ outcome = "error"
      OBVIOUS
    <2> HIDE DEF h
    <2>8. begun[s] = 1 => status'[s] = IF h THEN "success" ELSE "error"
      BY <1>7, <2>4, <2>6, <2>7
    <2>9. FirstOK(s)'
      BY <2>1, <2>3, <2>8 DEF FirstOK, h
    <2>10. status'[s] # "none" /\ (status'[s] = "success" => HasAccount(s)')
      BY <1>7, <2>2, <2>6, <2>7 DEF h
    <2> QED BY <2>5, <2>9, <2>10 DEF SessionOK
  <1>12. ASSUME NEW t \in Sessions, t # s PROVE SessionOK(t)'
    <2>1. t # NoSession
      BY IdAssumption
    <2>2. \A g \in Flows : flow'[g].session = t \/ flow[g].session = t => flow'[g] = flow[g]
      BY <1>5, <1>2, <1>12, <2>1
    <2> QED BY <1>7, <1>10, <1>12, <2>2, Untouched
  <1> QED BY <1>5, <1>7, <1>8, <1>9, <1>11, <1>12

\* A browser flow goes on to the next place before its exchange.
LEMMA GoesOn ==
    ASSUME SessionInv, NEW f \in Flows, flow[f].at \in {"launching", "watching"},
           NEW at \in {"watching", "exchanging"}, NEW code \in 0..MaxCodes,
           Move(f, at, code), UNCHANGED <<status, begun, accounts, cut>>
    PROVE  /\ flow' \in [Flows -> FlowStates]
           /\ FlowsOK' /\ IdleOK' /\ \A t \in Sessions : SessionOK(t)'
  <1>1. TypeOK /\ FlowsOK /\ IdleOK /\ \A t \in Sessions : SessionOK(t)
    BY DEF SessionInv
  <1>2. /\ flow' \in [Flows -> FlowStates]
        /\ flow'[f].session = flow[f].session /\ flow'[f].at = at
        /\ \A g \in Flows : g # f => flow'[g] = flow[g]
    BY <1>1, Moved
  <1>3. FlowsOK'
    BY <1>1, <1>2 DEF FlowsOK, Running, Flows
  <1>4. IdleOK'
    BY <1>1, <1>2 DEF IdleOK
  <1>5. ASSUME NEW t \in Sessions PROVE SessionOK(t)'
    <2>1. \A g \in Flows : /\ flow'[g].session = flow[g].session
                           /\ flow'[g].at = "syncing" <=> flow[g].at = "syncing"
      BY <1>2
    <2> DEFINE h == HasAccount(t)
               k == HasAccount(t)'
    <2>2. h <=> k
      BY DEF HasAccount
    <2>3. SessionOK(t)
      BY <1>1
    <2> QED BY <2>1, <2>2, <2>3 DEF SessionOK, FirstOK
  <1> QED BY <1>2, <1>3, <1>4, <1>5

\* A browser flow dies before its exchange: nothing is said of its session any more
\* but what holds of every session.
LEMMA CutOff ==
    ASSUME SessionInv, NEW s \in Sessions, flow[s].at = "launching", End(s),
           cut' = cut \cup {s}, UNCHANGED <<status, issued, spent, accounts, begun, crashes>>
    PROVE  SessionInv'
  <1>1. TypeOK /\ FlowsOK /\ IdleOK /\ s \in Flows
    BY DEF SessionInv, Flows
  <1>2. flow[s].session = s /\ s # NoSession /\ SessionOK(s)
    BY <1>1, IdAssumption DEF SessionInv, FlowsOK, Running
  <1>3. /\ flow' \in [Flows -> FlowStates]
        /\ flow'[s].session = NoSession /\ flow'[s].at = "idle"
        /\ \A g \in Flows : g # s => flow'[g] = flow[g]
    BY <1>1, Ended
  <1>4. TypeOK'
    BY <1>1, <1>3 DEF TypeOK, FlowStates
  <1>5. FlowsOK' /\ IdleOK'
    BY <1>1, <1>3 DEF FlowsOK, IdleOK, Running, Flows
  <1>6. \A t \in Sessions : HasAccount(t)' <=> HasAccount(t)
    BY DEF HasAccount
  <1>7. SessionOK(s)'
    <2>1. begun[s] # 0
      BY <1>1, <1>2 DEF SessionOK, FirstOK
    <2>2. \A g \in Flows : flow'[g].session = s => g # s /\ flow[g].session = s
      BY <1>2, <1>3
    <2>3. begun[s] = 1 => \A g \in Flows : flow'[g].session # s
      BY <1>1, <1>2, <2>2 DEF SessionOK, FirstOK
    <2>4. \A g \in Flows : flow'[g].session = s /\ flow'[g].at = "syncing" => HasAccount(s)'
      BY <1>2, <1>3, <1>6, <2>2 DEF SessionOK
    <2>5. status'[s] = "none" => begun'[s] = 0
      BY <1>2 DEF SessionOK
    <2>6. status'[s] = "success" => HasAccount(s)'
      BY <1>2, <1>6 DEF SessionOK
    <2> DEFINE h == HasAccount(s)'
    <2> HIDE DEF h
    <2>7. FirstOK(s)'
      BY <2>1, <2>3 DEF FirstOK
    <2> QED BY <2>4, <2>5, <2>6, <2>7 DEF SessionOK
  <1>8. ASSUME NEW t \in Sessions, t # s PROVE SessionOK(t)'
    <2>1. t # NoSession
      BY IdAssumption
    <2>2. \A g \in Flows : flow'[g].session = t \/ flow[g].session = t => flow'[g] = flow[g]
      BY <1>2, <1>3, <1>8, <2>1
    <2> QED BY <1>6, <1>8, <2>2, Untouched
  <1> QED BY <1>4, <1>5, <1>7, <1>8 DEF SessionInv

-----------------------------------------------------------------------------
(* Every action preserves the invariant.                                      *)

LEMMA StartKeeps ==
    ASSUME SessionInv, NEW s \in Sessions, NEW mode \in {"camoufox", "manual"}, Start(s, mode)
    PROVE  SessionInv'
  <1>1. TypeOK /\ FlowsOK /\ IdleOK /\ SessionOK(s)
    BY DEF SessionInv
  <1>2. status[s] = "none" /\ begun[s] = 0
    BY <1>1 DEF Start, SessionOK
  <1>3. \A g \in Flows : flow[g].session # s
    BY <1>1, <1>2 DEF SessionOK, FirstOK
  <1>4. status' = [status EXCEPT ![s] = "pending"]
    BY DEF Start
  <1>5. CASE mode = "camoufox"
    <2>1. Begin(s, s, "launching", 0) /\ UNCHANGED <<issued, spent, accounts, cut, crashes>>
      BY <1>5 DEF Start
    <2>2. s \in Flows /\ 0 \in 0..MaxCodes
      BY BoundAssumption DEF Flows
    <2>3. flow[s].session = NoSession
      BY <1>1, <1>3, <2>2 DEF FlowsOK, IdleOK, Running
    <2>4. /\ flow' \in [Flows -> FlowStates] /\ begun' \in [Sessions -> 0..2]
          /\ FlowsOK' /\ IdleOK' /\ \A t \in Sessions : SessionOK(t)'
      BY <1>4, <2>1, <2>2, <2>3, Begins
    <2>5. TypeOK'
      BY <1>1, <1>4, <2>1, <2>4 DEF TypeOK, FlowStates
    <2> QED BY <2>4, <2>5 DEF SessionInv
  <1>6. CASE mode # "camoufox"
    <2>1. UNCHANGED <<flow, begun, issued, spent, accounts, cut, crashes>>
      BY <1>6 DEF Start
    <2>2. TypeOK'
      BY <1>1, <1>4, <2>1 DEF TypeOK
    <2>3. status'[s] = "pending" /\ \A t \in Sessions : t # s => status'[t] = status[t]
      BY <1>1, <1>4 DEF TypeOK
    <2>4. FlowsOK' /\ IdleOK'
      BY <1>1, <2>1, <2>3 DEF FlowsOK, IdleOK, Running
    <2>5. SessionOK(s)'
      BY <1>1, <1>2, <1>3, <2>1, <2>3 DEF SessionOK, FirstOK, HasAccount
    <2>6. ASSUME NEW t \in Sessions, t # s PROVE SessionOK(t)'
      <3>1. HasAccount(t)' <=> HasAccount(t)
        BY <2>1 DEF HasAccount
      <3> QED BY <2>1, <2>3, <2>6, <3>1, Untouched
    <2> QED BY <2>2, <2>4, <2>5, <2>6 DEF SessionInv
  <1> QED BY <1>5, <1>6

LEMMA LaunchKeeps ==
    ASSUME SessionInv, NEW s \in Sessions, Launch(s) PROVE SessionInv'
  <1>1. TypeOK /\ s \in Flows /\ 0 \in 0..MaxCodes /\ flow[s].at = "launching"
    BY BoundAssumption DEF SessionInv, Flows, Launch
  <1>2. UNCHANGED <<issued, spent, accounts, begun, crashes>>
    BY DEF Launch
  <1>3. CASE Move(s, "watching", 0) /\ UNCHANGED <<status, cut>>
    <2>1. /\ flow' \in [Flows -> FlowStates]
          /\ FlowsOK' /\ IdleOK' /\ \A t \in Sessions : SessionOK(t)'
      BY <1>1, <1>2, <1>3, GoesOn
    <2> QED BY <1>1, <1>2, <1>3, <2>1 DEF TypeOK, FlowStates, SessionInv
  <1>4. CASE End(s) /\ Settle(s, "error") /\ UNCHANGED cut
    <2>1. /\ flow' \in [Flows -> FlowStates]
          /\ status' \in [Sessions -> {"none", "pending", "success", "error"}]
          /\ FlowsOK' /\ IdleOK' /\ \A t \in Sessions : SessionOK(t)'
      BY <1>1, <1>2, <1>4, Settles
    <2> QED BY <1>1, <1>2, <1>4, <2>1 DEF TypeOK, FlowStates, SessionInv
  <1>5. CASE End(s) /\ cut' = cut \cup {s} /\ UNCHANGED status
    BY <1>1, <1>2, <1>5, CutOff
  <1> QED BY <1>3, <1>4, <1>5 DEF Launch

LEMMA LogInKeeps ==
    ASSUME SessionInv, NEW s \in Sessions, LogIn(s) PROVE SessionInv'
  <1>1. TypeOK /\ FlowsOK /\ IdleOK /\ \A t \in Sessions : SessionOK(t)
    BY DEF SessionInv
  <1>2. UNCHANGED <<status, flow, spent, accounts, begun, cut, crashes>>
    BY DEF LogIn
  <1>3. TypeOK'
    <2>1. issued[s] \in 0..MaxCodes /\ issued[s] < MaxCodes
      BY <1>1 DEF TypeOK, LogIn
    <2>2. issued[s] + 1 \in 0..MaxCodes
      BY <2>1, BoundAssumption
    <2>3. issued' \in [Sessions -> 0..MaxCodes]
      BY <1>1, <2>2 DEF TypeOK, LogIn
    <2> QED BY <1>1, <1>2, <2>3 DEF TypeOK
  <1>4. FlowsOK' /\ IdleOK'
    BY <1>1, <1>2 DEF FlowsOK, IdleOK, Running
  <1>5. \A t \in Sessions : SessionOK(t)'
    BY <1>1, <1>2 DEF SessionOK, FirstOK, HasAccount
  <1> QED BY <1>3, <1>4, <1>5 DEF SessionInv

LEMMA CaptureKeeps ==
    ASSUME SessionInv, NEW s \in Sessions, Capture(s) PROVE SessionInv'
  <1>1. TypeOK /\ s \in Flows /\ flow[s].at = "watching"
    BY DEF SessionInv, Flows, Capture
  <1>2. issued[s] \in 0..MaxCodes /\ issued[s] < MaxCodes
    BY <1>1 DEF TypeOK, Capture
  <1>3. issued[s] + 1 \in 0..MaxCodes
    BY <1>2, BoundAssumption
  <1>4. issued' \in [Sessions -> 0..MaxCodes]
    BY <1>1, <1>3 DEF TypeOK, Capture
  <1>5. /\ Move(s, "exchanging", issued[s] + 1)
        /\ UNCHANGED <<status, spent, accounts, begun, cut, crashes>>
    BY DEF Capture
  <1>6. /\ flow' \in [Flows -> FlowStates]
        /\ FlowsOK' /\ IdleOK' /\ \A t \in Sessions : SessionOK(t)'
    BY <1>1, <1>3, <1>5, GoesOn
  <1> QED BY <1>1, <1>4, <1>5, <1>6 DEF TypeOK, FlowStates, SessionInv

LEMMA GiveUpKeeps ==
    ASSUME SessionInv, NEW s \in Sessions, GiveUp(s) PROVE SessionInv'
  <1>1. TypeOK /\ s \in Flows /\ flow[s].at = "watching"
    BY DEF SessionInv, Flows, GiveUp, Deadline
  <1>2. /\ End(s) /\ Settle(s, "error")
        /\ UNCHANGED <<issued, spent, accounts, begun, cut, crashes>>
    BY DEF GiveUp
  <1>3. /\ flow' \in [Flows -> FlowStates]
        /\ status' \in [Sessions -> {"none", "pending", "success", "error"}]
        /\ FlowsOK' /\ IdleOK' /\ \A t \in Sessions : SessionOK(t)'
    BY <1>1, <1>2, Settles
  <1> QED BY <1>1, <1>2, <1>3 DEF TypeOK, FlowStates, SessionInv

LEMMA CompleteKeeps ==
    ASSUME SessionInv, NEW r \in Requests, NEW s \in Sessions, NEW code \in 0..MaxCodes,
           Complete(r, s, code)
    PROVE  SessionInv'
  <1>1. TypeOK /\ IdleOK /\ r \in Flows /\ r \notin Sessions
    BY IdAssumption DEF SessionInv, Flows
  <1>2. flow[r].session = NoSession
    BY <1>1 DEF Complete, Running, IdleOK
  <1>3. /\ Begin(r, s, "exchanging", code) /\ status' = [status EXCEPT ![s] = "pending"]
        /\ UNCHANGED <<issued, spent, accounts, cut, crashes>>
    BY DEF Complete
  <1>4. /\ flow' \in [Flows -> FlowStates] /\ begun' \in [Sessions -> 0..2]
        /\ FlowsOK' /\ IdleOK' /\ \A t \in Sessions : SessionOK(t)'
    BY <1>1, <1>2, <1>3, Begins
  <1>5. TypeOK'
    BY <1>1, <1>3, <1>4 DEF TypeOK, FlowStates
  <1> QED BY <1>4, <1>5 DEF SessionInv

LEMMA ExchangeKeeps ==
    ASSUME SessionInv, NEW f \in Flows, Exchange(f) PROVE SessionInv'
  <1>1. TypeOK /\ FlowsOK /\ IdleOK /\ flow[f].at = "exchanging"
    BY DEF SessionInv, Exchange
  <1>2. PICK s \in Sessions : flow[f].session = s
    BY <1>1, RunningFlow
  <1>3. status[s] # "none" /\ s # NoSession
    BY <1>1, <1>2, RunningFlow, IdAssumption
  <1>4. /\ Move(f, "syncing", flow[f].code)
        /\ spent' = spent \cup {CodeOf(f)} /\ accounts' = accounts \cup {CodeOf(f)}
        /\ UNCHANGED <<status, issued, begun, cut, crashes>>
    BY DEF Exchange
  <1>5. flow[f].code \in 0..MaxCodes
    BY <1>1 DEF TypeOK
  <1>6. CodeOf(f) \in Codes /\ CodeOf(f)[1] = s
    BY <1>2, <1>5 DEF CodeOf, Codes
  <1>7. /\ flow' \in [Flows -> FlowStates]
        /\ flow'[f].session = s /\ flow'[f].at = "syncing"
        /\ \A g \in Flows : g # f => flow'[g] = flow[g]
    BY <1>1, <1>2, <1>4, <1>5, Moved
  <1>8. TypeOK'
    BY <1>1, <1>4, <1>6, <1>7 DEF TypeOK, FlowStates
  <1>9. FlowsOK'
    BY <1>1, <1>2, <1>3, <1>4, <1>7 DEF FlowsOK, Running, Flows
  <1>10. IdleOK'
    BY <1>1, <1>3, <1>7 DEF IdleOK
  <1>11. HasAccount(s)'
    BY <1>4, <1>6 DEF HasAccount
  <1>12. SessionOK(s)'
    <2>1. SessionOK(s)
      BY DEF SessionInv
    <2>2. begun[s] # 0
      BY <1>2, <2>1 DEF SessionOK, FirstOK
    <2>3. begun[s] = 1 => \A g \in Flows : flow'[g].session = s => g = f
      BY <1>2, <1>7, <2>1 DEF SessionOK, FirstOK
    <2> DEFINE h == HasAccount(s)'
    <2>4. h
      BY <1>11
    <2> QED BY <1>3, <1>4, <1>7, <2>2, <2>3, <2>4 DEF SessionOK, FirstOK
  <1>13. ASSUME NEW t \in Sessions, t # s PROVE SessionOK(t)'
    <2>1. HasAccount(t)' <=> HasAccount(t)
      BY <1>4, <1>6, <1>13 DEF HasAccount
    <2>2. \A g \in Flows : flow'[g].session = t \/ flow[g].session = t => flow'[g] = flow[g]
      BY <1>2, <1>7, <1>13
    <2> QED BY <1>4, <2>1, <2>2, Untouched
  <1> QED BY <1>8, <1>9, <1>10, <1>12, <1>13 DEF SessionInv

LEMMA ExchangeFailsKeeps ==
    ASSUME SessionInv, NEW f \in Flows, ExchangeFails(f) PROVE SessionInv'
  <1>1. TypeOK /\ flow[f].at = "exchanging"
    BY DEF SessionInv, ExchangeFails
  <1>2. /\ End(f) /\ Settle(f, "error")
        /\ UNCHANGED <<issued, accounts, begun, cut, crashes>>
    BY DEF ExchangeFails
  <1>3. /\ flow' \in [Flows -> FlowStates]
        /\ status' \in [Sessions -> {"none", "pending", "success", "error"}]
        /\ FlowsOK' /\ IdleOK' /\ \A t \in Sessions : SessionOK(t)'
    BY <1>1, <1>2, Settles
  <1>4. CodeOf(f) \in Codes
    BY <1>1, RunningFlow DEF CodeOf, Codes, TypeOK
  <1>5. spent' \subseteq Codes /\ accounts' \subseteq spent'
    BY <1>1, <1>2, <1>4 DEF ExchangeFails, TypeOK
  <1> QED BY <1>1, <1>2, <1>3, <1>5 DEF TypeOK, FlowStates, SessionInv

LEMMA SyncKeeps ==
    ASSUME SessionInv, NEW f \in Flows, Sync(f) PROVE SessionInv'
  <1>1. TypeOK /\ flow[f].at = "syncing"
    BY DEF SessionInv, Sync
  <1>2. /\ End(f) /\ Settle(f, "success")
        /\ UNCHANGED <<issued, spent, accounts, begun, cut, crashes>>
    BY DEF Sync, AfterSync
  <1>3. /\ flow' \in [Flows -> FlowStates]
        /\ status' \in [Sessions -> {"none", "pending", "success", "error"}]
        /\ FlowsOK' /\ IdleOK' /\ \A t \in Sessions : SessionOK(t)'
    BY <1>1, <1>2, Settles
  <1> QED BY <1>1, <1>2, <1>3 DEF TypeOK, FlowStates, SessionInv

\* What a restart leaves of a session nobody was completing is what it was.
LEMMA CrashKeeps ==
    ASSUME SessionInv, Crash PROVE SessionInv'
  <1>1. TypeOK /\ FlowsOK /\ IdleOK /\ \A t \in Sessions : SessionOK(t)
    BY DEF SessionInv
  <1>2. /\ crashes < MaxCrashes /\ crashes' = crashes + 1
        /\ cut' = cut \cup {s \in Sessions : Completing(s) # {}}
        /\ flow' = [f \in Flows |-> Idle]
        /\ UNCHANGED <<status, issued, spent, accounts, begun>>
    BY DEF Crash
  <1>3. Idle \in FlowStates /\ Idle.at = "idle" /\ Idle.session = NoSession
    BY IdleTyped
  <1>4. \A g \in Flows : flow'[g] = Idle
    BY <1>2
  <1>5. TypeOK'
    <2>1. crashes' \in 0..MaxCrashes
      BY <1>1, <1>2, BoundAssumption DEF TypeOK
    <2>2. flow' \in [Flows -> FlowStates]
      BY <1>2, <1>3
    <2> QED BY <1>1, <1>2, <2>1, <2>2 DEF TypeOK, FlowStates
  <1>6. FlowsOK' /\ IdleOK'
    BY <1>3, <1>4 DEF FlowsOK, IdleOK, Running, Flows
  <1>7. ASSUME NEW t \in Sessions PROVE SessionOK(t)'
    <2>1. SessionOK(t) /\ t # NoSession
      BY <1>1, IdAssumption
    <2>2. t \notin cut' => t \notin cut /\ \A g \in Flows : flow[g].session # t
      BY <1>1, <1>2, <2>1 DEF Completing, Running, IdleOK
    <2>3. \A g \in Flows : flow'[g].session # t
      BY <1>3, <1>4, <2>1
    <2> DEFINE h == HasAccount(t)
               k == HasAccount(t)'
    <2>4. h <=> k
      BY <1>2 DEF HasAccount
    <2> QED BY <1>2, <2>1, <2>2, <2>3, <2>4 DEF SessionOK, FirstOK
  <1> QED BY <1>5, <1>6, <1>7 DEF SessionInv

-----------------------------------------------------------------------------
(* The theorems.                                                              *)

LEMMA SessionInvInit == Init => SessionInv
  <1> SUFFICES ASSUME Init PROVE SessionInv
    OBVIOUS
  <1>1. Idle \in FlowStates /\ Idle.at = "idle" /\ Idle.session = NoSession
    BY IdleTyped
  <1>2. \A f \in Flows : flow[f] = Idle
    BY DEF Init
  <1>3. TypeOK
    <2>1. flow \in [Flows -> FlowStates]
      BY <1>1 DEF Init
    <2> QED BY <2>1, BoundAssumption DEF Init, TypeOK, FlowStates
  <1>4. FlowsOK /\ IdleOK
    BY <1>1, <1>2 DEF FlowsOK, IdleOK, Running, Flows
  <1>5. \A s \in Sessions : SessionOK(s)
    BY <1>1, <1>2, IdAssumption DEF Init, SessionOK, FirstOK, HasAccount
  <1> QED BY <1>3, <1>4, <1>5 DEF SessionInv

LEMMA SessionInvStep == SessionInv /\ [Next]_vars => SessionInv'
  <1> SUFFICES ASSUME SessionInv, [Next]_vars PROVE SessionInv'
    OBVIOUS
  <1>1. CASE UNCHANGED vars
    <2>1. TypeOK' /\ FlowsOK' /\ IdleOK'
      BY <1>1 DEF SessionInv, vars, TypeOK, FlowsOK, IdleOK, Running
    <2>2. \A t \in Sessions : SessionOK(t)'
      BY <1>1 DEF SessionInv, vars, SessionOK, FirstOK, HasAccount
    <2> QED BY <2>1, <2>2 DEF SessionInv
  <1>2. CASE \E s \in Sessions : \E mode \in {"camoufox", "manual"} : Start(s, mode)
    BY <1>2, StartKeeps
  <1>3. CASE \E s \in Sessions : Launch(s)
    BY <1>3, LaunchKeeps
  <1>4. CASE \E s \in Sessions : LogIn(s)
    BY <1>4, LogInKeeps
  <1>5. CASE \E s \in Sessions : Capture(s)
    BY <1>5, CaptureKeeps
  <1>6. CASE \E s \in Sessions : GiveUp(s)
    BY <1>6, GiveUpKeeps
  <1>7. CASE \E r \in Requests, s \in Sessions, code \in 0..MaxCodes : Complete(r, s, code)
    BY <1>7, CompleteKeeps
  <1>8. CASE \E f \in Flows : Exchange(f)
    BY <1>8, ExchangeKeeps
  <1>9. CASE \E f \in Flows : ExchangeFails(f)
    BY <1>9, ExchangeFailsKeeps
  <1>10. CASE \E f \in Flows : Sync(f)
    BY <1>10, SyncKeeps
  <1>11. CASE Crash
    BY <1>11, CrashKeeps
  <1> QED BY <1>1, <1>2, <1>3, <1>4, <1>5, <1>6, <1>7, <1>8, <1>9, <1>10, <1>11 DEF Next

\* Every state of every behaviour is well typed.
THEOREM OAuthTypeCorrect == Spec => []TypeOK
  <1>1. SessionInv => TypeOK
    BY DEF SessionInv
  <1> QED BY <1>1, SessionInvInit, SessionInvStep, PTL DEF Spec

\* The status a finished sign-in shows is the truth about the account, however
\* many sign-ins, requests and restarts there are (_finalize_with_code).
THEOREM StatusIsTrue == Spec => []StatusTellsTheAccount
  <1>1. SessionInv => StatusTellsTheAccount
    <2> SUFFICES ASSUME SessionInv, NEW s \in Sessions
                 PROVE  /\ status[s] = "success" => CodesUsed(s) # {}
                        /\ begun[s] = 1 /\ Completing(s) = {} /\ s \notin cut =>
                              status[s] = IF CodesUsed(s) # {} THEN "success" ELSE "error"
      BY DEF StatusTellsTheAccount
    <2>1. IdleOK /\ SessionOK(s) /\ s # NoSession
      BY IdAssumption DEF SessionInv
    <2>2. CodesUsed(s) # {} <=> HasAccount(s)
      BY DEF CodesUsed, HasAccount
    <2>3. Completing(s) = {} => \A f \in Flows : flow[f].session # s
      BY <2>1 DEF Completing, Running, IdleOK
    <2> QED BY <2>1, <2>2, <2>3 DEF SessionOK, FirstOK
  <1> QED BY <1>1, SessionInvInit, SessionInvStep, PTL DEF Spec

\* A success is only taken back by a completion of the same session: no other
\* session's failure reaches its row (update_oauth_session).
THEOREM SuccessStays == Spec => SuccessIsItsOwn
  <1> DEFINE Own == \A s \in Sessions :
                status[s] = "success" /\ status'[s] # "success" =>
                    \E f \in Flows : Running(f)' # Running(f)
                                     /\ s \in {flow[f].session, flow'[f].session}
  <1>1. SessionInv /\ [Next]_vars => [Own]_vars
    <2> SUFFICES ASSUME SessionInv, Next, NEW s \in Sessions,
                        status[s] = "success", status'[s] # "success"
                 PROVE  \E f \in Flows : Running(f)' # Running(f)
                                         /\ s \in {flow[f].session, flow'[f].session}
      BY DEF vars
    <2>1. TypeOK /\ FlowsOK
      BY DEF SessionInv
    <2>2. ASSUME NEW f \in Flows, Running(f), End(f), NEW outcome, Settle(f, outcome)
          PROVE  Running(f)' # Running(f) /\ s \in {flow[f].session, flow'[f].session}
      <3>1. flow'[f].at = "idle"
        BY <2>1, <2>2, Ended
      <3>2. flow[f].session = s
        BY <2>1, <2>2 DEF Settle, TypeOK
      <3> QED BY <2>2, <3>1, <3>2 DEF Running
    <2>3. ASSUME NEW t \in Sessions, NEW mode \in {"camoufox", "manual"}, Start(t, mode)
          PROVE  FALSE
      BY <2>1, <2>3 DEF Start, TypeOK
    <2>4. ASSUME NEW t \in Sessions, Launch(t) \/ GiveUp(t)
          PROVE  End(t) /\ Settle(t, "error") /\ Running(t) /\ t \in Flows
      BY <2>4 DEF Launch, GiveUp, Deadline, Running, Flows
    <2>5. ASSUME NEW t \in Sessions, LogIn(t) \/ Capture(t) PROVE FALSE
      BY <2>5 DEF LogIn, Capture
    <2>6. ASSUME NEW r \in Requests, NEW t \in Sessions, NEW code \in 0..MaxCodes,
                 Complete(r, t, code)
          PROVE  /\ r \in Flows /\ Running(r)' # Running(r)
                 /\ s \in {flow[r].session, flow'[r].session}
      <3>1. r \in Flows /\ "exchanging" \in {"launching", "exchanging"}
        BY DEF Flows
      <3>2. flow'[r].session = t /\ flow'[r].at = "exchanging"
        BY <2>1, <2>6, <3>1, Begun DEF Complete
      <3>3. s = t
        BY <2>1, <2>6 DEF Complete, TypeOK
      <3> QED BY <2>6, <3>1, <3>2, <3>3 DEF Complete, Running
    <2>7. ASSUME NEW f \in Flows, Exchange(f) PROVE FALSE
      BY <2>7 DEF Exchange
    <2>8. ASSUME NEW f \in Flows, ExchangeFails(f)
          PROVE  End(f) /\ Settle(f, "error") /\ Running(f)
      BY <2>8 DEF ExchangeFails, Running
    <2>9. ASSUME NEW f \in Flows, Sync(f) PROVE End(f) /\ Settle(f, "success") /\ Running(f)
      BY <2>9 DEF Sync, AfterSync, Running
    <2>10. ~Crash
      BY DEF Crash
    <2> QED BY <2>2, <2>3, <2>4, <2>5, <2>6, <2>7, <2>8, <2>9, <2>10 DEF Next
  <1>2. SuccessIsItsOwn <=> [][Own]_vars
    BY PTL DEF SuccessIsItsOwn
  <1> HIDE DEF Own
  <1> QED BY <1>1, <1>2, SessionInvInit, SessionInvStep, PTL DEF Spec

=============================================================================
