------------------------ MODULE DaemonLifecycleProofs ------------------------
(* Theorems of DaemonLifecycle, for any sets of processes and terminals and any *)
(* number of polls.                                                              *)
EXTENDS DaemonLifecycle, TLAPS

-----------------------------------------------------------------------------
(* The inductive invariant.                                                   *)

Looks    == {"look to start", "look to stop", "look"}
Stales   == {"stale, start", "stale, stop", "stale"}
Watching == {"poll", "connect", "record"}
Stopping == {"signal", "wait", "kill", "clear"}

Commands == [step  : {"ready", "spawn"} \cup Looks \cup Stales \cup Watching \cup Stopping,
             pid   : Pids \cup {NoPid},
             polls : Nat,
             then  : {"ready", "start"}]

\* A command that works on a process knows which, and start polls before it
\* counts a poll.
CommandOK(c) == /\ c.step \in Watching \cup Stopping => c.pid \in Pids
                /\ c.step = "connect" => c.polls # 0

Types == /\ proc \in [Pids -> Phases]
         /\ pidFile \in Pids \cup {NoPid}
         /\ port \in Pids \cup {NoPid}
         /\ cmd \in [Terminals -> Commands]
         /\ \A t \in Terminals : CommandOK(cmd[t])
         /\ overlapped \in BOOLEAN

\* The port is held by a daemon that serves, or by one that was killed serving.
PortHeld == port # NoPid => proc[port] \in {"serving", "dying"}

\* Whose pid the file must hold: the daemons, and one that is about to clear it.
Owners == {p \in Pids : proc[p] \in {"booting", "serving", "closing", "leaving"}}

\* One command at a time, one process at a time on its way to being a daemon,
\* and that one the child of the command under way, if there is one.
OneAtATime ==
    /\ \A t, u \in Terminals : cmd[t].step # "ready" /\ cmd[u].step # "ready" => t = u
    /\ \A p, q \in StartingUp : p = q
    /\ \A t \in Terminals, p \in StartingUp :
          cmd[t].step # "ready" => cmd[t].step \in Watching /\ cmd[t].pid = p

\* The file names whoever owns it.  A command that watches or stops a process
\* knows it as the only possible owner, and nobody owns a file that is about to
\* be cleared as stale, or that a process on its way will overwrite.
FileIsOwned ==
    /\ \A p \in Owners : pidFile = p
    /\ \A p \in Owners, t \in Terminals :
          /\ cmd[t].step \notin Stales \cup {"spawn", "clear"}
          /\ cmd[t].step \in Watching \cup {"signal", "wait", "kill"} => cmd[t].pid = p
    /\ \A p \in Owners, q \in Pids : proc[q] \notin {"stale", "checked"}

IInv == Types /\ PortHeld /\ (~overlapped => OneAtATime /\ FileIsOwned)

-----------------------------------------------------------------------------
(* The steps of the processes.                                                *)

\* A process that takes a step of its own, and leaves the commands alone.
Steps(p, phase) == /\ proc' = [proc EXCEPT ![p] = phase]
                   /\ UNCHANGED <<cmd, overlapped>>

\* Some steps take a process out of the way: it owns nothing it did not own, and
\* is on its way to being a daemon only if it was.
LEMMA WithdrawOK ==
    ASSUME IInv, NEW p \in Pids, NEW phase \in Phases, Steps(p, phase),
           UNCHANGED pidFile,
           port' \in {port, NoPid}, port' = p => phase \in {"serving", "dying"},
           phase \in {"booting", "serving", "closing", "leaving"} => p \in Owners,
           phase \notin {"new", "stale", "checked"}
    PROVE  IInv'
<1>1. Types'
  BY DEF IInv, Types, Steps, CommandOK
<1>2. PortHeld'
  BY DEF IInv, Types, PortHeld, Steps
<1>3. /\ Owners' \subseteq Owners /\ StartingUp' \subseteq StartingUp
      /\ \A q \in Pids : proc'[q] \in {"stale", "checked"} => proc[q] = proc'[q]
  BY DEF IInv, Types, Steps, Owners, StartingUp
<1>4. ASSUME ~overlapped' PROVE OneAtATime' /\ FileIsOwned'
  <2>1. OneAtATime /\ FileIsOwned
    BY <1>4 DEF IInv, Steps
  <2>2. OneAtATime'
    BY <1>3, <2>1 DEF OneAtATime, Steps
  <2>3. FileIsOwned'
    BY <1>3, <2>1 DEF FileIsOwned, Steps
  <2> QED BY <2>2, <2>3
<1> QED BY <1>1, <1>2, <1>4 DEF IInv

LEMMA LookOK == ASSUME IInv, NEW p \in Pids, Look(p) PROVE IInv'
<1> DEFINE phase == IF Active(pidFile) THEN "gone"
                    ELSE IF pidFile # NoPid THEN "stale" ELSE "checked"
<1>1. Steps(p, phase) /\ UNCHANGED <<pidFile, port>> /\ proc[p] = "new"
  BY DEF Look, To, Steps
<1>2. port # p
  BY <1>1, PidAssumption DEF IInv, PortHeld
<1>3. CASE Active(pidFile)
  BY <1>1, <1>2, <1>3, WithdrawOK DEF Phases
<1>4. CASE ~Active(pidFile)
  <2>1. phase \in {"stale", "checked"}
    BY <1>4
  <2> HIDE DEF phase
  <2>2. Types'
    BY <1>1, <2>1 DEF IInv, Types, Steps, CommandOK, Phases
  <2>3. PortHeld'
    BY <1>1, <1>2 DEF IInv, Types, PortHeld, Steps
  <2>4. StartingUp' = StartingUp /\ Owners' = Owners
    BY <1>1, <2>1 DEF IInv, Types, Steps, Owners, StartingUp
  <2>5. ASSUME ~overlapped' PROVE OneAtATime' /\ FileIsOwned'
    <3>1. OneAtATime /\ FileIsOwned
      BY <1>1, <2>5 DEF IInv, Steps
    <3>2. OneAtATime'
      BY <1>1, <2>4, <3>1 DEF OneAtATime, Steps
    <3>3. Owners = {}
      BY <1>4, <3>1, PidAssumption DEF FileIsOwned, Owners, Active, Alive
    <3>4. FileIsOwned'
      BY <2>4, <3>3 DEF FileIsOwned
    <3> QED BY <3>2, <3>4
  <2> QED BY <2>2, <2>3, <2>5 DEF IInv
<1> QED BY <1>3, <1>4

LEMMA ClearStaleOK == ASSUME IInv, NEW p \in Pids, ClearStale(p) PROVE IInv'
<1>1. /\ Steps(p, "checked") /\ UNCHANGED port /\ pidFile' = NoPid /\ proc[p] = "stale"
  BY DEF ClearStale, To, Steps
<1>2. Types'
  BY <1>1 DEF IInv, Types, Steps, CommandOK, Phases
<1>3. PortHeld'
  BY <1>1 DEF IInv, Types, PortHeld, Steps
<1>4. StartingUp' = StartingUp /\ Owners' = Owners
  BY <1>1 DEF IInv, Types, Steps, Owners, StartingUp
<1>5. ASSUME ~overlapped' PROVE OneAtATime' /\ FileIsOwned'
  <2>1. OneAtATime /\ FileIsOwned
    BY <1>1, <1>5 DEF IInv, Steps
  <2>2. OneAtATime'
    BY <1>1, <1>4, <2>1 DEF OneAtATime, Steps
  <2>3. Owners = {}
    BY <1>1, <2>1 DEF FileIsOwned
  <2>4. FileIsOwned'
    BY <1>4, <2>3 DEF FileIsOwned
  <2> QED BY <2>2, <2>4
<1> QED BY <1>2, <1>3, <1>5 DEF IInv

LEMMA WriteOwnPidOK == ASSUME IInv, NEW p \in Pids, WriteOwnPid(p) PROVE IInv'
<1>1. /\ Steps(p, "booting") /\ UNCHANGED port /\ pidFile' = p /\ proc[p] = "checked"
  BY DEF WriteOwnPid, To, Steps
<1>2. Types'
  BY <1>1 DEF IInv, Types, Steps, CommandOK, Phases
<1>3. PortHeld'
  BY <1>1 DEF IInv, Types, PortHeld, Steps
<1>4. /\ StartingUp' = StartingUp \ {p} /\ Owners' = Owners \cup {p} /\ p \in StartingUp
      /\ \A q \in Pids \ {p} : proc'[q] = proc[q]
      /\ proc'[p] = "booting"
  BY <1>1 DEF IInv, Types, Steps, Owners, StartingUp
<1>5. ASSUME ~overlapped' PROVE OneAtATime' /\ FileIsOwned'
  <2>1. OneAtATime /\ FileIsOwned
    BY <1>1, <1>5 DEF IInv, Steps
  <2>2. OneAtATime'
    BY <1>1, <1>4, <2>1 DEF OneAtATime, Steps
  <2>3. Owners' = {p}
    BY <1>1, <1>4, <2>1 DEF FileIsOwned
  <2>4. \A t \in Terminals :
           cmd[t].step # "ready" => cmd[t].step \in Watching /\ cmd[t].pid = p
    BY <1>4, <2>1 DEF OneAtATime
  <2>5. \A q \in Pids : proc'[q] \notin {"stale", "checked"}
    BY <1>4, <2>1 DEF OneAtATime, StartingUp
  <2>6. cmd' = cmd
    BY <1>1 DEF Steps
  <2>7. \A t \in Terminals :
           /\ cmd'[t].step \notin Stales \cup {"spawn", "clear"}
           /\ cmd'[t].step \in Watching \cup {"signal", "wait", "kill"} => cmd'[t].pid = p
    BY <2>4, <2>6 DEF Watching, Stales
  <2>8. FileIsOwned'
    BY <1>1, <2>3, <2>5, <2>7 DEF FileIsOwned
  <2> QED BY <2>2, <2>8
<1> QED BY <1>2, <1>3, <1>5 DEF IInv

LEMMA BindOK == ASSUME IInv, NEW p \in Pids, Bind(p) PROVE IInv'
<1>1. CASE port = NoPid
  <2>1. Steps(p, "serving") /\ port' = p /\ proc[p] = "booting" /\ UNCHANGED pidFile
    BY <1>1 DEF Bind, To, Steps
  <2>2. Types'
    BY <2>1 DEF IInv, Types, Steps, CommandOK, Phases
  <2>3. PortHeld'
    BY <2>1 DEF IInv, Types, PortHeld, Steps
  <2>4. StartingUp' = StartingUp /\ Owners' = Owners
        /\ \A q \in Pids : proc'[q] \in {"stale", "checked"} => proc[q] = proc'[q]
    BY <2>1 DEF IInv, Types, Steps, Owners, StartingUp
  <2>5. ~overlapped' => OneAtATime' /\ FileIsOwned'
    BY <2>1, <2>4 DEF IInv, OneAtATime, FileIsOwned, Steps
  <2> QED BY <2>2, <2>3, <2>5 DEF IInv
<1>2. CASE port # NoPid
  <2>1. Steps(p, "leaving") /\ proc[p] = "booting" /\ UNCHANGED <<pidFile, port>>
    BY <1>2 DEF Bind, To, Steps
  <2>2. port # p
    BY <1>2, <2>1 DEF IInv, PortHeld
  <2> QED BY <2>1, <2>2, WithdrawOK DEF Owners, Phases
<1> QED BY <1>1, <1>2

LEMMA DrainedOK == ASSUME IInv, NEW p \in Pids, Drained(p) PROVE IInv'
<1>1. Steps(p, "leaving") /\ proc[p] = "closing" /\ UNCHANGED <<pidFile, port>>
  BY DEF Drained, To, Steps
<1>2. port # p
  BY <1>1, PidAssumption DEF IInv, PortHeld
<1> QED BY <1>1, <1>2, WithdrawOK DEF Owners, Phases

LEMMA CrashOK == ASSUME IInv, NEW p \in Pids, Crash(p) PROVE IInv'
<1>1. Steps(p, "gone") /\ UNCHANGED pidFile /\ port' = IF port = p THEN NoPid ELSE port
  BY DEF Crash, Dies, To, Steps
<1>2. port' \in {port, NoPid} /\ port' # p
  BY <1>1, PidAssumption
<1> QED BY <1>1, <1>2, WithdrawOK DEF Phases

\* Leaving clears the file: nobody else owns it.
LEMMA LeaveOK == ASSUME IInv, NEW p \in Pids, Leave(p) PROVE IInv'
<1>1. /\ Steps(p, "gone") /\ pidFile' = NoPid /\ proc[p] = "leaving"
      /\ port' = IF port = p THEN NoPid ELSE port
  BY DEF Leave, Dies, To, Steps
<1>2. Types'
  BY <1>1 DEF IInv, Types, Steps, CommandOK, Phases
<1>3. PortHeld'
  BY <1>1 DEF IInv, Types, PortHeld, Steps
<1>4. StartingUp' = StartingUp /\ Owners' = Owners \ {p} /\ p \in Owners
  BY <1>1 DEF IInv, Types, Steps, Owners, StartingUp
<1>5. ASSUME ~overlapped' PROVE OneAtATime' /\ FileIsOwned'
  <2>1. OneAtATime /\ FileIsOwned
    BY <1>1, <1>5 DEF IInv, Steps
  <2>2. OneAtATime'
    BY <1>1, <1>4, <2>1 DEF OneAtATime, Steps
  <2>3. Owners' = {}
    BY <1>4, <2>1 DEF FileIsOwned
  <2> QED BY <2>2, <2>3 DEF FileIsOwned
<1> QED BY <1>2, <1>3, <1>5 DEF IInv

LEMMA RunForegroundOK == ASSUME IInv, NEW p \in Pids, RunForeground(p) PROVE IInv'
<1>1. /\ proc[p] = "gone" /\ proc' = [proc EXCEPT ![p] = "new"]
      /\ overlapped' = (overlapped \/ Busy) /\ UNCHANGED <<pidFile, port, cmd>>
  BY DEF RunForeground, To, Free, Alive
<1>2. Types'
  BY <1>1 DEF IInv, Types, CommandOK, Phases
<1>3. PortHeld'
  BY <1>1 DEF IInv, Types, PortHeld
<1>4. StartingUp' = StartingUp \cup {p} /\ Owners' = Owners
      /\ \A q \in Pids : proc'[q] \in {"stale", "checked"} => proc[q] = proc'[q]
  BY <1>1 DEF IInv, Types, Owners, StartingUp
<1>5. ASSUME ~overlapped' PROVE OneAtATime' /\ FileIsOwned'
  <2>1. /\ OneAtATime /\ FileIsOwned /\ StartingUp = {}
        /\ \A t \in Terminals : cmd[t].step = "ready"
    BY <1>1, <1>5 DEF IInv, Busy
  <2>2. OneAtATime'
    BY <1>1, <1>4, <2>1 DEF OneAtATime
  <2>3. FileIsOwned'
    BY <1>1, <1>4, <2>1 DEF FileIsOwned
  <2> QED BY <2>2, <2>3
<1> QED BY <1>2, <1>3, <1>5 DEF IInv

-----------------------------------------------------------------------------
(* The steps of the commands.                                                 *)

\* What a command that is to be at c, with a pid file of f, may leave behind.
Fits(c, f) ==
    /\ \A p \in StartingUp : c.step # "ready" => c.step \in Watching /\ c.pid = p
    /\ \A p \in Owners : /\ f = p
                         /\ c.step \notin Stales \cup {"spawn", "clear"}
                         /\ c.step \in Watching \cup {"signal", "wait", "kill"} => c.pid = p

\* A command that is under way goes on, and no process takes a step.
LEMMA TurnOK ==
    ASSUME IInv, NEW t \in Terminals, NEW c \in Commands, CommandOK(c),
           cmd' = [cmd EXCEPT ![t] = c], UNCHANGED <<proc, port, overlapped>>,
           pidFile' \in Pids \cup {NoPid}, cmd[t].step # "ready",
           ~overlapped => Fits(c, pidFile')
    PROVE  IInv'
<1>1. Types' /\ PortHeld'
  BY DEF IInv, Types, PortHeld
<1>2. StartingUp' = StartingUp /\ Owners' = Owners
  BY DEF StartingUp, Owners
<1>3. cmd'[t] = c /\ \A u \in Terminals \ {t} : cmd'[u] = cmd[u]
  BY DEF IInv, Types
<1>4. ASSUME ~overlapped' PROVE OneAtATime' /\ FileIsOwned'
  <2>1. OneAtATime /\ FileIsOwned /\ Fits(c, pidFile')
    BY <1>4 DEF IInv
  <2>2. \A u \in Terminals \ {t} : cmd'[u].step = "ready"
    BY <1>3, <2>1 DEF OneAtATime
  <2>3. OneAtATime'
    BY <1>2, <1>3, <2>1, <2>2 DEF OneAtATime, Fits
  <2>4. FileIsOwned'
    BY <1>2, <1>3, <2>1, <2>2 DEF FileIsOwned, Fits, Stales, Watching
  <2> QED BY <2>3, <2>4
<1> QED BY <1>1, <1>4 DEF IInv

\* What is known of a command that is under way.
LEMMA UnderWay ==
    ASSUME IInv, ~overlapped, NEW t \in Terminals, cmd[t].step # "ready"
    PROVE  /\ Fits(cmd[t], pidFile)
           /\ cmd[t].step \notin Watching => StartingUp = {}
           /\ cmd[t].step \in Stales \cup {"spawn", "clear"} => Owners = {}
BY DEF IInv, OneAtATime, FileIsOwned, Fits

LEMMA ReadyOK == /\ Ready \in Commands /\ CommandOK(Ready)
                 /\ Ready.step = "ready" /\ Ready.then = "ready"
BY DEF Ready, Commands, CommandOK, Watching, Stopping

\* A command that is over fits whatever there is.
LEMMA ReadyFits == ASSUME IInv, ~overlapped PROVE Fits(Ready, pidFile)
BY ReadyOK DEF IInv, FileIsOwned, Fits, Watching, Stales

LEMMA FinishOK ==
    ASSUME IInv, NEW t \in Terminals, cmd[t].step # "ready", Finish(t),
           UNCHANGED <<proc, port, overlapped, pidFile>>
    PROVE  IInv'
<1>1. pidFile' \in Pids \cup {NoPid} /\ pidFile' = pidFile
  BY DEF IInv, Types
<1>2. ~overlapped => Fits(Ready, pidFile')
  BY <1>1, ReadyFits
<1> HIDE DEF Ready
<1> QED BY <1>1, <1>2, ReadyOK, TurnOK DEF Finish

\* The second half of restart.
LookToStart == [Ready EXCEPT !.step = "look to start"]

LEMMA LookToStartOK == /\ LookToStart \in Commands /\ CommandOK(LookToStart)
                       /\ LookToStart.step = "look to start"
<1>1. LookToStart \in Commands /\ LookToStart.step = "look to start"
  BY ReadyOK DEF LookToStart, Commands, Looks
<1> QED BY <1>1 DEF CommandOK, Watching, Stopping

\* stop is over, or restart goes on.
LEMMA AfterStopOK ==
    ASSUME IInv, NEW t \in Terminals, AfterStop(t),
           cmd[t].step \notin Watching \cup {"ready"},
           UNCHANGED <<proc, port, overlapped>>,
           pidFile' \in Pids \cup {NoPid},
           ~overlapped => \A p \in Owners : pidFile' = p
    PROVE  IInv'
<1>1. ~overlapped => StartingUp = {}
  BY UnderWay
<1>2. CASE cmd[t].then = "start"
  <2>1. cmd' = [cmd EXCEPT ![t] = LookToStart]
    BY <1>2 DEF AfterStop, LookToStart
  <2>2. ~overlapped => Fits(LookToStart, pidFile')
    BY <1>1, LookToStartOK DEF Fits, Watching, Stales
  <2> QED BY <2>1, <2>2, LookToStartOK, TurnOK
<1>3. CASE cmd[t].then # "start"
  <2>1. cmd' = [cmd EXCEPT ![t] = Ready]
    BY <1>3 DEF AfterStop, Finish
  <2>2. ~overlapped => Fits(Ready, pidFile')
    BY <1>1, ReadyOK DEF Fits, Watching, Stales
  <2> QED BY <2>1, <2>2, ReadyOK, TurnOK
<1> QED BY <1>2, <1>3

\* A command that goes on to another step, its pid the same.
LEMMA GoOK ==
    ASSUME IInv, NEW t \in Terminals, cmd[t].step # "ready", NEW step, Go(t, step),
           step \in {"spawn"} \cup Stales \cup Watching \cup Stopping,
           step \in Watching \cup Stopping => cmd[t].pid \in Pids,
           step = "connect" => cmd[t].polls # 0,
           UNCHANGED <<proc, port, overlapped>>,
           pidFile' \in Pids \cup {NoPid},
           ~overlapped => Fits([cmd[t] EXCEPT !.step = step], pidFile')
    PROVE  IInv'
<1> DEFINE c == [cmd[t] EXCEPT !.step = step]
<1>1. cmd' = [cmd EXCEPT ![t] = c]
  BY DEF Go
<1>2. c \in Commands /\ CommandOK(c)
  BY DEF IInv, Types, Commands, CommandOK
<1> HIDE DEF c
<1> QED BY <1>1, <1>2, TurnOK DEF c

LEMMA SteppedTo ==
    ASSUME IInv, NEW t \in Terminals, NEW step
    PROVE  /\ [cmd[t] EXCEPT !.step = step].step = step
           /\ [cmd[t] EXCEPT !.step = step].pid = cmd[t].pid
BY DEF IInv, Types, Commands

\* A pid file that names no live process has no owner.
LEMMA InactiveUnowned ==
    ASSUME IInv, ~overlapped, ~Active(pidFile) PROVE Owners = {}
BY PidAssumption DEF IInv, FileIsOwned, Owners, Active, Alive

LEMMA ReadPidFileOK == ASSUME IInv, NEW t \in Terminals, ReadPidFile(t) PROVE IInv'
<1>0. /\ cmd[t].step \in Looks /\ UNCHANGED <<proc, pidFile, port, overlapped>>
      /\ cmd[t].step \notin Watching \cup {"ready"}
      /\ pidFile \in Pids \cup {NoPid} /\ cmd[t] \in Commands
  BY DEF ReadPidFile, Looks, Watching, IInv, Types
<1>1. ~overlapped => StartingUp = {} /\ \A p \in Owners : pidFile = p
  BY <1>0, UnderWay DEF IInv, FileIsOwned
<1>2. CASE Finish(t)
  BY <1>0, <1>2, FinishOK
<1>3. CASE AfterStop(t)
  BY <1>0, <1>1, <1>3, AfterStopOK
<1>4. CASE Active(pidFile) /\ cmd[t].step = "look to stop"
  <2> DEFINE c == [cmd[t] EXCEPT !.step = "signal", !.pid = pidFile]
  <2>1. cmd' = [cmd EXCEPT ![t] = c]
    BY <1>4 DEF ReadPidFile
  <2>2. pidFile \in Pids
    BY <1>0, <1>4 DEF Active
  <2>3. c \in Commands /\ c.step = "signal" /\ c.pid = pidFile
    BY <1>0, <2>2 DEF Commands, Stopping
  <2> HIDE DEF c
  <2>4. CommandOK(c)
    BY <2>2, <2>3 DEF CommandOK
  <2>5. ~overlapped => Fits(c, pidFile')
    BY <1>0, <1>1, <2>3 DEF Fits, Stales
  <2> QED BY <1>0, <2>1, <2>3, <2>4, <2>5, TurnOK
<1>5. CASE ~Active(pidFile) /\ \E step \in {"spawn"} \cup Stales : Go(t, step)
  <2>1. PICK step \in {"spawn"} \cup Stales : Go(t, step)
    BY <1>5
  <2>2. ~overlapped => Owners = {} /\ StartingUp = {}
    BY <1>1, <1>5, InactiveUnowned
  <2>3. ~overlapped => Fits([cmd[t] EXCEPT !.step = step], pidFile')
    BY <2>2 DEF Fits
  <2>4. step \notin Watching \cup Stopping
    BY <2>1 DEF Stales, Watching, Stopping
  <2>5. step # "connect"
    BY <2>4 DEF Watching
  <2> QED BY <1>0, <2>1, <2>3, <2>4, <2>5, GoOK
<1> QED BY <1>0, <1>2, <1>3, <1>4, <1>5 DEF ReadPidFile, Stales, Looks

LEMMA ClearPidFileOK == ASSUME IInv, NEW t \in Terminals, ClearPidFile(t) PROVE IInv'
<1>0. /\ cmd[t].step \in Stales /\ UNCHANGED <<proc, port, overlapped>> /\ pidFile' = NoPid
      /\ cmd[t].step \notin Watching \cup {"ready"}
  BY DEF ClearPidFile, Stales, Watching
<1>1. ~overlapped => StartingUp = {} /\ Owners = {}
  BY <1>0, UnderWay
<1>2. CASE Finish(t)
  <2>1. ~overlapped => Fits(Ready, pidFile')
    BY <1>1 DEF Fits
  <2> QED BY <1>0, <1>2, <2>1, ReadyOK, TurnOK DEF Finish
<1>3. CASE AfterStop(t)
  BY <1>0, <1>1, <1>3, AfterStopOK
<1>4. CASE Go(t, "spawn")
  <2>1. ~overlapped => Fits([cmd[t] EXCEPT !.step = "spawn"], pidFile')
    BY <1>1 DEF Fits
  <2> QED BY <1>0, <1>4, <2>1, GoOK DEF Watching, Stopping
<1> QED BY <1>2, <1>3, <1>4 DEF ClearPidFile

\* A command that goes on watching the same process.
LEMMA WatchFits ==
    ASSUME IInv, ~overlapped, NEW t \in Terminals, cmd[t].step \in Watching,
           NEW c, c.step \in Watching, c.pid = cmd[t].pid
    PROVE  Fits(c, pidFile)
<1>1. Fits(cmd[t], pidFile)
  BY UnderWay DEF Watching
<1> QED BY <1>1 DEF Fits, Watching, Stales

LEMMA PollOK == ASSUME IInv, NEW t \in Terminals, Poll(t) PROVE IInv'
<1>0. /\ cmd[t].step = "poll" /\ UNCHANGED <<proc, pidFile, port, overlapped>>
      /\ pidFile \in Pids \cup {NoPid}
      /\ cmd[t].pid \in Pids
  BY DEF Poll, IInv, Types, CommandOK, Watching
<1>1. CASE Finish(t)
  BY <1>0, <1>1, FinishOK
<1>2. CASE cmd[t].polls # 0 /\ Go(t, "connect")
  <2> DEFINE c == [cmd[t] EXCEPT !.step = "connect"]
  <2>1. c.step = "connect" /\ c.pid = cmd[t].pid
    BY SteppedTo
  <2> HIDE DEF c
  <2>2. ~overlapped => Fits(c, pidFile')
    BY <1>0, <2>1, WatchFits DEF Watching
  <2> QED BY <1>0, <1>2, <2>2, GoOK DEF Watching, c
<1> QED BY <1>0, <1>1, <1>2 DEF Poll

LEMMA ConnectOK == ASSUME IInv, NEW t \in Terminals, Connect(t) PROVE IInv'
<1>0. /\ cmd[t].step = "connect" /\ UNCHANGED <<proc, pidFile, port, overlapped>>
      /\ pidFile \in Pids \cup {NoPid} /\ cmd[t] \in Commands
      /\ cmd[t].pid \in Pids /\ cmd[t].polls \in Nat \ {0}
  BY DEF Connect, IInv, Types, CommandOK, Watching, Commands
<1>1. CASE Listening
  <2> DEFINE c == [cmd[t] EXCEPT !.step = "record"]
  <2>1. c.step = "record" /\ c.pid = cmd[t].pid
    BY SteppedTo
  <2> HIDE DEF c
  <2>2. ~overlapped => Fits(c, pidFile')
    BY <1>0, <2>1, WatchFits DEF Watching
  <2>3. Go(t, "record")
    BY <1>1 DEF Connect
  <2> QED BY <1>0, <2>2, <2>3, GoOK DEF Watching, c
<1>2. CASE ~Listening
  <2> DEFINE left == cmd[t].polls - 1
             c    == [cmd[t] EXCEPT !.step = "poll", !.polls = left]
  <2>0. left \in Nat
    BY <1>0
  <2>1. cmd' = [cmd EXCEPT ![t] = c]
    BY <1>2 DEF Connect
  <2> HIDE DEF left
  <2>2. c \in Commands /\ c.step = "poll" /\ c.pid = cmd[t].pid
    BY <1>0, <2>0 DEF Commands, Watching
  <2> HIDE DEF c
  <2>3. CommandOK(c)
    BY <1>0, <2>2 DEF CommandOK
  <2>4. ~overlapped => Fits(c, pidFile')
    BY <1>0, <2>2, WatchFits DEF Watching
  <2> QED BY <1>0, <2>1, <2>2, <2>3, <2>4, TurnOK
<1> QED BY <1>1, <1>2

\* The pid recorded is that of the only process that can own the file.
LEMMA RecordOK == ASSUME IInv, NEW t \in Terminals, Record(t) PROVE IInv'
<1>0. /\ cmd[t].step = "record" /\ UNCHANGED <<proc, port, overlapped>>
      /\ pidFile' = cmd[t].pid /\ cmd[t].pid \in Pids
      /\ cmd' = [cmd EXCEPT ![t] = Ready]
  BY DEF Record, Finish, IInv, Types, CommandOK, Watching
<1>1. ~overlapped => Fits(Ready, pidFile')
  BY <1>0, UnderWay, ReadyOK DEF Fits, Watching, Stales
<1> QED BY <1>0, <1>1, ReadyOK, TurnOK

LEMMA ClearedOK == ASSUME IInv, NEW t \in Terminals, Cleared(t) PROVE IInv'
<1>0. /\ cmd[t].step = "clear" /\ UNCHANGED <<proc, port, overlapped>> /\ pidFile' = NoPid
      /\ cmd[t].step \notin Watching \cup {"ready"} /\ AfterStop(t)
  BY DEF Cleared, Watching
<1>1. ~overlapped => Owners = {}
  BY <1>0, UnderWay
<1> QED BY <1>0, <1>1, AfterStopOK

\* A command is begun: what else is under way makes it overlap.
LEMMA CommandBegunOK ==
    ASSUME IInv, NEW t \in Terminals, NEW step \in Looks, NEW then \in {"ready", "start"},
           Command(t, step, then)
    PROVE  IInv'
<1> DEFINE c == [Ready EXCEPT !.step = step, !.then = then]
<1>0. /\ cmd' = [cmd EXCEPT ![t] = c] /\ UNCHANGED <<proc, pidFile, port>>
      /\ overlapped' = (overlapped \/ Busy)
  BY DEF Command
<1>1. c \in Commands /\ c.step = step
  BY ReadyOK DEF Commands
<1> HIDE DEF c
<1>2. /\ CommandOK(c)
      /\ step \notin {"ready", "spawn", "clear"} \cup Stales \cup Watching \cup Stopping
  BY <1>1 DEF CommandOK, Looks, Stales, Watching, Stopping
<1>3. Types' /\ PortHeld'
  BY <1>0, <1>1, <1>2 DEF IInv, Types, PortHeld
<1>4. cmd'[t] = c /\ \A u \in Terminals \ {t} : cmd'[u] = cmd[u]
  BY <1>0 DEF IInv, Types
<1>5. ASSUME ~overlapped' PROVE OneAtATime' /\ FileIsOwned'
  <2>1. /\ FileIsOwned /\ StartingUp = {}
        /\ \A u \in Terminals : cmd[u].step = "ready"
    BY <1>0, <1>5 DEF IInv, Busy
  <2>2. StartingUp' = {} /\ Owners' = Owners
    BY <1>0, <2>1 DEF StartingUp, Owners
  <2>3. OneAtATime'
    BY <1>4, <2>1, <2>2 DEF OneAtATime
  <2>4. FileIsOwned'
    BY <1>0, <1>1, <1>2, <1>4, <2>1, <2>2 DEF FileIsOwned, Stopping
  <2> QED BY <2>3, <2>4
<1> QED BY <1>3, <1>5 DEF IInv

\* A process and a command step together: the command is that of t.
LEMMA SpawnOK == ASSUME IInv, NEW t \in Terminals, Spawn(t) PROVE IInv'
<1>1. PICK p \in Pids :
         /\ proc[p] = "gone" /\ proc' = [proc EXCEPT ![p] = "new"]
         /\ cmd' = [cmd EXCEPT ![t] = [Ready EXCEPT !.step = "poll", !.pid = p,
                                                    !.polls = Polls]]
  BY DEF Spawn, To, Free, Alive
<1> DEFINE c == [Ready EXCEPT !.step = "poll", !.pid = p, !.polls = Polls]
<1>2. c \in Commands /\ c.step = "poll" /\ c.pid = p
  BY ReadyOK, PollAssumption DEF Commands, Watching
<1>3. cmd' = [cmd EXCEPT ![t] = c]
  BY <1>1
<1> HIDE DEF c
<1>4. CommandOK(c)
  BY <1>2 DEF CommandOK
<1>5. UNCHANGED <<pidFile, port, overlapped>> /\ cmd[t].step = "spawn"
  BY DEF Spawn
<1>6. Types' /\ PortHeld'
  BY <1>1, <1>2, <1>3, <1>4, <1>5 DEF IInv, Types, PortHeld, Phases
<1>7. cmd'[t] = c /\ \A u \in Terminals \ {t} : cmd'[u] = cmd[u]
  BY <1>3 DEF IInv, Types
<1>8. StartingUp' = StartingUp \cup {p} /\ Owners' = Owners
  BY <1>1 DEF IInv, Types, Owners, StartingUp
<1>9. ASSUME ~overlapped' PROVE OneAtATime' /\ FileIsOwned'
  <2>1. OneAtATime /\ FileIsOwned /\ StartingUp = {} /\ Owners = {}
    BY <1>5, <1>9, UnderWay DEF IInv, Watching
  <2>2. \A u \in Terminals \ {t} : cmd'[u].step = "ready"
    BY <1>5, <1>7, <2>1 DEF OneAtATime
  <2>3. OneAtATime'
    BY <1>2, <1>7, <1>8, <2>1, <2>2 DEF OneAtATime, Watching
  <2> QED BY <1>8, <2>1, <2>3 DEF FileIsOwned
<1> QED BY <1>6, <1>9 DEF IInv

\* The signal of stop turns a serving daemon into a closing one, or ends a process
\* that has not come so far; nobody becomes an owner.
LEMMA SignalOK == ASSUME IInv, NEW t \in Terminals, Signal(t) PROVE IInv'
<1>0. /\ cmd[t].step = "signal" /\ UNCHANGED <<pidFile, overlapped>>
      /\ cmd[t].pid \in Pids /\ pidFile \in Pids \cup {NoPid}
      /\ cmd[t].step \notin Watching \cup {"ready"}
  BY DEF Signal, IInv, Types, CommandOK, Stopping, Watching
<1>1. CASE ~Alive(cmd[t].pid)
  <2>1. AfterStop(t) /\ UNCHANGED <<proc, port>>
    BY <1>1 DEF Signal
  <2> QED BY <1>0, <2>1, AfterStopOK DEF IInv, FileIsOwned
<1>2. CASE Alive(cmd[t].pid)
  <2> DEFINE p == cmd[t].pid
             c == [cmd[t] EXCEPT !.step = "wait"]
  <2>1. Terminate(p) /\ cmd' = [cmd EXCEPT ![t] = c]
    BY <1>2 DEF Signal, Go
  <2>2. c \in Commands /\ c.step = "wait" /\ c.pid = p
    BY DEF IInv, Types, Commands, Stopping
  <2> HIDE DEF c
  <2>3. CommandOK(c)
    BY <1>0, <2>2 DEF CommandOK
  <2>4. cmd'[t] = c /\ \A u \in Terminals \ {t} : cmd'[u] = cmd[u]
    BY <2>1 DEF IInv, Types
  <2>5. /\ proc' \in [Pids -> Phases] /\ port' \in Pids \cup {NoPid} /\ PortHeld'
        /\ \A q \in Pids : \/ proc'[q] \in {proc[q], "gone"}
                           \/ /\ proc[q] \in {"serving", "booting"}
                              /\ proc'[q] \in {"closing", "leaving"}
    BY <1>0, <2>1, PidAssumption DEF Terminate, To, Dies, IInv, Types, PortHeld, Phases
  <2>6. StartingUp' \subseteq StartingUp /\ Owners' \subseteq Owners
    BY <2>5 DEF StartingUp, Owners
  <2>7. Types'
    BY <1>0, <2>1, <2>2, <2>3, <2>5 DEF IInv, Types
  <2>8. ASSUME ~overlapped' PROVE OneAtATime' /\ FileIsOwned'
    <3>1. OneAtATime /\ FileIsOwned /\ StartingUp = {} /\ Fits(cmd[t], pidFile)
      BY <1>0, <2>8, UnderWay DEF IInv
    <3>2. \A u \in Terminals \ {t} : cmd'[u].step = "ready"
      BY <1>0, <2>4, <3>1 DEF OneAtATime
    <3>3. OneAtATime'
      BY <2>4, <2>6, <3>1, <3>2 DEF OneAtATime
    <3>4. \A q \in Owners' : pidFile' = q /\ p = q
      BY <1>0, <2>6, <3>1 DEF Fits
    <3>5. \A q \in Pids : proc'[q] \notin {"stale", "checked"}
      BY <2>6, <3>1 DEF StartingUp
    <3>6. FileIsOwned'
      BY <2>2, <2>4, <3>2, <3>4, <3>5 DEF FileIsOwned, Stales, Watching
    <3> QED BY <3>3, <3>6
  <2> QED BY <2>5, <2>7, <2>8 DEF IInv
<1> QED BY <1>1, <1>2

\* stop has waited: what the file named is to be killed, or nobody owns the file.
LEMMA EndWaitOK == ASSUME IInv, NEW t \in Terminals, EndWait(t) PROVE IInv'
<1> DEFINE step == IF Alive(cmd[t].pid) THEN "kill" ELSE "clear"
<1>0. /\ cmd[t].step = "wait" /\ UNCHANGED <<proc, pidFile, port, overlapped>>
      /\ pidFile \in Pids \cup {NoPid} /\ cmd[t].pid \in Pids /\ Go(t, step)
      /\ cmd[t].step \notin Watching
  BY DEF EndWait, IInv, Types, CommandOK, Stopping, Watching
<1>1. step \in {"kill", "clear"} /\ (step = "clear" => ~Alive(cmd[t].pid))
  OBVIOUS
<1> HIDE DEF step
<1>2. ASSUME ~overlapped PROVE Fits([cmd[t] EXCEPT !.step = step], pidFile')
  <2>1. Fits(cmd[t], pidFile) /\ StartingUp = {}
    BY <1>0, <1>2, UnderWay
  <2>2. step = "clear" => Owners = {}
    BY <1>0, <1>1, <2>1 DEF Fits, Owners, Alive
  <2> DEFINE c == [cmd[t] EXCEPT !.step = step]
  <2>3. c.step = step /\ c.pid = cmd[t].pid
    BY SteppedTo
  <2> HIDE DEF c
  <2>4. Fits(c, pidFile')
    BY <1>0, <1>1, <2>1, <2>2, <2>3 DEF Fits, Stales
  <2> QED BY <2>4 DEF c
<1> QED BY <1>0, <1>1, <1>2, GoOK DEF Stopping, Watching

\* What the file named is dying then, and nobody owns the file; or it has left.
LEMMA KillOK == ASSUME IInv, NEW t \in Terminals, Kill(t) PROVE IInv'
<1> DEFINE p == cmd[t].pid
           c == [cmd[t] EXCEPT !.step = "clear"]
<1>0. /\ cmd[t].step = "kill" /\ UNCHANGED <<pidFile, overlapped>> /\ p \in Pids
      /\ cmd[t].step \notin Watching \cup {"ready"}
  BY DEF Kill, IInv, Types, CommandOK, Stopping, Watching
<1>1. CASE ~Alive(p)
  BY <1>0, <1>1, FinishOK DEF Kill
<1>2. CASE Alive(p)
  <2>0. /\ proc' = [proc EXCEPT ![p] = "dying"] /\ UNCHANGED port
        /\ cmd' = [cmd EXCEPT ![t] = c]
    BY <1>2 DEF Kill, Killed, To, Go
  <2>1. c \in Commands /\ c.step = "clear" /\ c.pid = p
    BY DEF IInv, Types, Commands, Stopping
  <2> HIDE DEF c
  <2>2. CommandOK(c)
    BY <1>0, <2>1 DEF CommandOK
  <2>3. cmd'[t] = c /\ \A u \in Terminals \ {t} : cmd'[u] = cmd[u]
    BY <2>0 DEF IInv, Types
  <2>4. /\ proc' \in [Pids -> Phases] /\ proc'[p] = "dying"
        /\ \A q \in Pids : proc'[q] = proc[q] \/ proc'[q] = "dying"
    BY <1>0, <2>0 DEF IInv, Types, Phases
  <2>5. StartingUp' \subseteq StartingUp /\ Owners' \subseteq Owners \ {p}
    BY <2>4 DEF StartingUp, Owners
  <2>6. PortHeld'
    BY <2>0, <2>4 DEF IInv, Types, PortHeld
  <2>7. Types'
    BY <1>0, <2>0, <2>1, <2>2, <2>4 DEF IInv, Types
  <2>8. ASSUME ~overlapped' PROVE OneAtATime' /\ FileIsOwned'
    <3>1. OneAtATime /\ FileIsOwned /\ StartingUp = {} /\ Fits(cmd[t], pidFile)
      BY <1>0, <2>8, UnderWay DEF IInv
    <3>2. \A u \in Terminals \ {t} : cmd'[u].step = "ready"
      BY <1>0, <2>3, <3>1 DEF OneAtATime
    <3>3. OneAtATime'
      BY <2>3, <2>5, <3>1, <3>2 DEF OneAtATime
    <3>4. Owners' = {}
      BY <1>0, <2>5, <3>1 DEF Fits
    <3> QED BY <3>3, <3>4 DEF FileIsOwned
  <2> QED BY <2>6, <2>7, <2>8 DEF IInv
<1> QED BY <1>1, <1>2

-----------------------------------------------------------------------------
(* The theorems.                                                              *)

LEMMA IInvInit == Init => IInv
<1> SUFFICES ASSUME Init PROVE IInv
  OBVIOUS
<1>1. /\ proc = [p \in Pids |-> "gone"] /\ pidFile = NoPid /\ port = NoPid
      /\ cmd = [t \in Terminals |-> Ready] /\ overlapped = FALSE
  BY DEF Init
<1> HIDE DEF Ready
<1>2. Types /\ PortHeld
  BY <1>1, ReadyOK DEF Types, PortHeld, Phases
<1>3. StartingUp = {} /\ Owners = {} /\ \A t \in Terminals : cmd[t].step = "ready"
  BY <1>1, ReadyOK DEF StartingUp, Owners
<1> QED BY <1>2, <1>3 DEF IInv, OneAtATime, FileIsOwned

LEMMA IInvStep == IInv /\ [Next]_vars => IInv'
<1> SUFFICES ASSUME IInv, [Next]_vars PROVE IInv'
  OBVIOUS
<1>1. ASSUME NEW t \in Terminals, Start(t) \/ Stop(t) \/ Restart(t) \/ Status(t) PROVE IInv'
  BY <1>1, CommandBegunOK DEF Start, Stop, Restart, Status, Looks
<1>2. ASSUME NEW t \in Terminals, Proceed(t) PROVE IInv'
  BY <1>2, ReadPidFileOK, ClearPidFileOK, SpawnOK, PollOK, ConnectOK, RecordOK,
     SignalOK, EndWaitOK, KillOK, ClearedOK DEF Proceed
<1>3. CASE UNCHANGED vars
  BY <1>3 DEF vars, IInv, Types, PortHeld, OneAtATime, FileIsOwned, Owners, StartingUp
<1> QED BY <1>1, <1>2, <1>3, RunForegroundOK, LookOK, ClearStaleOK, WriteOwnPidOK, BindOK,
           DrainedOK, LeaveOK, CrashOK DEF Next

\* The invariant holds in every run of the commands and the processes, with any
\* number of them, whatever is killed and whenever.
THEOREM InvariantHolds == Spec => []IInv
BY IInvInit, IInvStep, PTL DEF Spec

\* As long as commands are given one after another there is at most one daemon,
\* and the pid file names it (cli.py cmd_start and cmd_stop, daemon.py).
THEOREM FileNamesDaemon == Spec => []DaemonIsNamed
<1>1. IInv => DaemonIsNamed
  BY DEF IInv, FileIsOwned, DaemonIsNamed, Daemons, Owners
<1> QED BY <1>1, InvariantHolds, PTL

\* start reports success only for a child that serves, unless commands overlapped
\* or a daemon that was killed still holds the ports (cli.py cmd_start).
THEOREM StartedServes == Spec => StartedMeansServing
<1> DEFINE Serves == \A t \in Terminals :
               cmd[t].step = "connect" /\ cmd'[t].step = "record" /\ ~overlapped =>
                  \E p \in Pids : port = p /\ (p = cmd[t].pid \/ proc[p] = "dying")
<1>1. IInv /\ [Next]_vars => [Serves]_vars
  <2> SUFFICES ASSUME IInv, [Next]_vars, NEW t \in Terminals,
                      cmd[t].step = "connect", cmd'[t].step = "record", ~overlapped
               PROVE  \E p \in Pids : port = p /\ (p = cmd[t].pid \/ proc[p] = "dying")
    OBVIOUS
  <2>0. cmd \in [Terminals -> Commands]
    BY DEF IInv, Types
  <2>1. Connect(t)
    <3>1. \A u \in Terminals \ {t} : Proceed(u) => cmd'[t] = cmd[t]
      BY <2>0 DEF Proceed, ReadPidFile, ClearPidFile, Spawn, Poll, Connect, Record, Signal,
                  EndWait, Kill, Cleared, Finish, AfterStop, Go
    <3>2. \A u \in Terminals : Start(u) \/ Stop(u) \/ Restart(u) \/ Status(u) =>
             cmd[u].step = "ready" /\ \A v \in Terminals \ {u} : cmd'[v] = cmd[v]
      BY <2>0 DEF Start, Stop, Restart, Status, Command
    <3>3. \A p \in Pids :
             RunForeground(p) \/ Look(p) \/ ClearStale(p) \/ WriteOwnPid(p)
             \/ Bind(p) \/ Drained(p) \/ Leave(p) \/ Crash(p) => cmd' = cmd
      BY DEF RunForeground, Look, ClearStale, WriteOwnPid, Bind, Drained, Leave, Crash
    <3>4. Proceed(t)
      BY <3>1, <3>2, <3>3 DEF Next, vars
    <3> QED BY <3>4 DEF Proceed, ReadPidFile, ClearPidFile, Spawn, Poll, Record, Signal,
                        EndWait, Kill, Cleared, Finish, AfterStop
  <2>2. port # NoPid
    <3>1. ~Listening => cmd' = [cmd EXCEPT ![t].step = "poll", ![t].polls = @ - 1]
      BY <2>1 DEF Connect
    <3>2. ~Listening => cmd'[t].step = "poll"
      BY <2>0, <3>1 DEF Commands
    <3> QED BY <3>2 DEF Listening
  <2>3. port \in Pids /\ proc[port] \in {"serving", "dying"}
    BY <2>2 DEF IInv, Types, PortHeld
  <2>4. proc[port] = "serving" => port = cmd[t].pid
    BY <2>3 DEF IInv, FileIsOwned, Owners, Watching
  <2> QED BY <2>3, <2>4
<1> QED BY <1>1, InvariantHolds, PTL DEF Spec, StartedMeansServing
=============================================================================
