--------------------------- MODULE DaemonLifecycle ---------------------------
(***************************************************************************)
(* The commands start, stop, restart and status of cli.py, and the daemon   *)
(* (daemon.py) they start, find and end.  All they share is a file with the *)
(* daemon's pid, read and written without a lock, the signals, and the port *)
(* (proxy and dashboard bind theirs together: one here).                    *)
(*                                                                         *)
(* `start` looks, spawns `start --foreground` and waits for its ports; the  *)
(* child looks for itself, writes its pid, binds, and clears the pid file   *)
(* when it leaves.  A process can be killed between any two steps.          *)
(***************************************************************************)
EXTENDS Naturals, FiniteSets

CONSTANTS
    Pids,        \* pids of the processes that run `start --foreground`
    NoPid,
    Terminals,   \* where commands are given, one at a time in each
    Polls        \* 80: how often start looks for its child's ports

ASSUME PidAssumption  == NoPid \notin Pids
ASSUME PollAssumption == Polls \in Nat \ {0}

VARIABLES
    proc,        \* phase of each process
    pidFile,     \* what PID_PATH holds
    port,        \* the process that listens
    cmd,         \* each terminal's command: its step, the pid it works on, polls left
    overlapped   \* history: a command was begun while another was under way

vars == <<proc, pidFile, port, cmd, overlapped>>

Phases == {"new", "stale", "checked", "booting", "serving", "closing",
           "leaving", "dying", "gone"}

Alive(p) == proc[p] # "gone"

\* Mutant: a daemon is known by its answering at the port.
Answering(p) == p # NoPid /\ port = p

\* _pid_alive of what was read.
Active(p) == p # NoPid /\ Alive(p)

Daemons    == {p \in Pids : proc[p] \in {"booting", "serving", "closing"}}
StartingUp == {p \in Pids : proc[p] \in {"new", "stale", "checked"}}

\* A pid is used again once its process is gone; in a container it always is.  A
\* child keeps its pid until the start that polls it has seen its end.
Free(p) == /\ ~Alive(p)
           /\ \A t \in Terminals :
                 cmd[t].step \in {"poll", "connect", "record"} => cmd[t].pid # p

Ready == [step |-> "ready", pid |-> NoPid, polls |-> 0, then |-> "ready"]

Init == /\ proc = [p \in Pids |-> "gone"]
        /\ pidFile = NoPid /\ port = NoPid
        /\ cmd = [t \in Terminals |-> Ready]
        /\ overlapped = FALSE

-----------------------------------------------------------------------------
(* The process that runs `start --foreground`.                                *)

To(p, phase) == proc' = [proc EXCEPT ![p] = phase]

Dies(p) == /\ To(p, "gone")
           /\ port' = IF port = p THEN NoPid ELSE port

\* _get_active_pid: refuse to start, go on, or clear a stale file first.
Look(p) ==
    /\ proc[p] = "new"
    /\ To(p, IF Active(pidFile) THEN "gone"
             ELSE IF pidFile # NoPid THEN "stale" ELSE "checked")
    /\ UNCHANGED <<pidFile, port, cmd, overlapped>>

ClearStale(p) == /\ proc[p] = "stale"
                 /\ pidFile' = NoPid /\ To(p, "checked")
                 /\ UNCHANGED <<port, cmd, overlapped>>

WriteOwnPid(p) == /\ proc[p] = "checked"
                  /\ pidFile' = p /\ To(p, "booting")
                  /\ UNCHANGED <<port, cmd, overlapped>>

\* _serve: with the port taken, uvicorn exits.
Bind(p) == /\ proc[p] = "booting"
           /\ IF port = NoPid THEN port' = p /\ To(p, "serving")
                              ELSE To(p, "leaving") /\ UNCHANGED port
           /\ UNCHANGED <<pidFile, cmd, overlapped>>

\* A closing daemon waits for its connections, however long they last.
Drained(p) == /\ proc[p] = "closing"
              /\ To(p, "leaving")
              /\ UNCHANGED <<pidFile, port, cmd, overlapped>>

\* The finally of cmd_start clears the file, whosever pid it holds.
Leave(p) == /\ proc[p] = "leaving"
            /\ pidFile' = NoPid /\ Dies(p)
            /\ UNCHANGED <<cmd, overlapped>>

Crash(p) == /\ Alive(p)
            /\ Dies(p)
            /\ UNCHANGED <<pidFile, cmd, overlapped>>

\* A killed process is gone a moment after the signal.
Reap(p) == proc[p] = "dying" /\ Crash(p)

\* SIGTERM shuts a serving daemon down.  Before the handlers are there it kills,
\* between that and the bind either.
Terminate(p) ==
    IF proc[p] = "serving" THEN To(p, "closing") /\ port' = NoPid
    ELSE IF proc[p] \in {"new", "stale", "checked"} THEN Dies(p)
    ELSE IF proc[p] = "booting" THEN Dies(p) \/ (To(p, "leaving") /\ UNCHANGED port)
    ELSE UNCHANGED <<proc, port>>

-----------------------------------------------------------------------------
(* The commands.                                                              *)

Busy == StartingUp # {} \/ \E t \in Terminals : cmd[t].step # "ready"

Go(t, step)   == cmd' = [cmd EXCEPT ![t].step = step]
Finish(t)     == cmd' = [cmd EXCEPT ![t] = Ready]
AfterStop(t)  == IF cmd[t].then = "start"
                 THEN cmd' = [cmd EXCEPT ![t] = [Ready EXCEPT !.step = "look to start"]]
                 ELSE Finish(t)

Command(t, step, then) ==
    /\ cmd[t].step = "ready"
    /\ cmd' = [cmd EXCEPT ![t] = [Ready EXCEPT !.step = step, !.then = then]]
    /\ overlapped' = (overlapped \/ Busy)
    /\ UNCHANGED <<proc, pidFile, port>>

Start(t)   == Command(t, "look to start", "ready")
Stop(t)    == Command(t, "look to stop", "ready")
Restart(t) == Command(t, "look to stop", "start")
Status(t)  == Command(t, "look", "ready")

\* `start --foreground` given by a user, systemd or docker.
RunForeground(p) == /\ Free(p)
                    /\ To(p, "new")
                    /\ overlapped' = (overlapped \/ Busy)
                    /\ UNCHANGED <<pidFile, port, cmd>>

\* _get_active_pid, in two steps: what was read, and what is done about it.
ReadPidFile(t) ==
    /\ cmd[t].step \in {"look to start", "look to stop", "look"}
    /\ IF Active(pidFile)
       THEN IF cmd[t].step = "look to stop"
            THEN cmd' = [cmd EXCEPT ![t].step = "signal", ![t].pid = pidFile]
            ELSE Finish(t)
       ELSE IF pidFile # NoPid
            THEN Go(t, CASE cmd[t].step = "look to start" -> "stale, start"
                         [] cmd[t].step = "look to stop"  -> "stale, stop"
                         [] OTHER                         -> "stale")
            ELSE CASE cmd[t].step = "look to start" -> Go(t, "spawn")
                   [] cmd[t].step = "look to stop"  -> AfterStop(t)
                   [] OTHER                         -> Finish(t)
    /\ UNCHANGED <<proc, pidFile, port, overlapped>>

ClearPidFile(t) ==
    /\ cmd[t].step \in {"stale, start", "stale, stop", "stale"}
    /\ pidFile' = NoPid
    /\ CASE cmd[t].step = "stale, start" -> Go(t, "spawn")
         [] cmd[t].step = "stale, stop"  -> AfterStop(t)
         [] OTHER                        -> Finish(t)
    /\ UNCHANGED <<proc, port, overlapped>>

\* _spawn_background.
Spawn(t) ==
    /\ cmd[t].step = "spawn"
    /\ \E p \in Pids : /\ Free(p)
                       /\ To(p, "new")
                       /\ cmd' = [cmd EXCEPT ![t] = [Ready EXCEPT !.step = "poll", !.pid = p,
                                                                  !.polls = Polls]]
    /\ UNCHANGED <<pidFile, port, overlapped>>

\* The child has exited, or the polls are used up and it goes on by itself.
Poll(t) ==
    /\ cmd[t].step = "poll"
    /\ IF proc[cmd[t].pid] = "gone" \/ cmd[t].polls = 0 THEN Finish(t) ELSE Go(t, "connect")
    /\ UNCHANGED <<proc, pidFile, port, overlapped>>

\* Mutant: a child that has not exited is taken to serve.
Assumed == TRUE

Listening == port # NoPid

\* Somebody answers at the ports: the child's pid is written.
Connect(t) ==
    /\ cmd[t].step = "connect"
    /\ IF Listening
       THEN Go(t, "record")
       ELSE cmd' = [cmd EXCEPT ![t].step = "poll", ![t].polls = @ - 1]
    /\ UNCHANGED <<proc, pidFile, port, overlapped>>

Record(t) == /\ cmd[t].step = "record"
             /\ pidFile' = cmd[t].pid
             /\ Finish(t)
             /\ UNCHANGED <<proc, port, overlapped>>

\* cmd_stop: SIGTERM, or "stop failed" for a process gone meanwhile.
Signal(t) ==
    /\ cmd[t].step = "signal"
    /\ IF Alive(cmd[t].pid)
       THEN Terminate(cmd[t].pid) /\ Go(t, "wait")
       ELSE AfterStop(t) /\ UNCHANGED <<proc, port>>
    /\ UNCHANGED <<pidFile, overlapped>>

\* Mutant: nothing is killed.
NotKilled(p) == UNCHANGED <<proc, port>>

Killed(p) == To(p, "dying") /\ UNCHANGED port

\* Ten seconds of waiting at most.
EndWait(t) ==
    /\ cmd[t].step = "wait"
    /\ Go(t, IF Alive(cmd[t].pid) THEN "kill" ELSE "clear")
    /\ UNCHANGED <<proc, pidFile, port, overlapped>>

\* What is still alive then is killed.  A process that has just left cannot be: the
\* exception ends the command, a restart too, and the file stays as it is.
Kill(t) ==
    /\ cmd[t].step = "kill"
    /\ IF Alive(cmd[t].pid)
       THEN Killed(cmd[t].pid) /\ Go(t, "clear")
       ELSE Finish(t) /\ UNCHANGED <<proc, port>>
    /\ UNCHANGED <<pidFile, overlapped>>

\* Whatever is in the file is cleared.
Cleared(t) == /\ cmd[t].step = "clear"
              /\ pidFile' = NoPid
              /\ AfterStop(t)
              /\ UNCHANGED <<proc, port, overlapped>>

Proceed(t) == \/ ReadPidFile(t) \/ ClearPidFile(t)
              \/ Spawn(t) \/ Poll(t) \/ Connect(t) \/ Record(t)
              \/ Signal(t) \/ EndWait(t) \/ Kill(t) \/ Cleared(t)

Next == \/ \E t \in Terminals : \/ Start(t) \/ Stop(t) \/ Restart(t) \/ Status(t)
                                \/ Proceed(t)
        \/ \E p \in Pids : \/ RunForeground(p) \/ Look(p) \/ ClearStale(p) \/ WriteOwnPid(p)
                           \/ Bind(p) \/ Drained(p) \/ Leave(p) \/ Crash(p)

\* Commands run on, and the system ends what was killed.  Nothing makes a closing
\* daemon's connections end.
Spec == /\ Init /\ [][Next]_vars
        /\ \A t \in Terminals : WF_vars(Proceed(t))
        /\ \A p \in Pids : WF_vars(Reap(p))

-----------------------------------------------------------------------------

\* As long as commands are given one after another, whatever was killed between
\* them, there is at most one daemon, and the pid file names it.
DaemonIsNamed == ~overlapped => \A p \in Daemons : pidFile = p

\* start reports success only for a child that serves: unless commands overlapped,
\* or a daemon that was killed still holds the ports.
StartedMeansServing ==
    [][\A t \in Terminals :
          cmd[t].step = "connect" /\ cmd'[t].step = "record" /\ ~overlapped =>
              \E p \in Pids : port = p /\ (p = cmd[t].pid \/ proc[p] = "dying")]_vars

\* What stop has signalled does end, however long its connections last and
\* whatever other commands do.
StopEnds ==
    \A t \in Terminals, p \in Pids :
        (cmd[t].step = "wait" /\ cmd[t].pid = p) ~> proc[p] = "gone"
=============================================================================
