---------------------------- MODULE ChildProcess ----------------------------
(***************************************************************************)
(* One call of an executor that starts a process: a shell step             *)
(* (executors/shell.py), a code step (executors/code_block.py) or a tool   *)
(* of an MCP server (executors/mcp.py).                                    *)
(*                                                                         *)
(* The process may never end, may not read its input, and may leave a      *)
(* descendant, in its process group or in a session of its own, that holds *)
(* the inherited pipes.  A payload is big when it does not fit into the    *)
(* pipe.  A timeout may expire at any time.                                *)
(***************************************************************************)
EXTENDS Naturals

CONSTANTS
    Kind          \* the executors that are tried

ASSUME KindAssumption == Kind \subseteq {"shell", "code", "mcp"}

VARIABLES
    world,    \* what is called, and how the process behaves; fixed
    child,    \* the process: none, running, exited, killed
    code,     \* its exit code, 0 or 1
    heir,     \* the descendant that holds the pipes: none, group, escaped, dead
    wrote,    \* what the process has written: nothing, ok, bad, flood
    read,     \* the big payload has been read
    pump,     \* the thread that reads the pipe, see Pump
    caught,   \* what it has got
    stdinErr, \* writing the payload failed
    caller,   \* the step's thread, see CallerPlace
    verdict   \* none, success, failure, timeout, held, raised

procVars == <<world, child, code, heir, wrote, read, pump, caught, stdinErr, caller, verdict>>

World == [ kind   : Kind,
           big    : BOOLEAN,                         \* the payload
           reads  : BOOLEAN,                         \* the process reads it
           leaves : {"none", "group", "escaped"} ]   \* its descendant

\* draining to the end of the pipe (shell, code), or the exchange with a server:
\* initialize, the call, the wait for its response
Pump   == {"off", "draining", "hello", "calling", "awaiting", "over"}
CallerPlace == {"spawn", "feed", "wait", "join", "reap", "close", "terminate", "returned"}

ProcTypeOK ==
    /\ world  \in World
    /\ child  \in {"none", "running", "exited", "killed"}
    /\ code   \in {0, 1}
    /\ heir   \in {"none", "group", "escaped", "dead"}
    /\ wrote  \in {"nothing", "ok", "bad", "flood"}
    /\ caught \in {"nothing", "ok", "bad", "flood"}
    /\ read \in BOOLEAN /\ stdinErr \in BOOLEAN
    /\ pump \in Pump /\ caller \in CallerPlace
    /\ verdict \in {"none", "success", "failure", "timeout", "held", "raised"}

ProcInit ==
    /\ world \in World
    /\ child = "none" /\ code = 0 /\ heir = "none"
    /\ wrote = "nothing" /\ caught = "nothing"
    /\ read = FALSE /\ stdinErr = FALSE
    /\ pump = "off" /\ caller = "spawn" /\ verdict = "none"

IsServer == world.kind = "mcp"
HeirHolds == heir \in {"group", "escaped"}
Dead == child \in {"exited", "killed"}

\* nobody has the write end of the pipe, or the read end of stdin
PipeClosed == Dead /\ ~HeirHolds

Reports(v) == caller' = "returned" /\ verdict' = v

---------------------------------------------------------------------------
(* The process, external: it writes, leaves a descendant, ends, or does not *)

\* it takes its payload
ProcessReads ==
    /\ child = "running" /\ world.reads /\ ~read
    /\ read' = TRUE
    /\ UNCHANGED <<world, child, code, heir, wrote, pump, caught, stdinErr, caller, verdict>>

\* a server answers what it was asked, a block what it was given
ProcessWrites ==
    /\ child = "running" /\ wrote = "nothing"
    /\ IsServer => pump = "awaiting"
    /\ wrote' \in {"ok", "bad", "flood"}
    /\ UNCHANGED <<world, child, code, heir, read, pump, caught, stdinErr, caller, verdict>>

ProcessEnds ==
    /\ child = "running"
    /\ child' = "exited" /\ code' \in {0, 1}
    /\ heir' = world.leaves
    /\ UNCHANGED <<world, wrote, read, pump, caught, stdinErr, caller, verdict>>

\* a descendant in the group ends some time; one that escaped may be a daemon
HeirEnds ==
    /\ HeirHolds
    /\ heir' = "dead"
    /\ UNCHANGED <<world, child, code, wrote, read, pump, caught, stdinErr, caller, verdict>>

---------------------------------------------------------------------------
(* The thread that reads *)

\* _drain, or the reading half of communicate(): all of it, at the end of file
PumpDrains ==
    /\ pump = "draining" /\ PipeClosed
    /\ pump' = "over" /\ caught' = wrote
    /\ UNCHANGED <<world, child, code, heir, wrote, read, stdinErr, caller, verdict>>

\* _mcp_handshake: the initialize request fits the pipe; a server that is gone
\* breaks the write, which ends the thread without a result
Handshake ==
    /\ pump = "hello"
    /\ \/ child = "running" /\ pump' = "calling" /\ UNCHANGED caught
       \/ PipeClosed /\ pump' = "over" /\ caught' \in {"bad", "nothing"}
    /\ UNCHANGED <<world, child, code, heir, wrote, read, stdinErr, caller, verdict>>

\* _mcp_call_tool, writing the request; a big one blocks until it is read, and
\* the thread has the lock of the stdin buffer meanwhile
SendCall ==
    /\ pump = "calling"
    /\ \/ /\ ~world.big \/ read
          /\ pump' = "awaiting" /\ UNCHANGED caught
       \/ /\ PipeClosed
          /\ pump' = "over" /\ UNCHANGED caught
    /\ UNCHANGED <<world, child, code, heir, wrote, read, stdinErr, caller, verdict>>

\* _read_response: the answer, the end of file, or too much of other things
TakeResponse ==
    /\ pump = "awaiting"
    /\ \/ wrote # "nothing" /\ caught' = wrote
       \/ wrote = "nothing" /\ PipeClosed /\ caught' = "bad"
    /\ pump' = "over"
    /\ UNCHANGED <<world, child, code, heir, wrote, read, stdinErr, caller, verdict>>

PumpStep == PumpDrains \/ Handshake \/ SendCall \/ TakeResponse

---------------------------------------------------------------------------
(* The step's thread *)

\* Popen, and the threads; a command that cannot be started is a result in a
\* code step and an OSError in the others
Popen ==
    /\ caller = "spawn"
    /\ \/ /\ child' = "running"
          /\ pump' = IF IsServer THEN "hello" ELSE "draining"
          /\ caller' = IF world.kind = "code" THEN "feed" ELSE "wait"
          /\ UNCHANGED verdict
       \/ /\ Reports(IF world.kind = "code" THEN "failure" ELSE "raised")
          /\ UNCHANGED <<child, pump>>
    /\ UNCHANGED <<world, code, heir, wrote, read, caught, stdinErr>>

\* code: stdin.write blocks until the payload fits, before any timeout runs
Feed ==
    /\ caller = "feed"
    /\ \/ ~world.big \/ read
       \/ PipeClosed                              \* BrokenPipeError
    /\ stdinErr' = (world.big /\ ~read)
    /\ caller' = "wait"
    /\ UNCHANGED <<world, child, code, heir, wrote, read, pump, caught, verdict>>

\* Mutant: only the process itself is killed.
KillChildOnly(h) == h

\* killpg: the process and what is left of its group
KillGroup(h) == IF h = "group" THEN "dead" ELSE h

\* the descendant of a process that is killed while it runs is already there
KillTree ==
    /\ heir' = KillGroup(IF child = "running" THEN world.leaves ELSE heir)
    /\ child' = IF child = "running" THEN "killed" ELSE child

\* Mutant: the exit code is not looked at.
InterpretReplyOnly(reply, status) ==
    IF world.kind = "shell" \/ reply = "ok" THEN "success" ELSE "failure"

\* _interpret, ShellResult.success: the exit code, and a block's own word
Interpret(reply, status) ==
    IF status = 0 /\ (world.kind = "shell" \/ reply = "ok") THEN "success" ELSE "failure"

\* shell: communicate(timeout)
Communicate ==
    /\ caller = "wait" /\ world.kind = "shell"
    /\ \/ /\ Dead /\ pump = "over"
          /\ Reports(Interpret(caught, code))
          /\ UNCHANGED <<child, heir>>
       \/ /\ KillTree                             \* TimeoutExpired
          /\ caller' = "reap" /\ UNCHANGED verdict
    /\ UNCHANGED <<world, code, wrote, read, pump, caught, stdinErr>>

\* shell: communicate() again, to the end of the pipes, without a timeout
Reap ==
    /\ caller = "reap" /\ pump = "over"
    /\ Reports("timeout")
    /\ UNCHANGED <<world, child, code, heir, wrote, read, pump, caught, stdinErr>>

\* code: proc.wait(timeout)
WaitBlock ==
    /\ caller = "wait" /\ world.kind = "code"
    /\ \/ /\ Dead
          /\ caller' = "join"
          /\ UNCHANGED <<child, heir, verdict>>
       \/ /\ child = "running"
          /\ KillTree
          /\ Reports("timeout")
    /\ UNCHANGED <<world, code, wrote, read, pump, caught, stdinErr>>

\* code: five seconds for the drain threads, then the reply
JoinDrains ==
    /\ caller = "join"
    /\ \/ pump = "draining" /\ Reports("held")
       \/ /\ pump = "over"
          /\ Reports(IF stdinErr \/ caught = "flood" THEN "failure" ELSE Interpret(caught, code))
    /\ UNCHANGED <<world, child, code, heir, wrote, read, pump, caught, stdinErr>>

\* mcp: reader.join(timeout); no result, for whatever reason, is a timeout
JoinReader ==
    /\ caller = "wait" /\ IsServer
    /\ verdict' = CASE pump = "over" /\ caught = "ok"    -> "success"
                    [] pump = "over" /\ caught \in {"bad", "flood"} -> "failure"
                    [] OTHER -> "timeout"
    /\ caller' = "close"
    /\ UNCHANGED <<world, child, code, heir, wrote, read, pump, caught, stdinErr>>

\* mcp: stdin.close() flushes, for which it needs the lock of the buffer
CloseStdin ==
    /\ caller = "close"
    /\ ~(pump = "calling" /\ world.big /\ ~read /\ ~PipeClosed)
    /\ caller' = "terminate"
    /\ UNCHANGED <<world, child, code, heir, wrote, read, pump, caught, stdinErr, verdict>>

\* mcp: terminate, wait a second, kill: the server, not its group
Terminate ==
    /\ caller = "terminate"
    /\ caller' = "returned"
    /\ heir'  = IF child = "running" THEN world.leaves ELSE heir
    /\ child' = IF child = "running" THEN "killed" ELSE child
    /\ UNCHANGED <<world, code, wrote, read, pump, caught, stdinErr, verdict>>

CallerStep ==
    \/ Popen \/ Feed \/ Communicate \/ Reap \/ WaitBlock \/ JoinDrains
    \/ JoinReader \/ CloseStdin \/ Terminate

ProcNext ==
    \/ ProcessReads \/ ProcessWrites \/ ProcessEnds \/ HeirEnds
    \/ PumpStep \/ CallerStep

\* the threads run, their timeouts included, and a process that reads its input
\* does so; whether it ever ends is its own affair
ProcFairness == WF_procVars(CallerStep) /\ WF_procVars(PumpStep) /\ WF_procVars(ProcessReads)

ProcSpec == ProcInit /\ [][ProcNext]_procVars /\ ProcFairness

---------------------------------------------------------------------------
\* A step succeeds only if its process answered, and ended itself with 0 where
\* there is an exit code to see; a process that was killed, a pipe that was not
\* read to its end and a payload that did not get through never look like that.
SuccessWasAnswered ==
    verdict = "success" =>
        /\ world.kind # "mcp" => child = "exited" /\ code = 0 /\ heir # "group"
        /\ world.kind # "shell" => wrote = "ok"
        /\ world.kind = "code" => ~stdinErr

\* BLOCKS.md: "Timeout kills the whole process tree": what is left of the
\* process group is gone when a shell or a code step reports a timeout.
TimeoutKillsGroup ==
    caller = "returned" /\ verdict = "timeout" =>
        /\ child # "running"
        /\ world.kind # "mcp" => heir # "group"

\* mcp.py: "a server blocked mid-readline must not pin the worker past the
\* deadline"; BLOCKS.md: "Timeout (default 60 s) kills the whole process tree".
DeadlineHolds == (child = "running") ~> (caller = "returned")
=============================================================================
