---------------------------- MODULE CommandRun -----------------------------
(***************************************************************************)
(* One command of an operator or command tool (connectors/operator.py      *)
(* _run_argv, command_tools.py run_command_tool): the shielded spawn of a  *)
(* sandboxed process group, its output drained to the end, the call's own  *)
(* timeout, cancellations from outside at any await, and the kill and reap *)
(* that must come before the call ends -- or be armed when it cannot wait. *)
(***************************************************************************)
EXTENDS CommandTool

CONSTANTS
    Commands,   \* what a caller may ask: see Allowed
    MaxCancels  \* bound: cancellations one call meets (tool limit, turn limit)

ASSUME CommandAssumption == MaxCancels \in Nat
ASSUME ManifestAssumption ==
    \A r \in Commands : \A i \in DOMAIN r.manifest : EntryShape(r.manifest[i])

VARIABLES
    asked,    \* the request this call runs
    call,     \* where the call stands
    answer,   \* what it ends with, or is about to
    spawn,    \* the spawn task: create_subprocess_exec
    group,    \* the process group: prlimit, bwrap and the command
    armed,    \* _kill_group_once_spawned hangs on the spawn
    cancels,  \* cancellations so far
    overdue,  \* a bounded wait of 5 s ran out: logged, the call ends anyway
    workdir   \* the command tool's scratch workspace is there

commandVars == <<asked, call, answer, spawn, group, armed, cancels, overdue, workdir>>

-----------------------------------------------------------------------------
(* What is refused before anything runs: a line instead of a list, a null   *)
(* byte, a program off the allowlist, an input that does not fit the tool,  *)
(* and a host without bwrap or prlimit.                                     *)

ToolCalled(r) == CHOOSE e \in ToolsOf(r.manifest) : e.name = r.name

Allowed(r) ==
    /\ r.list /\ ~r.null
    /\ IF r.tool = "use_term" THEN r.listed ELSE InputsFit(ToolCalled(r), r.inputs)

Sandboxed(r) == r.bwrap /\ r.prlimit

\* A command tool is there to be called when its manifest loads.
Offered(r) ==
    r.tool = "command" => ManifestLoads(r.manifest) /\ \E e \in ToolsOf(r.manifest) : e.name = r.name

CommandInit ==
    /\ asked \in {r \in Commands : Offered(r)}
    /\ call = "asked" /\ answer = "none" /\ spawn = "none" /\ group = "none"
    /\ armed = FALSE /\ cancels = 0 /\ overdue = FALSE /\ workdir = FALSE

\* The command tool's finally removes its workspace, whatever ended the call.
End(a) == call' = "ended" /\ answer' = a /\ workdir' = FALSE

Refuse ==
    /\ call = "asked" /\ ~(Allowed(asked) /\ Sandboxed(asked))
    /\ End("refused")
    /\ UNCHANGED <<asked, spawn, group, armed, cancels, overdue>>

StartSpawn ==
    /\ call = "asked" /\ Allowed(asked) /\ Sandboxed(asked)
    /\ call' = "spawning" /\ spawn' = "pending"
    /\ workdir' = (asked.tool = "command")
    /\ UNCHANGED <<asked, answer, group, armed, cancels, overdue>>

-----------------------------------------------------------------------------
(* The spawn runs as a task of its own: the child exists before its pipes   *)
(* are connected and the call is told.                                      *)

Fork ==
    /\ spawn = "pending" /\ group = "none"
    /\ group' = "alive"
    /\ UNCHANGED <<asked, call, answer, spawn, armed, cancels, overdue, workdir>>

Spawned ==
    /\ spawn = "pending" /\ group /= "none"
    /\ spawn' = "done"
    /\ UNCHANGED <<asked, call, answer, group, armed, cancels, overdue, workdir>>

SpawnFails ==
    /\ spawn = "pending" /\ group = "none"
    /\ spawn' = "failed"
    /\ UNCHANGED <<asked, call, answer, group, armed, cancels, overdue, workdir>>

\* The done-callback: synchronous, so no cancellation can stop it.
KillOnceSpawned ==
    /\ armed /\ spawn = "done" /\ group = "alive"
    /\ group' = "dead"
    /\ UNCHANGED <<asked, call, answer, spawn, armed, cancels, overdue, workdir>>

\* The command ends by itself, and with it everything in its namespace.
Exit ==
    /\ spawn = "done" /\ group = "alive"
    /\ group' = "dead"
    /\ UNCHANGED <<asked, call, answer, spawn, armed, cancels, overdue, workdir>>

-----------------------------------------------------------------------------
(* The finally block.  KillGroup is the killpg that reaches the launcher,   *)
(* bwrap's init and the command together.                                   *)

LeaveGroup == group
KillGroup == IF group = "alive" THEN "dead" ELSE group
NotArmed == FALSE
Arm == TRUE

Finally(a) ==
    \/ /\ call = "spawning" /\ spawn /= "failed"
       /\ armed' = Arm /\ call' = "finishing" /\ answer' = a
       /\ UNCHANGED <<group, workdir>>
    \/ /\ call = "spawning" /\ spawn = "failed"
       /\ End(a) /\ UNCHANGED <<group, armed>>
    \/ /\ call = "running"
       /\ IF group = "alive"
            THEN /\ group' = KillGroup /\ call' = "reaping" /\ answer' = a
                 /\ UNCHANGED workdir
            ELSE End(a) /\ UNCHANGED group
       /\ UNCHANGED armed

Resume ==
    /\ call = "spawning" /\ spawn = "done"
    /\ call' = "running"
    /\ UNCHANGED <<asked, answer, spawn, group, armed, cancels, overdue, workdir>>

CouldNotStart ==
    /\ call = "spawning" /\ spawn = "failed"
    /\ Finally("spawn_failed")
    /\ UNCHANGED <<asked, spawn, cancels, overdue>>

\* Both pipes drained to the end and the status collected.
Completed ==
    /\ call = "running" /\ group = "dead"
    /\ Finally("result")
    /\ UNCHANGED <<asked, spawn, cancels, overdue>>

OwnTimeout ==
    /\ call \in {"spawning", "running"}
    /\ Finally("timeout")
    /\ UNCHANGED <<asked, spawn, cancels, overdue>>

FinishSpawn ==
    /\ call = "finishing" /\ spawn \in {"done", "failed"}
    /\ IF group = "alive"
         THEN group' = KillGroup /\ call' = "reaping" /\ UNCHANGED <<answer, workdir>>
         ELSE End(answer) /\ UNCHANGED group
    /\ UNCHANGED <<asked, spawn, armed, cancels, overdue>>

\* Still starting after 5 s: cancelled, which leaves asyncio's own cleanup --
\* it kills the direct child, not the group.
SpawnOverdue ==
    /\ call = "finishing" /\ spawn = "pending"
    /\ spawn' = "cancelled" /\ overdue' = TRUE
    /\ End(answer)
    /\ UNCHANGED <<asked, group, armed, cancels>>

Reaped ==
    /\ call = "reaping" /\ group = "dead"
    /\ End(answer)
    /\ UNCHANGED <<asked, spawn, group, armed, cancels, overdue>>

\* A cancellation from outside: the interceptor's limit, the turn's, shutdown.
\* In the cleanup it ends the wait for the spawn or the reap; the kill is
\* done or armed by then.
Interrupted(a) == "cancelled"

Cancel ==
    /\ cancels < MaxCancels /\ cancels' = cancels + 1
    /\ \/ call \in {"spawning", "running"} /\ Finally("cancelled")
       \/ /\ call \in {"finishing", "reaping"}
          /\ End(Interrupted(answer)) /\ UNCHANGED <<group, armed>>
    /\ UNCHANGED <<asked, spawn, overdue>>

CommandStep ==
    \/ Refuse \/ StartSpawn \/ Fork \/ Spawned \/ SpawnFails \/ KillOnceSpawned \/ Exit
    \/ Resume \/ CouldNotStart \/ Completed \/ OwnTimeout \/ FinishSpawn
    \/ SpawnOverdue \/ Reaped \/ Cancel

CommandSpec == CommandInit /\ [][CommandStep]_commandVars

-----------------------------------------------------------------------------
(* A cancellation that met the call is what it ends with, never a result;   *)
(* "was killed" is true when it is said; and a group still alive when the   *)
(* call has ended is one whose kill is armed.                               *)
AnswersAreTrue ==
    call = "ended" =>
        /\ cancels > 0 => answer = "cancelled"
        /\ answer = "timeout" => group /= "alive" \/ overdue
        /\ answer = "result" => group = "dead"
        /\ group = "alive" \/ spawn = "pending" => armed \/ overdue

(* What a command tool runs is what its one declaration under that name     *)
(* says (see AsDeclared).                                                   *)
RunsAsDeclared ==
    asked.tool = "command" /\ spawn /= "none" =>
        /\ Cardinality({i \in DOMAIN asked.manifest : asked.manifest[i].name = asked.name}) = 1
        /\ AsDeclared(ToolCalled(asked), asked.inputs)

CommandsSafe == AnswersAreTrue /\ RunsAsDeclared

(* No command outlives its call for good: the call ends, and then its group *)
(* dies -- short of a spawn that never finished starting.                   *)
NothingOutlives == <>[](call = "ended" /\ (overdue \/ (group /= "alive" /\ spawn /= "pending")))

(* command_tools.py:195-197 says the workspace goes only after the command  *)
(* has been killed and reaped; a second cancellation during the spawn lets  *)
(* the command start after its workspace is gone.                           *)
WorkspaceOutlivesCommand ==
    asked.tool = "command" /\ (group = "alive" \/ spawn = "pending") => workdir \/ overdue
=============================================================================
