------------------------------- MODULE Sandbox -------------------------------
(****************************************************************************)
(* Where a run's commands run: the runtime's cache of environments, the two *)
(* providers (host processes, or docker exec into a container that docker   *)
(* run left in the background), and the life of a command from spawn to     *)
(* close with its timeout and its abort signal. One run; its users are the  *)
(* loop's actions and an operator's replay or verification of it.           *)
(****************************************************************************)
EXTENDS Integers, FiniteSets

CONSTANTS SandboxUser, MaxContainers, MaxRuntimeDeaths

ASSUME SandboxAssumption == {MaxContainers, MaxRuntimeDeaths} \subseteq Nat

VARIABLES sandboxKind,   \* "local" or "docker"
          containers,    \* the containers docker runs, by number
          environment,   \* what the runtime's map holds: a container, 0 on the host
          opening,       \* per user: how far environmentFor is
          command,       \* per user: its command
          closing,       \* how far the runtime's shutdown is: open, destroying or closed
          runtimeDeaths

SandboxVars == <<sandboxKind, containers, environment, opening, command, closing, runtimeDeaths>>

NoEnvironment == -1
NotOpening == [stage |-> "no", holds |-> NoEnvironment]

\* Host processes: "child", "quiet" (of its group, its output redirected), "left"
\* (its own group now, the child's output still open). With docker the child is
\* the CLI, and "inside" is the command itself.
HostProcess == {"child", "quiet", "left"}
NoCommand == [phase |-> "none", said |-> "nothing", alive |-> {}, home |-> NoEnvironment,
              timedOut |-> FALSE, aborted |-> FALSE]

SandboxInit ==
  /\ sandboxKind \in {"local", "docker"}
  /\ containers = {} /\ environment = NoEnvironment /\ closing = "open" /\ runtimeDeaths = 0
  /\ opening = [u \in SandboxUser |-> NotOpening] /\ command = [u \in SandboxUser |-> NoCommand]

SetCommand(u, new) == command' = [command EXCEPT ![u] = new]

\* environmentFor: not in the map, so the provider makes one.
AskEnvironment(u) ==
  /\ environment = NoEnvironment /\ opening[u] = NotOpening /\ command[u].phase = "none"
  /\ opening' = [opening EXCEPT ![u].stage = "provider"]
  /\ UNCHANGED <<sandboxKind, containers, environment, command, closing, runtimeDeaths>>

Unused(n) == n \in 1..MaxContainers /\ \A u \in SandboxUser : n # opening[u].holds /\ n # command[u].home

\* environment.create(): docker run of a new container, or only a directory.
\* provider.create has called it once when environmentFor calls it again.
CreateEnvironment(u) ==
  /\ opening[u].stage \in {"provider", "runtime"}
  /\ \E n \in IF sandboxKind = "local" THEN {0} ELSE {m \in 1..MaxContainers : Unused(m) /\ m \notin containers} :
       /\ containers' = containers \union ({n} \ {0})
       /\ opening' = [opening EXCEPT ![u] =
            IF opening[u].stage = "provider" THEN [stage |-> "runtime", holds |-> n] ELSE [stage |-> "set", holds |-> n]]
  /\ UNCHANGED <<sandboxKind, environment, command, closing, runtimeDeaths>>

\* … docker run fails, and environmentFor with it.
CreateFails(u) ==
  /\ sandboxKind = "docker" /\ opening[u].stage \in {"provider", "runtime"}
  /\ opening' = [opening EXCEPT ![u] = NotOpening]
  /\ UNCHANGED <<sandboxKind, containers, environment, command, closing, runtimeDeaths>>

SetEnvironment(u) ==
  /\ opening[u].stage = "set"
  /\ environment' = opening[u].holds /\ opening' = [opening EXCEPT ![u] = NotOpening]
  /\ UNCHANGED <<sandboxKind, containers, command, closing, runtimeDeaths>>

\* execute: spawn, with the timer and the abort listener set.
Execute(u) ==
  /\ environment # NoEnvironment /\ command[u].phase = "none" /\ opening[u] = NotOpening
  /\ \/ SetCommand(u, [NoCommand EXCEPT !.phase = "running", !.home = environment,
                         !.alive = IF sandboxKind = "local" THEN {"child"}
                                   ELSE IF environment \in containers THEN {"child", "inside"} ELSE {"child"}])
     \/ SetCommand(u, [NoCommand EXCEPT !.phase = "settled", !.said = "spawn failed"])
  /\ UNCHANGED <<sandboxKind, containers, environment, opening, closing, runtimeDeaths>>

\* What the command itself does: leave processes behind, and end.
SpawnMore(u) ==
  /\ sandboxKind = "local" /\ "child" \in command[u].alive
  /\ \E p \in {"quiet", "left"} : SetCommand(u, [command[u] EXCEPT !.alive = @ \union {p}])
  /\ UNCHANGED <<sandboxKind, containers, environment, opening, closing, runtimeDeaths>>

EndProcess(u) ==
  /\ \E p \in command[u].alive :
       /\ p = "child" => "inside" \notin command[u].alive
       /\ SetCommand(u, [command[u] EXCEPT !.alive = @ \ {p}])
  /\ UNCHANGED <<sandboxKind, containers, environment, opening, closing, runtimeDeaths>>

\* Defect: the signal goes to the child and not to its group.
KillChild(alive) == alive \ {"child"}

\* killTree sends SIGKILL to the group of the child. The docker CLI is alone in
\* its own, and does not pass a SIGKILL on.
KillTree(alive) == alive \ {"child", "quiet"}

\* Defect: the timer takes note and leaves the command to end by itself.
TimeOutNoted(u) ==
  /\ command[u].phase = "running" /\ ~command[u].timedOut
  /\ SetCommand(u, [command[u] EXCEPT !.timedOut = TRUE])
  /\ UNCHANGED <<sandboxKind, containers, environment, opening, closing, runtimeDeaths>>

TimeOutCommand(u) ==
  /\ command[u].phase = "running" /\ ~command[u].timedOut
  /\ SetCommand(u, [command[u] EXCEPT !.timedOut = TRUE, !.alive = KillTree(@)])
  /\ UNCHANGED <<sandboxKind, containers, environment, opening, closing, runtimeDeaths>>

AbortCommand(u) ==
  /\ command[u].phase = "running" /\ ~command[u].aborted
  /\ SetCommand(u, [command[u] EXCEPT !.aborted = TRUE, !.alive = KillTree(@)])
  /\ UNCHANGED <<sandboxKind, containers, environment, opening, closing, runtimeDeaths>>

\* "close": nobody holds the child's output. An aborted docker exec is resolved
\* like one that has ended.
CloseCommand(u) ==
  /\ command[u].phase = "running" /\ command[u].alive \intersect {"child", "left"} = {}
  /\ SetCommand(u, [command[u] EXCEPT !.phase = "settled",
       !.said = IF command[u].aborted /\ sandboxKind = "local" THEN "aborted"
                ELSE IF command[u].timedOut THEN "timeout" ELSE "exit"])
  /\ UNCHANGED <<sandboxKind, containers, environment, opening, closing, runtimeDeaths>>

\* destroy: docker rm -f, whose answer nobody looks at, or nothing but the map.
Removed(n) ==
  /\ containers' = containers \ {n}
  /\ command' = [u \in SandboxUser |->
       IF command[u].home = n /\ n # 0 THEN [command[u] EXCEPT !.alive = @ \ {"inside"}] ELSE command[u]]

\* afterOutcome of an ended run: out of the map, and destroyed.
ReleaseEnvironment ==
  /\ environment # NoEnvironment /\ environment' = NoEnvironment
  /\ Removed(environment) \/ (sandboxKind = "docker" /\ UNCHANGED <<containers, command>>)
  /\ UNCHANGED <<sandboxKind, opening, closing, runtimeDeaths>>

\* shutdown awaits that what is in the map is destroyed, and clears the map then: in
\* between it is still handed out, or written over by one that was being made.
ShutdownBegins ==
  /\ closing = "open"
  /\ IF environment = NoEnvironment THEN closing' = "closed" /\ UNCHANGED <<containers, command>>
     ELSE /\ closing' = "destroying"
          /\ Removed(environment) \/ (sandboxKind = "docker" /\ UNCHANGED <<containers, command>>)
  /\ UNCHANGED <<sandboxKind, environment, opening, runtimeDeaths>>

ShutdownClears ==
  /\ closing = "destroying" /\ closing' = "closed" /\ environment' = NoEnvironment
  /\ UNCHANGED <<sandboxKind, containers, opening, command, runtimeDeaths>>

\* The runtime's process dies: docker's containers and the commands, which lead
\* groups of their own, do not.
RuntimeDies ==
  /\ runtimeDeaths < MaxRuntimeDeaths /\ runtimeDeaths' = runtimeDeaths + 1
  /\ closing' = "open" /\ environment' = NoEnvironment
  /\ opening' = [u \in SandboxUser |-> NotOpening]
  /\ command' = [u \in SandboxUser |->
       IF command[u].phase = "running" THEN [command[u] EXCEPT !.phase = "abandoned"] ELSE command[u]]
  /\ UNCHANGED <<sandboxKind, containers>>

SandboxNext ==
  \/ \E u \in SandboxUser : \/ AskEnvironment(u) \/ CreateEnvironment(u) \/ CreateFails(u) \/ SetEnvironment(u)
                            \/ Execute(u) \/ SpawnMore(u) \/ EndProcess(u)
                            \/ TimeOutCommand(u) \/ AbortCommand(u) \/ CloseCommand(u)
  \/ ReleaseEnvironment \/ ShutdownBegins \/ ShutdownClears \/ RuntimeDies

\* Timers fire and "close" is emitted. Nothing makes a command end by itself.
SandboxFairness ==
  \A u \in SandboxUser : WF_SandboxVars(TimeOutCommand(u)) /\ WF_SandboxVars(CloseCommand(u))

SandboxTypeOK ==
  /\ sandboxKind \in {"local", "docker"} /\ containers \subseteq 1..MaxContainers
  /\ closing \in {"open", "destroying", "closed"}
  /\ environment \in {NoEnvironment} \union 0..MaxContainers
  /\ \A u \in SandboxUser :
       /\ opening[u].stage \in {"no", "provider", "runtime", "set"}
       /\ opening[u].holds \in {NoEnvironment} \union 0..MaxContainers
       /\ command[u].phase \in {"none", "running", "settled", "abandoned"}
       /\ command[u].said \in {"nothing", "spawn failed", "exit", "timeout", "aborted"}
       /\ command[u].alive \subseteq HostProcess \union {"inside"}

\* What a command left in its group is dead when the tool is told that it timed out
\* or was aborted, whatever it had spawned and redirected by then, on the host
\* (local.ts killTree; terminal.ts:107, "Command exceeded …ms and was killed").
KilledMeansDead ==
  \A u \in SandboxUser :
    sandboxKind = "local" /\ command[u].said \in {"timeout", "aborted"} =>
      command[u].alive \intersect {"child", "quiet"} = {}

\* Every command settles, even one that never ends, unless a process that has left
\* the group keeps its output open or the runtime dies first.
CommandsSettle ==
  \A u \in SandboxUser :
    command[u].phase = "running" ~> command[u].phase # "running" \/ "left" \in command[u].alive

\* Violated with docker: only the CLI is killed, and the command goes on inside.
KilledMeansDeadInside ==
  \A u \in SandboxUser : command[u].said = "timeout" => "inside" \notin command[u].alive

\* Violated with docker. runtime.ts:1117-1118, "A finished run keeps its workspace on
\* disk … but releases the execution environment": environmentFor creates it twice,
\* and of the two containers the runtime remembers and removes one.
ReleaseLeavesNoContainer ==
  [][environment # NoEnvironment /\ environment' = NoEnvironment /\ environment \notin containers' =>
       containers' \subseteq {opening[u].holds : u \in SandboxUser}]_SandboxVars

\* Violated. Nothing kills what a command left behind when the run is over.
EndedRunIsStill ==
  environment = NoEnvironment => \A u \in SandboxUser : command[u].phase = "settled" => command[u].alive = {}
=============================================================================
