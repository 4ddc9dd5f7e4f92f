------------------------------ MODULE Sandbox ------------------------------
(***************************************************************************)
(* Running a server where it cannot do harm: run_handshake of the drivers  *)
(* (sandbox/drivers.py) and EphemeralSandbox.execute (sandbox/runner.py).  *)
(*                                                                         *)
(* `box` is the Incus instance or the container a package is inspected in, *)
(* `fetcher` the container that downloads the package.  Both belong to the *)
(* engine and outlive the command that asked for them.                     *)
(***************************************************************************)
EXTENDS FiniteSets

CONSTANT Engines   \* the command line tools there may be

SandboxAssumption == Engines = {"incus", "docker"}

Modes   == {"auto", "docker", "incus", "host", "inspect"}
Mishaps == {"launch", "kill", "delete", "fetch", "lost"}

VARIABLES
  pc,       \* the caller's thread
  mode,     \* of get_sandbox_runner; "inspect" is EphemeralSandbox
  runner,   \* the driver in use
  command,  \* "path": a file of this host, or "image": the name of an image
  tools,    \* the engines on the PATH
  place,    \* where the server was run
  box,      \* there is an instance or an inspection container
  fetcher,  \* there is a download container
  mishaps,  \* what went wrong with an engine's command
  result    \* of the call

vars == <<pc, mode, runner, command, tools, place, box, fetcher, mishaps, result>>

TypeOK ==
  /\ pc \in {"idle", "run", "launch", "fetch", "start", "install", "probe", "cleanup", "done"}
  /\ mode \in Modes \cup {"none"} /\ runner \in {"none", "host", "docker", "incus", "inspect"}
  /\ command \in {"path", "image"} /\ tools \subseteq Engines
  /\ place \in {"none", "host", "box"} /\ box \in BOOLEAN /\ fetcher \in BOOLEAN
  /\ mishaps \subseteq Mishaps
  /\ result \in {"none", "tools", "empty", "raised", "skipped", "completed", "failed"}

Init ==
  /\ pc = "idle" /\ mode = "none" /\ runner = "none" /\ command = "image" /\ tools = Engines
  /\ place = "none" /\ box = FALSE /\ fetcher = FALSE /\ mishaps = {} /\ result = "none"

-----------------------------------------------------------------------------
(* The drivers                                                             *)

\* AutoSandboxRunner.__init__
BestOf(found) == IF "incus" \in found THEN "incus" ELSE IF "docker" \in found THEN "docker" ELSE "host"

\* get_sandbox_runner, and run_handshake of the automatic one as far as the
\* choice; a file of this host is never put into an engine by it.
Choose ==
  /\ pc = "idle"
  /\ mode' \in Modes \ {"inspect"} /\ command' \in {"path", "image"} /\ tools' \in SUBSET Engines
  /\ runner' = IF mode' # "auto" THEN mode' ELSE IF command' = "path" THEN "host" ELSE BestOf(tools')
  /\ pc' = "run"
  /\ UNCHANGED <<place, box, fetcher, mishaps, result>>

\* A tool disappears between the choice and its use.
Lose ==
  /\ pc = "run" /\ \E t \in tools : tools' = tools \ {t}
  /\ mishaps' = mishaps \cup {"lost"}
  /\ UNCHANGED <<pc, mode, runner, command, place, box, fetcher, result>>

End(r) == pc' = "done" /\ result' = r

\* probe_mcp_server_stdio swallows every exception and answers with no tools.
Probed(where) == /\ \E r \in {"tools", "empty"} : End(r)
                 /\ place' = where

RunHost ==
  /\ pc = "run" /\ runner = "host" /\ Probed("host")
  /\ UNCHANGED <<mode, runner, command, tools, box, fetcher, mishaps>>

\* docker run --rm: the container goes with the command, unless the server
\* ignores the signal and the command is killed.
RunDocker ==
  /\ pc = "run" /\ runner = "docker" /\ "docker" \in tools /\ Probed("box")
  /\ \/ UNCHANGED <<box, mishaps>>
     \/ box' = TRUE /\ mishaps' = mishaps \cup {"kill"}
  /\ UNCHANGED <<mode, runner, command, tools, fetcher>>

\* The engine is not there: an error, which makes the automatic runner start
\* the command on the host.
Missing ==
  /\ pc = "run" /\ runner \in Engines \ tools
  /\ \/ mode = "auto" /\ runner' = "host" /\ UNCHANGED <<pc, result>>
     \/ mode # "auto" /\ End("raised") /\ UNCHANGED runner
  /\ UNCHANGED <<mode, command, tools, place, box, fetcher, mishaps>>

\* IncusSandboxRunner.prepare.  A launch that fails or takes too long leaves
\* `cleanup` unset, whatever has become of the instance.
Launch ==
  /\ pc = "run" /\ runner = "incus" /\ "incus" \in tools
  /\ \/ pc' = "launch" /\ box' = TRUE /\ UNCHANGED <<mishaps, result>>
     \/ End("empty") /\ box' \in BOOLEAN /\ mishaps' = mishaps \cup {"launch"}
  /\ UNCHANGED <<mode, runner, command, tools, place, fetcher>>

\* incus exec and the handshake
RunIncus ==
  /\ pc = "launch" /\ pc' = "cleanup" /\ place' = "box"
  /\ result' \in {"tools", "empty"}
  /\ UNCHANGED <<mode, runner, command, tools, box, fetcher, mishaps>>

-----------------------------------------------------------------------------
(* EphemeralSandbox.execute                                                *)

Execute ==
  /\ pc = "idle" /\ mode' = "inspect" /\ runner' = "inspect"
  /\ \/ End("skipped") /\ tools' = {} /\ UNCHANGED fetcher
     \/ pc' = "fetch" /\ fetcher' = TRUE /\ tools' = {"docker"} /\ UNCHANGED result
  /\ UNCHANGED <<command, place, box, mishaps>>

\* _stage1_fetch.  The time-out kills the command, not the container.
Fetch ==
  /\ pc = "fetch"
  /\ \/ pc' = "start" /\ fetcher' = FALSE /\ UNCHANGED <<mishaps, result>>
     \/ End("raised") /\ fetcher' = FALSE /\ UNCHANGED mishaps
     \/ End("raised") /\ mishaps' = mishaps \cup {"fetch"} /\ UNCHANGED fetcher
  /\ UNCHANGED <<mode, runner, command, tools, place, box>>

\* _stage2_inspect starts the container: its name is known when that succeeds.
StartBox ==
  /\ pc = "start"
  /\ \/ pc' = "install" /\ box' = TRUE /\ UNCHANGED result
     \/ End("raised") /\ UNCHANGED box
  /\ UNCHANGED <<mode, runner, command, tools, place, fetcher, mishaps>>

Install ==
  /\ pc = "install"
  /\ \/ box /\ pc' = "probe" /\ UNCHANGED result
     \/ pc' = "cleanup" /\ result' = "raised"
  /\ UNCHANGED <<mode, runner, command, tools, place, box, fetcher, mishaps>>

\* _get_installed_binary, the handshake, and the look at the clock; a probe that
\* fails is reported with exit code 1, "failed" here.
Probe ==
  /\ pc = "probe" /\ pc' = "cleanup"
  /\ \/ box /\ place' = "box" /\ result' \in {"completed", "failed", "raised"}
     \/ ~box /\ result' \in {"failed", "raised"} /\ UNCHANGED place
  /\ UNCHANGED <<mode, runner, command, tools, box, fetcher, mishaps>>

\* Either `finally`: the box is deleted, and nobody looks whether it is gone.
CleanUp ==
  /\ pc = "cleanup" /\ pc' = "done"
  /\ \/ box' = FALSE /\ UNCHANGED mishaps
     \/ mishaps' = mishaps \cup {"delete"} /\ UNCHANGED box
  /\ UNCHANGED <<mode, runner, command, tools, place, fetcher, result>>

\* The inspection container sleeps for the time-out and ten seconds and is then
\* removed (--rm); the download container ends with the download.
Expire ==
  /\ runner = "inspect"
  /\ \/ box /\ box' = FALSE /\ UNCHANGED fetcher
     \/ fetcher /\ pc = "done" /\ fetcher' = FALSE /\ UNCHANGED box
  /\ UNCHANGED <<pc, mode, runner, command, tools, place, mishaps, result>>

-----------------------------------------------------------------------------
Driver  == Choose \/ Lose \/ RunHost \/ RunDocker \/ Missing \/ Launch \/ RunIncus
Inspect == Execute \/ Fetch \/ StartBox \/ Install \/ Probe

Next == Driver \/ Inspect \/ CleanUp \/ Expire

Spec == Init /\ [][Next]_vars

-----------------------------------------------------------------------------
\* What the call leaves behind: an instance only after a launch or a deletion
\* that went wrong or a killed command, an inspection container only after such
\* a deletion, a download container only after a time-out.
LeftBehind ==
  pc = "done" =>
    /\ (box => mishaps \cap {"launch", "kill", "delete"} # {})
    /\ (box /\ mode = "inspect" => "delete" \in mishaps)
    /\ (fetcher => "fetch" \in mishaps)

\* An image is run on the host only where that was asked for, or automatically
\* where there is no engine; an instance is never left running beside it.
HostByChoice ==
  place = "host" /\ command = "image" =>
    /\ ~box
    /\ \/ mode = "host"
       \/ mode = "auto" /\ (tools = {} \/ "lost" \in mishaps)

=============================================================================
