---------------------------- MODULE MonitorLock ----------------------------
(***************************************************************************)
(* The life of `mcp-vuln monitor` processes around the one PID file they   *)
(* share: McpMonitorDaemon.start/stop, its signal handler and flock, and   *)
(* `mcp-vuln monitor --stop` (stop_monitor), which reads that file.        *)
(*                                                                         *)
(* The path leads to an inode; a process that has the file open keeps its  *)
(* inode after another one unlinked the path.  The inode a process creates *)
(* bears its name, since each creates one at most.  A process id is not    *)
(* used again within a behaviour.                                          *)
(***************************************************************************)
EXTENDS FiniteSets

CONSTANTS
  Daemons,     \* the starts of the monitor, each a process of its own
  None,        \* no inode, no process
  Stops,       \* may somebody run --stop?
  Kills        \* may a process be killed by SIGKILL or die?

ASSUME MonitorAssumption ==
  /\ None \notin Daemons
  /\ Stops \in BOOLEAN /\ Kills \in BOOLEAN

VARIABLES
  path,        \* the inode pid_file leads to, None when there is no file
  content,     \* the process id written in each inode, None when empty
  holder,      \* the process that has the flock of each inode
  fd,          \* pid_fd: the inode a process has open
  pc,          \* step of each process
  running,     \* self.running
  stopper,     \* step of stop_monitor
  target,      \* the pid stop_monitor read
  killed,      \* history: processes that did not end through stop()
  undercut     \* history: the path was unlinked while a process had it open

file == <<path, content, holder, fd>>
vars == <<file, pc, running, stopper, target, killed, undercut>>

Holding == {"locked", "written", "ready", "loop", "stopping"}
Live    == Holding \cup {"opened", "remove"}

TypeOK ==
  /\ path \in Daemons \cup {None}
  /\ content \in [Daemons -> Daemons \cup {None}]
  /\ holder \in [Daemons -> Daemons \cup {None}]
  /\ fd \in [Daemons -> Daemons \cup {None}]
  /\ pc \in [Daemons -> Live \cup {"new", "gone"}]
  /\ running \in [Daemons -> BOOLEAN]
  /\ stopper \in {"idle", "kill", "poll", "unlink"}
  /\ target \in Daemons \cup {None} /\ (target = None <=> stopper = "idle")
  /\ killed \in SUBSET Daemons
  /\ undercut \in BOOLEAN

Init ==
  /\ path = None
  /\ content = [i \in Daemons |-> None] /\ holder = [i \in Daemons |-> None]
  /\ fd = [d \in Daemons |-> None] /\ pc = [d \in Daemons |-> "new"]
  /\ running = [d \in Daemons |-> FALSE]
  /\ stopper = "idle" /\ target = None
  /\ killed = {} /\ undercut = FALSE

Goto(d, step) == pc' = [pc EXCEPT ![d] = step]
Release(d)    == holder' = [i \in Daemons |-> IF holder[i] = d THEN None ELSE holder[i]]
Close(d)      == fd' = [fd EXCEPT ![d] = None]

\* Unlinking leaves the inode to those who have it open.
Unlink == /\ path' = None
          /\ undercut' = (undercut \/ \E d \in Daemons : path # None /\ fd[d] = path)

-----------------------------------------------------------------------------
(* One process: _write_pid, _register_signals, the loop, stop.             *)

\* Mutant: the id is written when the file is opened, before the lock.
OpenAndWrite(d) ==
  /\ pc[d] = "new"
  /\ LET inode == IF path = None THEN d ELSE path
     IN  /\ path' = inode
         /\ content' = [content EXCEPT ![inode] = d]
         /\ fd' = [fd EXCEPT ![d] = inode]
  /\ Goto(d, "opened")
  /\ UNCHANGED <<holder, running, stopper, target, killed, undercut>>

\* open(pid_file, 'w') creates the file or empties it, before any lock.
Open(d) ==
  /\ pc[d] = "new"
  /\ LET inode == IF path = None THEN d ELSE path
     IN  /\ path' = inode
         /\ content' = [content EXCEPT ![inode] = None]
         /\ fd' = [fd EXCEPT ![d] = inode]
  /\ Goto(d, "opened")
  /\ UNCHANGED <<holder, running, stopper, target, killed, undercut>>

\* Mutant: a shared lock.
LockShared(d) ==
  /\ pc[d] = "opened"
  /\ holder' = [holder EXCEPT ![fd[d]] = d]
  /\ Goto(d, "locked")
  /\ UNCHANGED <<path, content, fd, running, stopper, target, killed, undercut>>

Lock(d) ==
  /\ pc[d] = "opened" /\ holder[fd[d]] = None
  /\ holder' = [holder EXCEPT ![fd[d]] = d]
  /\ Goto(d, "locked")
  /\ UNCHANGED <<path, content, fd, running, stopper, target, killed, undercut>>

\* "Another instance is already running": sys.exit closes the file.
Refused(d) ==
  /\ pc[d] = "opened" /\ holder[fd[d]] # None
  /\ Close(d) /\ Goto(d, "gone")
  /\ UNCHANGED <<path, content, holder, running, stopper, target, killed, undercut>>

WritePid(d) ==
  /\ pc[d] = "locked"
  /\ content' = [content EXCEPT ![fd[d]] = d]
  /\ Goto(d, "written")
  /\ UNCHANGED <<path, holder, fd, running, stopper, target, killed, undercut>>

Register(d) ==
  /\ pc[d] = "written" /\ Goto(d, "ready")
  /\ UNCHANGED <<file, running, stopper, target, killed, undercut>>

Run(d) ==
  /\ pc[d] = "ready" /\ Goto(d, "loop")
  /\ running' = [running EXCEPT ![d] = TRUE]
  /\ UNCHANGED <<file, stopper, target, killed, undercut>>

\* Mutant: `while True`, which reads self.running nowhere.
LoopForever(d) == FALSE

\* A cycle, or the sleep after it, is over and self.running is read.
LoopEnd(d) ==
  /\ pc[d] = "loop" /\ ~running[d] /\ Goto(d, "stopping")
  /\ UNCHANGED <<file, running, stopper, target, killed, undercut>>

Unlock(d) ==
  /\ pc[d] = "stopping"
  /\ Release(d) /\ Close(d) /\ Goto(d, "remove")
  /\ UNCHANGED <<path, content, running, stopper, target, killed, undercut>>

\* Mutant: the file is unlocked and closed but not removed.
RemoveNothing(d) ==
  /\ pc[d] = "remove" /\ Goto(d, "gone")
  /\ UNCHANGED <<file, running, stopper, target, killed, undercut>>

\* exists() and unlink(), whatever file is at the path by now; that it went
\* away in between is swallowed.
Remove(d) ==
  /\ pc[d] = "remove" /\ Unlink /\ Goto(d, "gone")
  /\ UNCHANGED <<content, holder, fd, running, stopper, target, killed>>

-----------------------------------------------------------------------------
(* Signals.                                                                *)

Alive(d) == pc[d] \in Live

\* The kernel closes the file, which releases its lock.
Die(d) ==
  /\ Release(d) /\ Close(d) /\ Goto(d, "gone")
  /\ killed' = killed \cup {d}
  /\ UNCHANGED <<path, content, running>>

Handler(d) ==
  /\ running' = [running EXCEPT ![d] = FALSE]
  /\ UNCHANGED <<file, pc, killed>>

\* SIGTERM ends a process that has not registered its handler yet.
Term(d) == IF pc[d] \in {"opened", "locked", "written"} THEN Die(d) ELSE Handler(d)

\* systemd, launchd or a terminal stops the process.
ServiceStop(d) ==
  /\ Alive(d) /\ Term(d)
  /\ UNCHANGED <<stopper, target, undercut>>

Kill(d) ==
  /\ Kills /\ Alive(d) /\ Die(d)
  /\ UNCHANGED <<stopper, target, undercut>>

-----------------------------------------------------------------------------
(* --stop and --status.                                                    *)

\* Mutant: the file is read without asking whether it holds an id.
StopReadAny ==
  /\ Stops /\ stopper = "idle" /\ path # None
  /\ stopper' = "kill" /\ target' = content[path]
  /\ UNCHANGED <<file, pc, running, killed, undercut>>

\* An empty file is a ValueError: "not running or failed to stop".
StopRead ==
  /\ Stops /\ stopper = "idle" /\ path # None /\ content[path] # None
  /\ stopper' = "kill" /\ target' = content[path]
  /\ UNCHANGED <<file, pc, running, killed, undercut>>

StopSignal ==
  /\ stopper = "kill" /\ Alive(target) /\ Term(target)
  /\ stopper' = "poll" /\ UNCHANGED <<target, undercut>>

StopSignalFails ==
  /\ stopper = "kill" /\ ~Alive(target)
  /\ stopper' = "idle" /\ target' = None
  /\ UNCHANGED <<file, pc, running, killed, undercut>>

StopSeesEnd ==
  /\ stopper = "poll" /\ ~Alive(target)
  /\ stopper' = "unlink"
  /\ UNCHANGED <<file, pc, running, target, killed, undercut>>

\* Ten polls, then False.
StopGivesUp ==
  /\ stopper = "poll" /\ Alive(target)
  /\ stopper' = "idle" /\ target' = None
  /\ UNCHANGED <<file, pc, running, killed, undercut>>

StopUnlink ==
  /\ stopper = "unlink" /\ Unlink
  /\ stopper' = "idle" /\ target' = None
  /\ UNCHANGED <<content, holder, fd, pc, running, killed>>

-----------------------------------------------------------------------------
Step(d) == \/ Open(d) \/ Lock(d) \/ Refused(d) \/ WritePid(d) \/ Register(d)
           \/ Run(d) \/ LoopEnd(d) \/ Unlock(d) \/ Remove(d)
Stop    == \/ StopRead \/ StopSignal \/ StopSignalFails \/ StopSeesEnd
           \/ StopGivesUp \/ StopUnlink
Next    == Stop \/ \E d \in Daemons : Step(d) \/ ServiceStop(d) \/ Kill(d)

Spec == Init /\ [][Next]_vars

\* A process that runs goes on: no step of it waits for another process, and
\* a cycle and the sleep after it are finite.  Nobody has to start a monitor,
\* to stop one, or to get to the end of --stop.
FairSpec == Spec /\ \A d \in Daemons : WF_vars(Step(d) /\ pc[d] # "new")

-----------------------------------------------------------------------------
(* Properties.                                                             *)

Monitoring(d) == pc[d] = "loop"

\* Two monitors never run at once ("refuses to double-spawn").  The code
\* does not keep this: a process that opened the file just before another
\* one unlinked it locks an inode that no later start will see.
MutualExclusion ==
  \A d, e \in Daemons : Monitoring(d) /\ Monitoring(e) => d = e

\* That race is the only way: two monitors run at once only after the path
\* was unlinked under a process that had the file open.
ExclusiveUnlessUnlinked == undercut \/ MutualExclusion

\* A PID file is left behind only by a process that was killed: otherwise
\* some process still runs that will remove it, or learn it is in use.
LeftoverOnlyAfterKill ==
  path # None /\ killed = {} => \E d \in Daemons : Alive(d)

\* Once the process with the lock has written its id, a --stop that reads
\* the file reads this id or none; it never signals a start that was refused
\* or a predecessor.
NamesHolder ==
  \A i \in Daemons :
    holder[i] # None /\ pc[holder[i]] # "locked" => content[i] \in {holder[i], None}

\* A monitor in its loop that --stop or the service manager told to end does
\* end, and nothing at the path names it any more, unless it was killed first.
TermObeyed ==
  \A d \in Daemons :
    Monitoring(d) /\ ~running[d]
      ~> pc[d] = "gone" /\ (d \in killed \/ path = None \/ content[path] # d)

=============================================================================
