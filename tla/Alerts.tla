------------------------------- MODULE Alerts -------------------------------
(***************************************************************************)
(* What `mcp-vuln monitor` does in its loop: scan, compare with the        *)
(* baseline, raise an alert unless the debounce cache holds it, and sleep  *)
(* (McpMonitorDaemon.run_monitoring_cycle and _handle_drift,               *)
(* AlertDispatcher, SecurityPicture, SecurityPictureDiffer), under SIGHUP, *)
(* failing writes and restarts.  MonitorLock has the processes; here one   *)
(* runs at a time.                                                         *)
(*                                                                         *)
(* Clocks are abstracted to ages up to the debounce window: a time stamp   *)
(* as old as the window and no time stamp are the same to _is_debounced,   *)
(* so a cache maps the alert ids it still suppresses to their age.  A file *)
(* that was truncated and not yet filled reads like no file.  The monitor  *)
(* puts no CVE, tamper flag or tool hash into a picture, so a picture is   *)
(* the version of every package, and drift is what came and what went.     *)
(***************************************************************************)
EXTENDS Naturals

CONSTANTS
  Names,       \* package names, network endpoints among them
  Versions,
  Sources,     \* the scanned places, in the order of the picture's list
  Window,      \* debounce_window_sec, in ticks
  MaxStarts,   \* bound: processes started one after the other
  Absent,      \* no such package
  None         \* no readable baseline, no alert

Pictures == [Names -> Versions \cup {Absent}]
Drifts   == [added : Pictures, removed : Pictures]
AlertIds == [salt : 1..MaxStarts, drift : Drifts]

ASSUME AlertsAssumption ==
  /\ Sources \in Nat \ {0} /\ Window \in Nat \ {0} /\ MaxStarts \in Nat
  /\ Absent \notin Versions
  /\ None \notin Pictures /\ None \notin AlertIds

VARIABLES
  pc,          \* step of the loop, "off" when no monitor runs
  starts,      \* processes so far; Python salts hash() anew in each
  picture,     \* live_picture, until it was compared or saved
  baseline,    \* baseline_path, None when load() would return None
  cache,       \* dispatcher.alert_cache
  disk,        \* alert_cache_file
  text,        \* json.dumps(alert_cache), until it is in the file
  alert,       \* alert_id of the alert being dispatched
  raised,      \* history: age of each alert this process has raised
  forgotten,   \* history: those a reload made it forget
  spoiled      \* history: a save failed or met a reload, in this process

stores  == <<cache, disk, text>>
history == <<raised, forgotten, spoiled>>
vars    == <<pc, starts, picture, baseline, stores, alert, history>>

Dispatching == {"mark", "dump", "write", "send"}
Saving      == {"dump", "write"}

Stamps(f) == /\ DOMAIN f \subseteq AlertIds
             /\ \A i \in DOMAIN f : f[i] \in 0..Window - 1

Added(d, n) == d.added[n] # Absent

\* Mutant: an alert for every drift, whether there is anything to say.
IsDriftDetected(d) == \E n \in Names : Added(d, n) \/ d.removed[n] # Absent

\* The messages of _handle_drift; a drift of removals alone has none.
Messages(d) == \E n \in Names : Added(d, n)

CacheOK ==
  /\ Stamps(cache) /\ Stamps(disk) /\ Stamps(text)
  /\ Stamps(raised) /\ forgotten \subseteq AlertIds /\ spoiled \in BOOLEAN

\* An alert under way bears the salt of its process and has something to say.
AlertOK ==
  /\ alert \in AlertIds \cup {None} /\ (alert # None <=> pc \in Dispatching)
  /\ (pc \in Dispatching => /\ alert.salt = starts
                           /\ \E n \in Names : Added(alert.drift, n))

TypeOK ==
  /\ pc \in Dispatching \cup {"off", "scan", "load", "truncate", "fill", "sleep"}
  /\ starts \in 0..MaxStarts /\ (pc # "off" => starts > 0)
  /\ picture \in Pictures \cup {None}
  /\ (pc \in {"load", "truncate", "fill"} => picture # None)
  /\ baseline \in Pictures \cup {None}
  /\ CacheOK /\ AlertOK

NoStamps == [i \in {} |-> 0]

Init ==
  /\ pc = "off" /\ starts = 0 /\ picture = None /\ baseline = None
  /\ cache = NoStamps /\ disk = NoStamps /\ text = NoStamps
  /\ alert = None /\ raised = NoStamps /\ forgotten = {} /\ spoiled = FALSE

Goto(step) == pc' = step

\* The end of a cycle, whose locals go.
EndCycle == Goto("sleep") /\ picture' = None /\ alert' = None

Stamp(f, id) == [i \in DOMAIN f \cup {id} |-> IF i = id THEN 0 ELSE f[i]]
Older(f)     == [i \in {j \in DOMAIN f : f[j] + 1 < Window} |-> f[i] + 1]
Age(f, id)   == IF id \in DOMAIN f THEN f[id] ELSE Window

-----------------------------------------------------------------------------
(* The scans and the baseline.                                             *)

\* compare() keys servers by package name, so the last source that has a
\* package decides its version.
Unifies(pic, found) ==
  \A n \in Names :
    LET having == {s \in 1..Sources : found[s][n] # Absent}
    IN  IF having = {} THEN pic[n] = Absent
        ELSE \E last \in having : /\ \A s \in having : s <= last
                                 /\ pic[n] = found[last][n]

\* AlertDispatcher.__init__ loads the cache; its ids bear other salts.
Start ==
  /\ pc = "off" /\ starts < MaxStarts
  /\ Goto("scan") /\ starts' = starts + 1
  /\ cache' = disk /\ spoiled' = FALSE
  /\ UNCHANGED <<picture, baseline, disk, text, alert, raised, forgotten>>

\* Servers come and go, an endpoint may miss its 200 ms, and a client's file
\* that cannot be parsed yields nothing: a scan may find anything.
Scan ==
  /\ pc = "scan"
  /\ picture' \in Pictures
  /\ \E found \in [1..Sources -> Pictures] : Unifies(picture', found)
  /\ Goto("load")
  /\ UNCHANGED <<starts, baseline, stores, alert, history>>

Load ==
  /\ pc = "load" /\ baseline = None
  /\ Goto("truncate")
  /\ UNCHANGED <<starts, picture, baseline, stores, alert, history>>

SaveOpen ==
  /\ pc = "truncate"
  /\ Goto("fill") /\ baseline' = None
  /\ UNCHANGED <<starts, picture, stores, alert, history>>

SaveFill ==
  /\ pc = "fill"
  /\ baseline' = picture /\ EndCycle
  /\ UNCHANGED <<starts, stores, history>>

\* An OSError ends the cycle in _loop, before or after the truncation.
SaveFails ==
  /\ pc \in {"truncate", "fill"}
  /\ EndCycle
  /\ UNCHANGED <<starts, baseline, stores, history>>

-----------------------------------------------------------------------------
(* The drift and the debounce.                                             *)

Compare(old, new) ==
  [added   |-> [n \in Names |-> IF old[n] = Absent THEN new[n] ELSE Absent],
   removed |-> [n \in Names |-> IF new[n] = Absent THEN old[n] ELSE Absent]]

\* Mutant: the window ends one tick early.
EndsEarly(id) == Age(cache, id) + 1 < Window

IsDebounced(id) == Age(cache, id) < Window

AlertId(d) == [salt |-> starts, drift |-> d]

Compared == pc = "load" /\ baseline # None
Drift    == Compare(baseline, picture)

Quiet ==
  /\ Compared /\ ~Messages(Drift)
  /\ EndCycle
  /\ UNCHANGED <<starts, baseline, stores, history>>

\* Mutant: the alert is marked, and the mark saved, before the debounce is asked.
SuppressedSliding ==
  /\ Compared /\ Messages(Drift) /\ IsDebounced(AlertId(Drift))
  /\ cache' = Stamp(cache, AlertId(Drift)) /\ disk' = cache'
  /\ EndCycle
  /\ UNCHANGED <<starts, baseline, text, history>>

Suppressed ==
  /\ Compared /\ Messages(Drift) /\ IsDebounced(AlertId(Drift))
  /\ EndCycle
  /\ UNCHANGED <<starts, baseline, stores, history>>

\* Mutant: what was found becomes the baseline when it is reported.
RaiseAndAccept ==
  /\ Compared /\ Messages(Drift) /\ ~IsDebounced(AlertId(Drift))
  /\ Goto("mark") /\ alert' = AlertId(Drift) /\ picture' = None
  /\ baseline' = picture
  /\ UNCHANGED <<starts, stores, history>>

Raise ==
  /\ Compared /\ Messages(Drift) /\ ~IsDebounced(AlertId(Drift))
  /\ Goto("mark") /\ alert' = AlertId(Drift) /\ picture' = None
  /\ UNCHANGED <<starts, baseline, stores, history>>

-----------------------------------------------------------------------------
(* dispatch: mark, save, then send.                                        *)

Mark ==
  /\ pc = "mark"
  /\ Goto("dump") /\ cache' = Stamp(cache, alert)
  /\ raised' = Stamp(raised, alert) /\ forgotten' = forgotten \ {alert}
  /\ UNCHANGED <<starts, picture, baseline, disk, text, alert, spoiled>>

\* Mutant: the mark stays in memory.
DumpNothing ==
  /\ pc = "dump"
  /\ Goto("send")
  /\ UNCHANGED <<starts, picture, baseline, stores, alert, history>>

\* write_text: the text is made, the file is truncated ...
Dump ==
  /\ pc = "dump"
  /\ Goto("write") /\ text' = cache /\ disk' = NoStamps
  /\ UNCHANGED <<starts, picture, baseline, cache, alert, history>>

\* ... and filled.
Write ==
  /\ pc = "write"
  /\ Goto("send") /\ disk' = text /\ text' = NoStamps
  /\ UNCHANGED <<starts, picture, baseline, cache, alert, history>>

\* A write that fails, before or after the truncation, is passed over ...
WriteFails ==
  /\ pc \in Saving
  /\ Goto("send") /\ text' = NoStamps /\ spoiled' = TRUE
  /\ UNCHANGED <<starts, picture, baseline, cache, disk, alert, raised, forgotten>>

\* ... but the mkdir before it is not: the alert is marked and never sent.
MkdirFails ==
  /\ pc = "dump"
  /\ EndCycle /\ spoiled' = TRUE
  /\ UNCHANGED <<starts, baseline, stores, raised, forgotten>>

\* The desktop notification and the webhook, whose failures change nothing.
Send ==
  /\ pc = "send"
  /\ EndCycle
  /\ UNCHANGED <<starts, baseline, stores, history>>

Wake ==
  /\ pc = "sleep"
  /\ Goto("scan")
  /\ UNCHANGED <<starts, picture, baseline, stores, alert, history>>

-----------------------------------------------------------------------------
(* The environment: SIGHUP, the end of the process, time.                  *)

\* The handler runs between any two steps and reads the file as it is.
Hup ==
  /\ pc # "off"
  /\ cache' = disk
  /\ forgotten' = forgotten \cup
       {i \in DOMAIN raised : Age(disk, i) > Age(cache, i)}
  /\ spoiled' = (spoiled \/ pc \in Saving)
  /\ UNCHANGED <<pc, starts, picture, baseline, disk, text, alert, raised>>

\* Stopped or killed: the memory is gone, a file being written stays torn.
End ==
  /\ pc # "off"
  /\ Goto("off") /\ picture' = None /\ alert' = None
  /\ cache' = NoStamps /\ text' = NoStamps
  /\ raised' = NoStamps /\ forgotten' = {}
  /\ UNCHANGED <<starts, baseline, disk, spoiled>>

Tick ==
  /\ cache' = Older(cache) /\ disk' = Older(disk) /\ text' = Older(text)
  /\ raised' = Older(raised)
  /\ UNCHANGED <<pc, starts, picture, baseline, alert, forgotten, spoiled>>

-----------------------------------------------------------------------------
Cycle == \/ Scan \/ Load \/ SaveOpen \/ SaveFill \/ SaveFails
         \/ Quiet \/ Suppressed \/ Raise
         \/ Mark \/ Dump \/ Write \/ WriteFails \/ MkdirFails \/ Send \/ Wake
Next  == Start \/ Cycle \/ Hup \/ End \/ Tick

Spec == Init /\ [][Next]_vars

\* The loop goes on and time passes; the directory of the cache is not
\* refused at every single attempt.
FairSpec == Spec /\ WF_vars(Cycle) /\ WF_vars(Tick) /\ SF_vars(Dump \/ WriteFails)

-----------------------------------------------------------------------------
(* Properties.                                                             *)

\* One process raises an alert again within the window only when a SIGHUP
\* made it forget that it had ("do not fire repetitive desktop or webhook
\* notifications within the 24-hour debounce window").
RepeatsOnlyForgotten ==
  [][Mark => alert \notin DOMAIN raised \/ alert \in forgotten]_vars

\* A reload forgets nothing as long as every save of this process went well
\* and no SIGHUP came while one was under way: memory and file agree.
ForgetsOnlyUnsaved == forgotten # {} => spoiled

\* A baseline that can be read is what drift is measured against for good:
\* no cycle replaces it, whatever it finds and whatever fails or restarts.
BaselineKept == [][baseline # None => baseline' = baseline]_vars

Rogue(n) == baseline[n] = Absent /\ picture[n] # Absent

\* A server that every scan finds and the baseline lacks is alerted again
\* and again, once its window is over, however the others come and go.
RogueAlerted ==
  \A n \in Names :
    <>[](/\ pc # "off" /\ baseline # None
         /\ (pc = "load" => Rogue(n)))
      => []<><<Send /\ Added(alert.drift, n)>>_vars

=============================================================================
