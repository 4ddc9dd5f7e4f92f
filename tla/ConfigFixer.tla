---------------------------- MODULE ConfigFixer ----------------------------
(***************************************************************************)
(* ClientConfigFixer.fix_config (audit/fixer.py) on the configuration file *)
(* of an MCP client that the user and the client edit meanwhile: read,     *)
(* patch, copy to a backup named after the second, replace.                *)
(*                                                                         *)
(* A content of the file is the number of the write that made it.          *)
(***************************************************************************)
EXTENDS Naturals

CONSTANTS MaxWrites, MaxNow      \* bounds: contents, seconds

ConfigFixerAssumption == MaxWrites \in Nat \ {0} /\ MaxNow \in Nat

VARIABLES
  writes, now,
  config,        \* the content of the file
  backups,       \* the content of the backup of each second, 0 if none
  pc, patched,   \* stage of fix_config, the content it will write
  at,            \* the second of its backup
  replaced,      \* history: contents that fix_config has replaced
  excused        \* history: those written behind its copy, or copied over

vars == <<writes, now, config, backups, pc, patched, at, replaced, excused>>

Contents == 1..MaxWrites

TypeOK ==
  /\ writes \in Contents /\ now \in 0..MaxNow /\ config \in 1..writes
  /\ backups \in [0..MaxNow -> 0..writes]
  /\ pc \in {"idle", "patched", "copied"} /\ patched \in 0..writes /\ at \in 0..now
  /\ replaced \subseteq 1..writes /\ excused \subseteq 1..writes

Init ==
  /\ writes = 1 /\ now = 0 /\ config = 1 /\ backups = [t \in 0..MaxNow |-> 0]
  /\ pc = "idle" /\ patched = 0 /\ at = 0 /\ replaced = {} /\ excused = {}

Tick ==
  /\ now < MaxNow /\ now' = now + 1
  /\ UNCHANGED <<writes, config, backups, pc, patched, at, replaced, excused>>

\* The user or the client writes the file.
Edit ==
  /\ writes < MaxWrites /\ writes' = writes + 1 /\ config' = writes + 1
  /\ excused' = IF pc = "copied" THEN excused \cup {config'} ELSE excused
  /\ UNCHANGED <<now, backups, pc, patched, at, replaced>>

\* Findings with a safe version, or a malicious package: the text changes.
Patch ==
  /\ pc = "idle" /\ pc' = "patched"
  /\ writes < MaxWrites /\ writes' = writes + 1 /\ patched' = writes + 1
  /\ UNCHANGED <<now, config, backups, at, replaced, excused>>

Copy ==
  /\ pc = "patched" /\ pc' = "copied"
  /\ at' = now /\ backups' = [backups EXCEPT ![now] = config]
  /\ excused' = excused \cup ({backups[now]} \ {0, config})
  /\ UNCHANGED <<writes, now, config, patched, replaced>>

\* Write to a temporary file, then os.replace.
Replace ==
  /\ pc = "copied" /\ pc' = "idle"
  /\ config' = patched /\ replaced' = replaced \cup {config} /\ patched' = 0 /\ at' = 0
  /\ UNCHANGED <<writes, now, backups, excused>>

\* The write fails: the backup is copied back, and the program exits.
Restore ==
  /\ pc = "copied" /\ pc' = "idle"
  /\ config' = backups[at] /\ replaced' = replaced \cup ({config} \ {config'})
  /\ patched' = 0 /\ at' = 0
  /\ UNCHANGED <<writes, now, backups, excused>>

Die ==
  /\ pc # "idle" /\ pc' = "idle" /\ patched' = 0 /\ at' = 0
  /\ UNCHANGED <<writes, now, config, backups, replaced, excused>>

Next == Tick \/ Edit \/ Patch \/ Copy \/ Replace \/ Restore \/ Die
Spec == Init /\ [][Next]_vars

-----------------------------------------------------------------------------

\* What fix_config replaces stays in a backup, unless it was written between
\* the copy and the replacement, or a fix of the same second copied over it.
ReplacedIsBackedUp ==
  \A c \in replaced : c \in excused \/ \E t \in 0..MaxNow : backups[t] = c

=============================================================================
