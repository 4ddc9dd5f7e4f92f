------------------------------- MODULE Bridge -------------------------------
(***************************************************************************)
(* BridgeDaemon (daemon/bridge.py): an asyncio server on the loopback      *)
(* address.  Every connection has a handler task; a WebSocket has a reader *)
(* task as well.  Between two awaits a task runs alone.                    *)
(***************************************************************************)
EXTENDS Naturals

CONSTANTS
  Clients,
  Progress,   \* number of events of a simulated scan
  MaxLives    \* bound: starts of the daemon

BridgeAssumption == Progress \in Nat /\ MaxLives \in Nat

VARIABLES
  daemon,   \* "down", "serving", or "stopping": in daemon.stop
  life,     \* starts so far
  waits,    \* wait_closed waits for the connections, as it does from Python 3.12 on
  peer,     \* for each client: "away", "there" or "gone"
  task,     \* its handler: "none", "request", "sse", "ws", "joining" or "closed"
  reader,   \* its ws_reader: "none", "running" or "done"
  sent      \* events written to it

vars == <<daemon, life, waits, peer, task, reader, sent>>

TypeOK ==
  /\ daemon \in {"down", "serving", "stopping"} /\ life \in 0..MaxLives /\ waits \in BOOLEAN
  /\ peer \in [Clients -> {"away", "there", "gone"}]
  /\ task \in [Clients -> {"none", "request", "sse", "ws", "joining", "closed"}]
  /\ reader \in [Clients -> {"none", "running", "done"}]
  /\ sent \in [Clients -> 0..Progress]

Init ==
  /\ daemon = "down" /\ life = 0 /\ waits = FALSE
  /\ peer = [c \in Clients |-> "away"] /\ task = [c \in Clients |-> "none"]
  /\ reader = [c \in Clients |-> "none"] /\ sent = [c \in Clients |-> 0]

Handled(c) == task[c] \in {"request", "sse", "ws", "joining"}

-----------------------------------------------------------------------------
\* __init__ and start
Start ==
  /\ daemon = "down" /\ life < MaxLives
  /\ daemon' = "serving" /\ life' = life + 1 /\ waits' \in BOOLEAN
  /\ UNCHANGED <<peer, task, reader, sent>>

Connect(c) ==
  /\ daemon = "serving" /\ peer[c] # "there" /\ ~Handled(c) /\ reader[c] # "running"
  /\ peer' = [peer EXCEPT ![c] = "there"] /\ task' = [task EXCEPT ![c] = "request"]
  /\ reader' = [reader EXCEPT ![c] = "none"] /\ sent' = [sent EXCEPT ![c] = 0]
  /\ UNCHANGED <<daemon, life, waits>>

Leave(c) ==
  /\ peer[c] = "there" /\ peer' = [peer EXCEPT ![c] = "gone"]
  /\ UNCHANGED <<daemon, life, waits, task, reader, sent>>

\* The `finally` of handle_client.
Finish(c) == task' = [task EXCEPT ![c] = "closed"]

\* One answer and the end.  None of them changes the daemon: a refused origin,
\* OPTIONS, a POST with the token or without it (/api/v1/fix answers "ok" and
\* fixes nothing), health, scan, drift, the token itself, an unknown path, a
\* WebSocket without a key; or nothing, when the peer left before the request.
Reply(c) ==
  /\ task[c] = "request" /\ Finish(c)
  /\ UNCHANGED <<daemon, life, waits, peer, reader, sent>>

\* GET /api/v1/events; without --simulate the stream ends after its headers.
Events(c) ==
  /\ task[c] = "request" /\ peer[c] = "there"
  /\ task' \in {[task EXCEPT ![c] = s] : s \in {"sse", "closed"}}
  /\ UNCHANGED <<daemon, life, waits, peer, reader, sent>>

\* GET /ws/live: the reader task starts; without --simulate it is joined at once.
Live(c) ==
  /\ task[c] = "request" /\ peer[c] = "there"
  /\ task' \in {[task EXCEPT ![c] = s] : s \in {"ws", "joining"}}
  /\ reader' = [reader EXCEPT ![c] = "running"]
  /\ UNCHANGED <<daemon, life, waits, peer, sent>>

Push(c) ==
  /\ task[c] \in {"sse", "ws"} /\ sent[c] < Progress
  /\ sent' = [sent EXCEPT ![c] = @ + 1]
  /\ UNCHANGED <<daemon, life, waits, peer, task, reader>>

\* drain raises: both streams give up, the WebSocket without its reader.
PushFails(c) ==
  /\ task[c] \in {"sse", "ws"} /\ peer[c] = "gone" /\ Finish(c)
  /\ UNCHANGED <<daemon, life, waits, peer, reader, sent>>

\* After the last event: SSE is closed, a close frame sent and the reader awaited.
Sent(c) ==
  /\ task[c] \in {"sse", "ws"} /\ sent[c] = Progress
  /\ task' = [task EXCEPT ![c] = IF @ = "sse" THEN "closed" ELSE "joining"]
  /\ UNCHANGED <<daemon, life, waits, peer, reader, sent>>

\* ws_reader: the peer's close frame or its end, or the connection was closed.
ReaderEnds(c) ==
  /\ reader[c] = "running" /\ (peer[c] = "gone" \/ task[c] = "closed")
  /\ reader' = [reader EXCEPT ![c] = "done"]
  /\ UNCHANGED <<daemon, life, waits, peer, task, sent>>

Join(c) ==
  /\ task[c] = "joining" /\ reader[c] = "done" /\ Finish(c)
  /\ UNCHANGED <<daemon, life, waits, peer, reader, sent>>

\* Ctrl-C: `run` catches the cancellation and awaits daemon.stop.
Interrupt ==
  /\ daemon = "serving" /\ daemon' = "stopping"
  /\ UNCHANGED <<life, waits, peer, task, reader, sent>>

\* stop returns, and asyncio.run cancels the tasks that are left.
Stopped ==
  /\ daemon = "stopping" /\ (waits => \A c \in Clients : ~Handled(c))
  /\ daemon' = "down"
  /\ task' = [c \in Clients |-> IF Handled(c) THEN "closed" ELSE task[c]]
  /\ reader' = [c \in Clients |-> IF reader[c] = "running" THEN "done" ELSE reader[c]]
  /\ sent' = [c \in Clients |-> 0]
  /\ UNCHANGED <<life, waits, peer>>

-----------------------------------------------------------------------------
Stream(c) == Push(c) \/ PushFails(c) \/ Sent(c) \/ ReaderEnds(c) \/ Join(c)

Loop(c) == Stream(c) \/ (peer[c] = "gone" /\ Reply(c))

Next == \/ Start \/ Interrupt \/ Stopped
        \/ \E c \in Clients : Connect(c) \/ Leave(c) \/ Reply(c) \/ Events(c) \/ Live(c) \/ Stream(c)

\* The event loop runs what is ready; a peer that is there may never ask.
Spec == Init /\ [][Next]_vars /\ WF_vars(Stopped) /\ \A c \in Clients : WF_vars(Loop(c))

-----------------------------------------------------------------------------
\* A handler that came to its end by itself left no reader task running, and a
\* peer that stayed got every event of a stream it was sent one of.
NothingOrphaned ==
  \A c \in Clients :
    task[c] = "closed" /\ peer[c] = "there" =>
      /\ reader[c] # "running"
      /\ (sent[c] > 0 => sent[c] = Progress)

\* A daemon told to stop stops, unless it waits for a client that stays.
StopEnds ==
  (daemon = "stopping") ~> (daemon = "down" \/ (waits /\ \E c \in Clients : peer[c] = "there"))

\* The tasks of a client that went away end.
HandlersEnd ==
  \A c \in Clients : (peer[c] = "gone") ~> (~Handled(c) /\ reader[c] # "running")

=============================================================================
