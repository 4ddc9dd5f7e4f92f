---------------------------- MODULE ProbeSession ----------------------------
(***************************************************************************)
(* One probe of a server: SandboxProber.execute_probe, the client's        *)
(* connect_and_discover (probe/client.py) and the transport under it       *)
(* (probe/transport.py), a child process or an SSE stream.                 *)
(*                                                                         *)
(* A message is its kind and the id it carries; `wire` is what the client  *)
(* has not read: the pipe of the child, or the queue the SSE reader thread *)
(* fills.  Lines that are not JSON are skipped by both readers and left    *)
(* out.  A `helper` is a descendant of the child that holds its pipes: the *)
(* server behind `sh -c`, `npx` or `docker run`.                           *)
(***************************************************************************)
EXTENDS Naturals, Sequences, FiniteSets

CONSTANTS
  Listings,    \* the surfaces queried after the handshake, tools first
  MaxStrays    \* bound: messages nobody asked for

ProbeSessionAssumption == Listings = <<"tools", "prompts", "resources">> /\ MaxStrays \in Nat

Requests == <<"initialize">> \o Listings
Surfaces == {Listings[k] : k \in DOMAIN Listings}
Unread   == 0

VARIABLES
  kind,      \* "none" before the start, then "stdio" or "sse"
  pc,        \* the client's thread
  asking,    \* place in Requests of the request it is at
  messageId, \* the next id
  caps,      \* the surfaces the server says it has
  surface,   \* for each surface the id of the answer it was taken from
  stopped,   \* the transport: no process, or the stop event set
  wire,      \* messages the client has not read
  owed,      \* <<request, id>> the server has not answered
  up,        \* the server, or its SSE stream, is there
  helper,    \* a descendant of the server holds its pipes
  dangerous, \* a tool of the server would be reported
  strays,    \* messages sent that answer nothing
  refused,   \* error answers sent
  outcome    \* of connect_and_discover

vars == <<kind, pc, asking, messageId, caps, surface, stopped, wire, owed, up, helper, dangerous, strays, refused,
          outcome>>

server == <<owed, up, helper, dangerous, strays, refused>>

Messages == [type : {"answer", "error", "notice"}, id : 0..5]

TypeOK ==
  /\ kind \in {"none", "stdio", "sse"}
  /\ pc \in {"idle", "opening", "send", "wait", "notify", "stopping", "closing", "ended"}
  /\ asking \in DOMAIN Requests /\ messageId \in 1..5
  /\ caps \subseteq Surfaces /\ surface \in [Surfaces -> 0..4]
  /\ stopped \in BOOLEAN /\ up \in BOOLEAN /\ helper \in BOOLEAN /\ dangerous \in BOOLEAN
  /\ wire \in Seq(Messages) /\ owed \in Seq([what : DOMAIN Requests, id : 1..4])
  /\ strays \in 0..MaxStrays /\ refused \in 0..4
  /\ outcome \in {"none", "ok", "failed"}

Init ==
  /\ kind = "none" /\ pc = "idle" /\ asking = 1 /\ messageId = 1
  /\ caps = {} /\ surface = [s \in Surfaces |-> Unread] /\ stopped = FALSE
  /\ wire = <<>> /\ owed = <<>> /\ up = FALSE /\ helper = FALSE /\ dangerous = FALSE
  /\ strays = 0 /\ refused = 0 /\ outcome = "none"

-----------------------------------------------------------------------------
(* The client's thread                                                     *)

\* StdioTransport.start: Popen.  It may fail, and then there is nothing to stop.
StartStdio ==
  /\ pc = "idle" /\ kind' = "stdio"
  /\ dangerous' \in BOOLEAN
  /\ \/ /\ pc' = "send" /\ up' = TRUE /\ helper' \in BOOLEAN /\ UNCHANGED outcome
     \/ /\ pc' = "ended" /\ outcome' = "failed" /\ UNCHANGED <<up, helper>>
  /\ UNCHANGED <<asking, messageId, caps, surface, stopped, wire, owed, strays, refused>>

\* HttpSseTransport.start up to its wait for the endpoint event.
StartSse ==
  /\ pc = "idle" /\ kind' = "sse"
  /\ dangerous' \in BOOLEAN
  /\ \/ /\ pc' = "opening" /\ up' = TRUE /\ UNCHANGED outcome
     \/ /\ pc' = "ended" /\ outcome' = "failed" /\ UNCHANGED up
  /\ UNCHANGED <<asking, messageId, caps, surface, stopped, wire, owed, helper, strays, refused>>

\* The endpoint arrived, or the wait timed out.
Opened ==
  /\ pc = "opening"
  /\ \/ /\ up /\ ~stopped /\ pc' = "send" /\ UNCHANGED <<stopped, outcome>>
     \/ /\ pc' = "ended" /\ stopped' = TRUE /\ outcome' = "failed"
  /\ UNCHANGED <<kind, asking, messageId, caps, surface, wire, server>>

\* An exception on the way to the `finally`.
Raise == pc' = "stopping" /\ outcome' = "failed"

\* The write fails on a broken pipe; the POST may fail at any time.
CanSend  == IF kind = "stdio" THEN up \/ helper ELSE up
MayFail  == kind = "sse" \/ ~up

Send ==
  /\ pc = "send" /\ messageId' = messageId + 1
  /\ \/ /\ CanSend /\ pc' = "wait" /\ UNCHANGED outcome
        /\ owed' = IF up THEN Append(owed, [what |-> asking, id |-> messageId]) ELSE owed
     \/ MayFail /\ Raise /\ UNCHANGED owed
  /\ UNCHANGED <<kind, asking, caps, surface, stopped, wire, up, helper, dangerous, strays, refused>>

\* Tools are asked for also when the server names no capability at all.
Asked(k, offered) == Requests[k] \in offered \/ (Requests[k] = "tools" /\ offered = {})

\* On to the next surface, or to the `finally` when there is none.
Proceed(k, offered) ==
  LET rest == {j \in DOMAIN Requests : j > k /\ Asked(j, offered)}
  IN  \/ /\ rest = {} /\ pc' = "stopping" /\ outcome' = "ok" /\ UNCHANGED asking
      \/ \E j \in rest : (\A i \in rest : j <= i) /\ asking' = j /\ pc' = "send" /\ UNCHANGED outcome

\* notifications/initialized
Notify ==
  /\ pc = "notify"
  /\ \/ CanSend /\ Proceed(1, caps)
     \/ MayFail /\ Raise /\ UNCHANGED asking
  /\ UNCHANGED <<kind, messageId, caps, surface, stopped, wire, server>>

\* Mutant: any answer is taken for the one that was asked for.
TakeAny(m) ==
  /\ IF m.type = "answer" THEN surface' = [surface EXCEPT ![Requests[asking]] = m.id] ELSE UNCHANGED surface
  /\ Proceed(asking, caps)
  /\ UNCHANGED caps

\* A message is read once for each listing: if it is not the answer the surface
\* stays empty, and the answer, when it comes, is read in place of the next.
TakeListing(m) ==
  /\ IF m.type = "answer" /\ m.id = messageId - 1 THEN surface' = [surface EXCEPT ![Requests[asking]] = m.id]
                                                  ELSE UNCHANGED surface
  /\ Proceed(asking, caps)
  /\ UNCHANGED caps

\* The handshake insists on its answer.
TakeInitialize(m) ==
  \/ /\ m.type = "answer" /\ m.id = messageId - 1
     /\ caps' \in SUBSET Surfaces /\ pc' = "notify"
     /\ UNCHANGED <<asking, surface, outcome>>
  \/ /\ m.type # "answer" \/ m.id # messageId - 1
     /\ Raise /\ UNCHANGED <<asking, surface, caps>>

Take(m) == (asking = 1 /\ TakeInitialize(m)) \/ (asking # 1 /\ TakeListing(m))

\* receive with a message there.  The SSE client looks at the stop event first.
Read ==
  /\ pc = "wait" /\ wire # <<>> /\ (kind = "sse" => ~stopped)
  /\ wire' = Tail(wire)
  /\ Take(Head(wire))
  /\ UNCHANGED <<kind, messageId, stopped, server>>

\* receive finds the pipe at its end, or the stream closed.
EndOfInput ==
  /\ pc = "wait"
  /\ IF kind = "stdio" THEN wire = <<>> /\ ~up /\ ~helper ELSE stopped
  /\ Raise
  /\ UNCHANGED <<kind, asking, messageId, caps, surface, stopped, wire, server>>

\* Mutant: receive waits for as long as it takes.
WaitForEver ==
  /\ FALSE
  /\ UNCHANGED vars

\* receive gives up.  StdioTransport calls stop() on the spot, which leaves
\* nothing to stop in the `finally`.
TimeOut ==
  /\ pc = "wait" /\ wire = <<>> /\ ~stopped
  /\ outcome' = "failed"
  /\ \/ /\ kind = "stdio" /\ pc' = "closing" /\ stopped' = TRUE /\ up' = FALSE
     \/ /\ kind = "sse" /\ pc' = "stopping" /\ UNCHANGED <<stopped, up>>
  /\ UNCHANGED <<kind, asking, messageId, caps, surface, wire, owed, helper, dangerous, strays, refused>>

\* transport.stop in the `finally`: the child is terminated, and killed after
\* two seconds.
Stop ==
  /\ pc = "stopping"
  /\ stopped' = TRUE
  /\ \/ kind = "stdio" /\ pc' = "closing" /\ up' = FALSE
     \/ kind = "sse" /\ pc' = "ended" /\ UNCHANGED up
  /\ UNCHANGED <<kind, asking, messageId, caps, surface, wire, owed, helper, dangerous, strays, refused, outcome>>

\* Closing the pipes waits for the threads that read them, and these wait for
\* the last process that holds the other end.
Close ==
  /\ pc = "closing" /\ ~helper /\ pc' = "ended"
  /\ UNCHANGED <<kind, asking, messageId, caps, surface, stopped, wire, outcome, server>>

-----------------------------------------------------------------------------
(* The server, and the thread that reads its stream                        *)

Reply(type) ==
  /\ up /\ owed # <<>> /\ owed' = Tail(owed)
  /\ wire' = Append(wire, [type |-> type, id |-> Head(owed).id])

Answer ==
  /\ Reply("answer")
  /\ UNCHANGED <<kind, pc, asking, messageId, caps, surface, stopped, up, helper, dangerous, strays, refused, outcome>>

Refuse ==
  /\ Reply("error") /\ refused' = refused + 1
  /\ UNCHANGED <<kind, pc, asking, messageId, caps, surface, stopped, up, helper, dangerous, strays, outcome>>

\* A notification, a log message or a request of the server's own.
Stray ==
  /\ up /\ strays < MaxStrays /\ pc \in {"send", "wait", "notify"}
  /\ strays' = strays + 1
  /\ wire' = Append(wire, [type |-> "notice", id |-> 0])
  /\ UNCHANGED <<kind, pc, asking, messageId, caps, surface, stopped, owed, up, helper, dangerous, refused, outcome>>

\* The server exits, or the stream breaks.
Die ==
  /\ up /\ up' = FALSE /\ owed' = <<>>
  /\ UNCHANGED <<kind, pc, asking, messageId, caps, surface, stopped, wire, helper, dangerous, strays, refused, outcome>>

HelperExits ==
  /\ helper /\ helper' = FALSE
  /\ UNCHANGED <<kind, pc, asking, messageId, caps, surface, stopped, wire, owed, up, dangerous, strays, refused, outcome>>

\* read_sse comes to its end and calls stop itself.
ReaderEnds ==
  /\ kind = "sse" /\ ~up /\ ~stopped /\ pc \notin {"idle", "ended"}
  /\ stopped' = TRUE
  /\ UNCHANGED <<kind, pc, asking, messageId, caps, surface, wire, outcome, server>>

-----------------------------------------------------------------------------
Client == \/ StartStdio \/ StartSse \/ Opened \/ Send \/ Notify \/ Read \/ EndOfInput \/ TimeOut \/ Stop \/ Close

Server == Answer \/ Refuse \/ Stray \/ Die \/ HelperExits \/ ReaderEnds

Next == Client \/ Server

Spec == Init /\ [][Next]_vars /\ WF_vars(Client)

-----------------------------------------------------------------------------
\* execute_probe: the tools are judged only when connect_and_discover returned;
\* after an exception the level stays CLEAN.
Verdict == IF outcome = "ok" /\ surface["tools"] # Unread /\ dangerous THEN "suspicious" ELSE "clean"

\* A surface was taken from the answer to the very request that asked for it,
\* however late or out of step the answers are read.
OwnAnswers ==
  \A k \in DOMAIN Requests \ {1} :
    surface[Requests[k]] # Unread =>
      surface[Requests[k]] = 1 + Cardinality({j \in 2..k : Asked(j, caps)})

\* A probe that went well read every surface the server has, unless the server
\* sent an error or something nobody asked for; then the verdict is the one the
\* tools deserve.
LostOnlyToStrays ==
  outcome = "ok" /\ strays = 0 /\ refused = 0 =>
    /\ \A k \in DOMAIN Requests \ {1} : Asked(k, caps) => surface[Requests[k]] # Unread
    /\ (Asked(2, caps) => (Verdict = "suspicious") = dangerous)

\* However the probe ends, its transport is stopped and no child of it runs.
NothingLeft ==
  pc = "ended" => (kind = "stdio" => ~up) /\ (messageId > 1 => stopped)

\* Every probe ends, unless a descendant of the server keeps its pipes open.
ProbeEnds == (kind # "none") ~> (pc = "ended" \/ helper)

=============================================================================
