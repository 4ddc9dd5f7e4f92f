------------------------------- MODULE Proxy -------------------------------
(***************************************************************************)
(* `mcp-vuln proxy` (proxy/interceptor.py, proxy/policy.py): the stdio     *)
(* firewall between an MCP client and the server process it wraps.  Two    *)
(* threads share the dictionary pending_requests and the client's stdout:  *)
(* main reads the client's lines, server_reader the server's.              *)
(*                                                                         *)
(* A line is a record: its type, its id, the tools it names (the one a     *)
(* tools/call calls, those a tools/list result offers) and whether its     *)
(* arguments trip the payload guardrails.  "text" is a line json.loads     *)
(* rejects, "batch" a line whose JSON is not the object the handlers       *)
(* expect (msg.get raises).  The pipes keep order; the server answers in   *)
(* any order.                                                              *)
(***************************************************************************)
EXTENDS Naturals, Sequences

CONSTANTS
  ClientIds,     \* ids the client gives to its requests, each once
  ServerIds,     \* ids the server gives to its own requests, each once
  Tools, None,   \* tool names; no id
  Listings,      \* what the server may offer in answer to tools/list
  Blocked,       \* blocked_tools
  Allowed,       \* allowed_tools, the passport's
  Strict,        \* strict_passport
  Guardrails,    \* enable_payload_guardrails
  Mode,          \* "block" or "audit"
  Strip,         \* strip_shadow_tools
  PipeCap,       \* lines the server's stdout pipe holds
  Frames,        \* \subseteq {"text", "batch"}: odd lines that occur
  LogFaults,     \* the audit log may fail to open
  ServerFaults,  \* the server may exit on its own
  ClientFaults,  \* the client may close its end of stdout
  Stubborn,      \* the server may ignore SIGTERM
  Signals        \* \subseteq {"INT", "TERM"} sent to the proxy

ASSUME ProxyAssumption ==
  /\ None \notin ClientIds \cup ServerIds \cup {"tools/list", "tools/call"}
  /\ Blocked \subseteq Tools /\ Allowed \subseteq Tools /\ Listings \subseteq SUBSET Tools
  /\ Frames \subseteq {"text", "batch"}
  /\ Mode \in {"block", "audit"} /\ PipeCap \in Nat \ {0}
  /\ Strict \in BOOLEAN /\ Guardrails \in BOOLEAN /\ Strip \in BOOLEAN

VARIABLES
  pending,     \* pending_requests: id -> method, None if absent
  main,        \* where the main thread is
  held,        \* the line the main thread is about to write
  reader,      \* where the server_reader thread is
  inHand,      \* the line server_reader is about to write
  fromServer,  \* the server's stdout pipe
  atServer,    \* requests the server received and has not answered
  server,      \* "up", "term" (SIGTERM sent), "gone", "reaped"
  asked,       \* what the client asked under each id
  delivered,   \* the lines written to the client, in order
  spent,       \* ids and odd lines the server has used up
  log          \* audit events

vars == <<pending, main, held, reader, inHand, fromServer, atServer, server,
          asked, delivered, spent, log>>
mainVars   == <<main, held>>
readerVars == <<reader, inHand>>
serverVars == <<fromServer, atServer, server, spent>>

Ids     == ClientIds \cup ServerIds
Methods == {"tools/list", "tools/call"}
Types   == Methods \cup {"reply", "result", "error", "request", "text", "batch"}
Lines   == [type : Types, id : Ids \cup {None}, tools : SUBSET Tools, bad : BOOLEAN]
Line(y, i, ts, b) == [type |-> y, id |-> i, tools |-> ts, bad |-> b]
Nothing == Line("text", None, {}, FALSE)
Events  == [event : {"POLICY_VIOLATION", "SHADOW_TOOL_DETECTED"},
            id : Ids \cup {None}, tools : SUBSET Tools,
            action : {"Blocked", "Logged", "Stripped"}]

Init ==
  /\ pending = [i \in Ids |-> None]
  /\ main = "read" /\ held = Nothing
  /\ reader = "read" /\ inHand = Nothing
  /\ fromServer = <<>> /\ atServer = {} /\ server = "up"
  /\ asked = [i \in ClientIds |-> None]
  /\ delivered = <<>> /\ spent = {} /\ log = {}

----------------------------------------------------------------------------
(* The policy.                                                             *)

Shadow(t) == Strict /\ Allowed # {} /\ t \notin Allowed

\* evaluate_request: only a tools/call can be refused.
Refused(m) ==
  /\ m.type = "tools/call"
  /\ \E t \in m.tools : \/ t \in Blocked
                        \/ Shadow(t)
                        \/ Guardrails /\ m.bad

----------------------------------------------------------------------------
(* The main thread: one line of the client at a time.                      *)

\* A mutant of Registered: replies, which have an id and no method, too.
RegisteredAny(m) ==
  IF m.id # None THEN [pending EXCEPT ![m.id] = m.type] ELSE pending

\* lines 36-40: a message with an id and a method is remembered
Registered(m) ==
  IF m.id # None /\ m.type \in Methods
  THEN [pending EXCEPT ![m.id] = m.type] ELSE pending

\* What a protocol-abiding client may send now.
MaySend(m) ==
  /\ m.type \in Methods => m.id \notin {i \in ClientIds : asked[i] # None}
  /\ m.type = "reply" =>
       \E k \in DOMAIN delivered : delivered[k].type = "request" /\ delivered[k].id = m.id

ClientLines ==
  { m \in Lines :
      \/ m.type = "tools/list" /\ m.id \in ClientIds /\ m.tools = {} /\ ~m.bad
      \/ m.type = "tools/call" /\ m.id \in ClientIds \cup {None}
           /\ \E t \in Tools : m.tools = {t}
      \/ m.type = "reply" /\ m.id \in ServerIds /\ m.tools = {} /\ ~m.bad }

\* process_client_line, a line the policy lets pass or only logs
Accept(m) ==
  /\ main = "read" /\ MaySend(m)
  /\ ~Refused(m) \/ Mode = "audit"
  /\ pending' = Registered(m)
  /\ asked' = IF m.type \in Methods /\ m.id # None
              THEN [asked EXCEPT ![m.id] = m.type] ELSE asked
  /\ log' = IF Refused(m)
            THEN log \cup {[event |-> "POLICY_VIOLATION", id |-> m.id,
                            tools |-> m.tools, action |-> "Logged"]}
            ELSE log
  /\ main' = "toServer" /\ held' = m
  /\ UNCHANGED <<readerVars, serverVars, delivered>>

\* A mutant of Refuse: the refused call is forwarded as well.
RefuseAndForward(m) ==
  /\ main = "read" /\ MaySend(m)
  /\ Refused(m) /\ Mode = "block"
  /\ pending' = Registered(m)
  /\ asked' = IF m.id # None THEN [asked EXCEPT ![m.id] = m.type] ELSE asked
  /\ log' = log \cup {[event |-> "POLICY_VIOLATION", id |-> m.id,
                       tools |-> m.tools, action |-> "Blocked"]}
  /\ main' = IF m.id # None THEN "toClient" ELSE "read"
  /\ held' = IF m.id # None THEN Line("error", m.id, {}, FALSE) ELSE Nothing
  /\ atServer' = IF m.id # None /\ server = "up" THEN atServer \cup {m} ELSE atServer
  /\ UNCHANGED <<readerVars, fromServer, server, spent, delivered>>

\* process_client_line, a line the policy refuses: the entry made for it
\* stays; a request gets an error, a notification is dropped.
Refuse(m) ==
  /\ main = "read" /\ MaySend(m)
  /\ Refused(m) /\ Mode = "block"
  /\ pending' = Registered(m)
  /\ asked' = IF m.id # None THEN [asked EXCEPT ![m.id] = m.type] ELSE asked
  /\ log' = log \cup {[event |-> "POLICY_VIOLATION", id |-> m.id,
                       tools |-> m.tools, action |-> "Blocked"]}
  /\ main' = IF m.id # None THEN "toClient" ELSE "read"
  /\ held' = IF m.id # None THEN Line("error", m.id, {}, FALSE) ELSE Nothing
  /\ UNCHANGED <<readerVars, serverVars, delivered>>

\* log_audit_event cannot open its file: the exception leaves the loop, and
\* the finally clause tears the session down.
RefuseLogFails(m) ==
  /\ LogFaults /\ main = "read" /\ MaySend(m) /\ Refused(m)
  /\ pending' = Registered(m)
  /\ asked' = IF m.id # None THEN [asked EXCEPT ![m.id] = m.type] ELSE asked
  /\ main' = "close"
  /\ UNCHANGED <<held, readerVars, serverVars, delivered, log>>

\* An odd line: text passes unchanged, a batch raises out of the loop.
OddLine(f) ==
  /\ main = "read"
  /\ main' = IF f = "text" THEN "toServer" ELSE "close"
  /\ held' = Line(f, None, {}, FALSE)
  /\ UNCHANGED <<pending, readerVars, serverVars, asked, delivered, log>>

\* lines 127-132: write to the server, or find its pipe broken
WriteServer ==
  /\ main = "toServer"
  /\ IF server = "up"
     THEN /\ main' = "read"
          /\ atServer' = IF held.type \in Methods /\ held.id # None
                         THEN atServer \cup {held} ELSE atServer
     ELSE main' = "drain" /\ UNCHANGED atServer
  /\ held' = Nothing
  /\ UNCHANGED <<pending, readerVars, fromServer, server, spent, asked,
                 delivered, log>>

\* lines 133-138
WriteError ==
  /\ main = "toClient"
  /\ delivered' = Append(delivered, held)
  /\ main' = "read" /\ held' = Nothing
  /\ UNCHANGED <<pending, readerVars, serverVars, asked, log>>

\* BrokenPipeError on the client's stdout ends the loop
WriteErrorFails ==
  /\ ClientFaults /\ main = "toClient"
  /\ main' = "drain" /\ held' = Nothing
  /\ UNCHANGED <<pending, readerVars, serverVars, asked, delivered, log>>

EndOfInput ==
  /\ main = "read" /\ main' = "drain"
  /\ UNCHANGED <<pending, held, readerVars, serverVars, asked,
                 delivered, log>>

\* KeyboardInterrupt goes to the finally clause; SIGTERM has no handler, the
\* process ends where it is.
Signal(s) ==
  /\ main \in {"read", "toServer", "toClient", "drain"}
  /\ main' = IF s = "INT" THEN "close" ELSE "exited"
  /\ UNCHANGED <<pending, held, readerVars, serverVars, asked,
                 delivered, log>>

\* A mutant of DrainOver: return after the drain, no teardown.
DrainAndReturn ==
  /\ main = "drain" /\ main' = "exited"
  /\ UNCHANGED <<pending, held, readerVars, serverVars, asked,
                 delivered, log>>

\* A mutant of DrainOver: t.join() in place of the sleep.
DrainJoin ==
  /\ main = "drain" /\ reader = "dead" /\ main' = "close"
  /\ UNCHANGED <<pending, held, readerVars, serverVars, asked,
                 delivered, log>>

\* time.sleep(0.5)
DrainOver ==
  /\ main = "drain" /\ main' = "close"
  /\ UNCHANGED <<pending, held, readerVars, serverVars, asked,
                 delivered, log>>

Terminate ==
  /\ main = "close" /\ main' = "wait"
  /\ server' = IF server = "up" THEN "term" ELSE server
  /\ UNCHANGED <<pending, held, readerVars, fromServer, atServer, spent,
                 asked, delivered, log>>

Wait ==
  /\ main = "wait" /\ server = "gone"
  /\ main' = "exited" /\ server' = "reaped"
  /\ UNCHANGED <<pending, held, readerVars, fromServer, atServer, spent,
                 asked, delivered, log>>

\* wait(timeout=2) expired: kill, and nobody waits for the process again
Kill ==
  /\ main = "wait" /\ server = "term" /\ Stubborn
  /\ main' = "exited" /\ server' = "gone" /\ atServer' = {}
  /\ UNCHANGED <<pending, held, readerVars, fromServer, spent, asked, delivered, log>>

----------------------------------------------------------------------------
(* The server process.                                                     *)

Running == server \in {"up", "term"}

Emit(m) == Len(fromServer) < PipeCap /\ fromServer' = Append(fromServer, m)

ServerAnswer(q, ts) ==
  /\ Running /\ q \in atServer
  /\ Emit(Line("result", q.id, ts, FALSE))
  /\ atServer' = atServer \ {q}
  /\ UNCHANGED <<pending, mainVars, readerVars, server, spent, asked,
                 delivered, log>>

ServerRequest(i) ==
  /\ Running /\ i \notin spent
  /\ Emit(Line("request", i, {}, FALSE))
  /\ spent' = spent \cup {i}
  /\ UNCHANGED <<pending, mainVars, readerVars, atServer, server, asked, delivered, log>>

ServerOddLine(f) ==
  /\ Running /\ f \notin spent
  /\ Emit(Line(f, None, {}, FALSE))
  /\ spent' = spent \cup {f}
  /\ UNCHANGED <<pending, mainVars, readerVars, atServer, server, asked, delivered, log>>

ServerExit ==
  /\ \/ server = "up" /\ ServerFaults
     \/ server = "term"
  /\ server' = "gone" /\ atServer' = {}
  /\ UNCHANGED <<pending, mainVars, readerVars, fromServer, spent, asked, delivered, log>>

----------------------------------------------------------------------------
(* The server_reader thread.                                               *)

\* A mutant of Popped: the entry is read, never removed.
PoppedNot(m) == pending

\* lines 69-73: any message with an id takes the entry away
Popped(m) == IF m.id # None THEN [pending EXCEPT ![m.id] = None] ELSE pending

ListResult(m) == m.type = "result" /\ pending[m.id] = "tools/list"

\* A mutant of ForClient: the filtered copy is dropped.
ForClientUnfiltered(m) == m

\* inspect_response and lines 79-84
ForClient(m) ==
  IF ListResult(m) /\ Strip
  THEN [m EXCEPT !.tools = {t \in m.tools : ~Shadow(t)}] ELSE m

ShadowEvents(m) ==
  IF ListResult(m) /\ \E t \in m.tools : Shadow(t)
  THEN {[event |-> "SHADOW_TOOL_DETECTED", id |-> m.id,
         tools |-> {t \in m.tools : Shadow(t)}, action |-> "Stripped"]}
  ELSE {}

\* A mutant of ReadServer: text json.loads rejects ends the thread as well.
ReadServerStrict ==
  /\ reader = "read" /\ fromServer # <<>> /\ main # "exited"
  /\ fromServer' = Tail(fromServer)
  /\ LET m == Head(fromServer) IN
       IF m.type \in {"text", "batch"}
       THEN reader' = "dead" /\ UNCHANGED <<pending, inHand, log>>
       ELSE /\ reader' = "write"
            /\ inHand' = ForClient(m)
            /\ pending' = Popped(m)
            /\ log' = log \cup ShadowEvents(m)
  /\ UNCHANGED <<mainVars, atServer, server, spent, asked, delivered>>

\* process_server_line; a batch raises, and line 108 ends the thread
ReadServer ==
  /\ reader = "read" /\ fromServer # <<>> /\ main # "exited"
  /\ fromServer' = Tail(fromServer)
  /\ LET m == Head(fromServer) IN
       IF m.type = "batch"
       THEN reader' = "dead" /\ UNCHANGED <<pending, inHand, log>>
       ELSE /\ reader' = "write"
            /\ inHand' = ForClient(m)
            /\ pending' = Popped(m)
            /\ log' = log \cup ShadowEvents(m)
  /\ UNCHANGED <<mainVars, atServer, server, spent, asked, delivered>>

\* the audit log cannot be opened inside the reader: the thread ends
ReadLogFails ==
  /\ LogFaults /\ reader = "read" /\ fromServer # <<>> /\ main # "exited"
  /\ ShadowEvents(Head(fromServer)) # {}
  /\ fromServer' = Tail(fromServer) /\ reader' = "dead"
  /\ pending' = Popped(Head(fromServer))
  /\ UNCHANGED <<mainVars, inHand, atServer, server, spent, asked,
                 delivered, log>>

WriteClient ==
  /\ reader = "write" /\ main # "exited"
  /\ delivered' = Append(delivered, inHand)
  /\ reader' = "read" /\ inHand' = Nothing
  /\ UNCHANGED <<pending, mainVars, serverVars, asked, log>>

DeliverFails ==
  /\ ClientFaults /\ reader = "write" /\ main # "exited"
  /\ reader' = "dead" /\ inHand' = Nothing
  /\ UNCHANGED <<pending, mainVars, serverVars, asked, delivered, log>>

ReaderEnd ==
  /\ reader = "read" /\ fromServer = <<>> /\ ~Running /\ reader' = "dead"
  /\ UNCHANGED <<pending, mainVars, inHand, serverVars, asked,
                 delivered, log>>

----------------------------------------------------------------------------
MainStep   == \/ WriteServer \/ WriteError \/ WriteErrorFails \/ DrainOver
              \/ Terminate \/ Wait \/ Kill
ReaderStep == \/ ReadServer \/ ReadLogFails \/ WriteClient \/ DeliverFails \/ ReaderEnd
ClientStep == \/ \E m \in ClientLines : Accept(m) \/ Refuse(m) \/ RefuseLogFails(m)
              \/ \E f \in Frames : OddLine(f)
              \/ EndOfInput
              \/ \E s \in Signals : Signal(s)
ServerStep == \/ \E q \in atServer, ts \in Listings :
                   ServerAnswer(q, IF q.type = "tools/list" THEN ts ELSE {})
              \/ \E i \in ServerIds : ServerRequest(i)
              \/ \E f \in Frames : ServerOddLine(f)
              \/ ServerExit

Next == MainStep \/ ReaderStep \/ ClientStep \/ ServerStep
Spec == Init /\ [][Next]_vars

\* The threads are scheduled; the server answers what it received and obeys
\* SIGTERM; the client need not send anything.
Answers(i) == \E q \in atServer, ts \in Listings :
                q.id = i /\ ServerAnswer(q, IF q.type = "tools/list" THEN ts ELSE {})
Fairness == /\ WF_vars(MainStep) /\ WF_vars(ReaderStep)
            /\ \A i \in ClientIds : SF_vars(Answers(i))
            /\ WF_vars(~Stubborn /\ server = "term" /\ ServerExit)
FairSpec == Spec /\ Fairness

----------------------------------------------------------------------------
(* Properties.                                                             *)

TypeOK ==
  /\ pending \in [Ids -> Methods \cup {None}]
  /\ main \in {"read", "toServer", "toClient", "drain", "close", "wait", "exited"}
  /\ reader \in {"read", "write", "dead"}
  /\ held \in Lines /\ inHand \in Lines
  /\ fromServer \in Seq(Lines) /\ Len(fromServer) <= PipeCap
  /\ atServer \subseteq Lines
  /\ server \in {"up", "term", "gone", "reaped"}
  /\ asked \in [ClientIds -> Methods \cup {None}]
  /\ delivered \in Seq(Lines)
  /\ spent \subseteq ServerIds \cup Frames
  /\ log \subseteq Events

IsAnswer(m) == m.type \in {"result", "error"}

\* What the client sees in answer to its tools/list offers no tool outside
\* the passport when strict mode strips (INVARIANT_84_3A), whatever the two
\* threads interleave.
ListFiltered ==
  Strip => \A k \in DOMAIN delivered :
    (delivered[k].type = "result" /\ asked[delivered[k].id] = "tools/list")
      => \A t \in delivered[k].tools : ~Shadow(t)

\* A request is answered at most once, by the server or by the proxy: a
\* refused call is never also run by the server (INVARIANT_84_2A).
OneAnswer ==
  \A j, k \in DOMAIN delivered :
    (IsAnswer(delivered[j]) /\ IsAnswer(delivered[k])
       /\ delivered[j].id = delivered[k].id) => j = k

\* A request still on its way to or from the server.
Outstanding(i) ==
  \/ main = "toServer" /\ held.type \in Methods /\ held.id = i
  \/ \E q \in atServer : q.id = i
  \/ \E k \in DOMAIN fromServer : fromServer[k].type = "result" /\ fromServer[k].id = i

\* pending_requests is exact: a request is remembered with its method until
\* its answer is read, and forgotten then (the comment at interceptor.py:72,
\* "to prevent memory leaks").  Requests the proxy refused stay, and so do
\* those a dying server or the end of the session leaves without an answer.
PendingExact ==
  \A i \in ClientIds :
    /\ Outstanding(i) => pending[i] = asked[i] /\ pending[i] # None
    /\ pending[i] # None =>
         \/ Outstanding(i) \/ ~Running
         \/ main \in {"drain", "close", "wait", "exited"}
         \/ \E e \in log : e.id = i /\ e.action = "Blocked"

\* The audit log says of a tool that it was stripped only if the client was
\* not offered it (policy.py:86, "Stripped from tools/list").
LogTruthful ==
  \A e \in log : e.action = "Stripped" =>
    \A k \in DOMAIN delivered :
      (delivered[k].type = "result" /\ delivered[k].id = e.id)
        => delivered[k].tools \cap e.tools = {}

\* When the proxy has returned, the server process has ended and its exit
\* status was collected (INVARIANT_84_1B: zero zombie processes).
ChildReaped == main = "exited" => server = "reaped"

\* While the session lasts and the server lives, every request is answered.
Answered ==
  \A i \in ClientIds :
    asked[i] # None ~>
      \/ \E k \in DOMAIN delivered : IsAnswer(delivered[k]) /\ delivered[k].id = i
      \/ main \in {"drain", "close", "wait", "exited"} \/ ~Running

\* Once the client hangs up, the proxy returns.
HangUpEnds == main \in {"drain", "close", "wait"} ~> main = "exited"
============================================================================
