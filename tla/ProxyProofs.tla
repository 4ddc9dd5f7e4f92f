---------------------------- MODULE ProxyProofs ----------------------------
(***************************************************************************)
(* Proofs about Proxy, for any ids, tools, policy, faults and pipe size:   *)
(* types, and, when the two sides do not use the same ids, that a list of  *)
(* tools reaches the client filtered, that no request is answered twice,   *)
(* that pending_requests is exact and that the audit log is true; and that *)
(* an interrupted proxy leaves no child behind.                            *)
(*                                                                         *)
(* The invariant follows a request: it is in at most one of six places     *)
(* (with main, at the server, in the pipe, with the reader, refused and    *)
(* about to be answered, answered), and while it has not been read back    *)
(* pending_requests still holds its method.                                *)
(* On top of it, OwedInv says whom an entry of pending_requests is for, and *)
(* ToldInv that a list the log calls stripped is past the filter.          *)
(***************************************************************************)
EXTENDS Proxy, TLAPS

\* The client and the server take their ids from different sets.
DistinctIds == ServerIds \cap ClientIds = {}

Result(m) == m.type = "result"

AtMain(i)   == main = "toServer" /\ held.type \in Methods /\ held.id = i
AtServer(i) == \E q \in atServer : q.id = i
InPipe(i)   == \E k \in 1..Len(fromServer) :
                 Result(fromServer[k]) /\ fromServer[k].id = i
InHand(i)   == reader = "write" /\ Result(inHand) /\ inHand.id = i
AtClient(i) == main = "toClient" /\ held.id = i
Done(i)     == \E k \in 1..Len(delivered) :
                 IsAnswer(delivered[k]) /\ delivered[k].id = i

\* The shapes of the lines on their way.
ShapeInv ==
  /\ main = "toClient" => held.type = "error" /\ held.id \in ClientIds
  /\ main = "toServer" /\ held.type \in Methods /\ held.id # None
       => held.id \in ClientIds /\ asked[held.id] = held.type
  /\ \A q \in atServer : q.type \in Methods /\ q.id \in ClientIds
                           /\ asked[q.id] = q.type
  /\ \A k \in 1..Len(fromServer) :
       /\ fromServer[k].type \in {"result", "request", "text", "batch"}
       /\ Result(fromServer[k]) => fromServer[k].id \in ClientIds
       /\ fromServer[k].type = "request" => fromServer[k].id \in ServerIds
       /\ fromServer[k].type \in {"text", "batch"} => fromServer[k].id = None
  /\ reader = "write" =>
       /\ inHand.type \in {"result", "request", "text"}
       /\ Result(inHand) => inHand.id \in ClientIds
  /\ \A k \in 1..Len(delivered) :
       IsAnswer(delivered[k]) => delivered[k].id \in ClientIds

\* A request is in one place at most, and was asked if it is in any.
OnePlace(i) ==
  /\ AtMain(i)   => ~AtServer(i) /\ ~InPipe(i) /\ ~InHand(i) /\ ~Done(i)
  /\ AtServer(i) => ~InPipe(i) /\ ~InHand(i) /\ ~AtClient(i) /\ ~Done(i)
  /\ InPipe(i)   => ~InHand(i) /\ ~AtClient(i) /\ ~Done(i)
  /\ InHand(i)   => ~AtClient(i) /\ ~Done(i)
  /\ AtClient(i) => ~Done(i)
  /\ AtMain(i) \/ AtServer(i) \/ InPipe(i) \/ InHand(i) \/ AtClient(i) \/ Done(i)
       => asked[i] # None
PlaceInv == \A i \in ClientIds : OnePlace(i)

\* ... and there only once.
OnceInv ==
  /\ \A q, r \in atServer : q.id = r.id => q = r
  /\ \A j, k \in 1..Len(fromServer) :
       Result(fromServer[j]) /\ Result(fromServer[k])
         /\ fromServer[j].id = fromServer[k].id => j = k
  /\ \A j, k \in 1..Len(delivered) :
       IsAnswer(delivered[j]) /\ IsAnswer(delivered[k])
         /\ delivered[j].id = delivered[k].id => j = k

\* Until its answer is read, its method is known.
MethodInv ==
  \A i \in ClientIds : AtMain(i) \/ AtServer(i) \/ InPipe(i) => pending[i] = asked[i]

\* What the reader holds, and what was delivered, is filtered.
Clean(m) == Result(m) /\ asked[m.id] = "tools/list" /\ Strip
              => \A t \in m.tools : ~Shadow(t)
FilterInv ==
  /\ reader = "write" => Clean(inHand)
  /\ \A k \in 1..Len(delivered) : Clean(delivered[k])

Routes == ShapeInv /\ PlaceInv /\ OnceInv /\ MethodInv /\ FilterInv
IInv   == TypeOK /\ Routes

----------------------------------------------------------------------------
(* Lines and pipes.                                                        *)

\* Appending adds one entry at the end.
LEMMA AppendFacts ==
  ASSUME NEW s \in Seq(Lines), NEW e \in Lines
  PROVE  /\ Append(s, e) \in Seq(Lines)
         /\ Len(Append(s, e)) = Len(s) + 1 /\ Len(s) \in Nat
         /\ \A k \in 1..Len(s) : Append(s, e)[k] = s[k]
         /\ Append(s, e)[Len(s) + 1] = e
OBVIOUS

\* Reading a pipe takes its first entry and shifts the others.
LEMMA TailFacts ==
  ASSUME NEW s \in Seq(Lines), s # <<>>
  PROVE  /\ Tail(s) \in Seq(Lines) /\ Head(s) \in Lines /\ Head(s) = s[1]
         /\ Len(Tail(s)) = Len(s) - 1 /\ Len(s) \in Nat /\ Len(s) > 0
         /\ \A k \in 1..Len(Tail(s)) : Tail(s)[k] = s[k + 1] /\ k + 1 \in 1..Len(s)
OBVIOUS

\* A line is built of a type, an id, tools and a flag.
LEMMA LineTyped ==
  ASSUME NEW y \in Types, NEW i \in Ids \cup {None}, NEW ts \in SUBSET Tools,
         NEW b \in BOOLEAN
  PROVE  /\ Line(y, i, ts, b) \in Lines
         /\ Line(y, i, ts, b).type = y /\ Line(y, i, ts, b).id = i
         /\ Line(y, i, ts, b).tools = ts
BY DEF Line, Lines

\* What the server emits fits the pipe.
LEMMA EmitFacts ==
  ASSUME TypeOK, NEW m \in Lines, Emit(m)
  PROVE  /\ fromServer' \in Seq(Lines) /\ Len(fromServer') <= PipeCap
         /\ Len(fromServer') = Len(fromServer) + 1 /\ Len(fromServer) \in Nat
         /\ \A k \in 1..Len(fromServer) : fromServer'[k] = fromServer[k]
         /\ fromServer'[Len(fromServer')] = m
<1>1. fromServer \in Seq(Lines) /\ Len(fromServer) < PipeCap
        /\ fromServer' = Append(fromServer, m) /\ PipeCap \in Nat
  BY ProxyAssumption DEF TypeOK, Emit, ProxyAssumption
<1> QED
  BY <1>1, AppendFacts

LEMMA NothingTyped == Nothing \in Lines /\ Nothing.type = "text"
BY DEF Nothing, Line, Lines, Types

\* The client sends requests under its own ids, and replies.
LEMMA ClientLineFacts ==
  ASSUME NEW m \in ClientLines
  PROVE  /\ m \in Lines
         /\ m.type \in Methods => m.id \in ClientIds \cup {None}
         /\ m.type \in Methods \cup {"reply"}
BY DEF ClientLines, Methods

LEMMA LineFields ==
  ASSUME NEW m \in Lines
  PROVE  m.type \in Types /\ m.id \in Ids \cup {None} /\ m.tools \in SUBSET Tools
BY DEF Lines

\* The events of the audit log are well formed.
LEMMA RefusalTyped ==
  ASSUME NEW m \in Lines, NEW a \in {"Blocked", "Logged"}
  PROVE  [event |-> "POLICY_VIOLATION", id |-> m.id, tools |-> m.tools,
          action |-> a] \in Events
BY LineFields DEF Events

LEMMA ShadowTyped ==
  ASSUME NEW m \in Lines
  PROVE  ShadowEvents(m) \subseteq Events
BY LineFields DEF Events, ShadowEvents

LEMMA ForClientTyped ==
  ASSUME NEW m \in Lines
  PROVE  /\ ForClient(m) \in Lines
         /\ ForClient(m).type = m.type /\ ForClient(m).id = m.id
         /\ ListResult(m) /\ Strip => \A t \in ForClient(m).tools : ~Shadow(t)
BY DEF ForClient, Lines

LEMMA PendingTyped ==
  ASSUME TypeOK, NEW m \in Lines
  PROVE  /\ Registered(m) \in [Ids -> Methods \cup {None}]
         /\ Popped(m) \in [Ids -> Methods \cup {None}]
BY LineFields DEF TypeOK, Registered, Popped

----------------------------------------------------------------------------
(* Types.                                                                  *)

LEMMA InitType == Init => TypeOK
BY ProxyAssumption, NothingTyped DEF Init, TypeOK, ProxyAssumption

LEMMA StepType == TypeOK /\ [Next]_vars => TypeOK'
<1> SUFFICES ASSUME TypeOK, [Next]_vars PROVE TypeOK'
  OBVIOUS
<1>u. CASE UNCHANGED vars
  BY <1>u DEF TypeOK, vars
<1>1. ASSUME NEW m \in ClientLines, Accept(m) PROVE TypeOK'
  <2>1. m \in Lines /\ Registered(m) \in [Ids -> Methods \cup {None}]
    BY ClientLineFacts, PendingTyped
  <2>2. log' \subseteq Events
    BY <1>1, <2>1, RefusalTyped DEF TypeOK, Accept
  <2>3. asked' \in [ClientIds -> Methods \cup {None}]
    BY <1>1, ClientLineFacts DEF TypeOK, Accept
  <2> QED
    BY <1>1, <2>1, <2>2, <2>3 DEF TypeOK, Accept, readerVars, serverVars
<1>2. ASSUME NEW m \in ClientLines, Refuse(m) PROVE TypeOK'
  <2>1. m \in Lines /\ Registered(m) \in [Ids -> Methods \cup {None}]
    BY ClientLineFacts, PendingTyped
  <2>2. log' \subseteq Events
    BY <1>2, <2>1, RefusalTyped DEF TypeOK, Refuse
  <2>3. asked' \in [ClientIds -> Methods \cup {None}]
    BY <1>2, ClientLineFacts DEF TypeOK, Refuse, Refused, Methods
  <2>4. Line("error", m.id, {}, FALSE) \in Lines
    BY <2>1, LineTyped, LineFields DEF Types
  <2> QED
    BY <1>2, <2>1, <2>2, <2>3, <2>4, NothingTyped
       DEF TypeOK, Refuse, readerVars, serverVars
<1>3. ASSUME NEW m \in ClientLines, RefuseLogFails(m) PROVE TypeOK'
  <2>1. m \in Lines /\ Registered(m) \in [Ids -> Methods \cup {None}]
    BY ClientLineFacts, PendingTyped
  <2>3. asked' \in [ClientIds -> Methods \cup {None}]
    BY <1>3, ClientLineFacts DEF TypeOK, RefuseLogFails, Refused, Methods
  <2> QED
    BY <1>3, <2>1, <2>3 DEF TypeOK, RefuseLogFails, readerVars, serverVars
<1>4. ASSUME NEW f \in Frames, OddLine(f) PROVE TypeOK'
  BY <1>4, ProxyAssumption, LineTyped
     DEF TypeOK, OddLine, readerVars, serverVars, ProxyAssumption, Types
<1>5. CASE WriteServer
  BY <1>5, NothingTyped DEF TypeOK, WriteServer, readerVars
<1>6. CASE WriteError
  BY <1>6, NothingTyped, AppendFacts DEF TypeOK, WriteError, readerVars, serverVars
<1>7a. CASE WriteErrorFails \/ DeliverFails
  BY <1>7a, NothingTyped
     DEF TypeOK, WriteErrorFails, DeliverFails, mainVars, readerVars, serverVars
<1>7. CASE EndOfInput \/ DrainOver \/ \E s \in Signals : Signal(s)
  BY <1>7 DEF TypeOK, EndOfInput, DrainOver, Signal, readerVars, serverVars
<1>8. CASE Terminate \/ Wait \/ Kill
  BY <1>8 DEF TypeOK, Terminate, Wait, Kill, readerVars
<1>9. ASSUME NEW q \in atServer, NEW ts \in Listings \cup {{}}, ServerAnswer(q, ts)
      PROVE TypeOK'
  <2>1. Line("result", q.id, ts, FALSE) \in Lines
    BY <1>9, LineTyped, LineFields, ProxyAssumption
       DEF TypeOK, Types, ProxyAssumption
  <2>2. fromServer' \in Seq(Lines) /\ Len(fromServer') <= PipeCap
    BY <1>9, <2>1, EmitFacts DEF ServerAnswer
  <2> QED
    BY <1>9, <2>2 DEF TypeOK, ServerAnswer, mainVars, readerVars
<1>10. ASSUME NEW i \in ServerIds, ServerRequest(i) PROVE TypeOK'
  <2>1. Line("request", i, {}, FALSE) \in Lines
    BY LineTyped DEF Types, Ids
  <2>2. fromServer' \in Seq(Lines) /\ Len(fromServer') <= PipeCap
    BY <1>10, <2>1, EmitFacts DEF ServerRequest
  <2> QED
    BY <1>10, <2>2 DEF TypeOK, ServerRequest, mainVars, readerVars
<1>11. ASSUME NEW f \in Frames, ServerOddLine(f) PROVE TypeOK'
  <2>1. Line(f, None, {}, FALSE) \in Lines
    BY ProxyAssumption, LineTyped DEF Types, ProxyAssumption
  <2>2. fromServer' \in Seq(Lines) /\ Len(fromServer') <= PipeCap
    BY <1>11, <2>1, EmitFacts DEF ServerOddLine
  <2> QED
    BY <1>11, <2>2 DEF TypeOK, ServerOddLine, mainVars, readerVars
<1>12. CASE ServerExit
  BY <1>12 DEF TypeOK, ServerExit, mainVars, readerVars
<1>13. CASE ReadServer \/ ReadLogFails
  <2> DEFINE m == Head(fromServer)
  <2>1. fromServer # <<>> /\ fromServer' = Tail(fromServer)
    BY <1>13 DEF ReadServer, ReadLogFails
  <2>2. m \in Lines /\ fromServer' \in Seq(Lines) /\ Len(fromServer') <= PipeCap
    BY <2>1, TailFacts, ProxyAssumption DEF TypeOK, ProxyAssumption
  <2>3. Popped(m) \in [Ids -> Methods \cup {None}] /\ ForClient(m) \in Lines
          /\ ShadowEvents(m) \subseteq Events
    BY <2>2, PendingTyped, ForClientTyped, ShadowTyped
  <2> QED
    BY <1>13, <2>2, <2>3 DEF TypeOK, ReadServer, ReadLogFails, mainVars
<1>14. CASE WriteClient \/ ReaderEnd
  <2>1. CASE WriteClient
    <3>1. delivered' \in Seq(Lines) /\ inHand' \in Lines
      BY <2>1, AppendFacts, NothingTyped DEF TypeOK, WriteClient
    <3> QED
      BY <2>1, <3>1 DEF TypeOK, WriteClient, mainVars, serverVars
  <2>2. CASE ReaderEnd
    BY <2>2 DEF TypeOK, ReaderEnd, mainVars, serverVars
  <2> QED
    BY <1>14, <2>1, <2>2
<1> QED
  BY <1>u, <1>1, <1>2, <1>3, <1>4, <1>5, <1>6, <1>7, <1>7a, <1>8, <1>9, <1>10,
     <1>11, <1>12, <1>13, <1>14 DEF Next, MainStep, ReaderStep, ClientStep, ServerStep

\* Every variable keeps its type.
THEOREM TypeCorrect == Spec => []TypeOK
<1>1. Init => TypeOK
  BY InitType
<1>2. TypeOK /\ [Next]_vars => TypeOK'
  BY StepType
<1> QED
  BY <1>1, <1>2, PTL DEF Spec

----------------------------------------------------------------------------
(* The routes of the requests: the client's side.                          *)

LEMMA InitRoutes == Init => Routes
BY DEF Init, Routes, ShapeInv, PlaceInv, OnceInv, MethodInv, FilterInv, OnePlace, AtMain,
       AtServer, InPipe, InHand, AtClient, Done, Nothing, Line, Methods

\* Steps that move no request, or lose some of those at the server.
LEMMA QuietStep ==
  ASSUME IInv,
         \/ main' = main /\ held' = held
         \/ main' # "toClient" /\ (main' = "toServer" => held'.type \notin Methods),
         \/ reader' = reader /\ inHand' = inHand
         \/ reader' # "write",
         atServer' \subseteq atServer,
         UNCHANGED <<fromServer, asked, pending, delivered>>
  PROVE  Routes'
<1>1. ShapeInv'
  BY DEF IInv, Routes, ShapeInv, Result, IsAnswer
<1>2. ASSUME NEW i \in ClientIds
      PROVE  /\ AtMain(i)' => AtMain(i)
             /\ AtServer(i)' => AtServer(i)
             /\ InPipe(i)' => InPipe(i)
             /\ InHand(i)' => InHand(i)
             /\ AtClient(i)' => AtClient(i)
             /\ Done(i)' => Done(i)
  BY DEF AtMain, AtServer, InPipe, InHand, AtClient, Done, Result, IsAnswer
<1>3. PlaceInv'
  <2> SUFFICES ASSUME NEW i \in ClientIds PROVE OnePlace(i)'
    BY DEF PlaceInv
  <2>1. OnePlace(i) /\ asked' = asked
    BY DEF IInv, Routes, PlaceInv
  <2>2. /\ AtMain(i)' => AtMain(i)
        /\ AtServer(i)' => AtServer(i)
        /\ InPipe(i)' => InPipe(i)
        /\ InHand(i)' => InHand(i)
        /\ AtClient(i)' => AtClient(i)
        /\ Done(i)' => Done(i)
    BY <1>2
  <2> QED
    BY <2>1, <2>2 DEF OnePlace
<1>4. OnceInv'
  BY DEF IInv, Routes, OnceInv, Result, IsAnswer
<1>5. MethodInv'
  <2> SUFFICES ASSUME NEW i \in ClientIds, AtMain(i)' \/ AtServer(i)' \/ InPipe(i)'
               PROVE  pending'[i] = asked'[i]
    BY DEF MethodInv
  <2>1. pending' = pending /\ asked' = asked
    OBVIOUS
  <2> QED
    BY <1>2, <2>1 DEF IInv, Routes, MethodInv
<1>6. FilterInv'
  BY DEF IInv, Routes, FilterInv, Clean, Result
<1> QED
  BY <1>1, <1>3, <1>4, <1>5, <1>6 DEF Routes

\* A request the client has not made is nowhere.
LEMMA Fresh ==
  ASSUME IInv, NEW m \in ClientLines, MaySend(m), m.type \in Methods, m.id # None
  PROVE  /\ m.id \in ClientIds /\ asked[m.id] = None
         /\ ~AtMain(m.id) /\ ~AtServer(m.id) /\ ~InPipe(m.id)
         /\ ~InHand(m.id) /\ ~AtClient(m.id) /\ ~Done(m.id)
BY ClientLineFacts DEF MaySend, IInv, Routes, PlaceInv, OnePlace

\* A request that is somewhere keeps what it asked and the answer it got.
LEMMA AskStep ==
  ASSUME IInv, NEW m \in ClientLines, MaySend(m),
         asked' = (IF m.type \in Methods /\ m.id # None
                   THEN [asked EXCEPT ![m.id] = m.type] ELSE asked),
         pending' = Registered(m),
         UNCHANGED <<readerVars, atServer, fromServer, delivered>>
  PROVE  /\ \A i \in ClientIds :
              AtMain(i) \/ AtServer(i) \/ InPipe(i) \/ InHand(i) \/ AtClient(i) \/ Done(i)
                => asked'[i] = asked[i] /\ pending'[i] = pending[i]
         /\ \A i \in ClientIds : asked[i] # None => asked'[i] # None
         /\ OnceInv' /\ FilterInv'
<1>1. ASSUME NEW i \in ClientIds,
             AtMain(i) \/ AtServer(i) \/ InPipe(i) \/ InHand(i) \/ AtClient(i) \/ Done(i)
      PROVE  asked'[i] = asked[i] /\ pending'[i] = pending[i]
  BY <1>1, Fresh DEF Registered
<1>2. ASSUME NEW i \in ClientIds, asked[i] # None PROVE asked'[i] # None
  BY <1>2, Fresh
<1>3. OnceInv'
  BY DEF IInv, Routes, OnceInv, Result, IsAnswer
<1>4. reader' = "write" => Clean(inHand)'
  BY <1>1 DEF IInv, Routes, FilterInv, Clean, Result, ShapeInv, InHand, readerVars
<1>5. ASSUME NEW k \in 1..Len(delivered') PROVE Clean(delivered[k])'
  <2>1. Result(delivered[k]) => delivered[k].id \in ClientIds /\ Done(delivered[k].id)
    BY DEF IInv, Routes, ShapeInv, Result, IsAnswer, Done
  <2> QED
    BY <1>1, <2>1 DEF IInv, Routes, FilterInv, Clean, Result
<1> QED
  BY <1>1, <1>2, <1>3, <1>4, <1>5 DEF FilterInv

LEMMA AcceptStep ==
  ASSUME IInv, NEW m \in ClientLines, Accept(m)
  PROVE  Routes'
<1>1. MaySend(m) /\ main = "read" /\ main' = "toServer" /\ held' = m
  BY DEF Accept
<1>2. /\ \A i \in ClientIds :
           AtMain(i) \/ AtServer(i) \/ InPipe(i) \/ InHand(i) \/ AtClient(i) \/ Done(i)
             => asked'[i] = asked[i] /\ pending'[i] = pending[i]
      /\ \A i \in ClientIds : asked[i] # None => asked'[i] # None
      /\ OnceInv' /\ FilterInv'
  BY <1>1, AskStep DEF Accept, serverVars
<1>3. m.type \in Methods /\ m.id # None
        => asked'[m.id] = m.type /\ pending'[m.id] = m.type /\ m.type # None
  BY <1>1, Fresh, ProxyAssumption DEF Accept, IInv, TypeOK, Registered, Ids, Methods
<1>4. ASSUME NEW i \in ClientIds
      PROVE  /\ AtMain(i)' = (m.type \in Methods /\ m.id = i)
             /\ AtServer(i)' = AtServer(i) /\ InPipe(i)' = InPipe(i)
             /\ InHand(i)' = InHand(i) /\ ~AtClient(i)' /\ Done(i)' = Done(i)
  BY <1>1 DEF Accept, AtMain, AtServer, InPipe, InHand, AtClient, Done, Result,
              IsAnswer, readerVars, serverVars
<1>5. ShapeInv'
  <2>1. \A q \in atServer : AtServer(q.id)
    BY DEF AtServer
  <2>2. m.type \in Methods /\ m.id # None => m.id \in ClientIds
    BY <1>1, Fresh
  <2> QED
    BY <1>1, <1>2, <1>3, <2>1, <2>2
       DEF Accept, IInv, Routes, ShapeInv, Result, IsAnswer, readerVars, serverVars
<1>6. PlaceInv'
  <2> SUFFICES ASSUME NEW i \in ClientIds PROVE OnePlace(i)'
    BY DEF PlaceInv
  <2>1. i # None
    BY ProxyAssumption DEF ProxyAssumption
  <2>2. CASE m.type \in Methods /\ m.id = i
    BY <1>1, <1>3, <1>4, <2>1, <2>2, Fresh DEF OnePlace
  <2>3. CASE ~(m.type \in Methods /\ m.id = i)
    BY <1>2, <1>4, <2>3 DEF IInv, Routes, PlaceInv, OnePlace
  <2> QED
    BY <2>2, <2>3
<1>7. MethodInv'
  <2> SUFFICES ASSUME NEW i \in ClientIds, AtMain(i)' \/ AtServer(i)' \/ InPipe(i)'
               PROVE  pending'[i] = asked'[i]
    BY DEF MethodInv
  <2>1. i # None
    BY ProxyAssumption DEF ProxyAssumption
  <2>2. CASE AtMain(i)'
    BY <1>3, <1>4, <2>1, <2>2
  <2>3. CASE AtServer(i)' \/ InPipe(i)'
    BY <1>2, <1>4, <2>3 DEF IInv, Routes, MethodInv
  <2> QED
    BY <2>2, <2>3
<1> QED
  BY <1>2, <1>5, <1>6, <1>7 DEF Routes

LEMMA RefuseStep ==
  ASSUME IInv, NEW m \in ClientLines, Refuse(m) \/ RefuseLogFails(m)
  PROVE  Routes'
<1>1. /\ MaySend(m) /\ main = "read" /\ m.type \in Methods
      /\ \/ main' = "toClient" /\ m.id # None /\ held' = Line("error", m.id, {}, FALSE)
         \/ main' \in {"read", "close"}
      /\ UNCHANGED <<readerVars, atServer, fromServer, delivered>>
  BY DEF Refuse, RefuseLogFails, Refused, Methods, serverVars
<1>2. /\ \A i \in ClientIds :
           AtMain(i) \/ AtServer(i) \/ InPipe(i) \/ InHand(i) \/ AtClient(i) \/ Done(i)
             => asked'[i] = asked[i] /\ pending'[i] = pending[i]
      /\ \A i \in ClientIds : asked[i] # None => asked'[i] # None
      /\ OnceInv' /\ FilterInv'
  <2>1. asked' = (IF m.type \in Methods /\ m.id # None
                  THEN [asked EXCEPT ![m.id] = m.type] ELSE asked)
    BY <1>1 DEF Refuse, RefuseLogFails
  <2> QED
    BY <1>1, <2>1, AskStep DEF Refuse, RefuseLogFails
<1>3. m.id # None => m.id \in ClientIds /\ asked'[m.id] = m.type /\ m.type # None
  BY <1>1, Fresh, ProxyAssumption
     DEF Refuse, RefuseLogFails, IInv, TypeOK, Methods, ProxyAssumption
<1>4. main' = "toClient" => held'.type = "error" /\ held'.id = m.id /\ m.id # None
  BY <1>1 DEF Line
<1>5. ASSUME NEW i \in ClientIds
      PROVE  /\ ~AtMain(i)' /\ AtServer(i)' = AtServer(i)
             /\ InPipe(i)' = InPipe(i) /\ InHand(i)' = InHand(i)
             /\ AtClient(i)' => m.id = i
             /\ Done(i)' = Done(i)
  BY <1>1, <1>4 DEF AtMain, AtServer, InPipe, InHand, AtClient, Done, Result,
                    IsAnswer, readerVars
<1>6. ShapeInv'
  <2>1. \A q \in atServer : AtServer(q.id)
    BY DEF AtServer
  <2> QED
    BY <1>1, <1>2, <1>3, <1>4, <2>1
       DEF IInv, Routes, ShapeInv, Result, IsAnswer, readerVars
<1>7. PlaceInv'
  <2> SUFFICES ASSUME NEW i \in ClientIds PROVE OnePlace(i)'
    BY DEF PlaceInv
  <2>1. i # None
    BY ProxyAssumption DEF ProxyAssumption
  <2>2. CASE m.id = i
    BY <1>1, <1>3, <1>5, <2>1, <2>2, Fresh DEF OnePlace
  <2>3. CASE m.id # i
    BY <1>2, <1>5, <2>3 DEF IInv, Routes, PlaceInv, OnePlace
  <2> QED
    BY <2>2, <2>3
<1>8. MethodInv'
  <2> SUFFICES ASSUME NEW i \in ClientIds, AtMain(i)' \/ AtServer(i)' \/ InPipe(i)'
               PROVE  pending'[i] = asked'[i]
    BY DEF MethodInv
  <2> QED
    BY <1>2, <1>5 DEF IInv, Routes, MethodInv
<1> QED
  BY <1>2, <1>6, <1>7, <1>8 DEF Routes

LEMMA WriteServerStep ==
  ASSUME IInv, WriteServer
  PROVE  Routes'
<1>1. CASE atServer' = atServer
  <2>1. held'.type \notin Methods /\ main' \in {"read", "drain"}
    BY NothingTyped DEF WriteServer, Methods
  <2> QED
    BY <1>1, <2>1, QuietStep DEF WriteServer, readerVars
<1>2. CASE atServer' # atServer
  <2>1. /\ main = "toServer" /\ main' = "read" /\ atServer' = atServer \cup {held}
        /\ held.type \in Methods /\ held.id # None
        /\ UNCHANGED <<pending, readerVars, fromServer, asked, delivered>>
    BY <1>2 DEF WriteServer
  <2>2. AtMain(held.id) /\ held.id \in ClientIds /\ asked[held.id] = held.type
    BY <2>1 DEF AtMain, IInv, Routes, ShapeInv
  <2>3. ASSUME NEW i \in ClientIds
        PROVE  /\ ~AtMain(i)' /\ AtMain(i) = (held.id = i)
               /\ AtServer(i)' = (AtServer(i) \/ held.id = i)
               /\ InPipe(i)' = InPipe(i) /\ InHand(i)' = InHand(i)
               /\ ~AtClient(i)' /\ Done(i)' = Done(i)
    BY <2>1 DEF AtMain, AtServer, InPipe, InHand, AtClient, Done, Result, IsAnswer,
                readerVars
  <2>4. ShapeInv'
    BY <2>1, <2>2 DEF IInv, Routes, ShapeInv, Result, IsAnswer, readerVars
  <2>5. PlaceInv'
    <3> SUFFICES ASSUME NEW i \in ClientIds PROVE OnePlace(i)'
      BY DEF PlaceInv
    <3>1. OnePlace(i) /\ asked' = asked
      BY <2>1 DEF IInv, Routes, PlaceInv
    <3> QED
      BY <2>3, <3>1 DEF OnePlace
  <2>6. OnceInv'
    <3>1. \A q \in atServer : q.id # held.id
      BY <2>2 DEF IInv, Routes, PlaceInv, OnePlace, AtServer
    <3> QED
      BY <2>1, <3>1 DEF IInv, Routes, OnceInv, Result, IsAnswer
  <2>7. MethodInv'
    <3> SUFFICES ASSUME NEW i \in ClientIds, AtMain(i)' \/ AtServer(i)' \/ InPipe(i)'
                 PROVE  pending'[i] = asked'[i]
      BY DEF MethodInv
    <3> QED
      BY <2>1, <2>3 DEF IInv, Routes, MethodInv
  <2>8. FilterInv'
    BY <2>1 DEF IInv, Routes, FilterInv, Clean, Result, readerVars
  <2> QED
    BY <2>4, <2>5, <2>6, <2>7, <2>8 DEF Routes
<1> QED
  BY <1>1, <1>2

LEMMA WriteErrorStep ==
  ASSUME IInv, WriteError
  PROVE  Routes'
<1>1. /\ main = "toClient" /\ main' = "read"
      /\ delivered' = Append(delivered, held)
      /\ UNCHANGED <<pending, reader, inHand, atServer, fromServer, asked>>
  BY DEF WriteError, readerVars, serverVars
<1>2. held \in Lines /\ delivered \in Seq(Lines)
  BY DEF IInv, TypeOK
<1>3. /\ Len(delivered') = Len(delivered) + 1 /\ Len(delivered) \in Nat
      /\ \A k \in 1..Len(delivered) : delivered'[k] = delivered[k]
      /\ delivered'[Len(delivered) + 1] = held
  BY <1>1, <1>2, AppendFacts
<1>4. held.type = "error" /\ held.id \in ClientIds /\ AtClient(held.id)
  BY <1>1 DEF IInv, Routes, ShapeInv, AtClient
<1>5. ASSUME NEW i \in ClientIds
      PROVE  /\ ~AtMain(i)' /\ AtServer(i)' = AtServer(i)
             /\ InPipe(i)' = InPipe(i) /\ InHand(i)' = InHand(i)
             /\ ~AtClient(i)' /\ AtClient(i) = (held.id = i)
             /\ Done(i)' => Done(i) \/ held.id = i
  <2>1. /\ ~AtMain(i)' /\ AtServer(i)' = AtServer(i)
        /\ InPipe(i)' = InPipe(i) /\ InHand(i)' = InHand(i)
        /\ ~AtClient(i)' /\ AtClient(i) = (held.id = i)
    BY <1>1 DEF AtMain, AtServer, InPipe, InHand, AtClient, Result
  <2>2. Done(i)' => Done(i) \/ held.id = i
    BY <1>3 DEF Done, IsAnswer
  <2> QED
    BY <2>1, <2>2
<1>6. ShapeInv'
  BY <1>1, <1>3, <1>4 DEF IInv, Routes, ShapeInv, Result, IsAnswer
<1>7. PlaceInv'
  <2> SUFFICES ASSUME NEW i \in ClientIds PROVE OnePlace(i)'
    BY DEF PlaceInv
  <2>1. OnePlace(i) /\ asked' = asked
    BY <1>1 DEF IInv, Routes, PlaceInv
  <2> QED
    BY <1>5, <2>1 DEF OnePlace
<1>8. OnceInv'
  <2>1. \A k \in 1..Len(delivered) : IsAnswer(delivered[k]) => delivered[k].id # held.id
    BY <1>4 DEF IInv, Routes, PlaceInv, OnePlace, Done
  <2>2. \A j, k \in 1..Len(delivered') :
          IsAnswer(delivered'[j]) /\ IsAnswer(delivered'[k])
            /\ delivered'[j].id = delivered'[k].id => j = k
    BY <1>3, <2>1 DEF IInv, Routes, OnceInv
  <2> QED
    BY <1>1, <2>2 DEF IInv, Routes, OnceInv, Result, IsAnswer
<1>9. MethodInv'
  <2> SUFFICES ASSUME NEW i \in ClientIds, AtMain(i)' \/ AtServer(i)' \/ InPipe(i)'
               PROVE  pending'[i] = asked'[i]
    BY DEF MethodInv
  <2> QED
    BY <1>1, <1>5 DEF IInv, Routes, MethodInv
<1>10. FilterInv'
  BY <1>1, <1>3, <1>4 DEF IInv, Routes, FilterInv, Clean, Result
<1> QED
  BY <1>6, <1>7, <1>8, <1>9, <1>10 DEF Routes

----------------------------------------------------------------------------
(* The server's side.                                                      *)

\* A line that answers nothing moves no request.
LEMMA EmitOtherStep ==
  ASSUME IInv, NEW m \in Lines, Emit(m),
         \/ m.type = "request" /\ m.id \in ServerIds
         \/ m.type \in {"text", "batch"} /\ m.id = None,
         UNCHANGED <<pending, mainVars, readerVars, atServer, asked, delivered>>
  PROVE  Routes'
<1>1. /\ Len(fromServer') = Len(fromServer) + 1 /\ Len(fromServer) \in Nat
      /\ \A k \in 1..Len(fromServer) : fromServer'[k] = fromServer[k]
      /\ fromServer'[Len(fromServer) + 1] = m
  BY EmitFacts DEF IInv
<1>2. ~Result(m)
  BY DEF Result
<1>3. ASSUME NEW i \in ClientIds
      PROVE  /\ AtMain(i)' = AtMain(i) /\ AtServer(i)' = AtServer(i)
             /\ InPipe(i)' => InPipe(i)
             /\ InHand(i)' = InHand(i) /\ AtClient(i)' = AtClient(i)
             /\ Done(i)' = Done(i)
  <2>1. /\ AtMain(i)' = AtMain(i) /\ AtServer(i)' = AtServer(i)
        /\ InHand(i)' = InHand(i) /\ AtClient(i)' = AtClient(i)
        /\ Done(i)' = Done(i)
    BY DEF AtMain, AtServer, InHand, AtClient, Done, Result, IsAnswer, mainVars,
           readerVars
  <2>2. InPipe(i)' => InPipe(i)
    BY <1>1, <1>2 DEF InPipe, Result
  <2> QED
    BY <2>1, <2>2
<1>4. ShapeInv'
  BY <1>1, <1>2 DEF IInv, Routes, ShapeInv, Result, IsAnswer, mainVars, readerVars
<1>5. PlaceInv'
  <2> SUFFICES ASSUME NEW i \in ClientIds PROVE OnePlace(i)'
    BY DEF PlaceInv
  <2>1. OnePlace(i) /\ asked' = asked
    BY DEF IInv, Routes, PlaceInv
  <2> QED
    BY <1>3, <2>1 DEF OnePlace
<1>6. OnceInv'
  <2>1. \A j, k \in 1..Len(fromServer') :
          Result(fromServer'[j]) /\ Result(fromServer'[k])
            /\ fromServer'[j].id = fromServer'[k].id => j = k
    BY <1>1, <1>2 DEF IInv, Routes, OnceInv
  <2> QED
    BY <2>1 DEF IInv, Routes, OnceInv, Result, IsAnswer
<1>7. MethodInv'
  <2> SUFFICES ASSUME NEW i \in ClientIds, AtMain(i)' \/ AtServer(i)' \/ InPipe(i)'
               PROVE  pending'[i] = asked'[i]
    BY DEF MethodInv
  <2> QED
    BY <1>3 DEF IInv, Routes, MethodInv
<1>8. FilterInv'
  BY DEF IInv, Routes, FilterInv, Clean, Result, readerVars
<1> QED
  BY <1>4, <1>5, <1>6, <1>7, <1>8 DEF Routes

LEMMA AnswerStep ==
  ASSUME IInv, NEW q \in atServer, NEW ts \in Listings \cup {{}}, ServerAnswer(q, ts)
  PROVE  Routes'
<1> DEFINE m == Line("result", q.id, ts, FALSE)
<1>1. m \in Lines /\ Result(m) /\ m.id = q.id
  <2>1. q \in Lines /\ ts \in SUBSET Tools /\ "result" \in Types
    BY ProxyAssumption DEF IInv, TypeOK, Types, ProxyAssumption
  <2>2. q.id \in Ids \cup {None}
    BY <2>1, LineFields
  <2> QED
    BY <2>1, <2>2 DEF Result, Line, Lines
<1>2. Emit(m) /\ atServer' = atServer \ {q}
        /\ UNCHANGED <<pending, mainVars, readerVars, asked, delivered>>
  BY DEF ServerAnswer
<1> HIDE DEF m
<1>3. /\ Len(fromServer') = Len(fromServer) + 1 /\ Len(fromServer) \in Nat
      /\ \A k \in 1..Len(fromServer) : fromServer'[k] = fromServer[k]
      /\ fromServer'[Len(fromServer) + 1] = m
  BY <1>1, <1>2, EmitFacts DEF IInv
<1>4. AtServer(q.id) /\ q.id \in ClientIds
  BY DEF AtServer, IInv, Routes, ShapeInv
<1>5. ASSUME NEW i \in ClientIds
      PROVE  /\ AtMain(i)' = AtMain(i)
             /\ AtServer(i)' => AtServer(i) /\ i # q.id
             /\ InPipe(i)' => InPipe(i) \/ i = q.id
             /\ InHand(i)' = InHand(i) /\ AtClient(i)' = AtClient(i)
             /\ Done(i)' = Done(i)
  <2>1. /\ AtMain(i)' = AtMain(i)
        /\ InHand(i)' = InHand(i) /\ AtClient(i)' = AtClient(i)
        /\ Done(i)' = Done(i)
    BY <1>2 DEF AtMain, InHand, AtClient, Done, Result, IsAnswer, mainVars, readerVars
  <2>2. InPipe(i)' => InPipe(i) \/ i = q.id
    BY <1>1, <1>3 DEF InPipe, Result
  <2>3. AtServer(i)' => AtServer(i) /\ i # q.id
    BY <1>2 DEF AtServer, IInv, Routes, OnceInv
  <2> QED
    BY <2>1, <2>2, <2>3
<1>6. ShapeInv'
  <2>1. \A k \in 1..Len(fromServer') :
          /\ fromServer'[k].type \in {"result", "request", "text", "batch"}
          /\ Result(fromServer'[k]) => fromServer'[k].id \in ClientIds
          /\ fromServer'[k].type = "request" => fromServer'[k].id \in ServerIds
          /\ fromServer'[k].type \in {"text", "batch"} => fromServer'[k].id = None
    BY <1>1, <1>3, <1>4 DEF IInv, Routes, ShapeInv, Result
  <2> QED
    BY <1>2, <2>1 DEF IInv, Routes, ShapeInv, Result, IsAnswer, mainVars, readerVars
<1>7. PlaceInv'
  <2> SUFFICES ASSUME NEW i \in ClientIds PROVE OnePlace(i)'
    BY DEF PlaceInv
  <2>1. OnePlace(i) /\ asked' = asked
    BY <1>2 DEF IInv, Routes, PlaceInv
  <2> QED
    BY <1>4, <1>5, <2>1 DEF OnePlace
<1>8. OnceInv'
  <2>1. \A k \in 1..Len(fromServer) : Result(fromServer[k]) => fromServer[k].id # q.id
    BY <1>4 DEF IInv, Routes, PlaceInv, OnePlace, InPipe
  <2>2. \A j, k \in 1..Len(fromServer') :
          Result(fromServer'[j]) /\ Result(fromServer'[k])
            /\ fromServer'[j].id = fromServer'[k].id => j = k
    BY <1>1, <1>3, <2>1 DEF IInv, Routes, OnceInv
  <2> QED
    BY <1>2, <2>2 DEF IInv, Routes, OnceInv, Result, IsAnswer
<1>9. MethodInv'
  <2> SUFFICES ASSUME NEW i \in ClientIds, AtMain(i)' \/ AtServer(i)' \/ InPipe(i)'
               PROVE  pending'[i] = asked'[i]
    BY DEF MethodInv
  <2> QED
    BY <1>2, <1>4, <1>5 DEF IInv, Routes, MethodInv
<1>10. FilterInv'
  BY <1>2 DEF IInv, Routes, FilterInv, Clean, Result, readerVars
<1> QED
  BY <1>6, <1>7, <1>8, <1>9, <1>10 DEF Routes

----------------------------------------------------------------------------
(* The reader's side.  Only here the two id spaces must differ: a request  *)
(* of the server takes away the entry of its id.                           *)

LEMMA ReadStep ==
  ASSUME DistinctIds, IInv, ReadServer \/ ReadLogFails
  PROVE  Routes'
<1> DEFINE m == Head(fromServer)
<1>1. /\ fromServer # <<>> /\ fromServer' = Tail(fromServer) /\ reader = "read"
      /\ UNCHANGED <<mainVars, atServer, asked, delivered>>
      /\ \/ reader' = "dead" /\ pending' \in {pending, Popped(m)}
         \/ reader' = "write" /\ inHand' = ForClient(m) /\ pending' = Popped(m)
              /\ m.type # "batch"
  BY DEF ReadServer, ReadLogFails
<1>2. /\ m \in Lines /\ m = fromServer[1] /\ Len(fromServer) \in Nat /\ Len(fromServer) > 0
      /\ Len(fromServer') = Len(fromServer) - 1
      /\ \A k \in 1..Len(fromServer') : fromServer'[k] = fromServer[k + 1]
                                           /\ k + 1 \in 1..Len(fromServer)
  BY <1>1, TailFacts DEF IInv, TypeOK
<1> HIDE DEF m
<1>3. 1 \in 1..Len(fromServer)
  BY <1>2
<1>4. /\ m.type \in {"result", "request", "text", "batch"}
      /\ Result(m) => m.id \in ClientIds /\ InPipe(m.id)
      /\ ~Result(m) => m.id \notin ClientIds
  BY <1>2, <1>3, ProxyAssumption
     DEF IInv, Routes, ShapeInv, InPipe, Result, DistinctIds, ProxyAssumption
<1>5. ASSUME NEW i \in ClientIds
      PROVE  /\ AtMain(i)' = AtMain(i) /\ AtServer(i)' = AtServer(i)
             /\ InPipe(i)' => InPipe(i) /\ ~(Result(m) /\ m.id = i)
             /\ InHand(i)' => Result(m) /\ m.id = i
             /\ AtClient(i)' = AtClient(i) /\ Done(i)' = Done(i)
  <2>1. /\ AtMain(i)' = AtMain(i) /\ AtServer(i)' = AtServer(i)
        /\ AtClient(i)' = AtClient(i) /\ Done(i)' = Done(i)
    BY <1>1 DEF AtMain, AtServer, AtClient, Done, IsAnswer, mainVars
  <2>2. InPipe(i)' => InPipe(i) /\ ~(Result(m) /\ m.id = i)
    <3> SUFFICES ASSUME NEW k \in 1..Len(fromServer'), Result(fromServer'[k]),
                        fromServer'[k].id = i
                 PROVE  InPipe(i) /\ ~(Result(m) /\ m.id = i)
      BY DEF InPipe, Result
    <3>1. k + 1 \in 1..Len(fromServer) /\ fromServer'[k] = fromServer[k + 1] /\ k + 1 # 1
      BY <1>2
    <3>2. InPipe(i)
      BY <3>1 DEF InPipe
    <3>3. ~(Result(m) /\ m.id = i)
      BY <1>2, <1>3, <3>1 DEF IInv, Routes, OnceInv
    <3> QED
      BY <3>2, <3>3
  <2>3. InHand(i)' => Result(m) /\ m.id = i
    BY <1>1, <1>2, ForClientTyped DEF InHand, Result
  <2> QED
    BY <2>1, <2>2, <2>3
<1>6. ShapeInv'
  <2>1. \A k \in 1..Len(fromServer') :
          /\ fromServer'[k].type \in {"result", "request", "text", "batch"}
          /\ Result(fromServer'[k]) => fromServer'[k].id \in ClientIds
          /\ fromServer'[k].type = "request" => fromServer'[k].id \in ServerIds
          /\ fromServer'[k].type \in {"text", "batch"} => fromServer'[k].id = None
    BY <1>2 DEF IInv, Routes, ShapeInv
  <2>2. reader' = "write" => /\ inHand'.type \in {"result", "request", "text"}
                             /\ Result(inHand') => inHand'.id \in ClientIds
    BY <1>1, <1>2, <1>4, ForClientTyped DEF Result
  <2> QED
    BY <1>1, <2>1, <2>2 DEF IInv, Routes, ShapeInv, Result, IsAnswer, mainVars
<1>7. PlaceInv'
  <2> SUFFICES ASSUME NEW i \in ClientIds PROVE OnePlace(i)'
    BY DEF PlaceInv
  <2>1. OnePlace(i) /\ asked' = asked
    BY <1>1 DEF IInv, Routes, PlaceInv
  <2> QED
    BY <1>4, <1>5, <2>1 DEF OnePlace
<1>8. OnceInv'
  <2>1. \A j, k \in 1..Len(fromServer') :
          Result(fromServer'[j]) /\ Result(fromServer'[k])
            /\ fromServer'[j].id = fromServer'[k].id => j = k
    <3> SUFFICES ASSUME NEW j \in 1..Len(fromServer'), NEW k \in 1..Len(fromServer'),
                        Result(fromServer'[j]), Result(fromServer'[k]),
                        fromServer'[j].id = fromServer'[k].id
                 PROVE  j = k
      OBVIOUS
    <3>1. /\ j + 1 \in 1..Len(fromServer) /\ fromServer'[j] = fromServer[j + 1]
          /\ k + 1 \in 1..Len(fromServer) /\ fromServer'[k] = fromServer[k + 1]
      BY <1>2
    <3>2. j + 1 = k + 1
      BY <3>1 DEF IInv, Routes, OnceInv
    <3> QED
      BY <1>2, <3>2
  <2> QED
    BY <1>1, <2>1 DEF IInv, Routes, OnceInv, Result, IsAnswer
<1>9. MethodInv'
  <2> SUFFICES ASSUME NEW i \in ClientIds, AtMain(i)' \/ AtServer(i)' \/ InPipe(i)'
               PROVE  pending'[i] = asked'[i]
    BY DEF MethodInv
  <2>1. pending[i] = asked[i] /\ asked' = asked
    BY <1>1, <1>5 DEF IInv, Routes, MethodInv
  <2>2. ~(Result(m) /\ m.id = i)
    BY <1>4, <1>5 DEF IInv, Routes, PlaceInv, OnePlace
  <2>3. Popped(m)[i] = pending[i]
    BY <1>4, <2>2 DEF Popped, IInv, TypeOK, Ids
  <2> QED
    BY <1>1, <2>1, <2>3
<1>10. FilterInv'
  <2>1. reader' = "write" => Clean(inHand)'
    <3> SUFFICES ASSUME reader' = "write", Result(inHand'),
                        asked'[inHand'.id] = "tools/list", Strip
                 PROVE  \A t \in inHand'.tools : ~Shadow(t)
      BY DEF Clean, Result
    <3>1. inHand' = ForClient(m) /\ Result(m) /\ inHand'.id = m.id
      BY <1>1, <1>2, ForClientTyped DEF Result
    <3>2. pending[m.id] = "tools/list"
      BY <1>1, <1>4, <3>1 DEF IInv, Routes, MethodInv
    <3> QED
      BY <1>2, <3>1, <3>2, ForClientTyped DEF ListResult, Result
  <2> QED
    BY <1>1, <2>1 DEF IInv, Routes, FilterInv, Clean, Result
<1> QED
  BY <1>6, <1>7, <1>8, <1>9, <1>10 DEF Routes

LEMMA DeliverStep ==
  ASSUME IInv, WriteClient
  PROVE  Routes'
<1>1. /\ reader = "write" /\ reader' = "read"
      /\ delivered' = Append(delivered, inHand)
      /\ UNCHANGED <<pending, mainVars, atServer, fromServer, asked>>
  BY DEF WriteClient, serverVars
<1>2. /\ Len(delivered') = Len(delivered) + 1 /\ Len(delivered) \in Nat
      /\ \A k \in 1..Len(delivered) : delivered'[k] = delivered[k]
      /\ delivered'[Len(delivered) + 1] = inHand
  BY <1>1, AppendFacts DEF IInv, TypeOK
<1>3. /\ inHand.type # "error"
      /\ Result(inHand) => inHand.id \in ClientIds /\ InHand(inHand.id)
  BY <1>1 DEF IInv, Routes, ShapeInv, InHand
<1>4. ASSUME NEW i \in ClientIds
      PROVE  /\ AtMain(i)' = AtMain(i) /\ AtServer(i)' = AtServer(i)
             /\ InPipe(i)' = InPipe(i) /\ ~InHand(i)'
             /\ AtClient(i)' = AtClient(i)
             /\ Done(i)' => Done(i) \/ InHand(i)
  <2>1. /\ AtMain(i)' = AtMain(i) /\ AtServer(i)' = AtServer(i)
        /\ InPipe(i)' = InPipe(i) /\ ~InHand(i)'
        /\ AtClient(i)' = AtClient(i)
    BY <1>1 DEF AtMain, AtServer, InPipe, InHand, AtClient, Result, mainVars
  <2>2. Done(i)' => Done(i) \/ InHand(i)
    BY <1>1, <1>2, <1>3 DEF Done, InHand, IsAnswer, Result
  <2> QED
    BY <2>1, <2>2
<1>5. ShapeInv'
  <2>1. \A k \in 1..Len(delivered') : IsAnswer(delivered'[k]) => delivered'[k].id \in ClientIds
    BY <1>2, <1>3 DEF IInv, Routes, ShapeInv, IsAnswer, Result
  <2> QED
    BY <1>1, <2>1 DEF IInv, Routes, ShapeInv, Result, IsAnswer, mainVars
<1>6. PlaceInv'
  <2> SUFFICES ASSUME NEW i \in ClientIds PROVE OnePlace(i)'
    BY DEF PlaceInv
  <2>1. OnePlace(i) /\ asked' = asked
    BY <1>1 DEF IInv, Routes, PlaceInv
  <2> QED
    BY <1>4, <2>1 DEF OnePlace
<1>7. OnceInv'
  <2>1. \A k \in 1..Len(delivered) :
          IsAnswer(delivered[k]) /\ IsAnswer(inHand) => delivered[k].id # inHand.id
    BY <1>3 DEF IInv, Routes, PlaceInv, OnePlace, Done, IsAnswer, Result
  <2>2. \A j, k \in 1..Len(delivered') :
          IsAnswer(delivered'[j]) /\ IsAnswer(delivered'[k])
            /\ delivered'[j].id = delivered'[k].id => j = k
    BY <1>2, <2>1 DEF IInv, Routes, OnceInv
  <2> QED
    BY <1>1, <2>2 DEF IInv, Routes, OnceInv, Result, IsAnswer
<1>8. MethodInv'
  <2> SUFFICES ASSUME NEW i \in ClientIds, AtMain(i)' \/ AtServer(i)' \/ InPipe(i)'
               PROVE  pending'[i] = asked'[i]
    BY DEF MethodInv
  <2> QED
    BY <1>1, <1>4 DEF IInv, Routes, MethodInv
<1>9. FilterInv'
  <2>1. \A k \in 1..Len(delivered') : Clean(delivered'[k])
    BY <1>1, <1>2 DEF IInv, Routes, FilterInv
  <2> QED
    BY <1>1, <2>1 DEF FilterInv, Clean, Result
<1> QED
  BY <1>5, <1>6, <1>7, <1>8, <1>9 DEF Routes

----------------------------------------------------------------------------
(* The theorems.                                                           *)

LEMMA StepRoutes ==
  ASSUME DistinctIds, IInv, [Next]_vars
  PROVE  Routes'
<1>u. CASE UNCHANGED vars
  BY <1>u, QuietStep DEF vars
<1>1. ASSUME NEW m \in ClientLines, Accept(m) \/ Refuse(m) \/ RefuseLogFails(m)
      PROVE  Routes'
  BY <1>1, AcceptStep, RefuseStep
<1>2. ASSUME NEW f \in Frames, OddLine(f) PROVE Routes'
  <2>1. main' # "toClient" /\ held'.type \notin Methods
    BY <1>2, ProxyAssumption DEF OddLine, Line, Methods, ProxyAssumption
  <2> QED
    BY <1>2, <2>1, QuietStep DEF OddLine, readerVars, serverVars
<1>3. CASE WriteServer \/ WriteError
  BY <1>3, WriteServerStep, WriteErrorStep
<1>4. ASSUME EndOfInput \/ DrainOver \/ Terminate \/ Wait \/ Kill \/ ServerExit
               \/ \E s \in Signals : Signal(s)
      PROVE  Routes'
  <2>1. \/ main' = main /\ held' = held
        \/ main' \notin {"toClient", "toServer"}
    BY <1>4 DEF EndOfInput, DrainOver, Terminate, Wait, Kill, ServerExit, Signal,
                mainVars
  <2>2. atServer' \subseteq atServer
    BY <1>4 DEF EndOfInput, DrainOver, Terminate, Wait, Kill, ServerExit, Signal,
                serverVars
  <2>3. UNCHANGED <<reader, inHand, fromServer, asked, pending, delivered>>
    BY <1>4 DEF EndOfInput, DrainOver, Terminate, Wait, Kill, ServerExit, Signal,
                readerVars, serverVars
  <2> QED
    BY <2>1, <2>2, <2>3, QuietStep
<1>5. ASSUME NEW q \in atServer, NEW ts \in Listings \cup {{}}, ServerAnswer(q, ts)
      PROVE  Routes'
  BY <1>5, AnswerStep
<1>6. ASSUME NEW i \in ServerIds, ServerRequest(i) PROVE Routes'
  <2> DEFINE m == Line("request", i, {}, FALSE)
  <2>1. m \in Lines /\ m.type = "request" /\ m.id = i
    BY DEF Types, Ids, Line, Lines
  <2>2. Emit(m) /\ UNCHANGED <<pending, mainVars, readerVars, atServer, asked, delivered>>
    BY <1>6 DEF ServerRequest
  <2> HIDE DEF m
  <2> QED
    BY <2>1, <2>2, EmitOtherStep
<1>7. ASSUME NEW f \in Frames, ServerOddLine(f) PROVE Routes'
  <2> DEFINE m == Line(f, None, {}, FALSE)
  <2>1. f \in {"text", "batch"}
    BY ProxyAssumption DEF ProxyAssumption
  <2>2. m \in Lines /\ m.type = f /\ m.id = None
    BY <2>1 DEF Types, Line, Lines
  <2>3. Emit(m) /\ UNCHANGED <<pending, mainVars, readerVars, atServer, asked, delivered>>
    BY <1>7 DEF ServerOddLine
  <2> HIDE DEF m
  <2> QED
    BY <2>1, <2>2, <2>3, EmitOtherStep
<1>8. CASE ReadServer \/ ReadLogFails
  BY <1>8, ReadStep
<1>9. CASE WriteClient
  BY <1>9, DeliverStep
<1>10. CASE ReaderEnd \/ DeliverFails \/ WriteErrorFails
  BY <1>10, QuietStep
     DEF ReaderEnd, DeliverFails, WriteErrorFails, mainVars, readerVars, serverVars
<1> QED
  BY <1>u, <1>1, <1>2, <1>3, <1>4, <1>5, <1>6, <1>7, <1>8, <1>9, <1>10
     DEF Next, MainStep, ReaderStep, ClientStep, ServerStep

\* The routes of the requests are as the invariant says, at every step of
\* either thread and of the server.
THEOREM Inductive == ASSUME DistinctIds PROVE Spec => []IInv
<1>1. Init => IInv
  BY InitType, InitRoutes DEF IInv
<1>2. IInv /\ [Next]_vars => IInv'
  BY StepType, StepRoutes DEF IInv
<1> QED
  BY <1>1, <1>2, PTL DEF Spec

\* No tool outside the passport is offered to the client by a tools/list
\* that strict mode strips, however the two threads interleave.
THEOREM ListFilteredSafe == ASSUME DistinctIds PROVE Spec => []ListFiltered
<1>1. IInv => ListFiltered
  <2> SUFFICES ASSUME IInv PROVE ListFiltered
    OBVIOUS
  <2>1. DOMAIN delivered = 1..Len(delivered)
    BY DEF IInv, TypeOK
  <2> QED
    BY <2>1 DEF IInv, Routes, FilterInv, Clean, Result, ListFiltered
<1> QED
  BY <1>1, Inductive, PTL

\* No request is answered twice, so a call the policy refused is not run.
THEOREM OneAnswerSafe == ASSUME DistinctIds PROVE Spec => []OneAnswer
<1>1. IInv => OneAnswer
  <2> SUFFICES ASSUME IInv PROVE OneAnswer
    OBVIOUS
  <2>1. DOMAIN delivered = 1..Len(delivered)
    BY DEF IInv, TypeOK
  <2> QED
    BY <2>1 DEF IInv, Routes, OnceInv, OneAnswer
<1> QED
  BY <1>1, Inductive, PTL

----------------------------------------------------------------------------
(* What pending_requests remembers, and what the audit log claims.         *)

Ending == {"drain", "close", "wait", "exited"}
Refusal(i) == \E e \in log : e.id = i /\ e.action = "Blocked"
OnItsWay(i) == AtMain(i) \/ AtServer(i) \/ InPipe(i)

\* An entry stands for a request that is under way, unless the proxy refused
\* it or the session is over.
Owed(i) == pending[i] # None =>
             OnItsWay(i) \/ ~Running \/ main \in Ending \/ Refusal(i)
OwedInv == \A i \in ClientIds : Owed(i)

\* An event "Stripped" is about a list that has been read, so no other list
\* under its id is still to come; the reader's copy and the client's lack the
\* tools it names.
Told(e) ==
  /\ e.id \in ClientIds /\ asked[e.id] # None /\ ~OnItsWay(e.id)
  /\ InHand(e.id) => inHand.tools \cap e.tools = {}
  /\ \A k \in 1..Len(delivered) :
       Result(delivered[k]) /\ delivered[k].id = e.id
         => delivered[k].tools \cap e.tools = {}
ToldInv == Strip => \A e \in log : e.action = "Stripped" => Told(e)

\* A step that moves no request, brings no entry and refuses nothing.
LEMMA IdleStep ==
  ASSUME OwedInv, ToldInv, log' = log, asked' = asked, pending' = pending,
         atServer' = atServer, fromServer' = fromServer, server' = server,
         main' \in Ending \/ \A i \in ClientIds : AtMain(i)' = AtMain(i),
         \A i \in ClientIds : AtMain(i)' => AtMain(i),
         main \in Ending => main' \in Ending,
         delivered' = delivered,
         \A i \in ClientIds : InHand(i)' => InHand(i) /\ inHand' = inHand
  PROVE  OwedInv' /\ ToldInv'
<1>1. \A i \in ClientIds : /\ AtServer(i)' = AtServer(i) /\ InPipe(i)' = InPipe(i)
                           /\ Refusal(i)' = Refusal(i)
  BY DEF AtServer, InPipe, Refusal, Result
<1>2. OwedInv'
  BY <1>1 DEF OwedInv, Owed, OnItsWay, Running
<1>3. ASSUME NEW e \in log, Told(e) PROVE Told(e)'
  BY <1>1, <1>3 DEF Told, OnItsWay, Result
<1> QED
  BY <1>2, <1>3 DEF ToldInv

\* The client sends a line.
LEMMA AskTold ==
  ASSUME IInv, OwedInv, ToldInv, NEW m \in ClientLines,
         Accept(m) \/ Refuse(m) \/ RefuseLogFails(m)
  PROVE  OwedInv' /\ ToldInv'
<1> DEFINE event(a) == [event |-> "POLICY_VIOLATION", id |-> m.id,
                        tools |-> m.tools, action |-> a]
<1>e. \A a : event(a).action = a /\ event(a).id = m.id
  OBVIOUS
<1>l. /\ log' = log \/ \E a \in {"Blocked", "Logged"} : log' = log \cup {event(a)}
      /\ Refuse(m) => log' = log \cup {event("Blocked")}
  BY DEF Accept, Refuse, RefuseLogFails
<1> HIDE DEF event
<1>1. /\ main = "read" /\ MaySend(m) /\ pending' = Registered(m)
      /\ UNCHANGED <<reader, inHand, fromServer, atServer, server, delivered>>
      /\ log \subseteq log'
      /\ \A e \in log' : e.action = "Stripped" => e \in log
  BY <1>e, <1>l DEF Accept, Refuse, RefuseLogFails, readerVars, serverVars
<1>2. asked' = (IF m.type \in Methods /\ m.id # None
                THEN [asked EXCEPT ![m.id] = m.type] ELSE asked)
  BY DEF Accept, Refuse, RefuseLogFails, Refused, Methods
<1>3. ASSUME NEW i \in ClientIds
      PROVE  /\ ~AtMain(i) /\ AtServer(i)' = AtServer(i) /\ InPipe(i)' = InPipe(i)
             /\ InHand(i)' = InHand(i) /\ (Refusal(i) => Refusal(i)')
  BY <1>1 DEF AtMain, AtServer, InPipe, InHand, Result, Refusal
<1>4. ASSUME NEW i \in ClientIds, pending'[i] # None
      PROVE  pending[i] # None \/ (m.id = i /\ m.type \in Methods)
  BY <1>1, <1>4 DEF Registered, IInv, TypeOK, Ids
<1>5. ASSUME m.type \in Methods, m.id # None
      PROVE  AtMain(m.id)' \/ main' \in Ending \/ Refusal(m.id)'
  <2>1. CASE Accept(m)
    BY <1>5, <2>1 DEF Accept, AtMain
  <2>2. CASE Refuse(m)
    BY <1>e, <1>l, <2>2 DEF Refusal
  <2>3. CASE RefuseLogFails(m)
    BY <2>3 DEF RefuseLogFails, Ending
  <2> QED BY <2>1, <2>2, <2>3
<1>6. OwedInv'
  <2> SUFFICES ASSUME NEW i \in ClientIds, pending'[i] # None
               PROVE  OnItsWay(i)' \/ ~Running' \/ main' \in Ending \/ Refusal(i)'
    BY DEF OwedInv, Owed
  <2>1. CASE m.id = i /\ m.type \in Methods
    BY <1>5, <2>1, ProxyAssumption DEF ProxyAssumption, OnItsWay
  <2>2. CASE pending[i] # None
    BY <1>1, <1>3, <2>2 DEF OwedInv, Owed, OnItsWay, Running, Ending
  <2> QED BY <1>4, <2>1, <2>2
<1>7. ToldInv'
  <2> SUFFICES ASSUME NEW e \in log, Told(e), e.action = "Stripped" PROVE Told(e)'
    BY <1>1 DEF ToldInv
  <2>1. e.id \in ClientIds /\ asked[e.id] # None /\ e.id # None
    BY ProxyAssumption DEF ProxyAssumption, Told
  <2>2. m.type \in Methods /\ m.id # None => m.id # e.id
    BY <1>1, <2>1, Fresh
  <2>3. asked'[e.id] # None
    BY <1>2, <2>1, <2>2
  <2>4. ~AtMain(e.id)'
    <3>1. CASE Accept(m)
      BY <2>1, <2>2, <3>1 DEF Accept, AtMain
    <3>2. CASE Refuse(m) \/ RefuseLogFails(m)
      BY <1>1, <3>2 DEF Refuse, RefuseLogFails, AtMain
    <3> QED BY <3>1, <3>2
  <2> QED BY <1>1, <1>3, <2>1, <2>3, <2>4 DEF Told, OnItsWay, Result
<1> QED BY <1>6, <1>7

\* The main thread writes to the server.
LEMMA WriteTold ==
  ASSUME IInv, OwedInv, ToldInv, WriteServer
  PROVE  OwedInv' /\ ToldInv'
<1>1. /\ main = "toServer" /\ UNCHANGED <<pending, reader, inHand, fromServer,
                                          server, asked, delivered, log>>
      /\ \/ main' \in Ending /\ atServer' = atServer
         \/ main' = "read" /\ atServer' = IF held.type \in Methods /\ held.id # None
                                          THEN atServer \cup {held} ELSE atServer
  BY DEF WriteServer, readerVars, Ending
<1>2. ASSUME NEW i \in ClientIds
      PROVE  /\ ~AtMain(i)' /\ InPipe(i)' = InPipe(i) /\ InHand(i)' = InHand(i)
             /\ Refusal(i)' = Refusal(i)
             /\ AtServer(i)' => AtServer(i) \/ AtMain(i)
             /\ AtServer(i) => AtServer(i)'
             /\ AtMain(i) => AtServer(i)' \/ main' \in Ending
  <2>1. i # None
    BY ProxyAssumption DEF ProxyAssumption
  <2> QED
    BY <1>1, <2>1 DEF AtMain, AtServer, InPipe, InHand, Result, Refusal, Ending
<1>3. OwedInv'
  BY <1>1, <1>2 DEF OwedInv, Owed, OnItsWay, Running, Ending
<1>4. ASSUME NEW e \in log, Told(e) PROVE Told(e)'
  BY <1>1, <1>2, <1>4 DEF Told, OnItsWay, Result
<1> QED BY <1>1, <1>3, <1>4 DEF ToldInv

\* A line is written to the client, by either thread.
LEMMA DeliverTold ==
  ASSUME IInv, OwedInv, ToldInv, WriteError \/ WriteClient
  PROVE  OwedInv' /\ ToldInv'
<1>1. UNCHANGED <<pending, asked, fromServer, atServer, server, log>>
  BY DEF WriteError, WriteClient, mainVars, readerVars, serverVars
<1>2. PICK x \in Lines : /\ delivered' = Append(delivered, x)
                         /\ Result(x) => InHand(x.id) /\ x = inHand
  <2>1. CASE WriteError
    BY <2>1 DEF WriteError, IInv, TypeOK, Routes, ShapeInv, Result
  <2>2. CASE WriteClient
    BY <2>2 DEF WriteClient, IInv, TypeOK, InHand, Result
  <2> QED BY <2>1, <2>2
<1>3. /\ Len(delivered') = Len(delivered) + 1 /\ Len(delivered) \in Nat
      /\ \A k \in 1..Len(delivered) : delivered'[k] = delivered[k]
      /\ delivered'[Len(delivered) + 1] = x
  BY <1>2, AppendFacts DEF IInv, TypeOK
<1>4. ASSUME NEW i \in ClientIds
      PROVE  /\ AtMain(i)' = AtMain(i) /\ AtServer(i)' = AtServer(i)
             /\ InPipe(i)' = InPipe(i) /\ Refusal(i)' = Refusal(i)
             /\ InHand(i)' => InHand(i) /\ inHand' = inHand
  BY <1>1 DEF WriteError, WriteClient, mainVars, readerVars, AtMain, AtServer,
              InPipe, Refusal, Result, InHand
<1>5. main \in Ending => main' \in Ending
  BY DEF WriteError, WriteClient, mainVars, Ending
<1>6. OwedInv'
  BY <1>1, <1>4, <1>5 DEF OwedInv, Owed, OnItsWay, Running
<1>7. ASSUME NEW e \in log, Told(e) PROVE Told(e)'
  <2>1. \A k \in 1..Len(delivered') :
          Result(delivered'[k]) /\ delivered'[k].id = e.id
            => delivered'[k].tools \cap e.tools = {}
    BY <1>2, <1>3, <1>7 DEF Told
  <2> QED BY <1>1, <1>4, <1>7, <2>1 DEF Told, OnItsWay, Result
<1> QED BY <1>1, <1>6, <1>7 DEF ToldInv

\* The server writes a line.
LEMMA EmitTold ==
  ASSUME IInv, OwedInv, ToldInv, NEW m \in Lines, Emit(m),
         UNCHANGED <<pending, main, held, reader, inHand, server, asked, delivered, log>>,
         \/ atServer' = atServer /\ ~Result(m)
         \/ \E q \in atServer : atServer' = atServer \ {q} /\ m.id = q.id /\ Result(m)
  PROVE  OwedInv' /\ ToldInv'
<1>1. /\ Len(fromServer') = Len(fromServer) + 1 /\ Len(fromServer) \in Nat
      /\ \A k \in 1..Len(fromServer) : fromServer'[k] = fromServer[k]
      /\ fromServer'[Len(fromServer) + 1] = m
  BY EmitFacts DEF IInv
<1>2. ASSUME NEW i \in ClientIds
      PROVE  /\ AtMain(i)' = AtMain(i) /\ InHand(i)' = InHand(i)
             /\ Refusal(i)' = Refusal(i)
             /\ InPipe(i) => InPipe(i)'
             /\ InPipe(i)' => InPipe(i) \/ AtServer(i)
             /\ AtServer(i)' => AtServer(i)
             /\ AtServer(i) => AtServer(i)' \/ InPipe(i)'
  <2>1. /\ AtMain(i)' = AtMain(i) /\ InHand(i)' = InHand(i)
        /\ Refusal(i)' = Refusal(i) /\ (AtServer(i)' => AtServer(i))
    BY DEF AtMain, InHand, Refusal, Result, AtServer
  <2>2. InPipe(i) => InPipe(i)'
    BY <1>1 DEF InPipe, Result
  <2>3. InPipe(i)' => InPipe(i) \/ (Result(m) /\ m.id = i)
    BY <1>1 DEF InPipe, Result
  <2>4. Result(m) /\ m.id = i => AtServer(i) /\ InPipe(i)'
    <3>1. Len(fromServer) + 1 \in 1..Len(fromServer')
      BY <1>1
    <3> QED BY <1>1, <3>1 DEF AtServer, InPipe, Result
  <2>5. AtServer(i) => AtServer(i)' \/ (Result(m) /\ m.id = i)
    BY DEF AtServer
  <2> QED BY <2>1, <2>2, <2>3, <2>4, <2>5
<1>3. OwedInv'
  BY <1>2 DEF OwedInv, Owed, OnItsWay, Running
<1>4. ASSUME NEW e \in log, Told(e) PROVE Told(e)'
  BY <1>2, <1>4 DEF Told, OnItsWay, Result
<1> QED BY <1>3, <1>4 DEF ToldInv

\* The reader takes a line; if it strips a list, it says so now.
LEMMA ReadTold ==
  ASSUME DistinctIds, IInv, OwedInv, ToldInv, ReadServer \/ ReadLogFails
  PROVE  OwedInv' /\ ToldInv'
<1> DEFINE m == Head(fromServer)
<1>1. /\ fromServer # <<>> /\ fromServer' = Tail(fromServer) /\ reader = "read"
      /\ UNCHANGED <<main, held, atServer, server, asked, delivered>>
      /\ \/ reader' = "dead" /\ log' = log /\ pending' = pending /\ m.type = "batch"
         \/ reader' = "dead" /\ log' = log /\ pending' = Popped(m)
         \/ /\ reader' = "write" /\ inHand' = ForClient(m) /\ pending' = Popped(m)
            /\ log' = log \cup ShadowEvents(m)
  BY DEF ReadServer, ReadLogFails, mainVars
<1>2. /\ m \in Lines /\ m = fromServer[1] /\ Len(fromServer) \in Nat /\ Len(fromServer) > 0
      /\ Len(fromServer') = Len(fromServer) - 1
      /\ \A k \in 1..Len(fromServer') : fromServer'[k] = fromServer[k + 1]
                                           /\ k + 1 \in 1..Len(fromServer)
      /\ \A k \in 2..Len(fromServer) : fromServer[k] = fromServer'[k - 1]
                                          /\ k - 1 \in 1..Len(fromServer')
  BY <1>1, TailFacts DEF IInv, TypeOK
<1> HIDE DEF m
<1>3. 1 \in 1..Len(fromServer)
  BY <1>2
<1>4. /\ m.type \in {"result", "request", "text", "batch"}
      /\ Result(m) => m.id \in ClientIds /\ InPipe(m.id)
      /\ ~Result(m) => m.id \notin ClientIds
  BY <1>2, <1>3, ProxyAssumption
     DEF IInv, Routes, ShapeInv, InPipe, Result, DistinctIds, ProxyAssumption
<1>5. ASSUME NEW i \in ClientIds
      PROVE  /\ AtMain(i)' = AtMain(i) /\ AtServer(i)' = AtServer(i)
             /\ InPipe(i)' => InPipe(i) /\ ~(Result(m) /\ m.id = i)
             /\ InPipe(i) => InPipe(i)' \/ (Result(m) /\ m.id = i)
             /\ InHand(i)' => Result(m) /\ m.id = i
             /\ Refusal(i) => Refusal(i)'
  <2>1. AtMain(i)' = AtMain(i) /\ AtServer(i)' = AtServer(i)
    BY <1>1 DEF AtMain, AtServer
  <2>2. InPipe(i)' => InPipe(i) /\ ~(Result(m) /\ m.id = i)
    <3> SUFFICES ASSUME NEW k \in 1..Len(fromServer'), Result(fromServer'[k]),
                        fromServer'[k].id = i
                 PROVE  InPipe(i) /\ ~(Result(m) /\ m.id = i)
      BY DEF InPipe, Result
    <3>1. k + 1 \in 1..Len(fromServer) /\ fromServer'[k] = fromServer[k + 1] /\ k + 1 # 1
      BY <1>2
    <3>2. InPipe(i)
      BY <3>1 DEF InPipe
    <3>3. ~(Result(m) /\ m.id = i)
      BY <1>2, <1>3, <3>1 DEF IInv, Routes, OnceInv
    <3> QED BY <3>2, <3>3
  <2>3. InPipe(i) => InPipe(i)' \/ (Result(m) /\ m.id = i)
    <3> SUFFICES ASSUME NEW k \in 1..Len(fromServer), Result(fromServer[k]),
                        fromServer[k].id = i, k # 1
                 PROVE  InPipe(i)'
      BY <1>2 DEF InPipe
    <3>1. k - 1 \in 1..Len(fromServer') /\ fromServer'[k - 1] = fromServer[k]
      BY <1>2
    <3> QED BY <3>1 DEF InPipe, Result
  <2>4. InHand(i)' => Result(m) /\ m.id = i
    BY <1>1, <1>2, ForClientTyped DEF InHand, Result
  <2>5. Refusal(i) => Refusal(i)'
    BY <1>1 DEF Refusal
  <2> QED BY <2>1, <2>2, <2>3, <2>4, <2>5
<1>6. ASSUME NEW i \in ClientIds, pending'[i] # None
      PROVE  pending[i] # None /\ ~(Result(m) /\ m.id = i)
  <2>1. CASE pending' = Popped(m)
    BY <1>6, <2>1, ProxyAssumption DEF Popped, IInv, TypeOK, Ids, ProxyAssumption
  <2>2. CASE pending' = pending /\ m.type = "batch"
    BY <1>6, <2>2 DEF Result
  <2> QED BY <1>1, <2>1, <2>2
<1>7. OwedInv'
  BY <1>1, <1>5, <1>6 DEF OwedInv, Owed, OnItsWay, Running
<1>8. ASSUME NEW e \in log, Told(e) PROVE Told(e)'
  <2>1. ~(Result(m) /\ m.id = e.id)
    BY <1>4, <1>8 DEF Told, OnItsWay
  <2> QED BY <1>1, <1>5, <1>8, <2>1 DEF Told, OnItsWay, Result
<1>9. ASSUME Strip, NEW e \in ShadowEvents(m), log' = log \cup ShadowEvents(m),
             inHand' = ForClient(m), reader' = "write"
      PROVE  Told(e)'
  <2>1. /\ ListResult(m) /\ e.id = m.id /\ e.tools = {t \in m.tools : Shadow(t)}
    BY <1>9 DEF ShadowEvents
  <2>2. e.id \in ClientIds /\ InPipe(e.id) /\ Result(m)
    BY <1>4, <2>1 DEF ListResult, Result
  <2>3. OnePlace(e.id)
    BY <2>2 DEF IInv, Routes, PlaceInv
  <2>4. ~OnItsWay(e.id)' /\ asked'[e.id] # None
    BY <1>1, <1>5, <2>1, <2>2, <2>3 DEF OnePlace, OnItsWay
  <2>5. \A t \in inHand'.tools : ~Shadow(t)
    BY <1>2, <1>9, <2>1, ForClientTyped
  <2>6. \A k \in 1..Len(delivered) : ~(Result(delivered[k]) /\ delivered[k].id = e.id)
    BY <2>2, <2>3 DEF OnePlace, Done, IsAnswer, Result
  <2> QED BY <1>1, <2>1, <2>2, <2>4, <2>5, <2>6 DEF Told, Result
<1> QED BY <1>1, <1>7, <1>8, <1>9 DEF ToldInv

LEMMA StepTold ==
  ASSUME DistinctIds, IInv, OwedInv, ToldInv, [Next]_vars
  PROVE  OwedInv' /\ ToldInv'
<1>u. CASE UNCHANGED vars
  BY <1>u, IdleStep DEF vars, AtMain, InHand
<1>1. ASSUME NEW m \in ClientLines, Accept(m) \/ Refuse(m) \/ RefuseLogFails(m)
      PROVE  OwedInv' /\ ToldInv'
  BY <1>1, AskTold
<1>2. ASSUME NEW f \in Frames, OddLine(f) PROVE OwedInv' /\ ToldInv'
  <2>1. main = "read" /\ held'.type \notin Methods
    BY <1>2, ProxyAssumption DEF OddLine, Line, Methods, ProxyAssumption
  <2> QED
    BY <1>2, <2>1, IdleStep
       DEF OddLine, readerVars, serverVars, AtMain, InHand, Ending
<1>3. CASE WriteServer \/ WriteError \/ WriteClient
  BY <1>3, WriteTold, DeliverTold
<1>4. ASSUME EndOfInput \/ DrainOver \/ WriteErrorFails \/ \E s \in Signals : Signal(s)
      PROVE  OwedInv' /\ ToldInv'
  BY <1>4, IdleStep DEF EndOfInput, DrainOver, WriteErrorFails, Signal,
                        readerVars, serverVars, AtMain, InHand, Ending
<1>5. CASE Terminate \/ Wait \/ Kill \/ ServerExit
  <2>1. /\ UNCHANGED <<pending, asked, delivered, log, fromServer, reader, inHand, held>>
        /\ atServer' \subseteq atServer
        /\ ~Running' \/ main' \in Ending
        /\ main' = main \/ main' \in Ending
    BY <1>5 DEF Terminate, Wait, Kill, ServerExit, Running, Ending, mainVars,
                readerVars
  <2>2. ASSUME NEW e \in log, Told(e) PROVE Told(e)'
    BY <2>1, <2>2 DEF Told, OnItsWay, AtMain, AtServer, InPipe, InHand, Result, Ending
  <2> QED BY <2>1, <2>2 DEF OwedInv, Owed, ToldInv
<1>6. ASSUME NEW q \in atServer, NEW ts \in Listings \cup {{}}, ServerAnswer(q, ts)
      PROVE  OwedInv' /\ ToldInv'
  <2> DEFINE m == Line("result", q.id, ts, FALSE)
  <2>1. m \in Lines /\ Result(m) /\ m.id = q.id
    <3>1. q.id \in Ids \cup {None} /\ ts \in SUBSET Tools /\ "result" \in Types
      BY ProxyAssumption, LineFields DEF IInv, TypeOK, Types, ProxyAssumption
    <3> QED BY <3>1 DEF Result, Line, Lines
  <2>2. Emit(m) /\ atServer' = atServer \ {q}
        /\ UNCHANGED <<pending, main, held, reader, inHand, server, asked, delivered, log>>
    BY <1>6 DEF ServerAnswer, mainVars, readerVars
  <2> HIDE DEF m
  <2> QED BY <2>1, <2>2, EmitTold
<1>7. ASSUME NEW i \in ServerIds, ServerRequest(i) PROVE OwedInv' /\ ToldInv'
  <2> DEFINE m == Line("request", i, {}, FALSE)
  <2>1. m \in Lines /\ ~Result(m)
    BY DEF Types, Ids, Line, Lines, Result
  <2>2. Emit(m) /\ atServer' = atServer
        /\ UNCHANGED <<pending, main, held, reader, inHand, server, asked, delivered, log>>
    BY <1>7 DEF ServerRequest, mainVars, readerVars
  <2> HIDE DEF m
  <2> QED BY <2>1, <2>2, EmitTold
<1>8. ASSUME NEW f \in Frames, ServerOddLine(f) PROVE OwedInv' /\ ToldInv'
  <2> DEFINE m == Line(f, None, {}, FALSE)
  <2>1. f \in {"text", "batch"}
    BY ProxyAssumption DEF ProxyAssumption
  <2>2. m \in Lines /\ ~Result(m)
    BY <2>1 DEF Types, Line, Lines, Result
  <2>3. Emit(m) /\ atServer' = atServer
        /\ UNCHANGED <<pending, main, held, reader, inHand, server, asked, delivered, log>>
    BY <1>8 DEF ServerOddLine, mainVars, readerVars
  <2> HIDE DEF m
  <2> QED BY <2>2, <2>3, EmitTold
<1>9. CASE ReadServer \/ ReadLogFails
  BY <1>9, ReadTold
<1>10. CASE ReaderEnd \/ DeliverFails
  BY <1>10, IdleStep DEF ReaderEnd, DeliverFails, mainVars, serverVars, AtMain, InHand
<1> QED
  BY <1>u, <1>1, <1>2, <1>3, <1>4, <1>5, <1>6, <1>7, <1>8, <1>9, <1>10
     DEF Next, MainStep, ReaderStep, ClientStep, ServerStep

\* At the start nothing is remembered and nothing was logged.
LEMMA InitTold == Init => OwedInv /\ ToldInv
<1> SUFFICES ASSUME Init PROVE OwedInv /\ ToldInv
  OBVIOUS
<1>1. \A i \in ClientIds : pending[i] = None
  BY DEF Init, Ids
<1> QED
  BY <1>1 DEF Init, OwedInv, Owed, ToldInv

\* Both hold at every step of the two threads and the server.
THEOREM ToldAlways == ASSUME DistinctIds PROVE Spec => [](OwedInv /\ ToldInv)
<1>1. IInv /\ (OwedInv /\ ToldInv) /\ [Next]_vars => (OwedInv /\ ToldInv)'
  BY StepTold
<1> QED
  BY <1>1, InitTold, Inductive, PTL DEF Spec

\* pending_requests is exact: it holds the method of every request on its way
\* and, while the session lasts and the server lives, of no other request but
\* those the proxy refused.
THEOREM PendingExactSafe == ASSUME DistinctIds PROVE Spec => []PendingExact
<1>1. IInv /\ (OwedInv /\ ToldInv) => PendingExact
  <2> SUFFICES ASSUME IInv, OwedInv, NEW i \in ClientIds
               PROVE  /\ Outstanding(i) => pending[i] = asked[i] /\ pending[i] # None
                      /\ pending[i] # None =>
                           \/ Outstanding(i) \/ ~Running
                           \/ main \in {"drain", "close", "wait", "exited"}
                           \/ \E e \in log : e.id = i /\ e.action = "Blocked"
    BY DEF PendingExact
  <2>1. DOMAIN fromServer = 1..Len(fromServer)
    BY DEF IInv, TypeOK
  <2>2. Outstanding(i) <=> OnItsWay(i)
    BY <2>1 DEF Outstanding, OnItsWay, AtMain, AtServer, InPipe, Result
  <2>3. OnItsWay(i) => pending[i] = asked[i] /\ asked[i] # None
    BY DEF OnItsWay, IInv, Routes, MethodInv, PlaceInv, OnePlace
  <2>4. Owed(i)
    BY DEF OwedInv
  <2> QED
    BY <2>2, <2>3, <2>4 DEF Owed, Refusal, Ending
<1> QED
  BY <1>1, Inductive, ToldAlways, PTL

\* What the audit log calls stripped was not offered to the client, before or
\* after the event was written.
THEOREM LogTruthfulSafe ==
  ASSUME DistinctIds, Strip PROVE Spec => []LogTruthful
<1>1. IInv /\ (OwedInv /\ ToldInv) => LogTruthful
  <2> SUFFICES ASSUME IInv, ToldInv PROVE LogTruthful
    OBVIOUS
  <2>1. DOMAIN delivered = 1..Len(delivered)
    BY DEF IInv, TypeOK
  <2> QED
    BY <2>1 DEF ToldInv, Told, LogTruthful, Result
<1> QED
  BY <1>1, Inductive, ToldAlways, PTL

\* A proxy that returns has waited for its server, when the server obeys
\* SIGTERM and the proxy itself is interrupted, not killed.
THEOREM ChildReapedSafe ==
  ASSUME ~Stubborn, Signals \subseteq {"INT"} PROVE Spec => []ChildReaped
<1>1. Init => ChildReaped
  BY DEF Init, ChildReaped
<1>2. ASSUME ChildReaped, [Next]_vars PROVE ChildReaped'
  <2>1. CASE UNCHANGED <<main, server>>
    BY <1>2, <2>1 DEF ChildReaped
  <2>2. CASE MainStep
    BY <1>2, <2>2 DEF ChildReaped, MainStep, WriteServer, WriteError,
       WriteErrorFails, DrainOver, Terminate, Wait, Kill, serverVars
  <2>3. CASE ReaderStep
    BY <1>2, <2>3 DEF ChildReaped, ReaderStep, ReadServer, ReadLogFails,
       WriteClient, DeliverFails, ReaderEnd, mainVars, serverVars
  <2>4. CASE ClientStep
    BY <1>2, <2>4 DEF ChildReaped, ClientStep, Accept, Refuse, RefuseLogFails,
       OddLine, EndOfInput, Signal, serverVars
  <2>5. CASE ServerStep
    BY <1>2, <2>5 DEF ChildReaped, ServerStep, ServerAnswer, ServerRequest,
       ServerOddLine, ServerExit, mainVars
  <2> QED
    BY <1>2, <2>1, <2>2, <2>3, <2>4, <2>5 DEF Next, vars
<1> QED
  BY <1>1, <1>2, PTL DEF Spec
=============================================================================
