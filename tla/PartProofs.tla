----------------------------- MODULE PartProofs -----------------------------
(***************************************************************************)
(* For any identifiers, aliases, deliveries and scores, surfaces, engines, *)
(* clients and restarts: what a probe, a sandbox and the bridge leave      *)
(* behind and report, whatever the other side does; the alias graph is a   *)
(* shallow forest and implements a partition whose clusters only grow      *)
(* together, the index lists every advisory of the store once, no step of  *)
(* the parts of DataFiles that keep what they know goes back, and every    *)
(* part keeps its types.                                                   *)
(***************************************************************************)
EXTENDS FileProofs, SequenceTheorems

-----------------------------------------------------------------------------
(* A probe of a server.                                                    *)

\* The surfaces the probe asks for, Listings of the instance.
ProbeListings == <<"tools", "prompts", "resources">>

\* What the server owes an answer.
Request == [what : DOMAIN Probe!Requests, id : 1..4]

\* The listings asked for up to the k-th request.
AskedUpTo(k, offered) == Cardinality({j \in 2..k : Probe!Asked(j, offered)})

Reading == {"send", "wait", "notify"}
Quiet   == probe_strays = 0 /\ probe_refused = 0

\* The next id follows from the place in the list of requests.
ProbeIds ==
  /\ probe_pc \in {"idle", "opening"} => probe_messageId = 1
  /\ probe_pc \in {"idle", "opening", "notify"} => probe_asking = 1
  /\ probe_pc = "send" => probe_messageId = 1 + AskedUpTo(probe_asking, probe_caps)
  /\ probe_pc = "wait" => probe_messageId = 2 + AskedUpTo(probe_asking, probe_caps)
  /\ probe_pc = "notify" => probe_messageId = 2
  /\ probe_pc \in {"send", "wait"} /\ probe_asking # 1
       => Probe!Asked(probe_asking, probe_caps)
  /\ probe_refused + Len(probe_owed) <= probe_messageId - 1
  /\ \A n \in 1..Len(probe_owed) : probe_owed[n].id < probe_messageId

\* A surface is unread until its request is waited for.
ProbeUnread ==
  /\ probe_asking = 1 => \A s \in Probe!Surfaces : probe_surface[s] = Probe!Unread
  /\ probe_pc \in {"send", "wait"} =>
       \A k \in 2..4 : k >= probe_asking
         => probe_surface[Probe!Requests[k]] = Probe!Unread

\* Without strays and refusals the one message on its way is the answer that
\* is waited for, and no surface behind it was missed.
ProbeQuiet ==
  Quiet =>
    /\ probe_pc \in {"idle", "opening", "send", "notify"} => probe_wire = <<>>
         /\ probe_owed = <<>>
    /\ probe_pc = "wait" =>
         \/ probe_wire = <<>> /\ probe_owed = <<>>
         \/ probe_wire = <<>> /\ Len(probe_owed) = 1
              /\ probe_owed[1].id = probe_messageId - 1
         \/ probe_owed = <<>> /\ Len(probe_wire) = 1
              /\ probe_wire[1] = [type |-> "answer", id |-> probe_messageId - 1]
    /\ probe_pc \in {"send", "wait"} =>
         \A k \in 2..4 : k < probe_asking /\ Probe!Asked(k, probe_caps)
           => probe_surface[Probe!Requests[k]] # Probe!Unread
    /\ probe_outcome = "ok" =>
         \A k \in 2..4 : Probe!Asked(k, probe_caps)
           => probe_surface[Probe!Requests[k]] # Probe!Unread

\* How far the start and the end of the transport have come.
ProbeEnding ==
  /\ probe_kind = "none" <=> probe_pc = "idle"
  /\ probe_pc = "idle" => ~probe_up
  /\ probe_pc = "opening" => probe_kind = "sse"
  /\ probe_pc = "closing" => probe_kind = "stdio" /\ ~probe_up /\ probe_stopped
  /\ probe_outcome = "ok" => probe_pc \in {"stopping", "closing", "ended"}
  /\ Probe!NothingLeft

ProbeInv == Probe!TypeOK /\ ProbeIds /\ ProbeUnread /\ Probe!OwnAnswers
  /\ ProbeQuiet /\ ProbeEnding

LEMMA ProbeRequests ==
  ASSUME Probe!ProbeSessionAssumption
  PROVE  /\ DOMAIN Probe!Requests = 1..4 /\ Probe!Requests[2] = "tools"
         /\ Probe!Requests[3] = "prompts" /\ Probe!Requests[4] = "resources"
         /\ Probe!Surfaces = {"tools", "prompts", "resources"}
<1> DEFINE T == {"initialize", "tools", "prompts", "resources"}
<1>1. ProbeListings = <<"tools", "prompts", "resources">>
  BY DEF ProbeListings
<1>2. /\ <<"initialize">> \in Seq(T) /\ Len(<<"initialize">>) = 1
      /\ ProbeListings \in Seq(T) /\ Len(ProbeListings) = 3
  BY <1>1
<1>3. /\ Probe!Requests \in Seq(T) /\ Len(Probe!Requests) = 4
      /\ \A i \in 1..4 :
           Probe!Requests[i] = IF i <= 1 THEN <<"initialize">>[i]
                                         ELSE ProbeListings[i - 1]
  <2>1. ASSUME NEW a \in Seq(T), NEW b \in Seq(T), Len(a) = 1, Len(b) = 3
        PROVE  /\ a \o b \in Seq(T) /\ Len(a \o b) = 4
               /\ \A i \in 1..4 : (a \o b)[i] = IF i <= 1 THEN a[i] ELSE b[i - 1]
    <3>1. /\ a \o b \in Seq(T) /\ Len(a \o b) = Len(a) + Len(b)
          /\ \A i \in 1..(Len(a) + Len(b)) :
               (a \o b)[i] = IF i <= Len(a) THEN a[i] ELSE b[i - Len(a)]
      BY ConcatProperties, Zenon
    <3> QED
      BY <2>1, <3>1
  <2> QED
    BY <1>2, <2>1, Zenon DEF Probe!Requests, ProbeListings
<1>4. DOMAIN ProbeListings = 1..3
  BY <1>1
<1> QED
  BY <1>1, <1>3, <1>4 DEF Probe!Surfaces, ProbeListings

\* The cardinality the module counts with is the one of the library.
LEMMA ProbeSizes == \A S : Probe!Cardinality(S) = Cardinality(S)
BY DEF Probe!Cardinality, Cardinality

\* One more listing asked for is one more id used.
LEMMA ProbeCounts ==
  ASSUME NEW C
  PROVE  /\ AskedUpTo(1, C) = 0
         /\ \A k \in 1..4 : AskedUpTo(k, C) \in 0..(k - 1)
         /\ \A k \in 1..4 : \A j \in 2..4 :
              /\ k < j /\ Probe!Asked(j, C)
              /\ \A i \in 2..4 : k < i /\ i < j => ~Probe!Asked(i, C)
              => AskedUpTo(j, C) = AskedUpTo(k, C) + 1
<1> DEFINE S(k) == {i \in 2..k : Probe!Asked(i, C)}
<1>1. ASSUME NEW k \in 1..4
      PROVE  IsFiniteSet(S(k)) /\ AskedUpTo(k, C) \in 0..(k - 1)
  <2>1. IsFiniteSet(2..k) /\ Cardinality(2..k) = k - 1
    BY FS_Interval
  <2>2. S(k) \subseteq 2..k
    OBVIOUS
  <2>3. IsFiniteSet(S(k)) /\ Cardinality(S(k)) <= k - 1 /\ Cardinality(S(k)) \in Nat
    BY <2>1, <2>2, FS_Subset, FS_CardinalityType
  <2> QED
    BY <2>3 DEF AskedUpTo
<1>2. ASSUME NEW k \in 1..4, NEW j \in 2..4, k < j, Probe!Asked(j, C),
             \A i \in 2..4 : k < i /\ i < j => ~Probe!Asked(i, C)
      PROVE  AskedUpTo(j, C) = AskedUpTo(k, C) + 1
  <2>1. S(j) = S(k) \cup {j}
    <3>1. ASSUME NEW x PROVE x \in S(j) <=> x \in S(k) \cup {j}
      BY <1>2
    <3> QED
      BY <3>1
  <2>2. j \notin S(k) /\ IsFiniteSet(S(k))
    BY <1>1, <1>2
  <2> QED
    BY <2>1, <2>2, FS_AddElement DEF AskedUpTo
<1>3. AskedUpTo(1, C) = 0
  <2>1. AskedUpTo(1, C) \in 0..0
    BY <1>1
  <2> QED
    BY <2>1
<1> QED
  BY <1>1, <1>2, <1>3

LEMMA ProbeInit == Probe!ProbeSessionAssumption /\ Probe!Init => ProbeInv
<1> SUFFICES ASSUME Probe!ProbeSessionAssumption, Probe!Init PROVE ProbeInv
  OBVIOUS
<1> USE ProbeRequests DEF Probe!Init
<1>1. ProbeMaxStrays \in Nat
  BY DEF Probe!ProbeSessionAssumption
<1>2. probe_wire \in Seq(Probe!Messages) /\ probe_owed \in Seq(Request)
  OBVIOUS
<1>3. probe_stopped \in BOOLEAN /\ probe_up \in BOOLEAN
        /\ probe_helper \in BOOLEAN /\ probe_dangerous \in BOOLEAN
  BY Zenon
<1>4. probe_surface \in [Probe!Surfaces -> 0..4]
        /\ probe_caps \subseteq Probe!Surfaces
  BY DEF Probe!Unread
<1>5. Probe!TypeOK
  BY <1>1, <1>2, <1>3, <1>4 DEF Probe!TypeOK
<1>6. \A k \in 2..4 : Probe!Requests[k] \in Probe!Surfaces
  OBVIOUS
<1>7. ProbeIds /\ ProbeUnread /\ ProbeQuiet /\ ProbeEnding
  BY <1>6 DEF ProbeIds, ProbeUnread, ProbeQuiet, ProbeEnding, Probe!NothingLeft
<1>8. Probe!OwnAnswers
  BY <1>6 DEF Probe!OwnAnswers
<1> QED
  BY <1>5, <1>7, <1>8 DEF ProbeInv

\* What TakeListing and Notify do to the client's place.
LEMMA ProbeProceed ==
  ASSUME Probe!ProbeSessionAssumption, Probe!TypeOK, NEW C,
           Probe!Proceed(probe_asking, C)
  PROVE  \/ /\ probe_pc' = "stopping" /\ probe_outcome' = "ok"
                 /\ probe_asking' = probe_asking
            /\ \A i \in 2..4 : i > probe_asking => ~Probe!Asked(i, C)
         \/ /\ probe_pc' = "send" /\ probe_outcome' = probe_outcome
                 /\ probe_asking' \in 2..4 /\ probe_asking < probe_asking'
            /\ Probe!Asked(probe_asking', C)
                 /\ AskedUpTo(probe_asking', C) = AskedUpTo(probe_asking, C) + 1
            /\ \A i \in 2..4 : probe_asking < i /\ i < probe_asking'
                 => ~Probe!Asked(i, C)
<1> DEFINE rest == {j \in DOMAIN Probe!Requests : j > probe_asking
      /\ Probe!Asked(j, C)}
<1>1. DOMAIN Probe!Requests = 1..4 /\ probe_asking \in 1..4
  BY ProbeRequests DEF Probe!TypeOK
<1>2. CASE rest = {} /\ probe_pc' = "stopping" /\ probe_outcome' = "ok"
        /\ UNCHANGED probe_asking
  BY <1>1, <1>2
<1>3. ASSUME NEW j \in rest, \A i \in rest : j <= i,
             probe_asking' = j /\ probe_pc' = "send" /\ UNCHANGED probe_outcome
      PROVE  /\ probe_pc' = "send" /\ probe_outcome' = probe_outcome
                  /\ probe_asking' \in 2..4 /\ probe_asking < probe_asking'
             /\ Probe!Asked(probe_asking', C)
                  /\ AskedUpTo(probe_asking', C) = AskedUpTo(probe_asking, C) + 1
             /\ \A i \in 2..4 : probe_asking < i /\ i < probe_asking'
                  => ~Probe!Asked(i, C)
  <2>1. j \in 2..4 /\ probe_asking < j /\ Probe!Asked(j, C)
    BY <1>1
  <2>2. \A i \in 2..4 : probe_asking < i /\ i < j => ~Probe!Asked(i, C)
    BY <1>1, <1>3
  <2>3. AskedUpTo(j, C) = AskedUpTo(probe_asking, C) + 1
    BY <1>1, <2>1, <2>2, ProbeCounts
  <2> QED
    BY <1>3, <2>1, <2>2, <2>3
<1> QED
  BY <1>2, <1>3 DEF Probe!Proceed

\* The first message goes, one more comes.
LEMMA ProbeLines ==
  ASSUME NEW S, NEW q \in Seq(S)
  PROVE  /\ Len(q) \in Nat
         /\ q # <<>> => /\ Head(q) \in S /\ Tail(q) \in Seq(S) /\ Len(q) > 0
                        /\ Head(q) = q[1] /\ Len(Tail(q)) = Len(q) - 1
                        /\ \A n \in 1..(Len(q) - 1) : Tail(q)[n] = q[n + 1]
                        /\ Len(q) = 1 => Tail(q) = <<>>
         /\ \A m \in S : /\ Append(q, m) \in Seq(S)
              /\ Len(Append(q, m)) = Len(q) + 1
                         /\ Append(q, m)[Len(q) + 1] = m
                         /\ \A n \in 1..Len(q) : Append(q, m)[n] = q[n]
<1>1. ASSUME q # <<>>
      PROVE  /\ Head(q) \in S /\ Tail(q) \in Seq(S) /\ Len(q) > 0
             /\ Head(q) = q[1] /\ Len(Tail(q)) = Len(q) - 1
             /\ \A n \in 1..(Len(q) - 1) : Tail(q)[n] = q[n + 1]
             /\ Len(q) = 1 => Tail(q) = <<>>
  <2>1. /\ Tail(q) \in Seq(S) /\ Len(Tail(q)) = Len(q) - 1 /\ Head(q) = q[1]
             /\ Head(q) \in S
        /\ \A n \in 1..(Len(q) - 1) : Tail(q)[n] = q[n + 1]
    BY <1>1, HeadTailProperties
  <2>2. Len(q) \in Nat /\ Len(q) > 0
    BY <1>1, EmptySeq
  <2>3. ASSUME Len(q) = 1, Tail(q) # <<>> PROVE FALSE
    <3>1. Len(Tail(q)) \in Nat \ {0}
      BY <2>1, <2>3, EmptySeq
    <3> QED
      BY <2>1, <2>3, <3>1
  <2> QED
    BY <2>1, <2>2, <2>3
<1> QED
  BY <1>1, AppendProperties

\* Both queues, and what an action does to them.
LEMMA ProbeQueues ==
  ASSUME Probe!TypeOK
  PROVE  /\ Len(probe_wire) \in Nat /\ Len(probe_owed) \in Nat
         /\ probe_wire # <<>> => Head(probe_wire) \in Probe!Messages
              /\ Tail(probe_wire) \in Seq(Probe!Messages)
         /\ probe_owed # <<>> =>
              /\ Len(probe_owed) > 0 /\ Head(probe_owed) = probe_owed[1]
              /\ Head(probe_owed) \in Request /\ Tail(probe_owed) \in Seq(Request)
              /\ Len(Tail(probe_owed)) = Len(probe_owed) - 1
              /\ \A n \in 1..(Len(probe_owed) - 1) : Tail(probe_owed)[n] = probe_owed[n + 1]
              /\ Len(probe_owed) = 1 => Tail(probe_owed) = <<>>
<1>1. probe_wire \in Seq(Probe!Messages) /\ probe_owed \in Seq(Request)
  BY DEF Probe!TypeOK, Request
<1>2. /\ Len(probe_wire) \in Nat
      /\ probe_wire # <<>> => Head(probe_wire) \in Probe!Messages
           /\ Tail(probe_wire) \in Seq(Probe!Messages)
  BY <1>1, ProbeLines
<1>3. /\ Len(probe_owed) \in Nat
      /\ probe_owed # <<>> =>
           /\ Len(probe_owed) > 0 /\ Head(probe_owed) = probe_owed[1]
           /\ Head(probe_owed) \in Request /\ Tail(probe_owed) \in Seq(Request)
           /\ Len(Tail(probe_owed)) = Len(probe_owed) - 1
           /\ \A n \in 1..(Len(probe_owed) - 1) : Tail(probe_owed)[n] = probe_owed[n + 1]
           /\ Len(probe_owed) = 1 => Tail(probe_owed) = <<>>
  BY <1>1, ProbeLines
<1> QED
  BY <1>2, <1>3

\* The server answers the oldest request it got.
LEMMA ProbeReply ==
  ASSUME Probe!TypeOK, NEW type \in {"answer", "error"}, Probe!Reply(type)
  PROVE  /\ probe_wire' \in Seq(Probe!Messages) /\ probe_owed' \in Seq(Request)
         /\ Len(probe_owed) > 0 /\ Len(probe_owed') = Len(probe_owed) - 1
         /\ \A n \in 1..(Len(probe_owed) - 1) : probe_owed'[n] = probe_owed[n + 1]
         /\ Len(probe_owed) = 1 => probe_owed' = <<>>
         /\ probe_wire = <<>> => Len(probe_wire') = 1
              /\ probe_wire'[1] = [type |-> type, id |-> probe_owed[1].id]
<1> DEFINE m == [type |-> type, id |-> Head(probe_owed).id]
<1>1. probe_owed # <<>> /\ probe_owed' = Tail(probe_owed)
        /\ probe_wire' = Append(probe_wire, m)
  BY DEF Probe!Reply
<1>2. m \in Probe!Messages /\ Head(probe_owed) = probe_owed[1]
  BY <1>1, ProbeQueues DEF Probe!Messages, Request
<1>3. probe_wire \in Seq(Probe!Messages)
  BY DEF Probe!TypeOK
<1>4. /\ probe_wire' \in Seq(Probe!Messages)
           /\ Len(probe_wire') = Len(probe_wire) + 1
                /\ probe_wire'[Len(probe_wire) + 1] = m
  <2> HIDE DEF m
  <2> QED
    BY <1>1, <1>2, <1>3, AppendProperties, Zenon
<1>5. probe_wire = <<>> => Len(probe_wire) = 0
  OBVIOUS
<1>6. probe_wire = <<>> => Len(probe_wire') = 1 /\ probe_wire'[1] = m
  BY <1>4, <1>5
<1> QED
  BY <1>1, <1>2, <1>4, <1>6, ProbeQueues

LEMMA ProbeTypeStep ==
  ASSUME Probe!ProbeSessionAssumption, ProbeInv, [Probe!Next]_(Probe!vars)
  PROVE  Probe!TypeOK'
<1>0. /\ Probe!TypeOK /\ ProbeIds /\ ProbeMaxStrays \in Nat
           /\ DOMAIN Probe!Requests = 1..4
      /\ probe_asking \in 1..4 /\ Len(probe_owed) \in Nat
  BY ProbeRequests, ProbeQueues DEF ProbeInv, Probe!ProbeSessionAssumption,
     Probe!TypeOK
<1> USE <1>0
<1>1. CASE UNCHANGED Probe!vars
  BY <1>1 DEF Probe!vars, Probe!TypeOK
<1>2. CASE Probe!StartStdio \/ Probe!StartSse
  <2>1. probe_up' \in BOOLEAN /\ probe_helper' \in BOOLEAN
          /\ probe_dangerous' \in BOOLEAN
    BY <1>2, Zenon DEF Probe!StartStdio, Probe!StartSse, Probe!TypeOK
  <2> QED
    BY <1>2, <2>1 DEF Probe!StartStdio, Probe!StartSse, Probe!TypeOK
<1>3. CASE Probe!Opened
  BY <1>3 DEF Probe!Opened, Probe!TypeOK, Probe!server
<1>4. CASE Probe!Send
  <2>1. probe_messageId \in 1..4
    BY <1>4, ProbeCounts DEF Probe!Send, ProbeIds
  <2>2. CASE probe_owed' = probe_owed
    BY <1>4, <2>1, <2>2 DEF Probe!Send, Probe!Raise, Probe!TypeOK
  <2>3. CASE probe_owed' = Append(probe_owed, [what |-> probe_asking,
          id |-> probe_messageId])
    <3>1. probe_owed' \in Seq(Request)
      BY <2>1, <2>3 DEF Probe!TypeOK, Request
    <3> QED
      BY <1>4, <2>1, <3>1 DEF Probe!Send, Probe!Raise, Probe!TypeOK, Request
  <2> QED
    BY <1>4, <2>2, <2>3 DEF Probe!Send
<1>5. CASE Probe!Notify
  <2>1. probe_asking' \in DOMAIN Probe!Requests
          /\ probe_pc' \in {"send", "stopping"}
               /\ probe_outcome' \in {"none", "ok", "failed"}
    BY <1>5 DEF Probe!Notify, Probe!Proceed, Probe!Raise, Probe!TypeOK
  <2> QED
    BY <1>5, <2>1 DEF Probe!Notify, Probe!TypeOK, Probe!server
<1>6. CASE Probe!Read
  <2>1. probe_wire' \in Seq(Probe!Messages) /\ Head(probe_wire) \in Probe!Messages
    BY <1>6, ProbeQueues DEF Probe!Read
  <2>2. CASE Probe!TakeInitialize(Head(probe_wire))
    BY <1>6, <2>1, <2>2 DEF Probe!Read, Probe!TakeInitialize, Probe!Raise,
       Probe!TypeOK, Probe!server
  <2>3. CASE probe_asking # 1 /\ Probe!TakeListing(Head(probe_wire))
    <3>1. probe_asking' \in DOMAIN Probe!Requests
            /\ probe_pc' \in {"send", "stopping"}
                 /\ probe_outcome' \in {"none", "ok", "failed"}
      BY <2>3 DEF Probe!TakeListing, Probe!Proceed, Probe!TypeOK
    <3>2. probe_messageId - 1 \in 0..4
      BY DEF Probe!TypeOK
    <3>3. probe_surface' \in [Probe!Surfaces -> 0..4]
      BY <2>3, <3>2 DEF Probe!TakeListing, Probe!TypeOK
    <3> QED
      BY <1>6, <2>1, <2>3, <3>1, <3>3 DEF Probe!Read, Probe!TakeListing,
         Probe!TypeOK, Probe!server
  <2> QED
    BY <1>6, <2>2, <2>3 DEF Probe!Read, Probe!Take
<1>7. CASE Probe!EndOfInput
  BY <1>7 DEF Probe!EndOfInput, Probe!Raise, Probe!TypeOK, Probe!server
<1>8. CASE Probe!TimeOut
  BY <1>8 DEF Probe!TimeOut, Probe!TypeOK
<1>9. CASE Probe!Stop
  BY <1>9 DEF Probe!Stop, Probe!TypeOK
<1>10. CASE Probe!Close
  BY <1>10 DEF Probe!Close, Probe!TypeOK, Probe!server
<1>11. CASE Probe!Answer
  <2>1. probe_wire' \in Seq(Probe!Messages) /\ probe_owed' \in Seq(Request)
    BY <1>11, ProbeReply DEF Probe!Answer
  <2> QED
    BY <1>11, <2>1 DEF Probe!Answer, Probe!TypeOK, Request
<1>12. CASE Probe!Refuse
  <2>1. /\ probe_wire' \in Seq(Probe!Messages) /\ probe_owed' \in Seq(Request)
        /\ Len(probe_owed) > 0
    BY <1>12, ProbeReply DEF Probe!Refuse
  <2>2. probe_refused' \in 0..4
    BY <1>12, <2>1 DEF Probe!Refuse, Probe!TypeOK, ProbeIds
  <2> QED
    BY <1>12, <2>1, <2>2 DEF Probe!Refuse, Probe!TypeOK, Request
<1>13. CASE Probe!Stray
  <2>1. probe_wire' \in Seq(Probe!Messages)
    BY <1>13 DEF Probe!Stray, Probe!TypeOK, Probe!Messages
  <2> QED
    BY <1>13, <2>1 DEF Probe!Stray, Probe!TypeOK
<1>14. CASE Probe!Die
  <2>1. probe_up' \in BOOLEAN
    BY <1>14, Zenon DEF Probe!Die
  <2>2. probe_owed' \in Seq(Request)
    BY <1>14, EmptySeq, Zenon DEF Probe!Die
  <2> QED
    BY <1>14, <2>1, <2>2 DEF Probe!Die, Probe!TypeOK, Request
<1>15. CASE Probe!HelperExits \/ Probe!ReaderEnds
  BY <1>15 DEF Probe!HelperExits, Probe!ReaderEnds, Probe!TypeOK, Probe!server
<1> QED
  BY <1>1, <1>2, <1>3, <1>4, <1>5, <1>6, <1>7, <1>8, <1>9, <1>10, <1>11, <1>12,
     <1>13, <1>14, <1>15 DEF Probe!Next, Probe!Client, Probe!Server

LEMMA ProbeIdsStep ==
  ASSUME Probe!ProbeSessionAssumption, ProbeInv, [Probe!Next]_(Probe!vars)
  PROVE  ProbeIds'
<1>0. /\ Probe!TypeOK /\ Probe!TypeOK' /\ ProbeIds /\ ProbeEnding
           /\ probe_asking \in 1..4 /\ probe_messageId \in 1..5
      /\ Len(probe_owed) \in Nat /\ probe_refused \in Nat
  BY ProbeRequests, ProbeQueues, ProbeTypeStep DEF ProbeInv, Probe!TypeOK
<1> USE <1>0
<1>1. CASE UNCHANGED Probe!vars
  BY <1>1 DEF Probe!vars, ProbeIds, AskedUpTo
<1>2. CASE Probe!StartStdio \/ Probe!StartSse
  BY <1>2, ProbeCounts DEF Probe!StartStdio, Probe!StartSse, ProbeIds,
     ProbeEnding
<1>3. CASE Probe!Opened
  BY <1>3, ProbeCounts DEF Probe!Opened, ProbeIds, Probe!server
<1>4. CASE Probe!Send
  <2>1. probe_messageId' = probe_messageId + 1 /\ probe_asking' = probe_asking
          /\ probe_caps' = probe_caps /\ probe_refused' = probe_refused
    BY <1>4 DEF Probe!Send
  <2>0. \A n \in 1..Len(probe_owed) : probe_owed[n].id \in 1..4
          /\ probe_owed[n].id < probe_messageId
    <3>1. ASSUME NEW n \in 1..Len(probe_owed) PROVE probe_owed[n] \in Request
      <4>1. probe_owed \in Seq(Request)
        BY DEF Probe!TypeOK, Request
      <4>2. probe_owed \in [1..Len(probe_owed) -> Request]
        BY <4>1, LenProperties, Zenon
      <4> QED
        BY <4>2, Zenon
    <3>2. ASSUME NEW n \in 1..Len(probe_owed) PROVE probe_owed[n].id \in 1..4
      BY <3>1 DEF Request
    <3> QED
      BY <3>2 DEF ProbeIds
  <2>2. /\ probe_refused' + Len(probe_owed') <= probe_messageId' - 1
        /\ \A n \in 1..Len(probe_owed') : probe_owed'[n].id < probe_messageId'
    <3>1. CASE probe_owed' = probe_owed
      BY <2>0, <2>1, <3>1 DEF ProbeIds
    <3>2. CASE probe_owed' = Append(probe_owed, [what |-> probe_asking,
            id |-> probe_messageId])
      <4>1. /\ Len(probe_owed') = Len(probe_owed) + 1
            /\ \A n \in 1..Len(probe_owed) : probe_owed'[n] = probe_owed[n]
            /\ probe_owed'[Len(probe_owed) + 1].id = probe_messageId
        BY <3>2 DEF Probe!TypeOK
      <4> QED
        BY <2>0, <2>1, <4>1 DEF ProbeIds
    <3> QED
      BY <1>4, <3>1, <3>2 DEF Probe!Send
  <2>3. AskedUpTo(probe_asking', probe_caps') = AskedUpTo(probe_asking,
          probe_caps) /\ (probe_pc' = "wait" \/ probe_pc' = "stopping")
    BY <1>4, <2>1 DEF Probe!Send, Probe!Raise
  <2>4. AskedUpTo(probe_asking, probe_caps) \in 0..(probe_asking - 1)
          /\ probe_messageId = 1 + AskedUpTo(probe_asking, probe_caps)
    BY <1>4, ProbeCounts DEF Probe!Send, ProbeIds
  <2>5. Probe!Asked(probe_asking', probe_caps') = Probe!Asked(probe_asking,
          probe_caps)
    BY <2>1
  <2>6. probe_asking' # 1 => Probe!Asked(probe_asking', probe_caps')
    BY <1>4, <2>1, <2>5 DEF Probe!Send, ProbeIds
  <2>7. probe_messageId' = 2 + AskedUpTo(probe_asking', probe_caps')
    BY <2>1, <2>3, <2>4
  <2> QED
    BY <2>2, <2>3, <2>6, <2>7 DEF ProbeIds
<1>5. CASE Probe!Notify
  <2>1. probe_asking = 1 /\ probe_messageId = 2
          /\ UNCHANGED <<probe_messageId, probe_caps, probe_owed, probe_refused>>
    BY <1>5 DEF Probe!Notify, ProbeIds, Probe!server
  <2>2. CASE Probe!Proceed(1, probe_caps)
    <3>1. Probe!Proceed(probe_asking, probe_caps)
      BY <2>1, <2>2
    <3> QED
      BY <2>1, <3>1, ProbeProceed, ProbeCounts DEF ProbeIds
  <2>3. CASE Probe!Raise
    BY <2>1, <2>3 DEF Probe!Raise, ProbeIds
  <2> QED
    BY <1>5, <2>2, <2>3 DEF Probe!Notify
<1>6. CASE Probe!Read
  <2>1. probe_pc = "wait"
          /\ UNCHANGED <<probe_messageId, probe_owed, probe_refused>>
               /\ probe_messageId = 2 + AskedUpTo(probe_asking, probe_caps)
    BY <1>6 DEF Probe!Read, ProbeIds, Probe!server
  <2>2. CASE probe_asking = 1 /\ Probe!TakeInitialize(Head(probe_wire))
    BY <2>1, <2>2, ProbeCounts DEF Probe!TakeInitialize, Probe!Raise, ProbeIds
  <2>3. CASE probe_asking # 1 /\ Probe!TakeListing(Head(probe_wire))
    <3>1. Probe!Proceed(probe_asking, probe_caps) /\ probe_caps' = probe_caps
      BY <2>3 DEF Probe!TakeListing
    <3> QED
      BY <2>1, <3>1, ProbeProceed, ProbeCounts DEF ProbeIds
  <2> QED
    BY <1>6, <2>2, <2>3 DEF Probe!Read, Probe!Take
<1>7. CASE Probe!EndOfInput \/ Probe!TimeOut \/ Probe!Stop \/ Probe!Close
  BY <1>7 DEF Probe!EndOfInput, Probe!TimeOut, Probe!Stop, Probe!Close,
     Probe!Raise, ProbeIds, Probe!server
<1>8. CASE Probe!Answer \/ Probe!Refuse
  <2>1. /\ Len(probe_owed) > 0 /\ Len(probe_owed') = Len(probe_owed) - 1
        /\ \A n \in 1..(Len(probe_owed) - 1) : probe_owed'[n] = probe_owed[n + 1]
    BY <1>8, ProbeReply DEF Probe!Answer, Probe!Refuse
  <2>2. /\ UNCHANGED <<probe_pc, probe_asking, probe_messageId, probe_caps>>
             /\ probe_refused' \in {probe_refused, probe_refused + 1}
    BY <1>8 DEF Probe!Answer, Probe!Refuse
  <2>3. \A n \in 1..Len(probe_owed') : probe_owed'[n].id < probe_messageId'
    BY <2>1, <2>2 DEF ProbeIds
  <2>4. probe_refused' + Len(probe_owed') <= probe_messageId' - 1
    BY <2>1, <2>2 DEF ProbeIds
  <2> QED
    BY <2>2, <2>3, <2>4 DEF ProbeIds
<1>9. CASE Probe!Stray \/ Probe!HelperExits \/ Probe!ReaderEnds
  BY <1>9 DEF Probe!Stray, Probe!HelperExits, Probe!ReaderEnds, ProbeIds,
     Probe!server
<1>10. CASE Probe!Die
  <2>1. Len(probe_owed') = 0
    BY <1>10 DEF Probe!Die
  <2> QED
    BY <1>10, <2>1 DEF Probe!Die, ProbeIds
<1> QED
  BY <1>1, <1>2, <1>3, <1>4, <1>5, <1>6, <1>7, <1>8, <1>9, <1>10 DEF
     Probe!Next, Probe!Client, Probe!Server

\* Everything but Read leaves the surfaces alone.
LEMMA ProbeSurfaceStep ==
  ASSUME Probe!ProbeSessionAssumption, ProbeInv, [Probe!Next]_(Probe!vars)
  PROVE  ProbeUnread' /\ Probe!OwnAnswers'
<1>0. /\ Probe!TypeOK /\ Probe!TypeOK' /\ ProbeIds /\ ProbeUnread
           /\ Probe!OwnAnswers /\ probe_asking \in 1..4
      /\ probe_messageId \in 1..5 /\ DOMAIN Probe!Requests = 1..4
  BY ProbeRequests, ProbeTypeStep DEF ProbeInv, Probe!TypeOK
<1>1. \A i, j \in 2..4 : Probe!Requests[i] \in Probe!Surfaces
        /\ (Probe!Requests[i] = Probe!Requests[j] => i = j)
  BY ProbeRequests
<1>2. DOMAIN Probe!Requests \ {1} = 2..4
  BY <1>0
<1>3. Probe!OwnAnswers <=>
        \A k \in 2..4 : probe_surface[Probe!Requests[k]] # Probe!Unread =>
          probe_surface[Probe!Requests[k]] = 1 + AskedUpTo(k, probe_caps)
  BY <1>2, ProbeSizes, Zenon DEF Probe!OwnAnswers, AskedUpTo
<1>4. Probe!OwnAnswers' <=>
        \A k \in 2..4 : probe_surface'[Probe!Requests[k]] # Probe!Unread =>
          probe_surface'[Probe!Requests[k]] = 1 + AskedUpTo(k, probe_caps')
  BY <1>2, ProbeSizes, Zenon DEF Probe!OwnAnswers, AskedUpTo
<1> USE <1>0, <1>1
<1>5. CASE Probe!StartStdio \/ Probe!StartSse \/ Probe!Opened \/ Probe!Send
        \/ Probe!EndOfInput \/ Probe!TimeOut \/ Probe!Stop \/ Probe!Close
           \/ Probe!Server \/ UNCHANGED Probe!vars
  <2>1. /\ UNCHANGED <<probe_surface, probe_caps, probe_asking>>
        /\ probe_pc' \in {"send", "wait"} /\ probe_pc \notin {"send", "wait"}
             => probe_asking = 1
    BY <1>5 DEF Probe!StartStdio, Probe!StartSse, Probe!Opened, Probe!Send,
       Probe!EndOfInput, Probe!TimeOut, Probe!Stop, Probe!Close, Probe!Server,
       Probe!Answer, Probe!Refuse, Probe!Stray, Probe!Die, Probe!HelperExits,
       Probe!ReaderEnds, Probe!Raise, Probe!vars, ProbeIds, Probe!server
  <2> QED
    BY <1>3, <1>4, <2>1 DEF ProbeUnread
<1>6. CASE Probe!Notify
  <2>1. /\ probe_asking = 1 /\ UNCHANGED <<probe_surface, probe_caps>>
        /\ \A s \in Probe!Surfaces : probe_surface[s] = Probe!Unread
    BY <1>6 DEF Probe!Notify, ProbeIds, ProbeUnread, Probe!server
  <2> QED
    BY <1>3, <1>4, <2>1 DEF ProbeUnread
<1>7. CASE Probe!Read
  <2>1. probe_pc = "wait"
          /\ probe_messageId = 2 + AskedUpTo(probe_asking, probe_caps)
    BY <1>7 DEF Probe!Read, ProbeIds
  <2>2. CASE probe_asking = 1 /\ Probe!TakeInitialize(Head(probe_wire))
    BY <1>3, <1>4, <2>2 DEF Probe!TakeInitialize, ProbeUnread
  <2>3. CASE probe_asking # 1 /\ Probe!TakeListing(Head(probe_wire))
    <3>1. /\ probe_caps' = probe_caps /\ probe_asking \in 2..4
               /\ probe_asking' \in 2..4
          /\ probe_pc' \in {"send", "wait"} => probe_asking < probe_asking'
      BY <2>3, ProbeProceed DEF Probe!TakeListing
    <3>2. AskedUpTo(probe_asking, probe_caps) \in Nat
      BY ProbeCounts
    <3>3. \A k \in 2..4 : k # probe_asking
            => probe_surface'[Probe!Requests[k]] = probe_surface[Probe!Requests[k]]
      BY <2>3, <3>1 DEF Probe!TakeListing, Probe!TypeOK
    <3>4. \/ probe_surface'[Probe!Requests[probe_asking]]
             = probe_surface[Probe!Requests[probe_asking]]
          \/ probe_surface'[Probe!Requests[probe_asking]] = probe_messageId - 1
      BY <2>3, <3>1 DEF Probe!TakeListing, Probe!TypeOK
    <3>5. probe_messageId - 1 = 1 + AskedUpTo(probe_asking, probe_caps)
      BY <2>1, <3>2
    <3>6. Probe!OwnAnswers'
      <4> SUFFICES ASSUME NEW k \in 2..4,
                            probe_surface'[Probe!Requests[k]] # Probe!Unread
                   PROVE  probe_surface'[Probe!Requests[k]] = 1 + AskedUpTo(k,
                            probe_caps')
        BY <1>4
      <4>1. probe_surface[Probe!Requests[k]] = Probe!Unread
              \/ probe_surface[Probe!Requests[k]] = 1 + AskedUpTo(k, probe_caps)
        BY <1>3
      <4> QED
        BY <3>1, <3>3, <3>4, <3>5, <4>1
    <3>7. ProbeUnread'
      <4>1. ASSUME NEW k \in 2..4, probe_pc' \in {"send", "wait"},
                     k >= probe_asking'
            PROVE  probe_surface'[Probe!Requests[k]] = Probe!Unread
        BY <2>1, <3>1, <3>3, <4>1 DEF ProbeUnread
      <4> QED
        BY <3>1, <4>1 DEF ProbeUnread
    <3> QED
      BY <3>6, <3>7
  <2> QED
    BY <1>7, <2>2, <2>3 DEF Probe!Read, Probe!Take
<1> QED
  BY <1>5, <1>6, <1>7 DEF Probe!Next, Probe!Client

LEMMA ProbeQuietStep ==
  ASSUME Probe!ProbeSessionAssumption, ProbeInv, [Probe!Next]_(Probe!vars)
  PROVE  ProbeQuiet'
<1>0. /\ Probe!TypeOK /\ Probe!TypeOK' /\ ProbeIds /\ ProbeUnread /\ ProbeQuiet
           /\ ProbeEnding
      /\ probe_asking \in 1..4 /\ probe_messageId \in 1..5
           /\ DOMAIN Probe!Requests = 1..4
      /\ probe_strays \in Nat /\ probe_refused \in Nat
  BY ProbeRequests, ProbeTypeStep DEF ProbeInv, Probe!TypeOK,
     Probe!ProbeSessionAssumption
<1>1. \A i, j \in 2..4 : Probe!Requests[i] \in Probe!Surfaces
        /\ (Probe!Requests[i] = Probe!Requests[j] => i = j)
  BY ProbeRequests
<1> USE <1>0, <1>1
<1>2. CASE UNCHANGED Probe!vars
  BY <1>2 DEF Probe!vars, ProbeQuiet, Quiet
<1>3. CASE Probe!StartStdio \/ Probe!StartSse
  <2>1. /\ probe_pc = "idle" /\ probe_pc' \in {"send", "opening", "ended"}
        /\ probe_outcome' = probe_outcome \/ probe_outcome' = "failed"
        /\ UNCHANGED <<probe_asking, probe_messageId, probe_caps, probe_surface,
             probe_wire, probe_owed, probe_strays, probe_refused>>
    BY <1>3 DEF Probe!StartStdio, Probe!StartSse
  <2>2. probe_asking = 1 /\ probe_outcome' # "ok"
    BY <2>1 DEF ProbeIds, ProbeEnding
  <2> QED
    BY <2>1, <2>2 DEF ProbeQuiet, Quiet
<1>4. CASE Probe!Opened
  BY <1>4 DEF Probe!Opened, ProbeQuiet, Quiet, ProbeIds, ProbeEnding,
     Probe!server
<1>5. CASE Probe!Send
  <2>1. /\ probe_pc = "send"
             /\ UNCHANGED <<probe_asking, probe_caps, probe_surface, probe_wire,
                  probe_strays, probe_refused>>
        /\ probe_messageId' = probe_messageId + 1
    BY <1>5 DEF Probe!Send
  <2>2. CASE Probe!Raise
    BY <1>5, <2>1, <2>2 DEF Probe!Raise, ProbeQuiet, Quiet
  <2>3. CASE probe_pc' = "wait" /\ UNCHANGED probe_outcome
             /\ probe_owed' \in {probe_owed, Append(probe_owed,
                  [what |-> probe_asking, id |-> probe_messageId])}
    <3>1. probe_owed = <<>> /\ probe_owed' # <<>> => Len(probe_owed') = 1
            /\ probe_owed'[1].id = probe_messageId
      BY <2>3
    <3> QED
      BY <2>1, <2>3, <3>1 DEF ProbeQuiet, Quiet, ProbeEnding
  <2> QED
    BY <1>5, <2>2, <2>3 DEF Probe!Send
<1>6. CASE Probe!Notify
  <2>1. probe_pc = "notify" /\ probe_asking = 1
          /\ UNCHANGED <<probe_messageId, probe_caps, probe_surface, probe_wire,
               probe_owed, probe_strays, probe_refused>>
    BY <1>6 DEF Probe!Notify, ProbeIds, Probe!server
  <2>2. CASE Probe!Proceed(1, probe_caps)
    <3>1. Probe!Proceed(probe_asking, probe_caps)
      BY <2>1, <2>2
    <3> QED
      BY <2>1, <3>1, ProbeProceed DEF ProbeQuiet, Quiet, ProbeEnding
  <2>3. CASE Probe!Raise
    BY <2>1, <2>3 DEF Probe!Raise, ProbeQuiet, Quiet
  <2> QED
    BY <1>6, <2>2, <2>3 DEF Probe!Notify
<1>7. CASE Probe!Read
  <2>1. /\ probe_pc = "wait" /\ probe_wire # <<>> /\ probe_wire' = Tail(probe_wire)
        /\ UNCHANGED <<probe_messageId, probe_owed, probe_strays, probe_refused>>
    BY <1>7 DEF Probe!Read, Probe!server
  <2> SUFFICES ASSUME Quiet PROVE ProbeQuiet'
    BY <2>1 DEF ProbeQuiet, Quiet
  <2>2. /\ probe_owed = <<>> /\ Len(probe_wire) = 1
             /\ probe_wire[1] = [type |-> "answer", id |-> probe_messageId - 1]
    BY <2>1 DEF ProbeQuiet
  <2>3. Head(probe_wire) = probe_wire[1] /\ probe_wire' = <<>>
    BY <2>1, <2>2, ProbeLines DEF Probe!TypeOK
  <2>4. Head(probe_wire).type = "answer"
          /\ Head(probe_wire).id = probe_messageId - 1
    BY <2>2, <2>3
  <2>5. CASE probe_asking = 1 /\ Probe!TakeInitialize(Head(probe_wire))
    BY <2>1, <2>2, <2>3, <2>4, <2>5 DEF Probe!TakeInitialize, Probe!Raise,
       ProbeQuiet, ProbeEnding
  <2>6. CASE probe_asking # 1 /\ Probe!TakeListing(Head(probe_wire))
    <3>1. /\ probe_caps' = probe_caps /\ probe_asking \in 2..4
               /\ probe_messageId - 1 # 0
          /\ probe_surface' = [probe_surface EXCEPT
                               ![Probe!Requests[probe_asking]] = probe_messageId - 1]
      <4>1. AskedUpTo(probe_asking, probe_caps) \in Nat
              /\ probe_messageId = 2 + AskedUpTo(probe_asking, probe_caps)
        BY <2>1, ProbeCounts DEF ProbeIds
      <4> QED
        BY <2>4, <2>6, <4>1 DEF Probe!TakeListing
    <3>2. \A k \in 2..4 :
            probe_surface'[Probe!Requests[k]]
              = IF k = probe_asking THEN probe_messageId - 1
                                    ELSE probe_surface[Probe!Requests[k]]
      BY <3>1 DEF Probe!TypeOK
    <3>3. \A k \in 2..4 : k <= probe_asking /\ Probe!Asked(k, probe_caps)
            => probe_surface'[Probe!Requests[k]] # Probe!Unread
      BY <2>1, <3>1, <3>2 DEF ProbeQuiet, Probe!Unread
    <3>4. \/ /\ probe_pc' = "stopping" /\ probe_outcome' = "ok"
             /\ \A i \in 2..4 : i > probe_asking => ~Probe!Asked(i, probe_caps)
          \/ /\ probe_pc' = "send" /\ probe_outcome' = probe_outcome
                  /\ probe_asking' \in 2..4 /\ probe_asking < probe_asking'
             /\ \A i \in 2..4 : probe_asking < i /\ i < probe_asking'
                  => ~Probe!Asked(i, probe_caps)
      BY <2>6, ProbeProceed DEF Probe!TakeListing
    <3>5. \A k \in 2..4 : Probe!Asked(k, probe_caps') = Probe!Asked(k, probe_caps)
      BY <3>1
    <3>6. probe_outcome # "ok"
      BY <2>1 DEF ProbeEnding
    <3>7. /\ probe_pc' = "send" =>
               \A k \in 2..4 : k < probe_asking' /\ Probe!Asked(k, probe_caps)
                 => probe_surface'[Probe!Requests[k]] # Probe!Unread
          /\ probe_outcome' = "ok" =>
               \A k \in 2..4 : Probe!Asked(k, probe_caps)
                 => probe_surface'[Probe!Requests[k]] # Probe!Unread
      BY <3>1, <3>3, <3>4, <3>6
    <3> QED
      BY <2>1, <2>2, <2>3, <3>4, <3>5, <3>7 DEF ProbeQuiet
  <2> QED
    BY <1>7, <2>5, <2>6 DEF Probe!Read, Probe!Take
<1>8. CASE Probe!EndOfInput \/ Probe!TimeOut \/ Probe!Stop \/ Probe!Close
  BY <1>8 DEF Probe!EndOfInput, Probe!TimeOut, Probe!Stop, Probe!Close,
     Probe!Raise, ProbeQuiet, Quiet, ProbeEnding, Probe!server
<1>9. CASE Probe!Answer
  <2>1. /\ Len(probe_owed) > 0 /\ Len(probe_owed') = Len(probe_owed) - 1
        /\ \A n \in 1..(Len(probe_owed) - 1) : probe_owed'[n] = probe_owed[n + 1]
        /\ Len(probe_owed) = 1 => probe_owed' = <<>>
        /\ probe_wire = <<>> => Len(probe_wire') = 1
             /\ probe_wire'[1] = [type |-> "answer", id |-> probe_owed[1].id]
    BY <1>9, ProbeReply DEF Probe!Answer
  <2>2. UNCHANGED <<probe_pc, probe_asking, probe_messageId, probe_caps,
          probe_surface, probe_strays, probe_refused, probe_outcome>>
    BY <1>9 DEF Probe!Answer
  <2>3. probe_owed # <<>>
    BY <1>9 DEF Probe!Answer, Probe!Reply
  <2> QED
    BY <2>1, <2>2, <2>3 DEF ProbeQuiet, Quiet
<1>10. CASE Probe!Refuse \/ Probe!Stray
  BY <1>10 DEF Probe!Refuse, Probe!Stray, ProbeQuiet, Quiet
<1>11. CASE Probe!Die
  BY <1>11 DEF Probe!Die, ProbeQuiet, Quiet
<1>12. CASE Probe!HelperExits \/ Probe!ReaderEnds
  BY <1>12 DEF Probe!HelperExits, Probe!ReaderEnds, ProbeQuiet, Quiet,
     Probe!server
<1> QED
  BY <1>2, <1>3, <1>4, <1>5, <1>6, <1>7, <1>8, <1>9, <1>10, <1>11, <1>12 DEF
     Probe!Next, Probe!Client, Probe!Server

LEMMA ProbeEndingStep ==
  ASSUME Probe!ProbeSessionAssumption, ProbeInv, [Probe!Next]_(Probe!vars)
  PROVE  ProbeEnding'
<1>0. Probe!TypeOK /\ ProbeIds /\ ProbeEnding
  BY DEF ProbeInv
<1> USE <1>0 DEF ProbeEnding, Probe!NothingLeft
<1>1. CASE UNCHANGED Probe!vars
  BY <1>1 DEF Probe!vars
<1>2. CASE Probe!StartStdio
  BY <1>2 DEF Probe!StartStdio, ProbeIds
<1>3. CASE Probe!StartSse
  BY <1>3 DEF Probe!StartSse, ProbeIds
<1>4. CASE Probe!Opened
  BY <1>4 DEF Probe!Opened, Probe!server
<1>5. CASE Probe!Send
  BY <1>5 DEF Probe!Send, Probe!Raise
<1>6. CASE Probe!Notify
  BY <1>6 DEF Probe!Notify, Probe!Proceed, Probe!Raise, Probe!server
<1>7. CASE Probe!Read
  <2>1. probe_pc' \in {"notify", "send", "stopping"} /\ (probe_outcome' = "ok"
          => probe_pc' = "stopping" \/ probe_outcome = "ok")
    BY <1>7 DEF Probe!Read, Probe!Take, Probe!TakeInitialize,
       Probe!TakeListing, Probe!Proceed, Probe!Raise
  <2> QED
    BY <1>7, <2>1 DEF Probe!Read, Probe!server
<1>8. CASE Probe!EndOfInput
  BY <1>8 DEF Probe!EndOfInput, Probe!Raise, Probe!server
<1>9. CASE Probe!TimeOut
  BY <1>9 DEF Probe!TimeOut
<1>10. CASE Probe!Stop
  BY <1>10 DEF Probe!Stop, Probe!TypeOK
<1>11. CASE Probe!Close
  BY <1>11 DEF Probe!Close, Probe!server
<1>12. CASE Probe!Answer \/ Probe!Refuse \/ Probe!Stray
  BY <1>12 DEF Probe!Answer, Probe!Refuse, Probe!Stray
<1>13. CASE Probe!Die
  BY <1>13 DEF Probe!Die
<1>14. CASE Probe!HelperExits \/ Probe!ReaderEnds
  BY <1>14 DEF Probe!HelperExits, Probe!ReaderEnds, Probe!server
<1> QED
  BY <1>1, <1>2, <1>3, <1>4, <1>5, <1>6, <1>7, <1>8, <1>9, <1>10, <1>11, <1>12,
     <1>13, <1>14 DEF Probe!Next, Probe!Client, Probe!Server

\* The steps of one probe, without the fairness of its threads.
ProbeMoves == Probe!Init /\ [][Probe!Next]_(Probe!vars)

\* Requests, lines in flight and answers belong together at every step of a
\* probe.
THEOREM ProbeInductive == Probe!ProbeSessionAssumption /\ ProbeMoves => []ProbeInv
<1> SUFFICES ASSUME Probe!ProbeSessionAssumption PROVE ProbeMoves => []ProbeInv
  OBVIOUS
<1>1. Probe!Init => ProbeInv
  BY ProbeInit
<1>2. ProbeInv /\ [Probe!Next]_(Probe!vars) => ProbeInv'
  <2> SUFFICES ASSUME ProbeInv, [Probe!Next]_(Probe!vars) PROVE ProbeInv'
    OBVIOUS
  <2> QED
    BY ProbeTypeStep, ProbeIdsStep, ProbeSurfaceStep, ProbeQuietStep,
       ProbeEndingStep DEF ProbeInv
<1> QED
  BY <1>1, <1>2, PTL DEF ProbeMoves

\* A surface was taken from the answer to its own request; a probe that went
\* well missed a surface, or the verdict its tools deserve, only where the
\* server refused or sent what nobody asked for; and however it ended, its
\* transport is stopped and no child runs (connect_and_discover, execute_probe).
THEOREM ProbeSafe ==
  Probe!ProbeSessionAssumption /\ ProbeMoves => [](Probe!OwnAnswers
    /\ Probe!LostOnlyToStrays /\ Probe!NothingLeft)
<1> SUFFICES ASSUME Probe!ProbeSessionAssumption
             PROVE  ProbeMoves => [](Probe!OwnAnswers /\ Probe!LostOnlyToStrays
                      /\ Probe!NothingLeft)
  OBVIOUS
<1>1. ProbeInv => Probe!LostOnlyToStrays
  <2> SUFFICES ASSUME ProbeInv, probe_outcome = "ok", probe_strays = 0,
                        probe_refused = 0
               PROVE  /\ \A k \in DOMAIN Probe!Requests \ {1} : Probe!Asked(k,
                           probe_caps)
                             => probe_surface[Probe!Requests[k]] # Probe!Unread
                      /\ (Probe!Asked(2, probe_caps)
                           => (Probe!Verdict = "suspicious") = probe_dangerous)
    BY DEF Probe!LostOnlyToStrays
  <2>1. \A k \in DOMAIN Probe!Requests \ {1} : Probe!Asked(k, probe_caps)
          => probe_surface[Probe!Requests[k]] # Probe!Unread
    BY ProbeRequests DEF ProbeInv, ProbeQuiet, Quiet
  <2>2. Probe!Asked(2, probe_caps) => probe_surface["tools"] # Probe!Unread
    BY <2>1, ProbeRequests
  <2>3. (probe_surface["tools"] # Probe!Unread /\ probe_dangerous)
          => Probe!Verdict = "suspicious"
    BY DEF Probe!Verdict
  <2>4. ~(probe_surface["tools"] # Probe!Unread /\ probe_dangerous)
          => Probe!Verdict # "suspicious"
    BY DEF Probe!Verdict
  <2>5. probe_dangerous \in BOOLEAN
    BY DEF ProbeInv, Probe!TypeOK
  <2> QED
    BY <2>1, <2>2, <2>3, <2>4, <2>5, Zenon
<1>2. ProbeInv => Probe!OwnAnswers /\ Probe!LostOnlyToStrays /\ Probe!NothingLeft
  BY <1>1 DEF ProbeInv, ProbeEnding
<1> QED
  BY <1>2, ProbeInductive, PTL

-----------------------------------------------------------------------------
(* The drivers and the inspection of a package.                            *)

AtDriver  == {"run", "launch"}
AtInspect == {"fetch", "start", "install", "probe"}

\* Which driver runs at each step, and what of its own it may have left by then.
SandboxPlaced ==
  /\ sandbox_pc = "idle" => ~sandbox_box /\ ~sandbox_fetcher
       /\ sandbox_mishaps = {} /\ sandbox_place = "none"
  /\ sandbox_pc \in AtDriver => sandbox_mode # "inspect"
       /\ sandbox_runner # "inspect" /\ ~sandbox_fetcher /\ sandbox_place = "none"
  /\ sandbox_pc \in AtInspect => sandbox_mode = "inspect"
       /\ sandbox_runner = "inspect" /\ sandbox_place = "none"
  /\ sandbox_pc = "run" => ~sandbox_box
  /\ sandbox_pc = "launch" => sandbox_runner = "incus"
  /\ sandbox_pc \in {"start", "install", "probe", "cleanup"} => ~sandbox_fetcher
  /\ sandbox_pc \in {"fetch", "start"} => ~sandbox_box
  /\ sandbox_pc = "cleanup" => sandbox_runner \in {"incus", "inspect"}
  /\ sandbox_pc # "idle"
       => (sandbox_mode = "inspect" <=> sandbox_runner = "inspect")

\* The automatic runner gives an image to the host only without an engine.
SandboxChosen ==
  /\ sandbox_pc = "run" /\ sandbox_runner # "host" /\ sandbox_mode = "auto"
       => sandbox_runner \in sandbox_tools \/ "lost" \in sandbox_mishaps
  /\ sandbox_pc = "run" /\ sandbox_runner = "host" /\ sandbox_command = "image" =>
       sandbox_mode = "host" \/ (sandbox_mode = "auto" /\ (sandbox_tools = {}
         \/ "lost" \in sandbox_mishaps))
  /\ sandbox_place = "host" => sandbox_pc = "done"

SandboxInv == Sandbox!TypeOK /\ SandboxPlaced /\ SandboxChosen
  /\ Sandbox!LeftBehind /\ Sandbox!HostByChoice

LEMMA SandboxInit == Sandbox!SandboxAssumption /\ Sandbox!Init => SandboxInv
BY DEF Sandbox!SandboxAssumption, Sandbox!Init, SandboxInv, Sandbox!TypeOK,
   Sandbox!Mishaps, Sandbox!Modes, SandboxPlaced, SandboxChosen,
   Sandbox!LeftBehind, Sandbox!HostByChoice, AtDriver, AtInspect

LEMMA SandboxTypeStep ==
  ASSUME Sandbox!SandboxAssumption, SandboxInv, [Sandbox!Next]_(Sandbox!vars)
  PROVE  Sandbox!TypeOK'
<1> USE DEF Sandbox!SandboxAssumption, SandboxInv, Sandbox!TypeOK,
        Sandbox!Modes, Sandbox!Mishaps
<1>1. CASE UNCHANGED Sandbox!vars
  BY <1>1 DEF Sandbox!vars
<1>2. CASE Sandbox!Choose
  <2>1. sandbox_runner' \in {"none", "host", "docker", "incus", "inspect"}
    BY <1>2 DEF Sandbox!Choose, Sandbox!BestOf
  <2>2. sandbox_tools' \subseteq SandboxEngines
          /\ sandbox_mode' \in Sandbox!Modes
               /\ sandbox_command' \in {"path", "image"}
    BY <1>2 DEF Sandbox!Choose
  <2> QED
    BY <1>2, <2>1, <2>2 DEF Sandbox!Choose
<1>3. CASE Sandbox!Lose \/ Sandbox!RunHost \/ Sandbox!Missing \/ Sandbox!RunIncus
  <2>1. CASE Sandbox!Lose
    BY <2>1 DEF Sandbox!Lose
  <2>2. CASE Sandbox!RunHost
    BY <2>2 DEF Sandbox!RunHost, Sandbox!Probed, Sandbox!End
  <2>3. CASE Sandbox!Missing
    BY <2>3 DEF Sandbox!Missing, Sandbox!End
  <2>4. CASE Sandbox!RunIncus
    BY <2>4 DEF Sandbox!RunIncus
  <2> QED
    BY <1>3, <2>1, <2>2, <2>3, <2>4
<1>4. CASE Sandbox!RunDocker
  BY <1>4 DEF Sandbox!RunDocker, Sandbox!Probed, Sandbox!End
<1>5. CASE Sandbox!Launch
  BY <1>5 DEF Sandbox!Launch, Sandbox!End
<1>6. CASE Sandbox!Execute \/ Sandbox!Fetch \/ Sandbox!StartBox
  <2>1. CASE Sandbox!Execute
    BY <2>1 DEF Sandbox!Execute, Sandbox!End
  <2>2. CASE Sandbox!Fetch
    <3>1. sandbox_mishaps' \in SUBSET Sandbox!Mishaps
            /\ sandbox_fetcher' \in BOOLEAN
      BY <2>2, Zenon DEF Sandbox!Fetch
    <3> QED
      BY <2>2, <3>1 DEF Sandbox!Fetch, Sandbox!End
  <2>3. CASE Sandbox!StartBox
    <3>1. sandbox_box' \in BOOLEAN /\ sandbox_fetcher' \in BOOLEAN
      BY <2>3, Zenon DEF Sandbox!StartBox
    <3> QED
      BY <2>3, <3>1 DEF Sandbox!StartBox, Sandbox!End
  <2> QED
    BY <1>6, <2>1, <2>2, <2>3
<1>7. CASE Sandbox!Install \/ Sandbox!Probe \/ Sandbox!CleanUp \/ Sandbox!Expire
  <2>1. CASE Sandbox!Install
    BY <2>1 DEF Sandbox!Install
  <2>2. CASE Sandbox!Probe
    BY <2>2 DEF Sandbox!Probe
  <2>3. CASE Sandbox!CleanUp
    <3>1. sandbox_mishaps' \in SUBSET Sandbox!Mishaps /\ sandbox_box' \in BOOLEAN
      BY <2>3, Zenon DEF Sandbox!CleanUp
    <3> QED
      BY <2>3, <3>1 DEF Sandbox!CleanUp
  <2>4. CASE Sandbox!Expire
    <3>1. sandbox_box' \in BOOLEAN /\ sandbox_fetcher' \in BOOLEAN
      BY <2>4, Zenon DEF Sandbox!Expire
    <3> QED
      BY <2>4, <3>1 DEF Sandbox!Expire
  <2> QED
    BY <1>7, <2>1, <2>2, <2>3, <2>4
<1> QED
  BY <1>1, <1>2, <1>3, <1>4, <1>5, <1>6, <1>7 DEF Sandbox!Next, Sandbox!Driver,
     Sandbox!Inspect

LEMMA SandboxStep ==
  ASSUME Sandbox!SandboxAssumption, SandboxInv, [Sandbox!Next]_(Sandbox!vars)
  PROVE  SandboxInv'
<1>0. Sandbox!TypeOK'
  BY SandboxTypeStep
<1> USE <1>0 DEF Sandbox!SandboxAssumption, SandboxInv, Sandbox!TypeOK,
      Sandbox!Modes, Sandbox!Mishaps, SandboxPlaced, SandboxChosen,
        Sandbox!LeftBehind,
       Sandbox!HostByChoice, AtDriver, AtInspect
<1>1. CASE UNCHANGED Sandbox!vars
  BY <1>1 DEF Sandbox!vars
<1>2. CASE Sandbox!Choose
  <2>1. \/ sandbox_runner' = sandbox_mode' /\ sandbox_mode' # "auto"
        \/ sandbox_runner' = "host" /\ sandbox_mode' = "auto"
             /\ sandbox_command' = "path"
        \/ sandbox_runner' = Sandbox!BestOf(sandbox_tools')
             /\ sandbox_mode' = "auto"
    BY <1>2 DEF Sandbox!Choose
  <2>2. /\ Sandbox!BestOf(sandbox_tools') \in sandbox_tools' \cup {"host"}
        /\ Sandbox!BestOf(sandbox_tools') = "host" => sandbox_tools' = {}
        /\ Sandbox!BestOf(sandbox_tools') # "inspect"
    BY <1>2 DEF Sandbox!Choose, Sandbox!BestOf
  <2> QED
    BY <1>2, <2>1, <2>2 DEF Sandbox!Choose
<1>3. CASE Sandbox!Lose
  BY <1>3 DEF Sandbox!Lose
<1>4. CASE Sandbox!RunHost
  BY <1>4 DEF Sandbox!RunHost, Sandbox!Probed, Sandbox!End
<1>5. CASE Sandbox!RunDocker
  BY <1>5 DEF Sandbox!RunDocker, Sandbox!Probed, Sandbox!End
<1>6. CASE Sandbox!Missing
  BY <1>6 DEF Sandbox!Missing, Sandbox!End
<1>7. CASE Sandbox!Launch
  BY <1>7 DEF Sandbox!Launch, Sandbox!End
<1>8. CASE Sandbox!RunIncus
  BY <1>8 DEF Sandbox!RunIncus
<1>9. CASE Sandbox!Execute
  BY <1>9 DEF Sandbox!Execute, Sandbox!End
<1>10. CASE Sandbox!Fetch \/ Sandbox!StartBox
  BY <1>10 DEF Sandbox!Fetch, Sandbox!StartBox, Sandbox!End
<1>11. CASE Sandbox!Install \/ Sandbox!Probe
  BY <1>11 DEF Sandbox!Install, Sandbox!Probe
<1>12. CASE Sandbox!CleanUp
  BY <1>12 DEF Sandbox!CleanUp
<1>13. CASE Sandbox!Expire
  BY <1>13 DEF Sandbox!Expire
<1> QED
  BY <1>1, <1>2, <1>3, <1>4, <1>5, <1>6, <1>7, <1>8, <1>9, <1>10, <1>11, <1>12,
     <1>13 DEF Sandbox!Next, Sandbox!Driver, Sandbox!Inspect

\* The invariant holds of every behaviour of the part.
LEMMA SandboxInductive == Sandbox!SandboxAssumption
  => (Sandbox!Spec => []SandboxInv)
<1> SUFFICES ASSUME Sandbox!SandboxAssumption
    PROVE  Sandbox!Spec => []SandboxInv
  OBVIOUS
<1>1. Sandbox!Init => SandboxInv
  BY SandboxInit
<1>2. SandboxInv /\ [Sandbox!Next]_(Sandbox!vars) => SandboxInv'
  BY SandboxStep
<1> QED
  BY <1>1, <1>2, PTL DEF Sandbox!Spec

\* After a call an instance, an inspection or a download container is left only
\* by a command of the engine that went wrong (the finally blocks of
\* run_handshake and execute), and an image runs on the host only where that
\* was asked for or no engine was there.
THEOREM SandboxSafe == Sandbox!SandboxAssumption /\ Sandbox!Spec
  => [](Sandbox!LeftBehind /\ Sandbox!HostByChoice)
<1>1. SandboxInv => Sandbox!LeftBehind /\ Sandbox!HostByChoice
  BY DEF SandboxInv
<1> QED
  BY <1>1, SandboxInductive, PTL

-----------------------------------------------------------------------------
(* The bridge and the tasks of its clients.                                *)

\* A reader runs beside a handler that is in a WebSocket, and beside no other
\* unless that one gave up when its peer had gone.
ReaderPlaced ==
  \A c \in BridgeClients :
    /\ bridge_reader[c] = "running" =>
         \/ bridge_task[c] \in {"ws", "joining"}
         \/ bridge_task[c] = "closed" /\ bridge_peer[c] = "gone"
    /\ bridge_task[c] \in {"none", "request", "sse"} => bridge_reader[c] # "running"

\* Events go out in a stream only, and before it is over.
SentPlaced ==
  \A c \in BridgeClients :
    bridge_sent[c] # 0 =>
      \/ bridge_task[c] \in {"sse", "ws"}
      \/ bridge_task[c] \in {"joining", "closed"} /\ bridge_sent[c] = BridgeProgress
      \/ bridge_task[c] = "closed" /\ bridge_peer[c] = "gone"

BridgeInv == Bridge!TypeOK /\ ReaderPlaced /\ SentPlaced

LEMMA BridgeInit == Bridge!BridgeAssumption /\ Bridge!Init => BridgeInv
<1> SUFFICES ASSUME Bridge!BridgeAssumption, Bridge!Init PROVE BridgeInv
  OBVIOUS
<1>1. Bridge!TypeOK
  <2>1. bridge_waits \in BOOLEAN
          /\ bridge_daemon \in {"down", "serving", "stopping"}
    BY Zenon DEF Bridge!Init
  <2>2. 0 \in 0..BridgeMaxLives /\ 0 \in 0..BridgeProgress
    BY DEF Bridge!BridgeAssumption
  <2> QED
    BY <2>1, <2>2, Zenon DEF Bridge!Init, Bridge!TypeOK
<1>2. ReaderPlaced /\ SentPlaced
  BY DEF Bridge!Init, ReaderPlaced, SentPlaced
<1> QED
  BY <1>1, <1>2 DEF BridgeInv

LEMMA BridgeStep == Bridge!BridgeAssumption /\ BridgeInv
  /\ [Bridge!Next]_(Bridge!vars) => BridgeInv'
<1> SUFFICES ASSUME Bridge!BridgeAssumption, BridgeInv, [Bridge!Next]_(Bridge!vars)
    PROVE  BridgeInv'
  OBVIOUS
<1> USE DEF Bridge!BridgeAssumption, BridgeInv, Bridge!TypeOK, ReaderPlaced,
        SentPlaced
<1>1. CASE Bridge!Start
  BY <1>1 DEF Bridge!Start
<1>2. CASE Bridge!Interrupt
  BY <1>2 DEF Bridge!Interrupt
<1>3. CASE Bridge!Stopped
  BY <1>3 DEF Bridge!Stopped, Bridge!Handled
<1>4. ASSUME NEW c \in BridgeClients, Bridge!Connect(c) PROVE BridgeInv'
  BY <1>4 DEF Bridge!Connect, Bridge!Handled
<1>5. ASSUME NEW c \in BridgeClients, Bridge!Leave(c) PROVE BridgeInv'
  BY <1>5 DEF Bridge!Leave
<1>6. ASSUME NEW c \in BridgeClients, Bridge!Reply(c) PROVE BridgeInv'
  BY <1>6 DEF Bridge!Reply, Bridge!Finish
<1>7. ASSUME NEW c \in BridgeClients, Bridge!Events(c) PROVE BridgeInv'
  BY <1>7 DEF Bridge!Events
<1>8. ASSUME NEW c \in BridgeClients, Bridge!Live(c) PROVE BridgeInv'
  BY <1>8 DEF Bridge!Live
<1>9. ASSUME NEW c \in BridgeClients, Bridge!Stream(c) PROVE BridgeInv'
  <2>1. CASE Bridge!Push(c)
    BY <2>1 DEF Bridge!Push
  <2>2. CASE Bridge!PushFails(c)
    BY <2>2 DEF Bridge!PushFails, Bridge!Finish
  <2>3. CASE Bridge!Sent(c)
    BY <2>3 DEF Bridge!Sent
  <2>4. CASE Bridge!ReaderEnds(c)
    BY <2>4 DEF Bridge!ReaderEnds
  <2>5. CASE Bridge!Join(c)
    BY <2>5 DEF Bridge!Join, Bridge!Finish
  <2> QED
    BY <1>9, <2>1, <2>2, <2>3, <2>4, <2>5 DEF Bridge!Stream
<1>10. CASE UNCHANGED Bridge!vars
  BY <1>10 DEF Bridge!vars
<1> QED
  BY <1>1, <1>2, <1>3, <1>4, <1>5, <1>6, <1>7, <1>8, <1>9, <1>10 DEF
     Bridge!Next

\* The steps of the bridge, without the fairness of its loop.
BridgeMoves == Bridge!Init /\ [][Bridge!Next]_(Bridge!vars)

\* Readers and streams stay with their handlers.
THEOREM BridgeInductive == Bridge!BridgeAssumption /\ BridgeMoves => []BridgeInv
<1> SUFFICES ASSUME Bridge!BridgeAssumption PROVE BridgeMoves => []BridgeInv
  OBVIOUS
<1>1. Bridge!Init => BridgeInv
  BY BridgeInit
<1>2. BridgeInv /\ [Bridge!Next]_(Bridge!vars) => BridgeInv'
  BY BridgeStep
<1> QED
  BY <1>1, <1>2, PTL DEF BridgeMoves

\* A handler that ended beside a peer that stayed left no reader and no half of
\* a stream, whatever the other clients and the daemon did (handle_client).
THEOREM BridgeSafe == Bridge!BridgeAssumption /\ BridgeMoves
  => []Bridge!NothingOrphaned
<1> SUFFICES ASSUME Bridge!BridgeAssumption
    PROVE  BridgeMoves => []Bridge!NothingOrphaned
  OBVIOUS
<1>1. BridgeInv => Bridge!NothingOrphaned
  BY DEF Bridge!BridgeAssumption, BridgeInv, Bridge!TypeOK, ReaderPlaced,
     SentPlaced, Bridge!NothingOrphaned
<1> QED
  BY <1>1, BridgeInductive, PTL

-----------------------------------------------------------------------------
(* The parts side by side: each takes its own steps, or none.              *)

LEMMA ProbeRuns == Spec => ProbeMoves
<1>1. Init => Probe!Init
  BY DEF Init
<1>2. [Next]_vars => [Probe!Next]_(Probe!vars)
  BY DEF Next, vars, probeVars, Probe!vars, CveNext, KevNext, EpssNext,
     FoundNext, FixerNext, PassportsNext, MalwareNext, PypaNext, GitlabNext,
     UpdatesNext, GraphNext, StoreNext, ProbeNext, SandboxNext, BridgeNext,
     BotNext, SiteNext, PubNext
<1> QED
  BY <1>1, <1>2, PTL DEF Spec, ProbeMoves

LEMMA SandboxRuns == Spec => Sandbox!Spec
<1>1. Init => Sandbox!Init
  BY DEF Init
<1>2. [Next]_vars => [Sandbox!Next]_(Sandbox!vars)
  BY DEF Next, vars, sandboxVars, Sandbox!vars, CveNext, KevNext, EpssNext,
     FoundNext, FixerNext, PassportsNext, MalwareNext, PypaNext, GitlabNext,
     UpdatesNext, GraphNext, StoreNext, ProbeNext, SandboxNext, BridgeNext,
     BotNext, SiteNext, PubNext
<1> QED
  BY <1>1, <1>2, PTL DEF Spec, Sandbox!Spec

LEMMA BridgeRuns == Spec => BridgeMoves
<1>1. Init => Bridge!Init
  BY DEF Init
<1>2. [Next]_vars => [Bridge!Next]_(Bridge!vars)
  BY DEF Next, vars, bridgeVars, Bridge!vars, CveNext, KevNext, EpssNext,
     FoundNext, FixerNext, PassportsNext, MalwareNext, PypaNext, GitlabNext,
     UpdatesNext, GraphNext, StoreNext, ProbeNext, SandboxNext, BridgeNext,
     BotNext, SiteNext, PubNext
<1> QED
  BY <1>1, <1>2, PTL DEF Spec, BridgeMoves

\* Probes, sandboxes and the bridge leave and report what they should, for
\* every value of the constants.
THEOREM SessionsSafe == Spec => []SessionsSound
<1>1. /\ Probe!ProbeSessionAssumption /\ Sandbox!SandboxAssumption
      /\ Bridge!BridgeAssumption
  BY PartsAssumption DEF PartsAssumption
<1>2. (/\ Probe!OwnAnswers /\ Probe!LostOnlyToStrays /\ Probe!NothingLeft
       /\ Sandbox!LeftBehind /\ Sandbox!HostByChoice
       /\ Bridge!NothingOrphaned) => SessionsSound
  BY DEF SessionsSound
<1>3. Spec => [](Probe!OwnAnswers /\ Probe!LostOnlyToStrays /\ Probe!NothingLeft)
  BY <1>1, ProbeRuns, ProbeSafe
<1>4. Spec => [](Sandbox!LeftBehind /\ Sandbox!HostByChoice)
  BY <1>1, SandboxRuns, SandboxSafe
<1>5. Spec => []Bridge!NothingOrphaned
  BY <1>1, BridgeRuns, BridgeSafe
<1> QED
  BY <1>2, <1>3, <1>4, <1>5, PTL

-----------------------------------------------------------------------------
(* The alias graph: a forest over the identifiers.                         *)

\* The instance counts as the library does.
LEMMA GraphSizes == (\A S : Graph!Cardinality(S) = Cardinality(S))
  /\ (\A S : Graph!IsFiniteSet(S) = IsFiniteSet(S))
BY DEF Graph!Cardinality, Cardinality, Graph!IsFiniteSet, IsFiniteSet

\* The identifiers of a forest.
Here(p) == {i \in GraphIds : p[i] # GraphAbsent}

\* A step up raises the rank.
Climbs(p, r) ==
  /\ p \in Graph!Forests /\ r \in [GraphIds -> Nat]
  /\ \A i \in Here(p) : p[i] \in Here(p) /\ (p[i] # i => r[i] < r[p[i]])

\* Of finitely many identifiers some have the highest rank.
LEMMA HighestIn ==
  ASSUME Graph!AliasGraphAssumption, NEW r \in [GraphIds -> Nat],
         NEW s \in SUBSET GraphIds, s # {}
  PROVE  \E i \in s : \A j \in s : r[j] <= r[i]
<1> DEFINE above(i) == {j \in GraphIds : r[j] > r[i]}
           counts == {Cardinality(above(i)) : i \in s}
<1>1. \A i \in GraphIds : IsFiniteSet(above(i)) /\ Cardinality(above(i)) \in Nat
  BY GraphSizes, FS_Subset, FS_CardinalityType DEF Graph!AliasGraphAssumption
<1>2. PICK n \in counts : \A m \in counts :
        ~ (<<m, n>> \in {k \in Nat \X Nat : k[1] < k[2]})
  <2>1. counts \subseteq Nat /\ counts # {}
    BY <1>1
  <2> HIDE DEF counts
  <2> QED
    BY <2>1, WFMin, LessIsWellFounded
<1>3. PICK i \in s : n = Cardinality(above(i))
  BY <1>2
<1>4. ASSUME NEW j \in s, r[j] > r[i] PROVE FALSE
  <2>1. above(j) \subseteq above(i) /\ j \in above(i) /\ j \notin above(j)
    BY <1>4
  <2> HIDE DEF above
  <2>2. Cardinality(above(j)) <= Cardinality(above(i)) /\ above(j) # above(i)
    BY <1>1, <2>1, FS_Subset
  <2>3. Cardinality(above(j)) # Cardinality(above(i))
    BY <1>1, <2>1, <2>2, FS_Subset
  <2>4. Cardinality(above(j)) < n
    BY <1>1, <1>3, <2>2, <2>3
  <2> QED
    BY <1>1, <1>2, <1>3, <2>4
<1> QED
  BY <1>4

-----------------------------------------------------------------------------
(* Paths and roots.                                                        *)

LEMMA PathIs ==
  ASSUME NEW p, NEW r, Climbs(p, r), NEW x \in Here(p)
  PROVE  /\ x \in Graph!Path(p, x) /\ Graph!Path(p, x) \subseteq Here(p)
         /\ \A i \in Graph!Path(p, x) : p[i] \in Graph!Path(p, x)
         /\ \A s \in SUBSET GraphIds : x \in s /\ (\A i \in s : p[i] \in s)
              => Graph!Path(p, x) \subseteq s
<1>1. x \in GraphIds /\ Here(p) \in SUBSET GraphIds
      /\ \A i \in Here(p) : p[i] \in Here(p)
  BY DEF Here, Climbs
<1>2. Graph!Path(p, x) \subseteq Here(p)
  BY <1>1 DEF Graph!Path
<1>3. \A i \in Graph!Path(p, x) : p[i] \in GraphIds
  BY <1>1, <1>2
<1> QED
  BY <1>1, <1>2, <1>3 DEF Graph!Path

LEMMA PathStep ==
  ASSUME NEW p, NEW r, Climbs(p, r), NEW x \in Here(p)
  PROVE  /\ p[x] = x => Graph!Path(p, x) = {x}
         /\ p[x] # x => Graph!Path(p, x) = {x} \cup Graph!Path(p, p[x])
<1>1. p[x] \in Here(p) /\ x \in GraphIds /\ Here(p) \subseteq GraphIds
  BY DEF Here, Climbs
<1>2. CASE p[x] = x
  <2>1. Graph!Path(p, x) \subseteq {x}
    <3>1. {x} \in SUBSET GraphIds /\ x \in {x} /\ \A i \in {x} : p[i] \in {x}
      BY <1>1, <1>2
    <3> QED
      BY <3>1, PathIs
  <2> QED
    BY <1>2, <2>1, PathIs
<1>3. CASE p[x] # x
  <2> DEFINE s == {x} \cup Graph!Path(p, p[x])
  <2>1. p[x] \in Graph!Path(p, p[x]) /\ Graph!Path(p, p[x]) \subseteq GraphIds
    BY <1>1, PathIs
  <2>2. \A i \in s : p[i] \in s
    BY <1>1, <2>1, PathIs
  <2>3. Graph!Path(p, x) \subseteq s
    <3>1. s \in SUBSET GraphIds /\ x \in s
      BY <1>1, <2>1
    <3> HIDE DEF s
    <3> QED
      BY <2>2, <3>1, PathIs
  <2>4. x \in Graph!Path(p, x) /\ p[x] \in Graph!Path(p, x)
        /\ Graph!Path(p, x) \in SUBSET GraphIds
    BY <1>1, PathIs
  <2>5. Graph!Path(p, p[x]) \subseteq Graph!Path(p, x)
    BY <1>1, <2>4, PathIs
  <2> QED
    BY <1>3, <2>3, <2>4, <2>5
<1> QED
  BY <1>2, <1>3

\* Every path has one end.
LEMMA RootIs ==
  ASSUME Graph!AliasGraphAssumption, NEW p, NEW r, Climbs(p, r), NEW x \in Here(p)
  PROVE  /\ Graph!Root(p, x) \in Graph!Path(p, x)
            /\ p[Graph!Root(p, x)] = Graph!Root(p, x)
         /\ \A e \in Graph!Path(p, x) : p[e] = e => e = Graph!Root(p, x)
<1>0. r \in [GraphIds -> Nat] /\ Here(p) \subseteq GraphIds
  BY DEF Climbs, Here
<1>1. \E e \in Graph!Path(p, x) : p[e] = e
  <2>1. Graph!Path(p, x) \in SUBSET GraphIds /\ Graph!Path(p, x) # {}
    BY <1>0, PathIs
  <2>2. PICK e \in Graph!Path(p, x) : \A j \in Graph!Path(p, x) : r[j] <= r[e]
    BY <1>0, <2>1, HighestIn
  <2>3. p[e] \in Graph!Path(p, x) /\ e \in Here(p)
    BY <2>2, PathIs
  <2>4. p[e] # e => r[e] < r[p[e]]
    BY <2>3 DEF Climbs
  <2>5. r[e] \in Nat /\ r[p[e]] \in Nat
    BY <1>0, <2>1, <2>3
  <2> QED
    BY <2>2, <2>3, <2>4, <2>5
<1>2. Graph!Root(p, x) \in Graph!Path(p, x)
      /\ p[Graph!Root(p, x)] = Graph!Root(p, x)
  BY <1>1 DEF Graph!Root
<1> DEFINE forked == {i \in Here(p) : \E e, f \in Graph!Path(p, i) : p[e] = e
      /\ p[f] = f /\ e # f}
<1>3. forked = {}
  <2>1. SUFFICES ASSUME forked # {} PROVE FALSE
    OBVIOUS
  <2>2. forked \in SUBSET GraphIds
    BY <1>0
  <2>3. PICK i \in forked : \A j \in forked : r[j] <= r[i]
    <3> HIDE DEF forked
    <3> QED
      BY <1>0, <2>1, <2>2, HighestIn
  <2>4. PICK e \in Graph!Path(p, i), f \in Graph!Path(p, i) : p[e] = e /\ p[f] = f
        /\ e # f
    OBVIOUS
  <2>5. p[i] # i
    BY <2>4, PathStep
  <2>6. e \in Graph!Path(p, p[i]) /\ f \in Graph!Path(p, p[i])
    BY <2>4, <2>5, PathStep
  <2>7. p[i] \in Here(p) /\ r[i] < r[p[i]]
    BY <2>5 DEF Climbs
  <2>8. p[i] \in forked
    BY <2>4, <2>6, <2>7
  <2>9. r[i] \in Nat /\ r[p[i]] \in Nat
    BY <1>0, <2>7
  <2> QED
    BY <2>3, <2>7, <2>8, <2>9
<1> QED
  BY <1>2, <1>3

LEMMA RootHere ==
  ASSUME Graph!AliasGraphAssumption, NEW p, NEW r, Climbs(p, r), NEW x \in Here(p)
  PROVE  /\ Graph!Root(p, x) \in Here(p) /\ Graph!Root(p, x) \in GraphIds
         /\ p[Graph!Root(p, x)] = Graph!Root(p, x)
            /\ Graph!Root(p, Graph!Root(p, x)) = Graph!Root(p, x)
<1>1. Graph!Root(p, x) \in Here(p) /\ p[Graph!Root(p, x)] = Graph!Root(p, x)
  BY RootIs, PathIs
<1>2. Graph!Path(p, Graph!Root(p, x)) = {Graph!Root(p, x)}
  BY <1>1, PathStep
<1>3. Graph!Root(p, Graph!Root(p, x)) \in Graph!Path(p, Graph!Root(p, x))
  BY <1>1, RootIs
<1> QED
  BY <1>1, <1>2, <1>3 DEF Here

LEMMA RootStep ==
  ASSUME Graph!AliasGraphAssumption, NEW p, NEW r, Climbs(p, r), NEW x \in Here(p)
  PROVE  Graph!Root(p, x) = IF p[x] = x THEN x ELSE Graph!Root(p, p[x])
<1>1. p[x] \in Here(p)
  BY DEF Climbs
<1>2. CASE p[x] = x
  BY <1>2, PathIs, RootIs
<1>3. CASE p[x] # x
  <2>1. Graph!Root(p, p[x]) \in Graph!Path(p, p[x])
        /\ p[Graph!Root(p, p[x])] = Graph!Root(p, p[x])
    BY <1>1, RootIs
  <2>2. Graph!Root(p, p[x]) \in Graph!Path(p, x)
    BY <1>3, <2>1, PathStep
  <2> QED
    BY <1>3, <2>1, <2>2, RootIs
<1> QED
  BY <1>2, <1>3

\* What climbs like the roots do is the roots.
LEMMA RootsAre ==
  ASSUME Graph!AliasGraphAssumption, NEW p, NEW r, Climbs(p, r), NEW f,
         \A i \in Here(p) : f[i] = IF p[i] = i THEN i ELSE f[p[i]]
  PROVE  \A i \in Here(p) : Graph!Root(p, i) = f[i]
<1> DEFINE wrong == {i \in Here(p) : Graph!Root(p, i) # f[i]}
<1>0. r \in [GraphIds -> Nat] /\ Here(p) \subseteq GraphIds
  BY DEF Climbs, Here
<1>1. SUFFICES ASSUME wrong # {} PROVE FALSE
  OBVIOUS
<1>2. PICK i \in wrong : \A j \in wrong : r[j] <= r[i]
  <2>1. wrong \in SUBSET GraphIds
    BY <1>0
  <2> HIDE DEF wrong
  <2> QED
    BY <1>0, <1>1, <2>1, HighestIn
<1>3. p[i] # i /\ Graph!Root(p, i) = Graph!Root(p, p[i]) /\ f[i] = f[p[i]]
  BY RootStep
<1>4. p[i] \in wrong /\ r[i] < r[p[i]]
  BY <1>3 DEF Climbs
<1>5. r[i] \in Nat /\ r[p[i]] \in Nat
  BY <1>0, <1>4
<1> QED
  BY <1>2, <1>4, <1>5

LEMMA RootOnPath ==
  ASSUME Graph!AliasGraphAssumption, NEW p, NEW r, Climbs(p, r), NEW x \in Here(p)
  PROVE  \A i \in Graph!Path(p, x) : Graph!Root(p, i) = Graph!Root(p, x)
<1> DEFINE s == {i \in Here(p) : Graph!Root(p, i) = Graph!Root(p, x)}
<1>1. s \in SUBSET GraphIds /\ x \in s
  BY DEF Here
<1>2. ASSUME NEW i \in s PROVE p[i] \in s
  BY RootStep DEF Climbs
<1>3. Graph!Path(p, x) \subseteq s
  BY <1>1, <1>2, PathIs
<1> QED
  BY <1>3

LEMMA RootHigher ==
  ASSUME Graph!AliasGraphAssumption, NEW p, NEW r, Climbs(p, r)
  PROVE  \A i \in Here(p) : r[i] <= r[Graph!Root(p, i)]
         /\ (i # Graph!Root(p, i) => r[i] < r[Graph!Root(p, i)])
<1> DEFINE low == {i \in Here(p) :
      ~ (i = Graph!Root(p, i) \/ r[i] < r[Graph!Root(p, i)])}
<1>0. r \in [GraphIds -> Nat] /\ Here(p) \subseteq GraphIds
  BY DEF Climbs, Here
<1>1. low = {}
  <2>1. SUFFICES ASSUME low # {} PROVE FALSE
    OBVIOUS
  <2>2. PICK i \in low : \A j \in low : r[j] <= r[i]
    <3>1. low \in SUBSET GraphIds
      BY <1>0
    <3> HIDE DEF low
    <3> QED
      BY <1>0, <2>1, <3>1, HighestIn
  <2>3. p[i] # i /\ Graph!Root(p, i) = Graph!Root(p, p[i])
    BY RootStep
  <2>4. p[i] \in Here(p) /\ r[i] < r[p[i]]
    BY <2>3 DEF Climbs
  <2>5. r[i] \in Nat /\ r[p[i]] \in Nat /\ r[Graph!Root(p, i)] \in Nat
    BY <1>0, <2>4, RootHere
  <2>6. p[i] \in low
    BY <2>3, <2>4, <2>5
  <2> QED
    BY <2>2, <2>4, <2>5, <2>6
<1>2. \A i \in Here(p) : r[i] \in Nat /\ r[Graph!Root(p, i)] \in Nat
  BY <1>0, RootHere
<1> QED
  BY <1>1, <1>2

-----------------------------------------------------------------------------
(* find keeps every root.                                                  *)

\* `q' is the forest `p' with `x', a tree of its own if it was not there.
SameRoots(p, q, new) ==
  /\ Here(q) = Here(p) \cup new
  /\ \A i \in Here(q) : Graph!Root(q, i) = IF i \in Here(p) THEN Graph!Root(p, i)
       ELSE i

LEMMA EnsuredRoots ==
  ASSUME Graph!AliasGraphAssumption, NEW p, NEW r, Climbs(p, r), NEW x \in GraphIds
  PROVE  Climbs(Graph!Ensured(p, x), r) /\ SameRoots(p, Graph!Ensured(p, x), {x})
<1> DEFINE q == Graph!Ensured(p, x)
<1>0. p \in [GraphIds -> GraphIds \cup {GraphAbsent}] /\ Here(p) \subseteq GraphIds
      /\ r \in [GraphIds -> Nat]
  BY DEF Climbs, Graph!Forests, Here
<1>1. CASE p[x] # GraphAbsent
  <2>1. q = p /\ x \in Here(p)
    BY <1>1 DEF Graph!Ensured, Here
  <2> QED
    BY <2>1 DEF SameRoots
<1>2. CASE p[x] = GraphAbsent
  <2>1. q = [p EXCEPT ![x] = x]
    BY <1>2 DEF Graph!Ensured
  <2>2. /\ q \in Graph!Forests /\ q[x] = x /\ \A i \in GraphIds : i # x
             => q[i] = p[i]
        /\ x # GraphAbsent /\ x \notin Here(p)
    BY GraphSizes, <1>0, <1>2, <2>1 DEF Graph!AliasGraphAssumption,
       Graph!Forests, Here
  <2>3. Here(q) = Here(p) \cup {x}
    BY <2>2 DEF Here
  <2>4. \A i \in Here(p) : i # x /\ q[i] = p[i] /\ p[i] \in Here(p)
    BY <1>0, <2>2 DEF Climbs
  <2>5. Climbs(q, r)
    <3>1. ASSUME NEW i \in Here(q)
          PROVE  q[i] \in Here(q) /\ (q[i] # i => r[i] < r[q[i]])
      <4>1. CASE i = x
        BY <2>2, <2>3, <4>1
      <4>2. CASE i \in Here(p)
        BY <2>3, <2>4, <4>2 DEF Climbs
      <4> QED
        BY <2>3, <4>1, <4>2
    <3> HIDE DEF q
    <3> QED
      BY <1>0, <2>2, <3>1 DEF Climbs
  <2> DEFINE f == [i \in Here(q) |-> IF i \in Here(p) THEN Graph!Root(p, i) ELSE i]
  <2>6. ASSUME NEW i \in Here(q) PROVE f[i] = IF q[i] = i THEN i ELSE f[q[i]]
    <3>1. CASE i = x
      BY <2>2, <2>3, <3>1
    <3>2. CASE i \in Here(p)
      <4>1. q[i] = p[i] /\ p[i] \in Here(p) /\ p[i] \in Here(q)
        BY <2>3, <2>4, <3>2
      <4>2. f[i] = Graph!Root(p, i) /\ f[p[i]] = Graph!Root(p, p[i])
        BY <3>2, <4>1
      <4> QED
        BY <3>2, <4>1, <4>2, RootStep
    <3> QED
      BY <2>3, <3>1, <3>2
  <2> HIDE DEF q
  <2>7. \A i \in Here(q) : Graph!Root(q, i) = f[i]
    <3> HIDE DEF f
    <3> QED
      BY <2>5, <2>6, RootsAre
  <2>8. SameRoots(p, q, {x})
    BY <2>3, <2>7 DEF SameRoots
  <2> QED
    BY <2>5, <2>8 DEF q
<1> QED
  BY <1>1, <1>2

LEMMA CompressedRoots ==
  ASSUME Graph!AliasGraphAssumption, NEW p, NEW r, Climbs(p, r), NEW x \in Here(p)
  PROVE  Climbs(Graph!Compressed(p, x), r)
         /\ SameRoots(p, Graph!Compressed(p, x), {})
<1> DEFINE q == Graph!Compressed(p, x)
           t == Graph!Root(p, x)
<1>0. p \in [GraphIds -> GraphIds \cup {GraphAbsent}] /\ Here(p) \subseteq GraphIds
      /\ r \in [GraphIds -> Nat]
  BY DEF Climbs, Graph!Forests, Here
<1>1. q = [i \in GraphIds |-> IF i \in Graph!Path(p, x) THEN t ELSE p[i]]
  BY DEF Graph!Compressed
<1>2. t \in Here(p) /\ t \in GraphIds /\ Graph!Root(p, t) = t
      /\ Graph!Path(p, x) \subseteq Here(p)
  BY RootHere, PathIs
<1> HIDE DEF q, t
<1>3. q \in Graph!Forests
  BY <1>0, <1>1, <1>2 DEF Graph!Forests
<1>4. Here(q) = Here(p)
  <2>1. \A i \in GraphIds : q[i] = IF i \in Graph!Path(p, x) THEN t ELSE p[i]
    BY <1>1
  <2>2. t # GraphAbsent
    BY GraphSizes, <1>2 DEF Graph!AliasGraphAssumption
  <2> QED
    BY <1>2, <2>1, <2>2 DEF Here
<1>5. \A i \in Here(p) : q[i] = IF i \in Graph!Path(p, x) THEN t ELSE p[i]
  BY <1>0, <1>1
<1>6. \A i \in Graph!Path(p, x) : Graph!Root(p, i) = t
  BY RootOnPath DEF t
<1>7. Climbs(q, r)
  <2>1. ASSUME NEW i \in Here(q)
        PROVE  q[i] \in Here(q) /\ (q[i] # i => r[i] < r[q[i]])
    <3>1. CASE i \in Graph!Path(p, x)
      <4>1. q[i] = t /\ Graph!Root(p, i) = t
        BY <1>4, <1>5, <1>6, <3>1
      <4> QED
        BY <1>2, <1>4, <4>1, RootHigher
    <3>2. CASE i \notin Graph!Path(p, x)
      BY <1>4, <1>5, <3>2 DEF Climbs
    <3> QED
      BY <3>1, <3>2
  <2> QED
    BY <1>0, <1>3, <2>1 DEF Climbs
<1> DEFINE f == [i \in Here(q) |-> Graph!Root(p, i)]
<1>8. ASSUME NEW i \in Here(q) PROVE f[i] = IF q[i] = i THEN i ELSE f[q[i]]
  <2>1. CASE i \in Graph!Path(p, x)
    BY <1>2, <1>4, <1>5, <1>6, <2>1
  <2>2. CASE i \notin Graph!Path(p, x)
    <3>1. q[i] = p[i] /\ q[i] \in Here(q) /\ i \in Here(p)
      BY <1>4, <1>5, <1>7, <2>2 DEF Climbs
    <3> QED
      BY <3>1, RootStep
  <2> QED
    BY <2>1, <2>2
<1>9. \A i \in Here(q) : Graph!Root(q, i) = f[i]
  <2> HIDE DEF f
  <2> QED
    BY <1>7, <1>8, RootsAre
<1>10. SameRoots(p, q, {})
  BY <1>4, <1>9 DEF SameRoots
<1> QED
  BY <1>7, <1>10 DEF q

LEMMA FoundRoots ==
  ASSUME Graph!AliasGraphAssumption, NEW p, NEW r, Climbs(p, r), NEW x \in GraphIds
  PROVE  Climbs(Graph!Found(p, x), r) /\ SameRoots(p, Graph!Found(p, x), {x})
<1> DEFINE e == Graph!Ensured(p, x)
<1>1. Climbs(e, r) /\ SameRoots(p, e, {x})
  BY EnsuredRoots
<1>2. x \in Here(e)
  BY <1>1 DEF SameRoots
<1>3. Graph!Found(p, x) = Graph!Compressed(e, x)
  BY DEF Graph!Found
<1> HIDE DEF e
<1>4. Climbs(Graph!Found(p, x), r) /\ SameRoots(e, Graph!Found(p, x), {})
  BY <1>1, <1>2, <1>3, CompressedRoots
<1> QED
  BY <1>1, <1>4 DEF SameRoots

LEMMA FoundTwice ==
  ASSUME Graph!AliasGraphAssumption, NEW p, NEW r, Climbs(p, r),
         NEW a \in GraphIds, NEW b \in GraphIds
  PROVE  /\ Climbs(Graph!Found(Graph!Found(p, a), b), r)
         /\ SameRoots(p, Graph!Found(Graph!Found(p, a), b), {a, b})
<1> DEFINE q == Graph!Found(p, a)
<1>1. Climbs(q, r) /\ SameRoots(p, q, {a})
  BY FoundRoots
<1> HIDE DEF q
<1>2. Climbs(Graph!Found(q, b), r) /\ SameRoots(q, Graph!Found(q, b), {b})
  BY <1>1, FoundRoots
<1>3. SameRoots(p, Graph!Found(q, b), {a, b})
  BY <1>1, <1>2 DEF SameRoots
<1> QED
  BY <1>2, <1>3 DEF q

-----------------------------------------------------------------------------
(* union hangs one root under another.                                     *)

\* The root `lo' of `q' is hung under the root `hi'.
Hung(q, p, lo, hi) ==
  /\ lo \in Here(q) /\ hi \in Here(q) /\ lo # hi /\ q[lo] = lo /\ q[hi] = hi
  /\ p = [q EXCEPT ![lo] = hi]

\* Only the rank of `hi' may rise, and it is above the one of `lo'.
Lifted(r, s, lo, hi) ==
  /\ s \in [GraphIds -> Nat] /\ r[lo] < s[hi] /\ s[hi] >= r[hi]
  /\ \A i \in GraphIds \ {hi} : s[i] = r[i]

LEMMA HungRoots ==
  ASSUME Graph!AliasGraphAssumption, NEW q, NEW r, Climbs(q, r), NEW p, NEW s,
         NEW lo, NEW hi,
         Hung(q, p, lo, hi), Lifted(r, s, lo, hi)
  PROVE  /\ Climbs(p, s) /\ Here(p) = Here(q)
         /\ \A i \in Here(q) : Graph!Root(p, i) = IF Graph!Root(q, i) = lo THEN hi
              ELSE Graph!Root(q, i)
<1>0. /\ q \in [GraphIds -> GraphIds \cup {GraphAbsent}]
         /\ Here(q) \subseteq GraphIds /\ r \in [GraphIds -> Nat]
      /\ lo \in Here(q) /\ hi \in Here(q) /\ lo # hi /\ q[lo] = lo /\ q[hi] = hi
      /\ p = [q EXCEPT ![lo] = hi]
      /\ s \in [GraphIds -> Nat] /\ r[lo] < s[hi] /\ s[hi] >= r[hi]
      /\ \A i \in GraphIds \ {hi} : s[i] = r[i]
  BY DEF Climbs, Graph!Forests, Here, Hung, Lifted
<1>1. /\ p \in Graph!Forests /\ p[lo] = hi /\ \A i \in GraphIds \ {lo} : p[i] = q[i]
  BY <1>0 DEF Graph!Forests
<1>2. Here(p) = Here(q)
  <2>1. hi # GraphAbsent /\ lo # GraphAbsent
    BY GraphSizes, <1>0 DEF Here, Graph!AliasGraphAssumption
  <2> QED
    BY <1>0, <1>1, <2>1 DEF Here
<1>3. Climbs(p, s)
  <2>1. ASSUME NEW i \in Here(p)
        PROVE  p[i] \in Here(p) /\ (p[i] # i => s[i] < s[p[i]])
    <3>1. CASE i = lo
      BY <1>0, <1>1, <1>2, <3>1
    <3>2. CASE i = hi
      BY <1>0, <1>1, <3>2
    <3>3. CASE i # lo /\ i # hi
      <4>1. p[i] = q[i] /\ i \in GraphIds /\ i \in Here(q) /\ s[i] = r[i]
        BY <1>0, <1>1, <1>2, <3>3
      <4>2. q[i] \in Here(q) /\ (q[i] # i => r[i] < r[q[i]])
        BY <4>1 DEF Climbs
      <4>3. q[i] \in GraphIds /\ s[q[i]] \in Nat /\ r[q[i]] \in Nat /\ r[i] \in Nat
            /\ s[q[i]] >= r[q[i]]
        BY <1>0, <4>1, <4>2
      <4> QED
        BY <1>2, <4>1, <4>2, <4>3
    <3> QED
      BY <3>1, <3>2, <3>3
  <2> QED
    BY <1>0, <1>1, <2>1 DEF Climbs
<1> DEFINE f == [i \in Here(p) |-> IF Graph!Root(q, i) = lo THEN hi
      ELSE Graph!Root(q, i)]
<1>4. ASSUME NEW i \in Here(p) PROVE f[i] = IF p[i] = i THEN i ELSE f[p[i]]
  <2>0. Graph!Root(q, lo) = lo /\ Graph!Root(q, hi) = hi
    BY <1>0, RootStep
  <2>1. CASE i = lo
    BY <1>0, <1>1, <1>2, <2>0, <2>1
  <2>2. CASE i # lo
    <3>1. p[i] = q[i] /\ i \in Here(q) /\ q[i] \in Here(p)
      BY <1>0, <1>1, <1>2, <2>2 DEF Climbs
    <3>2. CASE q[i] = i
      BY <2>2, <3>1, <3>2, RootStep
    <3>3. CASE q[i] # i
      <4>1. Graph!Root(q, i) = Graph!Root(q, q[i])
        BY <3>1, <3>3, RootStep
      <4> QED
        BY <3>1, <3>3, <4>1
    <3> QED
      BY <3>2, <3>3
  <2> QED
    BY <2>1, <2>2
<1>5. \A i \in Here(p) : Graph!Root(p, i) = f[i]
  <2> HIDE DEF f
  <2> QED
    BY <1>3, <1>4, RootsAre
<1> QED
  BY <1>2, <1>3, <1>5

-----------------------------------------------------------------------------
(* A tree of graph_rank r holds 2^r identifiers.                                 *)

LEMMA PowerIs ==
  ASSUME Graph!AliasGraphAssumption
  PROVE  /\ Graph!Power[0] = 1
         /\ \A n \in 1..Cardinality(GraphIds) :
              Graph!Power[n] = 2 * Graph!Power[n - 1]
<1> DEFINE step(f, n) == [k \in 0..n |-> IF k = 0 THEN 1 ELSE 2 * f[k - 1]]
           bad == {n \in Nat : \A f : f # step(f, n)}
<1>1. Cardinality(GraphIds) \in Nat
  BY GraphSizes, FS_CardinalityType DEF Graph!AliasGraphAssumption
<1>2. bad = {}
  <2>1. SUFFICES ASSUME bad # {} PROVE FALSE
    OBVIOUS
  <2>2. bad \subseteq Nat
    OBVIOUS
  <2>3. PICK n \in bad : \A m \in bad :
          ~ (<<m, n>> \in {k \in Nat \X Nat : k[1] < k[2]})
    <3> HIDE DEF bad
    <3> QED
      BY <2>1, <2>2, WFMin, LessIsWellFounded
  <2>4. n # 0
    <3>1. \A f : f # step(f, n)
      BY <2>3
    <3>2. [k \in 0..0 |-> 1] = step([k \in 0..0 |-> 1], 0)
      OBVIOUS
    <3> QED
      BY <3>1, <3>2
  <2>5. n - 1 \in Nat /\ <<n - 1, n>> \in {k \in Nat \X Nat : k[1] < k[2]}
    BY <2>2, <2>4
  <2>6. n - 1 \notin bad
    BY <2>3, <2>5
  <2>7. PICK f : f = step(f, n - 1)
    BY <2>5, <2>6
  <2> DEFINE g == [k \in 0..n |-> IF k = n THEN 2 * f[n - 1] ELSE f[k]]
  <2>8. ASSUME NEW k \in 0..n PROVE g[k] = IF k = 0 THEN 1 ELSE 2 * g[k - 1]
    <3>1. \A j \in 0..(n - 1) : f[j] = IF j = 0 THEN 1 ELSE 2 * f[j - 1]
      BY <2>7
    <3>2. CASE k = n
      BY <2>4, <2>5, <3>2
    <3>3. CASE k # n
      <4>1. k \in 0..(n - 1) /\ g[k] = f[k]
        BY <2>5, <3>3
      <4>2. k # 0 => k - 1 \in 0..n /\ k - 1 # n
        BY <2>5
      <4>3. k # 0 => g[k - 1] = f[k - 1]
        BY <4>2
      <4> QED
        BY <3>1, <4>1, <4>3
    <3> QED
      BY <3>2, <3>3
  <2>9. g = step(g, n)
    <3>1. g = [k \in 0..n |-> g[k]]
      OBVIOUS
    <3> HIDE DEF g
    <3> QED
      BY <2>8, <3>1
  <2> HIDE DEF g
  <2>10. n \notin bad
    BY <2>9
  <2> QED
    BY <2>10
<1>3. \E f : f = step(f, Cardinality(GraphIds))
  BY <1>1, <1>2
<1>4. Graph!Power = step(Graph!Power, Cardinality(GraphIds))
  BY <1>3 DEF Graph!Power, Graph!Cardinality, Cardinality
<1> HIDE DEF bad
<1>5. Graph!Power = [k \in 0..Cardinality(GraphIds) |-> IF k = 0 THEN 1
        ELSE 2 * Graph!Power[k - 1]]
  BY <1>4
<1> QED
  BY <1>1, <1>5

LEMMA PowerExceeds ==
  ASSUME Graph!AliasGraphAssumption
  PROVE  \A n \in 0..Cardinality(GraphIds) : Graph!Power[n] \in Nat
         /\ n < Graph!Power[n]
<1> DEFINE K == Cardinality(GraphIds)
           bad == {n \in 0..K : ~ (Graph!Power[n] \in Nat /\ n < Graph!Power[n])}
<1>1. K \in Nat
  BY GraphSizes, FS_CardinalityType DEF Graph!AliasGraphAssumption
<1>2. Graph!Power[0] = 1 /\ \A n \in 1..K : Graph!Power[n] = 2 * Graph!Power[n - 1]
  BY PowerIs
<1> HIDE DEF K
<1>3. bad = {}
  <2>1. SUFFICES ASSUME bad # {} PROVE FALSE
    OBVIOUS
  <2>2. bad \subseteq Nat
    BY <1>1
  <2>3. PICK n \in bad : \A m \in bad :
          ~ (<<m, n>> \in {k \in Nat \X Nat : k[1] < k[2]})
    <3> HIDE DEF bad
    <3> QED
      BY <2>1, <2>2, WFMin, LessIsWellFounded
  <2>4. n # 0
    BY <1>2
  <2>5. n - 1 \in 0..K /\ n \in 1..K
    BY <1>1, <2>3, <2>4
  <2>6. <<n - 1, n>> \in {k \in Nat \X Nat : k[1] < k[2]}
    BY <2>5
  <2>7. n - 1 \notin bad
    BY <2>3, <2>6
  <2>8. Graph!Power[n - 1] \in Nat /\ n - 1 < Graph!Power[n - 1]
    BY <2>5, <2>7
  <2>9. Graph!Power[n] = 2 * Graph!Power[n - 1]
    BY <1>2, <2>5
  <2>10. Graph!Power[n] \in Nat /\ n < Graph!Power[n]
    BY <2>5, <2>8, <2>9
  <2> QED
    BY <2>3, <2>10
<1> QED
  BY <1>3 DEF K

Tree(p, t) == {i \in Here(p) : Graph!Root(p, i) = t}

\* The ranks keep in step with the sizes of the trees.
Sized(p, r) ==
  /\ r \in [GraphIds -> 0..Cardinality(GraphIds)]
  /\ \A i \in GraphIds : p[i] = GraphAbsent => r[i] = 0
  /\ \A t \in Here(p) : p[t] = t => Cardinality(Tree(p, t)) >= Graph!Power[r[t]]

LEMMA TreesFinite ==
  ASSUME Graph!AliasGraphAssumption, NEW p, NEW t
  PROVE  /\ IsFiniteSet(Tree(p, t)) /\ Cardinality(Tree(p, t)) \in Nat
         /\ Cardinality(Tree(p, t)) <= Cardinality(GraphIds)
BY GraphSizes, FS_Subset, FS_CardinalityType DEF Tree, Here,
   Graph!AliasGraphAssumption

LEMMA FoundSized ==
  ASSUME Graph!AliasGraphAssumption, NEW p, NEW r, Climbs(p, r), Sized(p, r),
         NEW q, Climbs(q, r), NEW new \in SUBSET GraphIds, SameRoots(p, q, new)
  PROVE  Sized(q, r)
<1>1. ASSUME NEW i \in GraphIds, q[i] = GraphAbsent PROVE r[i] = 0
  <2>1. p[i] = GraphAbsent
    BY <1>1 DEF SameRoots, Here
  <2> QED
    BY <2>1 DEF Sized
<1>2. ASSUME NEW t \in Here(q), q[t] = t
      PROVE  Cardinality(Tree(q, t)) >= Graph!Power[r[t]]
  <2>0. Graph!Root(q, t) = t
    BY <1>2, RootStep
  <2>1. CASE t \in Here(p)
    <3>1. Graph!Root(p, t) = t
      BY <2>0, <2>1 DEF SameRoots
    <3>2. p[t] = t
      BY <2>1, <3>1, RootHere
    <3>3. Tree(q, t) = Tree(p, t)
      BY <2>1 DEF Tree, SameRoots
    <3> QED
      BY <2>1, <3>2, <3>3 DEF Sized
  <2>2. CASE t \notin Here(p)
    <3>1. p[t] = GraphAbsent /\ t \in GraphIds
      BY <2>2 DEF Here
    <3>2. Graph!Power[r[t]] = 1
      BY <3>1, PowerIs DEF Sized
    <3>3. Tree(q, t) # {}
      BY <2>0 DEF Tree
    <3>4. Cardinality(Tree(q, t)) # 0 /\ Cardinality(Tree(q, t)) \in Nat
      BY <3>3, TreesFinite, FS_EmptySet
    <3> QED
      BY <3>2, <3>4
  <2> QED
    BY <2>1, <2>2
<1> QED
  BY <1>1, <1>2 DEF Sized

\* The lower root is hung under the other one, or one of two equal ones is and
\* the rank of the other one rises.
Raised(r, s, lo, hi) ==
  \/ r[lo] < r[hi] /\ s = r
  \/ r[lo] = r[hi] /\ s = [r EXCEPT ![hi] = @ + 1]

\* The tree of the higher root takes in the other one.
LEMMA HungSized ==
  ASSUME Graph!AliasGraphAssumption, NEW q, NEW r, Climbs(q, r), Sized(q, r),
         NEW p, NEW s,
         NEW lo, NEW hi, Hung(q, p, lo, hi), Raised(r, s, lo, hi)
  PROVE  /\ Climbs(p, s) /\ Sized(p, s) /\ Here(p) = Here(q)
         /\ \A i \in Here(q) : Graph!Root(p, i) = IF Graph!Root(q, i) = lo THEN hi
              ELSE Graph!Root(q, i)
<1> DEFINE K == Cardinality(GraphIds)
<1>0. /\ lo \in Here(q) /\ hi \in Here(q) /\ lo # hi /\ q[lo] = lo /\ q[hi] = hi
      /\ p = [q EXCEPT ![lo] = hi] /\ lo \in GraphIds /\ hi \in GraphIds
      /\ r \in [GraphIds -> Nat] /\ q \in Graph!Forests /\ r \in [GraphIds -> 0..K]
  BY DEF Hung, Here, Climbs, Sized
<1>1. K \in Nat
  BY GraphSizes, FS_CardinalityType DEF Graph!AliasGraphAssumption
<1>2. /\ Cardinality(Tree(q, lo)) >= Graph!Power[r[lo]]
         /\ Cardinality(Tree(q, hi)) >= Graph!Power[r[hi]]
  BY <1>0 DEF Sized
<1>3. Graph!Root(q, lo) = lo /\ Graph!Root(q, hi) = hi
  BY <1>0, RootStep
<1> DEFINE both == Tree(q, lo) \cup Tree(q, hi)
<1>4. Cardinality(both) = Cardinality(Tree(q, lo)) + Cardinality(Tree(q, hi))
  <2>1. Tree(q, lo) \cap Tree(q, hi) = {}
    BY <1>0 DEF Tree
  <2>2. Cardinality({}) = 0
    BY FS_EmptySet
  <2>3. /\ IsFiniteSet(Tree(q, lo)) /\ IsFiniteSet(Tree(q, hi))
        /\ Cardinality(Tree(q, lo)) \in Nat /\ Cardinality(Tree(q, hi)) \in Nat
    BY TreesFinite
  <2>4. Cardinality(both)
          = Cardinality(Tree(q, lo)) + Cardinality(Tree(q, hi))
              - Cardinality(Tree(q, lo) \cap Tree(q, hi))
    BY <2>3, FS_Union
  <2>5. Cardinality(Tree(q, lo) \cap Tree(q, hi)) = 0
    BY <2>1, <2>2
  <2> QED
    BY <2>3, <2>4, <2>5
<1>5. Cardinality(both) <= K
  BY GraphSizes, FS_Subset DEF Tree, Here, Graph!AliasGraphAssumption
<1>6. /\ Graph!Power[r[lo]] \in Nat /\ r[lo] < Graph!Power[r[lo]]
         /\ Graph!Power[r[hi]] \in Nat /\ r[hi] < Graph!Power[r[hi]]
  BY <1>0, PowerExceeds
<1>7. /\ Cardinality(Tree(q, lo)) \in Nat /\ Cardinality(Tree(q, hi)) \in Nat
  BY TreesFinite
<1> HIDE DEF both, K
<1>8. /\ s \in [GraphIds -> 0..K] /\ s \in [GraphIds -> Nat] /\ r[lo] < s[hi]
         /\ s[hi] >= r[hi]
      /\ \A i \in GraphIds \ {hi} : s[i] = r[i]
      /\ Graph!Power[s[hi]] <= Cardinality(both)
  <2>0. r[lo] \in Nat /\ r[hi] \in 0..K
    BY <1>0
  <2>1. CASE r[lo] < r[hi] /\ s = r
    BY <1>0, <1>1, <1>2, <1>4, <1>6, <1>7, <2>0, <2>1
  <2>2. CASE r[lo] = r[hi] /\ s = [r EXCEPT ![hi] = @ + 1]
    <3>1. r[hi] + 1 \in 1..K
      BY <1>1, <1>2, <1>4, <1>5, <1>6, <1>7, <2>0, <2>2
    <3>2. Graph!Power[r[hi] + 1] = 2 * Graph!Power[r[hi]]
      <4>1. \A n \in 1..K : Graph!Power[n] = 2 * Graph!Power[n - 1]
        BY PowerIs DEF K
      <4>2. Graph!Power[r[hi] + 1] = 2 * Graph!Power[(r[hi] + 1) - 1]
            /\ (r[hi] + 1) - 1 = r[hi]
        BY <2>0, <3>1, <4>1
      <4> QED
        BY <4>2
    <3>3. s[hi] = r[hi] + 1 /\ \A i \in GraphIds \ {hi} : s[i] = r[i]
      BY <1>0, <2>2
    <3>4. s \in [GraphIds -> 0..K] /\ s \in [GraphIds -> Nat]
      BY <1>0, <1>1, <2>2, <3>1
    <3>5. Graph!Power[s[hi]] <= Cardinality(both)
      BY <1>2, <1>4, <1>6, <1>7, <2>2, <3>2, <3>3
    <3> QED
      BY <2>0, <2>2, <3>3, <3>4, <3>5
  <2> QED
    BY <2>1, <2>2 DEF Raised
<1>9. /\ Climbs(p, s) /\ Here(p) = Here(q)
      /\ \A i \in Here(q) : Graph!Root(p, i) = IF Graph!Root(q, i) = lo THEN hi
           ELSE Graph!Root(q, i)
  <2>1. Lifted(r, s, lo, hi)
    BY <1>8 DEF Lifted
  <2> QED
    BY <2>1, HungRoots
<1>10. Sized(p, s)
  <2>1. \A i \in GraphIds : p[i] = GraphAbsent => s[i] = 0
    <3>1. \A i \in GraphIds : p[i] = GraphAbsent => q[i] = GraphAbsent /\ i # hi
      BY <1>0, <1>9 DEF Here
    <3> QED
      BY <1>8, <3>1 DEF Sized
  <2>2. ASSUME NEW t \in Here(p), p[t] = t
        PROVE  Cardinality(Tree(p, t)) >= Graph!Power[s[t]]
    <3>1. t # lo /\ t \in Here(q) /\ t \in GraphIds /\ q[t] = t
      <4>1. t \in Here(q) /\ t \in GraphIds
        BY <1>9 DEF Here
      <4>2. p[lo] = hi
        BY <1>0 DEF Graph!Forests
      <4>3. t # lo
        BY <1>0, <2>2, <4>2
      <4>4. p[t] = q[t]
        BY <1>0, <4>1, <4>3 DEF Graph!Forests
      <4> QED
        BY <2>2, <4>1, <4>3, <4>4
    <3>2. CASE t = hi
      <4>1. Tree(p, hi) = both
        BY <1>9 DEF Tree, both
      <4>2. Cardinality(both) \in Nat
        BY <1>4, <1>7
      <4>3. Graph!Power[s[hi]] \in Nat
        BY <1>0, <1>8, PowerExceeds DEF K
      <4> QED
        BY <1>8, <3>2, <4>1, <4>2, <4>3
    <3>3. CASE t # hi
      <4>1. Tree(p, t) = Tree(q, t)
        BY <1>9, <3>1, <3>3 DEF Tree
      <4>2. s[t] = r[t]
        BY <1>8, <3>1, <3>3
      <4> QED
        BY <3>1, <4>1, <4>2 DEF Sized
    <3> QED
      BY <3>2, <3>3
  <2> QED
    BY <1>8, <2>1, <2>2 DEF Sized, K
<1> QED
  BY <1>9, <1>10

-----------------------------------------------------------------------------
(* Every step unites two clusters.                                         *)

\* The trees, as Clusters lists them.
Trees(p) ==
  {{i \in Here(p) : Graph!Root(p, i) = t} :
    t \in {Graph!Root(p, i) : i \in Here(p)}}

\* `a' and `b' have come under one root, which is one of theirs.
Joined(p, q, a, b) ==
  \E hi, lo : /\ {hi, lo} = {Graph!Root(q, a), Graph!Root(q, b)}
              /\ Here(p) = Here(q)
              /\ \A i \in Here(q) : Graph!Root(p, i) = IF Graph!Root(q, i) = lo
                   THEN hi ELSE Graph!Root(q, i)

Touched(trees, a, b) == {c \in trees : a \in c \/ b \in c}

LEMMA TreeOf ==
  ASSUME NEW p, NEW c \in Trees(p), NEW i \in c
  PROVE  i \in Here(p) /\ c = {j \in Here(p) : Graph!Root(p, j) = Graph!Root(p, i)}
BY DEF Trees

LEMMA JoinedUnites ==
  ASSUME Graph!AliasGraphAssumption, NEW o, NEW r, Climbs(o, r),
         NEW a \in GraphIds, NEW b \in GraphIds,
         NEW q, SameRoots(o, q, {a, b}), NEW p, Joined(p, q, a, b)
  PROVE  Trees(p) = (Trees(o) \ Touched(Trees(o), a, b))
                      \cup {{a, b} \cup UNION Touched(Trees(o), a, b)}
<1> DEFINE old == Touched(Trees(o), a, b)
           new == {a, b} \cup UNION old
<1>1. PICK hi, lo : /\ {hi, lo} = {Graph!Root(q, a), Graph!Root(q, b)}
                    /\ Here(p) = Here(q)
                    /\ \A i \in Here(q) : Graph!Root(p, i) = IF Graph!Root(q, i)
                         = lo THEN hi ELSE Graph!Root(q, i)
  BY DEF Joined
<1>2. /\ Here(q) = Here(o) \cup {a, b} /\ a \in Here(q) /\ b \in Here(q)
      /\ \A i \in Here(q) : Graph!Root(q, i) = IF i \in Here(o)
           THEN Graph!Root(o, i) ELSE i
  BY DEF SameRoots
<1>3. Graph!Root(p, a) = hi /\ Graph!Root(p, b) = hi
  BY <1>1, <1>2
<1>4. \A i \in Here(o) : Graph!Root(o, i) \in Here(o)
      /\ Graph!Root(o, Graph!Root(o, i)) = Graph!Root(o, i)
  BY RootHere
\* Who is in the new tree.
<1>5. \A i \in Here(q) : Graph!Root(p, i) = hi
        <=> Graph!Root(q, i) \in {Graph!Root(q, a), Graph!Root(q, b)}
  BY <1>1
<1>6. \A i \in Here(q) : Graph!Root(p, i) # hi
        => Graph!Root(p, i) = Graph!Root(q, i)
  BY <1>1
<1>7. ASSUME NEW i PROVE i \in new <=> i \in Here(q) /\ Graph!Root(p, i) = hi
  <2>1. ASSUME i \in new PROVE i \in Here(q) /\ Graph!Root(p, i) = hi
    <3>1. CASE i = a \/ i = b
      BY <1>2, <1>3, <3>1
    <3>2. CASE i \in UNION old
      <4>1. PICK c \in old : i \in c
        BY <3>2
      <4>2. c \in Trees(o) /\ (a \in c \/ b \in c)
        BY DEF Touched
      <4>3. i \in Here(o) /\ (\/ a \in Here(o)
                                   /\ Graph!Root(o, i) = Graph!Root(o, a)
                              \/ b \in Here(o)
                                 /\ Graph!Root(o, i) = Graph!Root(o, b))
        BY <4>1, <4>2, TreeOf
      <4>4. i \in Here(q)
            /\ Graph!Root(q, i) \in {Graph!Root(q, a), Graph!Root(q, b)}
        BY <1>2, <4>3
      <4> QED
        BY <1>5, <4>4
    <3> QED
      BY <2>1, <3>1, <3>2
  <2>2. ASSUME i \in Here(q), Graph!Root(p, i) = hi PROVE i \in new
    <3>1. Graph!Root(q, i) = Graph!Root(q, a) \/ Graph!Root(q, i) = Graph!Root(q, b)
      BY <1>5, <2>2
    <3>2. SUFFICES ASSUME i # a, i # b PROVE i \in UNION old
      OBVIOUS
    <3>3. i \in Here(o) /\ Graph!Root(q, i) = Graph!Root(o, i)
      BY <1>2, <2>2, <3>2
    <3> DEFINE c == {j \in Here(o) : Graph!Root(o, j) = Graph!Root(o, i)}
    <3>4. c \in Trees(o) /\ i \in c
      BY <3>3 DEF Trees
    <3>5. CASE Graph!Root(q, i) = Graph!Root(q, a)
      <4>1. a \in Here(o)
        BY <1>2, <1>4, <3>3, <3>5
      <4>2. a \in c
        BY <1>2, <3>3, <3>5, <4>1
      <4> QED
        BY <3>4, <4>2 DEF Touched
    <3>6. CASE Graph!Root(q, i) = Graph!Root(q, b)
      <4>1. b \in Here(o)
        BY <1>2, <1>4, <3>3, <3>6
      <4>2. b \in c
        BY <1>2, <3>3, <3>6, <4>1
      <4> QED
        BY <3>4, <4>2 DEF Touched
    <3> QED
      BY <3>1, <3>5, <3>6
  <2> QED
    BY <2>1, <2>2
<1> HIDE DEF new
<1>8. new = {i \in Here(p) : Graph!Root(p, i) = hi}
  BY <1>1, <1>7
<1>9. new \in Trees(p)
  BY <1>1, <1>2, <1>3, <1>8 DEF Trees
<1>10. ASSUME NEW c \in Trees(o), c \notin old PROVE c \in Trees(p)
  <2>1. PICK k \in Here(o) :
          c = {i \in Here(o) : Graph!Root(o, i) = Graph!Root(o, k)}
    BY DEF Trees
  <2>2. a \notin c /\ b \notin c
    BY <1>10 DEF Touched
  <2>3. k \in Here(q) /\ Graph!Root(q, k) = Graph!Root(o, k)
    BY <1>2
  <2>4. Graph!Root(q, k) # Graph!Root(q, a) /\ Graph!Root(q, k) # Graph!Root(q, b)
    BY <1>2, <1>4, <2>1, <2>2, <2>3
  <2>5. Graph!Root(p, k) = Graph!Root(o, k) /\ Graph!Root(p, k) # hi
    BY <1>5, <1>6, <2>3, <2>4
  <2>6. ASSUME NEW i \in Here(p)
        PROVE  Graph!Root(p, i) = Graph!Root(p, k) <=> i \in c
    <3>1. i \in Here(q)
      BY <1>1
    <3>2. CASE i \in Here(o)
      <4>1. Graph!Root(q, i) = Graph!Root(o, i)
        BY <1>2, <3>1, <3>2
      <4>2. ASSUME Graph!Root(o, i) = Graph!Root(o, k)
            PROVE  Graph!Root(p, i) = Graph!Root(p, k)
        BY <1>5, <1>6, <2>3, <2>4, <2>5, <3>1, <4>1, <4>2
      <4>3. ASSUME Graph!Root(p, i) = Graph!Root(p, k)
            PROVE  Graph!Root(o, i) = Graph!Root(o, k)
        BY <1>6, <2>5, <3>1, <4>1, <4>3
      <4> QED
        BY <2>1, <3>2, <4>2, <4>3
    <3>3. CASE i \notin Here(o)
      <4>1. i = a \/ i = b
        BY <1>2, <3>1, <3>3
      <4> QED
        BY <1>3, <2>1, <2>5, <3>3, <4>1
    <3> QED
      BY <3>2, <3>3
  <2>7. c \subseteq Here(p)
    BY <1>1, <1>2, <2>1
  <2>8. c = {i \in Here(p) : Graph!Root(p, i) = Graph!Root(p, k)}
    BY <2>6, <2>7
  <2>9. k \in Here(p)
    BY <1>1, <2>3
  <2> QED
    BY <2>8, <2>9 DEF Trees
<1>11. ASSUME NEW c \in Trees(p), c # new PROVE c \in Trees(o) \ old
  <2>1. PICK k \in Here(p) :
          c = {i \in Here(p) : Graph!Root(p, i) = Graph!Root(p, k)}
    BY DEF Trees
  <2>2. Graph!Root(p, k) # hi
    BY <1>8, <1>11, <2>1
  <2>3. k \in Here(o) /\ k \in Here(q) /\ Graph!Root(p, k) = Graph!Root(q, k)
        /\ Graph!Root(q, k) = Graph!Root(o, k)
    BY <1>1, <1>2, <1>3, <1>6, <2>2
  <2>4. a \notin c /\ b \notin c
    BY <1>3, <2>1, <2>2
  <2>5. ASSUME NEW i \in Here(o)
        PROVE  Graph!Root(p, i) = Graph!Root(p, k)
                 <=> Graph!Root(o, i) = Graph!Root(o, k)
    <3>1. i \in Here(q) /\ Graph!Root(q, i) = Graph!Root(o, i)
      BY <1>2
    <3>2. ASSUME Graph!Root(o, i) = Graph!Root(o, k)
          PROVE  Graph!Root(p, i) = Graph!Root(p, k)
      BY <1>5, <1>6, <2>2, <2>3, <3>1, <3>2
    <3>3. ASSUME Graph!Root(p, i) = Graph!Root(p, k)
          PROVE  Graph!Root(o, i) = Graph!Root(o, k)
      BY <1>6, <2>2, <2>3, <3>1, <3>3
    <3> QED
      BY <3>2, <3>3
  <2>6. \A i \in Here(p) : i \in Here(o) \/ i = a \/ i = b
    BY <1>1, <1>2
  <2>7. c = {i \in Here(o) : Graph!Root(o, i) = Graph!Root(o, k)}
    BY <1>1, <1>2, <2>1, <2>4, <2>5, <2>6
  <2> QED
    BY <2>3, <2>4, <2>7 DEF Trees, Touched
<1>12. new \notin Trees(o) \ old
  <2>1. a \in new
    BY DEF new
  <2> QED
    BY <2>1 DEF Touched
<1>13. Trees(p) = (Trees(o) \ old) \cup {new}
  BY <1>9, <1>10, <1>11
<1> QED
  BY <1>13 DEF new

-----------------------------------------------------------------------------
GraphInv == Climbs(graph_parent, graph_rank) /\ Sized(graph_parent, graph_rank)

LEMMA GraphInit == Graph!AliasGraphAssumption /\ Graph!Init => GraphInv
  /\ Graph!Partition!Init
<1> SUFFICES ASSUME Graph!AliasGraphAssumption, Graph!Init
    PROVE  GraphInv /\ Graph!Partition!Init
  OBVIOUS
<1>1. Cardinality(GraphIds) \in Nat
  BY GraphSizes, FS_CardinalityType DEF Graph!AliasGraphAssumption
<1>2. Here(graph_parent) = {} /\ Graph!Present = {}
  BY DEF Graph!Init, Here, Graph!Present
<1> QED
  BY <1>1, <1>2 DEF Graph!Init, GraphInv, Climbs, Graph!Forests, Sized,
     Graph!Partition!Init, Graph!Clusters

LEMMA ClustersAreTrees == Graph!Clusters = Trees(graph_parent)
  /\ Graph!Present = Here(graph_parent)
BY DEF Graph!Clusters, Trees, Graph!Present, Here

LEMMA FindSteps ==
  ASSUME Graph!AliasGraphAssumption, GraphInv, NEW a \in GraphIds, Graph!Find(a)
  PROVE  GraphInv' /\ Joined(graph_parent',
           Graph!Found(Graph!Found(graph_parent, a), a), a, a)
<1>1. graph_parent' = Graph!Found(graph_parent, a) /\ graph_rank' = graph_rank
  BY DEF Graph!Find
<1>2. Climbs(graph_parent, graph_rank) /\ Sized(graph_parent, graph_rank)
  BY DEF GraphInv
<1>3. Climbs(graph_parent', graph_rank)
      /\ SameRoots(graph_parent, graph_parent', {a})
  BY <1>1, <1>2, FoundRoots
<1>4. Sized(graph_parent', graph_rank)
  BY <1>2, <1>3, FoundSized
<1>5. SameRoots(graph_parent', Graph!Found(graph_parent', a), {a})
  BY <1>3, FoundRoots
<1>6. a \in Here(graph_parent')
  BY <1>3 DEF SameRoots
<1> DEFINE q == Graph!Found(Graph!Found(graph_parent, a), a)
<1>7. SameRoots(graph_parent', q, {a})
  BY <1>1, <1>5
<1> HIDE DEF q
<1>8. /\ Here(graph_parent') = Here(q)
         /\ \A i \in Here(q) : Graph!Root(q, i) = Graph!Root(graph_parent', i)
  BY <1>6, <1>7 DEF SameRoots
<1>9. Joined(graph_parent', q, a, a)
  <2>1. {Graph!Root(q, a), Graph!Root(q, a)} = {Graph!Root(q, a), Graph!Root(q, a)}
        /\ Here(graph_parent') = Here(q)
        /\ \A i \in Here(q) : Graph!Root(graph_parent', i) = IF Graph!Root(q, i)
             = Graph!Root(q, a) THEN Graph!Root(q, a) ELSE Graph!Root(q, i)
    BY <1>8
  <2> QED
    BY <2>1 DEF Joined
<1>10. Climbs(graph_parent', graph_rank') /\ Sized(graph_parent', graph_rank')
  BY <1>1, <1>3, <1>4
<1> QED
  BY <1>9, <1>10 DEF GraphInv, q

LEMMA UnionSteps ==
  ASSUME Graph!AliasGraphAssumption, GraphInv, NEW a \in GraphIds,
         NEW b \in GraphIds, Graph!Union(a, b)
  PROVE  GraphInv' /\ Joined(graph_parent',
           Graph!Found(Graph!Found(graph_parent, a), b), a, b)
<1> DEFINE q == Graph!Found(Graph!Found(graph_parent, a), b)
           x == Graph!Root(q, a)
           y == Graph!Root(q, b)
<1>1. Climbs(graph_parent, graph_rank) /\ Sized(graph_parent, graph_rank)
  BY DEF GraphInv
<1>2. Climbs(q, graph_rank) /\ SameRoots(graph_parent, q, {a, b})
  BY <1>1, FoundTwice
<1> HIDE DEF q
<1>3. Sized(q, graph_rank)
  <2>1. {a, b} \in SUBSET GraphIds
    OBVIOUS
  <2> QED
    BY <1>1, <1>2, <2>1, FoundSized
<1>4. a \in Here(q) /\ b \in Here(q)
  BY <1>2 DEF SameRoots
<1>5. /\ x \in Here(q) /\ q[x] = x /\ y \in Here(q) /\ q[y] = y
      /\ graph_rank[x] \in Nat /\ graph_rank[y] \in Nat
  BY <1>2, <1>4, RootHere DEF Climbs
<1>6. \/ x = y /\ graph_parent' = q /\ graph_rank' = graph_rank
      \/ /\ x # y /\ graph_rank[x] >= graph_rank[y]
            /\ graph_parent' = [q EXCEPT ![y] = x]
         /\ graph_rank' = IF graph_rank[x] = graph_rank[y]
              THEN [graph_rank EXCEPT ![x] = @ + 1] ELSE graph_rank
      \/ /\ x # y /\ graph_rank[x] < graph_rank[y]
            /\ graph_parent' = [q EXCEPT ![x] = y] /\ graph_rank' = graph_rank
  BY DEF Graph!Union, Graph!Link, q
<1> HIDE DEF x, y
<1>7. CASE x = y /\ graph_parent' = q /\ graph_rank' = graph_rank
  <2>1. Joined(graph_parent', q, a, b)
    <3>1. /\ {x, y} = {Graph!Root(q, a), Graph!Root(q, b)}
             /\ Here(graph_parent') = Here(q)
          /\ \A i \in Here(q) : Graph!Root(graph_parent', i) = IF Graph!Root(q, i)
               = y THEN x ELSE Graph!Root(q, i)
      BY <1>7 DEF x, y
    <3> QED
      BY <3>1 DEF Joined
  <2> QED
    BY <1>2, <1>3, <1>7, <2>1 DEF GraphInv, q
<1>8. ASSUME NEW lo, NEW hi, {hi, lo} = {Graph!Root(q, a), Graph!Root(q, b)},
             Hung(q, graph_parent', lo, hi),
             Raised(graph_rank, graph_rank', lo, hi)
      PROVE  GraphInv' /\ Joined(graph_parent', q, a, b)
  <2>1. /\ Climbs(graph_parent', graph_rank') /\ Sized(graph_parent', graph_rank')
           /\ Here(graph_parent') = Here(q)
        /\ \A i \in Here(q) : Graph!Root(graph_parent', i) = IF Graph!Root(q, i)
             = lo THEN hi ELSE Graph!Root(q, i)
    BY <1>2, <1>3, <1>8, HungSized
  <2>2. Joined(graph_parent', q, a, b)
    BY <1>8, <2>1 DEF Joined
  <2> QED
    BY <2>1, <2>2 DEF GraphInv
<1>9. CASE /\ x # y /\ graph_rank[x] >= graph_rank[y]
      /\ graph_parent' = [q EXCEPT ![y] = x]
           /\ graph_rank' = IF graph_rank[x] = graph_rank[y]
                THEN [graph_rank EXCEPT ![x] = @ + 1] ELSE graph_rank
  <2>1. Hung(q, graph_parent', y, x)
    BY <1>5, <1>9 DEF Hung
  <2>2. {x, y} = {Graph!Root(q, a), Graph!Root(q, b)}
    BY DEF x, y
  <2>3. Raised(graph_rank, graph_rank', y, x)
    BY <1>5, <1>9 DEF Raised
  <2> QED
    BY <1>8, <2>1, <2>2, <2>3 DEF q
<1>10. CASE x # y /\ graph_rank[x] < graph_rank[y]
       /\ graph_parent' = [q EXCEPT ![x] = y] /\ graph_rank' = graph_rank
  <2>1. Hung(q, graph_parent', x, y)
    BY <1>5, <1>10 DEF Hung
  <2>2. {y, x} = {Graph!Root(q, a), Graph!Root(q, b)}
    BY DEF x, y
  <2>3. Raised(graph_rank, graph_rank', x, y)
    BY <1>10 DEF Raised
  <2> QED
    BY <1>8, <2>1, <2>2, <2>3 DEF q
<1> QED
  BY <1>6, <1>7, <1>9, <1>10

LEMMA GraphStep ==
  ASSUME Graph!AliasGraphAssumption, GraphInv, [Graph!Next]_(Graph!vars)
  PROVE  GraphInv' /\ [Graph!Partition!Next]_(Graph!Clusters)
<1>1. ASSUME NEW a \in GraphIds, NEW b \in GraphIds, GraphInv',
             Joined(graph_parent', Graph!Found(Graph!Found(graph_parent, a), b),
               a, b)
      PROVE  Graph!Partition!Next
  <2>1. Climbs(graph_parent, graph_rank)
    BY DEF GraphInv
  <2>2. SameRoots(graph_parent, Graph!Found(Graph!Found(graph_parent, a), b),
          {a, b})
    BY <2>1, FoundTwice
  <2>3. Trees(graph_parent')
          = (Trees(graph_parent) \ Touched(Trees(graph_parent), a, b))
                           \cup {{a, b}
                             \cup UNION Touched(Trees(graph_parent), a, b)}
    BY <1>1, <2>1, <2>2, JoinedUnites
  <2>4. Graph!Clusters' = Trees(graph_parent')
    BY ClustersAreTrees DEF Graph!Clusters, Trees, Graph!Present, Here
  <2>5. Graph!Partition!Unite(a, b)
    BY <2>3, <2>4, ClustersAreTrees DEF Graph!Partition!Unite, Touched
  <2> QED
    BY <2>5 DEF Graph!Partition!Next
<1>2. CASE \E a, b \in GraphIds : Graph!Union(a, b)
  BY <1>1, <1>2, UnionSteps
<1>3. CASE \E a \in GraphIds : Graph!Find(a)
  BY <1>1, <1>3, FindSteps
<1>4. CASE UNCHANGED Graph!vars
  BY <1>4 DEF Graph!vars, GraphInv, Graph!Clusters, Graph!Present
<1> QED
  BY <1>2, <1>3, <1>4 DEF Graph!Next

LEMMA InvRises == Graph!AliasGraphAssumption /\ GraphInv => Graph!RankRises
<1> SUFFICES ASSUME Graph!AliasGraphAssumption, GraphInv PROVE Graph!RankRises
  OBVIOUS
<1>1. Climbs(graph_parent, graph_rank) /\ Sized(graph_parent, graph_rank)
      /\ Graph!Present = Here(graph_parent)
  BY ClustersAreTrees DEF GraphInv
<1>2. \A i \in Graph!Present : graph_parent[i] \in Graph!Present
      /\ (graph_parent[i] # i => graph_rank[i] < graph_rank[graph_parent[i]])
  BY <1>1 DEF Climbs
<1>3. ASSUME NEW c \in Graph!Clusters
      PROVE  \E t \in c : graph_parent[t] = t
             /\ Cardinality(c) >= Graph!Power[graph_rank[t]]
  <2>1. PICK i \in Graph!Present :
          c = {j \in Graph!Present :
            Graph!Root(graph_parent, j) = Graph!Root(graph_parent, i)}
    BY DEF Graph!Clusters
  <2> DEFINE t == Graph!Root(graph_parent, i)
  <2>2. t \in Graph!Present /\ graph_parent[t] = t
        /\ Graph!Root(graph_parent, t) = t
    BY <1>1, RootHere
  <2>3. c = Tree(graph_parent, t) /\ t \in c
    BY <1>1, <2>1, <2>2 DEF Tree
  <2> HIDE DEF t
  <2>4. Cardinality(c) >= Graph!Power[graph_rank[t]]
    BY <1>1, <2>2, <2>3 DEF Sized
  <2> QED
    BY <2>2, <2>3, <2>4
<1> QED
  BY GraphSizes, <1>2, <1>3 DEF Graph!RankRises

\* The invariant holds of every behaviour of the graph, and its types with it.
LEMMA GraphInductive == Graph!AliasGraphAssumption
  => (Graph!Spec => []GraphInv)
<1> SUFFICES ASSUME Graph!AliasGraphAssumption
    PROVE  Graph!Spec => []GraphInv
  OBVIOUS
<1>1. Graph!Init => GraphInv
  BY GraphInit
<1>2. GraphInv /\ [Graph!Next]_(Graph!vars) => GraphInv'
  BY GraphStep
<1> QED
  BY <1>1, <1>2, PTL DEF Graph!Spec

LEMMA GraphTypes == GraphInv => Graph!TypeOK
BY GraphSizes DEF GraphInv, Climbs, Sized, Graph!TypeOK

\* A parent has a higher rank, within the bound the number of identifiers sets,
\* and the trees are the clusters of a partition that only unites (alias_graph.py).
THEOREM GraphSafe ==
  Graph!AliasGraphAssumption
    => (Graph!Spec => []Graph!RankRises /\ Graph!Partition!Spec)
<1> SUFFICES ASSUME Graph!AliasGraphAssumption
    PROVE  Graph!Spec => []Graph!RankRises /\ Graph!Partition!Spec
  OBVIOUS
<1>1. Graph!Init => Graph!Partition!Init
  BY GraphInit
<1>2. GraphInv /\ [Graph!Next]_(Graph!vars)
        => [Graph!Partition!Next]_(Graph!Clusters)
  BY GraphStep
<1>3. GraphInv => Graph!RankRises
  BY InvRises
<1> QED
  BY <1>1, <1>2, <1>3, GraphInductive, PTL DEF Graph!Spec, Graph!Partition!Spec

-----------------------------------------------------------------------------
(* The advisory store: fusion of clusters and the index.                   *)

\* What a record mentions are identifiers.
Typed(records) == \A r \in records : Store!Mentioned(r) \subseteq Store!Ids

\* With one identifier of a record a closed set holds all of them.
Closed(s, records) ==
  \A r \in records : Store!Mentioned(r) \cap s # {}
    => Store!Mentioned(r) \subseteq s

LEMMA ClusterHolds ==
  \A i \in Store!Ids : \A records : i \in Store!ClusterOf(i, records)
  /\ Store!ClusterOf(i, records) \subseteq Store!Ids
BY DEF Store!ClusterOf

LEMMA ClusterIsLeast ==
  \A i \in Store!Ids : \A records : \A s \in SUBSET Store!Ids :
    Closed(s, records) /\ i \in s => Store!ClusterOf(i, records) \subseteq s
BY DEF Store!ClusterOf, Closed

LEMMA ClusterIsClosed ==
  \A i \in Store!Ids : \A records : Typed(records)
    => Closed(Store!ClusterOf(i, records), records)
<1> SUFFICES ASSUME NEW i \in Store!Ids, NEW records, Typed(records),
                    NEW r \in records,
                      Store!Mentioned(r) \cap Store!ClusterOf(i, records) # {}
             PROVE  Store!Mentioned(r) \subseteq Store!ClusterOf(i, records)
  BY DEF Closed
<1>1. PICK j \in Store!Mentioned(r) : j \in Store!ClusterOf(i, records)
  OBVIOUS
<1>2. SUFFICES ASSUME NEW k \in Store!Mentioned(r), NEW s \in SUBSET Store!Ids,
                      Closed(s, records), i \in s
               PROVE  k \in s
  BY DEF Store!ClusterOf, Closed, Typed
<1>3. j \in s
  BY <1>1, <1>2 DEF Store!ClusterOf, Closed
<1> QED
  BY <1>1, <1>2, <1>3 DEF Closed

\* Clusters are equal or have nothing in common.
LEMMA ClusterOfMember ==
  \A i \in Store!Ids : \A records : Typed(records) =>
    \A j \in Store!ClusterOf(i, records) :
      Store!ClusterOf(j, records) = Store!ClusterOf(i, records)
<1> SUFFICES ASSUME NEW i \in Store!Ids, NEW records, Typed(records),
                    NEW j \in Store!ClusterOf(i, records)
             PROVE  Store!ClusterOf(j, records) = Store!ClusterOf(i, records)
  OBVIOUS
<1> DEFINE ci == Store!ClusterOf(i, records)
           cj == Store!ClusterOf(j, records)
<1>1. j \in Store!Ids /\ ci \subseteq Store!Ids /\ cj \subseteq Store!Ids
      /\ j \in cj
  BY ClusterHolds
<1>2. Closed(ci, records) /\ Closed(cj, records)
  BY <1>1, ClusterIsClosed
<1>3. cj \subseteq ci
  BY <1>1, <1>2, ClusterIsLeast
<1>4. i \in cj
  <2>1. SUFFICES ASSUME i \notin cj PROVE FALSE
    OBVIOUS
  <2>2. Closed(Store!Ids \ cj, records)
    BY <1>2 DEF Closed, Typed
  <2>3. ci \subseteq Store!Ids \ cj
    BY <2>1, <2>2, ClusterIsLeast
  <2> QED
    BY <1>1, <2>3
<1>5. ci \subseteq cj
  BY <1>1, <1>2, <1>4, ClusterIsLeast
<1> QED
  BY <1>3, <1>5

LEMMA MinIsLeast ==
  ASSUME Store!AdvisoryStoreAssumption
  PROVE  \A s \in SUBSET Store!Ids : s # {} => Store!Min(s) \in s
<1> SUFFICES ASSUME NEW s \in SUBSET Store!Ids, s # {} PROVE Store!Min(s) \in s
  OBVIOUS
<1>1. s \subseteq Nat
  BY DEF Store!Ids, Store!AdvisoryStoreAssumption
<1>2. PICK i \in s : \A j \in s : ~ (<<j, i>> \in {p \in Nat \X Nat : p[1] < p[2]})
  BY <1>1, WFMin, LessIsWellFounded
<1>3. ASSUME NEW j \in s PROVE i <= j
  <2>1. i \in Nat /\ j \in Nat /\ ~ (<<j, i>> \in {p \in Nat \X Nat : p[1] < p[2]})
    BY <1>1, <1>2
  <2>2. ~ (j < i)
    BY <2>1
  <2> QED
    BY <2>1, <2>2
<1> QED
  BY <1>3 DEF Store!Min

-----------------------------------------------------------------------------

\* Every file holds the record of its name.
FilesTyped ==
  /\ store_files \in [Store!Ids -> {store_files[i] : i \in Store!Ids}]
  /\ \A i \in Store!Ids : store_files[i] # Store!NoFile => store_files[i].id = i
     /\ Store!Mentioned(store_files[i]) \subseteq Store!Ids

StoreInv == FilesTyped /\ Store!IndexExact

\* What a run made of the records it collected.
Collected == Store!Stored(store_files) \cup Store!ToSet(store_batch')

LEMMA CollectedTyped ==
  ASSUME Store!AdvisoryStoreAssumption, FilesTyped, NEW d \in Store!Batches,
         NEW kev, Store!Run(d, kev)
  PROVE  /\ Typed(Collected) /\ \A r \in Collected : r.id \in Store!Ids
         /\ Store!ToSet(store_batch') = Store!ToSet(d) /\ store_kevList' = kev
<1>1. store_batch' = d /\ store_kevList' = kev
  BY DEF Store!Run
<1>2. \A r \in Store!ToSet(d) : r \in Store!Deliveries
  BY DEF Store!ToSet, Store!Batches
<1>3. \A r \in Store!Deliveries : r.id \in Store!Ids
      /\ Store!Mentioned(r) \subseteq Store!Ids
  BY DEF Store!Deliveries, Store!Delivery, Store!Mentioned
<1>4. \A r \in Store!Stored(store_files) : r.id \in Store!Ids
      /\ Store!Mentioned(r) \subseteq Store!Ids
  BY DEF Store!Stored, FilesTyped
<1> QED
  BY <1>1, <1>2, <1>3, <1>4 DEF Typed, Collected

\* The records the run fused, by cluster.
Group(c) ==
  {r \in Store!LastPerId(Store!Stored(store_files), store_batch') : r.id \in c}
Made(c) == Store!FuseCluster(c, Group(c), store_kevList')

LEMMA MadeIs ==
  \A c : /\ Made(c).id = Store!Min(c) /\ Made(c).aliases = c \ {Store!Min(c)}
         /\ Made(c).facts = UNION {r.facts : r \in Group(c)}
         /\ Made(c).kev = (c \cap store_kevList' # {})
BY DEF Made, Store!FuseCluster

LEMMA ClusterMin ==
  ASSUME Store!AdvisoryStoreAssumption, NEW records, Typed(records),
         \A r \in records : r.id \in Store!Ids
  PROVE  \A c \in Store!Clusters(records) :
           /\ c \subseteq Store!Ids /\ Store!Min(c) \in c
           /\ Closed(c, records)
           /\ \A j \in c : Store!ClusterOf(j, records) = c
<1> SUFFICES ASSUME NEW c \in Store!Clusters(records)
             PROVE  /\ c \subseteq Store!Ids /\ Store!Min(c) \in c
                    /\ Closed(c, records)
                    /\ \A j \in c : Store!ClusterOf(j, records) = c
  OBVIOUS
<1>1. PICK i \in Store!Ids : c = Store!ClusterOf(i, records)
  BY DEF Store!Clusters
<1> QED
  BY <1>1, ClusterHolds, ClusterIsClosed, ClusterOfMember, MinIsLeast

\* The canonical file of every cluster is written, the others are left.
LEMMA FilesAfter ==
  ASSUME Store!AdvisoryStoreAssumption, FilesTyped, NEW d \in Store!Batches,
         NEW kev, Store!Run(d, kev)
  PROVE  /\ \A c \in Store!Clusters(Collected) :
              store_files'[Store!Min(c)] = Made(c)
         /\ \A i \in Store!Ids : (\A c \in Store!Clusters(Collected) :
              Store!Min(c) # i) => store_files'[i] = store_files[i]
         /\ store_index' = {Store!Min(c) : c \in Store!Clusters(Collected)}
         /\ DOMAIN store_files' = Store!Ids
<1> DEFINE all == Store!Stored(store_files) \cup Store!ToSet(d)
           fused == {Store!FuseCluster(c,
             {r \in Store!LastPerId(Store!Stored(store_files), d) : r.id \in c},
               kev) :
                       c \in Store!Clusters(all)}
<1>1. /\ store_files' = [i \in Store!Ids |-> IF \E r \in fused : r.id = i
                                 THEN CHOOSE r \in fused : r.id = i
                                   ELSE store_files[i]]
      /\ store_index' = {r.id : r \in fused}
      /\ store_batch' = d /\ store_kevList' = kev
  BY DEF Store!Run, Store!FuseAll
<1>2. all = Collected
  BY <1>1 DEF Collected
<1>3. fused = {Made(c) : c \in Store!Clusters(Collected)}
  BY <1>1, <1>2 DEF Made, Group
<1> HIDE DEF fused, all
<1>4. Typed(Collected) /\ \A r \in Collected : r.id \in Store!Ids
  BY CollectedTyped
<1>5. \A c \in Store!Clusters(Collected) :
        c \subseteq Store!Ids /\ Store!Min(c) \in c
        /\ \A j \in c : Store!ClusterOf(j, Collected) = c
  BY <1>4, ClusterMin
<1>6. \A c, b \in Store!Clusters(Collected) : Store!Min(c) = Store!Min(b) => c = b
  BY <1>5
<1>7. ASSUME NEW c \in Store!Clusters(Collected)
      PROVE  store_files'[Store!Min(c)] = Made(c)
  <2>1. Made(c) \in fused /\ Made(c).id = Store!Min(c)
    BY <1>3, MadeIs
  <2>2. \A r \in fused : r.id = Store!Min(c) => r = Made(c)
    BY <1>3, <1>6, MadeIs
  <2>3. (CHOOSE r \in fused : r.id = Store!Min(c)) = Made(c)
    BY <2>1, <2>2
  <2> QED
    BY <1>1, <1>5, <2>1, <2>3
<1>8. ASSUME NEW i \in Store!Ids,
             \A c \in Store!Clusters(Collected) : Store!Min(c) # i
      PROVE  store_files'[i] = store_files[i]
  BY <1>1, <1>3, <1>8, MadeIs
<1>9. store_index' = {Store!Min(c) : c \in Store!Clusters(Collected)}
  BY <1>1, <1>3, MadeIs
<1> QED
  BY <1>1, <1>7, <1>8, <1>9

LEMMA MadeMentions ==
  ASSUME Store!AdvisoryStoreAssumption, FilesTyped, NEW d \in Store!Batches,
         NEW kev, Store!Run(d, kev)
  PROVE  \A c \in Store!Clusters(Collected) : Store!Mentioned(Made(c)) = c
         /\ Made(c) # Store!NoFile
<1> SUFFICES ASSUME NEW c \in Store!Clusters(Collected)
             PROVE  Store!Mentioned(Made(c)) = c /\ Made(c) # Store!NoFile
  OBVIOUS
<1>1. Store!Min(c) \in c /\ c \subseteq Store!Ids
  BY CollectedTyped, ClusterMin
<1>2. 0 \notin Store!Ids
  BY DEF Store!Ids, Store!AdvisoryStoreAssumption
<1> QED
  BY <1>1, <1>2, MadeIs DEF Store!Mentioned, Store!NoFile

\* A file is the canonical one of a cluster, or was there before.
LEMMA StoredAfter ==
  ASSUME Store!AdvisoryStoreAssumption, FilesTyped, NEW d \in Store!Batches,
         NEW kev, Store!Run(d, kev)
  PROVE  \A i \in Store!Ids : store_files'[i] # Store!NoFile =>
           /\ store_files'[i].id = i
           /\ \/ \E c \in Store!Clusters(Collected) : i = Store!Min(c)
                 /\ store_files'[i] = Made(c)
              \/ store_files'[i] = store_files[i] /\ store_files[i] \in Collected
<1> SUFFICES ASSUME NEW i \in Store!Ids, store_files'[i] # Store!NoFile
             PROVE  /\ store_files'[i].id = i
                    /\ \/ \E c \in Store!Clusters(Collected) : i = Store!Min(c)
                          /\ store_files'[i] = Made(c)
                       \/ store_files'[i] = store_files[i]
                          /\ store_files[i] \in Collected
  OBVIOUS
<1>1. CASE \E c \in Store!Clusters(Collected) : Store!Min(c) = i
  BY <1>1, FilesAfter, MadeIs
<1>2. CASE \A c \in Store!Clusters(Collected) : Store!Min(c) # i
  <2>1. store_files'[i] = store_files[i]
    BY <1>2, FilesAfter
  <2> QED
    BY <2>1 DEF FilesTyped, Store!Stored, Collected
<1> QED
  BY <1>1, <1>2

\* The clusters of what a run leaves are those of what it collected.
LEMMA ClustersKept ==
  ASSUME Store!AdvisoryStoreAssumption, FilesTyped, NEW d \in Store!Batches,
         NEW kev, Store!Run(d, kev),
         NEW i \in Store!Ids, store_files'[i] # Store!NoFile
         \/ \E r \in Collected : r.id = i
  PROVE  /\ Store!ClusterOf(i, Collected) \in Store!Clusters(Collected)
         /\ Store!ClusterOf(i, Store!Stored(store_files'))
              = Store!ClusterOf(i, Collected)
<1> DEFINE c == Store!ClusterOf(i, Collected)
           m == Store!Min(c)
<1>1. Typed(Collected) /\ \A r \in Collected : r.id \in Store!Ids
  BY CollectedTyped
<1>2. c \in Store!Clusters(Collected)
  <2>1. CASE \E r \in Collected : r.id = i
    BY <2>1 DEF Store!Clusters
  <2>2. CASE store_files'[i] # Store!NoFile
    <3>1. CASE \E b \in Store!Clusters(Collected) : i = Store!Min(b)
      BY <1>1, <3>1, ClusterMin
    <3>2. CASE store_files'[i] = store_files[i] /\ store_files[i] \in Collected
      BY <2>2, <3>2, StoredAfter DEF Store!Clusters
    <3> QED
      BY <2>2, <3>1, <3>2, StoredAfter
  <2> QED
    BY <2>1, <2>2
<1> HIDE DEF c
<1>3. i \in c
  BY ClusterHolds DEF c
<1>4. /\ c \subseteq Store!Ids /\ m \in c /\ Closed(c, Collected)
      /\ \A j \in c : Store!ClusterOf(j, Collected) = c
  BY <1>1, <1>2, ClusterMin
<1>5. /\ store_files'[m] = Made(c) /\ Store!Mentioned(store_files'[m]) = c
         /\ store_files'[m] # Store!NoFile
  BY <1>2, FilesAfter, MadeMentions
<1>6. store_files'[m] \in Store!Stored(store_files')
  BY <1>4, <1>5 DEF Store!Stored
<1>7. ASSUME NEW r \in Store!Stored(store_files')
      PROVE  Store!Mentioned(r) \subseteq Store!Ids
  <2>1. PICK k \in Store!Ids : r = store_files'[k] /\ store_files'[k] # Store!NoFile
    BY <1>7 DEF Store!Stored
  <2>2. CASE \E b \in Store!Clusters(Collected) : store_files'[k] = Made(b)
    BY <1>1, <2>1, <2>2, ClusterMin, MadeMentions
  <2>3. CASE store_files'[k] = store_files[k] /\ store_files[k] \in Collected
    BY <1>1, <2>1, <2>3 DEF Typed
  <2> QED
    BY <2>1, <2>2, <2>3, StoredAfter
<1>8. Typed(Store!Stored(store_files'))
  BY <1>7 DEF Typed
<1>9. c \subseteq Store!ClusterOf(i, Store!Stored(store_files'))
  <2>1. Closed(Store!ClusterOf(i, Store!Stored(store_files')),
          Store!Stored(store_files'))
            /\ i \in Store!ClusterOf(i, Store!Stored(store_files'))
    BY <1>8, ClusterIsClosed, ClusterHolds
  <2> QED
    BY <1>3, <1>5, <1>6, <2>1 DEF Closed
<1>10. Closed(c, Store!Stored(store_files'))
  <2> SUFFICES ASSUME NEW r \in Store!Stored(store_files'),
                      Store!Mentioned(r) \cap c # {}
               PROVE  Store!Mentioned(r) \subseteq c
    BY DEF Closed
  <2>1. PICK k \in Store!Ids : r = store_files'[k] /\ store_files'[k] # Store!NoFile
    BY DEF Store!Stored
  <2>2. CASE \E b \in Store!Clusters(Collected) : store_files'[k] = Made(b)
    <3>1. PICK b \in Store!Clusters(Collected) : store_files'[k] = Made(b)
      BY <2>2
    <3>2. Store!Mentioned(r) = b
      BY <2>1, <3>1, MadeMentions
    <3>3. \A j \in b : Store!ClusterOf(j, Collected) = b
      BY <1>1, ClusterMin
    <3> QED
      BY <1>4, <3>2, <3>3
  <2>3. CASE store_files'[k] = store_files[k] /\ store_files[k] \in Collected
    BY <1>4, <2>1, <2>3 DEF Closed
  <2> QED
    BY <2>1, <2>2, <2>3, StoredAfter
<1>11. Store!ClusterOf(i, Store!Stored(store_files')) \subseteq c
  BY <1>3, <1>4, <1>10, ClusterIsLeast
<1> QED
  BY <1>2, <1>9, <1>11 DEF c

LEMMA RunKeepsFiles ==
  ASSUME Store!AdvisoryStoreAssumption, FilesTyped, NEW d \in Store!Batches,
         NEW kev, Store!Run(d, kev)
  PROVE  FilesTyped'
<1>1. store_files' \in [Store!Ids -> {store_files'[i] : i \in Store!Ids}]
  BY DEF Store!Run
<1>2. ASSUME NEW i \in Store!Ids, store_files'[i] # Store!NoFile
      PROVE  store_files'[i].id = i
             /\ Store!Mentioned(store_files'[i]) \subseteq Store!Ids
  <2>1. store_files'[i].id = i
    BY <1>2, StoredAfter
  <2>2. CASE \E c \in Store!Clusters(Collected) : store_files'[i] = Made(c)
    <3>1. PICK c \in Store!Clusters(Collected) : store_files'[i] = Made(c)
      BY <2>2
    <3>2. Store!Mentioned(Made(c)) = c
      BY MadeMentions
    <3>3. c \subseteq Store!Ids
      BY CollectedTyped, ClusterMin
    <3> QED
      BY <2>1, <3>1, <3>2, <3>3
  <2>3. CASE store_files'[i] = store_files[i] /\ store_files[i] \in Collected
    <3>1. Typed(Collected)
      BY CollectedTyped
    <3> QED
      BY <2>1, <2>3, <3>1 DEF Typed
  <2> QED
    BY <1>2, <2>1, <2>2, <2>3, StoredAfter
<1> QED
  BY <1>1, <1>2 DEF FilesTyped, Store!Mentioned

LEMMA RunIndexes ==
  ASSUME Store!AdvisoryStoreAssumption, FilesTyped, NEW d \in Store!Batches,
         NEW kev, Store!Run(d, kev)
  PROVE  Store!IndexExact'
<1>1. Typed(Collected) /\ \A r \in Collected : r.id \in Store!Ids
  BY CollectedTyped
<1>2. ASSUME NEW i \in store_index'
      PROVE  \E r \in Store!Stored(store_files') : r.id = i
  <2>1. PICK c \in Store!Clusters(Collected) : i = Store!Min(c)
    BY FilesAfter
  <2>2. store_files'[i] = Made(c) /\ i \in Store!Ids
        /\ store_files'[i] # Store!NoFile /\ store_files'[i].id = i
    BY <1>1, <2>1, FilesAfter, MadeMentions, MadeIs, ClusterMin
  <2> QED
    BY <2>2 DEF Store!Stored
<1>3. ASSUME NEW r \in Store!Stored(store_files')
      PROVE  LET c == Store!ClusterOf(r.id, Store!Stored(store_files'))
             IN  /\ c \cap store_index' = {Store!Min(c)}
                 /\ Store!Mentioned(store_files'[Store!Min(c)]) = c
                 /\ store_files'[Store!Min(c)].kev = (c \cap store_kevList' # {})
  <2>1. PICK i \in Store!Ids : r = store_files'[i] /\ store_files'[i] # Store!NoFile
    BY <1>3 DEF Store!Stored
  <2>2. r.id = i
    BY <2>1, StoredAfter
  <2> DEFINE c == Store!ClusterOf(i, Collected)
  <2>3. c \in Store!Clusters(Collected)
        /\ Store!ClusterOf(i, Store!Stored(store_files')) = c
    BY <2>1, ClustersKept
  <2> HIDE DEF c
  <2>4. c \subseteq Store!Ids /\ Store!Min(c) \in c
    BY <1>1, <2>3, ClusterMin
  <2>5. store_files'[Store!Min(c)] = Made(c) /\ Store!Mentioned(Made(c)) = c
    BY <2>3, FilesAfter, MadeMentions
  <2>6. \A b \in Store!Clusters(Collected) : Store!Min(b) \in c => b = c
    BY <1>1, <2>3, ClusterMin
  <2>7. c \cap store_index' = {Store!Min(c)}
    BY <2>3, <2>4, <2>6, FilesAfter
  <2>8. Made(c).kev = (c \cap store_kevList' # {})
    BY MadeIs
  <2> QED
    BY <2>2, <2>3, <2>5, <2>7, <2>8
<1> QED
  BY <1>2, <1>3 DEF Store!IndexExact

LEMMA StoreStep ==
  ASSUME Store!AdvisoryStoreAssumption, StoreInv, [Store!Next]_(Store!vars)
  PROVE  StoreInv'
<1>1. CASE Store!Next
  <2>1. PICK d \in Store!Batches,
          kev \in {{}} \cup {{i} : i \in Store!Ids} : Store!Run(d, kev)
    BY <1>1 DEF Store!Next
  <2> QED
    BY <2>1, RunKeepsFiles, RunIndexes DEF StoreInv
<1>2. CASE UNCHANGED Store!vars
  <2>1. store_files' = store_files /\ store_index' = store_index
        /\ store_kevList' = store_kevList
    BY <1>2 DEF Store!vars
  <2>2. FilesTyped'
    BY <2>1 DEF StoreInv, FilesTyped
  <2>3. Store!Stored(store_files') = Store!Stored(store_files)
    BY <2>1
  <2>4. Store!IndexExact'
    BY <2>1, <2>3 DEF StoreInv, Store!IndexExact
  <2> QED
    BY <2>2, <2>4 DEF StoreInv
<1> QED
  BY <1>1, <1>2

LEMMA StoreInit == Store!AdvisoryStoreAssumption /\ Store!Init => StoreInv
<1> SUFFICES ASSUME Store!Init PROVE StoreInv
  OBVIOUS
<1>1. FilesTyped
  BY DEF Store!Init, FilesTyped
<1>2. Store!Stored(store_files) = {} /\ store_index = {}
  BY DEF Store!Init, Store!Stored
<1> QED
  BY <1>1, <1>2 DEF StoreInv, Store!IndexExact

LEMMA StoreInductive == Store!AdvisoryStoreAssumption => (Store!Spec => []StoreInv)
<1> SUFFICES ASSUME Store!AdvisoryStoreAssumption PROVE Store!Spec => []StoreInv
  OBVIOUS
<1>1. Store!Init => StoreInv
  BY StoreInit
<1>2. StoreInv /\ [Store!Next]_(Store!vars) => StoreInv'
  BY StoreStep
<1> QED
  BY <1>1, <1>2, PTL DEF Store!Spec

\* A stored record that no delivery replaces is fused.
LEMMA RunKeepsFacts ==
  ASSUME Store!AdvisoryStoreAssumption, FilesTyped, NEW d \in Store!Batches,
         NEW kev, Store!Run(d, kev)
  PROVE  Store!KeptUnlessRedelivered
<1> SUFFICES ASSUME NEW i \in Store!Ids, store_files[i] # Store!NoFile,
                    \A k \in DOMAIN store_batch' : store_batch'[k].id # i
             PROVE  store_files[i].facts
                      \subseteq store_files'[Store!Min(Store!ClusterOf(i,
                        Store!Stored(store_files')))].facts
  BY DEF Store!KeptUnlessRedelivered
<1> DEFINE c == Store!ClusterOf(i, Collected)
<1>1. store_files[i] \in Store!Stored(store_files) /\ store_files[i].id = i
  BY DEF Store!Stored, FilesTyped
<1>2. store_files[i] \in Collected
  BY <1>1 DEF Collected
<1>3. c \in Store!Clusters(Collected)
      /\ Store!ClusterOf(i, Store!Stored(store_files')) = c
  BY <1>1, <1>2, ClustersKept
<1>4. i \in c
  BY ClusterHolds
<1> HIDE DEF c
<1>5. store_files[i] \in Group(c)
  BY <1>1, <1>4 DEF Group, Store!LastPerId
<1>6. store_files'[Store!Min(c)].facts = UNION {r.facts : r \in Group(c)}
  BY <1>3, FilesAfter, MadeIs
<1> QED
  BY <1>3, <1>5, <1>6

\* The index names one record of every cluster of the store, and a record that
\* was not delivered again keeps its facts in the record of its cluster
\* (fuse_all).
THEOREM StoreSafe ==
  Store!AdvisoryStoreAssumption
    => (Store!Spec => []Store!IndexExact
      /\ [][Store!KeptUnlessRedelivered]_(Store!vars))
<1> SUFFICES ASSUME Store!AdvisoryStoreAssumption
    PROVE  Store!Spec => []Store!IndexExact
           /\ [][Store!KeptUnlessRedelivered]_(Store!vars)
  OBVIOUS
<1>1. StoreInv => Store!IndexExact /\ FilesTyped
  BY DEF StoreInv
<1>2. FilesTyped /\ [Store!Next]_(Store!vars)
        => [Store!KeptUnlessRedelivered]_(Store!vars)
  BY RunKeepsFacts DEF Store!Next
<1> QED
  BY <1>1, <1>2, StoreInductive, PTL DEF Store!Spec

\* Of the records of a set some have the best id.
LEMMA BestRecord ==
  ASSUME NEW S, S # {}, \A r \in S : r.id \in Nat
  PROVE  \E r \in S : \A q \in S : r.id <= q.id
<1> DEFINE ids == {r.id : r \in S}
<1>1. ids # {} /\ ids \subseteq Nat
  OBVIOUS
<1> HIDE DEF ids
<1>2. PICK i \in ids : \A j \in ids : ~ (<<j, i>> \in {p \in Nat \X Nat : p[1] < p[2]})
  BY <1>1, WFMin, LessIsWellFounded
<1>3. ASSUME NEW j \in ids PROVE i <= j
  <2>1. i \in Nat /\ j \in Nat /\ ~ (<<j, i>> \in {p \in Nat \X Nat : p[1] < p[2]})
    BY <1>1, <1>2
  <2>2. ~ (j < i)
    BY <2>1
  <2> QED
    BY <2>1, <2>2
<1>4. PICK r \in S : r.id = i
  BY DEF ids
<1>5. \A q \in S : q.id \in ids
  BY DEF ids
<1> QED
  BY <1>3, <1>4, <1>5

\* What is delivered, and what is made of it, is a record.
LEMMA DeliveriesAre ==
  Store!AdvisoryStoreAssumption => Store!Deliveries \subseteq Store!Records
<1> SUFFICES ASSUME Store!AdvisoryStoreAssumption, NEW i \in Store!Ids,
                    NEW a \in SUBSET Store!Ids
             PROVE  Store!Delivery(i, a) \in Store!Records
  BY DEF Store!Deliveries
<1>1. StoreN \in Nat /\ i \in 1..StoreN /\ StoreScored \subseteq 1..StoreN
  BY DEF Store!AdvisoryStoreAssumption, Store!Ids
<1>2. (IF i \in StoreScored THEN i ELSE Store!NoSource) \in 0..StoreN
  BY <1>1 DEF Store!NoSource
<1> QED
  BY <1>2 DEF Store!Delivery, Store!Records

LEMMA BatchesAre ==
  ASSUME Store!AdvisoryStoreAssumption, NEW d \in Store!Batches
  PROVE  d \in Seq(Store!Records) /\ Len(d) <= StoreMaxBatch
<1>1. PICK n \in 0..StoreMaxBatch : d \in [1..n -> Store!Deliveries]
  BY DEF Store!Batches
<1>2. n \in Nat /\ n <= StoreMaxBatch
  BY DEF Store!AdvisoryStoreAssumption
<1>3. d \in [1..n -> Store!Records]
  BY <1>1, DeliveriesAre
<1>4. d \in Seq(Store!Records) /\ Len(d) = n
  BY <1>2, <1>3
<1> QED
  BY <1>2, <1>4

LEMMA MadeIsRecord ==
  ASSUME Store!AdvisoryStoreAssumption, FilesTyped, Store!TypeOK,
         NEW d \in Store!Batches, NEW kev, Store!Run(d, kev),
         NEW c \in Store!Clusters(Collected)
  PROVE  Made(c) \in Store!Records
<1> DEFINE group  == Group(c)
           scores == {r \in group : r.scored # Store!NoSource}
           scored == IF scores = {} THEN Store!NoSource
                     ELSE (CHOOSE r \in scores : \A q \in scores : r.id <= q.id).scored
<1>1. c \subseteq Store!Ids /\ Store!Min(c) \in c
  BY CollectedTyped, ClusterMin
<1>2. group \subseteq Store!Records
  <2>1. store_batch' = d /\ d \in Seq(Store!Records)
    BY BatchesAre DEF Store!Run
  <2>2. Store!Stored(store_files) \subseteq Store!Records
    BY DEF Store!Stored, Store!TypeOK
  <2>3. \A k \in DOMAIN d : d[k] \in Store!Records
    BY <2>1
  <2> QED
    BY <2>1, <2>2, <2>3 DEF Group, Store!LastPerId
<1> HIDE DEF group
<1>3. scored \in 0..StoreN
  <2>0. 0 \in 0..StoreN
    BY DEF Store!AdvisoryStoreAssumption
  <2>1. CASE scores = {}
    BY <2>0, <2>1 DEF Store!NoSource
  <2>2. CASE scores # {}
    <3>1. \A r \in scores : r.id \in Nat /\ r.scored \in 0..StoreN
      BY <1>2 DEF Store!Records, Store!Ids
    <3> HIDE DEF scores
    <3>2. \E r \in scores : \A q \in scores : r.id <= q.id
      BY <2>2, <3>1, BestRecord
    <3>3. (CHOOSE r \in scores : \A q \in scores : r.id <= q.id) \in scores
      BY <3>2
    <3> QED
      BY <2>2, <3>1, <3>3
  <2> QED
    BY <2>1, <2>2
<1>4. UNION {r.facts : r \in group} \subseteq Store!Ids
  BY <1>2 DEF Store!Records
<1>5. Made(c) = [id |-> Store!Min(c), aliases |-> c \ {Store!Min(c)},
                 facts |-> UNION {r.facts : r \in group}, scored |-> scored,
                 kev |-> (c \cap store_kevList' # {})]
  BY DEF Made, Store!FuseCluster, group
<1>6. (c \cap store_kevList' # {}) \in BOOLEAN
  OBVIOUS
<1> HIDE DEF scored
<1> QED
  BY <1>1, <1>3, <1>4, <1>5, <1>6 DEF Store!Records

\* Every variable of the store keeps its type.
LEMMA StoreTypesSafe ==
  Store!AdvisoryStoreAssumption => (Store!Spec => []Store!TypeOK)
<1> SUFFICES ASSUME Store!AdvisoryStoreAssumption
    PROVE  Store!Spec => []Store!TypeOK
  OBVIOUS
<1>1. Store!Init => Store!TypeOK
  BY DEF Store!Init, Store!TypeOK, Store!AdvisoryStoreAssumption
<1>2. FilesTyped /\ Store!TypeOK /\ [Store!Next]_(Store!vars) => Store!TypeOK'
  <2> SUFFICES ASSUME FilesTyped, Store!TypeOK, [Store!Next]_(Store!vars)
      PROVE  Store!TypeOK'
    OBVIOUS
  <2>1. ASSUME NEW d \in Store!Batches,
               NEW kev \in {{}} \cup {{i} : i \in Store!Ids}, Store!Run(d, kev)
        PROVE  Store!TypeOK'
    <3>1. store_batch' \in Seq(Store!Records) /\ Len(store_batch') <= StoreMaxBatch
      BY <2>1, BatchesAre DEF Store!Run
    <3>2. store_kevList' \in SUBSET Store!Ids
      BY <2>1 DEF Store!Run
    <3>3. store_runs' \in 0..StoreMaxRuns
      BY <2>1 DEF Store!Run, Store!TypeOK, Store!AdvisoryStoreAssumption
    <3>4. /\ \A c \in Store!Clusters(Collected) :
               store_files'[Store!Min(c)] = Made(c)
          /\ \A i \in Store!Ids : (\A c \in Store!Clusters(Collected) :
               Store!Min(c) # i) => store_files'[i] = store_files[i]
          /\ store_index' = {Store!Min(c) : c \in Store!Clusters(Collected)}
      BY <2>1, FilesAfter
    <3>5. \A c \in Store!Clusters(Collected) : Made(c) \in Store!Records
      BY <2>1, MadeIsRecord
    <3>6. ASSUME NEW i \in Store!Ids
          PROVE  store_files'[i] \in Store!Records \cup {Store!NoFile}
      BY <3>4, <3>5 DEF Store!TypeOK
    <3>7. store_files' \in [Store!Ids -> Store!Records \cup {Store!NoFile}]
      BY <2>1, <3>6 DEF Store!Run
    <3>8. store_index' \in SUBSET Store!Ids
      <4>1. \A c \in Store!Clusters(Collected) : Store!Min(c) \in Store!Ids
        BY <2>1, CollectedTyped, ClusterMin
      <4> QED
        BY <3>4, <4>1
    <3> QED
      BY <3>1, <3>2, <3>3, <3>7, <3>8 DEF Store!TypeOK
  <2>2. CASE UNCHANGED Store!vars
    BY <2>2 DEF Store!vars, Store!TypeOK
  <2> QED
    BY <2>1, <2>2 DEF Store!Next
<1>3. StoreInv => FilesTyped
  BY DEF StoreInv
<1> QED
  BY <1>1, <1>2, <1>3, StoreInductive, PTL DEF Store!Spec

-----------------------------------------------------------------------------
(* The EPSS scores in memory and on disk.                                  *)

\* As long as one list of listed ids was asked for, a cache has a score of its
\* last fetch for each of them, or none at all.
OneFetch(c) == c = Epss!Empty \/ \A i \in epss_list : c.scores[i] = c.sync

EpssInv ==
  /\ Epss!TypeOK
  /\ epss_learned \subseteq Epss!Known(epss_cache) \cap Epss!Known(epss_disk)
  /\ epss_list = {} => epss_cache = Epss!Empty /\ epss_disk = Epss!Empty
  /\ epss_one /\ epss_list \subseteq EpssListed => OneFetch(epss_cache)
     /\ OneFetch(epss_disk)

LEMMA EmptyIsCache == Epss!EpssCacheAssumption => Epss!Empty \in Epss!Caches
BY DEF Epss!EpssCacheAssumption, Epss!Empty, Epss!Caches, Epss!Scores,
   Epss!Never

LEMMA EpssInit == Epss!EpssCacheAssumption /\ Epss!Init => EpssInv
<1> SUFFICES ASSUME Epss!EpssCacheAssumption, Epss!Init PROVE EpssInv
  OBVIOUS
<1>1. Epss!Empty \in Epss!Caches
  BY EmptyIsCache
<1>2. Epss!Empty.scores \in Epss!Scores
  BY DEF Epss!Empty, Epss!Scores, Epss!Never, Epss!EpssCacheAssumption
<1>3. Epss!TypeOK
  BY <1>1, <1>2 DEF Epss!Init, Epss!TypeOK, Epss!EpssCacheAssumption
<1> QED
  BY <1>3 DEF Epss!Init, EpssInv, OneFetch

\* What is fetched keeps every score there was, and is of now for what was
\* missing.
LEMMA FetchedScores ==
  ASSUME Epss!EpssCacheAssumption, Epss!TypeOK, NEW ids \in SUBSET EpssCves
  PROVE  /\ Epss!Fetched(ids) \in Epss!Caches /\ Epss!Fetched(ids).sync = epss_now
         /\ Epss!Known(epss_cache) \subseteq Epss!Known(Epss!Fetched(ids))
         /\ \A i \in Epss!Missing(ids) \cap EpssListed :
              Epss!Fetched(ids).scores[i] = epss_now
         /\ \A i \in EpssCves \ (Epss!Missing(ids) \cap EpssListed) :
              Epss!Fetched(ids).scores[i] = epss_cache.scores[i]
<1>1. epss_now \in 0..EpssMaxNow /\ epss_cache.scores \in Epss!Scores
      /\ EpssMaxNow \in Nat /\ EpssTtl \in Nat
  BY DEF Epss!TypeOK, Epss!Caches, Epss!EpssCacheAssumption
<1>2. Epss!Missing(ids) \subseteq EpssCves
  BY DEF Epss!Missing
<1>3. Epss!Fetched(ids).sync = epss_now /\ Epss!Fetched(ids).scores =
        [i \in EpssCves |-> IF i \in Epss!Missing(ids) \cap EpssListed
          THEN epss_now ELSE epss_cache.scores[i]]
  BY DEF Epss!Fetched
<1>4. Epss!Fetched(ids).scores \in Epss!Scores
  BY <1>1, <1>3 DEF Epss!Scores, Epss!Never
<1>5. epss_now \in Epss!Empty.sync..EpssMaxNow
  BY <1>1 DEF Epss!Empty, Epss!Never
<1>6. Epss!Fetched(ids) \in Epss!Caches
  <2>1. Epss!Fetched(ids) = [sync |-> epss_now, scores |-> Epss!Fetched(ids).scores]
    BY <1>3 DEF Epss!Fetched
  <2> QED
    BY <2>1, <1>4, <1>5 DEF Epss!Caches
<1>7. ASSUME NEW i \in Epss!Known(epss_cache)
      PROVE  i \in Epss!Known(Epss!Fetched(ids))
  BY <1>1, <1>3 DEF Epss!Known, Epss!Has, Epss!Never
<1> QED
  BY <1>2, <1>3, <1>6, <1>7

LEMMA EpssStep == Epss!EpssCacheAssumption /\ EpssInv /\ [Epss!Next]_(Epss!vars)
  => EpssInv'
<1> SUFFICES ASSUME Epss!EpssCacheAssumption, EpssInv, [Epss!Next]_(Epss!vars)
    PROVE  EpssInv'
  OBVIOUS
<1> USE DEF EpssInv
<1>0. EpssMaxNow \in Nat /\ epss_now \in 0..EpssMaxNow
      /\ epss_cache.scores \in Epss!Scores /\ EpssTtl \in Nat
  BY DEF Epss!EpssCacheAssumption, Epss!TypeOK, Epss!Caches
<1>1. CASE Epss!Tick
  BY <1>0, <1>1 DEF Epss!Tick, Epss!asks, Epss!TypeOK, OneFetch, Epss!Known,
     Epss!Has
<1>2. CASE Epss!Restart
  BY <1>2 DEF Epss!Restart, Epss!asks, Epss!TypeOK, OneFetch, Epss!Known,
     Epss!Has
<1>3. ASSUME NEW ids \in SUBSET EpssCves, NEW c \in Epss!Caches, Epss!Return(ids, c)
      PROVE  epss_answer' \in Epss!Scores /\ epss_at' = epss_now
  <2>1. Epss!Never \in Epss!Never..EpssMaxNow /\ c.scores \in Epss!Scores
    BY <1>0 DEF Epss!Never, Epss!Caches
  <2> QED
    BY <1>3, <2>1 DEF Epss!Return, Epss!Scores
<1>4. ASSUME NEW ids \in SUBSET EpssCves, Epss!Hit(ids) \/ Epss!Outage(ids)
      PROVE  EpssInv'
  <2>1. /\ ids # {} /\ epss_list' = ids
           /\ epss_one' = (epss_one /\ epss_list \in {{}, ids})
        /\ Epss!Return(ids, epss_cache)
           /\ UNCHANGED <<epss_now, epss_cache, epss_disk, epss_learned>>
    BY <1>4 DEF Epss!Hit, Epss!Outage, Epss!Ask
  <2>2. epss_answer' \in Epss!Scores /\ epss_at' = epss_now
    BY <1>3, <2>1 DEF Epss!TypeOK
  <2>3. epss_one' \in BOOLEAN
    BY <2>1, Zenon DEF Epss!TypeOK
  <2>4. Epss!TypeOK'
    BY <1>0, <2>1, <2>2, <2>3 DEF Epss!TypeOK
  <2>5. epss_one' => epss_one /\ epss_list \in {{}, ids}
    BY <2>1
  <2>6. epss_one' /\ epss_list' \subseteq EpssListed => OneFetch(epss_cache)'
        /\ OneFetch(epss_disk)'
    BY <2>1, <2>5 DEF OneFetch
  <2> QED
    BY <2>1, <2>4, <2>6 DEF Epss!Known, Epss!Has
<1>5. ASSUME NEW ids \in SUBSET EpssCves, Epss!Fetch(ids) PROVE EpssInv'
  <2>1. /\ ids # {} /\ epss_list' = ids
           /\ epss_one' = (epss_one /\ epss_list \in {{}, ids})
        /\ Epss!Missing(ids) # {} /\ epss_cache' = Epss!Fetched(ids)
           /\ Epss!Return(ids, epss_cache') /\ epss_now' = epss_now
        /\ \/ epss_disk' = epss_cache' /\ epss_learned' = Epss!Known(epss_cache')
           \/ epss_disk' \in {epss_disk, Epss!Empty}
              /\ epss_learned' = epss_learned \cap Epss!Known(epss_disk')
    BY <1>5 DEF Epss!Fetch, Epss!Ask
  <2>2. /\ epss_cache' \in Epss!Caches /\ epss_cache'.sync = epss_now
           /\ Epss!Known(epss_cache) \subseteq Epss!Known(epss_cache')
        /\ \A i \in Epss!Missing(ids) \cap EpssListed :
             epss_cache'.scores[i] = epss_now
    BY <2>1, FetchedScores
  <2>3. epss_disk' \in Epss!Caches
    BY <2>1, <2>2, EmptyIsCache DEF Epss!TypeOK
  <2>4. epss_one' \in BOOLEAN
    BY <2>1, Zenon DEF Epss!TypeOK
  <2>5. epss_answer' \in Epss!Scores /\ epss_at' = epss_now
    BY <1>3, <2>1, <2>2
  <2>6. epss_learned' \subseteq Epss!Known(epss_cache') \cap Epss!Known(epss_disk')
    BY <2>1, <2>2
  <2>7. epss_learned' \subseteq EpssCves
    BY <2>6 DEF Epss!Known
  <2>8. ASSUME epss_one', ids \subseteq EpssListed
        PROVE  ids \subseteq Epss!Missing(ids)
    <3>1. epss_cache = Epss!Empty
          \/ \A i \in ids : epss_cache.scores[i] = epss_cache.sync
      BY <2>1, <2>8 DEF OneFetch
    <3>2. CASE epss_cache = Epss!Empty
      BY <3>2 DEF Epss!Missing, Epss!Has, Epss!Empty
    <3>3. CASE \A i \in ids : epss_cache.scores[i] = epss_cache.sync
      <4>1. PICK j \in ids : ~(Epss!CacheValid /\ Epss!Has(epss_cache, j))
        BY <2>1 DEF Epss!Missing
      <4>2. \A i \in ids : Epss!Has(epss_cache, i) <=> Epss!Has(epss_cache, j)
        BY <3>3 DEF Epss!Has
      <4> QED
        BY <4>1, <4>2 DEF Epss!Missing
    <3> QED
      BY <3>1, <3>2, <3>3
  <2>9. ASSUME epss_one', ids \subseteq EpssListed
        PROVE  OneFetch(epss_cache)' /\ OneFetch(epss_disk)'
    <3>1. \A i \in ids : epss_cache'.scores[i] = epss_cache'.sync
      BY <2>2, <2>8, <2>9
    <3>2. epss_disk = Epss!Empty
          \/ \A i \in ids : epss_disk.scores[i] = epss_disk.sync
      BY <2>1, <2>9 DEF OneFetch
    <3> QED
      BY <2>1, <3>1, <3>2 DEF OneFetch
  <2>10. Epss!TypeOK'
    BY <1>0, <2>1, <2>2, <2>3, <2>4, <2>5, <2>7 DEF Epss!TypeOK
  <2>11. Epss!Known(epss_cache)' = Epss!Known(epss_cache')
         /\ Epss!Known(epss_disk)' = Epss!Known(epss_disk')
    BY DEF Epss!Known, Epss!Has
  <2> QED
    BY <2>1, <2>6, <2>9, <2>10, <2>11
<1>6. CASE UNCHANGED Epss!vars
  BY <1>6 DEF Epss!vars, Epss!asks, Epss!TypeOK, OneFetch, Epss!Known, Epss!Has
<1> QED
  BY <1>1, <1>2, <1>4, <1>5, <1>6 DEF Epss!Next

LEMMA EpssFresh == Epss!EpssCacheAssumption /\ EpssInv /\ [Epss!Next]_(Epss!vars)
  => Epss!OneListFresh
<1> SUFFICES ASSUME Epss!EpssCacheAssumption, EpssInv,
                    NEW ids \in SUBSET EpssCves, Epss!Hit(ids) \/ Epss!Fetch(ids),
                    epss_one', ids \subseteq EpssListed, NEW i \in ids
             PROVE  epss_now - epss_answer'[i] < EpssTtl
  BY DEF Epss!OneListFresh
<1>1. EpssMaxNow \in Nat /\ epss_now \in 0..EpssMaxNow /\ EpssTtl \in Nat \ {0}
  BY DEF Epss!EpssCacheAssumption, EpssInv, Epss!TypeOK
<1>2. epss_one /\ epss_list \in {{}, ids}
  BY DEF Epss!Hit, Epss!Fetch, Epss!Ask
<1>3. epss_cache = Epss!Empty
      \/ \A j \in ids : epss_cache.scores[j] = epss_cache.sync
  BY <1>2 DEF EpssInv, OneFetch
<1>4. i \in EpssCves
  OBVIOUS
<1>5. CASE Epss!Hit(ids)
  <2>1. Epss!CacheValid /\ Epss!Has(epss_cache, i)
        /\ epss_answer'[i] = epss_cache.scores[i]
    BY <1>4, <1>5 DEF Epss!Hit, Epss!Missing, Epss!Return
  <2>2. epss_cache.scores[i] = epss_cache.sync
    BY <1>3, <1>4, <2>1 DEF Epss!Empty, Epss!Has
  <2> QED
    BY <2>1, <2>2 DEF Epss!CacheValid
<1>6. CASE Epss!Fetch(ids)
  <2>1. i \in Epss!Missing(ids)
    <3>1. CASE epss_cache = Epss!Empty
      BY <1>4, <3>1 DEF Epss!Missing, Epss!Has, Epss!Empty
    <3>2. CASE \A j \in ids : epss_cache.scores[j] = epss_cache.sync
      <4>1. PICK j \in ids : ~(Epss!CacheValid /\ Epss!Has(epss_cache, j))
        BY <1>6 DEF Epss!Fetch, Epss!Missing
      <4> QED
        BY <3>2, <4>1 DEF Epss!Missing, Epss!Has
    <3> QED
      BY <1>3, <3>1, <3>2
  <2>2. epss_answer'[i] = Epss!Fetched(ids).scores[i]
    BY <1>4, <1>6 DEF Epss!Fetch, Epss!Return
  <2>3. epss_answer'[i] = epss_now
    BY <2>1, <2>2, FetchedScores DEF EpssInv
  <2> QED
    BY <1>1, <2>3
<1> QED
  BY <1>5, <1>6

LEMMA EpssAnswers == EpssInv /\ [Epss!Next]_(Epss!vars) => Epss!OutageAnswers
BY DEF EpssInv, Epss!OutageAnswers, Epss!Outage, Epss!Return, Epss!Known,
   Epss!Has

\* The invariant holds of every behaviour of the part.
LEMMA EpssInductive == Epss!EpssCacheAssumption
  => (Epss!Spec => []EpssInv)
<1> SUFFICES ASSUME Epss!EpssCacheAssumption
    PROVE  Epss!Spec => []EpssInv
  OBVIOUS
<1>1. Epss!Init => EpssInv
  BY EpssInit
<1>2. EpssInv /\ [Epss!Next]_(Epss!vars) => EpssInv'
  BY EpssStep
<1> QED
  BY <1>1, <1>2, PTL DEF Epss!Spec

\* One time stamp is right for one list of ids, and a saved score outlives every
\* outage.
THEOREM EpssSafe == Epss!EpssCacheAssumption /\ Epss!Spec
  => [][Epss!OneListFresh /\ Epss!OutageAnswers]_(Epss!vars)
<1> SUFFICES ASSUME Epss!EpssCacheAssumption
    PROVE  Epss!Spec => [][Epss!OneListFresh /\ Epss!OutageAnswers]_(Epss!vars)
  OBVIOUS
<1>1. EpssInv /\ [Epss!Next]_(Epss!vars)
        => [Epss!OneListFresh /\ Epss!OutageAnswers]_(Epss!vars)
  BY EpssFresh, EpssAnswers
<1> QED
  BY <1>1, EpssInductive, PTL DEF Epss!Spec

-----------------------------------------------------------------------------
(* The parts side by side: each takes its own steps, or none.              *)

LEMMA GraphRuns == Spec => Graph!Spec
<1>1. Init => Graph!Init
  BY DEF Init
<1>2. [Next]_vars => [Graph!Next]_(Graph!vars)
  BY DEF Next, vars, graphVars, Graph!vars, CveNext, KevNext, EpssNext,
     FoundNext, FixerNext, PassportsNext, MalwareNext, PypaNext, GitlabNext,
     UpdatesNext, GraphNext, StoreNext, ProbeNext, SandboxNext, BridgeNext,
     BotNext, SiteNext, PubNext
<1> QED
  BY <1>1, <1>2, PTL DEF Spec, Graph!Spec

LEMMA StoreRuns == Spec => Store!Spec
<1>1. Init => Store!Init
  BY DEF Init
<1>2. [Next]_vars => [Store!Next]_(Store!vars)
  BY DEF Next, vars, storeVars, Store!vars, CveNext, KevNext, EpssNext,
     FoundNext, FixerNext, PassportsNext, MalwareNext, PypaNext, GitlabNext,
     UpdatesNext, GraphNext, StoreNext, ProbeNext, SandboxNext, BridgeNext,
     BotNext, SiteNext, PubNext
<1> QED
  BY <1>1, <1>2, PTL DEF Spec, Store!Spec

LEMMA EpssRuns == Spec => Epss!Spec
<1>1. Init => Epss!Init
  BY DEF Init
<1>2. [Next]_vars => [Epss!Next]_(Epss!vars)
  BY DEF Next, vars, epssVars, Epss!vars, Epss!asks, CveNext, KevNext,
     EpssNext, FoundNext, FixerNext, PassportsNext, MalwareNext, PypaNext,
     GitlabNext, UpdatesNext, GraphNext, StoreNext, ProbeNext, SandboxNext,
     BridgeNext, BotNext, SiteNext, PubNext
<1> QED
  BY <1>1, <1>2, PTL DEF Spec, Epss!Spec

\* The forest under the alias graph rises in rank and the index is exact, for
\* every value of the constants.
THEOREM ClustersSafe == Spec => []ClustersSound
<1>1. Graph!AliasGraphAssumption /\ Store!AdvisoryStoreAssumption
  BY PartsAssumption DEF PartsAssumption
<1>2. Graph!RankRises /\ Store!IndexExact => ClustersSound
  BY DEF ClustersSound
<1>3. Spec => []Graph!RankRises
  BY <1>1, GraphRuns, GraphSafe
<1>4. Spec => []Store!IndexExact
  BY <1>1, StoreRuns, StoreSafe
<1> QED
  BY <1>2, <1>3, <1>4, PTL

\* The alias graph implements a partition whose clusters only grow together.
THEOREM PartitionSafe == Spec => AliasesPartition
<1>1. Graph!AliasGraphAssumption
  BY PartsAssumption DEF PartsAssumption
<1> QED
  BY <1>1, GraphRuns, GraphSafe DEF AliasesPartition

\* A step of the part that runs changes it, or nothing.
LEMMA PartMoves ==
  ASSUME [Next]_vars
  PROVE  /\ part = "cve" /\ UNCHANGED Cve!vars => UNCHANGED vars
         /\ part = "kev" /\ UNCHANGED Kev!vars => UNCHANGED vars
         /\ part = "epss" /\ UNCHANGED Epss!vars => UNCHANGED vars
         /\ part = "found" /\ UNCHANGED Found!vars => UNCHANGED vars
         /\ part = "store" /\ UNCHANGED Store!vars => UNCHANGED vars
         /\ part = "pub" /\ UNCHANGED Pub!vars => UNCHANGED vars
<1>1. part = "cve" /\ UNCHANGED Cve!vars => UNCHANGED vars
  BY DEF Next, vars, cveVars, Cve!vars, Cve!upstream, Cve!diskVars,
     Cve!scanVars, Cve!pageVars, CveNext, KevNext, EpssNext, FoundNext,
     FixerNext, PassportsNext, MalwareNext, PypaNext, GitlabNext, UpdatesNext,
     GraphNext, StoreNext, ProbeNext, SandboxNext, BridgeNext, BotNext,
     SiteNext, PubNext
<1>2. part = "kev" /\ UNCHANGED Kev!vars => UNCHANGED vars
  BY DEF Next, vars, kevVars, Kev!vars, Kev!files, Kev!mem, CveNext, KevNext,
     EpssNext, FoundNext, FixerNext, PassportsNext, MalwareNext, PypaNext,
     GitlabNext, UpdatesNext, GraphNext, StoreNext, ProbeNext, SandboxNext,
     BridgeNext, BotNext, SiteNext, PubNext
<1>3. part = "epss" /\ UNCHANGED Epss!vars => UNCHANGED vars
  BY DEF Next, vars, epssVars, Epss!vars, Epss!asks, CveNext, KevNext,
     EpssNext, FoundNext, FixerNext, PassportsNext, MalwareNext, PypaNext,
     GitlabNext, UpdatesNext, GraphNext, StoreNext, ProbeNext, SandboxNext,
     BridgeNext, BotNext, SiteNext, PubNext
<1>4. part = "found" /\ UNCHANGED Found!vars => UNCHANGED vars
  BY DEF Next, vars, foundVars, Found!vars, Found!upstream, Found!files,
     Found!pass, Found!enricher, CveNext, KevNext, EpssNext, FoundNext,
     FixerNext, PassportsNext, MalwareNext, PypaNext, GitlabNext, UpdatesNext,
     GraphNext, StoreNext, ProbeNext, SandboxNext, BridgeNext, BotNext,
     SiteNext, PubNext
<1>5. part = "store" /\ UNCHANGED Store!vars => UNCHANGED vars
  BY DEF Next, vars, storeVars, Store!vars, CveNext, KevNext, EpssNext,
     FoundNext, FixerNext, PassportsNext, MalwareNext, PypaNext, GitlabNext,
     UpdatesNext, GraphNext, StoreNext, ProbeNext, SandboxNext, BridgeNext,
     BotNext, SiteNext, PubNext
<1>6. part = "pub" /\ UNCHANGED Pub!vars => UNCHANGED vars
  BY DEF Next, vars, pubVars, Pub!vars, Pub!dirVars, Pub!copyVars, CveNext,
     KevNext, EpssNext, FoundNext, FixerNext, PassportsNext, MalwareNext,
     PypaNext, GitlabNext, UpdatesNext, GraphNext, StoreNext, ProbeNext,
     SandboxNext, BridgeNext, BotNext, SiteNext, PubNext
<1> QED
  BY <1>1, <1>2, <1>3, <1>4, <1>5, <1>6

\* What StepsForward says of a step.
Forward ==
  /\ part = "cve" => Cve!RereadOnlyBehind
  /\ part = "kev" => Kev!NeverOlder
  /\ part = "epss" => Epss!OneListFresh /\ Epss!OutageAnswers
  /\ part = "found" => Found!ListedIsFound /\ Found!EnricherAddsVersions
  /\ part = "store" => Store!KeptUnlessRedelivered
  /\ part = "pub" => Pub!SnapshotAdvances

\* No step goes back on what was known: markers, catalogues, scores, servers,
\* advisories and snapshots, for every value of the constants.
THEOREM StepsSafe == Spec => StepsForward
<1>1. /\ Cve!CveFeedsAssumption /\ Kev!KevCacheAssumption
      /\ Epss!EpssCacheAssumption /\ Found!DiscoveryAssumption
      /\ Store!AdvisoryStoreAssumption /\ Pub!PublicationAssumption
  BY PartsAssumption DEF PartsAssumption
<1>2. Spec => [][Cve!RereadOnlyBehind]_(Cve!vars)
  BY <1>1, CveRuns, RereadSafe
<1>3. Spec => [][Kev!NeverOlder]_(Kev!vars)
  BY <1>1, KevRuns, NeverOlderSafe
<1>4. Spec => [][Epss!OneListFresh /\ Epss!OutageAnswers]_(Epss!vars)
  BY <1>1, EpssRuns, EpssSafe
<1>5. Spec => [][Found!ListedIsFound]_(Found!vars)
  BY <1>1, FoundRuns, ListedSafe
<1>6. Spec => [][Found!EnricherAddsVersions]_(Found!vars)
  BY <1>1, FoundRuns, EnricherSafe
<1>7. Spec => [][Store!KeptUnlessRedelivered]_(Store!vars)
  BY <1>1, StoreRuns, StoreSafe
<1>8. Spec => [][Pub!SnapshotAdvances]_(Pub!vars)
  BY <1>1, PubRuns, AdvancesSafe
<1>9. (/\ [Next]_vars
        /\ [Cve!RereadOnlyBehind]_(Cve!vars)
        /\ [Kev!NeverOlder]_(Kev!vars)
        /\ [Epss!OneListFresh /\ Epss!OutageAnswers]_(Epss!vars)
        /\ [Found!ListedIsFound]_(Found!vars)
        /\ [Found!EnricherAddsVersions]_(Found!vars)
        /\ [Store!KeptUnlessRedelivered]_(Store!vars)
        /\ [Pub!SnapshotAdvances]_(Pub!vars))
       => [Forward]_vars
  BY PartMoves DEF Forward
<1>10. Spec => [][Forward]_vars
  BY <1>2, <1>3, <1>4, <1>5, <1>6, <1>7, <1>8, <1>9, PTL DEF Spec
<1> QED
  BY <1>10 DEF StepsForward, Forward

-----------------------------------------------------------------------------
(* The types of all parts.                                                 *)

\* Every variable of the part that runs keeps its type, for every value of the
\* constants.
THEOREM TypesSafe == Spec => []TypeOK
<1>1. Spec => []Cve!TypeOK
  <2>1. Spec => []CveInv
    BY CveRuns, CveInductive, PartsAssumption DEF PartsAssumption
  <2>2. CveInv => Cve!TypeOK
    BY DEF CveInv
  <2> QED
    BY <2>1, <2>2, PTL
<1>2. Spec => []Kev!TypeOK
  <2>1. Spec => []KevInv
    BY KevRuns, KevInductive, PartsAssumption DEF PartsAssumption
  <2>2. KevInv => Kev!TypeOK
    BY DEF KevInv
  <2> QED
    BY <2>1, <2>2, PTL
<1>3. Spec => []Epss!TypeOK
  <2>1. Spec => []EpssInv
    BY EpssRuns, EpssInductive, PartsAssumption DEF PartsAssumption
  <2>2. EpssInv => Epss!TypeOK
    BY DEF EpssInv
  <2> QED
    BY <2>1, <2>2, PTL
<1>4. Spec => []Found!TypeOK
  <2>1. Spec => []FoundInv
    BY FoundRuns, FoundInductive, PartsAssumption DEF PartsAssumption
  <2>2. FoundInv => Found!TypeOK
    BY DEF FoundInv
  <2> QED
    BY <2>1, <2>2, PTL
<1>5. Spec => []Fixer!TypeOK
  <2>1. Spec => []FixerInv
    BY FixerRuns, FixerInductive, PartsAssumption DEF PartsAssumption
  <2>2. FixerInv => Fixer!TypeOK
    BY DEF FixerInv
  <2> QED
    BY <2>1, <2>2, PTL
<1>6. Spec => []Passports!TypeOK
  <2>1. Spec => []PassportsInv
    BY PassportsRuns, PassportsInductive, PartsAssumption DEF PartsAssumption
  <2>2. PassportsInv => Passports!TypeOK
    BY DEF PassportsInv
  <2> QED
    BY <2>1, <2>2, PTL
<1>7. Spec => []Malware!TypeOK
  BY MalwareRuns, MalwareTypesSafe, PartsAssumption DEF PartsAssumption
<1>8. Spec => []Pypa!TypeOK
  <2>1. Spec => []PypaInv
    BY PypaRuns, PypaInductive, PartsAssumption DEF PartsAssumption
  <2>2. PypaInv => Pypa!TypeOK
    BY DEF PypaInv
  <2> QED
    BY <2>1, <2>2, PTL
<1>9. Spec => []Gitlab!TypeOK
  BY GitlabRuns, GitlabTypes, PartsAssumption DEF PartsAssumption
<1>10. Spec => []Updates!TypeOK
  <2>1. Spec => []UpdatesInv
    BY UpdatesRuns, UpdatesInductive, PartsAssumption DEF PartsAssumption
  <2>2. UpdatesInv => Updates!TypeOK
    BY DEF UpdatesInv
  <2> QED
    BY <2>1, <2>2, PTL
<1>11. Spec => []Graph!TypeOK
  <2>1. Spec => []GraphInv
    BY GraphRuns, GraphInductive, PartsAssumption DEF PartsAssumption
  <2>2. GraphInv => Graph!TypeOK
    BY GraphTypes
  <2> QED
    BY <2>1, <2>2, PTL
<1>12. Spec => []Store!TypeOK
  BY StoreRuns, StoreTypesSafe, PartsAssumption DEF PartsAssumption
<1>13. Spec => []Probe!TypeOK
  <2>1. Spec => []ProbeInv
    BY ProbeRuns, ProbeInductive, PartsAssumption DEF PartsAssumption
  <2>2. ProbeInv => Probe!TypeOK
    BY DEF ProbeInv
  <2> QED
    BY <2>1, <2>2, PTL
<1>14. Spec => []Sandbox!TypeOK
  <2>1. Spec => []SandboxInv
    BY SandboxRuns, SandboxInductive, PartsAssumption DEF PartsAssumption
  <2>2. SandboxInv => Sandbox!TypeOK
    BY DEF SandboxInv
  <2> QED
    BY <2>1, <2>2, PTL
<1>15. Spec => []Bridge!TypeOK
  <2>1. Spec => []BridgeInv
    BY BridgeRuns, BridgeInductive, PartsAssumption DEF PartsAssumption
  <2>2. BridgeInv => Bridge!TypeOK
    BY DEF BridgeInv
  <2> QED
    BY <2>1, <2>2, PTL
<1>16. Spec => []Bot!TypeOK
  BY BotRuns, BotTypesSafe, PartsAssumption DEF PartsAssumption
<1>17. Spec => []Site!TypeOK
  <2>1. Spec => []SiteInv
    BY SiteRuns, SiteInductive, PartsAssumption DEF PartsAssumption
  <2>2. SiteInv => Site!TypeOK
    BY DEF SiteInv, SiteTypes
  <2> QED
    BY <2>1, <2>2, PTL
<1>18. Spec => []Pub!TypeOK
  <2>1. Spec => []PubInv
    BY PubRuns, PubInductive, PartsAssumption DEF PartsAssumption
  <2>2. PubInv => Pub!TypeOK
    BY DEF PubInv, PubTypes
  <2> QED
    BY <2>1, <2>2, PTL
<1>19. (/\ Cve!TypeOK /\ Kev!TypeOK /\ Epss!TypeOK /\ Found!TypeOK
       /\ Fixer!TypeOK /\ Passports!TypeOK /\ Malware!TypeOK /\ Pypa!TypeOK
       /\ Gitlab!TypeOK /\ Updates!TypeOK /\ Graph!TypeOK /\ Store!TypeOK
       /\ Probe!TypeOK /\ Sandbox!TypeOK /\ Bridge!TypeOK /\ Bot!TypeOK
       /\ Site!TypeOK /\ Pub!TypeOK)
      => TypeOK
  BY DEF TypeOK
<1> QED
  BY <1>1, <1>2, <1>3, <1>4, <1>5, <1>6, <1>7, <1>8, <1>9, <1>10, <1>11,
     <1>12, <1>13, <1>14, <1>15, <1>16, <1>17, <1>18, <1>19, PTL

=============================================================================
