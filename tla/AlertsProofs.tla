---------------------------- MODULE AlertsProofs ----------------------------
(***************************************************************************)
(* For any packages, sources, window and number of restarts: the types of  *)
(* the monitor's loop, when an alert may be repeated, when a reload may    *)
(* forget one, and that a readable baseline stays.                         *)
(***************************************************************************)
EXTENDS Alerts, TLAPS

\* The baseline is written only when there was none.
BaselineInv == pc \in {"truncate", "fill"} => baseline = None

\* What was raised within the window is in the cache, no older there, unless
\* a reload dropped it.
RaisedInv ==
  \A i \in DOMAIN raised : i \in forgotten \/ Age(cache, i) <= raised[i]

\* An alert is marked only when the cache did not hold it.
MarkInv == pc = "mark" => alert \notin DOMAIN raised \/ alert \in forgotten

\* No process, no history.
OffInv == pc = "off" => DOMAIN raised = {} /\ forgotten = {}

\* Memory and file agree outside a save; inside, memory and the text do.
AgreeInv ==
  ~spoiled /\ pc # "off" =>
    /\ forgotten = {}
    /\ (pc \notin Saving => cache = disk)
    /\ (pc = "write" => text = cache)

IInv == TypeOK /\ BaselineInv /\ RaisedInv /\ MarkInv /\ OffInv /\ AgreeInv

-----------------------------------------------------------------------------
(* The operators on caches.                                                *)

LEMMA StampTyped ==
  ASSUME NEW f, Stamps(f), NEW id \in AlertIds
  PROVE  Stamps(Stamp(f, id))
BY AlertsAssumption DEF AlertsAssumption, Stamps, Stamp

LEMMA OlderTyped ==
  ASSUME NEW f, Stamps(f)
  PROVE  Stamps(Older(f))
BY AlertsAssumption DEF AlertsAssumption, Stamps, Older

LEMMA NoStampsTyped == Stamps(NoStamps)
BY DEF Stamps, NoStamps

LEMMA AgeTyped ==
  ASSUME NEW f, Stamps(f), NEW id
  PROVE  /\ Age(f, id) \in 0..Window
         /\ Age(f, id) < Window <=> id \in DOMAIN f
BY AlertsAssumption DEF AlertsAssumption, Stamps, Age

\* Time keeps the order of two ages, up to the window.
LEMMA OlderAge ==
  ASSUME NEW f, Stamps(f), NEW id
  PROVE  Age(Older(f), id) = IF Age(f, id) + 1 < Window THEN Age(f, id) + 1 ELSE Window
BY AlertsAssumption DEF AlertsAssumption, Stamps, Age, Older

LEMMA CompareTyped ==
  ASSUME NEW old \in Pictures, NEW new \in Pictures
  PROVE  Compare(old, new) \in Drifts
BY DEF Compare, Pictures, Drifts

-----------------------------------------------------------------------------
(* Type correctness.                                                       *)

LEMMA InitTyped == Init => TypeOK
<1> SUFFICES ASSUME Init PROVE TypeOK
  OBVIOUS
<1>1. CacheOK
  BY AlertsAssumption DEF AlertsAssumption, Init, CacheOK, Stamps, NoStamps
<1>2. AlertOK
  BY DEF Init, AlertOK, Dispatching
<1> QED
  BY <1>1, <1>2, AlertsAssumption DEF AlertsAssumption, Init, TypeOK

LEMMA CacheStep == TypeOK /\ [Next]_vars => CacheOK'
<1> SUFFICES ASSUME CacheOK, AlertOK, [Next]_vars PROVE CacheOK'
  BY DEF TypeOK
<1> USE DEF CacheOK, stores, history
<1>1. CASE Mark
  <2>1. alert \in AlertIds
    BY <1>1 DEF Mark, AlertOK, Dispatching
  <2> QED
    BY <1>1, <2>1, StampTyped DEF Mark
<1>2. CASE Dump \/ Write \/ WriteFails
  BY <1>2, NoStampsTyped DEF Dump, Write, WriteFails
<1>3. CASE Start \/ Hup
  BY <1>3 DEF Start, Hup, Stamps
<1>4. CASE End
  BY <1>4, NoStampsTyped DEF End
<1>5. CASE Tick
  BY <1>5, OlderTyped DEF Tick
<1>6. CASE UNCHANGED stores /\ UNCHANGED <<raised, forgotten>> /\ spoiled' \in BOOLEAN
  BY <1>6 DEF Stamps
<1>7. CASE Cycle /\ ~Mark /\ ~Dump /\ ~Write /\ ~WriteFails
  BY <1>6, <1>7 DEF Cycle, Scan, Load, SaveOpen, SaveFill, SaveFails, Quiet, Suppressed,
     Raise, MkdirFails, Send, Wake
<1> QED
  BY <1>1, <1>2, <1>3, <1>4, <1>5, <1>6, <1>7 DEF Next, vars

LEMMA AlertStep == TypeOK /\ [Next]_vars => AlertOK'
<1> SUFFICES ASSUME TypeOK, AlertOK, [Next]_vars PROVE AlertOK'
  BY DEF TypeOK
<1> USE DEF Goto, EndCycle, Dispatching
<1>1. CASE Raise
  <2>1. Drift \in Drifts /\ starts \in 1..MaxStarts
    BY <1>1, CompareTyped, AlertsAssumption
    DEF Raise, Compared, Drift, TypeOK, AlertsAssumption
  <2>2. AlertId(Drift) \in AlertIds /\ AlertId(Drift) # None
    BY <2>1, AlertsAssumption DEF AlertId, AlertIds, AlertsAssumption
  <2>3. AlertId(Drift).salt = starts /\ AlertId(Drift).drift = Drift
    BY DEF AlertId
  <2>4. \E n \in Names : Added(Drift, n)
    BY <1>1 DEF Raise, Messages
  <2>5. pc' = "mark" /\ alert' = AlertId(Drift) /\ starts' = starts
    BY <1>1 DEF Raise
  <2>6. alert'.salt = starts' /\ \E n \in Names : Added(alert'.drift, n)
    BY <2>3, <2>4, <2>5
  <2> QED
    BY <2>2, <2>5, <2>6 DEF AlertOK
<1>2. CASE pc' \notin Dispatching /\ pc \notin Dispatching /\ UNCHANGED alert
  BY <1>2 DEF AlertOK
<1>3. CASE pc' \notin Dispatching /\ alert' = None
  BY <1>3 DEF AlertOK
<1>4. CASE UNCHANGED <<alert, starts>> /\ (pc' \in Dispatching <=> pc \in Dispatching)
  BY <1>4 DEF AlertOK, Added
<1>5. CASE Start \/ Hup \/ End \/ Tick \/ UNCHANGED vars
  BY <1>2, <1>3, <1>4, <1>5 DEF Start, Hup, End, Tick, vars
<1>6. CASE Cycle /\ ~Raise
  <2>1. CASE Scan \/ Load \/ SaveOpen \/ Wake
    BY <1>2, <2>1 DEF Scan, Load, SaveOpen, Wake
  <2>2. CASE SaveFill \/ SaveFails \/ Quiet \/ Suppressed \/ MkdirFails \/ Send
    BY <1>3, <2>2 DEF SaveFill, SaveFails, Quiet, Suppressed, MkdirFails, Send
  <2>3. CASE Mark \/ Dump \/ Write \/ WriteFails
    BY <1>4, <2>3 DEF Mark, Dump, Write, WriteFails, Saving
  <2> QED
    BY <1>6, <2>1, <2>2, <2>3 DEF Cycle
<1> QED
  BY <1>1, <1>5, <1>6 DEF Next

LEMMA TypeStep == TypeOK /\ [Next]_vars => TypeOK'
<1> SUFFICES ASSUME TypeOK, [Next]_vars, CacheOK', AlertOK' PROVE TypeOK'
  BY CacheStep, AlertStep
<1> USE AlertsAssumption DEF AlertsAssumption, TypeOK, Goto, EndCycle, Dispatching
<1>1. CASE Start
  BY <1>1 DEF Start
<1>2. CASE Scan \/ Load \/ SaveOpen \/ SaveFill \/ SaveFails
  BY <1>2 DEF Scan, Load, SaveOpen, SaveFill, SaveFails
<1>3. CASE Quiet \/ Suppressed \/ Raise
  BY <1>3 DEF Quiet, Suppressed, Raise, Compared
<1>4. CASE Mark \/ Dump \/ Write \/ WriteFails
  BY <1>4 DEF Mark, Dump, Write, WriteFails, Saving
<1>5. CASE MkdirFails \/ Send \/ Wake
  BY <1>5 DEF MkdirFails, Send, Wake
<1>6. CASE Hup \/ End \/ Tick \/ UNCHANGED vars
  BY <1>6 DEF Hup, End, Tick, vars
<1> QED
  BY <1>1, <1>2, <1>3, <1>4, <1>5, <1>6 DEF Next, Cycle

\* The state of the loop, of the baseline and of the cache keeps its type;
\* an alert under way has something to say and bears the salt of its process.
THEOREM TypeCorrect == Spec => []TypeOK
BY InitTyped, TypeStep, PTL DEF Spec
-----------------------------------------------------------------------------
(* The invariant.                                                          *)

LEMMA InitInv == Init => IInv
BY InitTyped DEF Init, IInv, BaselineInv, RaisedInv, MarkInv, OffInv, AgreeInv, NoStamps

LEMMA InvStep == IInv /\ [Next]_vars => IInv'
<1> SUFFICES ASSUME IInv, [Next]_vars PROVE IInv'
  OBVIOUS
<1> USE DEF Goto, EndCycle, stores, history, Saving
<1>t. TypeOK /\ TypeOK'
  BY TypeStep DEF IInv
<1>s. Stamps(cache) /\ Stamps(disk) /\ Stamps(text) /\ Stamps(raised)
  BY <1>t DEF TypeOK, CacheOK
<1>1. BaselineInv'
  <2>1. CASE Start \/ Scan \/ Load \/ SaveOpen \/ SaveFill \/ SaveFails
    BY <2>1 DEF IInv, BaselineInv, Start, Scan, Load, SaveOpen, SaveFill, SaveFails
  <2>2. CASE Quiet \/ Suppressed \/ Raise
    BY <2>2 DEF IInv, BaselineInv, Quiet, Suppressed, Raise
  <2>3. CASE Mark \/ Dump \/ Write \/ WriteFails \/ MkdirFails \/ Send \/ Wake
    BY <2>3 DEF IInv, BaselineInv, Mark, Dump, Write, WriteFails, MkdirFails, Send, Wake
  <2>4. CASE Hup \/ End \/ Tick \/ UNCHANGED vars
    BY <2>4 DEF IInv, BaselineInv, Hup, End, Tick, vars
  <2> QED
    BY <2>1, <2>2, <2>3, <2>4 DEF Next, Cycle
<1>2. RaisedInv'
  <2>1. CASE Start
    BY <2>1 DEF IInv, RaisedInv, OffInv, Start
  <2>2. CASE Mark
    BY <2>2, <1>s, AgeTyped DEF IInv, RaisedInv, Mark, Stamp, Age
  <2>3. CASE Hup
    <3> SUFFICES ASSUME NEW i \in DOMAIN raised, i \notin forgotten',
                        i \notin forgotten, ~(Age(disk, i) > Age(cache, i))
                 PROVE  Age(disk, i) <= raised[i]
      BY <2>3 DEF Hup, RaisedInv
    <3>1. Age(cache, i) <= raised[i]
      BY DEF IInv, RaisedInv
    <3>2. raised[i] \in Nat /\ Age(cache, i) \in Nat /\ Age(disk, i) \in Nat
      BY <1>s, AgeTyped, AlertsAssumption DEF Stamps, AlertsAssumption
    <3> QED
      BY <3>1, <3>2
  <2>4. CASE End
    BY <2>4 DEF End, RaisedInv, NoStamps
  <2>5. CASE Tick
    <3> SUFFICES ASSUME NEW i \in DOMAIN Older(raised), i \notin forgotten
                 PROVE  Age(Older(cache), i) <= Older(raised)[i]
      BY <2>5 DEF Tick, RaisedInv
    <3>1. i \in DOMAIN raised /\ raised[i] + 1 < Window /\ Older(raised)[i] = raised[i] + 1
      BY DEF Older
    <3>2. Age(cache, i) <= raised[i]
      BY <3>1 DEF IInv, RaisedInv
    <3>3. raised[i] \in Nat /\ Age(cache, i) \in Nat /\ Window \in Nat
      BY <3>1, <1>s, AgeTyped, AlertsAssumption DEF Stamps, AlertsAssumption
    <3>4. Age(Older(cache), i) = Age(cache, i) + 1
      BY <3>1, <3>2, <3>3, <1>s, OlderAge
    <3> QED
      BY <3>1, <3>2, <3>3, <3>4
  <2>6. CASE UNCHANGED <<cache, raised, forgotten>>
    BY <2>6 DEF IInv, RaisedInv, Age
  <2>7. CASE Cycle /\ ~Mark
    BY <2>6, <2>7 DEF Cycle, Scan, Load, SaveOpen, SaveFill, SaveFails, Quiet, Suppressed,
       Raise, Dump, Write, WriteFails, MkdirFails, Send, Wake
  <2> QED
    BY <2>1, <2>2, <2>3, <2>4, <2>5, <2>6, <2>7 DEF Next, vars
<1>3. MarkInv'
  <2>1. CASE Raise
    <3>1. AlertId(Drift) \notin DOMAIN cache
      BY <2>1, <1>s, AgeTyped DEF Raise, IsDebounced
    <3>2. AlertId(Drift) \in DOMAIN raised => AlertId(Drift) \in forgotten
      <4> SUFFICES ASSUME AlertId(Drift) \in DOMAIN raised, AlertId(Drift) \notin forgotten
                   PROVE  FALSE
        OBVIOUS
      <4>1. Age(cache, AlertId(Drift)) = Window
        BY <3>1 DEF Age
      <4>2. Window <= raised[AlertId(Drift)]
        BY <4>1 DEF IInv, RaisedInv
      <4> QED
        BY <4>2, <1>s, AlertsAssumption DEF Stamps, AlertsAssumption
    <3> QED
      BY <2>1, <3>2 DEF Raise, MarkInv
  <2>2. CASE Hup
    BY <2>2 DEF IInv, MarkInv, Hup
  <2>3. CASE Tick
    BY <2>3 DEF IInv, MarkInv, Tick, Older
  <2>4. CASE pc' # "mark"
    BY <2>4 DEF MarkInv
  <2>5. CASE UNCHANGED vars
    BY <2>5 DEF IInv, MarkInv, vars
  <2>6. CASE Start \/ End \/ (Cycle /\ ~Raise)
    BY <2>4, <2>6 DEF Start, End, Cycle, Scan, Load, SaveOpen, SaveFill, SaveFails, Quiet,
       Suppressed, Mark, Dump, Write, WriteFails, MkdirFails, Send, Wake
  <2> QED
    BY <2>1, <2>2, <2>3, <2>5, <2>6 DEF Next
<1>4. OffInv'
  <2>1. CASE Start \/ End
    BY <2>1 DEF OffInv, Start, End, NoStamps
  <2>2. CASE Cycle
    BY <2>2 DEF OffInv, Cycle, Scan, Load, SaveOpen, SaveFill, SaveFails, Quiet, Suppressed,
       Raise, Mark, Dump, Write, WriteFails, MkdirFails, Send, Wake
  <2>3. CASE Hup
    BY <2>3 DEF OffInv, Hup
  <2>4. CASE Tick
    BY <2>4 DEF IInv, OffInv, Tick, Older
  <2>5. CASE UNCHANGED vars
    BY <2>5 DEF IInv, OffInv, vars
  <2> QED
    BY <2>1, <2>2, <2>3, <2>4, <2>5 DEF Next
<1>5. AgreeInv'
  <2>1. CASE Start
    BY <2>1 DEF IInv, OffInv, AgreeInv, Start
  <2>2. CASE Scan \/ Load \/ SaveOpen \/ SaveFill \/ SaveFails
    BY <2>2 DEF IInv, AgreeInv, Scan, Load, SaveOpen, SaveFill, SaveFails
  <2>3. CASE Quiet \/ Suppressed \/ Raise
    BY <2>3 DEF IInv, AgreeInv, Quiet, Suppressed, Raise, Compared
  <2>4. CASE Mark \/ Dump \/ Write
    BY <2>4 DEF IInv, AgreeInv, Mark, Dump, Write
  <2>5. CASE WriteFails \/ MkdirFails \/ Send \/ Wake
    BY <2>5 DEF IInv, AgreeInv, WriteFails, MkdirFails, Send, Wake
  <2>6. CASE Hup
    <3> SUFFICES ASSUME ~spoiled' PROVE AgreeInv'
      BY DEF AgreeInv
    <3>1. ~spoiled /\ pc \notin Saving /\ pc # "off"
      BY <2>6 DEF Hup
    <3>2. cache = disk /\ forgotten = {}
      BY <3>1 DEF IInv, AgreeInv
    <3>3. \A i : ~(Age(disk, i) > Age(cache, i))
      BY <3>2, <1>s, AgeTyped, AlertsAssumption DEF AlertsAssumption
    <3>4. forgotten' = {}
      BY <2>6, <3>2, <3>3 DEF Hup
    <3> QED
      BY <2>6, <3>1, <3>4 DEF Hup, AgreeInv
  <2>7. CASE End
    BY <2>7 DEF AgreeInv, End
  <2>8. CASE Tick
    BY <2>8 DEF IInv, AgreeInv, Tick
  <2>9. CASE UNCHANGED vars
    BY <2>9 DEF IInv, AgreeInv, vars
  <2> QED
    BY <2>1, <2>2, <2>3, <2>4, <2>5, <2>6, <2>7, <2>8, <2>9 DEF Next, Cycle
<1> QED
  BY <1>t, <1>1, <1>2, <1>3, <1>4, <1>5 DEF IInv

LEMMA Invariant == Spec => []IInv
BY InitInv, InvStep, PTL DEF Spec

-----------------------------------------------------------------------------
\* Whatever the window, an alert is raised twice within it by one process
\* only when a reload of the cache dropped it in between.
THEOREM RepeatsSafe == Spec => RepeatsOnlyForgotten
<1>1. IInv /\ [Next]_vars => [Mark => alert \notin DOMAIN raised \/ alert \in forgotten]_vars
  BY DEF IInv, MarkInv, Mark
<1> QED
  BY <1>1, Invariant, PTL DEF Spec, RepeatsOnlyForgotten

\* A reload drops nothing unless a save failed or was under way.
THEOREM ForgetsSafe == Spec => []ForgetsOnlyUnsaved
<1>1. IInv => ForgetsOnlyUnsaved
  BY DEF IInv, AgreeInv, OffInv, ForgetsOnlyUnsaved
<1> QED
  BY <1>1, Invariant, PTL

\* A baseline that can be read is never replaced.
THEOREM BaselineSafe == Spec => BaselineKept
<1>1. IInv /\ [Next]_vars => [baseline # None => baseline' = baseline]_vars
  <2> SUFFICES ASSUME IInv, Next, baseline # None PROVE baseline' = baseline
    OBVIOUS
  <2>1. CASE SaveOpen \/ SaveFill
    BY <2>1 DEF IInv, BaselineInv, SaveOpen, SaveFill
  <2>2. CASE Start \/ Hup \/ End \/ Tick
    BY <2>2 DEF Start, Hup, End, Tick
  <2>3. CASE Cycle /\ ~SaveOpen /\ ~SaveFill
    BY <2>3 DEF Cycle, Scan, Load, SaveFails, Quiet, Suppressed, Raise, Mark, Dump, Write,
       WriteFails, MkdirFails, Send, Wake
  <2> QED
    BY <2>1, <2>2, <2>3 DEF Next
<1> QED
  BY <1>1, Invariant, PTL DEF Spec, BaselineKept
=============================================================================
