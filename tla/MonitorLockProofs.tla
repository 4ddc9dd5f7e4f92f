------------------------- MODULE MonitorLockProofs -------------------------
(***************************************************************************)
(* For any number of starts, stops and kills of the monitor: its types,    *)
(* what the lock and the PID file promise, and when two monitors may meet. *)
(***************************************************************************)
EXTENDS MonitorLock, TLAPS

\* A process has the file open from open() until stop() or exit closes it.
FdInv == \A d \in Daemons : fd[d] # None <=> pc[d] \in Holding \cup {"opened"}

\* Who is past flock() and has not let go holds the lock of its own inode,
\* and nobody else holds one.
HolderInv ==
  \A i, d \in Daemons : holder[i] = d <=> pc[d] \in Holding /\ fd[d] = i

\* As long as no open file was unlinked, all open files are the one at the path.
PathInv == undercut \/ \A d \in Daemons : fd[d] # None => fd[d] = path

FileInv == FdInv /\ HolderInv /\ PathInv
IInv    == TypeOK /\ FileInv /\ NamesHolder /\ LeftoverOnlyAfterKill

-----------------------------------------------------------------------------
LEMMA ReleaseTyped ==
  ASSUME TypeOK, NEW d \in Daemons, Release(d)
  PROVE  /\ holder' \in [Daemons -> Daemons \cup {None}]
         /\ \A i \in Daemons : holder'[i] = IF holder[i] = d THEN None ELSE holder[i]
BY DEF TypeOK, Release

\* What a signal does to a process that is alive.
LEMMA TermCases ==
  ASSUME NEW d \in Daemons, Term(d)
  PROVE  Die(d) \/ Handler(d)
BY DEF Term

LEMMA InitTyped == Init => TypeOK
BY MonitorAssumption DEF Init, TypeOK, Live, Holding, MonitorAssumption

\* Type correctness is inductive.
LEMMA TypeStep == TypeOK /\ [Next]_vars => TypeOK'
<1> SUFFICES ASSUME TypeOK, [Next]_vars PROVE TypeOK'
  OBVIOUS
<1> USE MonitorAssumption DEF MonitorAssumption
<1>d. ASSUME NEW d \in Daemons, Die(d), UNCHANGED <<stopper, target, undercut>> \/
             (/\ stopper' = "poll" /\ UNCHANGED <<target, undercut>> /\ target # None)
      PROVE  TypeOK'
  <2>1. holder' \in [Daemons -> Daemons \cup {None}]
    BY <1>d, ReleaseTyped DEF Die
  <2> QED
    BY <1>d, <2>1 DEF TypeOK, Die, Close, Goto, Live, Holding
<1>h. ASSUME NEW d \in Daemons, Handler(d), UNCHANGED <<stopper, target, undercut>> \/
             (/\ stopper' = "poll" /\ UNCHANGED <<target, undercut>> /\ target # None)
      PROVE  TypeOK'
  BY <1>h DEF TypeOK, Handler, file
<1>1. ASSUME NEW d \in Daemons, Step(d) PROVE TypeOK'
  <2>1. CASE Open(d)
    BY <2>1 DEF TypeOK, Open, Goto, Live, Holding
  <2>2. CASE Lock(d)
    BY <2>2 DEF TypeOK, Lock, Goto, Live, Holding
  <2>3. CASE Refused(d)
    BY <2>3 DEF TypeOK, Refused, Close, Goto, Live, Holding
  <2>4. CASE WritePid(d)
    BY <2>4 DEF TypeOK, WritePid, Goto, Live, Holding
  <2>5. CASE Register(d)
    BY <2>5 DEF TypeOK, Register, Goto, Live, Holding, file
  <2>6. CASE Run(d)
    BY <2>6 DEF TypeOK, Run, Goto, Live, Holding, file
  <2>7. CASE LoopEnd(d)
    BY <2>7 DEF TypeOK, LoopEnd, Goto, Live, Holding, file
  <2>8. CASE Unlock(d)
    <3>1. holder' \in [Daemons -> Daemons \cup {None}]
      BY <2>8, ReleaseTyped DEF Unlock
    <3> QED
      BY <2>8, <3>1 DEF TypeOK, Unlock, Close, Goto, Live, Holding
  <2>9. CASE Remove(d)
    BY <2>9 DEF TypeOK, Remove, Unlink, Goto, Live, Holding
  <2> QED
    BY <1>1, <2>1, <2>2, <2>3, <2>4, <2>5, <2>6, <2>7, <2>8, <2>9 DEF Step
<1>2. ASSUME NEW d \in Daemons, ServiceStop(d) PROVE TypeOK'
  BY <1>2, <1>d, <1>h, TermCases DEF ServiceStop
<1>3. ASSUME NEW d \in Daemons, Kill(d) PROVE TypeOK'
  BY <1>3, <1>d DEF Kill
<1>4. CASE Stop
  <2>1. CASE StopRead
    BY <2>1 DEF TypeOK, StopRead, file
  <2>2. CASE StopSignal
    <3>1. target \in Daemons
      BY <2>2 DEF StopSignal, TypeOK
    <3> QED
      BY <2>2, <3>1, <1>d, <1>h, TermCases DEF StopSignal
  <2>3. CASE StopSignalFails \/ StopSeesEnd \/ StopGivesUp
    BY <2>3 DEF TypeOK, StopSignalFails, StopSeesEnd, StopGivesUp, file
  <2>4. CASE StopUnlink
    BY <2>4 DEF TypeOK, StopUnlink, Unlink
  <2> QED
    BY <1>4, <2>1, <2>2, <2>3, <2>4 DEF Stop
<1>5. CASE UNCHANGED vars
  BY <1>5 DEF TypeOK, vars, file
<1> QED
  BY <1>1, <1>2, <1>3, <1>4, <1>5 DEF Next

\* The state of every monitor, of the file and of --stop keeps its type.
THEOREM TypeCorrect == Spec => []TypeOK
BY InitTyped, TypeStep, PTL DEF Spec

-----------------------------------------------------------------------------
(* Steps of one kind leave the file invariant alone for one reason.        *)

LEMMA InitInv == Init => IInv
<1> SUFFICES ASSUME Init PROVE IInv
  OBVIOUS
<1>1. TypeOK
  BY InitTyped
<1> QED
  BY <1>1, MonitorAssumption
  DEF Init, IInv, FileInv, FdInv, HolderInv, PathInv, NamesHolder,
      LeftoverOnlyAfterKill, Holding, MonitorAssumption

\* A process moves on without touching the file or its lock.
LEMMA MoveKeeps ==
  ASSUME IInv, TypeOK', NEW d \in Daemons, NEW from \in Holding, NEW to \in Holding,
         pc[d] = from, pc' = [pc EXCEPT ![d] = to], from # "locked", to # "locked",
         UNCHANGED <<file, killed, undercut>>
  PROVE  IInv'
<1> USE MonitorAssumption DEF MonitorAssumption, IInv, file, TypeOK
<1>1. FileInv'
  BY DEF FileInv, FdInv, HolderInv, PathInv
<1>2. NamesHolder'
  BY DEF NamesHolder
<1>3. LeftoverOnlyAfterKill'
  BY DEF LeftoverOnlyAfterKill, Alive, Live
<1> QED
  BY <1>1, <1>2, <1>3

\* A process dies: its lock is free, its file closed.
LEMMA DieKeeps ==
  ASSUME IInv, TypeOK', NEW d \in Daemons, Die(d), undercut' = undercut
  PROVE  IInv'
<1> USE MonitorAssumption DEF MonitorAssumption, IInv
<1>0. \A i \in Daemons : holder'[i] = IF holder[i] = d THEN None ELSE holder[i]
  BY ReleaseTyped DEF Die
<1>1. /\ fd' = [fd EXCEPT ![d] = None] /\ pc' = [pc EXCEPT ![d] = "gone"]
      /\ UNCHANGED <<path, content>> /\ d \in killed'
  BY DEF Die, Close, Goto
<1>2. FdInv'
  BY <1>1 DEF TypeOK, FileInv, FdInv, Holding
<1>3. HolderInv'
  BY <1>0, <1>1 DEF TypeOK, FileInv, HolderInv, Holding
<1>4. PathInv'
  BY <1>1 DEF TypeOK, FileInv, PathInv
<1>5. NamesHolder'
  BY <1>0, <1>1 DEF TypeOK, NamesHolder, FileInv, HolderInv, Holding
<1>6. LeftoverOnlyAfterKill'
  BY <1>1 DEF LeftoverOnlyAfterKill
<1> QED
  BY <1>2, <1>3, <1>4, <1>5, <1>6 DEF FileInv

\* The handler only clears self.running.
LEMMA HandlerKeeps ==
  ASSUME IInv, TypeOK', NEW d \in Daemons, Handler(d), undercut' = undercut
  PROVE  IInv'
BY DEF IInv, Handler, file, FileInv, FdInv, HolderInv, PathInv, NamesHolder,
       LeftoverOnlyAfterKill, Alive

\* The path is unlinked: by a process that has closed the file, or by --stop.
LEMMA UnlinkKeeps ==
  ASSUME IInv, Unlink, UNCHANGED <<content, holder, fd>>
  PROVE  PathInv' /\ LeftoverOnlyAfterKill'
<1> USE MonitorAssumption DEF MonitorAssumption, IInv
<1>1. PathInv'
  BY DEF TypeOK, FileInv, PathInv, Unlink
<1>2. LeftoverOnlyAfterKill'
  BY DEF Unlink, LeftoverOnlyAfterKill
<1> QED
  BY <1>1, <1>2

\* The inductive invariant is kept by every step.
LEMMA InvStep == IInv /\ [Next]_vars => IInv'
<1> SUFFICES ASSUME IInv, [Next]_vars PROVE IInv'
  OBVIOUS
<1> USE MonitorAssumption DEF MonitorAssumption
<1>t. TypeOK /\ TypeOK'
  BY TypeStep DEF IInv
<1>1. ASSUME NEW d \in Daemons, Step(d) PROVE IInv'
  <2>1. CASE Open(d)
    <3> DEFINE inode == IF path = None THEN d ELSE path
    <3>1. /\ pc[d] = "new" /\ fd[d] = None /\ inode \in Daemons /\ path' = inode
          /\ content' = [content EXCEPT ![inode] = None]
          /\ fd' = [fd EXCEPT ![d] = inode] /\ pc' = [pc EXCEPT ![d] = "opened"]
          /\ UNCHANGED <<holder, killed, undercut>>
      BY <2>1, <1>t DEF Open, Goto, TypeOK, IInv, FileInv, FdInv, Holding
    <3> HIDE DEF inode
    <3>2. FdInv' /\ HolderInv'
      BY <3>1, <1>t DEF TypeOK, IInv, FileInv, FdInv, HolderInv, Holding
    <3>3. PathInv'
      BY <3>1, <1>t DEF TypeOK, IInv, FileInv, PathInv, inode
    <3>4. NamesHolder'
      BY <3>1, <1>t DEF TypeOK, IInv, FileInv, HolderInv, NamesHolder, Holding
    <3>5. LeftoverOnlyAfterKill'
      BY <3>1, <1>t DEF TypeOK, LeftoverOnlyAfterKill, Alive, Live
    <3> QED
      BY <1>t, <3>2, <3>3, <3>4, <3>5 DEF IInv, FileInv
  <2>2. CASE Lock(d)
    <3>1. /\ pc[d] = "opened" /\ fd[d] \in Daemons /\ holder[fd[d]] = None
          /\ holder' = [holder EXCEPT ![fd[d]] = d]
          /\ pc' = [pc EXCEPT ![d] = "locked"]
          /\ UNCHANGED <<path, content, fd, killed, undercut>>
      BY <2>2, <1>t DEF Lock, Goto, TypeOK, IInv, FileInv, FdInv
    <3>2. FileInv'
      BY <3>1, <1>t DEF TypeOK, IInv, FileInv, FdInv, HolderInv, PathInv, Holding
    <3>3. NamesHolder'
      BY <3>1, <1>t DEF TypeOK, IInv, FileInv, HolderInv, NamesHolder, Holding
    <3>4. LeftoverOnlyAfterKill'
      BY <3>1, <1>t DEF TypeOK, LeftoverOnlyAfterKill, Alive, Live, Holding
    <3> QED
      BY <1>t, <3>2, <3>3, <3>4 DEF IInv
  <2>3. CASE Refused(d)
    <3>1. /\ pc[d] = "opened" /\ fd[d] \in Daemons /\ holder[fd[d]] # None
          /\ fd' = [fd EXCEPT ![d] = None] /\ pc' = [pc EXCEPT ![d] = "gone"]
          /\ UNCHANGED <<path, content, holder, killed, undercut>>
      BY <2>3, <1>t DEF Refused, Close, Goto, TypeOK, IInv, FileInv, FdInv
    <3>2. FileInv'
      BY <3>1, <1>t DEF TypeOK, IInv, FileInv, FdInv, HolderInv, PathInv, Holding
    <3>3. NamesHolder'
      BY <3>1, <1>t DEF TypeOK, IInv, FileInv, HolderInv, NamesHolder, Holding
    <3>4. PICK e \in Daemons : e # d /\ pc[e] \in Holding
      BY <3>1, <1>t DEF TypeOK, IInv, FileInv, HolderInv, Holding
    <3>5. LeftoverOnlyAfterKill'
      BY <3>1, <3>4, <1>t DEF TypeOK, LeftoverOnlyAfterKill, Alive, Live
    <3> QED
      BY <1>t, <3>2, <3>3, <3>5 DEF IInv
  <2>4. CASE WritePid(d)
    <3>1. /\ pc[d] = "locked" /\ fd[d] \in Daemons /\ holder[fd[d]] = d
          /\ content' = [content EXCEPT ![fd[d]] = d]
          /\ pc' = [pc EXCEPT ![d] = "written"]
          /\ UNCHANGED <<path, holder, fd, killed, undercut>>
      BY <2>4, <1>t DEF WritePid, Goto, TypeOK, IInv, FileInv, FdInv, HolderInv, Holding
    <3>2. FileInv'
      BY <3>1, <1>t DEF TypeOK, IInv, FileInv, FdInv, HolderInv, PathInv, Holding
    <3>3. NamesHolder'
      BY <3>1, <1>t DEF TypeOK, IInv, FileInv, HolderInv, NamesHolder, Holding
    <3>4. LeftoverOnlyAfterKill'
      BY <3>1, <1>t DEF TypeOK, IInv, LeftoverOnlyAfterKill, Alive, Live, Holding
    <3> QED
      BY <1>t, <3>2, <3>3, <3>4 DEF IInv
  <2>5. CASE Register(d)
    BY <2>5, <1>t, MoveKeeps DEF Register, Goto, Holding, IInv, file
  <2>6. CASE Run(d)
    BY <2>6, <1>t, MoveKeeps DEF Run, Goto, Holding, IInv, file
  <2>7. CASE LoopEnd(d)
    BY <2>7, <1>t, MoveKeeps DEF LoopEnd, Goto, Holding, IInv, file
  <2>8. CASE Unlock(d)
    <3>0. \A i \in Daemons : holder'[i] = IF holder[i] = d THEN None ELSE holder[i]
      BY <2>8, <1>t, ReleaseTyped DEF Unlock
    <3>1. /\ fd' = [fd EXCEPT ![d] = None] /\ pc' = [pc EXCEPT ![d] = "remove"]
          /\ UNCHANGED <<path, content, killed, undercut>>
      BY <2>8 DEF Unlock, Close, Goto
    <3>2. FileInv'
      BY <3>0, <3>1, <1>t DEF TypeOK, IInv, FileInv, FdInv, HolderInv, PathInv, Holding
    <3>3. NamesHolder'
      BY <3>0, <3>1, <1>t DEF TypeOK, IInv, FileInv, HolderInv, NamesHolder, Holding
    <3>4. LeftoverOnlyAfterKill'
      BY <3>1, <1>t DEF TypeOK, LeftoverOnlyAfterKill, Alive, Live
    <3> QED
      BY <1>t, <3>2, <3>3, <3>4 DEF IInv
  <2>9. CASE Remove(d)
    <3>1. /\ pc[d] = "remove" /\ pc' = [pc EXCEPT ![d] = "gone"] /\ Unlink
          /\ UNCHANGED <<content, holder, fd>>
      BY <2>9 DEF Remove, Goto
    <3>2. FdInv' /\ HolderInv'
      BY <3>1, <1>t DEF TypeOK, IInv, FileInv, FdInv, HolderInv, Holding
    <3>3. NamesHolder'
      BY <3>1, <1>t DEF TypeOK, IInv, FileInv, HolderInv, NamesHolder, Holding
    <3> QED
      BY <1>t, <3>1, <3>2, <3>3, UnlinkKeeps DEF IInv, FileInv
  <2> QED
    BY <1>1, <2>1, <2>2, <2>3, <2>4, <2>5, <2>6, <2>7, <2>8, <2>9 DEF Step
<1>2. ASSUME NEW d \in Daemons, ServiceStop(d) PROVE IInv'
  BY <1>2, <1>t, TermCases, DieKeeps, HandlerKeeps DEF ServiceStop
<1>3. ASSUME NEW d \in Daemons, Kill(d) PROVE IInv'
  BY <1>3, <1>t, DieKeeps DEF Kill
<1>4. CASE Stop
  <2>1. CASE StopRead \/ StopSignalFails \/ StopSeesEnd \/ StopGivesUp
    BY <2>1, <1>t
    DEF IInv, StopRead, StopSignalFails, StopSeesEnd, StopGivesUp, file, FileInv,
        FdInv, HolderInv, PathInv, NamesHolder, LeftoverOnlyAfterKill, Alive
  <2>2. CASE StopSignal
    <3>1. target \in Daemons
      BY <2>2, <1>t DEF StopSignal, TypeOK
    <3> QED
      BY <2>2, <3>1, <1>t, TermCases, DieKeeps, HandlerKeeps DEF StopSignal
  <2>3. CASE StopUnlink
    <3>1. Unlink /\ UNCHANGED <<content, holder, fd, pc>>
      BY <2>3 DEF StopUnlink
    <3>2. FdInv' /\ HolderInv' /\ NamesHolder'
      BY <3>1 DEF IInv, FileInv, FdInv, HolderInv, NamesHolder
    <3> QED
      BY <1>t, <3>1, <3>2, UnlinkKeeps DEF IInv, FileInv
  <2> QED
    BY <1>4, <2>1, <2>2, <2>3 DEF Stop
<1>5. CASE UNCHANGED vars
  BY <1>5, <1>t DEF IInv, vars, file, FileInv, FdInv, HolderInv, PathInv, NamesHolder,
                    LeftoverOnlyAfterKill, Alive
<1> QED
  BY <1>1, <1>2, <1>3, <1>4, <1>5 DEF Next

\* The file, its locks and the open files agree in every state.
THEOREM Inductive == Spec => []IInv
BY InitInv, InvStep, PTL DEF Spec

\* Two monitors run at once only after the PID file was unlinked while a
\* process had it open, for any number of starts, stops and kills.
THEOREM ExclusiveSafe == Spec => []ExclusiveUnlessUnlinked
<1>1. ASSUME IInv, undercut # TRUE, NEW d \in Daemons, NEW e \in Daemons,
             Monitoring(d), Monitoring(e)
      PROVE  d = e
  <2>1. fd[d] \in Daemons /\ fd[e] \in Daemons /\ fd[d] = path /\ fd[e] = path
    BY <1>1, MonitorAssumption
    DEF MonitorAssumption, IInv, TypeOK, FileInv, FdInv, PathInv, Holding, Monitoring
  <2>2. holder[path] = d /\ holder[path] = e
    BY <1>1, <2>1 DEF IInv, FileInv, HolderInv, Holding, Monitoring
  <2> QED
    BY <2>2
<1>2. IInv => ExclusiveUnlessUnlinked
  BY <1>1 DEF ExclusiveUnlessUnlinked, MutualExclusion, IInv, TypeOK
<1> QED
  BY <1>2, Inductive, PTL

\* What --stop reads from the file of a monitor that has written its id is
\* that id, or nothing.
THEOREM NamesHolderSafe == Spec => []NamesHolder
<1>1. IInv => NamesHolder
  BY DEF IInv
<1> QED
  BY <1>1, Inductive, PTL

\* A PID file without a live process is left by a killed process only.
THEOREM LeftoverSafe == Spec => []LeftoverOnlyAfterKill
<1>1. IInv => LeftoverOnlyAfterKill
  BY DEF IInv
<1> QED
  BY <1>1, Inductive, PTL

=============================================================================
