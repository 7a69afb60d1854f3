----------------------- MODULE ExecutionRegistryProofs -----------------------
(***************************************************************************)
(* Proofs that the registry keeps its safety properties for any number of  *)
(* dispatches, release groups, callers of Drain, barriers and snapshots.   *)
(* Each part of the inductive invariant has a lemma, with one step for     *)
(* every action that can disturb it; the frame lemmas dispose of the rest. *)
(***************************************************************************)
EXTENDS ExecutionRegistry, TLAPS

(* Only the owners of dispatches move tokens and count releases. *)
LEMMA TokenFrame ==
    ASSUME Next
    PROVE  \/ UNCHANGED <<mu, next, pending, scopes, pc, spec, releaseSeq, rel>>
           \/ \E t \in Token : Owner(t)
  BY DEF Next, DrainStep, CloseStep, ownerVars, releaseVars, drainVars,
         closeVars, barrierVars, closeResource, SetReleaseSink, ReplaySink,
         Drain, DrainCopy, DrainClose, DrainClosed, DrainCheck, DrainTimeout,
         WaitPending, WaitPendingTimeout, Close, CloseSwitch, CloseCopy,
         CloseStart, CloseWaited, CloseDone, ObserveBarrier, FreezeInFlight,
         startBoundResourceClose

(* Resources change hands with their owner, or by one of three other steps. *)
LEMMA ResourceFrame ==
    ASSUME Next
    PROVE  \/ UNCHANGED <<res, pc>>
           \/ \E t \in Token : Owner(t)
           \/ \E t \in Token : closeResource(t)
           \/ \E d \in Drainers : \E t \in Token : DrainClose(d, t)
           \/ \E t \in Token : CloseStart(t)
  BY DEF Next, DrainStep, CloseStep, ownerVars, releaseVars, drainVars,
         closeVars, barrierVars, SetReleaseSink, ReplaySink, Drain, DrainCopy,
         DrainClosed, DrainCheck, DrainTimeout, WaitPending,
         WaitPendingTimeout, Close, CloseSwitch, CloseCopy, CloseWaited,
         CloseDone, ObserveBarrier, FreezeInFlight, startBoundResourceClose

(* The release state changes with an owner, or with the sink. *)
LEMMA SinkFrame ==
    ASSUME Next
    PROVE  \/ UNCHANGED <<spec, rel, live, sink, releaseSeq, handed, replay, pc, scopes>>
           \/ \E t \in Token : Owner(t)
           \/ \E on \in BOOLEAN : SetReleaseSink(on)
           \/ \E r \in replay : ReplaySink(r[1], r[2])
  BY DEF Next, DrainStep, CloseStep, ownerVars, releaseVars, drainVars,
         closeVars, barrierVars, closeResource, Drain, DrainCopy, DrainClose,
         DrainClosed, DrainCheck, DrainTimeout, WaitPending,
         WaitPendingTimeout, Close, CloseSwitch, CloseCopy, CloseStart,
         CloseWaited, CloseDone, ObserveBarrier, FreezeInFlight,
         startBoundResourceClose

(* The shutdown state changes with an owner, which may hold r.mu and signal, or in Drain and Close. *)
LEMMA ShutdownFrame ==
    ASSUME Next
    PROVE  \/ UNCHANGED <<state, mu, drain, drainSet, closer, closeSet>>
           \/ \E t \in Token : Owner(t)
           \/ \E d \in Drainers : Drain(d)
           \/ \E d \in Drainers : DrainCopy(d)
           \/ \E d \in Drainers : \E t \in Token : DrainClose(d, t)
           \/ \E d \in Drainers : DrainClosed(d)
           \/ \E d \in Drainers : DrainCheck(d)
           \/ \E d \in Drainers : DrainTimeout(d)
           \/ Close
           \/ CloseSwitch
           \/ CloseCopy
           \/ \E t \in Token : CloseStart(t)
           \/ \E t \in Token : CloseWaited(t)
           \/ CloseDone
  BY DEF Next, DrainStep, CloseStep, ownerVars, releaseVars, drainVars,
         closeVars, barrierVars, closeResource, SetReleaseSink, ReplaySink,
         WaitPending, WaitPendingTimeout, ObserveBarrier, FreezeInFlight,
         startBoundResourceClose

(* The sleepers, and what they wait for, change in these steps only. *)
LEMMA WakeupFrame ==
    ASSUME Next
    PROVE  \/ UNCHANGED <<drain, waiter, pending, scopes>>
           \/ \E t \in Token : Owner(t)
           \/ \E d \in Drainers : Drain(d)
           \/ \E d \in Drainers : DrainCopy(d)
           \/ \E d \in Drainers : \E t \in Token : DrainClose(d, t)
           \/ \E d \in Drainers : DrainClosed(d)
           \/ \E d \in Drainers : DrainCheck(d)
           \/ \E d \in Drainers : DrainTimeout(d)
           \/ WaitPending
           \/ WaitPendingTimeout
  BY DEF Next, DrainStep, CloseStep, ownerVars, releaseVars, drainVars,
         closeVars, barrierVars, closeResource, SetReleaseSink, ReplaySink,
         Close, CloseSwitch, CloseCopy, CloseStart, CloseWaited, CloseDone,
         ObserveBarrier, FreezeInFlight, startBoundResourceClose

(* The barriers, and the reservations they wait for, change in these steps only. *)
LEMMA BarrierFrame ==
    ASSUME Next
    PROVE  \/ UNCHANGED <<next, pending, observedBarrier, pendingBarrierSequence, publishedBarrier, observedAt>>
           \/ \E t \in Token : BeginDispatchInsert(t)
           \/ \E t \in Token : PendingEnd(t)
           \/ \E t \in Token : InstallRefused(t)
           \/ \E g \in Groups \cup {Unaccounted} : \E t \in Token : InstallCommit(t, g)
           \/ \E b \in 1..MaxBarrier : ObserveBarrier(b)
           \/ FreezeInFlight
  BY DEF Next, DrainStep, CloseStep, ownerVars, releaseVars, drainVars,
         closeVars, barrierVars, BeginDispatch, Install, BindRefused, Bind,
         BindCommit, EndWithRelease, EndClose, markReleasedLocked, EndSink,
         EndDelete, closeResource, SetReleaseSink, ReplaySink, Drain,
         DrainCopy, DrainClose, DrainClosed, DrainCheck, DrainTimeout,
         WaitPending, WaitPendingTimeout, Close, CloseSwitch, CloseCopy,
         CloseStart, CloseWaited, CloseDone, Owner, signalLocked,
         startBoundResourceClose

(* Releases are counted by the mark, in the group that Install set. *)
LEMMA ReleaseFrame ==
    ASSUME Next
    PROVE  \/ UNCHANGED <<spec, rel, releaseSeq>>
           \/ \E g \in Groups \cup {Unaccounted} : \E t \in Token : InstallCommit(t, g)
           \/ \E t \in Token : markReleasedLocked(t)
  BY DEF Next, DrainStep, CloseStep, ownerVars, releaseVars, drainVars,
         closeVars, barrierVars, BeginDispatch, BeginDispatchInsert,
         PendingEnd, InstallRefused, Install, BindRefused, Bind, BindCommit,
         EndWithRelease, EndClose, EndSink, EndDelete, closeResource,
         SetReleaseSink, ReplaySink, Drain, DrainCopy, DrainClose,
         DrainClosed, DrainCheck, DrainTimeout, WaitPending,
         WaitPendingTimeout, Close, CloseSwitch, CloseCopy, CloseStart,
         CloseWaited, CloseDone, ObserveBarrier, FreezeInFlight, Owner,
         signalLocked, startBoundResourceClose

(* Every step keeps the types. *)
LEMMA TypeStep ==
    ASSUME TypeOK, NumberInv, Next
    PROVE  TypeOK'
<1> USE DEF TypeOK, Token, Free, Phases, Resource, Sequence, ownerVars,
            releaseVars, drainVars, closeVars, barrierVars
<1>1. ASSUME NEW t \in Token, BeginDispatch(t)
      PROVE  TypeOK'
  BY <1>1 DEF BeginDispatch
<1>2. ASSUME NEW t \in Token, BeginDispatchInsert(t)
      PROVE  TypeOK'
  <2>1. next' \in 0..MaxDispatch /\ pending' \in SUBSET Token
    BY <1>2 DEF BeginDispatchInsert
  <2>2. pc' \in [Token -> Phases]
    BY <1>2 DEF BeginDispatchInsert
  <2> QED BY <1>2, <2>1, <2>2 DEF BeginDispatchInsert
<1>3. ASSUME NEW t \in Token, PendingEnd(t)
      PROVE  TypeOK'
  BY <1>3 DEF PendingEnd, signalLocked
<1>4. ASSUME NEW t \in Token, InstallRefused(t)
      PROVE  TypeOK'
  BY <1>4 DEF InstallRefused, signalLocked
<1>5. ASSUME NEW t \in Token, Install(t)
      PROVE  TypeOK'
  BY <1>5 DEF Install
<1>6. ASSUME NEW g \in Groups \cup {Unaccounted}, NEW t \in Token,
             InstallCommit(t, g)
      PROVE  TypeOK'
  BY <1>6 DEF InstallCommit, signalLocked
<1>7. ASSUME NEW t \in Token, BindRefused(t)
      PROVE  TypeOK'
  BY <1>7 DEF BindRefused
<1>8. ASSUME NEW t \in Token, Bind(t)
      PROVE  TypeOK'
  BY <1>8 DEF Bind
<1>9. ASSUME NEW t \in Token, BindCommit(t)
      PROVE  TypeOK'
  BY <1>9 DEF BindCommit
<1>10. ASSUME NEW t \in Token, EndWithRelease(t)
      PROVE  TypeOK'
  BY <1>10 DEF EndWithRelease
<1>11. ASSUME NEW t \in Token, EndClose(t)
      PROVE  TypeOK'
  BY <1>11 DEF EndClose, startBoundResourceClose
<1>12. ASSUME NEW t \in Token, markReleasedLocked(t)
      PROVE  TypeOK'
  <2>1. releaseSeq' \in [Groups -> Nat] /\ rel' \in [Token -> Nat]
    <3>1. CASE spec[t] \in Groups
      BY <1>12, <3>1 DEF markReleasedLocked
    <3>2. CASE spec[t] \notin Groups
      BY <1>12, <3>2 DEF markReleasedLocked
    <3> QED BY <3>1, <3>2
  <2>2. live' \in [Token -> BOOLEAN]
    BY <1>12 DEF markReleasedLocked
  <2>3. pc' \in [Token -> Phases]
    BY <1>12 DEF markReleasedLocked
  <2> QED BY <1>12, <2>1, <2>2, <2>3 DEF markReleasedLocked
<1>13. ASSUME NEW t \in Token, EndSink(t)
      PROVE  TypeOK'
  <2>1. handed' \in SUBSET (Groups \X Sequence)
    BY <1>13 DEF EndSink, NumberInv
  <2>2. pc' \in [Token -> Phases]
    BY <1>13 DEF EndSink
  <2> QED BY <1>13, <2>1, <2>2 DEF EndSink
<1>14. ASSUME NEW t \in Token, EndDelete(t)
      PROVE  TypeOK'
  BY <1>14 DEF EndDelete, signalLocked
<1>15. ASSUME NEW t \in Token, closeResource(t)
      PROVE  TypeOK'
  BY <1>15 DEF closeResource
<1>16. ASSUME NEW on \in BOOLEAN, SetReleaseSink(on)
      PROVE  TypeOK'
  BY <1>16 DEF SetReleaseSink
<1>17. ASSUME NEW r \in replay, ReplaySink(r[1], r[2])
      PROVE  TypeOK'
  BY <1>17 DEF ReplaySink
<1>18. ASSUME NEW d \in Drainers, Drain(d)
      PROVE  TypeOK'
  BY <1>18 DEF Drain
<1>19. ASSUME NEW d \in Drainers, DrainCopy(d)
      PROVE  TypeOK'
  BY <1>19 DEF DrainCopy
<1>20. ASSUME NEW d \in Drainers, NEW t \in Token, DrainClose(d, t)
      PROVE  TypeOK'
  BY <1>20 DEF DrainClose, startBoundResourceClose
<1>21. ASSUME NEW d \in Drainers, DrainClosed(d)
      PROVE  TypeOK'
  BY <1>21 DEF DrainClosed
<1>22. ASSUME NEW d \in Drainers, DrainCheck(d)
      PROVE  TypeOK'
  BY <1>22 DEF DrainCheck
<1>23. ASSUME NEW d \in Drainers, DrainTimeout(d)
      PROVE  TypeOK'
  BY <1>23 DEF DrainTimeout
<1>24. CASE WaitPending
  BY <1>24 DEF WaitPending
<1>25. CASE WaitPendingTimeout
  BY <1>25 DEF WaitPendingTimeout
<1>26. CASE Close
  BY <1>26 DEF Close
<1>27. CASE CloseSwitch
  BY <1>27 DEF CloseSwitch
<1>28. CASE CloseCopy
  BY <1>28 DEF CloseCopy
<1>29. ASSUME NEW t \in Token, CloseStart(t)
      PROVE  TypeOK'
  BY <1>29 DEF CloseStart, startBoundResourceClose
<1>30. ASSUME NEW t \in Token, CloseWaited(t)
      PROVE  TypeOK'
  BY <1>30 DEF CloseWaited, BoundResourceClosed
<1>31. CASE CloseDone
  BY <1>31 DEF CloseDone
<1>32. ASSUME NEW b \in 1..MaxBarrier, ObserveBarrier(b)
      PROVE  TypeOK'
  <2>1. observedBarrier' \in 0..MaxBarrier /\ pendingBarrierSequence' \in 0..MaxDispatch
    BY <1>32 DEF ObserveBarrier
  <2>2. observedAt' \in [0..MaxBarrier -> 0..MaxDispatch]
    BY <1>32 DEF ObserveBarrier
  <2> QED BY <1>32, <2>1, <2>2 DEF ObserveBarrier
<1>33. CASE FreezeInFlight
  <2>1. publishedBarrier' \in 0..MaxBarrier /\ snapshotRevision' \in 0..MaxRevision
    BY <1>33, RegistryAssumption DEF FreezeInFlight, PublishableBarrier
  <2>2. frozen' \in [barrier : 0..MaxBarrier, executions : SUBSET Token]
    BY <1>33 DEF FreezeInFlight, PublishableBarrier
  <2> QED BY <1>33, <2>1, <2>2 DEF FreezeInFlight
<1> QED
  BY <1>1, <1>2, <1>3, <1>4, <1>5, <1>6, <1>7, <1>8, <1>9, <1>10, <1>11,
     <1>12, <1>13, <1>14, <1>15, <1>16, <1>17, <1>18, <1>19, <1>20, <1>21,
     <1>22, <1>23, <1>24, <1>25, <1>26, <1>27, <1>28, <1>29, <1>30, <1>31,
     <1>32, <1>33 DEF Next, Owner, DrainStep, CloseStep

(* Every step keeps r.mu with the owner inside a critical section. *)
LEMMA MutexStep ==
    ASSUME TypeOK, MutexInv, Next
    PROVE  MutexInv'
<1> USE DEF TypeOK, Token, Free, Phases, ownerVars, releaseVars, drainVars,
            closeVars, barrierVars, Locked
<1>1. ASSUME NEW t \in Token, BeginDispatch(t)
      PROVE  MutexInv'
  BY <1>1 DEF BeginDispatch, MutexInv
<1>2. ASSUME NEW t \in Token, BeginDispatchInsert(t)
      PROVE  MutexInv'
  BY <1>2 DEF BeginDispatchInsert, MutexInv
<1>3. ASSUME NEW t \in Token, PendingEnd(t)
      PROVE  MutexInv'
  BY <1>3 DEF PendingEnd, signalLocked, MutexInv
<1>4. ASSUME NEW t \in Token, InstallRefused(t)
      PROVE  MutexInv'
  BY <1>4 DEF InstallRefused, signalLocked, MutexInv
<1>5. ASSUME NEW t \in Token, Install(t)
      PROVE  MutexInv'
  BY <1>5 DEF Install, MutexInv
<1>6. ASSUME NEW g \in Groups \cup {Unaccounted}, NEW t \in Token,
             InstallCommit(t, g)
      PROVE  MutexInv'
  BY <1>6 DEF InstallCommit, signalLocked, MutexInv
<1>7. ASSUME NEW t \in Token, BindRefused(t)
      PROVE  MutexInv'
  BY <1>7 DEF BindRefused, MutexInv
<1>8. ASSUME NEW t \in Token, Bind(t)
      PROVE  MutexInv'
  BY <1>8 DEF Bind, MutexInv
<1>9. ASSUME NEW t \in Token, BindCommit(t)
      PROVE  MutexInv'
  BY <1>9 DEF BindCommit, MutexInv
<1>10. ASSUME NEW t \in Token, EndWithRelease(t)
      PROVE  MutexInv'
  BY <1>10 DEF EndWithRelease, MutexInv
<1>11. ASSUME NEW t \in Token, EndClose(t)
      PROVE  MutexInv'
  BY <1>11 DEF EndClose, startBoundResourceClose, MutexInv
<1>12. ASSUME NEW t \in Token, markReleasedLocked(t)
      PROVE  MutexInv'
  BY <1>12 DEF markReleasedLocked, BoundResourceClosed, MutexInv
<1>13. ASSUME NEW t \in Token, EndSink(t)
      PROVE  MutexInv'
  BY <1>13 DEF EndSink, MutexInv
<1>14. ASSUME NEW t \in Token, EndDelete(t)
      PROVE  MutexInv'
  BY <1>14 DEF EndDelete, signalLocked, MutexInv
<1>15. CASE UNCHANGED <<mu, next, pending, scopes, pc, spec, releaseSeq, rel>>
  BY <1>15 DEF MutexInv
<1> QED
  BY <1>1, <1>2, <1>3, <1>4, <1>5, <1>6, <1>7, <1>8, <1>9, <1>10, <1>11,
     <1>12, <1>13, <1>14, <1>15, TokenFrame DEF Next, Owner, DrainStep, CloseStep

(* Every step keeps the drawn tokens 1..next. *)
LEMMA DrawnStep ==
    ASSUME TypeOK, MutexInv, DrawnInv, Next
    PROVE  DrawnInv'
<1> USE DEF TypeOK, Token, Free, Phases, ownerVars, releaseVars, drainVars,
            closeVars, barrierVars, Locked
<1>1. ASSUME NEW t \in Token, BeginDispatch(t)
      PROVE  DrawnInv'
  BY <1>1 DEF BeginDispatch, DrawnInv, MutexInv
<1>2. ASSUME NEW t \in Token, BeginDispatchInsert(t)
      PROVE  DrawnInv'
  BY <1>2 DEF BeginDispatchInsert, DrawnInv, MutexInv
<1>3. ASSUME NEW t \in Token, PendingEnd(t)
      PROVE  DrawnInv'
  BY <1>3 DEF PendingEnd, signalLocked, DrawnInv, MutexInv
<1>4. ASSUME NEW t \in Token, InstallRefused(t)
      PROVE  DrawnInv'
  BY <1>4 DEF InstallRefused, signalLocked, DrawnInv, MutexInv
<1>5. ASSUME NEW t \in Token, Install(t)
      PROVE  DrawnInv'
  BY <1>5 DEF Install, DrawnInv, MutexInv
<1>6. ASSUME NEW g \in Groups \cup {Unaccounted}, NEW t \in Token,
             InstallCommit(t, g)
      PROVE  DrawnInv'
  BY <1>6 DEF InstallCommit, signalLocked, DrawnInv, MutexInv
<1>7. ASSUME NEW t \in Token, BindRefused(t)
      PROVE  DrawnInv'
  BY <1>7 DEF BindRefused, DrawnInv, MutexInv
<1>8. ASSUME NEW t \in Token, Bind(t)
      PROVE  DrawnInv'
  BY <1>8 DEF Bind, DrawnInv, MutexInv
<1>9. ASSUME NEW t \in Token, BindCommit(t)
      PROVE  DrawnInv'
  BY <1>9 DEF BindCommit, DrawnInv, MutexInv
<1>10. ASSUME NEW t \in Token, EndWithRelease(t)
      PROVE  DrawnInv'
  BY <1>10 DEF EndWithRelease, DrawnInv, MutexInv
<1>11. ASSUME NEW t \in Token, EndClose(t)
      PROVE  DrawnInv'
  BY <1>11 DEF EndClose, startBoundResourceClose, DrawnInv, MutexInv
<1>12. ASSUME NEW t \in Token, markReleasedLocked(t)
      PROVE  DrawnInv'
  BY <1>12 DEF markReleasedLocked, BoundResourceClosed, DrawnInv, MutexInv
<1>13. ASSUME NEW t \in Token, EndSink(t)
      PROVE  DrawnInv'
  BY <1>13 DEF EndSink, DrawnInv, MutexInv
<1>14. ASSUME NEW t \in Token, EndDelete(t)
      PROVE  DrawnInv'
  BY <1>14 DEF EndDelete, signalLocked, DrawnInv, MutexInv
<1>15. CASE UNCHANGED <<mu, next, pending, scopes, pc, spec, releaseSeq, rel>>
  BY <1>15 DEF DrawnInv, MutexInv
<1> QED
  BY <1>1, <1>2, <1>3, <1>4, <1>5, <1>6, <1>7, <1>8, <1>9, <1>10, <1>11,
     <1>12, <1>13, <1>14, <1>15, TokenFrame DEF Next, Owner, DrainStep, CloseStep

(* Every step keeps the maps in agreement with the owners. *)
LEMMA MapsStep ==
    ASSUME TypeOK, DrawnInv, MapsInv, Next
    PROVE  MapsInv'
<1> USE DEF TypeOK, Token, Free, Phases, ownerVars, releaseVars, drainVars,
            closeVars, barrierVars
<1>1. ASSUME NEW t \in Token, BeginDispatch(t)
      PROVE  MapsInv'
  BY <1>1 DEF BeginDispatch, MapsInv, InScope, DrawnInv
<1>2. ASSUME NEW t \in Token, BeginDispatchInsert(t)
      PROVE  MapsInv'
  BY <1>2 DEF BeginDispatchInsert, MapsInv, InScope, DrawnInv
<1>3. ASSUME NEW t \in Token, PendingEnd(t)
      PROVE  MapsInv'
  BY <1>3 DEF PendingEnd, signalLocked, MapsInv, InScope, DrawnInv
<1>4. ASSUME NEW t \in Token, InstallRefused(t)
      PROVE  MapsInv'
  BY <1>4 DEF InstallRefused, signalLocked, MapsInv, InScope, DrawnInv
<1>5. ASSUME NEW t \in Token, Install(t)
      PROVE  MapsInv'
  BY <1>5 DEF Install, MapsInv, InScope, DrawnInv
<1>6. ASSUME NEW g \in Groups \cup {Unaccounted}, NEW t \in Token,
             InstallCommit(t, g)
      PROVE  MapsInv'
  BY <1>6 DEF InstallCommit, signalLocked, MapsInv, InScope, DrawnInv
<1>7. ASSUME NEW t \in Token, BindRefused(t)
      PROVE  MapsInv'
  BY <1>7 DEF BindRefused, MapsInv, InScope, DrawnInv
<1>8. ASSUME NEW t \in Token, Bind(t)
      PROVE  MapsInv'
  BY <1>8 DEF Bind, MapsInv, InScope, DrawnInv
<1>9. ASSUME NEW t \in Token, BindCommit(t)
      PROVE  MapsInv'
  BY <1>9 DEF BindCommit, MapsInv, InScope, DrawnInv
<1>10. ASSUME NEW t \in Token, EndWithRelease(t)
      PROVE  MapsInv'
  BY <1>10 DEF EndWithRelease, MapsInv, InScope, DrawnInv
<1>11. ASSUME NEW t \in Token, EndClose(t)
      PROVE  MapsInv'
  BY <1>11 DEF EndClose, startBoundResourceClose, MapsInv, InScope, DrawnInv
<1>12. ASSUME NEW t \in Token, markReleasedLocked(t)
      PROVE  MapsInv'
  BY <1>12 DEF markReleasedLocked, BoundResourceClosed, MapsInv, InScope,
               DrawnInv
<1>13. ASSUME NEW t \in Token, EndSink(t)
      PROVE  MapsInv'
  BY <1>13 DEF EndSink, MapsInv, InScope, DrawnInv
<1>14. ASSUME NEW t \in Token, EndDelete(t)
      PROVE  MapsInv'
  BY <1>14 DEF EndDelete, signalLocked, MapsInv, InScope, DrawnInv
<1>15. CASE UNCHANGED <<mu, next, pending, scopes, pc, spec, releaseSeq, rel>>
  BY <1>15 DEF MapsInv, InScope, DrawnInv
<1> QED
  BY <1>1, <1>2, <1>3, <1>4, <1>5, <1>6, <1>7, <1>8, <1>9, <1>10, <1>11,
     <1>12, <1>13, <1>14, <1>15, TokenFrame DEF Next, Owner, DrainStep, CloseStep

(* Every step keeps ResourceInv. *)
LEMMA ResourceStep ==
    ASSUME TypeOK, DrawnInv, ResourceInv, Next
    PROVE  ResourceInv'
<1> USE DEF TypeOK, Token, Free, Phases, ownerVars, releaseVars, drainVars,
            closeVars, barrierVars, Resource
<1>1. ASSUME NEW t \in Token, BeginDispatch(t)
      PROVE  ResourceInv'
  <2>1. pc[t] \in {"idle", "beginning"}
    BY <1>1 DEF BeginDispatch, DrawnInv
  <2> QED BY <1>1, <2>1 DEF BeginDispatch, ResourceInv
<1>2. ASSUME NEW t \in Token, BeginDispatchInsert(t)
      PROVE  ResourceInv'
  BY <1>2 DEF BeginDispatchInsert, ResourceInv
<1>3. ASSUME NEW t \in Token, PendingEnd(t)
      PROVE  ResourceInv'
  BY <1>3 DEF PendingEnd, signalLocked, ResourceInv
<1>4. ASSUME NEW t \in Token, InstallRefused(t)
      PROVE  ResourceInv'
  BY <1>4 DEF InstallRefused, signalLocked, ResourceInv
<1>5. ASSUME NEW t \in Token, Install(t)
      PROVE  ResourceInv'
  BY <1>5 DEF Install, ResourceInv
<1>6. ASSUME NEW g \in Groups \cup {Unaccounted}, NEW t \in Token,
             InstallCommit(t, g)
      PROVE  ResourceInv'
  BY <1>6 DEF InstallCommit, signalLocked, ResourceInv
<1>7. ASSUME NEW t \in Token, BindRefused(t)
      PROVE  ResourceInv'
  BY <1>7 DEF BindRefused, ResourceInv
<1>8. ASSUME NEW t \in Token, Bind(t)
      PROVE  ResourceInv'
  BY <1>8 DEF Bind, ResourceInv
<1>9. ASSUME NEW t \in Token, BindCommit(t)
      PROVE  ResourceInv'
  BY <1>9 DEF BindCommit, ResourceInv
<1>10. ASSUME NEW t \in Token, EndWithRelease(t)
      PROVE  ResourceInv'
  BY <1>10 DEF EndWithRelease, ResourceInv
<1>11. ASSUME NEW t \in Token, EndClose(t)
      PROVE  ResourceInv'
  BY <1>11 DEF EndClose, startBoundResourceClose, ResourceInv
<1>12. ASSUME NEW t \in Token, markReleasedLocked(t)
      PROVE  ResourceInv'
  BY <1>12 DEF markReleasedLocked, BoundResourceClosed, ResourceInv
<1>13. ASSUME NEW t \in Token, EndSink(t)
      PROVE  ResourceInv'
  BY <1>13 DEF EndSink, ResourceInv
<1>14. ASSUME NEW t \in Token, EndDelete(t)
      PROVE  ResourceInv'
  BY <1>14 DEF EndDelete, signalLocked, ResourceInv
<1>15. ASSUME NEW t \in Token, closeResource(t)
      PROVE  ResourceInv'
  BY <1>15 DEF closeResource, ResourceInv
<1>16. ASSUME NEW d \in Drainers, NEW t \in Token, DrainClose(d, t)
      PROVE  ResourceInv'
  BY <1>16 DEF DrainClose, startBoundResourceClose, ResourceInv
<1>17. ASSUME NEW t \in Token, CloseStart(t)
      PROVE  ResourceInv'
  BY <1>17 DEF CloseStart, startBoundResourceClose, ResourceInv
<1>18. CASE UNCHANGED <<res, pc>>
  BY <1>18 DEF ResourceInv
<1> QED
  BY <1>1, <1>2, <1>3, <1>4, <1>5, <1>6, <1>7, <1>8, <1>9, <1>10, <1>11,
     <1>12, <1>13, <1>14, <1>15, <1>16, <1>17, <1>18, ResourceFrame DEF Next, Owner, DrainStep, CloseStep

(* Every step keeps NumberInv. *)
LEMMA NumberStep ==
    ASSUME TypeOK, DrawnInv, NumberInv, Next
    PROVE  NumberInv'
<1> USE DEF TypeOK, Token, Free, Phases, ownerVars, releaseVars, drainVars,
            closeVars, barrierVars
<1>1. ASSUME NEW t \in Token, BeginDispatch(t)
      PROVE  NumberInv'
  BY <1>1 DEF BeginDispatch, NumberInv, DrawnInv
<1>2. ASSUME NEW t \in Token, BeginDispatchInsert(t)
      PROVE  NumberInv'
  BY <1>2 DEF BeginDispatchInsert, NumberInv, DrawnInv
<1>3. ASSUME NEW t \in Token, PendingEnd(t)
      PROVE  NumberInv'
  BY <1>3 DEF PendingEnd, signalLocked, NumberInv, DrawnInv
<1>4. ASSUME NEW t \in Token, InstallRefused(t)
      PROVE  NumberInv'
  BY <1>4 DEF InstallRefused, signalLocked, NumberInv, DrawnInv
<1>5. ASSUME NEW t \in Token, Install(t)
      PROVE  NumberInv'
  BY <1>5 DEF Install, NumberInv, DrawnInv
<1>6. ASSUME NEW g \in Groups \cup {Unaccounted}, NEW t \in Token,
             InstallCommit(t, g)
      PROVE  NumberInv'
  BY <1>6 DEF InstallCommit, signalLocked, NumberInv, DrawnInv
<1>7. ASSUME NEW t \in Token, BindRefused(t)
      PROVE  NumberInv'
  BY <1>7 DEF BindRefused, NumberInv, DrawnInv
<1>8. ASSUME NEW t \in Token, Bind(t)
      PROVE  NumberInv'
  BY <1>8 DEF Bind, NumberInv, DrawnInv
<1>9. ASSUME NEW t \in Token, BindCommit(t)
      PROVE  NumberInv'
  BY <1>9 DEF BindCommit, NumberInv, DrawnInv
<1>10. ASSUME NEW t \in Token, EndWithRelease(t)
      PROVE  NumberInv'
  BY <1>10 DEF EndWithRelease, NumberInv, DrawnInv
<1>11. ASSUME NEW t \in Token, EndClose(t)
      PROVE  NumberInv'
  BY <1>11 DEF EndClose, startBoundResourceClose, NumberInv, DrawnInv
<1>12. ASSUME NEW t \in Token, markReleasedLocked(t)
      PROVE  NumberInv'
  <2>1. CASE spec[t] \in Groups
    <3>1. /\ rel' = [rel EXCEPT ![t] = releaseSeq[spec[t]] + 1]
          /\ live' = [live EXCEPT ![t] = sink]
          /\ pc' = [pc EXCEPT ![t] = "marked"]
          /\ spec' = spec /\ sink' = sink
      BY <1>12, <2>1 DEF markReleasedLocked
    <3>2. releaseSeq[spec[t]] + 1 > 0
      BY <2>1
    <3> QED BY <2>1, <3>1, <3>2 DEF NumberInv
  <2>2. CASE spec[t] \notin Groups
    BY <1>12, <2>2 DEF markReleasedLocked, NumberInv
  <2> QED BY <2>1, <2>2
<1>13. ASSUME NEW t \in Token, EndSink(t)
      PROVE  NumberInv'
  BY <1>13 DEF EndSink, NumberInv, DrawnInv
<1>14. ASSUME NEW t \in Token, EndDelete(t)
      PROVE  NumberInv'
  BY <1>14 DEF EndDelete, signalLocked, NumberInv, DrawnInv
<1>15. ASSUME NEW on \in BOOLEAN, SetReleaseSink(on)
      PROVE  NumberInv'
  BY <1>15 DEF SetReleaseSink, NumberInv, DrawnInv
<1>16. ASSUME NEW r \in replay, ReplaySink(r[1], r[2])
      PROVE  NumberInv'
  BY <1>16 DEF ReplaySink, NumberInv, DrawnInv
<1>17. CASE UNCHANGED <<spec, rel, live, sink, releaseSeq, handed, replay, pc, scopes>>
  BY <1>17 DEF NumberInv, DrawnInv
<1> QED
  BY <1>1, <1>2, <1>3, <1>4, <1>5, <1>6, <1>7, <1>8, <1>9, <1>10, <1>11,
     <1>12, <1>13, <1>14, <1>15, <1>16, <1>17, SinkFrame DEF Next, Owner, DrainStep, CloseStep

(* Every step keeps ShutInv. *)
LEMMA ShutStep ==
    ASSUME TypeOK, ShutInv, Next
    PROVE  ShutInv'
<1> USE DEF TypeOK, Token, Free, Phases, ownerVars, releaseVars, drainVars,
            closeVars, barrierVars
<1>1. ASSUME NEW t \in Token, BeginDispatch(t)
      PROVE  ShutInv'
  BY <1>1 DEF BeginDispatch, ShutInv, Copied
<1>2. ASSUME NEW t \in Token, BeginDispatchInsert(t)
      PROVE  ShutInv'
  BY <1>2 DEF BeginDispatchInsert, ShutInv, Copied
<1>3. ASSUME NEW t \in Token, PendingEnd(t)
      PROVE  ShutInv'
  BY <1>3 DEF PendingEnd, signalLocked, ShutInv, Copied
<1>4. ASSUME NEW t \in Token, InstallRefused(t)
      PROVE  ShutInv'
  BY <1>4 DEF InstallRefused, signalLocked, ShutInv, Copied
<1>5. ASSUME NEW t \in Token, Install(t)
      PROVE  ShutInv'
  BY <1>5 DEF Install, ShutInv, Copied
<1>6. ASSUME NEW g \in Groups \cup {Unaccounted}, NEW t \in Token,
             InstallCommit(t, g)
      PROVE  ShutInv'
  BY <1>6 DEF InstallCommit, signalLocked, ShutInv, Copied
<1>7. ASSUME NEW t \in Token, BindRefused(t)
      PROVE  ShutInv'
  BY <1>7 DEF BindRefused, ShutInv, Copied
<1>8. ASSUME NEW t \in Token, Bind(t)
      PROVE  ShutInv'
  BY <1>8 DEF Bind, ShutInv, Copied
<1>9. ASSUME NEW t \in Token, BindCommit(t)
      PROVE  ShutInv'
  BY <1>9 DEF BindCommit, ShutInv, Copied
<1>10. ASSUME NEW t \in Token, EndWithRelease(t)
      PROVE  ShutInv'
  BY <1>10 DEF EndWithRelease, ShutInv, Copied
<1>11. ASSUME NEW t \in Token, EndClose(t)
      PROVE  ShutInv'
  BY <1>11 DEF EndClose, startBoundResourceClose, ShutInv, Copied
<1>12. ASSUME NEW t \in Token, markReleasedLocked(t)
      PROVE  ShutInv'
  BY <1>12 DEF markReleasedLocked, BoundResourceClosed, ShutInv, Copied
<1>13. ASSUME NEW t \in Token, EndSink(t)
      PROVE  ShutInv'
  BY <1>13 DEF EndSink, ShutInv, Copied
<1>14. ASSUME NEW t \in Token, EndDelete(t)
      PROVE  ShutInv'
  BY <1>14 DEF EndDelete, signalLocked, ShutInv, Copied
<1>15. ASSUME NEW d \in Drainers, Drain(d)
      PROVE  ShutInv'
  BY <1>15 DEF Drain, ShutInv, Copied
<1>16. ASSUME NEW d \in Drainers, DrainCopy(d)
      PROVE  ShutInv'
  BY <1>16 DEF DrainCopy, ShutInv, Copied
<1>17. ASSUME NEW d \in Drainers, NEW t \in Token, DrainClose(d, t)
      PROVE  ShutInv'
  BY <1>17 DEF DrainClose, startBoundResourceClose, ShutInv, Copied
<1>18. ASSUME NEW d \in Drainers, DrainClosed(d)
      PROVE  ShutInv'
  BY <1>18 DEF DrainClosed, ShutInv, Copied
<1>19. ASSUME NEW d \in Drainers, DrainCheck(d)
      PROVE  ShutInv'
  BY <1>19 DEF DrainCheck, ShutInv, Copied
<1>20. ASSUME NEW d \in Drainers, DrainTimeout(d)
      PROVE  ShutInv'
  BY <1>20 DEF DrainTimeout, ShutInv, Copied
<1>21. CASE Close
  BY <1>21 DEF Close, ShutInv, Copied
<1>22. CASE CloseSwitch
  BY <1>22 DEF CloseSwitch, ShutInv, Copied
<1>23. CASE CloseCopy
  BY <1>23 DEF CloseCopy, ShutInv, Copied
<1>24. ASSUME NEW t \in Token, CloseStart(t)
      PROVE  ShutInv'
  BY <1>24 DEF CloseStart, startBoundResourceClose, ShutInv, Copied
<1>25. ASSUME NEW t \in Token, CloseWaited(t)
      PROVE  ShutInv'
  BY <1>25 DEF CloseWaited, BoundResourceClosed, ShutInv, Copied
<1>26. CASE CloseDone
  BY <1>26 DEF CloseDone, ShutInv, Copied
<1>27. CASE UNCHANGED <<state, mu, drain, drainSet, closer, closeSet>>
  BY <1>27 DEF ShutInv, Copied
<1> QED
  BY <1>1, <1>2, <1>3, <1>4, <1>5, <1>6, <1>7, <1>8, <1>9, <1>10, <1>11,
     <1>12, <1>13, <1>14, <1>15, <1>16, <1>17, <1>18, <1>19, <1>20, <1>21,
     <1>22, <1>23, <1>24, <1>25, <1>26, <1>27, ShutdownFrame DEF Next, Owner, DrainStep, CloseStep

(* What Drain and Close copied covers what is still open, until all of it is closed. *)
LEMMA CopyStep ==
    ASSUME TypeOK, MutexInv, MapsInv, ResourceInv, ShutInv, CopyInv, DrainCancelsAll, CloseLeavesNoResource, Next
    PROVE  CopyInv' /\ DrainCancelsAll' /\ CloseLeavesNoResource'
<1> USE DEF TypeOK, Token, Free, Phases, ownerVars, releaseVars, drainVars,
            closeVars, barrierVars, Resource
<1>1. ASSUME NEW t \in Token, BeginDispatch(t)
      PROVE  CopyInv' /\ DrainCancelsAll' /\ CloseLeavesNoResource'
  BY <1>1 DEF BeginDispatch, CopyInv, DrainCancelsAll, CloseLeavesNoResource,
              BoundResourceClosed, Copied, ShutInv, MutexInv, MapsInv,
              ResourceInv, InScope, Locked
<1>2. ASSUME NEW t \in Token, BeginDispatchInsert(t)
      PROVE  CopyInv' /\ DrainCancelsAll' /\ CloseLeavesNoResource'
  BY <1>2 DEF BeginDispatchInsert, CopyInv, DrainCancelsAll,
              CloseLeavesNoResource, BoundResourceClosed, Copied, ShutInv,
              MutexInv, MapsInv, ResourceInv, InScope, Locked
<1>3. ASSUME NEW t \in Token, PendingEnd(t)
      PROVE  CopyInv' /\ DrainCancelsAll' /\ CloseLeavesNoResource'
  BY <1>3 DEF PendingEnd, signalLocked, CopyInv, DrainCancelsAll,
              CloseLeavesNoResource, BoundResourceClosed, Copied, ShutInv,
              MutexInv, MapsInv, ResourceInv, InScope, Locked
<1>4. ASSUME NEW t \in Token, InstallRefused(t)
      PROVE  CopyInv' /\ DrainCancelsAll' /\ CloseLeavesNoResource'
  BY <1>4 DEF InstallRefused, signalLocked, CopyInv, DrainCancelsAll,
              CloseLeavesNoResource, BoundResourceClosed, Copied, ShutInv,
              MutexInv, MapsInv, ResourceInv, InScope, Locked
<1>5. ASSUME NEW t \in Token, Install(t)
      PROVE  CopyInv' /\ DrainCancelsAll' /\ CloseLeavesNoResource'
  BY <1>5 DEF Install, CopyInv, DrainCancelsAll, CloseLeavesNoResource,
              BoundResourceClosed, Copied, ShutInv, MutexInv, MapsInv,
              ResourceInv, InScope, Locked
<1>6. ASSUME NEW g \in Groups \cup {Unaccounted}, NEW t \in Token,
             InstallCommit(t, g)
      PROVE  CopyInv' /\ DrainCancelsAll' /\ CloseLeavesNoResource'
  BY <1>6 DEF InstallCommit, signalLocked, CopyInv, DrainCancelsAll,
              CloseLeavesNoResource, BoundResourceClosed, Copied, ShutInv,
              MutexInv, MapsInv, ResourceInv, InScope, Locked
<1>7. ASSUME NEW t \in Token, BindRefused(t)
      PROVE  CopyInv' /\ DrainCancelsAll' /\ CloseLeavesNoResource'
  BY <1>7 DEF BindRefused, CopyInv, DrainCancelsAll, CloseLeavesNoResource,
              BoundResourceClosed, Copied, ShutInv, MutexInv, MapsInv,
              ResourceInv, InScope, Locked
<1>8. ASSUME NEW t \in Token, Bind(t)
      PROVE  CopyInv' /\ DrainCancelsAll' /\ CloseLeavesNoResource'
  BY <1>8 DEF Bind, CopyInv, DrainCancelsAll, CloseLeavesNoResource,
              BoundResourceClosed, Copied, ShutInv, MutexInv, MapsInv,
              ResourceInv, InScope, Locked
<1>9. ASSUME NEW t \in Token, BindCommit(t)
      PROVE  CopyInv' /\ DrainCancelsAll' /\ CloseLeavesNoResource'
  <2>1. ~ Copied
    BY <1>9 DEF BindCommit, MutexInv, ShutInv, Locked
  <2> QED BY <1>9, <2>1 DEF BindCommit, CopyInv, DrainCancelsAll,
                        CloseLeavesNoResource, Copied
<1>10. ASSUME NEW t \in Token, EndWithRelease(t)
      PROVE  CopyInv' /\ DrainCancelsAll' /\ CloseLeavesNoResource'
  BY <1>10 DEF EndWithRelease, CopyInv, DrainCancelsAll,
               CloseLeavesNoResource, BoundResourceClosed, Copied, ShutInv,
               MutexInv, MapsInv, ResourceInv, InScope, Locked
<1>11. ASSUME NEW t \in Token, EndClose(t)
      PROVE  CopyInv' /\ DrainCancelsAll' /\ CloseLeavesNoResource'
  BY <1>11 DEF EndClose, startBoundResourceClose, CopyInv, DrainCancelsAll,
               CloseLeavesNoResource, BoundResourceClosed, Copied, ShutInv,
               MutexInv, MapsInv, ResourceInv, InScope, Locked
<1>12. ASSUME NEW t \in Token, markReleasedLocked(t)
      PROVE  CopyInv' /\ DrainCancelsAll' /\ CloseLeavesNoResource'
  BY <1>12 DEF markReleasedLocked, BoundResourceClosed, CopyInv,
               DrainCancelsAll, CloseLeavesNoResource, Copied, ShutInv,
               MutexInv, MapsInv, ResourceInv, InScope, Locked
<1>13. ASSUME NEW t \in Token, EndSink(t)
      PROVE  CopyInv' /\ DrainCancelsAll' /\ CloseLeavesNoResource'
  BY <1>13 DEF EndSink, CopyInv, DrainCancelsAll, CloseLeavesNoResource,
               BoundResourceClosed, Copied, ShutInv, MutexInv, MapsInv,
               ResourceInv, InScope, Locked
<1>14. ASSUME NEW t \in Token, EndDelete(t)
      PROVE  CopyInv' /\ DrainCancelsAll' /\ CloseLeavesNoResource'
  BY <1>14 DEF EndDelete, signalLocked, CopyInv, DrainCancelsAll,
               CloseLeavesNoResource, BoundResourceClosed, Copied, ShutInv,
               MutexInv, MapsInv, ResourceInv, InScope, Locked
<1>15. ASSUME NEW t \in Token, closeResource(t)
      PROVE  CopyInv' /\ DrainCancelsAll' /\ CloseLeavesNoResource'
  BY <1>15 DEF closeResource, CopyInv, DrainCancelsAll, CloseLeavesNoResource,
               BoundResourceClosed, Copied, ShutInv, MutexInv, MapsInv,
               ResourceInv, InScope, Locked
<1>16. ASSUME NEW d \in Drainers, Drain(d)
      PROVE  CopyInv' /\ DrainCancelsAll' /\ CloseLeavesNoResource'
  BY <1>16 DEF Drain, CopyInv, DrainCancelsAll, CloseLeavesNoResource,
               BoundResourceClosed, Copied, ShutInv, MutexInv, MapsInv,
               ResourceInv, InScope, Locked
<1>17. ASSUME NEW d \in Drainers, DrainCopy(d)
      PROVE  CopyInv' /\ DrainCancelsAll' /\ CloseLeavesNoResource'
  BY <1>17 DEF DrainCopy, CopyInv, DrainCancelsAll, CloseLeavesNoResource,
               BoundResourceClosed, Copied, ShutInv, MutexInv, MapsInv,
               ResourceInv, InScope, Locked
<1>18. ASSUME NEW d \in Drainers, NEW t \in Token, DrainClose(d, t)
      PROVE  CopyInv' /\ DrainCancelsAll' /\ CloseLeavesNoResource'
  BY <1>18 DEF DrainClose, startBoundResourceClose, CopyInv, DrainCancelsAll,
               CloseLeavesNoResource, BoundResourceClosed, Copied, ShutInv,
               MutexInv, MapsInv, ResourceInv, InScope, Locked
<1>19. ASSUME NEW d \in Drainers, DrainClosed(d)
      PROVE  CopyInv' /\ DrainCancelsAll' /\ CloseLeavesNoResource'
  BY <1>19 DEF DrainClosed, CopyInv, DrainCancelsAll, CloseLeavesNoResource,
               BoundResourceClosed, Copied, ShutInv, MutexInv, MapsInv,
               ResourceInv, InScope, Locked
<1>20. ASSUME NEW d \in Drainers, DrainCheck(d)
      PROVE  CopyInv' /\ DrainCancelsAll' /\ CloseLeavesNoResource'
  BY <1>20 DEF DrainCheck, CopyInv, DrainCancelsAll, CloseLeavesNoResource,
               BoundResourceClosed, Copied, ShutInv, MutexInv, MapsInv,
               ResourceInv, InScope, Locked
<1>21. ASSUME NEW d \in Drainers, DrainTimeout(d)
      PROVE  CopyInv' /\ DrainCancelsAll' /\ CloseLeavesNoResource'
  BY <1>21 DEF DrainTimeout, CopyInv, DrainCancelsAll, CloseLeavesNoResource,
               BoundResourceClosed, Copied, ShutInv, MutexInv, MapsInv,
               ResourceInv, InScope, Locked
<1>22. CASE Close
  BY <1>22 DEF Close, CopyInv, DrainCancelsAll, CloseLeavesNoResource,
               BoundResourceClosed, Copied, ShutInv, MutexInv, MapsInv,
               ResourceInv, InScope, Locked
<1>23. CASE CloseSwitch
  BY <1>23 DEF CloseSwitch, CopyInv, DrainCancelsAll, CloseLeavesNoResource,
               BoundResourceClosed, Copied, ShutInv, MutexInv, MapsInv,
               ResourceInv, InScope, Locked
<1>24. CASE CloseCopy
  BY <1>24 DEF CloseCopy, CopyInv, DrainCancelsAll, CloseLeavesNoResource,
               BoundResourceClosed, Copied, ShutInv, MutexInv, MapsInv,
               ResourceInv, InScope, Locked
<1>25. ASSUME NEW t \in Token, CloseStart(t)
      PROVE  CopyInv' /\ DrainCancelsAll' /\ CloseLeavesNoResource'
  BY <1>25 DEF CloseStart, startBoundResourceClose, CopyInv, DrainCancelsAll,
               CloseLeavesNoResource, BoundResourceClosed, Copied, ShutInv,
               MutexInv, MapsInv, ResourceInv, InScope, Locked
<1>26. ASSUME NEW t \in Token, CloseWaited(t)
      PROVE  CopyInv' /\ DrainCancelsAll' /\ CloseLeavesNoResource'
  BY <1>26 DEF CloseWaited, BoundResourceClosed, CopyInv, DrainCancelsAll,
               CloseLeavesNoResource, Copied, ShutInv, MutexInv, MapsInv,
               ResourceInv, InScope, Locked
<1>27. CASE CloseDone
  BY <1>27 DEF CloseDone, CopyInv, DrainCancelsAll, CloseLeavesNoResource,
               BoundResourceClosed, Copied, ShutInv, MutexInv, MapsInv,
               ResourceInv, InScope, Locked
<1>28. CASE UNCHANGED <<state, mu, drain, drainSet, closer, closeSet, res>>
  BY <1>28 DEF CopyInv, DrainCancelsAll, CloseLeavesNoResource,
               BoundResourceClosed, Copied, ShutInv, MutexInv, MapsInv,
               ResourceInv, InScope, Locked
<1> QED
  BY <1>1, <1>2, <1>3, <1>4, <1>5, <1>6, <1>7, <1>8, <1>9, <1>10, <1>11,
     <1>12, <1>13, <1>14, <1>15, <1>16, <1>17, <1>18, <1>19, <1>20, <1>21,
     <1>22, <1>23, <1>24, <1>25, <1>26, <1>27, <1>28, ShutdownFrame,
     ResourceFrame DEF Next, Owner, DrainStep, CloseStep

(* Every step that takes away what a sleeper waits for wakes it. *)
LEMMA WakeupStep ==
    ASSUME TypeOK, NoLostWakeup, Next
    PROVE  NoLostWakeup'
<1> USE DEF TypeOK, Token, Free, Phases, ownerVars, releaseVars, drainVars,
            closeVars, barrierVars
<1>1. ASSUME NEW t \in Token, BeginDispatch(t)
      PROVE  NoLostWakeup'
  BY <1>1 DEF BeginDispatch, NoLostWakeup
<1>2. ASSUME NEW t \in Token, BeginDispatchInsert(t)
      PROVE  NoLostWakeup'
  BY <1>2 DEF BeginDispatchInsert, NoLostWakeup
<1>3. ASSUME NEW t \in Token, PendingEnd(t)
      PROVE  NoLostWakeup'
  BY <1>3 DEF PendingEnd, signalLocked, NoLostWakeup
<1>4. ASSUME NEW t \in Token, InstallRefused(t)
      PROVE  NoLostWakeup'
  BY <1>4 DEF InstallRefused, signalLocked, NoLostWakeup
<1>5. ASSUME NEW t \in Token, Install(t)
      PROVE  NoLostWakeup'
  BY <1>5 DEF Install, NoLostWakeup
<1>6. ASSUME NEW g \in Groups \cup {Unaccounted}, NEW t \in Token,
             InstallCommit(t, g)
      PROVE  NoLostWakeup'
  BY <1>6 DEF InstallCommit, signalLocked, NoLostWakeup
<1>7. ASSUME NEW t \in Token, BindRefused(t)
      PROVE  NoLostWakeup'
  BY <1>7 DEF BindRefused, NoLostWakeup
<1>8. ASSUME NEW t \in Token, Bind(t)
      PROVE  NoLostWakeup'
  BY <1>8 DEF Bind, NoLostWakeup
<1>9. ASSUME NEW t \in Token, BindCommit(t)
      PROVE  NoLostWakeup'
  BY <1>9 DEF BindCommit, NoLostWakeup
<1>10. ASSUME NEW t \in Token, EndWithRelease(t)
      PROVE  NoLostWakeup'
  BY <1>10 DEF EndWithRelease, NoLostWakeup
<1>11. ASSUME NEW t \in Token, EndClose(t)
      PROVE  NoLostWakeup'
  BY <1>11 DEF EndClose, startBoundResourceClose, NoLostWakeup
<1>12. ASSUME NEW t \in Token, markReleasedLocked(t)
      PROVE  NoLostWakeup'
  BY <1>12 DEF markReleasedLocked, BoundResourceClosed, NoLostWakeup
<1>13. ASSUME NEW t \in Token, EndSink(t)
      PROVE  NoLostWakeup'
  BY <1>13 DEF EndSink, NoLostWakeup
<1>14. ASSUME NEW t \in Token, EndDelete(t)
      PROVE  NoLostWakeup'
  BY <1>14 DEF EndDelete, signalLocked, NoLostWakeup
<1>15. ASSUME NEW d \in Drainers, Drain(d)
      PROVE  NoLostWakeup'
  BY <1>15 DEF Drain, NoLostWakeup
<1>16. ASSUME NEW d \in Drainers, DrainCopy(d)
      PROVE  NoLostWakeup'
  BY <1>16 DEF DrainCopy, NoLostWakeup
<1>17. ASSUME NEW d \in Drainers, NEW t \in Token, DrainClose(d, t)
      PROVE  NoLostWakeup'
  BY <1>17 DEF DrainClose, startBoundResourceClose, NoLostWakeup
<1>18. ASSUME NEW d \in Drainers, DrainClosed(d)
      PROVE  NoLostWakeup'
  BY <1>18 DEF DrainClosed, NoLostWakeup
<1>19. ASSUME NEW d \in Drainers, DrainCheck(d)
      PROVE  NoLostWakeup'
  BY <1>19 DEF DrainCheck, NoLostWakeup
<1>20. ASSUME NEW d \in Drainers, DrainTimeout(d)
      PROVE  NoLostWakeup'
  BY <1>20 DEF DrainTimeout, NoLostWakeup
<1>21. CASE WaitPending
  BY <1>21 DEF WaitPending, NoLostWakeup
<1>22. CASE WaitPendingTimeout
  BY <1>22 DEF WaitPendingTimeout, NoLostWakeup
<1>23. CASE UNCHANGED <<drain, waiter, pending, scopes>>
  BY <1>23 DEF NoLostWakeup
<1> QED
  BY <1>1, <1>2, <1>3, <1>4, <1>5, <1>6, <1>7, <1>8, <1>9, <1>10, <1>11,
     <1>12, <1>13, <1>14, <1>15, <1>16, <1>17, <1>18, <1>19, <1>20, <1>21,
     <1>22, <1>23, WakeupFrame DEF Next, Owner, DrainStep, CloseStep

(* Nothing enters the maps after a Drain that returned nil. *)
LEMMA DrainedStep ==
    ASSUME TypeOK, MutexInv, ShutInv, DrainedIsEmpty, Next
    PROVE  DrainedIsEmpty'
<1> USE DEF TypeOK, Token, Free, Phases, ownerVars, releaseVars, drainVars,
            closeVars, barrierVars
<1>1. ASSUME NEW t \in Token, BeginDispatch(t)
      PROVE  DrainedIsEmpty'
  BY <1>1 DEF BeginDispatch, DrainedIsEmpty, MutexInv, ShutInv, Copied, Locked
<1>2. ASSUME NEW t \in Token, BeginDispatchInsert(t)
      PROVE  DrainedIsEmpty'
  <2>1. ~ Copied
    BY <1>2 DEF BeginDispatchInsert, MutexInv, ShutInv, Locked
  <2> QED BY <1>2, <2>1 DEF BeginDispatchInsert, DrainedIsEmpty, Copied
<1>3. ASSUME NEW t \in Token, PendingEnd(t)
      PROVE  DrainedIsEmpty'
  BY <1>3 DEF PendingEnd, signalLocked, DrainedIsEmpty, MutexInv, ShutInv,
              Copied, Locked
<1>4. ASSUME NEW t \in Token, InstallRefused(t)
      PROVE  DrainedIsEmpty'
  BY <1>4 DEF InstallRefused, signalLocked, DrainedIsEmpty, MutexInv, ShutInv,
              Copied, Locked
<1>5. ASSUME NEW t \in Token, Install(t)
      PROVE  DrainedIsEmpty'
  BY <1>5 DEF Install, DrainedIsEmpty, MutexInv, ShutInv, Copied, Locked
<1>6. ASSUME NEW g \in Groups \cup {Unaccounted}, NEW t \in Token,
             InstallCommit(t, g)
      PROVE  DrainedIsEmpty'
  BY <1>6 DEF InstallCommit, signalLocked, DrainedIsEmpty, MutexInv, ShutInv,
              Copied, Locked
<1>7. ASSUME NEW t \in Token, BindRefused(t)
      PROVE  DrainedIsEmpty'
  BY <1>7 DEF BindRefused, DrainedIsEmpty, MutexInv, ShutInv, Copied, Locked
<1>8. ASSUME NEW t \in Token, Bind(t)
      PROVE  DrainedIsEmpty'
  BY <1>8 DEF Bind, DrainedIsEmpty, MutexInv, ShutInv, Copied, Locked
<1>9. ASSUME NEW t \in Token, BindCommit(t)
      PROVE  DrainedIsEmpty'
  BY <1>9 DEF BindCommit, DrainedIsEmpty, MutexInv, ShutInv, Copied, Locked
<1>10. ASSUME NEW t \in Token, EndWithRelease(t)
      PROVE  DrainedIsEmpty'
  BY <1>10 DEF EndWithRelease, DrainedIsEmpty, MutexInv, ShutInv, Copied,
               Locked
<1>11. ASSUME NEW t \in Token, EndClose(t)
      PROVE  DrainedIsEmpty'
  BY <1>11 DEF EndClose, startBoundResourceClose, DrainedIsEmpty, MutexInv,
               ShutInv, Copied, Locked
<1>12. ASSUME NEW t \in Token, markReleasedLocked(t)
      PROVE  DrainedIsEmpty'
  BY <1>12 DEF markReleasedLocked, BoundResourceClosed, DrainedIsEmpty,
               MutexInv, ShutInv, Copied, Locked
<1>13. ASSUME NEW t \in Token, EndSink(t)
      PROVE  DrainedIsEmpty'
  BY <1>13 DEF EndSink, DrainedIsEmpty, MutexInv, ShutInv, Copied, Locked
<1>14. ASSUME NEW t \in Token, EndDelete(t)
      PROVE  DrainedIsEmpty'
  BY <1>14 DEF EndDelete, signalLocked, DrainedIsEmpty, MutexInv, ShutInv,
               Copied, Locked
<1>15. ASSUME NEW d \in Drainers, Drain(d)
      PROVE  DrainedIsEmpty'
  BY <1>15 DEF Drain, DrainedIsEmpty, MutexInv, ShutInv, Copied, Locked
<1>16. ASSUME NEW d \in Drainers, DrainCopy(d)
      PROVE  DrainedIsEmpty'
  BY <1>16 DEF DrainCopy, DrainedIsEmpty, MutexInv, ShutInv, Copied, Locked
<1>17. ASSUME NEW d \in Drainers, NEW t \in Token, DrainClose(d, t)
      PROVE  DrainedIsEmpty'
  BY <1>17 DEF DrainClose, startBoundResourceClose, DrainedIsEmpty, MutexInv,
               ShutInv, Copied, Locked
<1>18. ASSUME NEW d \in Drainers, DrainClosed(d)
      PROVE  DrainedIsEmpty'
  BY <1>18 DEF DrainClosed, DrainedIsEmpty, MutexInv, ShutInv, Copied, Locked
<1>19. ASSUME NEW d \in Drainers, DrainCheck(d)
      PROVE  DrainedIsEmpty'
  BY <1>19 DEF DrainCheck, DrainedIsEmpty, MutexInv, ShutInv, Copied, Locked
<1>20. ASSUME NEW d \in Drainers, DrainTimeout(d)
      PROVE  DrainedIsEmpty'
  BY <1>20 DEF DrainTimeout, DrainedIsEmpty, MutexInv, ShutInv, Copied, Locked
<1>21. CASE WaitPending
  BY <1>21 DEF WaitPending, DrainedIsEmpty, MutexInv, ShutInv, Copied, Locked
<1>22. CASE WaitPendingTimeout
  BY <1>22 DEF WaitPendingTimeout, DrainedIsEmpty, MutexInv, ShutInv, Copied,
               Locked
<1>23. CASE UNCHANGED <<drain, waiter, pending, scopes>>
  BY <1>23 DEF DrainedIsEmpty, MutexInv, ShutInv, Copied, Locked
<1> QED
  BY <1>1, <1>2, <1>3, <1>4, <1>5, <1>6, <1>7, <1>8, <1>9, <1>10, <1>11,
     <1>12, <1>13, <1>14, <1>15, <1>16, <1>17, <1>18, <1>19, <1>20, <1>21,
     <1>22, <1>23, WakeupFrame DEF Next, Owner, DrainStep, CloseStep

(* Every step keeps SinkCaughtUp. *)
LEMMA SinkStep ==
    ASSUME TypeOK, DrawnInv, MapsInv, NumberInv, SinkCaughtUp, Next
    PROVE  SinkCaughtUp'
<1> USE DEF TypeOK, Token, Free, Phases, ownerVars, releaseVars, drainVars,
            closeVars, barrierVars
<1>1. ASSUME NEW t \in Token, BeginDispatch(t)
      PROVE  SinkCaughtUp'
  <2>1. pc[t] # "marked"
    BY <1>1 DEF BeginDispatch, DrawnInv
  <2> QED BY <1>1, <2>1 DEF BeginDispatch, SinkCaughtUp
<1>2. ASSUME NEW t \in Token, BeginDispatchInsert(t)
      PROVE  SinkCaughtUp'
  BY <1>2 DEF BeginDispatchInsert, SinkCaughtUp, MapsInv, NumberInv, InScope
<1>3. ASSUME NEW t \in Token, PendingEnd(t)
      PROVE  SinkCaughtUp'
  BY <1>3 DEF PendingEnd, signalLocked, SinkCaughtUp, MapsInv, NumberInv,
              InScope
<1>4. ASSUME NEW t \in Token, InstallRefused(t)
      PROVE  SinkCaughtUp'
  BY <1>4 DEF InstallRefused, signalLocked, SinkCaughtUp, MapsInv, NumberInv,
              InScope
<1>5. ASSUME NEW t \in Token, Install(t)
      PROVE  SinkCaughtUp'
  BY <1>5 DEF Install, SinkCaughtUp, MapsInv, NumberInv, InScope
<1>6. ASSUME NEW g \in Groups \cup {Unaccounted}, NEW t \in Token,
             InstallCommit(t, g)
      PROVE  SinkCaughtUp'
  BY <1>6 DEF InstallCommit, signalLocked, SinkCaughtUp, MapsInv, NumberInv,
              InScope
<1>7. ASSUME NEW t \in Token, BindRefused(t)
      PROVE  SinkCaughtUp'
  BY <1>7 DEF BindRefused, SinkCaughtUp, MapsInv, NumberInv, InScope
<1>8. ASSUME NEW t \in Token, Bind(t)
      PROVE  SinkCaughtUp'
  BY <1>8 DEF Bind, SinkCaughtUp, MapsInv, NumberInv, InScope
<1>9. ASSUME NEW t \in Token, BindCommit(t)
      PROVE  SinkCaughtUp'
  BY <1>9 DEF BindCommit, SinkCaughtUp, MapsInv, NumberInv, InScope
<1>10. ASSUME NEW t \in Token, EndWithRelease(t)
      PROVE  SinkCaughtUp'
  BY <1>10 DEF EndWithRelease, SinkCaughtUp, MapsInv, NumberInv, InScope
<1>11. ASSUME NEW t \in Token, EndClose(t)
      PROVE  SinkCaughtUp'
  BY <1>11 DEF EndClose, startBoundResourceClose, SinkCaughtUp, MapsInv,
               NumberInv, InScope
<1>12. ASSUME NEW t \in Token, markReleasedLocked(t)
      PROVE  SinkCaughtUp'
  <2>1. CASE spec[t] \in Groups
    <3> SUFFICES ASSUME sink, NEW g \in Groups, releaseSeq'[g] > 0
                 PROVE  \/ <<g, releaseSeq'[g]>> \in handed \cup replay
                        \/ \E u \in scopes : /\ pc'[u] = "marked" /\ live'[u]
                                             /\ spec[u] = g /\ rel'[u] = releaseSeq'[g]
      BY <1>12 DEF markReleasedLocked, SinkCaughtUp
    <3>1. t \in scopes
      BY <1>12 DEF markReleasedLocked, MapsInv, InScope
    <3>2. /\ releaseSeq' = [releaseSeq EXCEPT ![spec[t]] = @ + 1]
          /\ rel' = [rel EXCEPT ![t] = releaseSeq[spec[t]] + 1]
          /\ live' = [live EXCEPT ![t] = sink]
          /\ pc' = [pc EXCEPT ![t] = "marked"]
          /\ pc[t] = "closeWait"
      BY <1>12, <2>1 DEF markReleasedLocked
    <3>3. CASE g = spec[t]
      <4>1. /\ pc'[t] = "marked" /\ live'[t]
            /\ spec[t] = g /\ rel'[t] = releaseSeq'[g]
        BY <3>2, <3>3
      <4> QED BY <4>1, <3>1
    <3>4. CASE g # spec[t]
      <4>1. releaseSeq'[g] = releaseSeq[g] /\ releaseSeq[g] > 0
        BY <3>2, <3>4
      <4>2. CASE <<g, releaseSeq[g]>> \in handed \cup replay
        BY <4>1, <4>2
      <4>3. CASE \E u \in scopes : /\ pc[u] = "marked" /\ live[u]
                                   /\ spec[u] = g /\ rel[u] = releaseSeq[g]
        <5>1. PICK u \in scopes : /\ pc[u] = "marked" /\ live[u]
                                 /\ spec[u] = g /\ rel[u] = releaseSeq[g]
          BY <4>3
        <5>2. u # t /\ u \in Token
          BY <3>2, <5>1
        <5>3. /\ pc'[u] = "marked" /\ live'[u]
              /\ spec[u] = g /\ rel'[u] = releaseSeq'[g]
          BY <3>2, <4>1, <5>1, <5>2
        <5> QED BY <5>3
      <4> QED BY <4>1, <4>2, <4>3 DEF SinkCaughtUp
    <3> QED BY <3>3, <3>4
  <2>2. CASE spec[t] \notin Groups
    BY <1>12, <2>2 DEF markReleasedLocked, SinkCaughtUp
  <2> QED BY <2>1, <2>2
<1>13. ASSUME NEW t \in Token, EndSink(t)
      PROVE  SinkCaughtUp'
  BY <1>13 DEF EndSink, SinkCaughtUp, MapsInv, NumberInv, InScope
<1>14. ASSUME NEW t \in Token, EndDelete(t)
      PROVE  SinkCaughtUp'
  BY <1>14 DEF EndDelete, signalLocked, SinkCaughtUp, MapsInv, NumberInv,
               InScope
<1>15. ASSUME NEW on \in BOOLEAN, SetReleaseSink(on)
      PROVE  SinkCaughtUp'
  BY <1>15 DEF SetReleaseSink, SinkCaughtUp, MapsInv, NumberInv, InScope
<1>16. ASSUME NEW r \in replay, ReplaySink(r[1], r[2])
      PROVE  SinkCaughtUp'
  BY <1>16 DEF ReplaySink, SinkCaughtUp, MapsInv, NumberInv, InScope
<1>17. CASE UNCHANGED <<spec, rel, live, sink, releaseSeq, handed, replay, pc, scopes>>
  BY <1>17 DEF SinkCaughtUp, MapsInv, NumberInv, InScope
<1> QED
  BY <1>1, <1>2, <1>3, <1>4, <1>5, <1>6, <1>7, <1>8, <1>9, <1>10, <1>11,
     <1>12, <1>13, <1>14, <1>15, <1>16, <1>17, SinkFrame DEF Next, Owner, DrainStep, CloseStep

(* Every step keeps ReleasesCounted. *)
LEMMA CountedStep ==
    ASSUME TypeOK, NumberInv, ReleasesCounted, Next
    PROVE  ReleasesCounted'
<1> USE DEF ownerVars, releaseVars, drainVars, closeVars, barrierVars
<1>a. /\ rel \in [Token -> Nat]
      /\ releaseSeq \in [Groups -> Nat]
      /\ spec \in [Token -> Groups \cup {Unaccounted}]
  BY DEF TypeOK
<1> USE <1>a
<1>1. ASSUME NEW g \in Groups \cup {Unaccounted}, NEW t \in Token,
             InstallCommit(t, g)
      PROVE  ReleasesCounted'
  <2>1. pc[t] = "installing"
    BY <1>1 DEF InstallCommit
  <2>2. ~ (rel[t] > 0)
    BY <2>1 DEF NumberInv
  <2>3. \A h \in Groups : Counted(h)' = Counted(h)
    BY <1>1, <2>2 DEF InstallCommit, Counted
  <2>4. rel' = rel /\ releaseSeq' = releaseSeq
    BY <1>1 DEF InstallCommit
  <2> QED BY <2>3, <2>4 DEF ReleasesCounted
<1>2. ASSUME NEW t \in Token, markReleasedLocked(t)
      PROVE  ReleasesCounted'
  <2>1. CASE spec[t] \in Groups
    <3> DEFINE n == releaseSeq[spec[t]] + 1
    <3>1. /\ releaseSeq' = [releaseSeq EXCEPT ![spec[t]] = n]
          /\ rel' = [rel EXCEPT ![t] = n]
          /\ spec' = spec
      BY <1>2, <2>1 DEF markReleasedLocked
    <3>2. ~ (rel[t] > 0)
      BY <1>2 DEF markReleasedLocked, NumberInv
    <3>3. n \in Nat /\ n > 0
      BY <2>1
    <3> SUFFICES ASSUME NEW h \in Groups
                 PROVE  /\ \A u \in Counted(h)' : rel'[u] <= releaseSeq'[h]
                        /\ \A k \in 1..releaseSeq'[h] :
                              \E u \in Counted(h)' : rel'[u] = k
                        /\ \A u, v \in Counted(h)' : rel'[u] = rel'[v] => u = v
      BY DEF ReleasesCounted
    <3>4. /\ \A u \in Counted(h) : rel[u] <= releaseSeq[h]
          /\ \A k \in 1..releaseSeq[h] : \E u \in Counted(h) : rel[u] = k
          /\ \A u, v \in Counted(h) : rel[u] = rel[v] => u = v
      BY DEF ReleasesCounted
    <3>5. t \notin Counted(h) /\ Counted(h) \subseteq Token
      BY <3>2 DEF Counted
    <3>6. \A u \in Counted(h) : rel'[u] = rel[u] /\ rel[u] \in Nat
      BY <3>1, <3>5
    <3>7. CASE h # spec[t]
      <4>1. releaseSeq'[h] = releaseSeq[h]
        BY <3>1, <3>7
      <4>2. Counted(h)' = Counted(h)
        BY <3>1, <3>2, <3>7 DEF Counted
      <4> QED BY <4>1, <4>2, <3>4, <3>6
    <3>8. CASE h = spec[t]
      <4>1. Counted(h)' = Counted(h) \cup {t}
        BY <3>1, <3>3, <3>8 DEF Counted
      <4>2. rel'[t] = n /\ releaseSeq'[h] = n
        BY <3>1, <3>8
      <4>3. releaseSeq[h] + 1 = n /\ releaseSeq[h] \in Nat
        BY <3>8
      <4> HIDE DEF n
      <4>4. \A u \in Counted(h)' : rel'[u] <= n
        BY <3>4, <3>6, <4>1, <4>2, <4>3
      <4>5. \A k \in 1..n : \E u \in Counted(h)' : rel'[u] = k
        BY <3>4, <3>6, <4>1, <4>2, <4>3
      <4>6. \A u \in Counted(h) : rel'[u] # n
        BY <3>4, <3>6, <4>3
      <4>7. \A u, v \in Counted(h)' : rel'[u] = rel'[v] => u = v
        BY <3>4, <3>6, <4>1, <4>2, <4>6
      <4> QED BY <4>2, <4>4, <4>5, <4>7
    <3> QED BY <3>7, <3>8
  <2>2. CASE spec[t] \notin Groups
    BY <1>2, <2>2 DEF markReleasedLocked, ReleasesCounted, Counted
  <2> QED BY <2>1, <2>2
<1>3. CASE UNCHANGED <<spec, rel, releaseSeq>>
  BY <1>3 DEF ReleasesCounted, Counted, NumberInv
<1> QED
  BY <1>1, <1>2, <1>3, ReleaseFrame DEF Next, Owner, DrainStep, CloseStep

(* Every step keeps the barriers sound. *)
LEMMA BarrierStep ==
    ASSUME TypeOK, DrawnInv, BarrierInv, BarrierSound, Next
    PROVE  BarrierInv' /\ BarrierSound'
<1> USE DEF ownerVars, releaseVars, drainVars, closeVars, barrierVars
<1>a. /\ next \in Nat /\ pending \subseteq Nat /\ Token \subseteq Nat
      /\ observedAt \in [0..MaxBarrier -> Nat]
      /\ pendingBarrierSequence \in Nat
      /\ observedBarrier \in 0..MaxBarrier
      /\ publishedBarrier \in 0..MaxBarrier
      /\ MaxBarrier \in Nat
  BY RegistryAssumption DEF TypeOK, Token
<1> USE <1>a
<1>1. ASSUME NEW t \in Token, BeginDispatchInsert(t)
      PROVE  BarrierInv' /\ BarrierSound'
  <2>1. t = next + 1 /\ next' = next + 1 /\ pending' = pending \cup {t}
    BY <1>1 DEF BeginDispatchInsert, DrawnInv
  <2>2. \A b \in 0..MaxBarrier : observedAt[b] < t
    BY <2>1 DEF BarrierInv
  <2>3. 1..publishedBarrier \subseteq 0..MaxBarrier
    BY RegistryAssumption
  <2>4. BarrierInv'
    BY <1>1, <2>1 DEF BeginDispatchInsert, BarrierInv
  <2>5. BarrierSound'
    BY <1>1, <2>1, <2>2, <2>3 DEF BeginDispatchInsert, BarrierSound
  <2> QED BY <2>4, <2>5
<1>2. ASSUME NEW t \in Token, PendingEnd(t)
      PROVE  BarrierInv' /\ BarrierSound'
  BY <1>2 DEF PendingEnd, signalLocked, BarrierInv, BarrierSound, DrawnInv
<1>3. ASSUME NEW t \in Token, InstallRefused(t)
      PROVE  BarrierInv' /\ BarrierSound'
  BY <1>3 DEF InstallRefused, signalLocked, BarrierInv, BarrierSound, DrawnInv
<1>4. ASSUME NEW g \in Groups \cup {Unaccounted}, NEW t \in Token,
             InstallCommit(t, g)
      PROVE  BarrierInv' /\ BarrierSound'
  BY <1>4 DEF InstallCommit, signalLocked, BarrierInv, BarrierSound, DrawnInv
<1>5. ASSUME NEW b \in 1..MaxBarrier, ObserveBarrier(b)
      PROVE  BarrierInv' /\ BarrierSound'
  BY <1>5 DEF ObserveBarrier, BarrierInv, BarrierSound, DrawnInv
<1>6. CASE FreezeInFlight
  <2>1. BarrierInv'
    BY <1>6 DEF FreezeInFlight, PublishableBarrier, BarrierInv
  <2>2. UNCHANGED <<pending, observedAt>>
    BY <1>6 DEF FreezeInFlight
  <2>3. CASE publishedBarrier' = publishedBarrier
    BY <2>1, <2>2, <2>3 DEF BarrierSound
  <2>4. CASE publishedBarrier' # publishedBarrier
    <3>1. \A p \in pending : p > pendingBarrierSequence
      BY <1>6, <2>4 DEF FreezeInFlight, PublishableBarrier
    <3>2. \A b \in 0..MaxBarrier : observedAt[b] <= pendingBarrierSequence
      BY DEF BarrierInv
    <3>3. publishedBarrier' = observedBarrier
      BY <1>6, <2>4 DEF FreezeInFlight, PublishableBarrier
    <3>4. 1..publishedBarrier' \subseteq 0..MaxBarrier
      BY <3>3, RegistryAssumption
    <3>5. /\ \A p \in pending : p \in Nat
          /\ \A b \in 0..MaxBarrier : observedAt[b] \in Nat
          /\ pendingBarrierSequence \in Nat
      BY RegistryAssumption
    <3> QED BY <2>1, <2>2, <3>1, <3>2, <3>4, <3>5 DEF BarrierSound
  <2> QED BY <2>3, <2>4
<1>7. CASE UNCHANGED <<next, pending, observedBarrier, pendingBarrierSequence, publishedBarrier, observedAt>>
  BY <1>7 DEF BarrierInv, BarrierSound, DrawnInv
<1> QED
  BY <1>1, <1>2, <1>3, <1>4, <1>5, <1>6, <1>7, BarrierFrame DEF Next, Owner, DrainStep, CloseStep

-----------------------------------------------------------------------------
(* What every step keeps: the inductive invariant, and the properties that *)
(* rest on it.                                                             *)
Safety ==
    /\ TypeOK /\ IndInv
    /\ NoLostWakeup /\ DrainedIsEmpty /\ DrainCancelsAll /\ CloseLeavesNoResource
    /\ ReleasesCounted /\ SinkCaughtUp /\ BarrierSound

(* The registry that New returns satisfies all of it.                      *)
LEMMA InitSafety == Init => Safety
<1> SUFFICES ASSUME Init PROVE Safety
  OBVIOUS
<1> USE RegistryAssumption DEF Init, Token, Free
<1>1. TypeOK
  <2>1. /\ pc \in [Token -> Phases]
        /\ spec \in [Token -> Groups \cup {Unaccounted}]
        /\ res \in [Token -> Resource]
    BY DEF Phases, Resource
  <2>2. /\ releaseSeq \in [Groups -> Nat]
        /\ rel \in [Token -> Nat]
        /\ live \in [Token -> BOOLEAN]
    OBVIOUS
  <2>3. /\ frozen \in [barrier : 0..MaxBarrier, executions : SUBSET Token]
        /\ observedAt \in [0..MaxBarrier -> 0..MaxDispatch]
    OBVIOUS
  <2>4. /\ mu \in Token \cup {Free} /\ next \in 0..MaxDispatch
        /\ drain \in [Drainers -> {"idle"}] /\ drainSet \in [Drainers -> {{}}]
        /\ observedBarrier \in 0..MaxBarrier /\ publishedBarrier \in 0..MaxBarrier
        /\ pendingBarrierSequence \in 0..MaxDispatch
        /\ snapshotRevision \in 0..MaxRevision
    OBVIOUS
  <2> QED BY <2>1, <2>2, <2>3, <2>4 DEF TypeOK
<1>2. MutexInv /\ DrawnInv /\ MapsInv
  BY DEF MutexInv, DrawnInv, MapsInv, Locked, InScope
<1>3. ResourceInv /\ NumberInv
  BY DEF ResourceInv, NumberInv
<1>4. ShutInv /\ CopyInv /\ BarrierInv
  BY DEF ShutInv, Copied, CopyInv, BoundResourceClosed, BarrierInv
<1>5. NoLostWakeup /\ DrainedIsEmpty /\ DrainCancelsAll /\ CloseLeavesNoResource
  BY DEF NoLostWakeup, DrainedIsEmpty, DrainCancelsAll, CloseLeavesNoResource
<1>6. ReleasesCounted /\ SinkCaughtUp /\ BarrierSound
  BY DEF ReleasesCounted, Counted, SinkCaughtUp, BarrierSound
<1> QED
  BY <1>1, <1>2, <1>3, <1>4, <1>5, <1>6 DEF Safety, IndInv

(* A stuttering step changes none of it.                                   *)
LEMMA StutterSafety == ASSUME Safety, UNCHANGED vars PROVE Safety'
<1> USE DEF vars, ownerVars, releaseVars, drainVars, closeVars, barrierVars
<1>1. TypeOK'
  BY DEF Safety, TypeOK
<1>2. MutexInv' /\ DrawnInv' /\ MapsInv'
  BY DEF Safety, IndInv, MutexInv, DrawnInv, MapsInv
<1>3. ResourceInv' /\ NumberInv'
  BY DEF Safety, IndInv, ResourceInv, NumberInv
<1>4. ShutInv' /\ CopyInv' /\ BarrierInv'
  BY DEF Safety, IndInv, ShutInv, Copied, CopyInv, BoundResourceClosed, BarrierInv
<1>5. /\ NoLostWakeup' /\ DrainedIsEmpty'
      /\ DrainCancelsAll' /\ CloseLeavesNoResource'
  BY DEF Safety, NoLostWakeup, DrainedIsEmpty, DrainCancelsAll,
         CloseLeavesNoResource, BoundResourceClosed
<1>6. ReleasesCounted' /\ SinkCaughtUp' /\ BarrierSound'
  BY DEF Safety, ReleasesCounted, Counted, SinkCaughtUp, BarrierSound
<1> QED
  BY <1>1, <1>2, <1>3, <1>4, <1>5, <1>6 DEF Safety, IndInv

(* Safety is inductive.                                                    *)
LEMMA NextSafety == Safety /\ [Next]_vars => Safety'
<1>1. ASSUME Safety, Next PROVE Safety'
  <2> USE <1>1 DEF Safety, IndInv
  <2>1. TypeOK'                                BY TypeStep
  <2>2. MutexInv'                              BY MutexStep
  <2>3. DrawnInv'                              BY DrawnStep
  <2>4. MapsInv'                               BY MapsStep
  <2>5. ResourceInv'                           BY ResourceStep
  <2>6. NumberInv'                             BY NumberStep
  <2>7. ShutInv'                               BY ShutStep
  <2>8. /\ CopyInv' /\ DrainCancelsAll'
        /\ CloseLeavesNoResource'              BY CopyStep
  <2>9. NoLostWakeup'                          BY WakeupStep
  <2>10. DrainedIsEmpty'                       BY DrainedStep
  <2>11. SinkCaughtUp'                         BY SinkStep
  <2>12. ReleasesCounted'                      BY CountedStep
  <2>13. BarrierInv' /\ BarrierSound'          BY BarrierStep
  <2> QED BY <2>1, <2>2, <2>3, <2>4, <2>5, <2>6, <2>7, <2>8, <2>9, <2>10,
             <2>11, <2>12, <2>13
<1> QED
  BY <1>1, StutterSafety

(* The invariant holds in every behaviour of the registry.                 *)
THEOREM SafetyTheorem == Spec => []Safety
  BY InitSafety, NextSafety, PTL DEF Spec

(* Every variable keeps its type; no sink is called with the sequence 0.   *)
THEOREM TypeCorrect == Spec => []TypeOK
  BY SafetyTheorem, PTL DEF Safety

(* Drain and WaitPending never sleep through the last change they wait for.*)
THEOREM NoLostWakeupHolds == Spec => []NoLostWakeup
  BY SafetyTheorem, PTL DEF Safety

(* A Drain that returned nil left nothing behind, and nothing follows it.  *)
THEOREM DrainedIsEmptyHolds == Spec => []DrainedIsEmpty
  BY SafetyTheorem, PTL DEF Safety

(* A Drain that waits has asked every bound resource to close.             *)
THEOREM DrainCancelsAllHolds == Spec => []DrainCancelsAll
  BY SafetyTheorem, PTL DEF Safety

(* A Close that returned left no resource open.                            *)
THEOREM CloseLeavesNoResourceHolds == Spec => []CloseLeavesNoResource
  BY SafetyTheorem, PTL DEF Safety

(* No release is counted or handed on before the resource is closed.       *)
THEOREM ReleaseAfterCloseHolds == Spec => []ReleaseAfterClose
<1>1. Safety => ReleaseAfterClose
  BY DEF Safety, IndInv, TypeOK, ResourceInv, ReleaseAfterClose, Resource
<1> QED
  BY <1>1, SafetyTheorem, PTL

(* Each accounted scope has its own release number, without a gap.         *)
THEOREM ReleasesCountedHolds == Spec => []ReleasesCounted
  BY SafetyTheorem, PTL DEF Safety

(* A sink that lags behind a group's sequence still has a call to come.    *)
THEOREM SinkCaughtUpHolds == Spec => []SinkCaughtUp
  BY SafetyTheorem, PTL DEF Safety

(* No published barrier is older than an unresolved reservation it covers. *)
THEOREM BarrierSoundHolds == Spec => []BarrierSound
  BY SafetyTheorem, PTL DEF Safety

(* After the copy no token is drawn, no scope is added, no resource bound. *)
LEMMA CopyStepMissesNothing ==
    ASSUME Safety, Next, Copied
    PROVE  /\ next' = next
           /\ scopes' \subseteq scopes
           /\ \A t \in Token : res[t] = "none" => res'[t] = "none"
<1>1. mu = Free /\ state # "accepting"
  BY DEF Safety, IndInv, ShutInv, Copied
<1>2. \A t \in Token : pc[t] \notin Locked
  BY <1>1, RegistryAssumption DEF Safety, IndInv, MutexInv, Token, Free
<1>3. \A t \in Token : /\ ~ BeginDispatchInsert(t)
                       /\ ~ BindCommit(t)
                       /\ \A g \in Groups \cup {Unaccounted} : ~ InstallCommit(t, g)
  BY <1>2 DEF Locked, BeginDispatchInsert, BindCommit, InstallCommit
<1>4. res \in [Token -> Resource]
  BY DEF Safety, TypeOK
<1>5. next' = next /\ scopes' \subseteq scopes
  BY <1>3 DEF Next, Owner, DrainStep, CloseStep, ownerVars, releaseVars,
              drainVars, closeVars, barrierVars, BeginDispatch, PendingEnd,
              InstallRefused, Install, BindRefused, Bind, EndWithRelease,
              EndClose, markReleasedLocked, EndSink, EndDelete, closeResource,
              SetReleaseSink, ReplaySink, Drain, DrainCopy, DrainClose,
              DrainClosed, DrainCheck, DrainTimeout, WaitPending,
              WaitPendingTimeout, Close, CloseSwitch, CloseCopy, CloseStart,
              CloseWaited, CloseDone, ObserveBarrier, FreezeInFlight
<1>6. ASSUME NEW t \in Token, res[t] = "none" PROVE res'[t] = "none"
  <2>1. CASE UNCHANGED <<res, pc>>
    BY <2>1, <1>6
  <2>2. ASSUME NEW u \in Token, Owner(u) PROVE res'[t] = "none"
    BY <2>2, <1>3, <1>4, <1>6
       DEF Owner, ownerVars, releaseVars, drainVars, closeVars, barrierVars,
           BeginDispatch, PendingEnd, InstallRefused, Install, BindRefused, Bind,
           EndWithRelease, EndClose, startBoundResourceClose, markReleasedLocked,
           EndSink, EndDelete
  <2>3. ASSUME NEW u \in Token,
               closeResource(u) \/ CloseStart(u) \/ \E d \in Drainers : DrainClose(d, u)
        PROVE  res'[t] = "none"
    BY <2>3, <1>4, <1>6 DEF closeResource, CloseStart, DrainClose,
                            startBoundResourceClose
  <2> QED BY <2>1, <2>2, <2>3, ResourceFrame
<1> QED
  BY <1>5, <1>6

(* No step of a behaviour adds to what Drain and Close copied.             *)
THEOREM CopyMissesNothingHolds == Spec => CopyMissesNothing
<1>1. Safety /\ [Next]_vars =>
        [Copied => /\ next' = next
                   /\ scopes' \subseteq scopes
                   /\ \A t \in Token : res[t] = "none" => res'[t] = "none"]_vars
  BY CopyStepMissesNothing
<1> QED
  BY <1>1, SafetyTheorem, PTL DEF Spec, CopyMissesNothing

(* A snapshot lists every unfinished execution older than its barrier.     *)
LEMMA SnapshotStep ==
    ASSUME Safety, Safety', Next, snapshotRevision' # snapshotRevision
    PROVE  \A b \in 1..frozen'.barrier : \A t \in 1..observedAt[b] :
               pc[t] = "ended" \/ t \in frozen'.executions
<1>1. FreezeInFlight
  BY DEF Next, Owner, DrainStep, CloseStep, ownerVars, releaseVars,
         drainVars, closeVars, barrierVars, BeginDispatch, BeginDispatchInsert,
         PendingEnd, InstallRefused, Install, InstallCommit, BindRefused, Bind,
         BindCommit, EndWithRelease, EndClose, markReleasedLocked, EndSink,
         EndDelete, closeResource, SetReleaseSink, ReplaySink, Drain, DrainCopy,
         DrainClose, DrainClosed, DrainCheck, DrainTimeout, WaitPending,
         WaitPendingTimeout, Close, CloseSwitch, CloseCopy, CloseStart,
         CloseWaited, CloseDone, ObserveBarrier
<1>2. /\ frozen'.barrier = publishedBarrier' /\ frozen'.executions = scopes
      /\ pending' = pending /\ observedAt' = observedAt
  BY <1>1 DEF FreezeInFlight
<1> SUFFICES ASSUME NEW b \in 1..publishedBarrier', NEW t \in 1..observedAt[b]
             PROVE  pc[t] = "ended" \/ t \in scopes
  BY <1>2
<1>3. b \in 0..MaxBarrier /\ publishedBarrier' \in 0..MaxBarrier
  BY RegistryAssumption DEF Safety, TypeOK
<1>4. observedAt[b] \in 0..MaxDispatch /\ observedAt[b] <= next /\ next \in 0..MaxDispatch
  <2>1. /\ observedAt[b] \in 0..MaxDispatch /\ next \in 0..MaxDispatch
        /\ pendingBarrierSequence \in 0..MaxDispatch
    BY <1>3 DEF Safety, TypeOK
  <2>2. observedAt[b] <= pendingBarrierSequence /\ pendingBarrierSequence <= next
    BY <1>3 DEF Safety, IndInv, BarrierInv
  <2> QED BY <2>1, <2>2, RegistryAssumption
<1>5. t \in Token /\ t <= next
  BY <1>4, RegistryAssumption DEF Token
<1>6. t \notin pending
  BY <1>2, <1>3, <1>4, <1>5 DEF Safety, BarrierSound
<1>7. pc[t] \notin {"idle", "beginning"}
  BY <1>5 DEF Safety, IndInv, DrawnInv
<1>8. pc[t] \in Phases
  BY <1>5 DEF Safety, TypeOK
<1> QED
  BY <1>5, <1>6, <1>7, <1>8 DEF Safety, IndInv, MapsInv, Phases, InScope

(* Every snapshot of a behaviour is complete up to its barrier.            *)
THEOREM SnapshotCompleteHolds == Spec => SnapshotComplete
<1>1. Safety /\ Safety' /\ [Next]_vars =>
        [snapshotRevision' # snapshotRevision =>
           \A b \in 1..frozen'.barrier : \A t \in 1..observedAt[b] :
               pc[t] = "ended" \/ t \in frozen'.executions]_vars
  BY SnapshotStep
<1> QED
  BY <1>1, SafetyTheorem, PTL DEF Spec, SnapshotComplete

=============================================================================
