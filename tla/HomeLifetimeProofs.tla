------------------------- MODULE HomeLifetimeProofs -------------------------
(***************************************************************************)
(* Proofs that the supervision of Home's lifetimes keeps its safety        *)
(* properties for any number of requests, lifetimes and faults. Each part  *)
(* of the inductive invariant IndInv has a lemma with one step for every   *)
(* action that can disturb it, and one for the actions that leave its      *)
(* variables alone.                                                        *)
(***************************************************************************)
EXTENDS HomeLifetime, TLAPS

(* The flags stay Boolean. *)
LEMMA FlagsStep ==
    ASSUME IndInv, [Next]_vars
    PROVE  FlagsOK'
  <1> USE DEF FlagsOK, supVars, clientVars, homeVars
  <1>a. FlagsOK
    BY DEF IndInv, TypeOK
  <1>1. CASE StartLifetime
    BY <1>a, <1>1 DEF StartLifetime
  <1>2. CASE Subscribe
    BY <1>a, <1>2 DEF Subscribe, HomeCommits, Takeover
  <1>3. CASE SubscribeFails
    BY <1>a, <1>3 DEF SubscribeFails, EndLifetime, Fault, HomeCommits, Takeover
  <1>4. CASE TakeoverRefused
    BY <1>a, <1>4 DEF TakeoverRefused, EndLifetime, Takeover
  <1>5. CASE ProtocolRefused
    BY <1>a, <1>5 DEF ProtocolRefused, EndLifetime, Fault
  <1>6. CASE Probe
    BY <1>a, <1>6 DEF Probe
  <1>7. CASE ProbeFails
    BY <1>a, <1>7 DEF ProbeFails, EndLifetime, Fault
  <1>8. CASE ConnectionLost
    BY <1>a, <1>8 DEF ConnectionLost, EndLifetime, Fault
  <1>9. CASE HomeForgets
    BY <1>a, <1>9 DEF HomeForgets, Fault
  <1>10. CASE Detach
    BY <1>a, <1>10 DEF Detach, Advance
  <1>11. CASE CloseClient
    BY <1>a, <1>11 DEF CloseClient, Advance
  <1>12. CASE GiveUp
    BY <1>a, <1>12 DEF GiveUp, Advance
  <1>13. CASE Judge
    BY <1>a, <1>13 DEF Judge, Unsafe, Advance
  <1>14. CASE Replace
    BY <1>a, <1>14 DEF Replace
  <1>15. CASE Flushed
    BY <1>a, <1>15 DEF Flushed, Advance
  <1>16. CASE Return
    BY <1>a, <1>16 DEF Return, Advance
  <1>17. CASE LastDrain
    BY <1>a, <1>17 DEF LastDrain, Advance
  <1>18. CASE Shutdown
    BY <1>a, <1>18 DEF Shutdown
  <1>19. CASE LeaveLoop \/ GetConfig \/ WorkerStages \/ PublishCheck \/
            PublishHomeDispatch \/ WorkerEnds \/ ConfigRefused \/
            CloseOnCancellation \/ Join \/ Settle \/ NextLifetime \/ Drained
            \/ (\E r \in Requests : Pick(r)) \/ (\E r \in Requests : BeginDispatch(r)) \/ (\E r \in Requests :
            CheckFence(r)) \/ (\E r \in Requests : Granted(r)) \/ (\E r \in
            Requests : NotFound(r)) \/ (\E r \in Requests : Unanswered(r)) \/
            (\E r \in Requests : Install(r)) \/ (\E r \in Requests :
            AbortAmbiguousDispatch(r)) \/ (\E r \in Requests : EndPending(r))
            \/ (\E r \in Requests : EndWithRelease(r)) \/ (\E r \in Requests :
            PushConcurrencyRelease(r))
    BY <1>a, <1>19 DEF LeaveLoop, GetConfig, WorkerStages, PublishCheck,
           PublishHomeDispatch, WorkerEnds, ConfigRefused, CloseOnCancellation,
           Join, Settle,
           NextLifetime, Drained, Pick, BeginDispatch, CheckFence, Granted,
           NotFound, Unanswered, Install, AbortAmbiguousDispatch, EndPending,
           EndWithRelease, PushConcurrencyRelease, LifetimeDone, Advance,
           UnchangedByRequest, IsShut, Goto, WithSlot, Fault
  <1>20. CASE UNCHANGED vars
    BY <1>a, <1>20 DEF vars
  <1>21. QED
    BY <1>1, <1>2, <1>3, <1>4, <1>5, <1>6, <1>7, <1>8, <1>9, <1>10, <1>11,
       <1>12, <1>13, <1>14, <1>15, <1>16, <1>17, <1>18, <1>19, <1>20
       DEF Next, Subscribing, Supervising, Working, Dispatching

(* The other variables keep their types: heartbeatOK is set of a client that
   is not fenced, since a new client has not been handed out yet. *)
LEMMA TypeStep ==
    ASSUME IndInv, [Next]_vars
    PROVE  TypeOK'
  <1> USE DEF TypeOK, LifeInv, SupStages, ReqStages, Lives, Connecting,
              supVars, clientVars, homeVars
  <1>a. FlagsOK' /\ TypeOK /\ LifeInv
    BY FlagsStep DEF IndInv
  <1>1. CASE StartLifetime
    BY <1>a, <1>1 DEF StartLifetime
  <1>2. CASE LeaveLoop
    BY <1>a, <1>2 DEF LeaveLoop
  <1>3. CASE GetConfig
    BY <1>a, <1>3 DEF GetConfig
  <1>4. CASE Subscribe
    BY <1>a, <1>4 DEF Subscribe, HomeCommits, Takeover
  <1>5. CASE SubscribeFails
    BY <1>a, <1>5, LifetimeAssumption DEF SubscribeFails, EndLifetime, Fault,
           HomeCommits, Takeover
  <1>6. CASE TakeoverRefused
    BY <1>a, <1>6 DEF TakeoverRefused, EndLifetime, Takeover
  <1>7. CASE ProtocolRefused
    BY <1>a, <1>7, LifetimeAssumption DEF ProtocolRefused, EndLifetime, Fault
  <1>8. CASE Probe
    BY <1>a, <1>8 DEF Probe
  <1>9. CASE ProbeFails
    BY <1>a, <1>9, LifetimeAssumption DEF ProbeFails, EndLifetime, Fault
  <1>10. CASE ConnectionLost
    BY <1>a, <1>10, LifetimeAssumption DEF ConnectionLost, EndLifetime, Fault
  <1>11. CASE HomeForgets
    BY <1>a, <1>11, LifetimeAssumption DEF HomeForgets, Fault
  <1>12. CASE WorkerStages
    BY <1>a, <1>12 DEF WorkerStages, LifetimeDone
  <1>13. CASE PublishCheck
    BY <1>a, <1>13 DEF PublishCheck, LifetimeDone
  <1>14. CASE PublishHomeDispatch
    BY <1>a, <1>14 DEF PublishHomeDispatch
  <1>15. CASE WorkerEnds \/ ConfigRefused
    BY <1>a, <1>15 DEF WorkerEnds, ConfigRefused, LifetimeDone
  <1>16. CASE CloseOnCancellation
    BY <1>a, <1>16 DEF CloseOnCancellation, LifetimeDone
  <1>17. CASE Join
    BY <1>a, <1>17 DEF Join, Advance
  <1>18. CASE Detach
    BY <1>a, <1>18 DEF Detach, Advance
  <1>19. CASE CloseClient
    BY <1>a, <1>19 DEF CloseClient, Advance
  <1>20. CASE Settle
    BY <1>a, <1>20 DEF Settle, Advance
  <1>21. CASE GiveUp
    BY <1>a, <1>21 DEF GiveUp, Advance
  <1>22. CASE Judge
    BY <1>a, <1>22 DEF Judge, Unsafe, Advance
  <1>23. CASE Replace
    BY <1>a, <1>23 DEF Replace
  <1>24. CASE NextLifetime
    BY <1>a, <1>24, LifetimeAssumption DEF NextLifetime
  <1>25. CASE Drained
    BY <1>a, <1>25 DEF Drained, Advance
  <1>26. CASE Flushed
    BY <1>a, <1>26 DEF Flushed, Advance
  <1>27. CASE Return
    BY <1>a, <1>27 DEF Return, Advance
  <1>28. CASE LastDrain
    BY <1>a, <1>28 DEF LastDrain, Advance
  <1>29. ASSUME NEW r \in Requests, Pick(r) PROVE TypeOK'
    BY <1>a, <1>29 DEF Pick, UnchangedByRequest
  <1>30. ASSUME NEW r \in Requests, BeginDispatch(r) PROVE TypeOK'
    BY <1>a, <1>30 DEF BeginDispatch, IsShut, Goto, UnchangedByRequest
  <1>31. ASSUME NEW r \in Requests, CheckFence(r) PROVE TypeOK'
    BY <1>a, <1>31 DEF CheckFence, Goto, UnchangedByRequest
  <1>32. ASSUME NEW r \in Requests, Granted(r) PROVE TypeOK'
    BY <1>a, <1>32 DEF Granted, WithSlot, Goto, UnchangedByRequest
  <1>33. ASSUME NEW r \in Requests, NotFound(r) PROVE TypeOK'
    BY <1>a, <1>33 DEF NotFound, Goto, UnchangedByRequest
  <1>34. ASSUME NEW r \in Requests, Unanswered(r) PROVE TypeOK'
    BY <1>a, <1>34 DEF Unanswered, WithSlot, Goto, UnchangedByRequest
  <1>35. ASSUME NEW r \in Requests, Install(r) PROVE TypeOK'
    BY <1>a, <1>35 DEF Install, IsShut, Goto, UnchangedByRequest
  <1>36. ASSUME NEW r \in Requests, AbortAmbiguousDispatch(r) PROVE TypeOK'
    BY <1>a, <1>36 DEF AbortAmbiguousDispatch, Goto, UnchangedByRequest
  <1>37. ASSUME NEW r \in Requests, EndPending(r) PROVE TypeOK'
    BY <1>a, <1>37 DEF EndPending, Goto, UnchangedByRequest
  <1>38. ASSUME NEW r \in Requests, EndWithRelease(r) PROVE TypeOK'
    BY <1>a, <1>38 DEF EndWithRelease, Goto, UnchangedByRequest
  <1>39. ASSUME NEW r \in Requests, PushConcurrencyRelease(r) PROVE TypeOK'
    BY <1>a, <1>39, LifetimeAssumption DEF PushConcurrencyRelease, Fault,
           UnchangedByRequest
  <1>40. CASE Shutdown
    BY <1>a, <1>40 DEF Shutdown
  <1>41. CASE UNCHANGED vars
    BY <1>a, <1>41 DEF vars
  <1>42. QED
    BY <1>1, <1>2, <1>3, <1>4, <1>5, <1>6, <1>7, <1>8, <1>9, <1>10, <1>11,
       <1>12, <1>13, <1>14, <1>15, <1>16, <1>17, <1>18, <1>19, <1>20, <1>21,
       <1>22, <1>23, <1>24, <1>25, <1>26, <1>27, <1>28, <1>29, <1>30, <1>31,
       <1>32, <1>33, <1>34, <1>35, <1>36, <1>37, <1>38, <1>39, <1>40, <1>41
       DEF Next, Subscribing, Supervising, Working, Dispatching

(* A dispatch holds the client of the lifetime at hand or a fenced one: what
   pickViaHome loads is current, and a client is closed before it is replaced. *)
LEMMA LifeStep ==
    ASSUME IndInv, [Next]_vars
    PROVE  LifeInv'
  <1> USE DEF LifeInv, TypeOK, WorkerInv, Connecting, Lives, supVars,
              clientVars, homeVars
  <1>a. TypeOK /\ LifeInv /\ WorkerInv
    BY DEF IndInv
  <1>1. CASE StartLifetime
    BY <1>a, <1>1 DEF StartLifetime
  <1>2. CASE LeaveLoop
    BY <1>a, <1>2 DEF LeaveLoop
  <1>3. CASE GetConfig
    BY <1>a, <1>3 DEF GetConfig
  <1>4. CASE Subscribe
    BY <1>a, <1>4 DEF Subscribe, HomeCommits, Takeover
  <1>5. CASE SubscribeFails
    BY <1>a, <1>5 DEF SubscribeFails, EndLifetime, Fault, HomeCommits, Takeover
  <1>6. CASE TakeoverRefused
    BY <1>a, <1>6 DEF TakeoverRefused, EndLifetime, Takeover
  <1>7. CASE ProtocolRefused
    BY <1>a, <1>7 DEF ProtocolRefused, EndLifetime, Fault
  <1>8. CASE Probe
    BY <1>a, <1>8 DEF Probe
  <1>9. CASE ProbeFails
    BY <1>a, <1>9 DEF ProbeFails, EndLifetime, Fault
  <1>10. CASE ConnectionLost
    BY <1>a, <1>10 DEF ConnectionLost, EndLifetime, Fault
  <1>11. CASE CloseOnCancellation
    BY <1>a, <1>11 DEF CloseOnCancellation, LifetimeDone
  <1>12. CASE Join
    BY <1>a, <1>12 DEF Join, Advance
  <1>13. CASE Detach
    BY <1>a, <1>13 DEF Detach, Advance
  <1>14. CASE CloseClient
    BY <1>a, <1>14 DEF CloseClient, Advance
  <1>15. CASE Settle
    BY <1>a, <1>15 DEF Settle, Advance
  <1>16. CASE GiveUp
    BY <1>a, <1>16 DEF GiveUp, Advance
  <1>17. CASE Judge
    BY <1>a, <1>17 DEF Judge, Unsafe, Advance
  <1>18. CASE Replace
    BY <1>a, <1>18 DEF Replace
  <1>19. CASE NextLifetime
    BY <1>a, <1>19 DEF NextLifetime
  <1>20. CASE Drained
    BY <1>a, <1>20 DEF Drained, Advance
  <1>21. CASE Flushed
    BY <1>a, <1>21 DEF Flushed, Advance
  <1>22. CASE Return
    BY <1>a, <1>22 DEF Return, Advance
  <1>23. CASE LastDrain
    BY <1>a, <1>23 DEF LastDrain, Advance
  <1>24. ASSUME NEW r \in Requests, Pick(r) PROVE LifeInv'
    BY <1>a, <1>24 DEF Pick, UnchangedByRequest
  <1>25. ASSUME NEW r \in Requests, BeginDispatch(r) PROVE LifeInv'
    BY <1>a, <1>25 DEF BeginDispatch, IsShut, Goto, UnchangedByRequest
  <1>26. ASSUME NEW r \in Requests, CheckFence(r) PROVE LifeInv'
    BY <1>a, <1>26 DEF CheckFence, Goto, UnchangedByRequest
  <1>27. ASSUME NEW r \in Requests, Granted(r) PROVE LifeInv'
    BY <1>a, <1>27 DEF Granted, WithSlot, Goto, UnchangedByRequest
  <1>28. ASSUME NEW r \in Requests, NotFound(r) PROVE LifeInv'
    BY <1>a, <1>28 DEF NotFound, Goto, UnchangedByRequest
  <1>29. ASSUME NEW r \in Requests, Unanswered(r) PROVE LifeInv'
    BY <1>a, <1>29 DEF Unanswered, WithSlot, Goto, UnchangedByRequest
  <1>30. ASSUME NEW r \in Requests, Install(r) PROVE LifeInv'
    BY <1>a, <1>30 DEF Install, IsShut, Goto, UnchangedByRequest
  <1>31. ASSUME NEW r \in Requests, AbortAmbiguousDispatch(r) PROVE LifeInv'
    BY <1>a, <1>31 DEF AbortAmbiguousDispatch, Goto, UnchangedByRequest
  <1>32. ASSUME NEW r \in Requests, EndPending(r) PROVE LifeInv'
    BY <1>a, <1>32 DEF EndPending, Goto, UnchangedByRequest
  <1>33. ASSUME NEW r \in Requests, EndWithRelease(r) PROVE LifeInv'
    BY <1>a, <1>33 DEF EndWithRelease, Goto, UnchangedByRequest
  <1>34. CASE HomeForgets \/ WorkerStages \/ PublishCheck \/
            PublishHomeDispatch \/ WorkerEnds \/ ConfigRefused \/ Shutdown
            \/ (\E r \in Requests : PushConcurrencyRelease(r))
    BY <1>a, <1>34 DEF HomeForgets, WorkerStages, PublishCheck,
           PublishHomeDispatch, WorkerEnds, ConfigRefused, Shutdown, PushConcurrencyRelease,
           Fault, LifetimeDone, UnchangedByRequest
  <1>35. CASE UNCHANGED vars
    BY <1>a, <1>35 DEF vars
  <1>36. QED
    BY <1>1, <1>2, <1>3, <1>4, <1>5, <1>6, <1>7, <1>8, <1>9, <1>10, <1>11,
       <1>12, <1>13, <1>14, <1>15, <1>16, <1>17, <1>18, <1>19, <1>20, <1>21,
       <1>22, <1>23, <1>24, <1>25, <1>26, <1>27, <1>28, <1>29, <1>30, <1>31,
       <1>32, <1>33, <1>34, <1>35
       DEF Next, Subscribing, Supervising, Working, Dispatching

(* A dispatch that has passed the fence is of the lifetime at hand, because
   WaitPending and Drain let none of them outlive it. *)
LEMMA DispatchStep ==
    ASSUME IndInv, [Next]_vars
    PROVE  DispatchInv'
  <1> USE DEF DispatchInv, TypeOK, LifeInv, ShutInv, Pending, Running,
              Connecting, supVars, clientVars, homeVars
  <1>a. TypeOK /\ LifeInv /\ DispatchInv /\ ShutInv
    BY DEF IndInv
  <1>1. CASE StartLifetime
    BY <1>a, <1>1 DEF StartLifetime
  <1>2. CASE LeaveLoop
    BY <1>a, <1>2 DEF LeaveLoop
  <1>3. CASE GetConfig
    BY <1>a, <1>3 DEF GetConfig
  <1>4. CASE Subscribe
    BY <1>a, <1>4 DEF Subscribe, HomeCommits, Takeover
  <1>5. CASE SubscribeFails
    BY <1>a, <1>5 DEF SubscribeFails, EndLifetime, Fault, HomeCommits, Takeover
  <1>6. CASE TakeoverRefused
    BY <1>a, <1>6 DEF TakeoverRefused, EndLifetime, Takeover
  <1>7. CASE ProtocolRefused
    BY <1>a, <1>7 DEF ProtocolRefused, EndLifetime, Fault
  <1>8. CASE Probe
    BY <1>a, <1>8 DEF Probe
  <1>9. CASE ProbeFails
    BY <1>a, <1>9 DEF ProbeFails, EndLifetime, Fault
  <1>10. CASE ConnectionLost
    BY <1>a, <1>10 DEF ConnectionLost, EndLifetime, Fault
  <1>11. CASE Join
    BY <1>a, <1>11 DEF Join, Advance
  <1>12. CASE Detach
    BY <1>a, <1>12 DEF Detach, Advance
  <1>13. CASE CloseClient
    BY <1>a, <1>13 DEF CloseClient, Advance
  <1>14. CASE Settle
    BY <1>a, <1>14 DEF Settle, Advance
  <1>15. CASE GiveUp
    BY <1>a, <1>15 DEF GiveUp, Advance
  <1>16. CASE Judge
    BY <1>a, <1>16 DEF Judge, Unsafe, Advance
  <1>17. CASE Replace
    BY <1>a, <1>17 DEF Replace
  <1>18. CASE NextLifetime
    BY <1>a, <1>18 DEF NextLifetime
  <1>19. CASE Drained
    BY <1>a, <1>19 DEF Drained, Advance
  <1>20. CASE Flushed
    BY <1>a, <1>20 DEF Flushed, Advance
  <1>21. CASE Return
    BY <1>a, <1>21 DEF Return, Advance
  <1>22. CASE LastDrain
    BY <1>a, <1>22 DEF LastDrain, Advance
  <1>23. ASSUME NEW r \in Requests, Pick(r) PROVE DispatchInv'
    BY <1>a, <1>23 DEF Pick, UnchangedByRequest
  <1>24. ASSUME NEW r \in Requests, BeginDispatch(r) PROVE DispatchInv'
    BY <1>a, <1>24 DEF BeginDispatch, IsShut, Goto, UnchangedByRequest
  <1>25. ASSUME NEW r \in Requests, CheckFence(r) PROVE DispatchInv'
    BY <1>a, <1>25 DEF CheckFence, Goto, UnchangedByRequest
  <1>26. ASSUME NEW r \in Requests, Granted(r) PROVE DispatchInv'
    BY <1>a, <1>26 DEF Granted, WithSlot, Goto, UnchangedByRequest
  <1>27. ASSUME NEW r \in Requests, NotFound(r) PROVE DispatchInv'
    BY <1>a, <1>27 DEF NotFound, Goto, UnchangedByRequest
  <1>28. ASSUME NEW r \in Requests, Unanswered(r) PROVE DispatchInv'
    BY <1>a, <1>28 DEF Unanswered, WithSlot, Goto, UnchangedByRequest
  <1>29. ASSUME NEW r \in Requests, Install(r) PROVE DispatchInv'
    BY <1>a, <1>29 DEF Install, IsShut, Goto, UnchangedByRequest
  <1>30. ASSUME NEW r \in Requests, AbortAmbiguousDispatch(r) PROVE DispatchInv'
    BY <1>a, <1>30 DEF AbortAmbiguousDispatch, Goto, UnchangedByRequest
  <1>31. ASSUME NEW r \in Requests, EndPending(r) PROVE DispatchInv'
    BY <1>a, <1>31 DEF EndPending, Goto, UnchangedByRequest
  <1>32. ASSUME NEW r \in Requests, EndWithRelease(r) PROVE DispatchInv'
    BY <1>a, <1>32 DEF EndWithRelease, Goto, UnchangedByRequest
  <1>33. CASE HomeForgets \/ WorkerStages \/ PublishCheck \/
            PublishHomeDispatch \/ WorkerEnds \/ ConfigRefused \/ CloseOnCancellation \/
            Shutdown \/ (\E r \in Requests : PushConcurrencyRelease(r))
    BY <1>a, <1>33 DEF HomeForgets, WorkerStages, PublishCheck,
           PublishHomeDispatch, WorkerEnds, ConfigRefused, CloseOnCancellation, Shutdown,
           PushConcurrencyRelease, Fault, LifetimeDone, UnchangedByRequest
  <1>34. CASE UNCHANGED vars
    BY <1>a, <1>34 DEF vars
  <1>35. QED
    BY <1>1, <1>2, <1>3, <1>4, <1>5, <1>6, <1>7, <1>8, <1>9, <1>10, <1>11,
       <1>12, <1>13, <1>14, <1>15, <1>16, <1>17, <1>18, <1>19, <1>20, <1>21,
       <1>22, <1>23, <1>24, <1>25, <1>26, <1>27, <1>28, <1>29, <1>30, <1>31,
       <1>32, <1>33, <1>34
       DEF Next, Subscribing, Supervising, Working, Dispatching

(* The configuration worker is joined before the supervisor goes on, so that
   a bundle is only published while its lifetime is the one at hand. *)
LEMMA WorkerStep ==
    ASSUME IndInv, [Next]_vars
    PROVE  WorkerInv'
  <1> USE DEF WorkerInv, LifeInv, Connecting, LifetimeDone, supVars,
              clientVars, homeVars
  <1>a. LifeInv /\ WorkerInv
    BY DEF IndInv
  <1>1. CASE StartLifetime
    BY <1>a, <1>1 DEF StartLifetime
  <1>2. CASE LeaveLoop
    BY <1>a, <1>2 DEF LeaveLoop
  <1>3. CASE GetConfig
    BY <1>a, <1>3 DEF GetConfig
  <1>4. CASE Subscribe
    BY <1>a, <1>4 DEF Subscribe, HomeCommits, Takeover
  <1>5. CASE SubscribeFails
    BY <1>a, <1>5 DEF SubscribeFails, EndLifetime, Fault, HomeCommits, Takeover
  <1>6. CASE TakeoverRefused
    BY <1>a, <1>6 DEF TakeoverRefused, EndLifetime, Takeover
  <1>7. CASE ProtocolRefused
    BY <1>a, <1>7 DEF ProtocolRefused, EndLifetime, Fault
  <1>8. CASE Probe
    BY <1>a, <1>8 DEF Probe
  <1>9. CASE ProbeFails
    BY <1>a, <1>9 DEF ProbeFails, EndLifetime, Fault
  <1>10. CASE ConnectionLost
    BY <1>a, <1>10 DEF ConnectionLost, EndLifetime, Fault
  <1>11. CASE WorkerStages
    BY <1>a, <1>11 DEF WorkerStages
  <1>12. CASE PublishCheck
    BY <1>a, <1>12 DEF PublishCheck
  <1>13. CASE PublishHomeDispatch
    BY <1>a, <1>13 DEF PublishHomeDispatch
  <1>14. CASE WorkerEnds \/ ConfigRefused
    BY <1>a, <1>14 DEF WorkerEnds, ConfigRefused
  <1>15. CASE CloseOnCancellation
    BY <1>a, <1>15 DEF CloseOnCancellation
  <1>16. CASE Join
    BY <1>a, <1>16 DEF Join, Advance
  <1>17. CASE Detach
    BY <1>a, <1>17 DEF Detach, Advance
  <1>18. CASE CloseClient
    BY <1>a, <1>18 DEF CloseClient, Advance
  <1>19. CASE Settle
    BY <1>a, <1>19 DEF Settle, Advance
  <1>20. CASE GiveUp
    BY <1>a, <1>20 DEF GiveUp, Advance
  <1>21. CASE Judge
    BY <1>a, <1>21 DEF Judge, Unsafe, Advance
  <1>22. CASE Replace
    BY <1>a, <1>22 DEF Replace
  <1>23. CASE NextLifetime
    BY <1>a, <1>23 DEF NextLifetime
  <1>24. CASE Drained
    BY <1>a, <1>24 DEF Drained, Advance
  <1>25. CASE Flushed
    BY <1>a, <1>25 DEF Flushed, Advance
  <1>26. CASE Return
    BY <1>a, <1>26 DEF Return, Advance
  <1>27. CASE LastDrain
    BY <1>a, <1>27 DEF LastDrain, Advance
  <1>28. CASE Shutdown
    BY <1>a, <1>28 DEF Shutdown
  <1>29. ASSUME NEW r \in Requests, AbortAmbiguousDispatch(r) PROVE WorkerInv'
    BY <1>a, <1>29 DEF AbortAmbiguousDispatch, Goto, UnchangedByRequest
  <1>30. CASE HomeForgets \/ (\E r \in Requests : Pick(r)) \/ (\E r \in
            Requests : BeginDispatch(r)) \/ (\E r \in Requests : CheckFence(r))
            \/ (\E r \in Requests : Granted(r)) \/ (\E r \in Requests :
            NotFound(r)) \/ (\E r \in Requests : Unanswered(r)) \/ (\E r \in
            Requests : Install(r)) \/ (\E r \in Requests : EndPending(r)) \/
            (\E r \in Requests : EndWithRelease(r)) \/ (\E r \in Requests :
            PushConcurrencyRelease(r))
    BY <1>a, <1>30 DEF HomeForgets, Pick, BeginDispatch, CheckFence, Granted,
           NotFound, Unanswered, Install, EndPending, EndWithRelease,
           PushConcurrencyRelease, Fault, UnchangedByRequest, IsShut, Goto,
           WithSlot
  <1>31. CASE UNCHANGED vars
    BY <1>a, <1>31 DEF vars
  <1>32. QED
    BY <1>1, <1>2, <1>3, <1>4, <1>5, <1>6, <1>7, <1>8, <1>9, <1>10, <1>11,
       <1>12, <1>13, <1>14, <1>15, <1>16, <1>17, <1>18, <1>19, <1>20, <1>21,
       <1>22, <1>23, <1>24, <1>25, <1>26, <1>27, <1>28, <1>29, <1>30, <1>31
       DEF Next, Subscribing, Supervising, Working, Dispatching

(* The registry is shut by Drain only, and loses its sink only when it is not
   going to be flushed. *)
LEMMA ShutStep ==
    ASSUME IndInv, [Next]_vars
    PROVE  ShutInv'
  <1> USE DEF ShutInv, supVars, clientVars, homeVars
  <1>a. ShutInv
    BY DEF IndInv
  <1>1. CASE StartLifetime
    BY <1>a, <1>1 DEF StartLifetime
  <1>2. CASE LeaveLoop
    BY <1>a, <1>2 DEF LeaveLoop
  <1>3. CASE GetConfig
    BY <1>a, <1>3 DEF GetConfig
  <1>4. CASE Subscribe
    BY <1>a, <1>4 DEF Subscribe, HomeCommits, Takeover
  <1>5. CASE SubscribeFails
    BY <1>a, <1>5 DEF SubscribeFails, EndLifetime, Fault, HomeCommits, Takeover
  <1>6. CASE TakeoverRefused
    BY <1>a, <1>6 DEF TakeoverRefused, EndLifetime, Takeover
  <1>7. CASE ProtocolRefused
    BY <1>a, <1>7 DEF ProtocolRefused, EndLifetime, Fault
  <1>8. CASE Probe
    BY <1>a, <1>8 DEF Probe
  <1>9. CASE ProbeFails
    BY <1>a, <1>9 DEF ProbeFails, EndLifetime, Fault
  <1>10. CASE ConnectionLost
    BY <1>a, <1>10 DEF ConnectionLost, EndLifetime, Fault
  <1>11. CASE Join
    BY <1>a, <1>11 DEF Join, Advance
  <1>12. CASE Detach
    BY <1>a, <1>12 DEF Detach, Advance
  <1>13. CASE CloseClient
    BY <1>a, <1>13 DEF CloseClient, Advance
  <1>14. CASE Settle
    BY <1>a, <1>14 DEF Settle, Advance
  <1>15. CASE GiveUp
    BY <1>a, <1>15 DEF GiveUp, Advance
  <1>16. CASE Judge
    BY <1>a, <1>16 DEF Judge, Unsafe, Advance
  <1>17. CASE Replace
    BY <1>a, <1>17 DEF Replace
  <1>18. CASE NextLifetime
    BY <1>a, <1>18 DEF NextLifetime
  <1>19. CASE Drained
    BY <1>a, <1>19 DEF Drained, Advance
  <1>20. CASE Flushed
    BY <1>a, <1>20 DEF Flushed, Advance
  <1>21. CASE Return
    BY <1>a, <1>21 DEF Return, Advance
  <1>22. CASE LastDrain
    BY <1>a, <1>22 DEF LastDrain, Advance
  <1>23. CASE HomeForgets \/ WorkerStages \/ PublishCheck \/
            PublishHomeDispatch \/ WorkerEnds \/ ConfigRefused \/ CloseOnCancellation \/
            Shutdown \/ (\E r \in Requests : Pick(r)) \/ (\E r \in Requests :
            BeginDispatch(r)) \/ (\E r \in Requests : CheckFence(r)) \/ (\E r
            \in Requests : Granted(r)) \/ (\E r \in Requests : NotFound(r)) \/
            (\E r \in Requests : Unanswered(r)) \/ (\E r \in Requests :
            Install(r)) \/ (\E r \in Requests : AbortAmbiguousDispatch(r)) \/
            (\E r \in Requests : EndPending(r)) \/ (\E r \in Requests :
            EndWithRelease(r)) \/ (\E r \in Requests :
            PushConcurrencyRelease(r))
    BY <1>a, <1>23 DEF HomeForgets, WorkerStages, PublishCheck,
           PublishHomeDispatch, WorkerEnds, ConfigRefused, CloseOnCancellation, Shutdown,
           Pick, BeginDispatch, CheckFence, Granted, NotFound, Unanswered,
           Install, AbortAmbiguousDispatch, EndPending, EndWithRelease,
           PushConcurrencyRelease, Fault, LifetimeDone, UnchangedByRequest,
           IsShut, Goto, WithSlot
  <1>24. CASE UNCHANGED vars
    BY <1>a, <1>24 DEF vars
  <1>25. QED
    BY <1>1, <1>2, <1>3, <1>4, <1>5, <1>6, <1>7, <1>8, <1>9, <1>10, <1>11,
       <1>12, <1>13, <1>14, <1>15, <1>16, <1>17, <1>18, <1>19, <1>20, <1>21,
       <1>22, <1>23, <1>24
       DEF Next, Subscribing, Supervising, Working, Dispatching

(* Home counts every execution of a membership it knows: a lifetime that does
   not take the membership over finds nothing running. *)
LEMMA CountStep ==
    ASSUME IndInv, [Next]_vars
    PROVE  CountInv'
  <1> USE DEF CountInv, LifeInv, DispatchInv, WorkerInv, SlotInv, Live,
              Takeover, Prepared, Running, Connecting, supVars, clientVars,
              homeVars
  <1>a. LifeInv /\ DispatchInv /\ WorkerInv /\ CountInv /\ SlotInv
    BY DEF IndInv
  <1>1. CASE StartLifetime
    BY <1>a, <1>1 DEF StartLifetime
  <1>2. CASE LeaveLoop
    BY <1>a, <1>2 DEF LeaveLoop
  <1>3. CASE GetConfig
    BY <1>a, <1>3 DEF GetConfig
  <1>4. CASE Subscribe
    BY <1>a, <1>4 DEF Subscribe, HomeCommits
  <1>5. CASE SubscribeFails
    BY <1>a, <1>5 DEF SubscribeFails, EndLifetime, Fault, HomeCommits
  <1>6. CASE TakeoverRefused
    BY <1>a, <1>6 DEF TakeoverRefused, EndLifetime
  <1>7. CASE ProtocolRefused
    BY <1>a, <1>7 DEF ProtocolRefused, EndLifetime, Fault
  <1>8. CASE Probe
    BY <1>a, <1>8 DEF Probe
  <1>9. CASE ProbeFails
    BY <1>a, <1>9 DEF ProbeFails, EndLifetime, Fault
  <1>10. CASE ConnectionLost
    BY <1>a, <1>10 DEF ConnectionLost, EndLifetime, Fault
  <1>11. CASE HomeForgets
    BY <1>a, <1>11 DEF HomeForgets, Fault
  <1>12. CASE WorkerStages
    BY <1>a, <1>12 DEF WorkerStages, LifetimeDone
  <1>13. CASE PublishCheck
    BY <1>a, <1>13 DEF PublishCheck, LifetimeDone
  <1>14. CASE PublishHomeDispatch
    BY <1>a, <1>14 DEF PublishHomeDispatch
  <1>15. CASE WorkerEnds \/ ConfigRefused
    BY <1>a, <1>15 DEF WorkerEnds, ConfigRefused, LifetimeDone
  <1>16. CASE CloseOnCancellation
    BY <1>a, <1>16 DEF CloseOnCancellation, LifetimeDone
  <1>17. CASE Join
    BY <1>a, <1>17 DEF Join, Advance
  <1>18. CASE Detach
    BY <1>a, <1>18 DEF Detach, Advance
  <1>19. CASE CloseClient
    BY <1>a, <1>19 DEF CloseClient, Advance
  <1>20. CASE Settle
    BY <1>a, <1>20 DEF Settle, Advance
  <1>21. CASE GiveUp
    BY <1>a, <1>21 DEF GiveUp, Advance
  <1>22. CASE Judge
    BY <1>a, <1>22 DEF Judge, Unsafe, Advance
  <1>23. CASE Replace
    BY <1>a, <1>23 DEF Replace
  <1>24. CASE NextLifetime
    BY <1>a, <1>24 DEF NextLifetime
  <1>25. CASE Drained
    BY <1>a, <1>25 DEF Drained, Advance
  <1>26. CASE Flushed
    BY <1>a, <1>26 DEF Flushed, Advance
  <1>27. CASE Return
    BY <1>a, <1>27 DEF Return, Advance
  <1>28. CASE LastDrain
    BY <1>a, <1>28 DEF LastDrain, Advance
  <1>29. CASE Shutdown
    BY <1>a, <1>29 DEF Shutdown
  <1>30. ASSUME NEW r \in Requests, Pick(r) PROVE CountInv'
    BY <1>a, <1>30 DEF Pick, UnchangedByRequest
  <1>31. ASSUME NEW r \in Requests, BeginDispatch(r) PROVE CountInv'
    BY <1>a, <1>31 DEF BeginDispatch, IsShut, Goto, UnchangedByRequest
  <1>32. ASSUME NEW r \in Requests, CheckFence(r) PROVE CountInv'
    BY <1>a, <1>32 DEF CheckFence, Goto, UnchangedByRequest
  <1>33. ASSUME NEW r \in Requests, Granted(r) PROVE CountInv'
    BY <1>a, <1>33 DEF Granted, WithSlot, Goto, UnchangedByRequest
  <1>34. ASSUME NEW r \in Requests, NotFound(r) PROVE CountInv'
    BY <1>a, <1>34 DEF NotFound, Goto, UnchangedByRequest
  <1>35. ASSUME NEW r \in Requests, Unanswered(r) PROVE CountInv'
    BY <1>a, <1>35 DEF Unanswered, WithSlot, Goto, UnchangedByRequest
  <1>36. ASSUME NEW r \in Requests, Install(r) PROVE CountInv'
    BY <1>a, <1>36 DEF Install, IsShut, Goto, UnchangedByRequest
  <1>37. ASSUME NEW r \in Requests, AbortAmbiguousDispatch(r) PROVE CountInv'
    BY <1>a, <1>37 DEF AbortAmbiguousDispatch, Goto, UnchangedByRequest
  <1>38. ASSUME NEW r \in Requests, EndPending(r) PROVE CountInv'
    BY <1>a, <1>38 DEF EndPending, Goto, UnchangedByRequest
  <1>39. ASSUME NEW r \in Requests, EndWithRelease(r) PROVE CountInv'
    BY <1>a, <1>39 DEF EndWithRelease, Goto, UnchangedByRequest
  <1>40. ASSUME NEW r \in Requests, PushConcurrencyRelease(r) PROVE CountInv'
    BY <1>a, <1>40 DEF PushConcurrencyRelease, Fault, UnchangedByRequest
  <1>41. CASE UNCHANGED vars
    BY <1>a, <1>41 DEF vars
  <1>42. QED
    BY <1>1, <1>2, <1>3, <1>4, <1>5, <1>6, <1>7, <1>8, <1>9, <1>10, <1>11,
       <1>12, <1>13, <1>14, <1>15, <1>16, <1>17, <1>18, <1>19, <1>20, <1>21,
       <1>22, <1>23, <1>24, <1>25, <1>26, <1>27, <1>28, <1>29, <1>30, <1>31,
       <1>32, <1>33, <1>34, <1>35, <1>36, <1>37, <1>38, <1>39, <1>40, <1>41
       DEF Next, Subscribing, Supervising, Working, Dispatching

(* A slot at Home belongs to a request or its marked release, or to what a
   drained registry or an ambiguous dispatch has left. *)
LEMMA SlotStep ==
    ASSUME IndInv, [Next]_vars
    PROVE  SlotInv'
  <1> USE DEF SlotInv, TypeOK, LifeInv, DispatchInv, ShutInv, Accounted,
              Takeover, Pending, Connecting, supVars, clientVars, homeVars
  <1>a. TypeOK /\ LifeInv /\ DispatchInv /\ ShutInv /\ SlotInv
    BY DEF IndInv
  <1>1. CASE StartLifetime
    BY <1>a, <1>1 DEF StartLifetime
  <1>2. CASE LeaveLoop
    BY <1>a, <1>2 DEF LeaveLoop
  <1>3. CASE GetConfig
    BY <1>a, <1>3 DEF GetConfig
  <1>4. CASE Subscribe
    BY <1>a, <1>4 DEF Subscribe, HomeCommits
  <1>5. CASE SubscribeFails
    BY <1>a, <1>5 DEF SubscribeFails, EndLifetime, Fault, HomeCommits
  <1>6. CASE TakeoverRefused
    BY <1>a, <1>6 DEF TakeoverRefused, EndLifetime
  <1>7. CASE ProtocolRefused
    BY <1>a, <1>7 DEF ProtocolRefused, EndLifetime, Fault
  <1>8. CASE Probe
    BY <1>a, <1>8 DEF Probe
  <1>9. CASE ProbeFails
    BY <1>a, <1>9 DEF ProbeFails, EndLifetime, Fault
  <1>10. CASE ConnectionLost
    BY <1>a, <1>10 DEF ConnectionLost, EndLifetime, Fault
  <1>11. CASE HomeForgets
    BY <1>a, <1>11 DEF HomeForgets, Fault
  <1>12. CASE Join
    BY <1>a, <1>12 DEF Join, Advance
  <1>13. CASE Detach
    BY <1>a, <1>13 DEF Detach, Advance
  <1>14. CASE CloseClient
    BY <1>a, <1>14 DEF CloseClient, Advance
  <1>15. CASE Settle
    BY <1>a, <1>15 DEF Settle, Advance
  <1>16. CASE GiveUp
    BY <1>a, <1>16 DEF GiveUp, Advance
  <1>17. CASE Judge
    BY <1>a, <1>17 DEF Judge, Unsafe, Advance
  <1>18. CASE Replace
    BY <1>a, <1>18 DEF Replace
  <1>19. CASE NextLifetime
    BY <1>a, <1>19 DEF NextLifetime
  <1>20. CASE Drained
    BY <1>a, <1>20 DEF Drained, Advance
  <1>21. CASE Flushed
    BY <1>a, <1>21 DEF Flushed, Advance
  <1>22. CASE Return
    BY <1>a, <1>22 DEF Return, Advance
  <1>23. CASE LastDrain
    BY <1>a, <1>23 DEF LastDrain, Advance
  <1>24. ASSUME NEW r \in Requests, Pick(r) PROVE SlotInv'
    BY <1>a, <1>24 DEF Pick, UnchangedByRequest
  <1>25. ASSUME NEW r \in Requests, BeginDispatch(r) PROVE SlotInv'
    BY <1>a, <1>25 DEF BeginDispatch, IsShut, Goto, UnchangedByRequest
  <1>26. ASSUME NEW r \in Requests, CheckFence(r) PROVE SlotInv'
    BY <1>a, <1>26 DEF CheckFence, Goto, UnchangedByRequest
  <1>27. ASSUME NEW r \in Requests, Granted(r) PROVE SlotInv'
    BY <1>a, <1>27 DEF Granted, WithSlot, Goto, UnchangedByRequest
  <1>28. ASSUME NEW r \in Requests, NotFound(r) PROVE SlotInv'
    BY <1>a, <1>28 DEF NotFound, Goto, UnchangedByRequest
  <1>29. ASSUME NEW r \in Requests, Unanswered(r) PROVE SlotInv'
    BY <1>a, <1>29 DEF Unanswered, WithSlot, Goto, UnchangedByRequest
  <1>30. ASSUME NEW r \in Requests, Install(r) PROVE SlotInv'
    BY <1>a, <1>30 DEF Install, IsShut, Goto, UnchangedByRequest
  <1>31. ASSUME NEW r \in Requests, AbortAmbiguousDispatch(r) PROVE SlotInv'
    BY <1>a, <1>31 DEF AbortAmbiguousDispatch, Goto, UnchangedByRequest
  <1>32. ASSUME NEW r \in Requests, EndPending(r) PROVE SlotInv'
    BY <1>a, <1>32 DEF EndPending, Goto, UnchangedByRequest
  <1>33. ASSUME NEW r \in Requests, EndWithRelease(r) PROVE SlotInv'
    BY <1>a, <1>33 DEF EndWithRelease, Goto, UnchangedByRequest
  <1>34. ASSUME NEW r \in Requests, PushConcurrencyRelease(r) PROVE SlotInv'
    BY <1>a, <1>34 DEF PushConcurrencyRelease, Fault, UnchangedByRequest
  <1>35. CASE WorkerStages \/ PublishCheck \/ PublishHomeDispatch \/ WorkerEnds
            \/ ConfigRefused
            \/ CloseOnCancellation \/ Shutdown
    BY <1>a, <1>35 DEF WorkerStages, PublishCheck, PublishHomeDispatch,
           WorkerEnds, ConfigRefused, CloseOnCancellation, Shutdown, LifetimeDone
  <1>36. CASE UNCHANGED vars
    BY <1>a, <1>36 DEF vars
  <1>37. QED
    BY <1>1, <1>2, <1>3, <1>4, <1>5, <1>6, <1>7, <1>8, <1>9, <1>10, <1>11,
       <1>12, <1>13, <1>14, <1>15, <1>16, <1>17, <1>18, <1>19, <1>20, <1>21,
       <1>22, <1>23, <1>24, <1>25, <1>26, <1>27, <1>28, <1>29, <1>30, <1>31,
       <1>32, <1>33, <1>34, <1>35, <1>36
       DEF Next, Subscribing, Supervising, Working, Dispatching

(* No execution starts in a registry that is shut, and a registry is replaced
   and the supervisor ends only after a Drain or a failure. *)
LEMMA OrphansStep ==
    ASSUME IndInv, [Next]_vars
    PROVE  NoOrphans'
  <1> USE DEF NoOrphans, DispatchInv, ShutInv, Running, Pending, supVars,
              clientVars, homeVars
  <1>a. DispatchInv /\ ShutInv /\ NoOrphans
    BY DEF IndInv
  <1>1. CASE StartLifetime
    BY <1>a, <1>1 DEF StartLifetime
  <1>2. CASE LeaveLoop
    BY <1>a, <1>2 DEF LeaveLoop
  <1>3. CASE GetConfig
    BY <1>a, <1>3 DEF GetConfig
  <1>4. CASE Subscribe
    BY <1>a, <1>4 DEF Subscribe, HomeCommits, Takeover
  <1>5. CASE SubscribeFails
    BY <1>a, <1>5 DEF SubscribeFails, EndLifetime, Fault, HomeCommits, Takeover
  <1>6. CASE TakeoverRefused
    BY <1>a, <1>6 DEF TakeoverRefused, EndLifetime, Takeover
  <1>7. CASE ProtocolRefused
    BY <1>a, <1>7 DEF ProtocolRefused, EndLifetime, Fault
  <1>8. CASE Probe
    BY <1>a, <1>8 DEF Probe
  <1>9. CASE ProbeFails
    BY <1>a, <1>9 DEF ProbeFails, EndLifetime, Fault
  <1>10. CASE ConnectionLost
    BY <1>a, <1>10 DEF ConnectionLost, EndLifetime, Fault
  <1>11. CASE Join
    BY <1>a, <1>11 DEF Join, Advance
  <1>12. CASE Detach
    BY <1>a, <1>12 DEF Detach, Advance
  <1>13. CASE CloseClient
    BY <1>a, <1>13 DEF CloseClient, Advance
  <1>14. CASE Settle
    BY <1>a, <1>14 DEF Settle, Advance
  <1>15. CASE GiveUp
    BY <1>a, <1>15 DEF GiveUp, Advance
  <1>16. CASE Judge
    BY <1>a, <1>16 DEF Judge, Unsafe, Advance
  <1>17. CASE Replace
    BY <1>a, <1>17 DEF Replace
  <1>18. CASE NextLifetime
    BY <1>a, <1>18 DEF NextLifetime
  <1>19. CASE Drained
    BY <1>a, <1>19 DEF Drained, Advance
  <1>20. CASE Flushed
    BY <1>a, <1>20 DEF Flushed, Advance
  <1>21. CASE Return
    BY <1>a, <1>21 DEF Return, Advance
  <1>22. CASE LastDrain
    BY <1>a, <1>22 DEF LastDrain, Advance
  <1>23. ASSUME NEW r \in Requests, Pick(r) PROVE NoOrphans'
    BY <1>a, <1>23 DEF Pick, UnchangedByRequest
  <1>24. ASSUME NEW r \in Requests, BeginDispatch(r) PROVE NoOrphans'
    BY <1>a, <1>24 DEF BeginDispatch, IsShut, Goto, UnchangedByRequest
  <1>25. ASSUME NEW r \in Requests, CheckFence(r) PROVE NoOrphans'
    BY <1>a, <1>25 DEF CheckFence, Goto, UnchangedByRequest
  <1>26. ASSUME NEW r \in Requests, Granted(r) PROVE NoOrphans'
    BY <1>a, <1>26 DEF Granted, WithSlot, Goto, UnchangedByRequest
  <1>27. ASSUME NEW r \in Requests, NotFound(r) PROVE NoOrphans'
    BY <1>a, <1>27 DEF NotFound, Goto, UnchangedByRequest
  <1>28. ASSUME NEW r \in Requests, Unanswered(r) PROVE NoOrphans'
    BY <1>a, <1>28 DEF Unanswered, WithSlot, Goto, UnchangedByRequest
  <1>29. ASSUME NEW r \in Requests, Install(r) PROVE NoOrphans'
    BY <1>a, <1>29 DEF Install, IsShut, Goto, UnchangedByRequest
  <1>30. ASSUME NEW r \in Requests, AbortAmbiguousDispatch(r) PROVE NoOrphans'
    BY <1>a, <1>30 DEF AbortAmbiguousDispatch, Goto, UnchangedByRequest
  <1>31. ASSUME NEW r \in Requests, EndPending(r) PROVE NoOrphans'
    BY <1>a, <1>31 DEF EndPending, Goto, UnchangedByRequest
  <1>32. ASSUME NEW r \in Requests, EndWithRelease(r) PROVE NoOrphans'
    BY <1>a, <1>32 DEF EndWithRelease, Goto, UnchangedByRequest
  <1>33. CASE HomeForgets \/ WorkerStages \/ PublishCheck \/
            PublishHomeDispatch \/ WorkerEnds \/ ConfigRefused \/ CloseOnCancellation \/
            Shutdown \/ (\E r \in Requests : PushConcurrencyRelease(r))
    BY <1>a, <1>33 DEF HomeForgets, WorkerStages, PublishCheck,
           PublishHomeDispatch, WorkerEnds, ConfigRefused, CloseOnCancellation, Shutdown,
           PushConcurrencyRelease, Fault, LifetimeDone, UnchangedByRequest
  <1>34. CASE UNCHANGED vars
    BY <1>a, <1>34 DEF vars
  <1>35. QED
    BY <1>1, <1>2, <1>3, <1>4, <1>5, <1>6, <1>7, <1>8, <1>9, <1>10, <1>11,
       <1>12, <1>13, <1>14, <1>15, <1>16, <1>17, <1>18, <1>19, <1>20, <1>21,
       <1>22, <1>23, <1>24, <1>25, <1>26, <1>27, <1>28, <1>29, <1>30, <1>31,
       <1>32, <1>33, <1>34
       DEF Next, Subscribing, Supervising, Working, Dispatching

(* When Flush has succeeded nothing is pending, running or marked. *)
LEMMA OrderlyStep ==
    ASSUME IndInv, [Next]_vars
    PROVE  OrderlyEndReleasesAll'
  <1> USE DEF OrderlyEndReleasesAll, TypeOK, DispatchInv, ShutInv, SlotInv,
              Running, Pending, supVars, clientVars, homeVars
  <1>a. TypeOK /\ DispatchInv /\ ShutInv /\ SlotInv /\ OrderlyEndReleasesAll
    BY DEF IndInv
  <1>1. CASE Subscribe
    BY <1>a, <1>1 DEF Subscribe, HomeCommits, Takeover
  <1>2. CASE SubscribeFails
    BY <1>a, <1>2 DEF SubscribeFails, EndLifetime, Fault, HomeCommits, Takeover
  <1>3. CASE HomeForgets
    BY <1>a, <1>3 DEF HomeForgets, Fault
  <1>4. CASE Replace
    BY <1>a, <1>4 DEF Replace
  <1>5. CASE Flushed
    BY <1>a, <1>5 DEF Flushed, Advance
  <1>6. ASSUME NEW r \in Requests, Pick(r) PROVE OrderlyEndReleasesAll'
    BY <1>a, <1>6 DEF Pick, UnchangedByRequest
  <1>7. ASSUME NEW r \in Requests, BeginDispatch(r) PROVE OrderlyEndReleasesAll'
    BY <1>a, <1>7 DEF BeginDispatch, IsShut, Goto, UnchangedByRequest
  <1>8. ASSUME NEW r \in Requests, CheckFence(r) PROVE OrderlyEndReleasesAll'
    BY <1>a, <1>8 DEF CheckFence, Goto, UnchangedByRequest
  <1>9. ASSUME NEW r \in Requests, Granted(r) PROVE OrderlyEndReleasesAll'
    BY <1>a, <1>9 DEF Granted, WithSlot, Goto, UnchangedByRequest
  <1>10. ASSUME NEW r \in Requests, NotFound(r) PROVE OrderlyEndReleasesAll'
    BY <1>a, <1>10 DEF NotFound, Goto, UnchangedByRequest
  <1>11. ASSUME NEW r \in Requests, Unanswered(r) PROVE OrderlyEndReleasesAll'
    BY <1>a, <1>11 DEF Unanswered, WithSlot, Goto, UnchangedByRequest
  <1>12. ASSUME NEW r \in Requests, Install(r) PROVE OrderlyEndReleasesAll'
    BY <1>a, <1>12 DEF Install, IsShut, Goto, UnchangedByRequest
  <1>13. ASSUME NEW r \in Requests, AbortAmbiguousDispatch(r) PROVE OrderlyEndReleasesAll'
    BY <1>a, <1>13 DEF AbortAmbiguousDispatch, Goto, UnchangedByRequest
  <1>14. ASSUME NEW r \in Requests, EndPending(r) PROVE OrderlyEndReleasesAll'
    BY <1>a, <1>14 DEF EndPending, Goto, UnchangedByRequest
  <1>15. ASSUME NEW r \in Requests, EndWithRelease(r) PROVE OrderlyEndReleasesAll'
    BY <1>a, <1>15 DEF EndWithRelease, Goto, UnchangedByRequest
  <1>16. ASSUME NEW r \in Requests, PushConcurrencyRelease(r) PROVE OrderlyEndReleasesAll'
    BY <1>a, <1>16 DEF PushConcurrencyRelease, Fault, UnchangedByRequest
  <1>17. CASE StartLifetime \/ LeaveLoop \/ GetConfig \/ TakeoverRefused \/
            ProtocolRefused \/ Probe \/ ProbeFails \/ ConnectionLost \/
            WorkerStages \/ PublishCheck \/ PublishHomeDispatch \/ WorkerEnds
            \/ ConfigRefused
            \/ CloseOnCancellation \/ Join \/ Detach \/ CloseClient \/ Settle
            \/ GiveUp \/ Judge \/ NextLifetime \/ Drained \/ Return \/
            LastDrain \/ Shutdown
    BY <1>a, <1>17 DEF StartLifetime, LeaveLoop, GetConfig, TakeoverRefused,
           ProtocolRefused, Probe, ProbeFails, ConnectionLost, WorkerStages,
           PublishCheck, PublishHomeDispatch, WorkerEnds, ConfigRefused,
           CloseOnCancellation, Join, Detach, CloseClient, Settle, GiveUp, Judge, NextLifetime,
           Drained, Return, LastDrain, Shutdown, EndLifetime, Takeover, Fault,
           LifetimeDone, Advance, Unsafe
  <1>18. CASE UNCHANGED vars
    BY <1>a, <1>18 DEF vars
  <1>19. QED
    BY <1>1, <1>2, <1>3, <1>4, <1>5, <1>6, <1>7, <1>8, <1>9, <1>10, <1>11,
       <1>12, <1>13, <1>14, <1>15, <1>16, <1>17, <1>18
       DEF Next, Subscribing, Supervising, Working, Dispatching

(* The service starts without a lifetime, a request or a slot. *)
LEMMA InitInv == Init => IndInv
  <1> SUFFICES ASSUME Init PROVE IndInv
    OBVIOUS
  <1> USE DEF Init
  <1>1. TypeOK
    <2>1. FlagsOK
      BY DEF FlagsOK
    <2>2. 1 \in Lives
      BY LifetimeAssumption DEF Lives
    <2>3. faults \in 0..MaxFaults
      BY LifetimeAssumption
    <2>4. req \in [Requests -> [pc : ReqStages, life : Lives, reg : Nat]]
      BY <2>2 DEF ReqStages
    <2>5. QED
      BY <2>1, <2>2, <2>3, <2>4 DEF TypeOK, SupStages
  <1>2. LifeInv /\ DispatchInv /\ WorkerInv /\ ShutInv
    BY DEF LifeInv, DispatchInv, WorkerInv, ShutInv, Connecting, Pending,
           Running, LifetimeDone
  <1>3. CountInv /\ SlotInv /\ NoOrphans /\ OrderlyEndReleasesAll
    BY DEF CountInv, SlotInv, NoOrphans, OrderlyEndReleasesAll, Live, Running,
           Takeover, Prepared, Accounted
  <1>4. QED
    BY <1>1, <1>2, <1>3 DEF IndInv

(* The inductive invariant holds of every reachable state. *)
THEOREM Invariance == Spec => []IndInv
  <1>1. IndInv /\ [Next]_vars => IndInv'
    BY TypeStep, LifeStep, DispatchStep, WorkerStep, ShutStep, CountStep,
       SlotStep, OrphansStep, OrderlyStep
       DEF IndInv
  <1>2. QED
    BY InitInv, <1>1, PTL DEF Spec

(* The variables of the supervisor, the worker, the clients and the requests
   keep their types; in particular no client beats once it is fenced. *)
THEOREM TypeCorrect == Spec => []TypeOK
  <1>1. IndInv => TypeOK
    BY DEF IndInv
  <1>2. QED
    BY Invariance, <1>1, PTL

(* While runHomeSubscriber serves a lifetime, Home has a slot for every
   execution, whether it took the membership over or started it from zero. *)
THEOREM ExecutionsCounted == Spec => []ExecutionsAreCounted
  <1>1. IndInv => ExecutionsAreCounted
    BY DEF IndInv, CountInv, ExecutionsAreCounted, Live, Running
  <1>2. QED
    BY Invariance, <1>1, PTL

(* While a lifetime without an ambiguous dispatch is served, every slot that
   Home holds belongs to a dispatch, an execution or a marked release. *)
THEOREM SlotsAccounted == Spec => []NoSlotLeaks
  <1>1. IndInv => NoSlotLeaks
    BY DEF IndInv, SlotInv, NoSlotLeaks
  <1>2. QED
    BY Invariance, <1>1, PTL

(* An execution never outlives the supervision of its registry, unless a Drain
   has timed out and the service was cancelled. *)
THEOREM ExecutionsSupervised == Spec => []NoOrphans
  <1>1. IndInv => NoOrphans
    BY DEF IndInv
  <1>2. QED
    BY Invariance, <1>1, PTL

(* What HomeDispatchBundle returns is the lifetime at hand with a registry that
   accepts work, and a client that only an ambiguous dispatch has fenced. *)
THEOREM PublishedCurrent == Spec => []PublishedIsCurrent
  <1>1. IndInv => PublishedIsCurrent
    BY DEF IndInv, WorkerInv, ShutInv, PublishedIsCurrent
  <1>2. QED
    BY Invariance, <1>1, PTL

(* After a Drain and a Flush that succeeded, Home holds no slot of the
   registry, except one that an ambiguous dispatch may have been granted. *)
THEOREM OrderlyEnd == Spec => []OrderlyEndReleasesAll
  <1>1. IndInv => OrderlyEndReleasesAll
    BY DEF IndInv
  <1>2. QED
    BY Invariance, <1>1, PTL

=============================================================================
