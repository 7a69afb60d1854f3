------------------------ MODULE ReleaseFlusherProofs ------------------------
(***************************************************************************)
(* Proofs about the release flusher, for every set of groups and callers   *)
(* and every bound.  IndInv is inductive: one step per action of Next, and *)
(* under it one per part that the action can disturb.  The invariants, the *)
(* bound on the delay and the refinement of ReleaseAccounting follow.      *)
(***************************************************************************)
EXTENDS ReleaseFlusher, TLAPS

(* The initial states satisfy the invariant.                               *)
LEMMA InitInd == Init => IndInv
<1> SUFFICES ASSUME Init PROVE IndInv
  OBVIOUS
<1> USE FlusherAssumption
<1>1. None \in [Groups -> 0..MaxSeq] /\ \A g \in Groups : None[g] = 0
  BY DEF None
<1>2. TypeOK
  <2>1. /\ latest \in [Groups -> 0..MaxSeq] /\ acked \in [Groups -> 0..MaxSeq]
        /\ pending \in [Groups -> 0..MaxSeq] /\ home \in [Groups -> 0..MaxSeq]
        /\ target \in [Callers -> [Groups -> 0..MaxSeq]]
    BY <1>1 DEF Init
  <2>2. /\ open \in [Groups -> SUBSET Seqs] /\ closed \in [Groups -> SUBSET Seqs]
        /\ call \in [Callers -> {"idle", "waiting", "ok", "timeout"}]
    BY DEF Init
  <2>3. delay \in Nat /\ faults \in 0..MaxFaults /\ lifetimes \in 0..MaxLifetimes
    BY DEF Init
  <2> QED
    BY <2>1, <2>2, <2>3 DEF Init, TypeOK
<1>3. AckedIsReceived /\ NoTicketStranded /\ ClosedInv
  BY <1>1 DEF Init, AckedIsReceived, NoTicketStranded, ClosedInv
<1>4. FlushComplete /\ FlushInv /\ TargetInv
  BY <1>1 DEF Init, FlushComplete, FlushInv, TargetInv
<1> QED
  BY <1>2, <1>3, <1>4 DEF IndInv

(* nextDelay is within the bounds of the configuration.                    *)
LEMMA NextDelayBounds ==
  ASSUME TypeOK
  PROVE  /\ nextDelay \in Nat
         /\ timings.interval <= nextDelay /\ nextDelay <= timings.backoff
<1>1. /\ timings.interval \in Nat \ {0} /\ timings.backoff \in Nat
      /\ timings.interval <= timings.backoff /\ delay \in Nat
  BY FlusherAssumption DEF TypeOK
<1> QED
  BY <1>1 DEF nextDelay, Larger

(* What flush takes is a highest mark, or nothing.                         *)
LEMMA DirtyType ==
  ASSUME TypeOK
  PROVE  /\ Dirty \in [Groups -> 0..MaxSeq]
         /\ \A g \in Groups : Dirty[g] <= latest[g]
  BY FlusherAssumption DEF TypeOK, Dirty

(* A mark whose number is covered completes its ticket; another one may    *)
(* raise the highest number.                                               *)
LEMMA MarkInd ==
  ASSUME IndInv, NEW g \in Groups, NEW n \in Seqs, MarkDirty(g, n)
  PROVE  IndInv'
<1> USE FlusherAssumption
<1>1. /\ n \in 1..MaxSeq /\ n \in Int
      /\ \A h \in Groups : latest[h] \in Int /\ acked[h] \in Int /\ home[h] \in Int
      /\ \A h \in Groups : open[h] \subseteq Int /\ closed[h] \subseteq Int
  BY DEF IndInv, TypeOK, Seqs
<1>2. /\ Larger(latest[g], n) \in 0..MaxSeq
      /\ latest[g] <= Larger(latest[g], n) /\ n <= Larger(latest[g], n)
  BY <1>1 DEF IndInv, TypeOK, Larger
<1>3. UNCHANGED <<acked, sender, timings, force, run, timer, delay, backingOff, pending,
                  sent, forced, failed, cancelled, lifetimes, call, target, home, faults>>
  BY DEF MarkDirty, configVars, loopVars, lifeVars, flushVars
<1>4. wake' = TRUE
  BY DEF MarkDirty
<1>5. CASE n <= acked[g]
  <2>1. closed' = [closed EXCEPT ![g] = @ \cup {n}] /\ open' = open /\ latest' = latest
    BY <1>5 DEF MarkDirty
  <2>2. closed' \in [Groups -> SUBSET Seqs]
    BY <2>1, <1>1 DEF IndInv, TypeOK, Seqs
  <2>3. TypeOK'
    BY <1>3, <1>4, <2>1, <2>2 DEF IndInv, TypeOK
  <2>4. ClosedInv'
    BY <1>3, <1>5, <2>1 DEF IndInv, TypeOK, ClosedInv
  <2>5. AckedIsReceived' /\ NoTicketStranded' /\ FlushComplete' /\ FlushInv' /\ TargetInv'
    BY <1>3, <2>1 DEF IndInv, AckedIsReceived, NoTicketStranded, FlushComplete, FlushInv,
       TargetInv
  <2> QED
    BY <2>3, <2>4, <2>5 DEF IndInv
<1>6. CASE ~ (n <= acked[g])
  <2>1. /\ open' = [open EXCEPT ![g] = @ \cup {n}] /\ closed' = closed
        /\ latest' = [latest EXCEPT ![g] = Larger(latest[g], n)]
    BY <1>6 DEF MarkDirty
  <2>2. open' \in [Groups -> SUBSET Seqs] /\ latest' \in [Groups -> 0..MaxSeq]
    BY <2>1, <1>1, <1>2 DEF IndInv, TypeOK, Seqs
  <2>3. TypeOK'
    BY <1>3, <1>4, <2>1, <2>2 DEF IndInv, TypeOK
  <2>4. \A h \in Groups : latest[h] <= latest'[h]
    BY <2>1, <1>1, <1>2 DEF IndInv, TypeOK
  <2>5. AckedIsReceived' /\ FlushInv'
    <3>1. \A h \in Groups : pending[h] \in Int /\ latest'[h] \in Int
      BY <2>2 DEF IndInv, TypeOK
    <3> QED
      BY <3>1, <1>1, <1>3, <2>4 DEF IndInv, AckedIsReceived, FlushInv
  <2>6. NoTicketStranded'
    <3>1. n <= latest'[g] /\ \A h \in Groups : latest'[h] \in Int
      BY <1>2, <2>1, <2>2 DEF IndInv, TypeOK
    <3>2. \A h \in Groups : \A m \in open'[h] : m \in open[h] \/ (h = g /\ m = n)
      BY <2>1 DEF IndInv, TypeOK
    <3>3. \A h \in Groups : \A m \in open[h] : acked[h] < m /\ m <= latest[h] /\ m \in Int
      BY <1>1 DEF IndInv, NoTicketStranded
    <3> QED
      BY <1>1, <1>3, <1>6, <2>4, <3>1, <3>2, <3>3 DEF NoTicketStranded
  <2>7. TargetInv'
    <3>1. \A c \in Callers, h \in Groups : target[c][h] \in Int /\ latest'[h] \in Int
      BY <2>2 DEF IndInv, TypeOK
    <3> QED
      BY <3>1, <1>1, <1>3, <2>4 DEF IndInv, TargetInv
  <2>8. ClosedInv' /\ FlushComplete'
    BY <1>3, <2>1 DEF IndInv, ClosedInv, FlushComplete
  <2> QED
    BY <2>3, <2>5, <2>6, <2>7, <2>8 DEF IndInv
<1> QED
  BY <1>5, <1>6

(* Every step preserves the invariant.                                     *)
LEMMA NextInd == IndInv /\ [Next]_vars => IndInv'
<1> SUFFICES ASSUME IndInv, [Next]_vars PROVE IndInv'
  OBVIOUS
<1> USE FlusherAssumption
<1>1. ASSUME NEW t \in Timings, SetConfigProvider(t) PROVE IndInv'
  BY <1>1
  DEF IndInv, TypeOK, AckedIsReceived, NoTicketStranded, FlushComplete, FlushInv, ClosedInv, TargetInv,
      SetConfigProvider, stateVars, configVars, loopVars, lifeVars, flushVars
<1>2. CASE SetSender
  BY <1>2
  DEF IndInv, TypeOK, AckedIsReceived, NoTicketStranded, FlushComplete, FlushInv, ClosedInv, TargetInv,
      SetSender, stateVars, configVars, loopVars, lifeVars, flushVars
<1>3. CASE StartRun
  BY <1>3
  DEF IndInv, TypeOK, AckedIsReceived, NoTicketStranded, FlushComplete, FlushInv, ClosedInv, TargetInv,
      StartRun, stateVars, configVars, loopVars, lifeVars, flushVars
<1>4. CASE CancelRun
  BY <1>4
  DEF IndInv, TypeOK, AckedIsReceived, NoTicketStranded, FlushComplete, FlushInv, ClosedInv, TargetInv,
      CancelRun, stateVars, configVars, loopVars, lifeVars, flushVars
<1>5. CASE RunStops
  BY <1>5
  DEF IndInv, TypeOK, AckedIsReceived, NoTicketStranded, FlushComplete, FlushInv, ClosedInv, TargetInv,
      RunStops, stateVars, configVars, loopVars, lifeVars, flushVars
<1>6. ASSUME NEW c \in Callers, Flush(c) PROVE IndInv'
  BY <1>6
  DEF IndInv, TypeOK, AckedIsReceived, NoTicketStranded, FlushComplete, FlushInv, ClosedInv, TargetInv,
      Flush, stateVars, configVars, loopVars, lifeVars, flushVars
<1>7. ASSUME NEW c \in Callers, FlushReturns(c) PROVE IndInv'
  BY <1>7
  DEF IndInv, TypeOK, AckedIsReceived, NoTicketStranded, FlushComplete, FlushInv, ClosedInv, TargetInv,
      FlushReturns, stateVars, configVars, loopVars, lifeVars, flushVars, idle
<1>8. ASSUME NEW c \in Callers, FlushTimeout(c) PROVE IndInv'
  BY <1>8
  DEF IndInv, TypeOK, AckedIsReceived, NoTicketStranded, FlushComplete, FlushInv, ClosedInv, TargetInv,
      FlushTimeout, stateVars, configVars, loopVars, lifeVars, flushVars
<1>9. CASE Elapse
  BY <1>9
  DEF IndInv, TypeOK, AckedIsReceived, NoTicketStranded, FlushComplete, FlushInv, ClosedInv, TargetInv,
      Elapse, stateVars, configVars, loopVars, lifeVars, flushVars
<1>10. CASE TimerFires
  BY <1>10, DirtyType
  DEF IndInv, TypeOK, AckedIsReceived, NoTicketStranded, FlushComplete, FlushInv, ClosedInv, TargetInv,
      TimerFires, stateVars, configVars, loopVars, lifeVars, flushVars
<1>11. CASE TakeWake
  BY <1>11
  DEF IndInv, TypeOK, AckedIsReceived, NoTicketStranded, FlushComplete, FlushInv, ClosedInv, TargetInv,
      TakeWake, stateVars, configVars, loopVars, lifeVars, flushVars
<1>12. CASE TakeForce
  BY <1>12, DirtyType
  DEF IndInv, TypeOK, AckedIsReceived, NoTicketStranded, FlushComplete, FlushInv, ClosedInv, TargetInv,
      TakeForce, stateVars, configVars, loopVars, lifeVars, flushVars
<1>13. CASE EndFlush
  BY <1>13, NextDelayBounds
  DEF IndInv, TypeOK, AckedIsReceived, NoTicketStranded, FlushComplete, FlushInv, ClosedInv, TargetInv,
      EndFlush, stateVars, configVars, loopVars, lifeVars, flushVars
<1>14. ASSUME NEW g \in Groups, NEW n \in Seqs, MarkDirty(g, n) PROVE IndInv'
  BY <1>14, MarkInd
<1>15. ASSUME NEW g \in Groups, Send(g) PROVE IndInv'
  <2>1. TypeOK'
    BY <1>15
    DEF IndInv, TypeOK, AckedIsReceived, NoTicketStranded, FlushComplete, FlushInv, ClosedInv, TargetInv,
        Send, Receive, Larger, stateVars, configVars, loopVars, lifeVars, flushVars
  <2>2. AckedIsReceived'
    BY <1>15
    DEF IndInv, TypeOK, AckedIsReceived, NoTicketStranded, FlushComplete, FlushInv, ClosedInv, TargetInv,
        Send, Receive, Larger, stateVars, configVars, loopVars, lifeVars, flushVars
  <2>3. NoTicketStranded'
    BY <1>15
    DEF IndInv, TypeOK, AckedIsReceived, NoTicketStranded, FlushComplete, FlushInv, ClosedInv, TargetInv,
        Send, Receive, Larger, stateVars, configVars, loopVars, lifeVars, flushVars
  <2>4. FlushComplete'
    BY <1>15
    DEF IndInv, TypeOK, AckedIsReceived, NoTicketStranded, FlushComplete, FlushInv, ClosedInv, TargetInv,
        Send, Receive, Larger, stateVars, configVars, loopVars, lifeVars, flushVars
  <2>5. FlushInv'
    BY <1>15
    DEF IndInv, TypeOK, AckedIsReceived, NoTicketStranded, FlushComplete, FlushInv, ClosedInv, TargetInv,
        Send, Receive, Larger, stateVars, configVars, loopVars, lifeVars, flushVars
  <2>6. ClosedInv'
    BY <1>15
    DEF IndInv, TypeOK, AckedIsReceived, NoTicketStranded, FlushComplete, FlushInv, ClosedInv, TargetInv,
        Send, Receive, Larger, stateVars, configVars, loopVars, lifeVars, flushVars
  <2>7. TargetInv'
    BY <1>15
    DEF IndInv, TypeOK, AckedIsReceived, NoTicketStranded, FlushComplete, FlushInv, ClosedInv, TargetInv,
        Send, Receive, Larger, stateVars, configVars, loopVars, lifeVars, flushVars
  <2> QED
    BY <2>1, <2>2, <2>3, <2>4, <2>5, <2>6, <2>7 DEF IndInv
<1>16. ASSUME NEW g \in Groups, NEW received \in BOOLEAN, SendFails(g, received)
       PROVE  IndInv'
  <2>1. TypeOK'
    BY <1>16
    DEF IndInv, TypeOK, AckedIsReceived, NoTicketStranded, FlushComplete, FlushInv, ClosedInv, TargetInv,
        SendFails, Receive, Larger, stateVars, configVars, loopVars, lifeVars, flushVars
  <2>2. AckedIsReceived'
    BY <1>16
    DEF IndInv, TypeOK, AckedIsReceived, NoTicketStranded, FlushComplete, FlushInv, ClosedInv, TargetInv,
        SendFails, Receive, Larger, stateVars, configVars, loopVars, lifeVars, flushVars
  <2>3. NoTicketStranded'
    BY <1>16
    DEF IndInv, TypeOK, AckedIsReceived, NoTicketStranded, FlushComplete, FlushInv, ClosedInv, TargetInv,
        SendFails, Receive, Larger, stateVars, configVars, loopVars, lifeVars, flushVars
  <2>4. FlushComplete'
    BY <1>16
    DEF IndInv, TypeOK, AckedIsReceived, NoTicketStranded, FlushComplete, FlushInv, ClosedInv, TargetInv,
        SendFails, Receive, Larger, stateVars, configVars, loopVars, lifeVars, flushVars
  <2>5. FlushInv'
    BY <1>16
    DEF IndInv, TypeOK, AckedIsReceived, NoTicketStranded, FlushComplete, FlushInv, ClosedInv, TargetInv,
        SendFails, Receive, Larger, stateVars, configVars, loopVars, lifeVars, flushVars
  <2>6. ClosedInv'
    BY <1>16
    DEF IndInv, TypeOK, AckedIsReceived, NoTicketStranded, FlushComplete, FlushInv, ClosedInv, TargetInv,
        SendFails, Receive, Larger, stateVars, configVars, loopVars, lifeVars, flushVars
  <2>7. TargetInv'
    BY <1>16
    DEF IndInv, TypeOK, AckedIsReceived, NoTicketStranded, FlushComplete, FlushInv, ClosedInv, TargetInv,
        SendFails, Receive, Larger, stateVars, configVars, loopVars, lifeVars, flushVars
  <2> QED
    BY <2>1, <2>2, <2>3, <2>4, <2>5, <2>6, <2>7 DEF IndInv
<1>17. CASE Answered
  <2>1. TypeOK'
    BY <1>17
    DEF IndInv, TypeOK, AckedIsReceived, NoTicketStranded, FlushComplete, FlushInv, ClosedInv, TargetInv,
        Answered, Ack, Larger, Seqs, stateVars, configVars, loopVars, lifeVars, flushVars
  <2>2. AckedIsReceived'
    BY <1>17
    DEF IndInv, TypeOK, AckedIsReceived, NoTicketStranded, FlushComplete, FlushInv, ClosedInv, TargetInv,
        Answered, Ack, Larger, Seqs, stateVars, configVars, loopVars, lifeVars, flushVars
  <2>3. NoTicketStranded'
    BY <1>17
    DEF IndInv, TypeOK, AckedIsReceived, NoTicketStranded, FlushComplete, FlushInv, ClosedInv, TargetInv,
        Answered, Ack, Larger, Seqs, stateVars, configVars, loopVars, lifeVars, flushVars
  <2>4. FlushComplete'
    BY <1>17
    DEF IndInv, TypeOK, AckedIsReceived, NoTicketStranded, FlushComplete, FlushInv, ClosedInv, TargetInv,
        Answered, Ack, Larger, Seqs, stateVars, configVars, loopVars, lifeVars, flushVars
  <2>5. FlushInv'
    BY <1>17
    DEF IndInv, TypeOK, AckedIsReceived, NoTicketStranded, FlushComplete, FlushInv, ClosedInv, TargetInv,
        Answered, Ack, Larger, Seqs, stateVars, configVars, loopVars, lifeVars, flushVars
  <2>6. ClosedInv'
    BY <1>17
    DEF IndInv, TypeOK, AckedIsReceived, NoTicketStranded, FlushComplete, FlushInv, ClosedInv, TargetInv,
        Answered, Ack, Larger, Seqs, stateVars, configVars, loopVars, lifeVars, flushVars
  <2>7. TargetInv'
    BY <1>17
    DEF IndInv, TypeOK, AckedIsReceived, NoTicketStranded, FlushComplete, FlushInv, ClosedInv, TargetInv,
        Answered, Ack, Larger, Seqs, stateVars, configVars, loopVars, lifeVars, flushVars
  <2> QED
    BY <2>1, <2>2, <2>3, <2>4, <2>5, <2>6, <2>7 DEF IndInv
<1>18. CASE UNCHANGED vars
  BY <1>18 DEF IndInv, TypeOK, AckedIsReceived, NoTicketStranded, FlushComplete, FlushInv, ClosedInv, TargetInv,
      vars, stateVars, configVars, loopVars, lifeVars, flushVars, idle
<1> QED
  BY <1>1, <1>2, <1>3, <1>4, <1>5, <1>6, <1>7, <1>8, <1>9, <1>10, <1>11, <1>12, <1>13, <1>14, <1>15, <1>16, <1>17, <1>18
  DEF Next, RunLoop

(* The invariant holds in every reachable state.                           *)
THEOREM InvTheorem == Spec => []IndInv
  BY InitInd, NextInd, PTL DEF Spec

(* The variables keep their types.                                         *)
THEOREM FlusherTypeCorrect == Spec => []TypeOK
  BY InvTheorem, PTL DEF IndInv

(* What the flusher believes Home knows, Home knows, and no more is told.  *)
THEOREM AckedIsReceivedHolds == Spec => []AckedIsReceived
  BY InvTheorem, PTL DEF IndInv

(* Every ticket that waits is above the last answer and will be sent.      *)
THEOREM NoTicketStrandedHolds == Spec => []NoTicketStranded
  BY InvTheorem, PTL DEF IndInv

(* A Flush that returned nil left Home knowing what was marked before.     *)
THEOREM FlushCompleteHolds == Spec => []FlushComplete
  BY InvTheorem, PTL DEF IndInv

(* Steps choose a delay within the bounds of the configuration.            *)
THEOREM DelayInBoundsHolds == Spec => DelayInBounds
<1>1. IndInv /\ [Next]_vars =>
        [delay' # delay => /\ timings.interval <= delay'
                           /\ delay' <= timings.backoff]_vars
  <2> SUFFICES ASSUME IndInv, Next, delay' # delay
               PROVE  timings.interval <= delay' /\ delay' <= timings.backoff
    BY DEF vars, loopVars
  <2>1. StartRun \/ EndFlush
    BY DEF Next, RunLoop, MarkDirty, SetConfigProvider, SetSender, CancelRun, RunStops,
           Flush, FlushReturns, FlushTimeout, Elapse, TimerFires, TakeWake, TakeForce,
           Answered, Send, SendFails, loopVars
  <2>2. timings \in Timings /\ TypeOK
    BY DEF IndInv, TypeOK
  <2> QED
    BY <2>1, <2>2, NextDelayBounds, FlusherAssumption DEF StartRun, EndFlush
<1> QED
  BY <1>1, InvTheorem, PTL DEF Spec, DelayInBounds

-----------------------------------------------------------------------------
(* The refinement: an initial state maps to an initial state, and every    *)
(* step to a step of ReleaseAccounting or to a stutter.                    *)
LEMMA InitRefines == Init => Accounting!AInit
  BY DEF Init, Accounting!AInit, None

(* A mark announces a number, or finds its ticket already covered.         *)
LEMMA MarkRefines ==
  ASSUME IndInv, NEW g \in Groups, NEW n \in Seqs, MarkDirty(g, n)
  PROVE  Accounting!ANext \/ UNCHANGED Accounting!avars
<1> USE FlusherAssumption
<1>1. CASE n <= acked[g]
  <2>1. /\ \A m \in {n} : m <= home[g]
        /\ closed' = [closed EXCEPT ![g] = @ \cup {n}]
        /\ UNCHANGED <<latest, home>>
    BY <1>1 DEF IndInv, TypeOK, AckedIsReceived, MarkDirty, Seqs
  <2>2. {n} \in SUBSET (1..MaxSeq)
    BY DEF Seqs
  <2>3. Accounting!Complete(g, {n})
    BY <2>1 DEF Accounting!Complete
  <2> QED
    BY <2>2, <2>3 DEF Accounting!ANext
<1>2. CASE ~ (n <= acked[g]) /\ n > latest[g]
  <2>1. /\ latest' = [latest EXCEPT ![g] = n] /\ UNCHANGED <<home, closed>>
    BY <1>2 DEF IndInv, TypeOK, MarkDirty, Larger, Seqs
  <2>2. Accounting!Announce(g, n)
    BY <2>1, <1>2 DEF Accounting!Announce
  <2> QED
    BY <2>2 DEF Accounting!ANext, Seqs
<1>3. CASE ~ (n <= acked[g]) /\ ~ (n > latest[g])
  <2>1. /\ latest' = [latest EXCEPT ![g] = Larger(latest[g], n)]
        /\ UNCHANGED <<home, closed>>
    BY <1>3 DEF MarkDirty
  <2>2. Larger(latest[g], n) = latest[g] /\ latest \in [Groups -> 0..MaxSeq]
    <3>1. latest[g] \in Int /\ n \in Int /\ latest \in [Groups -> 0..MaxSeq]
      BY DEF IndInv, TypeOK, Seqs
    <3> QED
      BY <1>3, <3>1 DEF Larger
  <2>3. latest' = latest
    BY <2>1, <2>2
  <2> QED
    BY <2>1, <2>3 DEF Accounting!avars
<1> QED
  BY <1>1, <1>2, <1>3

(* What Home receives is a higher number that was announced, or no news.   *)
LEMMA ReceiveRefines ==
  ASSUME IndInv, NEW g \in Groups, pending[g] > 0, Receive(g),
         UNCHANGED <<latest, closed>>
  PROVE  Accounting!ANext \/ UNCHANGED Accounting!avars
<1> USE FlusherAssumption
<1>1. /\ pending[g] \in 1..MaxSeq /\ pending[g] <= latest[g]
      /\ home \in [Groups -> 0..MaxSeq]
  BY DEF IndInv, TypeOK, FlushInv
<1>2. CASE pending[g] > home[g]
  <2>1. Larger(home[g], pending[g]) = pending[g]
    BY <1>1, <1>2 DEF Larger
  <2>2. home' = [home EXCEPT ![g] = pending[g]]
    BY <2>1 DEF Receive
  <2>3. Accounting!Learn(g, pending[g])
    BY <1>1, <1>2, <2>2 DEF Accounting!Learn
  <2> QED
    BY <1>1, <2>3 DEF Accounting!ANext
<1>3. CASE ~ (pending[g] > home[g])
  <2>1. home' = home
    BY <1>1, <1>3 DEF Receive, Larger
  <2> QED
    BY <2>1 DEF Accounting!avars
<1> QED
  BY <1>2, <1>3

(* An answer completes tickets of numbers that Home knows.                 *)
LEMMA AnsweredRefines ==
  ASSUME IndInv, Answered
  PROVE  Accounting!ANext \/ UNCHANGED Accounting!avars
<1> USE FlusherAssumption
<1> DEFINE top == Larger(acked[sent], pending[sent])
           S == {w \in open[sent] : w <= top}
<1>1. sent \in Groups /\ top <= home[sent] /\ top \in 0..MaxSeq
  BY DEF IndInv, TypeOK, AckedIsReceived, FlushInv, Answered, Larger
<1>2. S \in SUBSET (1..MaxSeq) /\ \A w \in S : w <= home[sent]
  BY <1>1 DEF IndInv, TypeOK, Seqs
<1>3. closed' = [closed EXCEPT ![sent] = @ \cup S] /\ UNCHANGED <<latest, home>>
  BY DEF Answered, Ack
<1>4. Accounting!Complete(sent, S)
  BY <1>2, <1>3 DEF Accounting!Complete
<1> QED
  BY <1>1, <1>2, <1>4 DEF Accounting!ANext

(* Every other step leaves alone what ReleaseAccounting speaks of.         *)
LEMMA NextRefines ==
  ASSUME IndInv, [Next]_vars
  PROVE  [Accounting!ANext]_(Accounting!avars)
<1>1. ASSUME NEW g \in Groups, NEW n \in Seqs, MarkDirty(g, n)
      PROVE  Accounting!ANext \/ UNCHANGED Accounting!avars
  BY <1>1, MarkRefines
<1>2. ASSUME NEW g \in Groups, Send(g)
      PROVE  Accounting!ANext \/ UNCHANGED Accounting!avars
  BY <1>2, ReceiveRefines DEF Send, stateVars
<1>3. ASSUME NEW g \in Groups, NEW received \in BOOLEAN, SendFails(g, received)
      PROVE  Accounting!ANext \/ UNCHANGED Accounting!avars
  BY <1>3, ReceiveRefines DEF SendFails, stateVars, Accounting!avars
<1>4. CASE Answered
  BY <1>4, AnsweredRefines
<1>5. CASE \/ \E t \in Timings : SetConfigProvider(t)
           \/ SetSender \/ StartRun \/ CancelRun \/ RunStops
           \/ \E c \in Callers : Flush(c) \/ FlushReturns(c) \/ FlushTimeout(c)
           \/ Elapse \/ TimerFires \/ TakeWake \/ TakeForce \/ EndFlush
           \/ UNCHANGED vars
  BY <1>5 DEF SetConfigProvider, SetSender, StartRun, CancelRun, RunStops, Flush,
      FlushReturns, FlushTimeout, Elapse, TimerFires, TakeWake, TakeForce, EndFlush,
      vars, stateVars, Accounting!avars
<1> QED
  BY <1>1, <1>2, <1>3, <1>4, <1>5 DEF Next, RunLoop

(* The flusher implements ReleaseAccounting.                               *)
THEOREM Refinement == Spec => ImplementsAccounting
  BY InitRefines, NextRefines, InvTheorem, PTL
  DEF Spec, ImplementsAccounting, Accounting!ASpec

=============================================================================
