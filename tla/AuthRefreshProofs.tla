------------------------- MODULE AuthRefreshProofs -------------------------
(***************************************************************************)
(* AuthRefresh beside AuthConductor: no credential falls out of the        *)
(* refresh loop and no refresh token is used twice.  The operations of the *)
(* conductor keep AuthConductor's invariant by the proofs there; what they *)
(* leave of the refresh state is summed up by Aside and shown once for     *)
(* each of them.                                                           *)
(***************************************************************************)
EXTENDS AuthRefresh, AuthConductorProofs

-----------------------------------------------------------------------------
(* The todo list of a goroutine that moves on. *)

LEMMA DoingIs ==
    ASSUME NEW p, NEW a, NEW ms, NEW snap, NEW todo \in Seq(Later), todo # <<>>
    PROVE  LET d == Doing(p, a, ms, snap, todo) IN
           /\ d.pc = Head(todo) /\ d.a = a /\ d.snap = snap /\ d.todo = Tail(todo)
           /\ d.pc \in Later /\ Ahead(d) = Steps(todo)
  <1> DEFINE d == Doing(p, a, ms, snap, todo)
  <1>1. d = [Idle EXCEPT !.pc = Head(todo), !.a = a, !.m = proc[p].m, !.ms = ms,
                         !.snap = snap, !.todo = Tail(todo)]
    BY DEF Doing
  <1>2. d.pc = Head(todo) /\ d.a = a /\ d.snap = snap /\ d.todo = Tail(todo)
    BY <1>1 DEF Idle
  <1>3. Head(todo) \in Later
    OBVIOUS
  <1> HIDE DEF d
  <1>4. Ahead(d) = Steps(todo)
    BY <1>2, TailSteps DEF Ahead
  <1>5. QED
    BY <1>2, <1>3, <1>4 DEF d

(* With nothing to do it is idle. *)
LEMMA DoingNothing ==
    ASSUME NEW p, NEW a, NEW ms, NEW snap
    PROVE  Doing(p, a, ms, snap, <<>>) = Idle
  BY DEF Doing

LEMMA IdleIs ==
    /\ Idle.pc = "idle" /\ Idle.todo = <<>> /\ Idle.snap = NoAuth /\ Idle.a = NoAuth
    /\ Idle.token = 0 /\ Ahead(Idle) = {"idle"}
  BY NothingToDo DEF Idle, Ahead

(* Whatever the steps, no refresh begins in between. *)
LEMMA DoingPlain ==
    ASSUME NEW p, NEW a, NEW ms, NEW snap, NEW todo \in Seq(Later)
    PROVE  LET d == Doing(p, a, ms, snap, todo) IN
           /\ d.pc \notin {"lock", "refresh", "update"}
           /\ d.snap \in {snap, NoAuth}
           /\ Ahead(d) \subseteq Steps(todo) \cup {"idle"}
           /\ Steps(todo) \subseteq Ahead(d)
           /\ Steps(todo) # {} => d.a = a
  <1> DEFINE d == Doing(p, a, ms, snap, todo)
  <1>1. CASE todo = <<>>
    BY <1>1, DoingNothing, IdleIs, NothingToDo
  <1>2. CASE todo # <<>>
    <2>1. d.a = a /\ d.snap = snap /\ d.pc \in Later /\ Ahead(d) = Steps(todo)
      BY <1>2, DoingIs
    <2> HIDE DEF d
    <2>2. d.pc \notin {"lock", "refresh", "update"}
      BY <2>1 DEF Later
    <2>3. QED
      BY <2>1, <2>2 DEF d
  <1>3. QED
    BY <1>1, <1>2

LEMMA EmptyIs ==
    ASSUME NEW s \in Seq(Later)
    PROVE  s = <<>> <=> Len(s) = 0
  OBVIOUS

LEMMA TailIs ==
    ASSUME NEW todo \in Seq(Later), todo # <<>>, NEW t, t = Tail(todo)
    PROVE  /\ t \in Seq(Later) /\ Len(t) \in Nat /\ Len(todo) = Len(t) + 1
           /\ Head(todo) = todo[1] /\ \A i \in 1 .. Len(t) : t[i] = todo[i + 1]
           /\ DOMAIN todo = 1 .. Len(todo) /\ DOMAIN t = 1 .. Len(t)
           /\ t = <<>> <=> Len(t) = 0
  <1>1. /\ Head(todo) = todo[1] /\ Len(todo) \in Nat \ {0} /\ Len(Tail(todo)) = Len(todo) - 1
        /\ \A i \in 1 .. Len(Tail(todo)) : Tail(todo)[i] = todo[i + 1]
        /\ DOMAIN todo = 1 .. Len(todo) /\ DOMAIN Tail(todo) = 1 .. Len(Tail(todo))
        /\ Tail(todo) \in Seq(Later)
    OBVIOUS
  <1>2. t \in Seq(Later)
    BY <1>1
  <1>3. t = <<>> <=> Len(t) = 0
    BY <1>2, EmptyIs
  <1>4. Len(t) \in Nat /\ Len(t) = Len(todo) - 1
    BY <1>1
  <1>5. QED
    BY <1>1, <1>2, <1>3, <1>4

(* What the list ends with, Doing ends with. *)
EndsWith(todo, x) == todo # <<>> /\ todo[Len(todo)] = x

LEMMA DoingEnds ==
    ASSUME NEW p, NEW a, NEW ms, NEW snap, NEW todo \in Seq(Later),
           EndsWith(todo, "reschedule")
    PROVE  LastIsReschedule(Doing(p, a, ms, snap, todo))
  <1> DEFINE d == Doing(p, a, ms, snap, todo)
             t == Tail(todo)
  <1>1. todo # <<>> /\ todo[Len(todo)] = "reschedule"
    BY DEF EndsWith
  <1>2. d.pc = Head(todo) /\ d.todo = t /\ t = Tail(todo)
    BY <1>1, DoingIs
  <1> HIDE DEF d, t
  <1>3. /\ Len(t) \in Nat /\ Len(todo) = Len(t) + 1 /\ Head(todo) = todo[1]
        /\ \A i \in 1 .. Len(t) : t[i] = todo[i + 1]
        /\ t = <<>> <=> Len(t) = 0
    BY <1>1, <1>2, TailIs
  <1>4. CASE Len(t) = 0
    BY <1>1, <1>2, <1>3, <1>4 DEF LastIsReschedule, d
  <1>5. CASE Len(t) # 0
    <2>1. t[Len(t)] = todo[Len(todo)]
      BY <1>3, <1>5
    <2>2. QED
      BY <1>1, <1>2, <1>3, <1>5, <2>1 DEF LastIsReschedule, d
  <1>6. QED
    BY <1>4, <1>5

(* The place of the unlock in a list. *)
UnlockAt(todo, rest) == \A i \in DOMAIN todo : todo[i] = "unlock" => i = Len(todo) - rest

LEMMA DoingUnlocks ==
    ASSUME NEW p, NEW a, NEW ms, NEW snap, NEW todo \in Seq(Later), NEW rest \in {0, 1},
           UnlockAt(todo, rest)
    PROVE  UnlocksLast(Doing(p, a, ms, snap, todo), rest)
  <1> DEFINE d == Doing(p, a, ms, snap, todo)
             t == Tail(todo)
  <1>1. CASE todo = <<>>
    <2>1. d = Idle
      BY <1>1, DoingNothing
    <2>2. QED
      BY <2>1, IdleIs DEF UnlocksLast
  <1>2. CASE todo # <<>>
    <2>1. d.pc = Head(todo) /\ d.todo = t /\ t = Tail(todo)
      BY <1>2, DoingIs
    <2> HIDE DEF d, t
    <2>2. /\ Len(t) \in Nat /\ Len(todo) = Len(t) + 1 /\ Head(todo) = todo[1]
          /\ \A i \in 1 .. Len(t) : t[i] = todo[i + 1]
          /\ DOMAIN todo = 1 .. Len(todo) /\ DOMAIN t = 1 .. Len(t)
      BY <1>2, <2>1, TailIs
    <2>3. todo[1] = "unlock" => Len(t) = rest
      <3>1. 1 \in DOMAIN todo
        BY <2>2
      <3>2. todo[1] = "unlock" => 1 = Len(todo) - rest
        BY <3>1 DEF UnlockAt
      <3>3. \A n \in Nat : 1 = (n + 1) - rest => n = rest
        OBVIOUS
      <3>4. Len(t) \in Nat /\ Len(todo) = Len(t) + 1
        BY <2>2
      <3>5. QED
        BY <3>2, <3>3, <3>4
    <2>4. ASSUME NEW i \in DOMAIN t, t[i] = "unlock"
          PROVE  i = Len(t) - rest
      <3>1. i \in 1 .. Len(t) /\ i + 1 \in DOMAIN todo /\ todo[i + 1] = "unlock"
        BY <2>2, <2>4
      <3>2. i + 1 = Len(todo) - rest
        BY <3>1 DEF UnlockAt
      <3>3. QED
        BY <2>2, <3>1, <3>2
    <2>5. QED
      BY <2>1, <2>2, <2>3, <2>4 DEF UnlocksLast, d
  <1>3. QED
    BY <1>1, <1>2

LEMMA NoUnlock ==
    ASSUME NEW todo, "unlock" \notin Steps(todo), NEW rest
    PROVE  UnlockAt(todo, rest)
  BY DEF Steps, UnlockAt

LEMMA LastAhead ==
    ASSUME NEW r, r.todo \in Seq(Later), LastIsReschedule(r)
    PROVE  "reschedule" \in Ahead(r)
  <1>1. CASE r.todo = <<>>
    BY <1>1 DEF LastIsReschedule, Ahead
  <1>2. CASE r.todo # <<>>
    <2>1. Len(r.todo) \in DOMAIN r.todo
      BY <1>2
    <2>2. QED
      BY <1>2, <2>1 DEF LastIsReschedule, Ahead, Steps
  <1>3. QED
    BY <1>1, <1>2

-----------------------------------------------------------------------------
(* What a step of the conductor's leaves of the refresh state. *)

(* The goroutine p goes on as d: it neither takes nor releases the lock of *)
(* a credential, and a look that it was to ask for it has asked for or     *)
(* still has ahead.                                                        *)
Aside(p, d) ==
    /\ p \in Procs /\ proc' = [proc EXCEPT ![p] = d]
    /\ proc[p].pc \notin {"lock", "refresh", "update"}
    /\ d.pc \notin {"lock", "refresh", "update"}
    /\ "unlock" \in Ahead(d) => "unlock" \in Ahead(proc[p]) /\ d.a = proc[p].a
    /\ UnlocksLast(d, Rest(p))
    /\ "reschedule" \in Ahead(proc[p]) =>
          proc[p].a \in dirty' \/ (d.a = proc[p].a /\ "reschedule" \in Ahead(d))
    /\ p \in Workers => /\ proc[p].pc # "idle" => "reschedule" \in Ahead(proc[p])
                        /\ d.pc # "idle" => LastIsReschedule(d)
    /\ Issued(d.snap, minted')

Leaves(p, d) ==
    /\ Aside(p, d)
    /\ dirty \subseteq dirty' /\ minted <= minted'
    /\ \A a \in Auths : heap'[a] = heap[a] \/ a \in dropped'
    /\ dropped \subseteq dropped' /\ dropped' \subseteq Auths
    /\ \A a \in Auths : Issued(auths'[a], minted') /\ Issued(disk'[a], minted')
    /\ \A a \in Auths : auths[a] = NoAuth /\ auths'[a] # NoAuth
                          => d.a = a /\ "reschedule" \in Ahead(d)

(* The hands of a goroutine. *)
HasInHand(p, a) ==
    /\ proc[p].a = a
    /\ "reschedule" \in Ahead(proc[p]) \/ (p \in Workers /\ proc[p].pc # "idle")

LoopHas(a) ==
    \/ loop.pc # "wait" /\ a \in loop.left
    \/ loop.pc \in {"put", "mark", "again", "send"} /\ loop.a = a

LEMMA InHandIs ==
    ASSUME NEW a
    PROVE  InHand(a) <=> \/ a \in dirty \/ LoopHas(a) \/ \E i \in DOMAIN jobs : jobs[i] = a
                         \/ \E p \in Procs : HasInHand(p, a)
  <1>1. ASSUME NEW p \in Procs
        PROVE  HasInHand(p, a) <=>
                 /\ proc[p].a = a
                 /\ \/ proc[p].pc = "reschedule"
                    \/ \E i \in DOMAIN proc[p].todo : proc[p].todo[i] = "reschedule"
                    \/ p \in Workers /\ proc[p].pc # "idle"
    BY DEF HasInHand, Ahead, Steps
  <1>2. QED
    BY <1>1 DEF InHand, LoopHas

LEMMA InHandIsNext ==
    ASSUME NEW a
    PROVE  InHand(a)' <=> \/ a \in dirty' \/ LoopHas(a)' \/ \E i \in DOMAIN jobs' : jobs'[i] = a
                          \/ \E p \in Procs : HasInHand(p, a)'
  <1>1. ASSUME NEW p \in Procs
        PROVE  HasInHand(p, a)' <=>
                 /\ proc'[p].a = a
                 /\ \/ proc'[p].pc = "reschedule"
                    \/ \E i \in DOMAIN proc'[p].todo : proc'[p].todo[i] = "reschedule"
                    \/ p \in Workers /\ proc'[p].pc # "idle"
    BY DEF HasInHand, Ahead, Steps
  <1>2. QED
    BY <1>1 DEF InHand, LoopHas

LEMMA AsideMoves ==
    ASSUME ProcType, NEW p, NEW d, p \in Procs, proc' = [proc EXCEPT ![p] = d]
    PROVE  proc'[p] = d /\ \A q \in Procs : q # p => proc'[q] = proc[q]
  BY DEF ProcType

(* The locks: who goes on with a lock had it. *)
LEMMA AsideLocks ==
    ASSUME ProcType, LocksInv, UnlocksInv, WorkersInv, NEW p, NEW d, Aside(p, d),
           UNCHANGED refreshLocks
    PROVE  LocksInv' /\ UnlocksInv' /\ WorkersInv'
  <1>1. /\ p \in Procs /\ proc'[p] = d /\ \A q \in Procs : q # p => proc'[q] = proc[q]
    BY AsideMoves DEF Aside
  <1>2. ASSUME NEW q \in Procs, Holds(proc'[q]) PROVE refreshLocks[proc'[q].a] = {q}
    <2>1. CASE q = p
      <3>1. "unlock" \in Ahead(proc[p]) /\ d.a = proc[p].a
        BY <1>1, <1>2, <2>1 DEF Holds, Aside
      <3>2. QED
        BY <1>1, <2>1, <3>1 DEF LocksInv, Holds
    <2>2. CASE q # p
      BY <1>1, <1>2, <2>2 DEF LocksInv
    <2>3. QED
      BY <2>1, <2>2
  <1>3. LocksInv'
    BY <1>2 DEF LocksInv, Holds, Ahead, Steps
  <1>4. \A q \in Procs : UnlocksLast(proc'[q], Rest(q))
    BY <1>1 DEF UnlocksInv, Aside
  <1>5. UnlocksInv'
    BY <1>4 DEF UnlocksInv, UnlocksLast, Rest
  <1>6. ASSUME NEW q \in Workers
        PROVE  /\ proc'[q].pc \notin {"idle", "lock", "refresh", "update"}
                     => LastIsReschedule(proc'[q])
               /\ proc'[q].pc = "lock" => proc'[q].token = 0
    <2>1. q \in Procs
      BY RefreshAssumption
    <2>2. QED
      BY <1>1, <2>1 DEF WorkersInv, Aside
  <1>7. WorkersInv'
    BY <1>6 DEF WorkersInv, LastIsReschedule
  <1>8. QED
    BY <1>3, <1>5, <1>7

(* The schedule: who was in hand is in hand. *)
LEMMA AsideSchedules ==
    ASSUME ProcType, ScheduledInv, NEW p, NEW d, Leaves(p, d), UNCHANGED <<loop, jobs>>
    PROVE  ScheduledInv'
  <1>1. /\ p \in Procs /\ proc'[p] = d /\ \A q \in Procs : q # p => proc'[q] = proc[q]
    BY AsideMoves DEF Aside, Leaves
  <1>2. ASSUME NEW a \in Auths, auths'[a] # NoAuth
        PROVE  heap'[a] # 0 \/ InHand(a)' \/ a \in dropped'
    <2>1. CASE auths[a] = NoAuth
      <3>1. d.a = a /\ "reschedule" \in Ahead(d)
        BY <1>2, <2>1 DEF Leaves
      <3>2. HasInHand(p, a)'
        BY <1>1, <3>1 DEF HasInHand, Ahead, Steps
      <3>3. QED
        BY <1>1, <3>2, InHandIsNext
    <2>2. CASE auths[a] # NoAuth /\ (heap[a] # 0 \/ a \in dropped)
      BY <2>2 DEF Leaves
    <2>3. CASE auths[a] # NoAuth /\ InHand(a)
      <3>1. CASE a \in dirty \/ LoopHas(a) \/ \E i \in DOMAIN jobs : jobs[i] = a
        <4>1. a \in dirty' \/ LoopHas(a)' \/ \E i \in DOMAIN jobs' : jobs'[i] = a
          BY <3>1 DEF Leaves, LoopHas
        <4>2. QED
          BY <4>1, InHandIsNext
      <3>2. ASSUME NEW q \in Procs, HasInHand(q, a) PROVE InHand(a)'
        <4>1. CASE q # p
          <5>1. HasInHand(q, a)'
            BY <1>1, <3>2, <4>1 DEF HasInHand, Ahead, Steps
          <5>2. QED
            BY <5>1, InHandIsNext
        <4>2. CASE q = p
          <5>1. proc[p].a = a /\ "reschedule" \in Ahead(proc[p])
            BY <3>2, <4>2 DEF HasInHand, Leaves, Aside
          <5>2. a \in dirty' \/ (d.a = a /\ "reschedule" \in Ahead(d))
            BY <5>1 DEF Leaves, Aside
          <5>3. a \in dirty' \/ HasInHand(p, a)'
            BY <1>1, <5>2 DEF HasInHand, Ahead, Steps
          <5>4. QED
            BY <1>1, <5>3, InHandIsNext
        <4>3. QED
          BY <4>1, <4>2
      <3>3. QED
        BY <2>3, <3>1, <3>2, InHandIs
    <2>4. QED
      BY <2>1, <2>2, <2>3 DEF ScheduledInv
  <1>3. QED
    BY <1>2 DEF ScheduledInv

(* The spent tokens: a step that brings one back is on record. *)
LEMMA AsideSpends ==
    ASSUME ProcType, SpentInv, NEW p, NEW d, Aside(p, d), UNCHANGED spent,
           reverted' = Reverting(FALSE)
    PROVE  SpentInv'
  <1>1. /\ p \in Procs /\ proc'[p] = d /\ \A q \in Procs : q # p => proc'[q] = proc[q]
    BY AsideMoves DEF Aside
  <1>2. ASSUME NEW a \in Auths \ reverted', auths'[a] # NoAuth, <<a, auths'[a].token>> \in spent
        PROVE  \E q \in Procs : Replacing(q, a)'
    <2>1. a \notin reverted /\ auths[a] # NoAuth /\ auths[a].token = auths'[a].token
      BY <1>2 DEF Reverting
    <2>2. PICK q \in Procs : Replacing(q, a)
      BY <1>2, <2>1 DEF SpentInv
    <2>3. q # p
      BY <2>2 DEF Replacing, Aside
    <2>4. Replacing(q, a)'
      BY <1>1, <2>2, <2>3 DEF Replacing
    <2>5. QED
      BY <2>4
  <1>3. QED
    BY <1>2 DEF SpentInv

LEMMA AsideTypes ==
    ASSUME TypeOK, RTypeOK, TypeOK', NEW p, NEW d, Leaves(p, d), Beside
    PROVE  RTypeOK'
  <1>1. /\ now \in Nat /\ Lifetime \in Nat /\ minted \in 1 .. MaxTokens
        /\ minted' \in 1 .. MaxTokens /\ MaxTokens \in Nat
    BY ConductorAssumption, RefreshAssumption DEF TypeOK
  <1>2. expires' \in [1 .. MaxTokens -> Nat]
    BY <1>1 DEF RTypeOK, Beside
  <1>3. spent' \subseteq Auths \X (1 .. minted')
    <2>1. 1 .. minted \subseteq 1 .. minted'
      BY <1>1 DEF Leaves
    <2>2. spent' = spent /\ spent \subseteq Auths \X (1 .. minted)
      BY DEF RTypeOK, Beside
    <2>3. QED
      BY <2>1, <2>2
  <1>4. reverted' \subseteq Auths /\ dropped' \subseteq Auths
    BY DEF Beside, Reverting, RTypeOK, Leaves
  <1>5. UNCHANGED <<refreshLocks, jobs, loop>>
    BY DEF Beside
  <1>6. QED
    BY <1>2, <1>3, <1>4, <1>5 DEF RTypeOK, LoopType

LEMMA AsideKeeps ==
    ASSUME RIndInv, IndInv', NEW p, NEW d, Leaves(p, d), Beside
    PROVE  RIndInv'
  <1>1. /\ TypeOK /\ TypeOK' /\ ProcType /\ RTypeOK /\ TokensIssued /\ LocksInv /\ UnlocksInv
        /\ WorkersInv /\ ScheduledInv /\ SpentInv
    BY TypeParts DEF RIndInv, IndInv
  <1>2. UNCHANGED <<refreshLocks, jobs, loop, spent>> /\ reverted' = Reverting(FALSE)
        /\ Aside(p, d)
    BY DEF Beside, Leaves
  <1>3. RTypeOK'
    BY <1>1, AsideTypes
  <1>4. LocksInv' /\ UnlocksInv' /\ WorkersInv'
    BY <1>1, <1>2, AsideLocks
  <1>5. ScheduledInv'
    BY <1>1, <1>2, AsideSchedules
  <1>6. SpentInv'
    BY <1>1, <1>2, AsideSpends
  <1>7. TokensIssued'
    <2>1. /\ proc'[p] = d /\ \A q \in Procs : q # p => proc'[q] = proc[q]
      BY <1>1, <1>2, AsideMoves DEF Aside
    <2>2. ASSUME NEW q \in Procs PROVE Issued(proc'[q].snap, minted')
      <3>1. CASE q = p
        BY <1>2, <2>1, <3>1 DEF Aside
      <3>2. CASE q # p
        <4>1. proc[q].snap \in Entry /\ minted \in Nat /\ minted' \in Nat /\ minted <= minted'
          BY <1>1 DEF ProcType, Goroutine, TypeOK, Leaves
        <4>2. proc[q].snap # NoAuth => proc[q].snap.token \in Nat
          BY <4>1 DEF Entry, Auth
        <4>3. proc[q].snap # NoAuth => proc[q].snap.token <= minted
          BY <1>1 DEF TokensIssued, Issued
        <4>4. QED
          BY <2>1, <3>2, <4>1, <4>2, <4>3 DEF Issued
      <3>3. QED
        BY <3>1, <3>2
    <2>3. QED
      BY <2>2 DEF TokensIssued, Leaves, Issued
  <1>8. QED
    BY <1>3, <1>4, <1>5, <1>6, <1>7 DEF RIndInv

-----------------------------------------------------------------------------
(* How the conductor's operations move a goroutine aside. *)

LEMMA NotWorker ==
    ASSUME ProcType, WorkersInv, NEW p \in Procs,
           proc[p].pc \notin {"idle", "lock", "refresh", "update"},
           "reschedule" \notin Ahead(proc[p])
    PROVE  p \notin Workers
  <1>1. proc[p].todo \in Seq(Later)
    BY DEF ProcType, Goroutine
  <1>2. QED
    BY <1>1, LastAhead DEF WorkersInv

(* Without a lock, nothing of the old errand is left. *)
LEMMA FreshAside ==
    ASSUME NEW p \in Procs, p \notin Workers, NEW d, Goto(p, d),
           proc[p].pc \notin {"lock", "refresh", "update"}, "reschedule" \notin Ahead(proc[p]),
           d.pc \notin {"lock", "refresh", "update"}, "unlock" \notin Ahead(d),
           Issued(d.snap, minted')
    PROVE  Aside(p, d)
  <1>1. UnlocksLast(d, Rest(p))
    BY DEF UnlocksLast, Ahead, Steps
  <1>2. QED
    BY <1>1 DEF Aside, Goto

LEMMA StartAside ==
    ASSUME NEW p \in Procs, p \notin Workers, NEW a, NEW x, Starts(p, a, x),
           proc[p].pc \notin {"lock", "refresh", "update"}, "reschedule" \notin Ahead(proc[p]),
           Issued(x, minted')
    PROVE  \E d : Aside(p, d)
  <1>1. PICK ms, todo : /\ todo \in Seq(Later) /\ "unlock" \notin Steps(todo)
                        /\ Goto(p, Doing(p, a, ms, x, todo))
    BY DEF Starts
  <1> DEFINE d == Doing(p, a, ms, x, todo)
  <1>2. d.pc \notin {"lock", "refresh", "update"} /\ d.snap \in {x, NoAuth}
        /\ Ahead(d) \subseteq Steps(todo) \cup {"idle"}
    BY <1>1, DoingPlain
  <1>3. Goto(p, d)
    BY <1>1
  <1> HIDE DEF d
  <1>4. Aside(p, d)
    BY <1>1, <1>2, <1>3, FreshAside DEF Issued
  <1>5. QED
    BY <1>4

(* The pcs of goroutines with an empty list. *)
LEMMA NothingAhead ==
    ASSUME HandsInv, NEW p \in Procs,
           proc[p].pc \in {"idle", "exec", "rejected", "rebuild", "repick", "edit",
                           "remove", "load", "restore", "lock", "refresh", "update"}
    PROVE  Ahead(proc[p]) = {proc[p].pc} /\ proc[p].todo = <<>>
  BY NothingToDo DEF HandsInv, Equipped, Ahead

LEMMA ContinueAside ==
    ASSUME ProcType, UnlocksInv, WorkersInv, TokensIssued, NEW p \in Procs,
           proc[p].pc \notin {"idle", "lock", "refresh", "update"},
           Goto(p, Continue(p)), proc[p].pc = "reschedule" => proc[p].a \in dirty',
           UNCHANGED minted
    PROVE  Aside(p, Continue(p))
  <1> DEFINE r == proc[p]
             d == Continue(p)
  <1>1. r.todo \in Seq(Later)
    BY DEF ProcType, Goroutine
  <1>2. d = Doing(p, r.a, r.ms, r.snap, r.todo)
    BY DEF Continue
  <1>3. /\ d.pc \notin {"lock", "refresh", "update"} /\ d.snap \in {r.snap, NoAuth}
        /\ Ahead(d) \subseteq Steps(r.todo) \cup {"idle"} /\ Steps(r.todo) \subseteq Ahead(d)
        /\ Steps(r.todo) # {} => d.a = r.a
    BY <1>1, <1>2, DoingPlain
  <1>4. UnlocksLast(d, Rest(p))
    <2>1. UnlockAt(r.todo, Rest(p)) /\ Rest(p) \in {0, 1}
      BY DEF UnlocksInv, UnlocksLast, UnlockAt, Rest
    <2>2. QED
      BY <1>1, <1>2, <2>1, DoingUnlocks
  <1>5. p \in Workers => "reschedule" \in Ahead(r)
    BY <1>1, LastAhead DEF WorkersInv
  <1>6. p \in Workers => d.pc = "idle" \/ LastIsReschedule(d)
    <2>1. CASE r.todo = <<>>
      BY <1>2, <2>1, DoingNothing, IdleIs
    <2>2. CASE r.todo # <<>>
      <3>1. p \in Workers => EndsWith(r.todo, "reschedule")
        BY <2>2 DEF WorkersInv, LastIsReschedule, EndsWith
      <3>2. QED
        BY <1>1, <1>2, <3>1, DoingEnds
    <2>3. QED
      BY <2>1, <2>2
  <1>7. Issued(d.snap, minted')
    BY <1>3 DEF TokensIssued, Issued
  <1>8. Goto(p, d)
    OBVIOUS
  <1> HIDE DEF d
  <1>9. "unlock" \in Ahead(d) => "unlock" \in Ahead(r) /\ d.a = r.a
    BY <1>3 DEF Ahead
  <1>10. "reschedule" \in Ahead(r) => r.a \in dirty' \/ (d.a = r.a /\ "reschedule" \in Ahead(d))
    BY <1>3 DEF Ahead
  <1>11. QED
    BY <1>3, <1>4, <1>5, <1>6, <1>7, <1>8, <1>9, <1>10 DEF Aside, Goto, d

(* A save goes on. *)
LEMMA SavingAside ==
    ASSUME ProcType, UnlocksInv, WorkersInv, TokensIssued, NEW p \in Procs, NEW d, Goto(p, d),
           proc[p].pc \in {"persist", "saving"}, d.pc = "saving", d.a = proc[p].a,
           d.snap = proc[p].snap, d.todo = proc[p].todo, UNCHANGED minted
    PROVE  Aside(p, d)
  <1>1. proc[p].todo \in Seq(Later)
    BY DEF ProcType, Goroutine
  <1>2. UnlocksLast(d, Rest(p))
    BY DEF UnlocksInv, UnlocksLast
  <1>3. p \in Workers => LastIsReschedule(proc[p]) /\ LastIsReschedule(d)
    BY DEF WorkersInv, LastIsReschedule
  <1>4. p \in Workers => "reschedule" \in Ahead(proc[p])
    BY <1>1, <1>3, LastAhead
  <1>5. /\ "unlock" \in Ahead(d) => "unlock" \in Ahead(proc[p])
        /\ "reschedule" \in Ahead(proc[p]) => "reschedule" \in Ahead(d)
    BY DEF Ahead
  <1>6. Issued(d.snap, minted')
    BY DEF TokensIssued
  <1>7. QED
    BY <1>2, <1>3, <1>4, <1>5, <1>6 DEF Aside, Goto

(* A step that changes nothing but goroutines, scheduler and cooldowns. *)
LEMMA LeavesRest ==
    ASSUME RIndInv, NEW p, NEW d, Aside(p, d),
           UNCHANGED <<auths, disk, heap, dirty, minted, dropped>>
    PROVE  Leaves(p, d)
  <1>1. minted \in Nat /\ dropped \subseteq Auths
    BY DEF RIndInv, IndInv, TypeOK, RTypeOK
  <1>2. QED
    BY <1>1 DEF RIndInv, TokensIssued, Leaves

LEMMA RParts ==
    ASSUME RIndInv
    PROVE  /\ VarType /\ ProcType /\ HandsInv /\ LocksInv /\ UnlocksInv /\ WorkersInv
           /\ TokensIssued /\ RTypeOK /\ ScheduledInv /\ SpentInv /\ IndInv /\ TypeOK
  BY TypeParts DEF RIndInv, IndInv

LEMMA PickedLeaves ==
    ASSUME RIndInv, NEW p \in Procs, p \notin Workers, NEW a, NEW m, Picked(p, a, m),
           proc[p].pc \in {"idle", "repick"}, UNCHANGED dropped
    PROVE  \E d : Leaves(p, d)
  <1> DEFINE d == [Idle EXCEPT !.pc = "exec", !.a = a, !.m = m, !.token = sched[a].token]
  <1>1. d.pc = "exec" /\ d.todo = <<>> /\ d.snap = NoAuth
    BY DEF Idle
  <1>2. Goto(p, d) /\ UNCHANGED <<auths, disk, heap, dirty, minted>>
    BY DEF Picked
  <1> HIDE DEF d
  <1>3. Ahead(d) = {"exec"}
    BY <1>1, NothingToDo DEF Ahead
  <1>4. "reschedule" \notin Ahead(proc[p])
    BY RParts, NothingAhead
  <1>5. Aside(p, d)
    BY <1>1, <1>2, <1>3, <1>4, FreshAside DEF Issued
  <1>6. QED
    BY <1>2, <1>5, LeavesRest

LEMMA PickFailsLeaves ==
    ASSUME RIndInv, NEW p \in Procs, p \notin Workers, NEW m, PickFails(p, m), UNCHANGED dropped
    PROVE  \E d : Leaves(p, d)
  <1> DEFINE d == [Idle EXCEPT !.pc = "rebuild", !.m = m, !.copy = auths]
  <1>1. d.pc = "rebuild" /\ d.todo = <<>> /\ d.snap = NoAuth
    BY DEF Idle
  <1>2. Goto(p, d) /\ UNCHANGED <<auths, disk, heap, dirty, minted>> /\ proc[p].pc = "idle"
    BY DEF PickFails, Begin, At
  <1> HIDE DEF d
  <1>3. Ahead(d) = {"rebuild"}
    BY <1>1, NothingToDo DEF Ahead
  <1>4. "reschedule" \notin Ahead(proc[p])
    BY <1>2, RParts, NothingAhead
  <1>5. Aside(p, d)
    BY <1>1, <1>2, <1>3, <1>4, FreshAside DEF Issued
  <1>6. QED
    BY <1>2, <1>5, LeavesRest

LEMMA RebuildLeaves ==
    ASSUME RIndInv, NEW p \in Procs, Rebuild(p), UNCHANGED dropped
    PROVE  \E d : Leaves(p, d)
  <1> DEFINE d == [Idle EXCEPT !.pc = "repick", !.m = proc[p].m]
  <1>1. d.pc = "repick" /\ d.todo = <<>> /\ d.snap = NoAuth
    BY DEF Idle
  <1>2. Goto(p, d) /\ UNCHANGED <<auths, disk, heap, dirty, minted>> /\ proc[p].pc = "rebuild"
    BY DEF Rebuild, At
  <1> HIDE DEF d
  <1>3. Ahead(d) = {"repick"}
    BY <1>1, NothingToDo DEF Ahead
  <1>4. "reschedule" \notin Ahead(proc[p])
    BY <1>2, RParts, NothingAhead
  <1>5. p \notin Workers
    BY <1>2, <1>4, RParts, NotWorker
  <1>6. Aside(p, d)
    BY <1>1, <1>2, <1>3, <1>4, <1>5, FreshAside DEF Issued
  <1>7. QED
    BY <1>2, <1>6, LeavesRest

LEMMA GiveUpLeaves ==
    ASSUME RIndInv, NEW p \in Procs, GiveUp(p), UNCHANGED dropped
    PROVE  \E d : Leaves(p, d)
  <1>1. Goto(p, Idle) /\ UNCHANGED <<auths, disk, heap, dirty, minted>> /\ proc[p].pc = "repick"
    BY DEF GiveUp, At
  <1>2. "reschedule" \notin Ahead(proc[p])
    BY <1>1, RParts, NothingAhead
  <1>3. p \notin Workers
    BY <1>1, <1>2, RParts, NotWorker
  <1>4. Aside(p, Idle)
    BY <1>1, <1>2, <1>3, IdleIs, FreshAside DEF Issued
  <1>5. QED
    BY <1>1, <1>4, LeavesRest

LEMMA SmallLeaves ==
    ASSUME RIndInv, NEW p \in Procs, Publish(p) \/ Registry(p), UNCHANGED dropped
    PROVE  \E d : Leaves(p, d)
  <1>1. /\ Goto(p, Continue(p)) /\ UNCHANGED <<auths, disk, heap, dirty, minted>>
        /\ proc[p].pc \in {"publish", "suspend", "resume"}
    BY DEF Publish, Registry, At
  <1>2. Aside(p, Continue(p))
    BY <1>1, RParts, ContinueAside
  <1>3. QED
    BY <1>1, <1>2, LeavesRest

LEMMA RescheduleLeaves ==
    ASSUME RIndInv, NEW p \in Procs, Reschedule(p), UNCHANGED dropped
    PROVE  \E d : Leaves(p, d)
  <1>1. /\ Goto(p, Continue(p)) /\ UNCHANGED <<auths, disk, heap, minted>>
        /\ dirty' = dirty \cup {proc[p].a} /\ proc[p].pc = "reschedule"
    BY DEF Reschedule, At
  <1>2. Aside(p, Continue(p))
    BY <1>1, RParts, ContinueAside
  <1>3. minted \in Nat /\ dropped \subseteq Auths
    BY RParts DEF VarType, RTypeOK
  <1>4. QED
    BY <1>1, <1>2, <1>3, RParts DEF TokensIssued, Leaves

(* A clone reaches its file with the token it has. *)
LEMMA SavedIssued ==
    ASSUME VarType, TokensIssued, NEW a \in Auths, NEW x \in Auth, NEW n \in Nat,
           minted <= n, Issued(x, n), disk' = Saved(a, x)
    PROVE  \A b \in Auths : Issued(disk'[b], n)
  <1>1. ASSUME NEW b \in Auths PROVE disk'[b] \in {disk[b], File(x)}
    BY DEF Saved, VarType
  <1>2. Issued(File(x), n)
    BY NilAssumption DEF Issued, File
  <1>3. ASSUME NEW b \in Auths PROVE Issued(disk[b], n)
    <2>1. disk[b] # NoAuth => disk[b].token \in Nat /\ disk[b].token <= minted
      BY DEF VarType, CredentialFile, TokensIssued, Issued
    <2>2. QED
      BY <2>1 DEF Issued, VarType
  <1>4. QED
    BY <1>1, <1>2, <1>3

LEMMA WriteFileLeaves ==
    ASSUME RIndInv, NEW p \in Procs, WriteFile(p), UNCHANGED dropped
    PROVE  \E d : Leaves(p, d)
  <1>1. /\ Goto(p, Continue(p)) /\ UNCHANGED <<auths, dirty, heap, minted>>
        /\ disk' = Saved(proc[p].a, proc[p].snap) /\ proc[p].pc = "file"
    BY DEF WriteFile, At
  <1>2. Aside(p, Continue(p))
    BY <1>1, RParts, ContinueAside
  <1>3. minted \in Nat /\ dropped \subseteq Auths
    BY RParts DEF VarType, RTypeOK
  <1>4. proc[p].a \in Auths /\ proc[p].snap \in Auth
    BY <1>1, RParts DEF HandsInv, Equipped, Ahead
  <1>5. Issued(proc[p].snap, minted) /\ minted <= minted
    BY <1>3, RParts DEF TokensIssued
  <1>6. \A b \in Auths : Issued(disk'[b], minted)
    BY <1>1, <1>3, <1>4, <1>5, RParts, SavedIssued
  <1>7. QED
    BY <1>1, <1>2, <1>3, <1>6, RParts DEF TokensIssued, Leaves

LEMMA UnscheduleLeaves ==
    ASSUME RIndInv, NEW p \in Procs, Unschedule(p), dropped' = dropped \cup {proc[p].a}
    PROVE  \E d : Leaves(p, d)
  <1>1. /\ Goto(p, Continue(p)) /\ UNCHANGED <<auths, disk, dirty, minted>>
        /\ heap' = [heap EXCEPT ![proc[p].a] = 0] /\ proc[p].pc = "unschedule"
    BY DEF Unschedule, At
  <1>2. Aside(p, Continue(p))
    BY <1>1, RParts, ContinueAside
  <1>3. minted \in Nat /\ dropped \subseteq Auths /\ heap \in [Auths -> Nat]
    BY RParts DEF VarType, RTypeOK
  <1>4. proc[p].a \in Auths
    BY <1>1, RParts DEF HandsInv, Equipped, Ahead
  <1>5. \A a \in Auths : heap'[a] = heap[a] \/ a \in dropped'
    BY <1>1, <1>3
  <1>6. QED
    BY <1>1, <1>2, <1>3, <1>4, <1>5, RParts DEF TokensIssued, Leaves

LEMMA SaveLeaves ==
    ASSUME RIndInv, NEW p \in Procs, UNCHANGED dropped,
           PersistBegin(p) \/ (\E a \in Auths : SaveFile(p, a)) \/ SaveFails(p)
    PROVE  \E d : Leaves(p, d)
  <1> DEFINE r == proc[p]
  <1>1. DOMAIN r = DOMAIN Idle
    BY RParts DEF ProcType, Goroutine
  <1>2. UNCHANGED <<auths, disk, heap, dirty, minted>> /\ r.pc \in {"persist", "saving"}
    BY DEF PersistBegin, SaveFile, SaveFails, At
  <1>3. CASE PersistBegin(p)
    <2> DEFINE d == [r EXCEPT !.pc = "saving", !.copy = TakeRecords(p), !.left = Auths]
    <2>1. Goto(p, d)
      BY <1>3 DEF PersistBegin
    <2>2. d.pc = "saving" /\ d.a = r.a /\ d.snap = r.snap /\ d.todo = r.todo
      BY <1>1 DEF Idle
    <2> HIDE DEF d
    <2>3. Aside(p, d)
      BY <1>2, <2>1, <2>2, RParts, SavingAside
    <2>4. QED
      BY <1>2, <2>3, LeavesRest
  <1>4. CASE Goto(p, Continue(p))
    <2>1. Aside(p, Continue(p))
      BY <1>2, <1>4, RParts, ContinueAside
    <2>2. QED
      BY <1>2, <2>1, LeavesRest
  <1>5. ASSUME NEW a \in Auths, SaveFile(p, a) PROVE \E d : Leaves(p, d)
    <2> DEFINE d == [r EXCEPT !.left = @ \ {a}]
    <2>1. Goto(p, d) \/ Goto(p, Continue(p))
      BY <1>5 DEF SaveFile
    <2>2. r.pc = "saving"
      BY <1>5 DEF SaveFile, At
    <2>3. d.pc = "saving" /\ d.a = r.a /\ d.snap = r.snap /\ d.todo = r.todo
      BY <1>1, <2>2 DEF Idle
    <2> HIDE DEF d
    <2>4. CASE Goto(p, d)
      <3>1. Aside(p, d)
        BY <1>2, <2>3, <2>4, RParts, SavingAside
      <3>2. QED
        BY <1>2, <3>1, LeavesRest
    <2>5. QED
      BY <1>4, <2>1, <2>4
  <1>6. CASE SaveFails(p)
    <2>1. \/ Goto(p, Continue(p)) \/ (Goto(p, Idle) /\ r.todo = <<"load">>)
      BY <1>6 DEF SaveFails
    <2>2. CASE Goto(p, Idle) /\ r.todo = <<"load">>
      <3>1. Ahead(r) \subseteq {"persist", "saving", "load"}
        <4>1. Steps(<<"load">>) = {"load"}
          BY OneStep DEF Later
        <4>2. QED
          BY <1>2, <2>2, <4>1 DEF Ahead
      <3>2. p \notin Workers
        BY <1>2, <3>1, RParts, NotWorker
      <3>3. Aside(p, Idle)
        BY <1>2, <2>2, <3>1, <3>2, IdleIs, FreshAside DEF Issued
      <3>4. QED
        BY <1>2, <3>3, LeavesRest
    <2>3. QED
      BY <1>4, <2>1, <2>2
  <1>7. QED
    BY <1>3, <1>5, <1>6

(* Publishing several clones, by who has no credential in hand. *)
LEMMA RepublishingAside ==
    ASSUME RIndInv, NEW p \in Procs, p \notin Workers,
           proc[p].pc \notin {"lock", "refresh", "update"}, "reschedule" \notin Ahead(proc[p]),
           NEW copy, NEW left, NEW todo \in Seq(Later), "unlock" \notin Steps(todo),
           Goto(p, Republishing(p, copy, left, todo))
    PROVE  Aside(p, Republishing(p, copy, left, todo))
  <1> DEFINE d == Republishing(p, copy, left, todo)
  <1>1. CASE left = {}
    <2>1. d = Doing(p, NoAuth, {}, NoAuth, todo)
      BY <1>1 DEF Republishing
    <2>2. d.pc \notin {"lock", "refresh", "update"} /\ d.snap = NoAuth
          /\ Ahead(d) \subseteq Steps(todo) \cup {"idle"}
      BY <2>1, DoingPlain
    <2> HIDE DEF d
    <2>3. QED
      BY <2>2, FreshAside DEF Issued, d
  <1>2. CASE left # {}
    <2>1. d = [Idle EXCEPT !.pc = "republish", !.copy = copy, !.left = left, !.todo = todo]
      BY <1>2 DEF Republishing
    <2>2. d.pc = "republish" /\ d.todo = todo /\ d.snap = NoAuth
      BY <2>1 DEF Idle
    <2> HIDE DEF d
    <2>3. "unlock" \notin Ahead(d)
      BY <2>2 DEF Ahead
    <2>4. QED
      BY <2>2, <2>3, FreshAside DEF Issued, d
  <1>3. QED
    BY <1>1, <1>2

LEMMA RepublishLeaves ==
    ASSUME RIndInv, NEW p \in Procs, NEW a \in Auths, Republish(p, a), UNCHANGED dropped
    PROVE  \E d : Leaves(p, d)
  <1> DEFINE r == proc[p]
             d == Republishing(p, r.copy, r.left \ {a}, r.todo)
  <1>1. Goto(p, d) /\ UNCHANGED <<auths, disk, heap, dirty, minted>> /\ r.pc = "republish"
    BY DEF Republish, At
  <1>2. r.todo \in Seq(Later) /\ Steps(r.todo) \subseteq {"persist", "load"}
    BY <1>1, RParts DEF ProcType, Goroutine, HandsInv, Equipped
  <1>3. "reschedule" \notin Ahead(r) /\ "unlock" \notin Steps(r.todo)
    BY <1>1, <1>2 DEF Ahead
  <1>4. p \notin Workers
    BY <1>1, <1>3, RParts, NotWorker
  <1>5. Aside(p, d)
    BY <1>1, <1>2, <1>3, <1>4, RepublishingAside
  <1>6. QED
    BY <1>1, <1>5, LeavesRest

LEMMA LoadRecordsLeaves ==
    ASSUME RIndInv, NEW p \in Procs, LoadRecords(p), UNCHANGED dropped
    PROVE  \E d : Leaves(p, d)
  <1> DEFINE r == proc[p]
             d == [r EXCEPT !.pc = "restore", !.copy = store]
  <1>1. /\ Goto(p, Idle) \/ Goto(p, d)
        /\ UNCHANGED <<auths, disk, heap, dirty, minted>> /\ r.pc = "load"
    BY DEF LoadRecords, At
  <1>2. Ahead(r) = {"load"} /\ r.todo = <<>>
    BY <1>1, RParts, NothingAhead
  <1>3. p \notin Workers
    BY <1>1, <1>2, RParts, NotWorker
  <1>4. d.pc = "restore" /\ d.todo = <<>> /\ d.snap = r.snap
    <2>1. DOMAIN r = DOMAIN Idle
      BY RParts DEF ProcType, Goroutine
    <2>2. QED
      BY <1>2, <2>1 DEF Idle
  <1> HIDE DEF d
  <1>5. Ahead(d) = {"restore"}
    BY <1>4, NothingToDo DEF Ahead
  <1>6. Issued(d.snap, minted')
    BY <1>1, <1>4, RParts DEF TokensIssued
  <1>7. Aside(p, Idle) \/ Aside(p, d)
    BY <1>1, <1>2, <1>3, <1>4, <1>5, <1>6, IdleIs, FreshAside DEF Issued
  <1>8. QED
    BY <1>1, <1>7, LeavesRest

LEMMA RestoreLeaves ==
    ASSUME RIndInv, NEW p \in Procs, Restore(p), UNCHANGED dropped
    PROVE  \E d : Leaves(p, d)
  <1> DEFINE r == proc[p]
             left == {a \in Auths : Live(auths[a], r.copy[a], now) # {}}
             d == Republishing(p, auths', left, <<"persist">>)
  <1>1. /\ Goto(p, d) /\ UNCHANGED <<disk, heap, dirty, minted>> /\ r.pc = "restore"
        /\ auths' = [a \in Auths |-> Restored(auths[a], r.copy[a], now)]
    BY DEF Restore, At
  <1>2. Ahead(r) = {"restore"}
    BY <1>1, RParts, NothingAhead
  <1>3. p \notin Workers
    BY <1>1, <1>2, RParts, NotWorker
  <1>4. <<"persist">> \in Seq(Later) /\ "unlock" \notin Steps(<<"persist">>)
    BY SaveOnly
  <1> HIDE DEF left
  <1>5. Aside(p, d)
    BY <1>1, <1>2, <1>3, <1>4, RepublishingAside
  <1> HIDE DEF d
  <1>6. ASSUME NEW a \in Auths
        PROVE  /\ auths[a] = NoAuth => auths'[a] = NoAuth
               /\ Issued(auths'[a], minted)
    <2>1. auths'[a] = Restored(auths[a], r.copy[a], now)
      BY <1>1
    <2>2. CASE auths[a] = NoAuth
      BY <2>1, <2>2, RestoredIdle DEF Issued
    <2>3. CASE auths[a] # NoAuth
      <3>1. auths[a] \in Auth /\ r.copy[a] \in SUBSET Record /\ now \in Nat
        BY <1>1, <2>3, RParts, ConductorAssumption DEF VarType, Entry, ProcType, Goroutine
      <3>2. auths'[a].token = auths[a].token
        BY <2>1, <3>1, RestoredToken
      <3>3. QED
        BY <2>3, <3>2, RParts DEF TokensIssued, Issued
    <2>4. QED
      BY <2>2, <2>3
  <1>7. minted \in Nat /\ dropped \subseteq Auths
    BY RParts DEF VarType, RTypeOK
  <1>8. QED
    BY <1>1, <1>5, <1>6, <1>7, RParts DEF TokensIssued, Leaves

LEMMA EditUpdateLeaves ==
    ASSUME RIndInv, NEW p \in Procs, EditUpdate(p), UNCHANGED dropped
    PROVE  \E d : Leaves(p, d)
  <1> DEFINE a == proc[p].a
             auth == [proc[p].snap EXCEPT !.disabled = ~@]
  <1>1. /\ proc[p].pc = "edit" /\ UpdateTo(p, a, auth, {}, <<>>)
        /\ UNCHANGED <<disk, heap, dirty, minted, now>>
    BY DEF EditUpdate, At
  <1>2. a \in Auths /\ proc[p].snap \in Auth
    BY <1>1, RParts DEF HandsInv, Equipped, Ahead
  <1>3. auth \in Auth /\ auth.token = proc[p].snap.token
    BY <1>2 DEF Auth
  <1>4. <<>> \in Seq(Later) /\ "load" \notin Steps(<<>>) /\ {} \subseteq Models
    BY NothingToDo
  <1>5. Issued(auth, minted) /\ minted \in Nat /\ dropped \subseteq Auths
    BY <1>2, <1>3, RParts, NilAssumption DEF TokensIssued, Issued, VarType, RTypeOK
  <1>6. "reschedule" \notin Ahead(proc[p]) /\ p \notin Workers
    BY <1>1, RParts, NothingAhead, NotWorker
  <1> HIDE DEF auth, a
  <1>7. \/ /\ auths[a] = NoAuth /\ UNCHANGED auths
           /\ Goto(p, Doing(p, a, {}, auth, <<>>))
        \/ \E inh \in Auth, new \in Auth, c \in BOOLEAN :
              /\ auths[a] \in Auth /\ inh.token = auth.token
              /\ new \in {inh, ClearedCooldown(inh, now)}
              /\ auths' = [auths EXCEPT ![a] = new]
              /\ Goto(p, Doing(p, a, {}, new, <<"publish", "reschedule", "file">>
                                             \o When(c, <<"persist">>) \o <<>>))
    <2>1. VarType /\ ProcType /\ HandsInv
      BY RParts
    <2>2. UpdatedAs(p, a, auth, {}, <<>>)
      BY <1>1, <1>2, <1>3, <1>4, <2>1, UpdateToDoes
    <2>3. QED
      BY <1>1, <2>2 DEF UpdatedAs
  <1>8. CASE UNCHANGED auths /\ Goto(p, Doing(p, a, {}, auth, <<>>))
    <2>1. Goto(p, Idle)
      BY <1>8, DoingNothing
    <2>2. Aside(p, Idle)
      BY <1>1, <1>6, <2>1, IdleIs, FreshAside DEF Issued
    <2>3. QED
      BY <1>1, <1>8, <2>2, LeavesRest
  <1>9. ASSUME NEW inh \in Auth, NEW new \in Auth, NEW c \in BOOLEAN,
               auths[a] \in Auth, inh.token = auth.token,
               new \in {inh, ClearedCooldown(inh, now)}, auths' = [auths EXCEPT ![a] = new],
               Goto(p, Doing(p, a, {}, new, <<"publish", "reschedule", "file">>
                                             \o When(c, <<"persist">>) \o <<>>))
        PROVE  \E d : Leaves(p, d)
    <2>1. new.token = auth.token
      <3>1. now \in Nat
        BY RParts, ConductorAssumption DEF VarType
      <3>2. ClearedCooldown(inh, now).token = inh.token
        BY <3>1, ClearedDoes
      <3>3. QED
        BY <1>9, <3>2
    <2>2. Issued(new, minted')
      BY <1>1, <1>3, <1>5, <2>1, NilAssumption DEF Issued
    <2>3. Starts(p, a, new)
      <3> DEFINE todo == <<"publish", "reschedule", "file">> \o When(c, <<"persist">>) \o <<>>
      <3>1. todo \in Seq(Later) /\ "unlock" \notin Steps(todo)
        <4>1. /\ todo \in Seq(Later)
              /\ Steps(todo) = {"publish", "reschedule", "file"}
                               \cup (IF c THEN {"persist"} ELSE {}) \cup Steps(<<>>)
          BY <1>4, UpdateThenSave
        <4> HIDE DEF todo
        <4>2. QED
          BY <4>1, NothingToDo
      <3>2. Goto(p, Doing(p, a, {}, new, todo))
        BY <1>9
      <3> HIDE DEF todo
      <3>3. QED
        BY <3>1, <3>2 DEF Starts
    <2>4. PICK d : Aside(p, d)
      BY <1>1, <1>6, <2>2, <2>3, StartAside
    <2>5. ASSUME NEW b \in Auths
          PROVE  /\ auths[b] = NoAuth => auths'[b] = NoAuth
                 /\ Issued(auths'[b], minted)
      <3>1. CASE b = a
        <4>1. auths'[b] = new
          BY <1>2, <1>9, <3>1, RParts DEF VarType
        <4>2. QED
          BY <1>1, <1>9, <2>2, <3>1, <4>1, NilAssumption
      <3>2. CASE b # a
        <4>1. auths'[b] = auths[b]
          BY <1>9, <3>2, RParts DEF VarType
        <4>2. QED
          BY <4>1, RParts DEF TokensIssued
      <3>3. QED
        BY <3>1, <3>2
    <2>6. QED
      BY <1>1, <1>5, <2>4, <2>5, RParts DEF TokensIssued, Leaves
  <1>10. QED
    BY <1>7, <1>8, <1>9

LEMMA RemoveLeaves ==
    ASSUME RIndInv, NEW p \in Procs, Remove(p), UNCHANGED dropped
    PROVE  \E d : Leaves(p, d)
  <1> DEFINE a == proc[p].a
             todo == <<"publish", "unschedule", "persist">>
  <1>1. /\ proc[p].pc = "remove" /\ UNCHANGED <<disk, heap, dirty, minted>>
        /\ auths' = [auths EXCEPT ![a] = NoAuth]
        /\ Goto(p, Idle) \/ Goto(p, Doing(p, a, {}, NoAuth, todo))
    BY DEF Remove, At
  <1>2. "reschedule" \notin Ahead(proc[p]) /\ p \notin Workers
    BY <1>1, RParts, NothingAhead, NotWorker
  <1>3. todo \in Seq(Later) /\ "unlock" \notin Steps(todo)
    BY RemoveSteps
  <1> HIDE DEF todo
  <1>4. PICK d : Aside(p, d)
    <2>1. CASE Goto(p, Idle)
      BY <1>1, <1>2, <2>1, IdleIs, FreshAside DEF Issued
    <2>2. CASE Goto(p, Doing(p, a, {}, NoAuth, todo))
      <3>1. Starts(p, a, NoAuth)
        BY <1>3, <2>2 DEF Starts
      <3>2. Issued(NoAuth, minted')
        BY DEF Issued
      <3>3. QED
        BY <1>1, <1>2, <3>1, <3>2, StartAside
    <2>3. QED
      BY <1>1, <2>1, <2>2
  <1>5. \A b \in Auths : auths'[b] \in {auths[b], NoAuth}
    BY <1>1, RParts DEF VarType
  <1>6. minted \in Nat /\ dropped \subseteq Auths
    BY RParts DEF VarType, RTypeOK
  <1>7. QED
    BY <1>1, <1>4, <1>5, <1>6, RParts DEF TokensIssued, Leaves, Issued

(* One credential gets another record with its own token. *)
LEMMA OneLeaves ==
    ASSUME RIndInv, NEW p, NEW d, Aside(p, d), NEW a \in Auths, NEW new \in Auth,
           auths[a] \in Auth, new.token = auths[a].token,
           auths' = [auths EXCEPT ![a] = new], disk' = Saved(a, new),
           UNCHANGED <<heap, dirty, minted, dropped>>
    PROVE  Leaves(p, d)
  <1>1. minted \in Nat /\ dropped \subseteq Auths /\ minted <= minted
    BY RParts DEF VarType, RTypeOK
  <1>2. Issued(new, minted)
    BY NilAssumption, RParts DEF TokensIssued, Issued
  <1>3. \A b \in Auths : Issued(disk'[b], minted)
    BY <1>1, <1>2, RParts, SavedIssued
  <1>4. \A b \in Auths : auths'[b] = IF b = a THEN new ELSE auths[b]
    BY RParts DEF VarType
  <1>5. \A b \in Auths : Issued(auths'[b], minted) /\ (auths[b] = NoAuth => auths'[b] = NoAuth)
    BY <1>2, <1>4, NilAssumption, RParts DEF TokensIssued
  <1>6. QED
    BY <1>1, <1>3, <1>5 DEF Leaves

LEMMA MarkResultLeaves ==
    ASSUME RIndInv, NEW p \in Procs, NEW o \in Outcomes, MarkResult(p, o), UNCHANGED dropped
    PROVE  \E d : Leaves(p, d)
  <1> DEFINE a == proc[p].a
             new == AfterResult(auths[a], proc[p].m, o, now)
  <1>1. proc[p].pc \in {"exec", "rejected"} /\ UNCHANGED <<heap, dirty, minted>>
    BY DEF MarkResult, At
  <1>2. "reschedule" \notin Ahead(proc[p]) /\ p \notin Workers
    BY <1>1, RParts, NothingAhead, NotWorker
  <1>3. /\ a \in Auths
        /\ \/ UNCHANGED <<auths, disk>> /\ Goto(p, Idle)
           \/ /\ auths[a] \in Auth /\ new \in Auth /\ new.token = auths[a].token
              /\ Starts(p, a, new)
              /\ auths' = [auths EXCEPT ![a] = new] /\ disk' = Saved(a, new)
    BY RParts, MarkResultDoes
  <1> HIDE DEF a, new
  <1>4. CASE UNCHANGED <<auths, disk>> /\ Goto(p, Idle)
    <2>1. Aside(p, Idle)
      BY <1>1, <1>2, <1>4, IdleIs, FreshAside DEF Issued
    <2>2. QED
      BY <1>1, <1>4, <2>1, LeavesRest
  <1>5. CASE /\ auths[a] \in Auth /\ new \in Auth /\ new.token = auths[a].token
             /\ Starts(p, a, new)
             /\ auths' = [auths EXCEPT ![a] = new] /\ disk' = Saved(a, new)
    <2>1. Issued(new, minted')
      BY <1>1, <1>3, <1>5, NilAssumption, RParts DEF TokensIssued, Issued
    <2>2. PICK d : Aside(p, d)
      BY <1>1, <1>2, <1>5, <2>1, StartAside
    <2>3. QED
      BY <1>1, <1>3, <1>5, <2>2, OneLeaves
  <1>6. QED
    BY <1>3, <1>4, <1>5

LEMMA ResetQuotaLeaves ==
    ASSUME RIndInv, NEW p \in Procs, p \notin Workers, NEW a \in Auths, ResetQuota(p, a),
           UNCHANGED dropped
    PROVE  \E d : Leaves(p, d)
  <1>1. proc[p].pc = "idle" /\ UNCHANGED <<heap, dirty, minted>>
    BY DEF ResetQuota, Begin, At
  <1>2. "reschedule" \notin Ahead(proc[p])
    BY <1>1, RParts, NothingAhead
  <1>3. /\ auths[a] \in Auth
        /\ \E new \in Auth : /\ new.token = auths[a].token /\ Starts(p, a, new)
                             /\ auths' = [auths EXCEPT ![a] = new] /\ disk' = Saved(a, new)
    BY RParts, ResetQuotaDoes
  <1>4. PICK new \in Auth : /\ new.token = auths[a].token /\ Starts(p, a, new)
                            /\ auths' = [auths EXCEPT ![a] = new] /\ disk' = Saved(a, new)
    BY <1>3
  <1>5. Issued(new, minted')
    BY <1>1, <1>3, <1>4, NilAssumption, RParts DEF TokensIssued, Issued
  <1>6. PICK d : Aside(p, d)
    BY <1>1, <1>2, <1>4, <1>5, StartAside
  <1>7. QED
    BY <1>1, <1>3, <1>4, <1>6, OneLeaves

LEMMA EditBeginLeaves ==
    ASSUME RIndInv, NEW p \in Procs, p \notin Workers, NEW a \in Auths, EditBegin(p, a),
           UNCHANGED dropped
    PROVE  \E d : Leaves(p, d)
  <1> DEFINE d == [Idle EXCEPT !.pc = "edit", !.a = a, !.snap = auths[a]]
  <1>1. d.pc = "edit" /\ d.todo = <<>> /\ d.snap = auths[a]
    BY DEF Idle
  <1>2. Goto(p, d) /\ UNCHANGED <<auths, disk, heap, dirty, minted>> /\ proc[p].pc = "idle"
    BY DEF EditBegin, Begin, At
  <1> HIDE DEF d
  <1>3. Ahead(d) = {"edit"}
    BY <1>1, NothingToDo DEF Ahead
  <1>4. "reschedule" \notin Ahead(proc[p])
    BY <1>2, RParts, NothingAhead
  <1>5. Issued(d.snap, minted')
    BY <1>1, <1>2, RParts DEF TokensIssued
  <1>6. Aside(p, d)
    BY <1>1, <1>2, <1>3, <1>4, <1>5, FreshAside
  <1>7. QED
    BY <1>2, <1>6, LeavesRest

LEMMA RegisterLeaves ==
    ASSUME RIndInv, NEW p \in Procs, p \notin Workers, NEW a \in Auths, Register(p, a),
           UNCHANGED dropped
    PROVE  \E d : Leaves(p, d)
  <1> DEFINE f == [disabled |-> FALSE, token |-> minted']
             todo == <<"publish", "reschedule", "file">>
             x == auths'[a]
             d == Doing(p, a, {}, x, todo)
  <1>1. /\ minted' = minted + 1 /\ minted' \in 1 .. MaxTokens /\ minted \in Nat
        /\ minted' \in Nat /\ minted <= minted' /\ dropped \subseteq Auths
    BY ConductorAssumption, RParts DEF Register, VarType, RTypeOK
  <1>2. f \in CredentialFile /\ f.token = minted'
    BY <1>1 DEF CredentialFile
  <1>3. /\ auths' = [auths EXCEPT ![a] = Fresh(f)] /\ proc[p].pc = "idle"
        /\ UNCHANGED <<disk, heap, dirty>> /\ Goto(p, d)
    BY DEF Register, Begin, At
  <1>4. x = Fresh(f) /\ \A b \in Auths : b # a => auths'[b] = auths[b]
    BY <1>3, RParts DEF VarType
  <1> HIDE DEF f, x
  <1>5. x.token = minted'
    BY <1>2, <1>4, FreshDoes
  <1>6. /\ todo \in Seq(Later) /\ Steps(todo) = {"publish", "reschedule", "file"}
    BY UpdateSteps
  <1> HIDE DEF todo
  <1>7. /\ d.pc \notin {"lock", "refresh", "update"} /\ d.snap \in {x, NoAuth}
        /\ Ahead(d) \subseteq Steps(todo) \cup {"idle"} /\ Steps(todo) \subseteq Ahead(d)
        /\ d.a = a
    BY <1>6, DoingPlain
  <1> HIDE DEF d
  <1>8. "reschedule" \notin Ahead(proc[p])
    BY <1>3, RParts, NothingAhead
  <1>9. Issued(d.snap, minted') /\ Issued(x, minted')
    BY <1>1, <1>5, <1>7 DEF Issued
  <1>10. Aside(p, d)
    BY <1>3, <1>6, <1>7, <1>8, <1>9, FreshAside
  <1>11. ASSUME NEW b \in Auths
         PROVE  Issued(auths[b], minted') /\ Issued(disk[b], minted')
    <2>1. /\ auths[b] # NoAuth => auths[b].token \in Nat /\ auths[b].token <= minted
          /\ disk[b] # NoAuth => disk[b].token \in Nat /\ disk[b].token <= minted
      BY RParts DEF VarType, Entry, Auth, CredentialFile, TokensIssued, Issued
    <2>2. QED
      BY <1>1, <2>1 DEF Issued
  <1>12. \A b \in Auths : Issued(auths'[b], minted') /\ Issued(disk'[b], minted')
    BY <1>3, <1>4, <1>9, <1>11 DEF x
  <1>13. \A b \in Auths : auths[b] = NoAuth /\ auths'[b] # NoAuth => b = a
    BY <1>4
  <1>14. QED
    BY <1>1, <1>3, <1>6, <1>7, <1>10, <1>12, <1>13 DEF Leaves

LEMMA DeleteFileLeaves ==
    ASSUME RIndInv, NEW p \in Procs, p \notin Workers, NEW a \in Auths, DeleteFile(p, a),
           UNCHANGED dropped
    PROVE  \E d : Leaves(p, d)
  <1> DEFINE todo == <<"remove">>
             d == [Idle EXCEPT !.pc = Head(todo), !.a = a, !.m = proc[p].m, !.ms = {},
                               !.snap = NoAuth, !.todo = Tail(todo)]
  <1>1. todo # <<>> /\ Head(todo) = "remove" /\ Tail(todo) = <<>>
    OBVIOUS
  <1>2. /\ Goto(p, d) /\ proc[p].pc = "idle" /\ disk' = [disk EXCEPT ![a] = NoAuth]
        /\ UNCHANGED <<auths, heap, dirty, minted>>
    BY <1>1 DEF DeleteFile, Begin, At, Doing
  <1> HIDE DEF todo
  <1>3. d.pc = "remove" /\ d.snap = NoAuth /\ d.todo = <<>>
    BY <1>1 DEF Idle
  <1> HIDE DEF d
  <1>4. Ahead(d) = {"remove"}
    BY <1>3, NothingToDo DEF Ahead
  <1>5. "reschedule" \notin Ahead(proc[p])
    BY <1>2, RParts, NothingAhead
  <1>6. Aside(p, d)
    BY <1>2, <1>3, <1>4, <1>5, FreshAside DEF Issued
  <1>7. minted \in Nat /\ dropped \subseteq Auths
    BY RParts DEF VarType, RTypeOK
  <1>8. \A b \in Auths : disk'[b] \in {disk[b], NoAuth}
    BY <1>2, RParts DEF VarType
  <1>9. QED
    BY <1>2, <1>6, <1>7, <1>8, RParts DEF TokensIssued, Issued, Leaves

(* A step that the conductor's modules make beside the refreshes. *)
LEMMA StepLeaves ==
    ASSUME RIndInv, NEW p \in Procs, Step(p), dropped' = Unscheduling(p)
    PROVE  \E d : Leaves(p, d)
  <1>1. CASE Unschedule(p)
    <2>1. dropped' = dropped \cup {proc[p].a}
      BY <1>1 DEF Unschedule, Unscheduling
    <2>2. QED
      BY <1>1, <2>1, UnscheduleLeaves
  <1>2. ASSUME proc[p].pc # "unschedule" PROVE UNCHANGED dropped
    BY <1>2 DEF Unscheduling, At
  <1>3. ASSUME NEW a \in Auths, PickAgain(p, a) PROVE \E d : Leaves(p, d)
    <2>1. proc[p].pc = "repick" /\ Picked(p, a, proc[p].m)
      BY <1>3 DEF PickAgain, At
    <2>2. p \notin Workers
      BY <2>1, RParts, NothingAhead, NotWorker
    <2>3. QED
      BY <1>2, <2>1, <2>2, PickedLeaves
  <1>4. CASE (\E a \in Auths : SaveFile(p, a)) \/ PersistBegin(p) \/ SaveFails(p)
    <2>1. proc[p].pc \in {"persist", "saving"}
      BY <1>4 DEF SaveFile, PersistBegin, SaveFails, At
    <2>2. QED
      BY <1>2, <1>4, <2>1, SaveLeaves
  <1>5. ASSUME NEW a \in Auths, Republish(p, a) PROVE \E d : Leaves(p, d)
    BY <1>2, <1>5, RepublishLeaves DEF Republish, At
  <1>6. CASE Rebuild(p)
    BY <1>2, <1>6, RebuildLeaves DEF Rebuild, At
  <1>7. CASE GiveUp(p)
    BY <1>2, <1>7, GiveUpLeaves DEF GiveUp, At
  <1>8. CASE Publish(p) \/ Registry(p)
    BY <1>2, <1>8, SmallLeaves DEF Publish, Registry, At
  <1>9. CASE LoadRecords(p)
    BY <1>2, <1>9, LoadRecordsLeaves DEF LoadRecords, At
  <1>10. CASE Restore(p)
    BY <1>2, <1>10, RestoreLeaves DEF Restore, At
  <1>11. CASE EditUpdate(p)
    BY <1>2, <1>11, EditUpdateLeaves DEF EditUpdate, At
  <1>12. CASE Reschedule(p)
    BY <1>2, <1>12, RescheduleLeaves DEF Reschedule, At
  <1>13. CASE WriteFile(p)
    BY <1>2, <1>13, WriteFileLeaves DEF WriteFile, At
  <1>14. CASE Remove(p)
    BY <1>2, <1>14, RemoveLeaves DEF Remove, At
  <1>15. QED
    BY <1>1, <1>3, <1>4, <1>5, <1>6, <1>7, <1>8, <1>9, <1>10, <1>11, <1>12, <1>13, <1>14
       DEF Step

LEMMA BesideLeaves ==
    ASSUME RIndInv, NEW p \in Procs,
           \/ RStep(p)
           \/ p \notin Workers /\ (ROperation(p) \/ \E o \in Outcomes : Report(p, o))
    PROVE  \E d : Leaves(p, d)
  <1>1. CASE RStep(p)
    BY <1>1, StepLeaves DEF RStep
  <1>2. ASSUME NEW o \in Outcomes, Report(p, o) PROVE \E d : Leaves(p, d)
    BY <1>2, MarkResultLeaves DEF Report
  <1>3. CASE p \notin Workers /\ ROperation(p)
    <2>1. UNCHANGED dropped
      BY <1>3 DEF ROperation
    <2>2. ASSUME NEW a \in Auths, NEW m \in Requested, Pick(p, a, m) PROVE \E d : Leaves(p, d)
      BY <1>3, <2>1, <2>2, PickedLeaves DEF Pick, Begin, At
    <2>3. QED
      BY <1>3, <2>1, <2>2, PickFailsLeaves, EditBeginLeaves, RegisterLeaves,
         DeleteFileLeaves, ResetQuotaLeaves DEF ROperation
  <1>4. QED
    BY <1>1, <1>2, <1>3

LEMMA BesideStep ==
    ASSUME RIndInv, NEW p \in Procs,
           \/ RStep(p)
           \/ p \notin Workers /\ (ROperation(p) \/ \E o \in Outcomes : Report(p, o))
    PROVE  RIndInv'
  <1>1. Next
    BY DEF Next, Operation, RStep, ROperation, Report
  <1>2. IndInv'
    BY <1>1, RParts, Inductive
  <1>3. Beside
    BY DEF RStep, ROperation, Report
  <1>4. QED
    BY <1>2, <1>3, BesideLeaves, AsideKeeps

(* Nothing but the clock moves. *)
LEMMA RTickStep ==
    ASSUME RIndInv, Tick \/ UNCHANGED vars, UNCHANGED refreshVars
    PROVE  RIndInv'
  <1>1. IndInv'
    BY RParts, Inductive DEF Next
  <1>2. UNCHANGED <<auths, disk, heap, dirty, minted, proc>> /\ UNCHANGED refreshVars
    BY DEF Tick, vars
  <1>3. RTypeOK'
    BY <1>2, RParts DEF RTypeOK, LoopType, refreshVars
  <1>4. TokensIssued'
    BY <1>2, RParts DEF TokensIssued, refreshVars
  <1>5. LocksInv' /\ UnlocksInv' /\ WorkersInv'
    BY <1>2, RParts DEF LocksInv, UnlocksInv, WorkersInv, refreshVars
  <1>6. ScheduledInv'
    BY <1>2, RParts DEF ScheduledInv, InHand, refreshVars
  <1>7. SpentInv'
    BY <1>2, RParts DEF SpentInv, Replacing, refreshVars
  <1>8. QED
    BY <1>1, <1>3, <1>4, <1>5, <1>6, <1>7 DEF RIndInv

(* A crash leaves the locks open, every credential to be looked at and the *)
(* tokens of the files.                                                    *)
LEMMA RRestartStep ==
    ASSUME RIndInv, NEW p \in Procs \ Workers, RRestart(p)
    PROVE  RIndInv'
  <1>1. Restart(p)
    BY DEF RRestart
  <1>2. IndInv'
    BY <1>1, RParts, Inductive DEF Next, Operation
  <1>3. /\ UNCHANGED <<disk, minted, now, store, expires, spent>> /\ dirty' = Auths
        /\ refreshLocks' = [a \in Auths |-> {}] /\ jobs' = <<>> /\ loop' = Waiting
        /\ dropped' = {} /\ reverted' = Reverting(TRUE)
    BY DEF RRestart, Restart
  <1>4. ASSUME NEW q \in Procs
        PROVE  /\ proc'[q].todo = <<>> /\ proc'[q].snap = NoAuth
               /\ proc'[q].pc \in {"idle", "persist"}
               /\ q \in Workers => proc'[q].pc = "idle"
    <2> DEFINE d == [Idle EXCEPT !.pc = "persist"]
    <2>1. d.todo = <<>> /\ d.snap = NoAuth /\ d.pc = "persist"
      BY DEF Idle
    <2> HIDE DEF d
    <2>2. proc'[q] = Idle \/ (q = p /\ proc'[q] = d)
      BY <1>1 DEF Restart, d
    <2>3. QED
      BY <2>1, <2>2, IdleIs
  <1>5. ASSUME NEW q \in Procs PROVE Ahead(proc'[q]) = {proc'[q].pc}
    BY <1>4, NothingToDo DEF Ahead
  <1>6. RTypeOK'
    <2>1. JobBuffer \in Nat \ {0} /\ <<>> \in Seq(Auths) /\ Len(<<>>) = 0
      BY RefreshAssumption
    <2>2. jobs' \in Seq(Auths) /\ Len(jobs') <= JobBuffer
      BY <1>3, <2>1
    <2>3. /\ DOMAIN loop' = DOMAIN Waiting /\ loop'.pc = "wait" /\ loop'.t = 0 /\ loop'.left = {}
          /\ loop'.next = 0
      BY <1>3 DEF Waiting
    <2>4. LoopType'
      BY <2>3 DEF LoopType
    <2>5. reverted' \subseteq Auths
      BY <1>3, RParts DEF Reverting, RTypeOK
    <2>6. QED
      BY <1>3, <2>2, <2>4, <2>5, RParts DEF RTypeOK
  <1>7. TokensIssued'
    <2>1. ASSUME NEW a \in Auths PROVE Issued(auths'[a], minted)
      <3>1. CASE disk[a] = NoAuth
        BY <1>1, <3>1 DEF Restart, Issued
      <3>2. CASE disk[a] # NoAuth
        <4>1. disk[a] \in CredentialFile /\ store[a] \in SUBSET Record /\ now \in Nat
          BY <3>2, RParts, ConductorAssumption DEF VarType
        <4>2. auths'[a] = Restored(Fresh(disk[a]), store[a], now)
          BY <1>1, <3>2 DEF Restart
        <4>3. Fresh(disk[a]) \in Auth /\ Fresh(disk[a]).token = disk[a].token
          BY <4>1, FreshDoes
        <4>4. auths'[a].token = disk[a].token
          BY <4>1, <4>2, <4>3, RestoredDoes
        <4>5. QED
          BY <3>2, <4>4, RParts DEF TokensIssued, Issued
      <3>3. QED
        BY <3>1, <3>2
    <2>2. QED
      BY <1>3, <1>4, <2>1, RParts DEF TokensIssued, Issued
  <1>8. LocksInv'
    BY <1>4, <1>5 DEF LocksInv, Holds, Ahead, Steps
  <1>9. UnlocksInv' /\ WorkersInv'
    <2>1. Workers \subseteq Procs /\ DOMAIN <<>> = {}
      BY RefreshAssumption
    <2>2. QED
      BY <1>4, <2>1 DEF UnlocksInv, UnlocksLast, WorkersInv
  <1>10. ScheduledInv'
    BY <1>3, InHandIsNext DEF ScheduledInv
  <1>11. SpentInv'
    BY <1>3 DEF SpentInv, Reverting
  <1>12. QED
    BY <1>2, <1>6, <1>7, <1>8, <1>9, <1>10, <1>11 DEF RIndInv

-----------------------------------------------------------------------------
(* The loop. *)

(* The map may change in the deadlines of its credentials' backoff only;   *)
(* the goroutines stand still.                                             *)
LEMMA LoopKeepsConductor ==
    ASSUME IndInv, UNCHANGED <<now, cooling, sched, disk, store, unsaved, suspended, cfgMu,
                               minted, ops, proc>>,
           heap' \in [Auths -> Nat], dirty' \subseteq Auths,
           NEW a, NEW t \in Nat,
           UNCHANGED auths \/ (/\ a \in Auths /\ auths[a] # NoAuth
                               /\ auths' = [auths EXCEPT ![a].refreshAt = t])
    PROVE  /\ IndInv' /\ auths' \in [Auths -> Entry]
           /\ \A b \in Auths : /\ auths'[b] = NoAuth <=> auths[b] = NoAuth
                               /\ auths[b] # NoAuth => auths'[b].token = auths[b].token
  <1>1. VarType /\ ProcType /\ HandsInv /\ MutexInv /\ RecordsInv /\ SavedInv
    BY TypeParts DEF IndInv
  <1> DEFINE x == [auths[a] EXCEPT !.refreshAt = t]
  <1>2. ASSUME a \in Auths, auths[a] # NoAuth
        PROVE  /\ x \in Auth /\ x.token = auths[a].token
               /\ RecordsIf(cooling, x, now) = RecordsIf(cooling, auths[a], now)
    <2>1. auths[a] \in Auth
      BY <1>1, <1>2 DEF VarType, Entry
    <2>2. /\ x \in Auth /\ x.token = auths[a].token /\ x.disabled = auths[a].disabled
          /\ x.models = auths[a].models /\ x.top = auths[a].top
      BY <2>1 DEF Auth
    <2> HIDE DEF x
    <2>3. x # NoAuth
      BY <2>2, NilAssumption
    <2>4. QED
      BY <1>2, <2>2, <2>3 DEF RecordsIf
  <1>3. ASSUME NEW b \in Auths
        PROVE  /\ auths'[b] \in Entry /\ (auths'[b] = NoAuth <=> auths[b] = NoAuth)
               /\ auths[b] # NoAuth => auths'[b].token = auths[b].token
               /\ Records(auths'[b], now) = Records(auths[b], now)
    <2>1. CASE auths'[b] = auths[b]
      BY <1>1, <2>1 DEF VarType
    <2>2. CASE b = a /\ auths[a] # NoAuth /\ auths'[b] = x
      <3> HIDE DEF x
      <3>1. QED
        BY <1>2, <2>2, NilAssumption DEF Entry, Records
    <2>3. QED
      BY <1>1, <2>1, <2>2 DEF VarType
  <1>4. auths' \in [Auths -> Entry]
    <2>1. DOMAIN auths' = Auths /\ auths' = [b \in Auths |-> auths'[b]]
      BY <1>1 DEF VarType
    <2>2. QED
      BY <1>3, <2>1
  <1>5. TypeOK'
    BY <1>1, <1>4 DEF TypeOK, VarType, ProcType, Goroutine
  <1>6. HandsInv' /\ MutexInv'
    BY <1>1 DEF HandsInv, MutexInv
  <1>7. RecordsInv'
    BY <1>1 DEF RecordsInv
  <1>8. SavedInv'
    BY <1>1, <1>3 DEF SavedInv, PersistAhead, Writes, Records
  <1>9. QED
    BY <1>3, <1>4, <1>5, <1>6, <1>7, <1>8 DEF IndInv

(* Who waits for no goroutine. *)
Kept(a) ==
    \/ heap[a] # 0 \/ a \in dirty \/ LoopHas(a) \/ a \in dropped
    \/ \E i \in DOMAIN jobs : jobs[i] = a

LEMMA KeptIs ==
    ASSUME NEW a
    PROVE  /\ (heap[a] # 0 \/ InHand(a) \/ a \in dropped)
                 <=> Kept(a) \/ \E p \in Procs : HasInHand(p, a)
           /\ (heap'[a] # 0 \/ InHand(a)' \/ a \in dropped')
                 <=> Kept(a)' \/ \E p \in Procs : HasInHand(p, a)'
  <1>1. Kept(a)' <=> \/ heap'[a] # 0 \/ a \in dirty' \/ LoopHas(a)' \/ a \in dropped'
                     \/ \E i \in DOMAIN jobs' : jobs'[i] = a
    BY DEF Kept
  <1>2. QED
    BY <1>1, InHandIs, InHandIsNext DEF Kept

LEMMA LoopKeeps ==
    ASSUME RIndInv, LoopFrame, heap' \in [Auths -> Nat], dirty' \subseteq Auths,
           NEW a, NEW t \in Nat,
           UNCHANGED auths \/ (/\ a \in Auths /\ auths[a] # NoAuth
                               /\ auths' = [auths EXCEPT ![a].refreshAt = t]),
           LoopType', jobs' \in Seq(Auths), Len(jobs') <= JobBuffer, dropped' \subseteq Auths,
           \A b \in Auths : auths[b] # NoAuth /\ Kept(b) => Kept(b)'
    PROVE  RIndInv'
  <1>1. UNCHANGED <<now, cooling, sched, disk, store, unsaved, suspended, cfgMu,
                    minted, ops, proc, expires, refreshLocks, spent, reverted>>
    BY DEF LoopFrame
  <1>2. /\ IndInv'
        /\ \A b \in Auths : /\ auths'[b] = NoAuth <=> auths[b] = NoAuth
                            /\ auths[b] # NoAuth => auths'[b].token = auths[b].token
    BY <1>1, RParts, LoopKeepsConductor
  <1>3. RTypeOK'
    BY <1>1, RParts DEF RTypeOK
  <1>4. TokensIssued'
    BY <1>1, <1>2, RParts DEF TokensIssued, Issued
  <1>5. LocksInv' /\ UnlocksInv' /\ WorkersInv'
    BY <1>1, RParts DEF LocksInv, UnlocksInv, WorkersInv
  <1>6. ScheduledInv'
    <2>1. ASSUME NEW b \in Auths, auths'[b] # NoAuth
          PROVE  heap'[b] # 0 \/ InHand(b)' \/ b \in dropped'
      <3>1. Kept(b) \/ \E p \in Procs : HasInHand(p, b)
        BY <1>2, <2>1, RParts, KeptIs DEF ScheduledInv
      <3>2. ASSUME NEW p \in Procs, HasInHand(p, b) PROVE HasInHand(p, b)'
        BY <1>1, <3>2 DEF HasInHand
      <3>3. Kept(b)' \/ \E p \in Procs : HasInHand(p, b)'
        BY <1>2, <2>1, <3>1, <3>2
      <3>4. QED
        BY <3>3, KeptIs
    <2>2. QED
      BY <2>1 DEF ScheduledInv
  <1>7. SpentInv'
    <2>1. ASSUME NEW b \in Auths \ reverted, auths'[b] # NoAuth, <<b, auths'[b].token>> \in spent
          PROVE  \E p \in Procs : Replacing(p, b)'
      <3>1. PICK p \in Procs : Replacing(p, b)
        BY <1>2, <2>1, RParts DEF SpentInv
      <3>2. Replacing(p, b)'
        BY <1>1, <3>1 DEF Replacing
      <3>3. QED
        BY <3>2
    <2>2. QED
      BY <1>1, <2>1 DEF SpentInv
  <1>8. QED
    BY <1>2, <1>3, <1>4, <1>5, <1>6, <1>7 DEF RIndInv

LEMMA NextCheckType ==
    ASSUME VarType, RTypeOK, NEW a \in Auths, NEW t \in Nat
    PROVE  NextRefreshCheckAt(auths[a], t) \in Nat
  <1>1. CASE auths[a] = NoAuth
    BY <1>1 DEF NextRefreshCheckAt
  <1>2. CASE auths[a] # NoAuth
    <2>1. auths[a] \in Auth
      BY <1>2 DEF VarType, Entry
    <2>2. auths[a].refreshAt \in Nat /\ auths[a].token \in 1 .. MaxTokens
      BY <2>1 DEF Auth
    <2>3. expires[auths[a].token] \in Nat
      BY <2>2 DEF RTypeOK
    <2> DEFINE e == expires[auths[a].token]
    <2>4. Max({t, e}) \in {t, e}
      <3> HIDE DEF e
      <3>1. e \in Nat /\ t + e \in Nat /\ {t, e} \subseteq 0 .. (t + e) /\ {t, e} # {}
        BY <2>3 DEF e
      <3>2. QED
        BY <3>1, MaxIn
    <2>5. Max({t, e}) \in Nat
      BY <2>3, <2>4
    <2>6. QED
      BY <1>2, <2>2, <2>5 DEF NextRefreshCheckAt
  <1>3. QED
    BY <1>1, <1>2

LEMMA WaitingIs ==
    /\ Waiting.pc = "wait" /\ Waiting.t = 0 /\ Waiting.left = {} /\ Waiting.next = 0
    /\ DOMAIN Waiting = {"pc", "t", "left", "a", "next", "from"}
  BY DEF Waiting

(* The credentials that the loop is to look at next. *)
LEMMA LoopBatch ==
    ASSUME NEW x \in {"dirty", "due"}, NEW t \in Nat, NEW left, left \subseteq Auths,
           loop' = [Waiting EXCEPT !.pc = x, !.t = t, !.left = left]
    PROVE  LoopType' /\ \A a : LoopHas(a)' <=> a \in left
  <1>1. /\ loop'.pc = x /\ loop'.t = t /\ loop'.left = left /\ loop'.next = 0
        /\ DOMAIN loop' = DOMAIN Waiting
    BY DEF Waiting
  <1>2. LoopType'
    BY <1>1 DEF LoopType
  <1>3. QED
    BY <1>1, <1>2 DEF LoopHas

(* What another look does not touch stays in hand. *)
LEMMA WakeUpKeeps ==
    ASSUME RIndInv, WakeUp \/ PopDue \/ EndDirty \/ EndDue
    PROVE  RIndInv'
  <1>1. /\ heap \in [Auths -> Nat] /\ dirty \subseteq Auths /\ now \in Nat
        /\ jobs \in Seq(Auths) /\ Len(jobs) <= JobBuffer /\ dropped \subseteq Auths /\ LoopType
    BY RParts, ConductorAssumption DEF VarType, RTypeOK
  <1>2. loop.t \in Nat /\ loop.left \subseteq Auths
    BY <1>1 DEF LoopType
  <1>3. LoopFrame /\ UNCHANGED <<auths, jobs, dropped>>
    BY DEF WakeUp, PopDue, EndDirty, EndDue
  <1>4. ASSUME loop.pc \in {"wait", "dirty", "due"}, loop.pc = "wait" \/ loop.left = {}, NEW a
        PROVE  ~ LoopHas(a)
    BY <1>4 DEF LoopHas
  <1>5. CASE WakeUp
    <2>1. LoopType' /\ \A a : LoopHas(a)' <=> a \in dirty
      BY <1>1, <1>5, LoopBatch DEF WakeUp
    <2>2. \A b \in Auths : Kept(b) => Kept(b)'
      BY <1>4, <1>5, <2>1 DEF Kept, WakeUp
    <2>3. heap' \in [Auths -> Nat] /\ dirty' \subseteq Auths
      BY <1>1, <1>5 DEF WakeUp
    <2>4. QED
      BY <1>1, <1>3, <2>1, <2>2, <2>3, LoopKeeps
  <1>6. CASE PopDue
    <2> DEFINE due == {a \in Auths : heap[a] # 0 /\ heap[a] <= now}
    <2>1. /\ loop.pc = "wait" /\ loop' = [Waiting EXCEPT !.pc = "due", !.t = now, !.left = due]
          /\ heap' = [a \in Auths |-> IF a \in due THEN 0 ELSE heap[a]] /\ UNCHANGED dirty
          /\ due \subseteq Auths
      BY <1>6 DEF PopDue
    <2> HIDE DEF due
    <2>2. LoopType' /\ \A a : LoopHas(a)' <=> a \in due
      BY <1>1, <2>1, LoopBatch
    <2>3. \A b \in Auths : Kept(b) => Kept(b)'
      BY <1>3, <1>4, <2>1, <2>2 DEF Kept
    <2>4. heap' \in [Auths -> Nat] /\ dirty' \subseteq Auths
      BY <1>1, <2>1
    <2>5. QED
      BY <1>1, <1>3, <2>2, <2>3, <2>4, LoopKeeps
  <1>7. CASE EndDirty
    <2>1. LoopType' /\ \A a : ~ LoopHas(a)'
      BY <1>7, WaitingIs DEF EndDirty, LoopType, LoopHas
    <2>2. \A b \in Auths : Kept(b) => Kept(b)'
      BY <1>4, <1>7, <2>1 DEF Kept, EndDirty
    <2>3. heap' \in [Auths -> Nat] /\ dirty' \subseteq Auths
      BY <1>1, <1>7 DEF EndDirty
    <2>4. QED
      BY <1>1, <1>3, <2>1, <2>2, <2>3, LoopKeeps
  <1>8. CASE EndDue
    <2>1. LoopType' /\ \A a : LoopHas(a)' <=> a \in dirty
      BY <1>1, <1>2, <1>8, LoopBatch DEF EndDue
    <2>2. \A b \in Auths : Kept(b) => Kept(b)'
      BY <1>4, <1>8, <2>1 DEF Kept, EndDue
    <2>3. heap' \in [Auths -> Nat] /\ dirty' \subseteq Auths
      BY <1>1, <1>8 DEF EndDue
    <2>4. QED
      BY <1>1, <1>3, <2>1, <2>2, <2>3, LoopKeeps
  <1>9. QED
    BY <1>5, <1>6, <1>7, <1>8

(* One credential after the other. *)
LEMMA LookKeeps ==
    ASSUME RIndInv, NEW a \in Auths, ApplyDirty(a) \/ HandleDueAuth(a)
    PROVE  RIndInv'
  <1>1. /\ heap \in [Auths -> Nat] /\ dirty \subseteq Auths
        /\ jobs \in Seq(Auths) /\ Len(jobs) <= JobBuffer /\ dropped \subseteq Auths /\ LoopType
        /\ loop.t \in Nat
    BY RParts DEF VarType, RTypeOK, LoopType
  <1>2. LoopFrame /\ UNCHANGED <<auths, heap, dirty, jobs, dropped>>
    BY DEF ApplyDirty, HandleDueAuth
  <1> DEFINE next == NextRefreshCheckAt(auths[a], loop.t)
  <1>3. next \in Nat
    BY <1>1, RParts, NextCheckType
  <1> HIDE DEF next
  <1>4. PICK pc \in {"put", "mark", "due"}, from \in {"dirty", "due"} :
          /\ loop.pc = from /\ a \in loop.left
          /\ pc = "due" => from = "due" /\ auths[a] = NoAuth
          /\ loop' = [loop EXCEPT !.pc = pc, !.a = a, !.left = @ \ {a}, !.from = from,
                                  !.next = next]
    <2>1. CASE ApplyDirty(a)
      BY <2>1 DEF ApplyDirty, next
    <2>2. CASE HandleDueAuth(a)
      <3> DEFINE pc == CASE auths[a] = NoAuth -> "due"
                         [] auths[a] # NoAuth /\ next # 0 /\ ShouldRefresh(auths[a], loop.t) -> "mark"
                         [] OTHER -> "put"
      <3>1. pc \in {"put", "mark", "due"} /\ (pc = "due" => auths[a] = NoAuth)
        OBVIOUS
      <3>2. /\ loop.pc = "due" /\ a \in loop.left
            /\ loop' = [loop EXCEPT !.pc = pc, !.a = a, !.left = @ \ {a}, !.from = "due",
                                    !.next = next]
        BY <2>2 DEF HandleDueAuth, next
      <3> HIDE DEF pc
      <3>3. QED
        BY <3>1, <3>2
    <2>3. QED
      BY <2>1, <2>2
  <1>5. /\ loop'.pc = pc /\ loop'.a = a /\ loop'.left = loop.left \ {a} /\ loop'.from = from
        /\ loop'.next = next /\ loop'.t = loop.t /\ DOMAIN loop' = DOMAIN Waiting
    BY <1>1, <1>4, WaitingIs DEF LoopType
  <1>6. LoopType'
    BY <1>1, <1>3, <1>4, <1>5 DEF LoopType
  <1>7. ASSUME NEW b \in Auths, auths[b] # NoAuth, LoopHas(b) PROVE LoopHas(b)'
    BY <1>4, <1>5, <1>7 DEF LoopHas
  <1>8. \A b \in Auths : auths[b] # NoAuth /\ Kept(b) => Kept(b)'
    BY <1>2, <1>7 DEF Kept
  <1>9. QED
    BY <1>1, <1>2, <1>6, <1>8, LoopKeeps

(* The one in hand: held back and sent, or looked at again, or put back. *)
LEMMA InHandKeeps ==
    ASSUME RIndInv, MarkRefreshPending \/ LookAgain \/ Put \/ SendJob
    PROVE  RIndInv'
  <1> DEFINE a == loop.a
  <1>1. /\ heap \in [Auths -> Nat] /\ dirty \subseteq Auths /\ a \in Auths
        /\ jobs \in Seq(Auths) /\ Len(jobs) <= JobBuffer /\ dropped \subseteq Auths /\ LoopType
        /\ loop.t \in Nat /\ loop.left \subseteq Auths /\ loop.next \in Nat
        /\ loop.from \in {"dirty", "due"} /\ DOMAIN loop = DOMAIN Waiting
    BY RParts DEF VarType, RTypeOK, LoopType, MarkRefreshPending, LookAgain, Put, SendJob
  <1>2. LoopFrame
    BY DEF MarkRefreshPending, LookAgain, Put, SendJob
  <1> HIDE DEF a
  <1>3. CASE MarkRefreshPending
    <2> DEFINE open == auths[a] # NoAuth /\ auths[a].refreshAt <= loop.t
               pc == IF open THEN "send" ELSE "again"
    <2>1. /\ loop' = [loop EXCEPT !.pc = pc] /\ UNCHANGED <<heap, jobs, dropped>>
          /\ dirty' = IF open THEN dirty \cup {a} ELSE dirty
          /\ auths' = IF open THEN [auths EXCEPT ![a].refreshAt = loop.t + PendingBackoff]
                      ELSE auths
          /\ loop.pc = "mark"
      BY <1>3 DEF MarkRefreshPending, a
    <2>2. pc \in {"send", "again"} /\ (open => auths[a] # NoAuth)
      OBVIOUS
    <2> HIDE DEF open, pc
    <2>3. /\ loop'.pc = pc /\ loop'.a = a /\ loop'.left = loop.left /\ loop'.t = loop.t
          /\ loop'.next = loop.next /\ loop'.from = loop.from /\ DOMAIN loop' = DOMAIN Waiting
      BY <1>1, <2>1, WaitingIs DEF a
    <2>4. LoopType'
      BY <1>1, <2>2, <2>3 DEF LoopType
    <2>5. \A b \in Auths : Kept(b) => Kept(b)'
      BY <1>1, <2>1, <2>2, <2>3 DEF Kept, LoopHas, a
    <2>6. loop.t + PendingBackoff \in Nat
      BY <1>1, RefreshAssumption
    <2>7. heap' \in [Auths -> Nat] /\ dirty' \subseteq Auths /\ jobs' \in Seq(Auths)
          /\ Len(jobs') <= JobBuffer /\ dropped' \subseteq Auths
      BY <1>1, <2>1
    <2>8. \/ UNCHANGED auths
          \/ /\ a \in Auths /\ auths[a] # NoAuth
             /\ auths' = [auths EXCEPT ![a].refreshAt = loop.t + PendingBackoff]
      BY <1>1, <2>1, <2>2
    <2>9. QED
      BY <1>2, <2>4, <2>5, <2>6, <2>7, <2>8, LoopKeeps
  <1>4. CASE LookAgain
    <2> DEFINE next == NextRefreshCheckAt(auths[a], loop.t)
    <2>1. /\ loop' = [loop EXCEPT !.pc = "put", !.next = next] /\ loop.pc = "again"
          /\ UNCHANGED <<auths, heap, dirty, jobs, dropped>>
      BY <1>4 DEF LookAgain, a
    <2>2. next \in Nat
      BY <1>1, RParts, NextCheckType
    <2> HIDE DEF next
    <2>3. /\ loop'.pc = "put" /\ loop'.a = a /\ loop'.left = loop.left /\ loop'.t = loop.t
          /\ loop'.next = next /\ loop'.from = loop.from /\ DOMAIN loop' = DOMAIN Waiting
      BY <1>1, <2>1, WaitingIs DEF a
    <2>4. LoopType'
      BY <1>1, <2>2, <2>3 DEF LoopType
    <2>5. \A b \in Auths : Kept(b) => Kept(b)'
      BY <2>1, <2>3 DEF Kept, LoopHas, a
    <2>6. QED
      BY <1>1, <1>2, <2>1, <2>4, <2>5, LoopKeeps
  <1>5. ASSUME NEW pc \in {"dirty", "due"}, loop' = [loop EXCEPT !.pc = pc]
        PROVE  LoopType' /\ loop'.pc = pc /\ loop'.left = loop.left
    <2>1. /\ loop'.pc = pc /\ loop'.left = loop.left /\ loop'.t = loop.t
          /\ loop'.next = loop.next /\ DOMAIN loop' = DOMAIN Waiting
      BY <1>1, <1>5, WaitingIs
    <2>2. LoopType'
      BY <1>1, <2>1 DEF LoopType
    <2>3. QED
      BY <2>1, <2>2
  <1>6. CASE Put
    <2>1. /\ loop' = [loop EXCEPT !.pc = loop.from] /\ loop.pc = "put"
          /\ heap' = [heap EXCEPT ![a] = loop.next]
          /\ dropped' = IF loop.next = 0 THEN dropped \cup {a} ELSE dropped \ {a}
          /\ UNCHANGED <<auths, dirty, jobs>>
      BY <1>6 DEF Put, a
    <2>2. LoopType' /\ loop'.pc # "wait" /\ loop'.left = loop.left
      BY <1>1, <1>5, <2>1
    <2>3. heap' \in [Auths -> Nat] /\ dropped' \subseteq Auths
      BY <1>1, <2>1
    <2>4. ASSUME NEW b \in Auths, Kept(b) PROVE Kept(b)'
      <3>1. CASE b = a
        BY <1>1, <2>1, <3>1 DEF Kept
      <3>2. CASE b # a
        BY <1>1, <2>1, <2>2, <2>4, <3>2 DEF Kept, LoopHas, a
      <3>3. QED
        BY <3>1, <3>2
    <2>5. QED
      BY <1>1, <1>2, <2>1, <2>2, <2>3, <2>4, LoopKeeps
  <1>7. CASE SendJob
    <2>1. /\ loop' = [loop EXCEPT !.pc = "due"] /\ loop.pc = "send"
          /\ jobs' = Append(jobs, a) /\ Len(jobs) < JobBuffer
          /\ UNCHANGED <<auths, heap, dirty, dropped>>
      BY <1>7 DEF SendJob, a
    <2>2. LoopType' /\ loop'.pc # "wait" /\ loop'.left = loop.left
      BY <1>5, <2>1
    <2>3. /\ jobs' \in Seq(Auths) /\ Len(jobs') <= JobBuffer
          /\ \A b : (\E i \in DOMAIN jobs : jobs[i] = b) \/ b = a
                      => \E i \in DOMAIN jobs' : jobs'[i] = b
      <3>1. /\ jobs' \in Seq(Auths) /\ Len(jobs') = Len(jobs) + 1 /\ Len(jobs) \in Nat
            /\ DOMAIN jobs = 1 .. Len(jobs) /\ DOMAIN jobs' = 1 .. Len(jobs')
            /\ \A i \in 1 .. Len(jobs) : jobs'[i] = jobs[i]
            /\ jobs'[Len(jobs) + 1] = a
        BY <1>1, <2>1
      <3>2. Len(jobs') <= JobBuffer
        BY <2>1, <3>1, RefreshAssumption
      <3>3. ASSUME NEW b, NEW i \in DOMAIN jobs, jobs[i] = b
            PROVE  i \in DOMAIN jobs' /\ jobs'[i] = b
        BY <3>1, <3>3
      <3>4. Len(jobs) + 1 \in DOMAIN jobs'
        BY <3>1
      <3>5. QED
        BY <3>1, <3>2, <3>3, <3>4
    <2>4. \A b \in Auths : Kept(b) => Kept(b)'
      BY <2>1, <2>2, <2>3 DEF Kept, LoopHas, a
    <2>5. QED
      BY <1>1, <1>2, <2>1, <2>2, <2>3, <2>4, LoopKeeps
  <1>8. QED
    BY <1>3, <1>4, <1>6, <1>7

LEMMA LoopStep ==
    ASSUME RIndInv, Loop
    PROVE  RIndInv'
  BY WakeUpKeeps, LookKeeps, InHandKeeps DEF Loop

-----------------------------------------------------------------------------
(* The refreshes. *)

(* The steps that end one. *)
LEMMA AfterIs ==
    ASSUME NEW p, NEW s \in Seq(Later), "unlock" \notin Steps(s)
    PROVE  LET todo == s \o After(p) IN
           /\ After(p) \in Seq(Later) /\ todo \in Seq(Later) /\ todo # <<>>
           /\ Steps(After(p)) = IF p \in Workers THEN {"unlock", "reschedule"} ELSE {"unlock"}
           /\ Steps(todo) = Steps(s) \cup Steps(After(p))
           /\ UnlockAt(todo, Rest(p)) /\ Rest(p) \in {0, 1}
           /\ p \in Workers => EndsWith(todo, "reschedule")
  <1> DEFINE u == After(p)
             todo == s \o u
  <1>1. /\ "unlock" \in Later /\ "reschedule" \in Later
        /\ p \in Workers => u = <<"unlock", "reschedule">> /\ Rest(p) = 1
        /\ p \notin Workers => u = <<"unlock">> /\ Rest(p) = 0
    BY DEF Later, After, Rest
  <1> HIDE DEF u
  <1>2. /\ u \in Seq(Later) /\ Len(u) = Rest(p) + 1 /\ Rest(p) \in {0, 1} /\ u[1] = "unlock"
        /\ DOMAIN u = 1 .. Len(u)
        /\ p \in Workers => u[2] = "reschedule" /\ Rest(p) = 1
        /\ p \notin Workers => Rest(p) = 0
    <2>1. ASSUME NEW x \in Later, NEW y \in Later
          PROVE  /\ <<x, y>> \in Seq(Later) /\ Len(<<x, y>>) = 2 /\ DOMAIN <<x, y>> = 1 .. 2
                 /\ <<x, y>>[1] = x /\ <<x, y>>[2] = y
                 /\ <<x>> \in Seq(Later) /\ Len(<<x>>) = 1 /\ DOMAIN <<x>> = 1 .. 1
                 /\ <<x>>[1] = x
      OBVIOUS
    <2>2. CASE p \in Workers
      <3>1. u = <<"unlock", "reschedule">> /\ Rest(p) = 1
        BY <1>1, <2>2
      <3>2. QED
        BY <1>1, <2>1, <2>2, <3>1
    <2>3. CASE p \notin Workers
      <3>1. u = <<"unlock">> /\ Rest(p) = 0
        BY <1>1, <2>3
      <3>2. QED
        BY <1>1, <2>1, <2>3, <3>1
    <2>4. QED
      BY <2>2, <2>3
  <1>3. Steps(u) = IF p \in Workers THEN {"unlock", "reschedule"} ELSE {"unlock"}
    <2>1. Steps(u) = {u[i] : i \in 1 .. Len(u)}
      BY <1>2 DEF Steps
    <2>2. CASE p \in Workers
      <3>1. Len(u) = 2 /\ u[1] = "unlock" /\ u[2] = "reschedule"
        BY <1>2, <2>2
      <3>2. QED
        BY <2>1, <2>2, <3>1
    <2>3. CASE p \notin Workers
      <3>1. Len(u) = 1 /\ u[1] = "unlock"
        BY <1>2, <2>3
      <3>2. QED
        BY <2>1, <2>3, <3>1
    <2>4. QED
      BY <2>2, <2>3
  <1>4. todo \in Seq(Later) /\ Steps(todo) = Steps(s) \cup Steps(u)
    BY <1>2, StepsAfter
  <1>5. /\ Len(todo) = Len(s) + Rest(p) + 1 /\ Len(s) \in Nat /\ DOMAIN todo = 1 .. Len(todo)
        /\ DOMAIN s = 1 .. Len(s)
        /\ \A i \in 1 .. Len(todo) : todo[i] = IF i <= Len(s) THEN s[i] ELSE u[i - Len(s)]
    BY <1>2
  <1> HIDE DEF todo
  <1>6. todo # <<>>
    BY <1>4, <1>5, <1>2, EmptyIs
  <1>7. ASSUME NEW i \in DOMAIN todo, todo[i] = "unlock" PROVE i = Len(todo) - Rest(p)
    <2>1. i \in Int /\ 1 <= i /\ i <= Len(s) + Rest(p) + 1
      BY <1>2, <1>5, <1>7
    <2>2. ~ (i <= Len(s))
      BY <1>5, <1>7, <2>1 DEF Steps
    <2>3. u[i - Len(s)] = "unlock"
      BY <1>5, <1>7, <2>2
    <2>4. i - Len(s) # 2
      <3>1. CASE p \in Workers
        BY <1>2, <2>3, <3>1
      <3>2. CASE p \notin Workers
        BY <1>2, <1>5, <2>1, <3>2
      <3>3. QED
        BY <3>1, <3>2
    <2>5. QED
      BY <1>2, <1>5, <2>1, <2>2, <2>4
  <1>8. p \in Workers => EndsWith(todo, "reschedule")
    <2>1. ASSUME p \in Workers PROVE todo[Len(todo)] = "reschedule"
      <3>1. Len(todo) = Len(s) + 2 /\ u[2] = "reschedule" /\ Len(s) + 2 \in 1 .. Len(todo)
        BY <1>2, <1>5, <2>1
      <3>2. todo[Len(s) + 2] = u[(Len(s) + 2) - Len(s)]
        BY <1>5, <3>1
      <3>3. QED
        BY <1>5, <3>1, <3>2
    <2>2. QED
      BY <1>6, <2>1 DEF EndsWith
  <1>9. QED
    BY <1>2, <1>3, <1>4, <1>6, <1>7, <1>8 DEF UnlockAt, u, todo

(* What p does with a credential's lock, to the job queue and to the map   *)
(* disturbs no other goroutine.                                            *)
LEMMA RefreshKeeps ==
    ASSUME RIndInv, IndInv', NEW p \in Procs, NEW d, Goto(p, d), RefreshFrame,
           expires' \in [1 .. MaxTokens -> Nat], minted <= minted',
           spent' \subseteq Auths \X (1 .. minted'), reverted' \subseteq Auths,
           jobs' \in Seq(Auths), Len(jobs') <= JobBuffer, DOMAIN refreshLocks' = Auths,
           \A a \in Auths : \/ refreshLocks'[a] = refreshLocks[a]
                            \/ refreshLocks'[a] \in {{}, {p}} /\ refreshLocks[a] \subseteq {p},
           Holds(d) => refreshLocks'[d.a] = {p},
           UnlocksLast(d, Rest(p)),
           p \in Workers => /\ d.pc \notin {"idle", "lock", "refresh", "update"}
                                  => LastIsReschedule(d)
                            /\ d.pc = "lock" => d.token = 0,
           \A a \in Auths : auths[a] = NoAuth => auths'[a] = NoAuth,
           \A a \in Auths :
              HasInHand(p, a) \/ ((\E i \in DOMAIN jobs : jobs[i] = a)
                                  /\ ~ \E i \in DOMAIN jobs' : jobs'[i] = a)
              => d.a = a /\ ("reschedule" \in Ahead(d) \/ (p \in Workers /\ d.pc # "idle")),
           \A a \in Auths : Issued(auths'[a], minted'), Issued(d.snap, minted'),
           SpentInv'
    PROVE  RIndInv'
  <1>1. UNCHANGED <<now, cooling, disk, store, suspended, cfgMu, heap, dirty, ops, loop, dropped>>
    BY DEF RefreshFrame
  <1>2. /\ proc'[p] = d /\ \A q \in Procs : q # p => proc'[q] = proc[q]
    <2>1. ProcType /\ proc' = [proc EXCEPT ![p] = d]
      BY RParts DEF Goto
    <2>2. QED
      BY <2>1 DEF ProcType
  <1>3. RTypeOK'
    <2>1. \A a \in Auths : refreshLocks'[a] = {} \/ \E q \in Procs : refreshLocks'[a] = {q}
      BY RParts DEF RTypeOK
    <2>2. LoopType' /\ dropped' \subseteq Auths
      BY <1>1, RParts DEF RTypeOK, LoopType
    <2>3. QED
      BY <2>1, <2>2 DEF RTypeOK
  <1>4. TokensIssued'
    <2>1. minted \in Nat /\ minted' \in Nat
      BY RParts, TypeParts, ConductorAssumption DEF VarType, IndInv, TypeOK
    <2>2. ASSUME NEW x, x = NoAuth \/ x.token \in Nat, Issued(x, minted) PROVE Issued(x, minted')
      BY <2>1, <2>2 DEF Issued
    <2>3. \A a \in Auths : Issued(disk'[a], minted')
      <3>1. ASSUME NEW a \in Auths PROVE disk[a] = NoAuth \/ disk[a].token \in Nat
        BY RParts DEF VarType, CredentialFile
      <3>2. QED
        BY <1>1, <2>2, <3>1, RParts DEF TokensIssued
    <2>4. ASSUME NEW q \in Procs PROVE Issued(proc'[q].snap, minted')
      <3>1. CASE q = p
        BY <1>2, <3>1
      <3>2. CASE q # p
        <4>1. proc[q].snap = NoAuth \/ proc[q].snap.token \in Nat
          BY RParts DEF ProcType, Goroutine, Entry, Auth
        <4>2. QED
          BY <1>2, <2>2, <3>2, <4>1, RParts DEF TokensIssued
      <3>3. QED
        BY <3>1, <3>2
    <2>5. QED
      BY <2>3, <2>4 DEF TokensIssued, Issued
  <1>5. LocksInv'
    <2>1. ASSUME NEW q \in Procs, Holds(proc'[q]) PROVE refreshLocks'[proc'[q].a] = {q}
      <3>1. CASE q = p
        BY <1>2, <2>1, <3>1
      <3>2. CASE q # p
        <4>1. refreshLocks[proc[q].a] = {q}
          BY <1>2, <2>1, <3>2, RParts DEF LocksInv
        <4>2. proc[q].a \in Auths
          BY <1>2, <2>1, <3>2, RParts DEF Holds, HandsInv, Equipped, Ahead
        <4>3. ~ (refreshLocks[proc[q].a] \subseteq {p})
          BY <3>2, <4>1
        <4>4. refreshLocks'[proc[q].a] = {q}
          BY <4>1, <4>2, <4>3
        <4>5. QED
          BY <1>2, <3>2, <4>4
      <3>3. QED
        BY <3>1, <3>2
    <2>2. QED
      BY <2>1 DEF LocksInv, Holds, Ahead, Steps
  <1>6. UnlocksInv'
    <2>1. \A q \in Procs : UnlocksLast(proc'[q], Rest(q))
      BY <1>2, RParts DEF UnlocksInv
    <2>2. QED
      BY <2>1 DEF UnlocksInv, UnlocksLast, Rest
  <1>7. WorkersInv'
    <2>1. ASSUME NEW q \in Workers
          PROVE  /\ proc'[q].pc \notin {"idle", "lock", "refresh", "update"}
                      => LastIsReschedule(proc'[q])
                 /\ proc'[q].pc = "lock" => proc'[q].token = 0
      BY <1>2, RefreshAssumption, RParts DEF WorkersInv
    <2>2. QED
      BY <2>1 DEF WorkersInv, LastIsReschedule
  <1>8. ScheduledInv'
    <2>1. ASSUME NEW a \in Auths, auths'[a] # NoAuth
          PROVE  heap'[a] # 0 \/ InHand(a)' \/ a \in dropped'
      <3>1. heap[a] # 0 \/ InHand(a) \/ a \in dropped
        BY <2>1, RParts DEF ScheduledInv
      <3>2. LoopHas(a)' <=> LoopHas(a)
        BY <1>1 DEF LoopHas
      <3>3. ASSUME d.a = a, "reschedule" \in Ahead(d) \/ (p \in Workers /\ d.pc # "idle")
            PROVE  HasInHand(p, a)'
        BY <1>2, <3>3 DEF HasInHand, Ahead, Steps
      <3>4. ASSUME NEW q \in Procs, q # p, HasInHand(q, a) PROVE HasInHand(q, a)'
        BY <1>2, <3>4 DEF HasInHand, Ahead, Steps
      <3>5. CASE InHand(a)
        <4>1. \/ a \in dirty \/ LoopHas(a) \/ \E i \in DOMAIN jobs : jobs[i] = a
              \/ HasInHand(p, a) \/ \E q \in Procs : q # p /\ HasInHand(q, a)
          BY <3>5, InHandIs
        <4>2. \/ a \in dirty' \/ LoopHas(a)' \/ \E i \in DOMAIN jobs' : jobs'[i] = a
              \/ HasInHand(p, a)' \/ \E q \in Procs : q # p /\ HasInHand(q, a)'
          BY <1>1, <3>2, <3>3, <3>4, <4>1
        <4>3. QED
          BY <4>2, InHandIsNext
      <3>6. QED
        BY <1>1, <3>1, <3>5
    <2>2. QED
      BY <2>1 DEF ScheduledInv
  <1>9. QED
    BY <1>3, <1>4, <1>5, <1>6, <1>7, <1>8 DEF RIndInv

(* Where the map stands still, so does the conductor's invariant ... *)
LEMMA RefreshBystander ==
    ASSUME RIndInv, NEW p \in Procs, NEW d, Goto(p, d), Sound(d),
           d.pc \notin {"saving", "restore", "edit"},
           proc[p].pc # "saving", "persist" \notin Ahead(proc[p]),
           RefreshFrame, UNCHANGED <<auths, sched, unsaved>>, minted' \in 1 .. MaxTokens
    PROVE  IndInv'
  <1>1. MovesQuietly(p)
    BY DEF MovesQuietly, Moves, Goto
  <1>2. VarType' /\ UNCHANGED <<now, cooling, auths, store, unsaved, cfgMu>>
    BY RParts DEF VarType, RefreshFrame
  <1>3. QED
    BY <1>1, <1>2, RParts, BystanderStep

(* ... and the spent tokens stay where they are. *)
LEMMA SpentStays ==
    ASSUME RIndInv, NEW p \in Procs, NEW d, Goto(p, d), proc[p].pc # "update",
           UNCHANGED <<spent, reverted>>,
           \A a \in Auths : auths'[a] # NoAuth =>
              auths[a] # NoAuth /\ auths'[a].token = auths[a].token
    PROVE  SpentInv'
  <1>1. /\ proc'[p] = d /\ \A q \in Procs : q # p => proc'[q] = proc[q]
    BY RParts, AsideMoves DEF Goto
  <1>2. ASSUME NEW a \in Auths \ reverted', auths'[a] # NoAuth, <<a, auths'[a].token>> \in spent'
        PROVE  \E q \in Procs : Replacing(q, a)'
    <2>1. PICK q \in Procs : Replacing(q, a)
      BY <1>2, RParts DEF SpentInv
    <2>2. Replacing(q, a)'
      BY <1>1, <2>1 DEF Replacing
    <2>3. QED
      BY <2>2
  <1>3. QED
    BY <1>2 DEF SpentInv

(* A refresh that leaves the map alone. *)
LEMMA RefreshQuiet ==
    ASSUME RIndInv, NEW p \in Procs, NEW d, Goto(p, d), Sound(d),
           d.pc \notin {"saving", "restore", "edit"},
           proc[p].pc \notin {"saving", "update"}, "persist" \notin Ahead(proc[p]),
           RefreshFrame, UNCHANGED <<auths, sched, unsaved, minted, expires, spent, reverted>>,
           jobs' \in Seq(Auths), Len(jobs') <= JobBuffer, DOMAIN refreshLocks' = Auths,
           \A a \in Auths : \/ refreshLocks'[a] = refreshLocks[a]
                            \/ refreshLocks'[a] \in {{}, {p}} /\ refreshLocks[a] \subseteq {p},
           Holds(d) => refreshLocks'[d.a] = {p},
           UnlocksLast(d, Rest(p)),
           p \in Workers => /\ d.pc \notin {"idle", "lock", "refresh", "update"}
                                  => LastIsReschedule(d)
                            /\ d.pc = "lock" => d.token = 0,
           \A a \in Auths :
              HasInHand(p, a) \/ ((\E i \in DOMAIN jobs : jobs[i] = a)
                                  /\ ~ \E i \in DOMAIN jobs' : jobs'[i] = a)
              => d.a = a /\ ("reschedule" \in Ahead(d) \/ (p \in Workers /\ d.pc # "idle")),
           Issued(d.snap, minted)
    PROVE  RIndInv'
  <1>1. /\ minted \in 1 .. MaxTokens /\ minted <= minted /\ expires' \in [1 .. MaxTokens -> Nat]
        /\ spent' \subseteq Auths \X (1 .. minted') /\ reverted' \subseteq Auths
    BY RParts, ConductorAssumption DEF VarType, RTypeOK
  <1>2. IndInv'
    BY <1>1, RefreshBystander
  <1>3. SpentInv'
    BY SpentStays
  <1>4. \A a \in Auths : Issued(auths'[a], minted')
    BY RParts DEF TokensIssued
  <1>5. QED
    BY <1>1, <1>2, <1>3, <1>4, RefreshKeeps

LEMMA TakeJobKeeps ==
    ASSUME RIndInv, NEW p \in Procs, TakeJob(p)
    PROVE  RIndInv'
  <1> DEFINE d == [Idle EXCEPT !.pc = "lock", !.a = Head(jobs)]
  <1>1. /\ proc[p].pc = "idle" /\ p \in Workers /\ jobs # <<>> /\ jobs' = Tail(jobs)
        /\ Goto(p, d) /\ RefreshFrame
        /\ UNCHANGED <<auths, sched, unsaved, minted, expires, refreshLocks, spent, reverted>>
    BY DEF TakeJob, At
  <1>2. jobs \in Seq(Auths) /\ Len(jobs) <= JobBuffer /\ DOMAIN refreshLocks = Auths
    BY RParts DEF RTypeOK
  <1>3. /\ Head(jobs) \in Auths /\ jobs' \in Seq(Auths) /\ Len(jobs') <= JobBuffer
        /\ \A i \in DOMAIN jobs : jobs[i] = Head(jobs) \/ \E j \in DOMAIN jobs' : jobs'[j] = jobs[i]
    <2>1. /\ Head(jobs) \in Auths /\ jobs' \in Seq(Auths) /\ Len(jobs') = Len(jobs) - 1
          /\ Len(jobs) \in Nat /\ DOMAIN jobs = 1 .. Len(jobs) /\ DOMAIN jobs' = 1 .. Len(jobs')
          /\ Head(jobs) = jobs[1]
          /\ \A i \in 1 .. Len(jobs') : jobs'[i] = jobs[i + 1]
      BY <1>1, <1>2
    <2>2. Len(jobs') <= JobBuffer
      BY <1>2, <2>1, RefreshAssumption
    <2>3. ASSUME NEW i \in DOMAIN jobs, i # 1
          PROVE  i - 1 \in DOMAIN jobs' /\ jobs'[i - 1] = jobs[i]
      BY <2>1, <2>3
    <2>4. QED
      BY <2>1, <2>2, <2>3
  <1>4. /\ d.pc = "lock" /\ d.a = Head(jobs) /\ d.todo = <<>> /\ d.snap = NoAuth /\ d.token = 0
        /\ DOMAIN d = DOMAIN Idle
        /\ d.m = Idle.m /\ d.ms = Idle.ms /\ d.tried = Idle.tried /\ d.left = Idle.left
    BY DEF Idle
  <1> HIDE DEF d
  <1>5. Goroutine(d)
    BY <1>3, <1>4, IdleSound, NothingToDo DEF Sound, Goroutine, Entry
  <1>6. Sound(d) /\ Ahead(d) = {"lock"}
    BY <1>3, <1>4, <1>5, NewSound
  <1>7. ~ Holds(d) /\ UnlocksLast(d, Rest(p)) /\ Issued(d.snap, minted)
    BY <1>4, <1>6, NothingToDo DEF Holds, UnlocksLast, Issued, Steps
  <1>8. Ahead(proc[p]) = {"idle"}
    BY <1>1, RParts, NothingAhead
  <1>9. \A a \in Auths :
           HasInHand(p, a) \/ ((\E i \in DOMAIN jobs : jobs[i] = a)
                               /\ ~ \E i \in DOMAIN jobs' : jobs'[i] = a)
           => d.a = a /\ ("reschedule" \in Ahead(d) \/ (p \in Workers /\ d.pc # "idle"))
    BY <1>1, <1>3, <1>4, <1>8 DEF HasInHand
  <1>10. QED
    BY <1>1, <1>2, <1>3, <1>4, <1>6, <1>7, <1>8, <1>9, RefreshQuiet

(* A worker runs no request. *)
LEMMA UnauthorizedKeeps ==
    ASSUME RIndInv, NEW p \in Procs, Unauthorized(p)
    PROVE  RIndInv'
  <1> DEFINE d == [proc[p] EXCEPT !.pc = "lock"]
  <1>1. /\ proc[p].pc = "exec" /\ Goto(p, d) /\ RefreshFrame
        /\ UNCHANGED <<auths, sched, unsaved, minted, expires, refreshLocks, jobs, spent, reverted>>
    BY DEF Unauthorized, At
  <1>2. /\ Goroutine(proc[p]) /\ Ahead(proc[p]) = {"exec"} /\ proc[p].todo = <<>>
        /\ proc[p].a \in Auths
    BY <1>1, RParts, NothingAhead DEF ProcType, HandsInv, Equipped
  <1>3. p \notin Workers
    BY <1>1, <1>2, RParts, NotWorker
  <1>4. /\ d.pc = "lock" /\ d.a = proc[p].a /\ d.todo = <<>> /\ d.snap = proc[p].snap
        /\ DOMAIN d = DOMAIN Idle /\ d.token = proc[p].token
        /\ d.m = proc[p].m /\ d.ms = proc[p].ms /\ d.tried = proc[p].tried /\ d.left = proc[p].left
    BY <1>2 DEF Goroutine, Idle
  <1> HIDE DEF d
  <1>5. Goroutine(d)
    BY <1>2, <1>4 DEF Goroutine
  <1>6. Sound(d) /\ Ahead(d) = {"lock"}
    BY <1>2, <1>4, <1>5, NewSound
  <1>7. ~ Holds(d) /\ UnlocksLast(d, Rest(p)) /\ Issued(d.snap, minted)
    BY <1>4, <1>6, NothingToDo, RParts DEF Holds, UnlocksLast, TokensIssued, Steps
  <1>8. /\ jobs' \in Seq(Auths) /\ Len(jobs') <= JobBuffer /\ DOMAIN refreshLocks' = Auths
        /\ \A a \in Auths : ~ HasInHand(p, a)
    BY <1>1, <1>2, <1>3, RParts DEF RTypeOK, HasInHand
  <1>9. QED
    BY <1>1, <1>2, <1>3, <1>4, <1>6, <1>7, <1>8, RefreshQuiet

(* The end of a refresh, whatever came of it. *)
LEMMA EndingIs ==
    ASSUME RIndInv, NEW p \in Procs, NEW a \in Auths, NEW s \in Seq(Later),
           Steps(s) \subseteq {"reschedule"},
           NEW d, d = Doing(p, a, {}, NoAuth, s \o After(p))
    PROVE  /\ Sound(d) /\ d.pc \notin {"saving", "restore", "edit"} /\ d.a = a
           /\ d.pc \notin {"idle", "lock", "refresh", "update"} /\ d.snap = NoAuth
           /\ UnlocksLast(d, Rest(p))
           /\ p \in Workers => LastIsReschedule(d)
           /\ Steps(s) \subseteq Ahead(d)
           /\ Fitting(a, {}, NoAuth, s \o After(p))
           /\ "persist" \notin Ahead(d)
  <1> DEFINE todo == s \o After(p)
  <1>1. /\ d = Doing(p, a, {}, NoAuth, todo)
        /\ todo \in Seq(Later) /\ todo # <<>> /\ UnlockAt(todo, Rest(p)) /\ Rest(p) \in {0, 1}
        /\ Steps(todo) = Steps(s) \cup Steps(After(p))
        /\ Steps(After(p)) \subseteq {"unlock", "reschedule"}
        /\ p \in Workers => EndsWith(todo, "reschedule")
    <2>1. "unlock" \notin Steps(s)
      OBVIOUS
    <2>2. QED
      BY <2>1, AfterIs
  <1> HIDE DEF todo
  <1>2. Fitting(a, {}, NoAuth, todo)
    BY <1>1, NoLoad DEF Fitting, Entry
  <1>3. proc[p].m \in Models \cup {NoModel}
    BY RParts DEF ProcType, Goroutine
  <1>4. /\ Sound(d) /\ d.pc \in Later /\ d.a = a /\ d.snap = NoAuth /\ Ahead(d) = Steps(todo)
    BY <1>1, <1>2, <1>3, DoingDoes, DoingIs
  <1>5. UnlocksLast(d, Rest(p)) /\ (p \in Workers => LastIsReschedule(d))
    BY <1>1, DoingUnlocks, DoingEnds
  <1>6. d.pc \notin {"saving", "restore", "edit", "idle", "lock", "refresh", "update"}
    BY <1>4 DEF Later
  <1>7. QED
    BY <1>1, <1>2, <1>4, <1>5, <1>6 DEF todo

LEMMA RefreshCancelledKeeps ==
    ASSUME RIndInv, NEW p \in Procs, RefreshCancelled(p)
    PROVE  RIndInv'
  <1> DEFINE none == <<>>
             d == Doing(p, proc[p].a, {}, NoAuth, none \o After(p))
  <1>1. none \o After(p) = After(p) /\ none \in Seq(Later) /\ Steps(none) \subseteq {"reschedule"}
    BY NothingToDo DEF After
  <1>2. /\ proc[p].pc = "refresh" /\ p \notin Workers /\ Goto(p, d) /\ RefreshFrame
        /\ UNCHANGED <<auths, sched, unsaved, minted, expires, refreshLocks, jobs, spent, reverted>>
    BY <1>1 DEF RefreshCancelled, At
  <1>3. Ahead(proc[p]) = {"refresh"} /\ proc[p].a \in Auths
    BY <1>2, RParts, NothingAhead DEF HandsInv, Equipped
  <1> HIDE DEF none
  <1>4. /\ Sound(d) /\ d.pc \notin {"saving", "restore", "edit"} /\ d.a = proc[p].a
        /\ d.snap = NoAuth /\ UnlocksLast(d, Rest(p))
    <2> DEFINE a == proc[p].a
    <2>1. a \in Auths /\ d = Doing(p, a, {}, NoAuth, none \o After(p)) /\ none \in Seq(Later)
      BY <1>1, <1>3
    <2>2. Steps(none) \subseteq {"reschedule"}
      BY <1>1
    <2> HIDE DEF d, a
    <2>3. /\ Sound(d) /\ d.a = a /\ d.pc \notin {"saving", "restore", "edit"}
          /\ d.snap = NoAuth /\ UnlocksLast(d, Rest(p))
      BY <2>1, <2>2, EndingIs
    <2>4. QED
      BY <2>3 DEF a
  <1>5. refreshLocks[proc[p].a] = {p}
    BY <1>2, RParts DEF LocksInv, Holds
  <1> HIDE DEF d
  <1>6. /\ jobs' \in Seq(Auths) /\ Len(jobs') <= JobBuffer /\ DOMAIN refreshLocks' = Auths
        /\ \A a \in Auths : ~ HasInHand(p, a)
    BY <1>2, <1>3, RParts DEF RTypeOK, HasInHand
  <1>7. Issued(d.snap, minted)
    BY <1>4 DEF Issued
  <1>8. QED
    BY <1>2, <1>3, <1>4, <1>5, <1>6, <1>7, RefreshQuiet

(* What a request goes on with after its refresh. *)
Resumes(p, d) == d = Rejected(p) \/ \E auth \in Auth : d = Retried(p, auth)

LEMMA ResumesIs ==
    ASSUME RIndInv, NEW p \in Procs, proc[p].a \in Auths, NEW d, Resumes(p, d)
    PROVE  /\ Sound(d) /\ d.pc \in {"exec", "rejected"} /\ Ahead(d) = {d.pc} /\ d.snap = NoAuth
           /\ \A rest : UnlocksLast(d, rest)
  <1>1. proc[p].m \in Models \cup {NoModel} /\ \A auth \in Auth : auth.token \in Nat
    BY RParts, ConductorAssumption DEF ProcType, Goroutine, Auth
  <1>2. /\ DOMAIN d = DOMAIN Idle /\ d.pc \in {"exec", "rejected"} /\ d.a = proc[p].a
        /\ d.m = proc[p].m /\ d.ms = Idle.ms /\ d.snap = NoAuth /\ d.token \in Nat
        /\ d.tried = TRUE /\ d.todo = <<>> /\ d.left = Idle.left
    <2>1. CASE d = Rejected(p)
      BY <2>1 DEF Rejected, Idle
    <2>2. ASSUME NEW auth \in Auth, d = Retried(p, auth)
          PROVE  /\ DOMAIN d = DOMAIN Idle /\ d.pc = "exec" /\ d.a = proc[p].a
                 /\ d.m = proc[p].m /\ d.ms = Idle.ms /\ d.snap = NoAuth
                 /\ d.token = auth.token
                 /\ d.tried = TRUE /\ d.todo = <<>> /\ d.left = Idle.left
      BY <2>2 DEF Retried, Idle
    <2>3. QED
      BY <1>1, <2>1, <2>2 DEF Resumes
  <1>3. Goroutine(d)
    BY <1>1, <1>2, IdleSound, NothingToDo DEF Sound, Goroutine, Entry
  <1>4. Sound(d) /\ Ahead(d) = {d.pc}
    BY <1>2, <1>3, NewSound
  <1>5. \A rest : UnlocksLast(d, rest)
    BY <1>2, NothingToDo DEF UnlocksLast, Steps
  <1>6. QED
    BY <1>2, <1>4, <1>5

LEMMA LockRefreshKeeps ==
    ASSUME RIndInv, NEW p \in Procs, LockRefresh(p)
    PROVE  RIndInv'
  <1> DEFINE a == proc[p].a
             auth == auths[a]
             reused == proc[p].token # 0 /\ auth.token # proc[p].token
  <1>1. /\ proc[p].pc = "lock" /\ refreshLocks[a] = {} /\ RefreshFrame
        /\ UNCHANGED <<auths, sched, unsaved, minted, expires, jobs, spent, reverted>>
    BY DEF LockRefresh, At
  <1>2. Ahead(proc[p]) = {"lock"} /\ proc[p].todo = <<>> /\ a \in Auths
    BY <1>1, RParts, NothingAhead DEF HandsInv, Equipped
  <1>3. /\ jobs' \in Seq(Auths) /\ Len(jobs') <= JobBuffer /\ DOMAIN refreshLocks = Auths
        /\ p \in Workers => proc[p].token = 0
        /\ Goroutine(proc[p]) /\ auths[a] \in Entry
    BY <1>1, <1>2, RParts DEF RTypeOK, WorkersInv, ProcType, VarType
  <1>4. \A b \in Auths : HasInHand(p, b) => b = a /\ p \in Workers
    BY <1>2 DEF HasInHand
  <1>5. CASE auth = NoAuth /\ p \in Workers
    <2> DEFINE todo == <<"reschedule">>
               d == Doing(p, a, {}, NoAuth, todo)
    <2>1. Goto(p, d) /\ UNCHANGED refreshLocks
      BY <1>5 DEF LockRefresh
    <2>2. /\ todo \in Seq(Later) /\ Steps(todo) = {"reschedule"} /\ todo # <<>>
          /\ Head(todo) = "reschedule" /\ Tail(todo) = <<>>
      <3>1. "reschedule" \in Later
        BY DEF Later
      <3>2. QED
        BY <3>1, OneStep
    <2> HIDE DEF todo
    <2>3. d.pc = "reschedule" /\ d.a = a /\ d.snap = NoAuth /\ d.todo = <<>>
          /\ Ahead(d) = {"reschedule"}
      <3>1. /\ d.pc = Head(todo) /\ d.a = a /\ d.snap = NoAuth /\ d.todo = Tail(todo)
            /\ Ahead(d) = Steps(todo)
        BY <2>2, DoingIs
      <3>2. QED
        BY <2>2, <3>1
    <2>4. Fitting(a, {}, NoAuth, todo)
      BY <1>2, <2>2, NoLoad DEF Fitting, Entry
    <2>5. Sound(d)
      BY <1>3, <2>4, DoingDoes DEF Goroutine
    <2> HIDE DEF d
    <2>6. /\ ~ Holds(d) /\ UnlocksLast(d, Rest(p)) /\ LastIsReschedule(d)
          /\ Issued(d.snap, minted)
      BY <2>3, NothingToDo DEF Holds, UnlocksLast, LastIsReschedule, Issued, Steps
    <2>7. QED
      BY <1>1, <1>2, <1>3, <1>4, <2>1, <2>3, <2>5, <2>6, RefreshQuiet
  <1>6. ASSUME NEW d, Resumes(p, d), p \notin Workers, Goto(p, d), UNCHANGED refreshLocks
        PROVE  RIndInv'
    <2>1. /\ Sound(d) /\ d.pc \in {"exec", "rejected"} /\ Ahead(d) = {d.pc} /\ d.snap = NoAuth
          /\ UnlocksLast(d, Rest(p))
      BY <1>2, <1>6, ResumesIs
    <2>2. ~ Holds(d) /\ Issued(d.snap, minted)
      BY <2>1 DEF Holds, Issued
    <2>3. QED
      BY <1>1, <1>2, <1>3, <1>4, <1>6, <2>1, <2>2, RefreshQuiet
  <1>7. CASE auth = NoAuth /\ p \notin Workers
    <2>1. Goto(p, Rejected(p)) /\ UNCHANGED refreshLocks
      BY <1>7 DEF LockRefresh
    <2>2. QED
      BY <1>6, <1>7, <2>1 DEF Resumes
  <1>8. CASE auth # NoAuth /\ reused
    <2>1. auth \in Auth /\ p \notin Workers
      BY <1>3, <1>8 DEF Entry
    <2>2. Goto(p, Retried(p, auth)) /\ UNCHANGED refreshLocks
      BY <1>8 DEF LockRefresh
    <2>3. QED
      BY <1>6, <2>1, <2>2 DEF Resumes
  <1>9. CASE auth # NoAuth /\ ~ reused
    <2> DEFINE d == [proc[p] EXCEPT !.pc = "refresh", !.snap = auth]
    <2>1. Goto(p, d) /\ refreshLocks' = [refreshLocks EXCEPT ![a] = {p}]
      BY <1>9 DEF LockRefresh
    <2>2. auth \in Auth
      BY <1>3, <1>9 DEF Entry
    <2>3. /\ d.pc = "refresh" /\ d.a = a /\ d.todo = <<>> /\ d.snap = auth
          /\ DOMAIN d = DOMAIN Idle /\ d.token = proc[p].token
          /\ d.m = proc[p].m /\ d.ms = proc[p].ms /\ d.tried = proc[p].tried
          /\ d.left = proc[p].left
      BY <1>2, <1>3 DEF Goroutine, Idle
    <2> HIDE DEF d
    <2>4. Goroutine(d)
      BY <1>2, <1>3, <2>2, <2>3 DEF Goroutine, Entry
    <2>5. Sound(d) /\ Ahead(d) = {"refresh"}
      BY <1>2, <2>2, <2>3, <2>4, NewSound
    <2>6. UnlocksLast(d, Rest(p)) /\ Issued(d.snap, minted)
      BY <1>2, <2>3, NothingToDo, RParts DEF UnlocksLast, Steps, TokensIssued
    <2>7. /\ DOMAIN refreshLocks' = Auths /\ refreshLocks'[a] = {p}
          /\ \A b \in Auths : \/ refreshLocks'[b] = refreshLocks[b]
                              \/ refreshLocks'[b] \in {{}, {p}} /\ refreshLocks[b] \subseteq {p}
      BY <1>1, <1>2, <1>3, <2>1
    <2> HIDE DEF a, auth
    <2>8. QED
      BY <1>1, <1>2, <1>3, <1>4, <2>1, <2>3, <2>5, <2>6, <2>7, RefreshQuiet
  <1>10. QED
    BY <1>5, <1>7, <1>8, <1>9

LEMMA UnlockRefreshKeeps ==
    ASSUME RIndInv, NEW p \in Procs, UnlockRefresh(p)
    PROVE  RIndInv'
  <1> DEFINE a == proc[p].a
             r == proc[p]
  <1>1. /\ r.pc = "unlock" /\ refreshLocks' = [refreshLocks EXCEPT ![a] = {}] /\ RefreshFrame
        /\ UNCHANGED <<auths, sched, unsaved, minted, expires, jobs, spent, reverted>>
    BY DEF UnlockRefresh, At
  <1>2. a \in Auths /\ refreshLocks[a] = {p} /\ Len(r.todo) = Rest(p)
    BY <1>1, RParts DEF HandsInv, Equipped, Ahead, LocksInv, Holds, UnlocksInv, UnlocksLast
  <1>3. /\ jobs' \in Seq(Auths) /\ Len(jobs') <= JobBuffer /\ DOMAIN refreshLocks = Auths
        /\ Goroutine(r) /\ r.todo \in Seq(Later) /\ r.snap \in Entry
    BY <1>1, RParts DEF RTypeOK, ProcType, Goroutine
  <1>4. /\ DOMAIN refreshLocks' = Auths
        /\ \A b \in Auths : \/ refreshLocks'[b] = refreshLocks[b]
                            \/ refreshLocks'[b] \in {{}, {p}} /\ refreshLocks[b] \subseteq {p}
    BY <1>1, <1>2, <1>3
  <1>5. CASE p \in Workers
    <2> DEFINE d == Continue(p)
    <2>1. Goto(p, d)
      BY <1>5 DEF UnlockRefresh
    <2>2. Len(r.todo) = 1 /\ LastIsReschedule(r)
      BY <1>1, <1>2, <1>5, RParts DEF WorkersInv, Rest
    <2>3. r.todo # <<>> /\ r.todo[1] = "reschedule" /\ DOMAIN r.todo = {1}
      <3>1. r.todo # <<>> /\ DOMAIN r.todo = 1 .. 1
        <4> DEFINE todo == r.todo
        <4>1. todo \in Seq(Later) /\ Len(todo) = 1
          BY <1>3, <2>2
        <4> HIDE DEF todo
        <4>2. todo # <<>> /\ DOMAIN todo = 1 .. 1
          BY <4>1
        <4>3. QED
          BY <4>2 DEF todo
      <3>2. QED
        BY <2>2, <3>1 DEF LastIsReschedule
    <2>4. /\ Head(r.todo) = "reschedule" /\ Tail(r.todo) = <<>>
          /\ Steps(r.todo) = {"reschedule"}
      <3>1. Steps(r.todo) = {"reschedule"}
        BY <2>3 DEF Steps
      <3>2. Head(r.todo) = "reschedule" /\ Tail(r.todo) \in Seq(Later) /\ Len(Tail(r.todo)) = 0
        BY <1>3, <2>2, <2>3
      <3>3. QED
        BY <3>1, <3>2, EmptyIs
    <2>5. d.pc = "reschedule" /\ d.a = a /\ d.snap = r.snap /\ d.todo = <<>>
          /\ Ahead(d) = {"reschedule"}
      BY <1>3, <2>3, <2>4, DoingIs DEF Continue
    <2>6. Sound(d)
      BY <1>1, RParts, ContinueDoes
    <2> HIDE DEF d
    <2>7. /\ ~ Holds(d) /\ UnlocksLast(d, Rest(p)) /\ LastIsReschedule(d)
          /\ Issued(d.snap, minted)
      BY <2>5, NothingToDo, RParts
         DEF Holds, UnlocksLast, LastIsReschedule, TokensIssued, Steps
    <2>8. /\ "persist" \notin Ahead(r)
          /\ \A b \in Auths : HasInHand(p, b) => b = a
      BY <1>1, <2>4 DEF Ahead, HasInHand
    <2>9. QED
      BY <1>1, <1>3, <1>4, <1>5, <2>1, <2>5, <2>6, <2>7, <2>8, RefreshQuiet
  <1>6. CASE p \notin Workers
    <2>1. PICK d : Resumes(p, d) /\ Goto(p, d)
      <3>1. CASE r.snap = NoAuth
        BY <1>6, <3>1 DEF UnlockRefresh, Resumes
      <3>2. CASE r.snap # NoAuth
        BY <1>3, <1>6, <3>2 DEF UnlockRefresh, Entry, Resumes
      <3>3. QED
        BY <3>1, <3>2
    <2>2. /\ Sound(d) /\ d.pc \in {"exec", "rejected"} /\ Ahead(d) = {d.pc} /\ d.snap = NoAuth
          /\ UnlocksLast(d, Rest(p))
      BY <1>2, <2>1, ResumesIs
    <2>3. ~ Holds(d) /\ Issued(d.snap, minted)
      BY <2>2 DEF Holds, Issued
    <2>4. Ahead(r) = {"unlock"}
      <3>1. r.todo = <<>>
        BY <1>2, <1>3, <1>6, EmptyIs DEF Rest
      <3>2. QED
        BY <1>1, <3>1, NothingToDo DEF Ahead
    <2>5. \A b \in Auths : ~ HasInHand(p, b)
      BY <1>6, <2>4 DEF HasInHand
    <2>6. QED
      BY <1>1, <1>3, <1>4, <1>6, <2>1, <2>2, <2>3, <2>4, <2>5, RefreshQuiet
  <1>7. QED
    BY <1>5, <1>6

(* The clone that is stored is a credential with the token it had. *)
LEMMA RenewedDoes ==
    ASSUME NEW auth \in Auth, NEW due, now \in Nat
    PROVE  /\ Renewed(auth, due) \in Auth /\ Renewed(auth, due).token = auth.token
           /\ UnauthorizedModels(auth) \subseteq Models
  <1> DEFINE ms == UnauthorizedModels(auth)
             ok == [auth EXCEPT !.refreshAt = 0, !.top.err = "none", !.top.unavail = FALSE,
                                !.models = [m \in Models |-> IF m \in ms THEN Clean ELSE @[m]]]
             agg == IF ms = {} THEN ok ELSE Aggregated(ok, now)
  <1>1. ms \subseteq Models
    BY DEF UnauthorizedModels
  <1>2. ok \in Auth /\ ok.token = auth.token
    <2> HIDE DEF ms
    <2>1. auth.models \in [Models -> State \cup {NoState}] /\ auth.top \in State
      BY DEF Auth
    <2>2. [m \in Models |-> IF m \in ms THEN Clean ELSE auth.models[m]]
             \in [Models -> State \cup {NoState}]
      BY <2>1, CleanType
    <2>3. [[auth.top EXCEPT !.err = "none"] EXCEPT !.unavail = FALSE] \in State
      BY <2>1 DEF State
    <2>4. QED
      BY <2>2, <2>3 DEF Auth
  <1> HIDE DEF ok, ms
  <1>3. agg \in Auth /\ agg.token = auth.token
    BY <1>2, AggregatedDoes
  <1>4. Renewed(auth, due) = IF due <= now THEN [agg EXCEPT !.refreshAt = now + IneffectiveBackoff]
                             ELSE agg
    BY DEF Renewed, agg, ok, ms
  <1> HIDE DEF agg
  <1>5. now + IneffectiveBackoff \in Nat
    BY RefreshAssumption
  <1>6. [agg EXCEPT !.refreshAt = now + IneffectiveBackoff] \in Auth
        /\ [agg EXCEPT !.refreshAt = now + IneffectiveBackoff].token = agg.token
    BY <1>3, <1>5 DEF Auth
  <1>7. QED
    BY <1>1, <1>3, <1>4, <1>6 DEF ms

(* The provider has answered: a clone is to be stored. *)
Answered(p, new, due) ==
    [proc[p] EXCEPT !.pc = "update", !.ms = UnauthorizedModels(new), !.snap = Renewed(new, due)]

LEMMA AnsweredIs ==
    ASSUME RIndInv, NEW p \in Procs, proc[p].pc = "refresh", NEW new \in Auth, NEW due,
           NEW d, d = Answered(p, new, due)
    PROVE  /\ Sound(d) /\ d.pc = "update" /\ d.a = proc[p].a /\ d.snap.token = new.token
           /\ UnlocksLast(d, Rest(p)) /\ refreshLocks[d.a] = {p} /\ d.a \in Auths
           /\ Ahead(proc[p]) = {"refresh"} /\ proc[p].snap \in Auth
           /\ \A a \in Auths : HasInHand(p, a) => a = d.a /\ p \in Workers
  <1> DEFINE r == proc[p]
  <1>1. /\ Ahead(r) = {"refresh"} /\ r.todo = <<>> /\ r.a \in Auths /\ r.snap \in Auth
        /\ Goroutine(r) /\ refreshLocks[r.a] = {p}
    <2>1. Ahead(r) = {"refresh"} /\ r.todo = <<>>
      BY RParts, NothingAhead
    <2>2. r.a \in Auths /\ r.snap \in Auth
      BY <2>1, RParts DEF HandsInv, Equipped
    <2>3. Goroutine(r) /\ refreshLocks[r.a] = {p}
      BY RParts DEF ProcType, LocksInv, Holds
    <2>4. QED
      BY <2>1, <2>2, <2>3
  <1>2. /\ Renewed(new, due) \in Auth /\ Renewed(new, due).token = new.token
        /\ UnauthorizedModels(new) \subseteq Models
    BY RParts, RenewedDoes, ConductorAssumption DEF VarType
  <1>3. /\ DOMAIN d = DOMAIN Idle /\ d.pc = "update" /\ d.a = r.a /\ d.todo = <<>>
        /\ d.m = r.m /\ d.ms = UnauthorizedModels(new) /\ d.snap = Renewed(new, due)
        /\ d.token = r.token /\ d.tried = r.tried /\ d.left = r.left
    BY <1>1 DEF Goroutine, Idle, Answered
  <1> HIDE DEF r
  <1>4. Goroutine(d)
    BY <1>1, <1>2, <1>3 DEF Goroutine, Entry
  <1>5. Sound(d)
    BY <1>1, <1>2, <1>3, <1>4, NewSound
  <1>6. UnlocksLast(d, Rest(p))
    BY <1>3, NothingToDo DEF UnlocksLast, Steps
  <1>7. \A a \in Auths : HasInHand(p, a) => a = d.a /\ p \in Workers
    BY <1>1, <1>3 DEF HasInHand, r
  <1>8. QED
    BY <1>1, <1>2, <1>3, <1>5, <1>6, <1>7 DEF r

LEMMA RefreshIneffectiveKeeps ==
    ASSUME RIndInv, NEW p \in Procs, RefreshIneffective(p)
    PROVE  RIndInv'
  <1> DEFINE old == proc[p].snap
             d == [proc[p] EXCEPT !.pc = "update", !.ms = UnauthorizedModels(old),
                                  !.snap = Renewed(old, expires[old.token])]
  <1>1. /\ proc[p].pc = "refresh" /\ Goto(p, d) /\ RefreshFrame
        /\ UNCHANGED <<auths, sched, unsaved, minted, expires, refreshLocks, jobs, spent, reverted>>
    BY DEF RefreshIneffective, At
  <1>2. old \in Auth
    BY <1>1, RParts, NothingAhead DEF HandsInv, Equipped
  <1>3. /\ Sound(d) /\ d.pc = "update" /\ d.a = proc[p].a /\ d.snap.token = old.token
        /\ UnlocksLast(d, Rest(p)) /\ refreshLocks[d.a] = {p}
        /\ Ahead(proc[p]) = {"refresh"}
        /\ \A a \in Auths : HasInHand(p, a) => a = d.a /\ p \in Workers
    <2> DEFINE due == expires[old.token]
    <2>1. d = Answered(p, old, due)
      BY DEF Answered
    <2> HIDE DEF d, due, old
    <2>2. QED
      BY <1>1, <1>2, <2>1, AnsweredIs
  <1> HIDE DEF d
  <1>4. Issued(d.snap, minted)
    BY <1>2, <1>3, NilAssumption, RParts DEF TokensIssued, Issued
  <1>5. jobs' \in Seq(Auths) /\ Len(jobs') <= JobBuffer /\ DOMAIN refreshLocks' = Auths
    BY <1>1, RParts DEF RTypeOK
  <1>6. QED
    BY <1>1, <1>3, <1>4, <1>5, RefreshQuiet

LEMMA RefreshSucceedsKeeps ==
    ASSUME RIndInv, NEW p \in Procs, RefreshSucceeds(p)
    PROVE  RIndInv'
  <1> DEFINE old == proc[p].snap
             new == [old EXCEPT !.token = minted + 1]
             d == [proc[p] EXCEPT !.pc = "update", !.ms = UnauthorizedModels(new),
                                  !.snap = Renewed(new, now + Lifetime)]
  <1>1. /\ proc[p].pc = "refresh" /\ minted < MaxTokens /\ minted' = minted + 1
        /\ expires' = [expires EXCEPT ![minted + 1] = now + Lifetime]
        /\ spent' = spent \cup {<<proc[p].a, old.token>>}
        /\ Goto(p, d) /\ RefreshFrame
        /\ UNCHANGED <<auths, sched, unsaved, refreshLocks, jobs, reverted>>
    BY DEF RefreshSucceeds, At
  <1>2. old \in Auth /\ proc[p].a \in Auths
    BY <1>1, RParts, NothingAhead DEF HandsInv, Equipped
  <1>3. /\ minted \in 1 .. MaxTokens /\ minted' \in 1 .. MaxTokens /\ minted <= minted'
        /\ now + Lifetime \in Nat
    BY <1>1, RParts, ConductorAssumption, RefreshAssumption DEF VarType
  <1>4. new \in Auth /\ new.token = minted + 1
    BY <1>1, <1>2, <1>3 DEF Auth
  <1>5. old.token \in 1 .. minted
    <2>1. old.token \in 1 .. MaxTokens /\ old.token <= minted
      BY <1>2, NilAssumption, RParts DEF TokensIssued, Issued, Auth
    <2>2. QED
      BY <1>3, <2>1
  <1> HIDE DEF new, old
  <1>6. /\ Sound(d) /\ d.pc = "update" /\ d.a = proc[p].a /\ d.snap.token = new.token
        /\ UnlocksLast(d, Rest(p)) /\ refreshLocks[d.a] = {p}
        /\ Ahead(proc[p]) = {"refresh"}
        /\ \A a \in Auths : HasInHand(p, a) => a = d.a /\ p \in Workers
    <2> DEFINE due == now + Lifetime
    <2>1. d = Answered(p, new, due)
      BY DEF Answered
    <2> HIDE DEF d, due
    <2>2. QED
      BY <1>1, <1>4, <2>1, AnsweredIs, SMTT(30)
  <1> HIDE DEF d
  <1>7. IndInv'
    BY <1>1, <1>3, <1>6, RefreshBystander
  <1>8. /\ expires' \in [1 .. MaxTokens -> Nat] /\ spent' \subseteq Auths \X (1 .. minted')
        /\ spent \subseteq Auths \X (1 .. minted) /\ reverted' \subseteq Auths
        /\ jobs' \in Seq(Auths) /\ Len(jobs') <= JobBuffer /\ DOMAIN refreshLocks' = Auths
    <2>1. expires' \in [1 .. MaxTokens -> Nat]
      BY <1>1, <1>3, RParts DEF RTypeOK
    <2>2. 1 .. minted \subseteq 1 .. minted' /\ spent \subseteq Auths \X (1 .. minted)
      BY <1>1, <1>3, RParts DEF RTypeOK
    <2>3. spent' \subseteq Auths \X (1 .. minted')
      BY <1>1, <1>2, <1>5, <2>2
    <2>4. QED
      BY <1>1, <2>1, <2>2, <2>3, RParts DEF RTypeOK
  <1>9. Issued(d.snap, minted') /\ \A a \in Auths : Issued(auths'[a], minted')
    <2>1. Issued(d.snap, minted')
      BY <1>1, <1>3, <1>4, <1>6 DEF Issued
    <2>2. ASSUME NEW a \in Auths PROVE Issued(auths'[a], minted')
      <3>1. auths[a] # NoAuth => auths[a].token \in Nat /\ auths[a].token <= minted
        BY RParts, ConductorAssumption DEF TokensIssued, Issued, VarType, Entry, Auth
      <3>2. QED
        BY <1>1, <1>3, <3>1 DEF Issued
    <2>3. QED
      BY <2>1, <2>2
  <1>10. /\ proc'[p] = d /\ \A q \in Procs : q # p => proc'[q] = proc[q]
    BY <1>1, RParts, AsideMoves DEF Goto
  <1>11. SpentInv'
    <2>1. ASSUME NEW b \in Auths \ reverted', auths'[b] # NoAuth, <<b, auths'[b].token>> \in spent'
          PROVE  \E q \in Procs : Replacing(q, b)'
      <3>1. CASE <<b, auths'[b].token>> \in spent
        <4>1. PICK q \in Procs : Replacing(q, b)
          BY <1>1, <2>1, <3>1, RParts DEF SpentInv
        <4>2. q # p /\ refreshLocks[b] = {q}
          BY <1>1, <4>1, RParts DEF Replacing, LocksInv, Holds
        <4>3. b # proc[p].a
          BY <1>6, <4>2
        <4>4. <<b, proc[q].snap.token>> \notin spent'
          BY <1>1, <4>1, <4>3 DEF Replacing
        <4>5. Replacing(q, b)'
          BY <1>10, <4>1, <4>2, <4>4 DEF Replacing
        <4>6. QED
          BY <4>5
      <3>2. CASE b = proc[p].a
        <4>1. <<b, minted + 1>> \notin spent'
          BY <1>1, <1>3, <1>5, <1>8
        <4>2. Replacing(p, b)'
          BY <1>4, <1>6, <1>10, <3>2, <4>1 DEF Replacing
        <4>3. QED
          BY <4>2
      <3>3. QED
        BY <1>1, <2>1, <3>1, <3>2
    <2>2. QED
      BY <2>1 DEF SpentInv
  <1>12. Holds(d) => refreshLocks'[d.a] = {p}
    BY <1>1, <1>6
  <1>13. \A a \in Auths :
            HasInHand(p, a) \/ ((\E i \in DOMAIN jobs : jobs[i] = a)
                                /\ ~ \E i \in DOMAIN jobs' : jobs'[i] = a)
            => d.a = a /\ ("reschedule" \in Ahead(d) \/ (p \in Workers /\ d.pc # "idle"))
    BY <1>1, <1>6
  <1>14. QED
    BY <1>1, <1>3, <1>6, <1>7, <1>8, <1>9, <1>11, <1>12, <1>13, RefreshKeeps

(* The provider has refused. *)
LEMMA RefreshFailsKeeps ==
    ASSUME RIndInv, NEW p \in Procs, NEW err \in {"unauthorized", "other"}, RefreshFails(p, err)
    PROVE  RIndInv'
  <1> DEFINE a == proc[p].a
             there == auths[a] # NoAuth
             bad == [auths[a] EXCEPT
                       !.top.err = err,
                       !.top.unavail = @ \/ err = "unauthorized",
                       !.refreshAt = IF err = "unauthorized" THEN 0 ELSE now + FailureBackoff]
             s == When(there, <<"reschedule">>)
             d == Doing(p, a, {}, NoAuth, s \o After(p))
  <1>1. /\ proc[p].pc = "refresh" /\ Goto(p, d) /\ RefreshFrame
        /\ UNCHANGED <<minted, expires, refreshLocks, jobs, spent, reverted>>
    BY DEF RefreshFails, At
  <1>2. \/ ~ there /\ UNCHANGED <<auths, sched, unsaved>>
        \/ /\ there
           /\ auths' = [auths EXCEPT ![a] = bad]
           /\ sched' = [sched EXCEPT ![a] = Schedulable(bad)]
           /\ unsaved' = IF Records(bad, now) \subseteq Records(auths[a], now)
                         THEN unsaved ELSE unsaved \cup {a}
    BY DEF RefreshFails
  <1>3. Ahead(proc[p]) = {"refresh"} /\ a \in Auths
    BY <1>1, RParts, NothingAhead DEF HandsInv, Equipped
  <1>4. refreshLocks[a] = {p}
    BY <1>1, RParts DEF LocksInv, Holds
  <1>5. there => bad \in Auth /\ bad.token = auths[a].token
    <2>1. now \in Nat /\ now + FailureBackoff \in Nat
      BY RParts, ConductorAssumption, RefreshAssumption DEF VarType
    <2>2. ASSUME NEW x \in Auth, NEW t \in Nat
          PROVE  LET y == [x EXCEPT !.top.err = err, !.top.unavail = @ \/ err = "unauthorized",
                                    !.refreshAt = t]
                 IN  y \in Auth /\ y.token = x.token
      <3> DEFINE off == x.top.unavail \/ err = "unauthorized"
                 top == [[x.top EXCEPT !.err = err] EXCEPT !.unavail = off]
                 y == [x EXCEPT !.top.err = err, !.top.unavail = @ \/ err = "unauthorized",
                                !.refreshAt = t]
      <3>1. top \in State
        <4>1. x.top \in State /\ off \in BOOLEAN
          BY DEF Auth
        <4> HIDE DEF off
        <4>2. QED
          BY <4>1 DEF State
      <3>2. y = [[x EXCEPT !.top = top] EXCEPT !.refreshAt = t]
        BY DEF Auth, State
      <3> HIDE DEF top, y
      <3>3. y \in Auth /\ y.token = x.token
        BY <3>1, <3>2 DEF Auth
      <3>4. QED
        BY <3>3 DEF y
    <2>3. there => auths[a] \in Auth
      BY <1>3, RParts DEF VarType, Entry
    <2>4. QED
      BY <2>1, <2>2, <2>3
  <1>6. s \in Seq(Later) /\ Steps(s) = IF there THEN {"reschedule"} ELSE {}
    <2>1. "reschedule" \in Later
      BY DEF Later
    <2>2. <<"reschedule">> \in Seq(Later) /\ Steps(<<"reschedule">>) = {"reschedule"}
      BY <2>1, OneStep
    <2>3. there \in BOOLEAN
      OBVIOUS
    <2> HIDE DEF there
    <2>4. QED
      BY <2>2, <2>3, WhenSteps
  <1>7. /\ Sound(d) /\ d.pc \notin {"saving", "restore", "edit"} /\ d.a = a
        /\ d.pc \notin {"idle", "lock"} /\ d.snap = NoAuth /\ UnlocksLast(d, Rest(p))
        /\ p \in Workers => LastIsReschedule(d)
    <2> HIDE DEF s, a, d
    <2>1. Steps(s) \subseteq {"reschedule"}
      BY <1>6
    <2>2. d = Doing(p, a, {}, NoAuth, s \o After(p))
      BY DEF d
    <2>3. QED
      BY <1>3, <1>6, <2>1, <2>2, EndingIs
  <1> HIDE DEF d, s, bad
  <1>8. /\ jobs' \in Seq(Auths) /\ Len(jobs') <= JobBuffer /\ DOMAIN refreshLocks' = Auths
        /\ Holds(d) => refreshLocks'[d.a] = {p}
        /\ \A b \in Auths : HasInHand(p, b) => b = a /\ p \in Workers
    BY <1>1, <1>3, <1>4, <1>7, RParts DEF RTypeOK, HasInHand
  <1>9. /\ Issued(d.snap, minted) /\ minted \in 1 .. MaxTokens /\ minted <= minted
    BY <1>7, RParts, ConductorAssumption DEF Issued, VarType
  <1>10. CASE ~ there /\ UNCHANGED <<auths, sched, unsaved>>
    BY <1>1, <1>3, <1>7, <1>8, <1>9, <1>10, RefreshQuiet
  <1>11. CASE /\ there
              /\ auths' = [auths EXCEPT ![a] = bad]
              /\ sched' = [sched EXCEPT ![a] = Schedulable(bad)]
              /\ unsaved' = IF Records(bad, now) \subseteq Records(auths[a], now)
                            THEN unsaved ELSE unsaved \cup {a}
    <2>1. MovesQuietly(p)
      BY <1>1, <1>3, <1>7 DEF MovesQuietly, Moves, Goto
    <2>2. /\ bad \in Entry /\ Schedulable(bad) \in Entry
          /\ unsaved \subseteq unsaved' /\ unsaved' \subseteq Auths
          /\ \/ RecordsIf(cooling, bad, now) \subseteq RecordsIf(cooling, auths[a], now)
             \/ a \in unsaved'
      BY <1>3, <1>5, <1>11, SchedulableType, RParts DEF Entry, Records, VarType
    <2>3. UNCHANGED <<now, cooling, disk, store, suspended, cfgMu, heap, dirty, ops, minted>>
      BY <1>1 DEF RefreshFrame
    <2>4. auths' \in [Auths -> Entry] /\ SavedInv'
      BY <1>3, <1>11, <2>1, <2>2, <2>3, RParts, OneChanges
    <2>5. VarType'
      BY <1>11, <2>2, <2>3, <2>4, RParts DEF VarType
    <2>6. IndInv'
      BY <2>1, <2>3, <2>4, <2>5, RParts, QuietStep
    <2>7. \A b \in Auths : auths'[b] = IF b = a THEN bad ELSE auths[b]
      BY <1>11, RParts DEF VarType
    <2>8. \A b \in Auths : /\ auths'[b] # NoAuth =>
                                auths[b] # NoAuth /\ auths'[b].token = auths[b].token
                           /\ auths[b] = NoAuth => auths'[b] = NoAuth
                           /\ Issued(auths'[b], minted)
      BY <1>5, <1>11, <2>7, RParts DEF TokensIssued, Issued
    <2>9. SpentInv'
      BY <1>1, <2>8, SpentStays
    <2>10. /\ expires' \in [1 .. MaxTokens -> Nat] /\ spent' \subseteq Auths \X (1 .. minted')
           /\ reverted' \subseteq Auths
      BY <1>1, RParts DEF RTypeOK
    <2>11. QED
      BY <1>1, <1>7, <1>8, <1>9, <2>6, <2>8, <2>9, <2>10, RefreshKeeps
  <1>12. QED
    BY <1>2, <1>10, <1>11

(* A step put before the end of a refresh leaves the end where it is. *)
LEMMA PutBefore ==
    ASSUME NEW s \in Seq(Later), NEW t \in Seq(Later), NEW rest \in {0, 1},
           "unlock" \notin Steps(s), UnlockAt(t, rest)
    PROVE  /\ UnlockAt(s \o t, rest)
           /\ t # <<>> => s \o t # <<>>
           /\ \A x : EndsWith(t, x) => EndsWith(s \o t, x)
  <1> DEFINE todo == s \o t
  <1>1. /\ todo \in Seq(Later) /\ Len(todo) = Len(s) + Len(t) /\ Len(s) \in Nat /\ Len(t) \in Nat
        /\ DOMAIN s = 1 .. Len(s) /\ DOMAIN t = 1 .. Len(t) /\ DOMAIN todo = 1 .. Len(todo)
        /\ \A i \in 1 .. Len(todo) : todo[i] = IF i <= Len(s) THEN s[i] ELSE t[i - Len(s)]
    OBVIOUS
  <1> HIDE DEF todo
  <1>2. (t = <<>> <=> Len(t) = 0) /\ (todo = <<>> <=> Len(todo) = 0)
    BY <1>1, EmptyIs
  <1>3. ASSUME NEW i \in DOMAIN todo, todo[i] = "unlock" PROVE i = Len(todo) - rest
    <2>1. i \in Int /\ 1 <= i /\ i <= Len(s) + Len(t)
      BY <1>1, <1>3
    <2>2. ~ (i <= Len(s))
      BY <1>1, <1>3, <2>1 DEF Steps
    <2>3. t[i - Len(s)] = "unlock" /\ i - Len(s) \in DOMAIN t
      BY <1>1, <1>3, <2>1, <2>2
    <2>4. i - Len(s) = Len(t) - rest
      BY <2>3 DEF UnlockAt
    <2>5. QED
      BY <1>1, <2>1, <2>4
  <1>4. ASSUME NEW x, t # <<>>, t[Len(t)] = x PROVE todo # <<>> /\ todo[Len(todo)] = x
    <2>1. Len(t) # 0 /\ Len(todo) \in 1 .. Len(todo) /\ ~ (Len(todo) <= Len(s))
          /\ Len(todo) - Len(s) = Len(t)
      BY <1>1, <1>2, <1>4
    <2>2. todo[Len(todo)] = t[Len(todo) - Len(s)]
      BY <1>1, <2>1
    <2>3. QED
      BY <1>1, <1>2, <1>4, <2>1, <2>2
  <1>5. QED
    BY <1>1, <1>2, <1>3, <1>4 DEF UnlockAt, EndsWith, todo

(* Storing a clone: either the credential is gone, or the map has the      *)
(* clone's token.                                                          *)
StoredAs(p, a, x, d) ==
    /\ x \in Auth /\ x.token = proc[p].snap.token
    /\ Goto(p, d)
    /\ \/ auths[a] = NoAuth /\ UNCHANGED <<auths, unsaved>>
       \/ /\ auths[a] \in Auth /\ auths' = [auths EXCEPT ![a] = x]
          /\ unsaved' = IF Records(x, now) \subseteq Records(auths[a], now)
                        THEN unsaved ELSE unsaved \cup {a}

LEMMA StoreRefreshedDoes ==
    ASSUME RIndInv, NEW p \in Procs, NEW a, a = proc[p].a, StoreRefreshed(p)
    PROVE  /\ MovesQuietly(p) /\ a \in Auths /\ proc[p].snap \in Auth
           /\ \E x, d : /\ StoredAs(p, a, x, d) /\ d.a = a /\ d.snap = x
                        /\ d.pc \notin {"idle", "lock", "refresh", "update"}
                        /\ UnlocksLast(d, Rest(p)) /\ (p \in Workers => LastIsReschedule(d))
  <1> DEFINE auth == proc[p].snap
             ms == proc[p].ms
             res == <<"resume">>
             after == res \o After(p)
  <1>1. proc[p].pc = "update" /\ UpdateTo(p, a, auth, ms, after)
    BY DEF StoreRefreshed, At
  <1>2. a \in Auths /\ auth \in Auth /\ ms \subseteq Models
    BY <1>1, RParts DEF HandsInv, Equipped, Ahead
  <1>3. res \in Seq(Later) /\ Steps(res) = {"resume"}
    <2>1. "resume" \in Later
      BY DEF Later
    <2>2. QED
      BY <2>1, OneStep
  <1>4. /\ after \in Seq(Later) /\ after # <<>> /\ "load" \notin Steps(after)
        /\ UnlockAt(after, Rest(p)) /\ Rest(p) \in {0, 1}
        /\ p \in Workers => EndsWith(after, "reschedule")
    <2> HIDE DEF res
    <2>1. "unlock" \notin Steps(res)
      BY <1>3
    <2>2. /\ after \in Seq(Later) /\ after # <<>> /\ Steps(after) = Steps(res) \cup Steps(After(p))
          /\ UnlockAt(after, Rest(p)) /\ Rest(p) \in {0, 1}
          /\ p \in Workers => EndsWith(after, "reschedule")
          /\ Steps(After(p)) \subseteq {"unlock", "reschedule"}
      BY <1>3, <2>1, AfterIs
    <2> HIDE DEF after
    <2>3. QED
      BY <1>3, <2>2
  <1> HIDE DEF after, auth, ms
  <1>5. /\ MovesQuietly(p)
        /\ \/ /\ auths[a] = NoAuth /\ UNCHANGED <<auths, unsaved>>
              /\ Goto(p, Doing(p, a, ms, auth, after))
           \/ \E inh \in Auth, new \in Auth, c \in BOOLEAN :
                 /\ auths[a] \in Auth /\ inh.token = auth.token
                 /\ new \in {inh, ClearedCooldown(inh, now)}
                 /\ auths' = [auths EXCEPT ![a] = new]
                 /\ unsaved' = IF Records(new, now) \subseteq Records(auths[a], now)
                               THEN unsaved ELSE unsaved \cup {a}
                 /\ Goto(p, Doing(p, a, ms, new, <<"publish", "reschedule", "file">>
                                                \o When(c, <<"persist">>) \o after))
    <2>1. proc[p].pc \in {"idle", "exec", "rejected", "rebuild", "repick", "edit",
                           "remove", "load", "restore", "lock", "refresh", "update"}
      BY <1>1
    <2>2. VarType /\ ProcType /\ HandsInv
      BY RParts
    <2>3. MovesQuietly(p) /\ UpdatedAs(p, a, auth, ms, after)
      BY <1>1, <1>2, <1>4, <2>1, <2>2, UpdateToDoes
    <2>4. QED
      BY <2>3 DEF UpdatedAs
  <1>6. ASSUME NEW x \in Auth, NEW todo \in Seq(Later), todo # <<>>, UnlockAt(todo, Rest(p)),
               p \in Workers => EndsWith(todo, "reschedule"),
               NEW d, d = Doing(p, a, ms, x, todo)
        PROVE  /\ d.a = a /\ d.snap = x /\ d.pc \notin {"idle", "lock", "refresh", "update"}
               /\ UnlocksLast(d, Rest(p)) /\ (p \in Workers => LastIsReschedule(d))
    <2>1. d.pc \in Later /\ d.a = a /\ d.snap = x
      BY <1>6, DoingIs
    <2>2. UnlocksLast(d, Rest(p)) /\ (p \in Workers => LastIsReschedule(d))
      BY <1>4, <1>6, DoingUnlocks, DoingEnds
    <2>3. d.pc \notin {"idle", "lock", "refresh", "update"}
      BY <2>1 DEF Later
    <2>4. QED
      BY <2>1, <2>2, <2>3
  <1>7. CASE /\ auths[a] = NoAuth /\ UNCHANGED <<auths, unsaved>>
             /\ Goto(p, Doing(p, a, ms, auth, after))
    <2> DEFINE d == Doing(p, a, ms, auth, after)
    <2>1. StoredAs(p, a, auth, d)
      BY <1>2, <1>7 DEF StoredAs, auth
    <2>2. /\ d.a = a /\ d.snap = auth /\ d.pc \notin {"idle", "lock", "refresh", "update"}
          /\ UnlocksLast(d, Rest(p)) /\ (p \in Workers => LastIsReschedule(d))
      BY <1>2, <1>4, <1>6
    <2> HIDE DEF d
    <2>3. QED
      BY <1>2, <1>5, <2>1, <2>2 DEF auth
  <1>8. ASSUME NEW inh \in Auth, NEW new \in Auth, NEW c \in BOOLEAN,
               auths[a] \in Auth, inh.token = auth.token,
               new \in {inh, ClearedCooldown(inh, now)}, auths' = [auths EXCEPT ![a] = new],
               unsaved' = IF Records(new, now) \subseteq Records(auths[a], now)
                          THEN unsaved ELSE unsaved \cup {a},
               Goto(p, Doing(p, a, ms, new, <<"publish", "reschedule", "file">>
                                            \o When(c, <<"persist">>) \o after))
        PROVE  \E x, d : /\ StoredAs(p, a, x, d) /\ d.a = a /\ d.snap = x
                         /\ d.pc \notin {"idle", "lock", "refresh", "update"}
                         /\ UnlocksLast(d, Rest(p)) /\ (p \in Workers => LastIsReschedule(d))
    <2> DEFINE head == <<"publish", "reschedule", "file">> \o When(c, <<"persist">>)
               todo == head \o after
               d == Doing(p, a, ms, new, todo)
    <2>1. new.token = auth.token
      <3>1. now \in Nat
        BY RParts, ConductorAssumption DEF VarType
      <3>2. ClearedCooldown(inh, now).token = inh.token
        BY <3>1, ClearedDoes
      <3>3. QED
        BY <1>8, <3>2
    <2>2. head \in Seq(Later) /\ "unlock" \notin Steps(head)
      <3>1. /\ <<"publish", "reschedule", "file">> \in Seq(Later)
            /\ Steps(<<"publish", "reschedule", "file">>) = {"publish", "reschedule", "file"}
        BY UpdateSteps
      <3>2. <<"persist">> \in Seq(Later) /\ Steps(<<"persist">>) = {"persist"}
        BY SaveOnly
      <3>3. When(c, <<"persist">>) \in Seq(Later)
            /\ Steps(When(c, <<"persist">>)) \subseteq {"persist"}
        BY <3>2, WhenSteps
      <3> DEFINE up == <<"publish", "reschedule", "file">>
                 w == When(c, <<"persist">>)
      <3> HIDE DEF up, w
      <3>4. up \o w \in Seq(Later) /\ Steps(up \o w) = Steps(up) \cup Steps(w)
        BY <3>1, <3>3, StepsAfter DEF up, w
      <3>5. "unlock" \notin Steps(up) /\ "unlock" \notin Steps(w)
        BY <3>1, <3>3 DEF up, w
      <3>6. QED
        BY <3>4, <3>5 DEF up, w
    <2>3. Goto(p, d)
      BY <1>8
    <2> HIDE DEF head
    <2>4. /\ todo \in Seq(Later) /\ todo # <<>> /\ UnlockAt(todo, Rest(p))
          /\ p \in Workers => EndsWith(todo, "reschedule")
      <3>1. todo \in Seq(Later)
        BY <1>4, <2>2, StepsAfter
      <3>2. todo # <<>> /\ UnlockAt(todo, Rest(p))
        BY <1>4, <2>2, PutBefore
      <3>3. p \in Workers => EndsWith(todo, "reschedule")
        BY <1>4, <2>2, PutBefore
      <3>4. QED
        BY <3>1, <3>2, <3>3
    <2> HIDE DEF todo
    <2>5. /\ d.a = a /\ d.snap = new /\ d.pc \notin {"idle", "lock", "refresh", "update"}
          /\ UnlocksLast(d, Rest(p)) /\ (p \in Workers => LastIsReschedule(d))
      BY <1>6, <2>4
    <2> HIDE DEF d
    <2>6. StoredAs(p, a, new, d)
      BY <1>8, <2>1, <2>3 DEF StoredAs, auth
    <2>7. QED
      BY <2>5, <2>6
  <1>9. QED
    BY <1>2, <1>5, <1>7, <1>8 DEF auth

LEMMA StoreRefreshedKeeps ==
    ASSUME RIndInv, NEW p \in Procs, StoreRefreshed(p)
    PROVE  RIndInv'
  <1> DEFINE a == proc[p].a
  <1>1. /\ proc[p].pc = "update" /\ RefreshFrame
        /\ UNCHANGED <<sched, minted, expires, refreshLocks, jobs, spent>>
        /\ reverted' = Reverting(FALSE)
    BY DEF StoreRefreshed, At
  <1>2. MovesQuietly(p) /\ a \in Auths /\ proc[p].snap \in Auth
    BY StoreRefreshedDoes
  <1>3. PICK x, d : /\ StoredAs(p, a, x, d) /\ d.a = a /\ d.snap = x
                    /\ d.pc \notin {"idle", "lock", "refresh", "update"}
                    /\ UnlocksLast(d, Rest(p)) /\ (p \in Workers => LastIsReschedule(d))
    BY StoreRefreshedDoes
  <1>4. /\ x \in Auth /\ x.token = proc[p].snap.token /\ Goto(p, d)
        /\ \/ auths[a] = NoAuth /\ UNCHANGED <<auths, unsaved>>
           \/ /\ auths[a] \in Auth /\ auths' = [auths EXCEPT ![a] = x]
              /\ unsaved' = IF Records(x, now) \subseteq Records(auths[a], now)
                            THEN unsaved ELSE unsaved \cup {a}
    BY <1>3 DEF StoredAs
  <1>5. Ahead(proc[p]) = {"update"} /\ refreshLocks[a] = {p}
    BY <1>1, RParts, NothingAhead DEF LocksInv, Holds
  <1>6. UNCHANGED <<now, cooling, disk, store, suspended, cfgMu, heap, dirty, ops>>
    BY <1>1 DEF RefreshFrame
  <1> HIDE DEF a
  <1>7. IndInv'
    <2>1. CASE UNCHANGED <<auths, unsaved>>
      <3>1. VarType'
        BY <1>1, <1>6, <2>1, RParts DEF VarType
      <3>2. QED
        BY <1>2, <1>6, <2>1, <3>1, RParts, BystanderStep
    <2>2. CASE /\ auths[a] \in Auth /\ auths' = [auths EXCEPT ![a] = x]
               /\ unsaved' = IF Records(x, now) \subseteq Records(auths[a], now)
                             THEN unsaved ELSE unsaved \cup {a}
      <3>1. /\ x \in Entry /\ unsaved \subseteq unsaved' /\ unsaved' \subseteq Auths
            /\ \/ RecordsIf(cooling, x, now) \subseteq RecordsIf(cooling, auths[a], now)
               \/ a \in unsaved'
        BY <1>2, <1>4, <2>2, RParts DEF Entry, Records, VarType
      <3>2. auths' \in [Auths -> Entry] /\ SavedInv'
        BY <1>2, <1>6, <2>2, <3>1, RParts, OneChanges
      <3>3. VarType'
        BY <1>1, <1>6, <3>1, <3>2, RParts DEF VarType
      <3>4. QED
        BY <1>2, <1>6, <3>2, <3>3, RParts, QuietStep
    <2>3. QED
      BY <1>4, <2>1, <2>2
  <1>8. \A b \in Auths : auths'[b] = auths[b] \/ (b = a /\ auths[b] # NoAuth /\ auths'[b] = x)
    BY <1>4, NilAssumption, RParts DEF VarType
  <1>9. \A b \in Auths : /\ auths[b] = NoAuth => auths'[b] = NoAuth
                         /\ Issued(auths'[b], minted)
    BY <1>2, <1>4, <1>8, NilAssumption, RParts DEF TokensIssued, Issued
  <1>10. Issued(d.snap, minted)
    BY <1>2, <1>3, <1>4, NilAssumption, RParts DEF TokensIssued, Issued
  <1>11. /\ proc'[p] = d /\ \A q \in Procs : q # p => proc'[q] = proc[q]
    <2>1. ProcType /\ proc' = [proc EXCEPT ![p] = d]
      BY <1>4, RParts DEF Goto
    <2>2. QED
      BY <2>1, AsideMoves
  <1>12. SpentInv'
    <2>1. ASSUME NEW b \in Auths \ reverted', auths'[b] # NoAuth, <<b, auths'[b].token>> \in spent'
          PROVE  \E q \in Procs : Replacing(q, b)'
      <3>1. b \notin reverted /\ auths[b] # NoAuth /\ auths[b].token = auths'[b].token
        BY <1>1, <2>1 DEF Reverting
      <3>2. PICK q \in Procs : Replacing(q, b)
        BY <1>1, <2>1, <3>1, RParts DEF SpentInv
      <3>3. ASSUME q = p PROVE FALSE
        <4>1. b = a /\ <<b, proc[p].snap.token>> \notin spent
          BY <3>2, <3>3 DEF Replacing, a
        <4>2. auths' = [auths EXCEPT ![a] = x]
          BY <1>4, <3>1, <4>1
        <4>3. auths'[b] = x
          BY <1>2, <4>1, <4>2, RParts DEF VarType
        <4>4. QED
          BY <1>1, <1>4, <2>1, <4>1, <4>3
      <3>4. Replacing(q, b)'
        BY <1>1, <1>11, <3>2, <3>3 DEF Replacing
      <3>5. QED
        BY <3>4
    <2>2. QED
      BY <2>1 DEF SpentInv
  <1>13. /\ expires' \in [1 .. MaxTokens -> Nat] /\ minted <= minted'
         /\ spent' \subseteq Auths \X (1 .. minted') /\ reverted' \subseteq Auths
         /\ jobs' \in Seq(Auths) /\ Len(jobs') <= JobBuffer /\ DOMAIN refreshLocks' = Auths
    BY <1>1, RParts, ConductorAssumption DEF RTypeOK, VarType, Reverting
  <1>14. \A b \in Auths : HasInHand(p, b) => b = a /\ p \in Workers
    BY <1>5 DEF HasInHand, a
  <1>15. Holds(d) => refreshLocks'[d.a] = {p}
    BY <1>1, <1>3, <1>5
  <1>16. \A b \in Auths :
            HasInHand(p, b) \/ ((\E i \in DOMAIN jobs : jobs[i] = b)
                                /\ ~ \E i \in DOMAIN jobs' : jobs'[i] = b)
            => d.a = b /\ ("reschedule" \in Ahead(d) \/ (p \in Workers /\ d.pc # "idle"))
    BY <1>1, <1>3, <1>14
  <1>17. /\ \A b \in Auths : Issued(auths'[b], minted')
         /\ Issued(d.snap, minted') /\ refreshLocks' = refreshLocks
         /\ p \in Workers => /\ d.pc \notin {"idle", "lock", "refresh", "update"}
                                  => LastIsReschedule(d)
                             /\ d.pc = "lock" => d.token = 0
    BY <1>1, <1>3, <1>9, <1>10
  <1>18. QED
    BY <1>1, <1>3, <1>4, <1>7, <1>9, <1>12, <1>13, <1>15, <1>16, <1>17, RefreshKeeps

LEMMA RefreshingStep ==
    ASSUME RIndInv, NEW p \in Procs, Refreshing(p)
    PROVE  RIndInv'
  BY TakeJobKeeps, UnauthorizedKeeps, LockRefreshKeeps, RefreshSucceedsKeeps,
     RefreshIneffectiveKeeps, StoreRefreshedKeeps, RefreshFailsKeeps, RefreshCancelledKeeps,
     UnlockRefreshKeeps DEF Refreshing

-----------------------------------------------------------------------------
(* The invariant and what it gives. *)

LEMMA RInductive ==
    ASSUME RIndInv, [RNext]_allVars
    PROVE  RIndInv'
  <1>1. CASE UNCHANGED allVars
    BY <1>1, RTickStep DEF allVars
  <1>2. CASE Tick /\ UNCHANGED refreshVars
    BY <1>2, RTickStep
  <1>3. CASE Loop
    BY <1>3, LoopStep
  <1>4. ASSUME NEW p \in Procs, Refreshing(p) \/ RStep(p)
        PROVE  RIndInv'
    BY <1>4, RefreshingStep, BesideStep
  <1>5. ASSUME NEW p \in Procs \ Workers,
               ROperation(p) \/ RRestart(p) \/ \E o \in Outcomes : Report(p, o)
        PROVE  RIndInv'
    BY <1>5, BesideStep, RRestartStep
  <1>6. QED
    BY <1>1, <1>2, <1>3, <1>4, <1>5 DEF RNext

LEMMA RInitInv == RInit => RIndInv
  <1> SUFFICES ASSUME RInit PROVE RIndInv
    OBVIOUS
  <1>1. IndInv
    BY InitInv DEF RInit
  <1>2. /\ minted = 1 /\ dirty = Auths /\ auths = [a \in Auths |-> Fresh([disabled |-> FALSE, token |-> 1])]
        /\ disk = [a \in Auths |-> File(auths[a])] /\ proc = [p \in Procs |-> Idle]
        /\ expires = [k \in 1 .. MaxTokens |-> IF k = 1 THEN FirstDue ELSE 0]
        /\ refreshLocks = [a \in Auths |-> {}] /\ jobs = <<>> /\ loop = Waiting
        /\ dropped = {} /\ spent = {} /\ reverted = {}
    BY DEF RInit, Init
  <1>3. LoopType
    BY <1>2, WaitingIs DEF LoopType
  <1>4. jobs \in Seq(Auths) /\ Len(jobs) <= JobBuffer
    BY <1>2, RefreshAssumption
  <1>5. RTypeOK
    BY <1>2, <1>3, <1>4, RefreshAssumption DEF RTypeOK
  <1>6. TokensIssued
    <2>1. \A a \in Auths : auths[a].token = 1 /\ disk[a].token = 1
      BY <1>2 DEF Fresh, File
    <2>2. QED
      BY <1>2, <2>1, IdleIs DEF TokensIssued, Issued
  <1>7. LocksInv
    BY <1>2, IdleIs DEF LocksInv, Holds
  <1>8. UnlocksInv /\ WorkersInv
    <2>1. \A p \in Procs : proc[p].pc = "idle" /\ proc[p].todo = <<>> /\ DOMAIN <<>> = {}
      BY <1>2, IdleIs
    <2>2. QED
      BY <2>1, RefreshAssumption DEF UnlocksInv, UnlocksLast, WorkersInv
  <1>9. ScheduledInv
    BY <1>2, InHandIs DEF ScheduledInv
  <1>10. SpentInv
    BY <1>2 DEF SpentInv
  <1>11. QED
    BY <1>1, <1>5, <1>6, <1>7, <1>8, <1>9, <1>10 DEF RIndInv

(* The invariant of the refreshes, with the conductor's. *)
THEOREM RInvariance == RSpec => []RIndInv
  <1>1. RInit => RIndInv
    BY RInitInv
  <1>2. RIndInv /\ [RNext]_allVars => RIndInv'
    BY RInductive
  <1>3. QED
    BY <1>1, <1>2, PTL DEF RSpec

(* Every variable of the refreshes has its type: a credential's lock has   *)
(* one holder, the job queue its capacity, and no token that was not       *)
(* issued is spent.                                                        *)
THEOREM RefreshTypes == RSpec => []RTypeOK
  <1>1. RIndInv => RTypeOK
    BY RParts
  <1>2. QED
    BY <1>1, RInvariance, PTL

(* The refresh loop loses no credential (queueReschedule, applyDirty,      *)
(* popDue, handleDueAuth and the workers of auto_refresh_loop.go): one     *)
(* that can be refreshed is in the heap or on its way there, unless the    *)
(* loop has taken it off.                                                  *)
THEOREM NoneUnscheduled == RSpec => []RefreshScheduled
  <1>1. RIndInv => RefreshScheduled
    BY RParts DEF ScheduledInv, RefreshScheduled, NextRefreshCheckAt
  <1>2. QED
    BY <1>1, RInvariance, PTL

(* Who refreshes moves no goroutine but itself. *)
LEMMA RefreshGoes ==
    ASSUME RIndInv, NEW p \in Procs, Refreshing(p)
    PROVE  \E d : Goto(p, d)
  <1>1. CASE StoreRefreshed(p)
    BY <1>1, StoreRefreshedDoes DEF StoredAs
  <1>2. CASE TakeJob(p)
    BY <1>2 DEF TakeJob
  <1>3. CASE Unauthorized(p)
    BY <1>3 DEF Unauthorized
  <1>4. CASE LockRefresh(p)
    BY <1>4 DEF LockRefresh
  <1>5. CASE RefreshSucceeds(p)
    BY <1>5 DEF RefreshSucceeds
  <1>6. CASE RefreshIneffective(p)
    BY <1>6 DEF RefreshIneffective
  <1>7. ASSUME NEW err \in {"unauthorized", "other"}, RefreshFails(p, err)
        PROVE  \E d : Goto(p, d)
    BY <1>7 DEF RefreshFails
  <1>8. CASE RefreshCancelled(p)
    BY <1>8 DEF RefreshCancelled
  <1>9. CASE UnlockRefresh(p)
    BY <1>9 DEF UnlockRefresh
  <1>10. QED
    BY <1>1, <1>2, <1>3, <1>4, <1>5, <1>6, <1>7, <1>8, <1>9 DEF Refreshing

(* Only the lock of a credential leads to the provider. *)
LEMMA AskedUnderLock ==
    ASSUME RIndInv, [RNext]_allVars, NEW p \in Procs, At(p, "lock"), proc'[p].pc = "refresh"
    PROVE  LET a == proc[p].a IN
           /\ refreshLocks[a] = {} /\ auths[a] # NoAuth /\ proc'[p].snap = auths[a]
           /\ a \in Auths
  <1> DEFINE a == proc[p].a
             auth == auths[a]
  <1>1. proc[p].pc = "lock" /\ proc'[p].pc = "refresh" /\ proc'[p] # proc[p] /\ proc[p].pc # "refresh"
    BY DEF At
  <1>2. a \in Auths /\ proc[p].todo = <<>> /\ Ahead(proc[p]) = {"lock"}
    BY <1>1, RParts, NothingAhead DEF HandsInv, Equipped
  <1>3. \A q \in Procs : \A d :
            Goto(q, d) => IF q = p THEN proc'[p] = d ELSE proc'[p] = proc[p]
    BY RParts DEF Goto, ProcType
  <1>4. ~ UNCHANGED proc
    BY <1>1
  <1>5. ~ UNCHANGED allVars /\ ~ Tick
    BY <1>4 DEF allVars, vars, Tick
  <1>6. ~ Loop
    BY <1>4 DEF Loop, WakeUp, EndDirty, PopDue, MarkRefreshPending, LookAgain, Put, SendJob,
                EndDue, ApplyDirty, HandleDueAuth, LoopFrame
  <1>7. ASSUME NEW q \in Procs,
               \/ RStep(q)
               \/ q \notin Workers /\ (ROperation(q) \/ \E o \in Outcomes : Report(q, o))
        PROVE  FALSE
    <2>1. PICK d : Leaves(q, d)
      BY <1>7, BesideLeaves
    <2>2. q # p /\ Goto(q, d)
      BY <1>1, <2>1 DEF Leaves, Aside, Goto
    <2>3. QED
      BY <1>1, <1>3, <2>2
  <1>8. ASSUME NEW q \in Procs, RRestart(q) PROVE FALSE
    <2>1. proc'[p] \in {Idle, [Idle EXCEPT !.pc = "persist"]}
      BY <1>8 DEF RRestart, Restart
    <2>2. QED
      BY <1>1, <2>1 DEF Idle
  <1>9. ASSUME NEW q \in Procs, Refreshing(q)
        PROVE  LockRefresh(p)
    <2>1. q = p
      BY <1>1, <1>3, <1>9, RefreshGoes
    <2>2. QED
      BY <1>1, <1>9, <2>1 DEF Refreshing, TakeJob, Unauthorized, RefreshSucceeds,
         RefreshIneffective, StoreRefreshed, RefreshFails, RefreshCancelled, UnlockRefresh, At
  <1>10. LockRefresh(p)
    BY <1>5, <1>6, <1>7, <1>8, <1>9 DEF RNext
  <1>11. ASSUME NEW d, Goto(p, d) PROVE d.pc = "refresh" /\ proc'[p] = d
    BY <1>1, <1>3, <1>11
  <1>12. auth # NoAuth
    <2>1. SUFFICES ASSUME auth = NoAuth PROVE FALSE
      OBVIOUS
    <2> DEFINE todo == <<"reschedule">>
               d == Doing(p, a, {}, NoAuth, todo)
    <2>2. Goto(p, d) \/ Goto(p, Rejected(p))
      BY <1>10, <2>1 DEF LockRefresh
    <2>3. Rejected(p).pc = "rejected"
      BY DEF Rejected, Idle
    <2>4. d.pc # "refresh"
      <3>1. todo \in Seq(Later)
        BY DEF Later
      <3> HIDE DEF todo
      <3>2. QED
        BY <3>1, DoingPlain
    <2> HIDE DEF d
    <2>5. QED
      BY <1>11, <2>2, <2>3, <2>4
  <1>13. \/ Goto(p, Retried(p, auth))
         \/ Goto(p, [proc[p] EXCEPT !.pc = "refresh", !.snap = auth])
    BY <1>10, <1>12 DEF LockRefresh
  <1>14. Retried(p, auth).pc = "exec"
    BY DEF Retried, Idle
  <1>15. Goto(p, [proc[p] EXCEPT !.pc = "refresh", !.snap = auth])
    BY <1>11, <1>13, <1>14
  <1>16. proc'[p] = [proc[p] EXCEPT !.pc = "refresh", !.snap = auth]
    BY <1>11, <1>15
  <1>17. "snap" \in DOMAIN proc[p]
    BY RParts DEF ProcType, Goroutine, Idle
  <1>18. QED
    BY <1>2, <1>10, <1>12, <1>16, <1>17 DEF LockRefresh

(* refreshAuthForRequest never sends the provider a token that a refresh   *)
(* has replaced: it reads the credential under its lock, and whoever       *)
(* replaced the token stored the new one before it unlocked.               *)
THEOREM TokensUsedOnce == RSpec => RefreshTokenUsedOnce
  <1>1. ASSUME RIndInv, [RNext]_allVars, NEW p \in Procs, At(p, "lock"), proc'[p].pc = "refresh"
        PROVE  \/ <<proc[p].a, proc'[p].snap.token>> \notin spent
               \/ proc[p].a \in reverted
    <2> DEFINE a == proc[p].a
    <2>1. /\ refreshLocks[a] = {} /\ auths[a] # NoAuth /\ proc'[p].snap = auths[a]
          /\ a \in Auths
      BY <1>1, AskedUnderLock
    <2>2. SUFFICES ASSUME <<a, auths[a].token>> \in spent, a \notin reverted PROVE FALSE
      BY <2>1
    <2>3. PICK q \in Procs : Replacing(q, a)
      BY <1>1, <2>1, <2>2, RParts DEF SpentInv
    <2>4. refreshLocks[a] = {q}
      BY <1>1, <2>3, RParts DEF Replacing, LocksInv, Holds
    <2>5. QED
      BY <2>1, <2>4
  <1>2. RIndInv /\ [RNext]_allVars =>
           [\A p \in Procs : At(p, "lock") /\ proc'[p].pc = "refresh"
               => \/ <<proc[p].a, proc'[p].snap.token>> \notin spent
                  \/ proc[p].a \in reverted]_allVars
    BY <1>1
  <1>3. QED
    BY <1>2, RInvariance, PTL DEF RSpec, RefreshTokenUsedOnce

(* persistCooldownStates beside the refreshes: a refresh clears the error  *)
(* states of a credential and may have its own to keep, and still no       *)
(* cooldown in force is missing from the store once the saves are done.    *)
THEOREM SavesCompleteHere == RSpec => []CooldownsAreSaved
  <1>1. RIndInv => CooldownsAreSaved
    BY RParts, SavedWhenDone
  <1>2. QED
    BY <1>1, RInvariance, PTL

LEMMA RefreshAddsNone ==
    ASSUME RIndInv, NEW a \in Auths, auths[a] = NoAuth, auths'[a] # NoAuth,
           NEW p \in Procs, Refreshing(p)
    PROVE  FALSE
  <1>1. DOMAIN auths = Auths /\ auths # auths'
    BY RParts DEF VarType
  <1>2. CASE StoreRefreshed(p)
    <2>1. PICK x, d : StoredAs(p, proc[p].a, x, d)
      BY <1>2, StoreRefreshedDoes
    <2>2. /\ auths[proc[p].a] \in Auth /\ auths' = [auths EXCEPT ![proc[p].a] = x]
      BY <1>1, <2>1 DEF StoredAs
    <2>3. proc[p].a # a
      BY <2>2, NilAssumption
    <2>4. QED
      BY <1>1, <2>2, <2>3
  <1>3. ASSUME NEW err \in {"unauthorized", "other"}, RefreshFails(p, err) PROVE FALSE
    <2>1. auths[proc[p].a] # NoAuth /\ \E x : auths' = [auths EXCEPT ![proc[p].a] = x]
      BY <1>1, <1>3 DEF RefreshFails
    <2>2. QED
      BY <1>1, <2>1
  <1>4. QED
    BY <1>1, <1>2, <1>3 DEF Refreshing, TakeJob, Unauthorized, LockRefresh, RefreshSucceeds,
       RefreshIneffective, RefreshCancelled, UnlockRefresh

LEMMA LoopAddsNone ==
    ASSUME RIndInv, NEW a \in Auths, auths[a] = NoAuth, auths'[a] # NoAuth, Loop
    PROVE  FALSE
  <1>1. DOMAIN auths = Auths /\ auths # auths'
    BY RParts DEF VarType
  <1>2. CASE MarkRefreshPending
    <2>1. auths[loop.a] # NoAuth /\ \E x : auths' = [auths EXCEPT ![loop.a] = x]
      BY <1>1, <1>2 DEF MarkRefreshPending
    <2>2. QED
      BY <1>1, <2>1
  <1>3. QED
    BY <1>1, <1>2 DEF Loop, WakeUp, EndDirty, PopDue, LookAgain, Put, SendJob, EndDue,
       ApplyDirty, HandleDueAuth

(* Manager.Remove is final beside the refreshes as well: neither the clone *)
(* a refresh stores nor what it records of a failure brings a removed      *)
(* credential back.                                                        *)
THEOREM RemovalIsFinalHere == RSpec => RemovedStaysRemoved
  <1>1. ASSUME RIndInv, [RNext]_allVars, NEW a \in Auths, auths[a] = NoAuth, auths'[a] # NoAuth
        PROVE  minted' > minted \/ \E p \in Procs : Restart(p)
    <2>1. CASE \/ UNCHANGED allVars \/ Tick
               \/ \E p \in Procs : RStep(p)
               \/ \E p \in Procs \ Workers :
                     ROperation(p) \/ RRestart(p) \/ \E o \in Outcomes : Report(p, o)
      <3>1. Next \/ UNCHANGED vars
        BY <2>1 DEF Next, Operation, RStep, ROperation, Report, RRestart, allVars
      <3>2. QED
        BY <1>1, <3>1, OnlyLoginsAdd, RParts
    <2>2. CASE Loop
      BY <1>1, <2>2, LoopAddsNone
    <2>3. ASSUME NEW p \in Procs, Refreshing(p) PROVE FALSE
      BY <1>1, <2>3, RefreshAddsNone
    <2>4. QED
      BY <1>1, <2>1, <2>2, <2>3 DEF RNext
  <1>2. RIndInv /\ [RNext]_allVars
          => [\A a \in Auths : auths[a] = NoAuth /\ auths'[a] # NoAuth
                => minted' > minted \/ \E p \in Procs : Restart(p)]_vars
    BY <1>1
  <1>3. QED
    BY <1>2, RInvariance, PTL DEF RSpec, RemovedStaysRemoved

(* RestoreCooldownStates beside the refreshes: what a start reads back is  *)
(* what was in force, for the credentials that refresh as for the others.  *)
THEOREM CooldownsSurviveHere == RSpec => RestartKeepsCooldowns
  <1>1. RIndInv /\ [RNext]_allVars
          => [(\E p \in Procs : Restart(p)) /\ ~SavePending =>
                \A a \in Auths \ unsaved :
                   auths[a] # NoAuth /\ auths'[a] # NoAuth /\ disk[a] = File(auths[a])
                   => Records(auths[a], now) \subseteq Records(auths'[a], now)]_vars
    BY RParts, RestartRestores
  <1>2. QED
    BY <1>1, RInvariance, PTL DEF RSpec, RestartKeepsCooldowns
=============================================================================
