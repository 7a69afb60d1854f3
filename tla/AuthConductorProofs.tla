----------------------- MODULE AuthConductorProofs -----------------------
(***************************************************************************)
(* Proofs about AuthConductor, for every set of credentials, models,       *)
(* goroutines and outcomes and every bound.  First the operators (powers   *)
(* of two, failures, aggregation, clearing, records, restoring), then what *)
(* each action does with its goroutine, then the parts of IndInv action by *)
(* action, and at the end the backoff ladder with EarnedInv.               *)
(***************************************************************************)
EXTENDS AuthConductor, WellFoundedInduction, FiniteSetTheorems, TLAPS

-----------------------------------------------------------------------------
(* Numbers: least elements, induction, and the powers of two that the      *)
(* backoff ladder is made of.                                              *)

(* A set of natural numbers has a least one. *)
LEMMA Least ==
    ASSUME NEW T, T \subseteq Nat, T # {}
    PROVE  \E n \in T : \A m \in T : n <= m
  <1> DEFINE R == OpToRel(<, Nat)
  <1>1. IsWellFoundedOn(R, Nat)
    BY NatLessThanWellFounded
  <1>2. \A x, y \in Nat : x < y => <<x, y>> \in R
    BY DEF OpToRel
  <1> HIDE DEF R
  <1>3. PICK n \in T : \A m \in T : ~ (<<m, n>> \in R)
    BY <1>1, WFMin
  <1>4. n \in Nat
    BY <1>3
  <1>5. ASSUME NEW m \in T PROVE n <= m
    <2>1. m \in Nat
      OBVIOUS
    <2>2. ~ (m < n)
      BY <1>2, <1>3, <1>4, <2>1
    <2>3. QED
      BY <1>4, <2>1, <2>2
  <1>6. QED
    BY <1>3, <1>5

(* Induction, for sets. *)
LEMMA Induction ==
    ASSUME NEW S \in SUBSET Nat, 0 \in S, \A n \in S : n + 1 \in S
    PROVE  S = Nat
  <1> SUFFICES ASSUME S # Nat PROVE FALSE
    OBVIOUS
  <1> DEFINE T == Nat \ S
  <1>1. T \subseteq Nat /\ T # {}
    OBVIOUS
  <1>2. PICK n \in T : \A m \in T : n <= m
    BY <1>1, Least
  <1>3. n # 0 /\ n - 1 \in Nat /\ n - 1 \notin T
    BY <1>2
  <1>4. QED
    BY <1>2, <1>3

(* The least and the greatest element that Min and Max choose. *)
LEMMA MinIn ==
    ASSUME NEW T, T \subseteq Nat, T # {}
    PROVE  Min(T) \in T
  BY Least DEF Min

LEMMA MaxIn ==
    ASSUME NEW N \in Nat, NEW T, T \subseteq 0 .. N, T # {}
    PROVE  Max(T) \in T
  <1> DEFINE D == {N - x : x \in T}
  <1>1. D \subseteq Nat /\ D # {}
    <2>1. \A x \in T : x \in 0 .. N /\ N - x \in Nat
      OBVIOUS
    <2>2. QED
      BY <2>1
  <1>2. PICK d \in D : \A e \in D : d <= e
    BY <1>1, Least
  <1>3. PICK x \in T : d = N - x
    BY <1>2
  <1>4. ASSUME NEW y \in T PROVE x >= y
    <2>1. N - x <= N - y
      BY <1>2, <1>3
    <2>2. QED
      BY <1>3, <2>1
  <1>5. QED
    BY <1>3, <1>4 DEF Max

(* A table of the powers of two up to 2^n; there is one for every n, and   *)
(* two of them agree.                                                      *)
Table(g, n) ==
    /\ g \in [0 .. n -> Nat] /\ g[0] = 1
    /\ \A i \in 1 .. n : g[i] = 2 * g[i - 1]

LEMMA TableExists == \A n \in Nat : \E g : Table(g, n)
  <1> DEFINE S == {n \in Nat : \E g : Table(g, n)}
  <1>1. 0 \in S
    <2>1. Table([i \in 0 .. 0 |-> 1], 0)
      BY DEF Table
    <2>2. QED
      BY <2>1
  <1>2. ASSUME NEW n \in S PROVE n + 1 \in S
    <2>1. PICK g : Table(g, n)
      OBVIOUS
    <2> DEFINE h == [i \in 0 .. (n + 1) |-> IF i = n + 1 THEN 2 * g[n] ELSE g[i]]
    <2>2. n \in Nat /\ g \in [0 .. n -> Nat]
      BY <2>1 DEF Table
    <2>3. h \in [0 .. (n + 1) -> Nat] /\ h[0] = 1
      BY <2>1, <2>2 DEF Table
    <2>4. ASSUME NEW i \in 1 .. (n + 1) PROVE h[i] = 2 * h[i - 1]
      <3>1. i - 1 \in 0 .. n /\ h[i - 1] = g[i - 1]
        BY <2>2
      <3>2. CASE i = n + 1
        BY <2>2, <3>1, <3>2
      <3>3. CASE i \in 1 .. n
        BY <2>1, <2>2, <3>1, <3>3 DEF Table
      <3>4. QED
        BY <2>2, <3>2, <3>3
    <2> HIDE DEF h
    <2>5. Table(h, n + 1)
      BY <2>2, <2>3, <2>4 DEF Table
    <2>6. QED
      BY <2>2, <2>5
  <1> HIDE DEF S
  <1>3. S = Nat
    <2>1. S \in SUBSET Nat
      BY DEF S
    <2>2. QED
      BY <1>1, <1>2, <2>1, Induction
  <1>4. QED
    BY <1>3 DEF S

LEMMA TablesAgree ==
    ASSUME NEW n \in Nat, NEW m \in Nat, NEW g, NEW h, Table(g, n), Table(h, m)
    PROVE  \A i \in Nat : i <= n /\ i <= m => g[i] = h[i]
  <1> DEFINE S == {i \in Nat : i <= n /\ i <= m => g[i] = h[i]}
  <1>1. 0 \in S
    BY DEF Table
  <1>2. ASSUME NEW i \in S PROVE i + 1 \in S
    BY DEF Table
  <1> HIDE DEF S
  <1>3. S = Nat
    <2>1. S \in SUBSET Nat
      BY DEF S
    <2>2. QED
      BY <1>1, <1>2, <2>1, Induction
  <1>4. QED
    BY <1>3 DEF S

(* What the recursive definition of Pow2 says. *)
LEMMA Pow2Def ==
    /\ Pow2[0] = 1
    /\ \A n \in Nat : Pow2[n] \in Nat /\ Pow2[n + 1] = 2 * Pow2[n]
  <1> DEFINE G(n) == CHOOSE g : Table(g, n)
             F == [n \in Nat |-> G(n)[n]]
             Solves(f) == f = [n \in Nat |-> IF n = 0 THEN 1 ELSE 2 * f[n - 1]]
  <1>1. ASSUME NEW n \in Nat PROVE Table(G(n), n)
    BY TableExists
  <1>2. F[0] = 1
    BY <1>1 DEF Table
  <1>3. ASSUME NEW n \in Nat PROVE F[n] \in Nat /\ F[n + 1] = 2 * F[n]
    <2> HIDE DEF G
    <2>1. Table(G(n), n) /\ Table(G(n + 1), n + 1)
      BY <1>1
    <2>2. G(n)[n] = G(n + 1)[n]
      <3>1. n + 1 \in Nat /\ n <= n /\ n <= n + 1
        OBVIOUS
      <3>2. QED
        BY <2>1, <3>1, TablesAgree
    <2>3. G(n + 1)[n + 1] = 2 * G(n + 1)[n] /\ G(n)[n] \in Nat
      BY <2>1 DEF Table
    <2>4. QED
      BY <2>2, <2>3
  <1>4. Solves(F)
    <2> HIDE DEF G
    <2>1. ASSUME NEW n \in Nat PROVE F[n] = IF n = 0 THEN 1 ELSE 2 * F[n - 1]
      <3>1. CASE n = 0
        BY <1>2, <3>1
      <3>2. CASE n # 0
        <4>1. n - 1 \in Nat /\ (n - 1) + 1 = n
          BY <3>2
        <4>2. F[n] = 2 * F[n - 1]
          BY <1>3, <4>1
        <4>3. QED
          BY <3>2, <4>2
      <3>3. QED
        BY <3>1, <3>2
    <2>2. F = [n \in Nat |-> F[n]]
      OBVIOUS
    <2> HIDE DEF F
    <2>3. QED
      BY <2>1, <2>2
  <1>5. Pow2 = CHOOSE f : Solves(f)
    BY DEF Pow2
  <1> HIDE DEF F
  <1>6. Solves(Pow2)
    <2> HIDE DEF Solves
    <2>1. QED
      BY <1>4, <1>5
  <1>7. \A n \in Nat : Pow2[n] = IF n = 0 THEN 1 ELSE 2 * Pow2[n - 1]
    BY <1>6
  <1>8. Pow2[0] = 1
    BY <1>7
  <1>9. ASSUME NEW n \in Nat PROVE Pow2[n + 1] = 2 * Pow2[n]
    <2>1. n + 1 \in Nat /\ n + 1 # 0 /\ (n + 1) - 1 = n
      OBVIOUS
    <2>2. QED
      BY <1>7, <2>1
  <1> DEFINE S == {n \in Nat : Pow2[n] \in Nat}
  <1>10. 0 \in S
    BY <1>8
  <1>11. ASSUME NEW n \in S PROVE n + 1 \in S
    BY <1>9
  <1> HIDE DEF S
  <1>12. S = Nat
    <2>1. S \in SUBSET Nat
      BY DEF S
    <2>2. QED
      BY <1>10, <1>11, <2>1, Induction
  <1>13. QED
    BY <1>8, <1>9, <1>12 DEF S

(* A power of two exceeds its exponent. *)
LEMMA Pow2Grows == \A n \in Nat : Pow2[n] >= n + 1
  <1> DEFINE S == {n \in Nat : Pow2[n] >= n + 1}
  <1>1. 0 \in S
    BY Pow2Def
  <1>2. ASSUME NEW n \in S PROVE n + 1 \in S
    <2> DEFINE x == Pow2[n]
    <2>1. n \in Nat /\ x \in Nat /\ x >= n + 1 /\ Pow2[n + 1] = 2 * x
      BY Pow2Def
    <2> HIDE DEF x
    <2>2. 2 * x >= (n + 1) + 1
      BY <2>1
    <2>3. QED
      BY <2>1, <2>2
  <1> HIDE DEF S
  <1>3. S = Nat
    <2>1. S \in SUBSET Nat
      BY DEF S
    <2>2. QED
      BY <1>1, <1>2, <2>1, Induction
  <1>4. QED
    BY <1>3 DEF S

-----------------------------------------------------------------------------
(* Availability: what each of the operators makes of a state or of a       *)
(* credential.                                                             *)

LEMMA Deadlines ==
    ASSUME NEW t \in 1 .. MaxTime
    PROVE  /\ 0 \in Times /\ t + LongCooldown \in Times
           /\ t + TransientCooldown \in Times /\ t + RetryAfter \in Times
           /\ t + ChallengeCooldown \in Times
           /\ \A c \in 0 .. QuotaBackoffMax : t + c \in Times
  BY ConductorAssumption DEF Times

LEMMA CleanType == Clean \in State
  BY ConductorAssumption DEF Clean, State, Times

(* The next window of the ladder: its length and the level after it. *)
LEMMA LadderType ==
    ASSUME NEW level \in 0 .. (QuotaBackoffMax - 1)
    PROVE  /\ NextQuotaCooldown(level)[1] \in 0 .. QuotaBackoffMax
           /\ NextQuotaCooldown(level)[2] \in 0 .. (QuotaBackoffMax - 1)
  <1> DEFINE x == Pow2[level]
  <1>1. level \in Nat /\ QuotaBackoffMax \in Nat
    BY ConductorAssumption
  <1>2. x \in Nat /\ x >= level + 1
    BY <1>1, Pow2Def, Pow2Grows
  <1>3. NextQuotaCooldown(level) = IF x >= QuotaBackoffMax THEN <<QuotaBackoffMax, level>>
                                                           ELSE <<x, level + 1>>
    BY DEF NextQuotaCooldown
  <1> HIDE DEF x
  <1>4. CASE x >= QuotaBackoffMax
    BY <1>1, <1>3, <1>4
  <1>5. CASE ~ (x >= QuotaBackoffMax)
    <2>1. x \in 0 .. QuotaBackoffMax /\ level + 1 \in 0 .. (QuotaBackoffMax - 1)
      BY <1>1, <1>2, <1>5
    <2>2. QED
      BY <1>3, <1>5, <2>1
  <1>6. QED
    BY <1>4, <1>5

LEMMA WindowType ==
    ASSUME NEW st \in State, NEW t \in 1 .. MaxTime
    PROVE  /\ QuotaCooldownAfterFailure(st, t)[1] \in Times
           /\ QuotaCooldownAfterFailure(st, t)[2] \in 0 .. (QuotaBackoffMax - 1)
  <1>1. st.recover \in Times /\ st.level \in 0 .. (QuotaBackoffMax - 1)
    BY DEF State
  <1> DEFINE c == NextQuotaCooldown(st.level)
  <1>2. c[1] \in 0 .. QuotaBackoffMax /\ c[2] \in 0 .. (QuotaBackoffMax - 1)
    BY <1>1, LadderType
  <1>3. QuotaCooldownAfterFailure(st, t) =
            IF st.recover > t THEN <<st.recover, st.level>> ELSE <<t + c[1], c[2]>>
    BY DEF QuotaCooldownAfterFailure
  <1> HIDE DEF c
  <1>4. QED
    BY <1>1, <1>2, <1>3, Deadlines

LEMMA ChallengeType ==
    ASSUME NEW level \in 0 .. (QuotaBackoffMax - 1), NEW t \in 1 .. MaxTime
    PROVE  /\ NextCloudflareCooldown(level, t)[1] \in Times
           /\ NextCloudflareCooldown(level, t)[2] \in 0 .. (QuotaBackoffMax - 1)
  <1> DEFINE c == NextQuotaCooldown(level)
  <1>1. c[1] \in 0 .. QuotaBackoffMax /\ c[2] \in 0 .. (QuotaBackoffMax - 1)
    BY LadderType
  <1>2. NextCloudflareCooldown(level, t) =
            <<t + (IF c[1] < ChallengeCooldown THEN ChallengeCooldown ELSE c[1]), c[2]>>
    BY DEF NextCloudflareCooldown
  <1> HIDE DEF c
  <1>3. QED
    BY <1>1, <1>2, Deadlines

LEMMA FailedType ==
    ASSUME NEW st \in State, NEW o, NEW t \in 1 .. MaxTime, cooling \in BOOLEAN
    PROVE  Failed(st, o, t) \in State
  <1> DEFINE err == IF o = "unauthorized" THEN "unauthorized" ELSE "other"
             fixed(until) == [st EXCEPT !.unavail = TRUE, !.retry = until, !.err = err]
             over(next, level, skipped) ==
                 [unavail |-> TRUE, retry |-> next, exceeded |-> TRUE,
                  recover |-> next, level |-> level, skips |-> st.skips + skipped,
                  err |-> err]
             quota(w, skipped) == over(w[1], w[2], skipped)
             wait == cooling /\ TransientCooldown > 0
             window == QuotaCooldownAfterFailure(st, t)
             challenge == NextCloudflareCooldown(st.level, t)
             after ==
                 CASE o = "unsupported" -> fixed(t + LongCooldown)
                   [] o \in {"unauthorized", "denied"} ->
                          fixed(IF cooling THEN t + LongCooldown ELSE 0)
                   [] o \in {"challenge", "quota", "retry_after"} /\ ~cooling ->
                          quota(<<0, st.level>>, 0)
                   [] o = "challenge" /\ cooling -> quota(challenge, 1)
                   [] o = "quota" /\ cooling -> quota(window, 0)
                   [] o = "retry_after" /\ cooling -> quota(<<t + RetryAfter, st.level>>, 1)
                   [] OTHER -> [fixed(IF wait THEN t + TransientCooldown ELSE 0)
                                   EXCEPT !.unavail = wait]
  <1>1. Failed(st, o, t) = IF ~cooling /\ after.retry = 0 /\ after.recover = 0
                           THEN [after EXCEPT !.unavail = FALSE, !.exceeded = FALSE]
                           ELSE after
    BY DEF Failed
  <1>2. window[1] \in Times /\ window[2] \in 0 .. (QuotaBackoffMax - 1)
    BY WindowType
  <1>3. err \in {"none", "unauthorized", "other"}
    OBVIOUS
  <1>4. st.level \in 0 .. (QuotaBackoffMax - 1) /\ st.skips \in Nat
    BY DEF State
  <1>5. challenge[1] \in Times /\ challenge[2] \in 0 .. (QuotaBackoffMax - 1)
    BY <1>4, ChallengeType
  <1> HIDE DEF window, challenge, err
  <1>6. \A u \in Times : fixed(u) \in State
    BY <1>3 DEF State
  <1>7. \A u \in Times, l \in 0 .. (QuotaBackoffMax - 1), k \in {0, 1} : over(u, l, k) \in State
    BY <1>3, <1>4 DEF State
  <1>8. wait \in BOOLEAN
    OBVIOUS
  <1> HIDE DEF wait
  <1>9. \A s \in State, b \in BOOLEAN : [s EXCEPT !.unavail = b] \in State
    BY DEF State
  <1>10. quota(<<0, st.level>>, 0) \in State /\ quota(<<t + RetryAfter, st.level>>, 1) \in State
    <2>1. /\ quota(<<0, st.level>>, 0) = over(0, st.level, 0)
          /\ quota(<<t + RetryAfter, st.level>>, 1) = over(t + RetryAfter, st.level, 1)
      OBVIOUS
    <2> HIDE DEF quota, over
    <2>2. QED
      BY <1>4, <1>7, <2>1, Deadlines
  <1>11. quota(challenge, 1) \in State /\ quota(window, 0) \in State
    <2> HIDE DEF over
    <2>1. QED
      BY <1>2, <1>5, <1>7
  <1> HIDE DEF fixed, quota
  <1>12. after \in State
    <2>1. \A u \in Times : [fixed(u) EXCEPT !.unavail = wait] \in State
      BY <1>6, <1>8, <1>9
    <2>2. QED
      BY <1>6, <1>10, <1>11, <2>1, Deadlines
  <1> HIDE DEF after
  <1>13. [after EXCEPT !.unavail = FALSE, !.exceeded = FALSE] \in State
    BY <1>12 DEF State
  <1>14. QED
    BY <1>1, <1>12, <1>13

LEMMA EarliestType ==
    ASSUME NEW T, T \subseteq Times
    PROVE  Earliest(T) \in Times
  <1>1. Times \subseteq Nat /\ 0 \in Times
    BY ConductorAssumption DEF Times
  <1>2. CASE T \ {0} = {}
    BY <1>1, <1>2 DEF Earliest
  <1>3. CASE T \ {0} # {}
    <2>1. Min(T \ {0}) \in T
      BY <1>1, <1>3, MinIn
    <2>2. QED
      BY <1>3, <2>1 DEF Earliest
  <1>4. QED
    BY <1>2, <1>3

(* updateAggregatedAvailability touches the deadline of a model only where *)
(* it has passed.                                                          *)
LEMMA AggregatedDoes ==
    ASSUME NEW auth \in Auth, NEW t \in Nat
    PROVE  LET g == Aggregated(auth, t) IN
           /\ g \in Auth /\ g.disabled = auth.disabled /\ g.token = auth.token
           /\ \A m \in Models :
                 /\ g.models[m] # NoState =>
                       /\ auth.models[m] # NoState
                       /\ g.models[m].level = auth.models[m].level
                       /\ g.models[m].skips = auth.models[m].skips
                       /\ g.models[m].recover = auth.models[m].recover
                       /\ g.models[m].unavail => auth.models[m].unavail
                 /\ Cools(auth.models[m], t) => g.models[m] = auth.models[m]
           /\ g.top.unavail => \E m \in Models : auth.models[m] # NoState
                                                 /\ auth.models[m].unavail
  <1> DEFINE settle(st) == IF st # NoState /\ st.unavail /\ st.retry # 0 /\ st.retry <= t
                           THEN [st EXCEPT !.unavail = FALSE, !.retry = 0] ELSE st
             ms   == [m \in Models |-> settle(auth.models[m])]
             own  == {ms[m] : m \in {n \in Models : ms[n] # NoState}}
             down == own # {} /\ \A st \in own : st.unavail /\ st.retry > t
             over == {st \in own : st.exceeded}
             top == [unavail  |-> down,
                     retry    |-> IF down THEN Earliest({st.retry : st \in own}) ELSE 0,
                     exceeded |-> over # {},
                     recover  |-> Earliest({st.recover : st \in over}),
                     level    |-> IF over = {} THEN 0 ELSE Max({st.level : st \in over}),
                     skips    |-> 0,
                     err      |-> auth.top.err]
             g == Aggregated(auth, t)
  <1>1. g = [auth EXCEPT !.models = ms, !.top = top]
    BY DEF Aggregated
  <1>2. 0 \in Times /\ Times \subseteq Nat /\ 0 \in 0 .. (QuotaBackoffMax - 1)
        /\ QuotaBackoffMax - 1 \in Nat
    BY ConductorAssumption DEF Times
  <1>3. auth.models \in [Models -> State \cup {NoState}] /\ auth.top \in State
    BY DEF Auth
  <1>4. ASSUME NEW st \in State
        PROVE  /\ settle(st) \in State /\ settle(st).level = st.level
               /\ settle(st).skips = st.skips
               /\ settle(st).recover = st.recover /\ (settle(st).unavail => st.unavail)
    BY <1>2 DEF State
  <1>5. ASSUME NEW m \in Models
        PROVE  /\ ms[m] \in State \cup {NoState}
               /\ ms[m] # NoState =>
                     /\ auth.models[m] # NoState
                     /\ ms[m].level = auth.models[m].level
                     /\ ms[m].skips = auth.models[m].skips
                     /\ ms[m].recover = auth.models[m].recover
                     /\ ms[m].unavail => auth.models[m].unavail
    <2>1. ms[m] = settle(auth.models[m])
      OBVIOUS
    <2>2. settle(NoState) = NoState
      OBVIOUS
    <2>3. auth.models[m] \in State \/ auth.models[m] = NoState
      BY <1>3
    <2> HIDE DEF settle, ms
    <2>4. QED
      BY <1>4, <2>1, <2>2, <2>3
  <1>6. ASSUME NEW m \in Models, Cools(auth.models[m], t) PROVE ms[m] = auth.models[m]
    <2>1. auth.models[m] \in State /\ auth.models[m].retry \in Nat
      BY <1>2, <1>3, <1>6 DEF Cools, State
    <2>2. QED
      BY <1>6, <2>1 DEF Cools
  <1>7. ms \in [Models -> State \cup {NoState}]
    <2> HIDE DEF settle
    <2>1. ms = [m \in Models |-> ms[m]]
      OBVIOUS
    <2> HIDE DEF ms
    <2>2. QED
      BY <1>5, <2>1
  <1> HIDE DEF settle, ms
  <1>8. own \subseteq State
    BY <1>5
  <1>9. ASSUME down PROVE \E m \in Models : auth.models[m] # NoState /\ auth.models[m].unavail
    <2>1. PICK m \in Models : ms[m] # NoState /\ ms[m] \in own
      BY <1>9
    <2>2. QED
      BY <1>5, <1>9, <2>1
  <1> HIDE DEF own
  <1>10. Earliest({st.retry : st \in own}) \in Times
    <2>1. {st.retry : st \in own} \subseteq Times
      BY <1>8 DEF State
    <2>2. QED
      BY <2>1, EarliestType
  <1>11. Earliest({st.recover : st \in over}) \in Times
    <2>1. {st.recover : st \in over} \subseteq Times
      BY <1>8 DEF State
    <2>2. QED
      BY <2>1, EarliestType
  <1>12. (IF over = {} THEN 0 ELSE Max({st.level : st \in over})) \in 0 .. (QuotaBackoffMax - 1)
    <2>1. CASE over = {}
      BY <1>2, <2>1
    <2>2. CASE over # {}
      <3> DEFINE L == {st.level : st \in over}
      <3>1. L \subseteq 0 .. (QuotaBackoffMax - 1) /\ L # {}
        BY <1>8, <2>2 DEF State
      <3> HIDE DEF L
      <3>2. Max(L) \in L
        BY <1>2, <3>1, MaxIn
      <3>3. Max(L) \in 0 .. (QuotaBackoffMax - 1)
        BY <3>1, <3>2
      <3>4. QED
        BY <2>2, <3>3 DEF L
    <2>3. QED
      BY <2>1, <2>2
  <1>13. auth.top.err \in {"none", "unauthorized", "other"}
    BY <1>3 DEF State
  <1>14. down \in BOOLEAN /\ (over # {}) \in BOOLEAN
    OBVIOUS
  <1>15. top.unavail = down
    OBVIOUS
  <1> HIDE DEF down, over
  <1>16. top \in State
    BY <1>2, <1>10, <1>11, <1>12, <1>13, <1>14 DEF State
  <1> HIDE DEF top, g
  <1>17. /\ g \in Auth /\ g.disabled = auth.disabled /\ g.token = auth.token
         /\ g.models = ms /\ g.top = top
    BY <1>1, <1>7, <1>16 DEF Auth
  <1>18. g.top.unavail => \E m \in Models : auth.models[m] # NoState
                                                 /\ auth.models[m].unavail
    BY <1>9, <1>15, <1>17
  <1>19. \A m \in Models :
                 /\ g.models[m] # NoState =>
                       /\ auth.models[m] # NoState
                       /\ g.models[m].level = auth.models[m].level
                       /\ g.models[m].skips = auth.models[m].skips
                       /\ g.models[m].recover = auth.models[m].recover
                       /\ g.models[m].unavail => auth.models[m].unavail
                 /\ Cools(auth.models[m], t) => g.models[m] = auth.models[m]
    BY <1>5, <1>6, <1>17
  <1>20. QED
    BY <1>17, <1>18, <1>19 DEF g

(* clearCooldownStateForAuth leaves no cooldown, and a backoff level only  *)
(* where no window was open.                                               *)
LEMMA OpenedDoes ==
    ASSUME NEW st \in State
    PROVE  /\ Opened(st) \in State /\ ~ Opened(st).unavail
           /\ Opened(st).level = 0 \/ (st.recover = 0 /\ Opened(st).level = st.level)
  <1>1. [Clean EXCEPT !.err = st.err] \in State
    BY CleanType DEF State
  <1>2. ~ [Clean EXCEPT !.err = st.err].unavail /\ [Clean EXCEPT !.err = st.err].level = 0
    BY DEF Clean
  <1>3. st # NoState /\ st.unavail \in BOOLEAN
    BY NilAssumption DEF State
  <1>4. QED
    BY <1>1, <1>2, <1>3 DEF Opened

LEMMA ClearedDoes ==
    ASSUME NEW auth \in Auth, NEW t \in Nat
    PROVE  LET c == ClearedCooldown(auth, t) IN
           /\ c \in Auth /\ c.disabled = auth.disabled /\ c.token = auth.token
           /\ ~ c.top.unavail
           /\ \A m \in Models : c.models[m] # NoState =>
                 /\ auth.models[m] # NoState /\ ~ c.models[m].unavail
                 /\ \/ c.models[m].level = 0
                    \/ /\ auth.models[m].recover = 0
                       /\ c.models[m].level = auth.models[m].level
  <1> DEFINE ms == [m \in Models |-> Opened(auth.models[m])]
             open == [auth EXCEPT !.top = Opened(auth.top), !.models = ms]
             c == ClearedCooldown(auth, t)
  <1>1. c = IF \E m \in Models : auth.models[m] # NoState THEN Aggregated(open, t) ELSE open
    BY DEF ClearedCooldown
  <1>2. auth.models \in [Models -> State \cup {NoState}] /\ auth.top \in State
    BY DEF Auth
  <1>3. Opened(NoState) = NoState
    BY DEF Opened
  <1>4. ASSUME NEW m \in Models
        PROVE  /\ ms[m] \in State \cup {NoState}
               /\ ms[m] # NoState =>
                     /\ auth.models[m] # NoState /\ ~ ms[m].unavail
                     /\ \/ ms[m].level = 0
                        \/ auth.models[m].recover = 0 /\ ms[m].level = auth.models[m].level
    BY <1>2, <1>3, OpenedDoes
  <1>5. ms \in [Models -> State \cup {NoState}]
    <2>1. ms = [m \in Models |-> ms[m]]
      OBVIOUS
    <2> HIDE DEF ms
    <2>2. QED
      BY <1>4, <2>1
  <1> HIDE DEF ms
  <1>6. /\ open \in Auth /\ open.disabled = auth.disabled /\ open.token = auth.token
        /\ open.models = ms /\ ~ open.top.unavail
    BY <1>2, <1>5, OpenedDoes DEF Auth
  <1> HIDE DEF open, c
  <1>7. CASE c = open
    BY <1>4, <1>6, <1>7 DEF c
  <1>8. CASE c = Aggregated(open, t)
    <2>1. /\ c \in Auth /\ c.disabled = auth.disabled /\ c.token = auth.token
      BY <1>6, <1>8, AggregatedDoes
    <2>2. ~ c.top.unavail
      BY <1>4, <1>6, <1>8, AggregatedDoes
    <2>3. ASSUME NEW m \in Models, c.models[m] # NoState
          PROVE  /\ open.models[m] # NoState /\ c.models[m].level = open.models[m].level
                 /\ c.models[m].unavail => open.models[m].unavail
      BY <1>6, <1>8, <2>3, AggregatedDoes
    <2>4. \A m \in Models : c.models[m] # NoState =>
                 /\ auth.models[m] # NoState /\ ~ c.models[m].unavail
                 /\ \/ c.models[m].level = 0
                    \/ /\ auth.models[m].recover = 0
                       /\ c.models[m].level = auth.models[m].level
      BY <1>4, <1>6, <2>3
    <2>5. QED
      BY <2>1, <2>2, <2>4 DEF c
  <1>9. QED
    BY <1>1, <1>7, <1>8

(* The records of a credential: well formed, one for each model, fewer as  *)
(* time goes on, none where nothing is unavailable.                        *)
LEMMA RecordsType ==
    ASSUME NEW auth \in Entry, NEW on \in BOOLEAN, NEW t \in Nat
    PROVE  /\ RecordsIf(on, auth, t) \in SUBSET Record
           /\ Single(RecordsIf(on, auth, t))
  <1>1. CASE auth = NoAuth \/ ~ on \/ auth.disabled
    BY <1>1 DEF RecordsIf, Single
  <1>2. CASE auth # NoAuth /\ on /\ ~ auth.disabled
    <2> DEFINE own == {[m |-> m, st |-> auth.models[m]] :
                           m \in {n \in Models : Cools(auth.models[n], t)}}
               top == IF Cools(auth.top, t) THEN {[m |-> NoModel, st |-> auth.top]} ELSE {}
    <2>1. RecordsIf(on, auth, t) = own \cup top
      BY <1>2 DEF RecordsIf
    <2>2. auth.models \in [Models -> State \cup {NoState}] /\ auth.top \in State
      BY <1>2 DEF Entry, Auth
    <2>3. \A m \in Models : Cools(auth.models[m], t) => auth.models[m] \in State
      BY <2>2 DEF Cools
    <2>4. own \in SUBSET Record /\ \A r \in own : r.m \in Models /\ r.st = auth.models[r.m]
      BY <2>3 DEF Record
    <2>5. top \in SUBSET Record /\ \A r \in top : r = [m |-> NoModel, st |-> auth.top]
      BY <2>2 DEF Record
    <2>6. \A r, s \in Record : r.m = s.m /\ r.st = s.st => r = s
      BY DEF Record
    <2> HIDE DEF own, top
    <2>7. ASSUME NEW r \in own \cup top, NEW s \in own \cup top, r.m = s.m PROVE r = s
      BY <2>4, <2>5, <2>6, <2>7, ConductorAssumption
    <2>8. Single(own \cup top)
      BY <2>7 DEF Single
    <2>9. QED
      BY <2>1, <2>4, <2>5, <2>8
  <1>3. QED
    BY <1>1, <1>2

LEMMA RecordsShrink ==
    ASSUME NEW auth \in Entry, NEW on, NEW t \in Nat, NEW u \in Nat, t <= u
    PROVE  RecordsIf(on, auth, u) \subseteq RecordsIf(on, auth, t)
  <1>1. CASE auth = NoAuth
    BY <1>1 DEF RecordsIf
  <1>2. CASE auth \in Auth
    <2>1. auth.models \in [Models -> State \cup {NoState}] /\ auth.top \in State
      BY <1>2 DEF Auth
    <2>2. \A st \in State : st.retry \in Nat
      BY ConductorAssumption DEF State, Times
    <2>3. \A st \in State \cup {NoState} : Cools(st, u) => Cools(st, t)
      BY <2>2 DEF Cools
    <2>4. \A n \in Models : Cools(auth.models[n], u) => Cools(auth.models[n], t)
      BY <2>1, <2>3
    <2>5. Cools(auth.top, u) => Cools(auth.top, t)
      BY <2>1, <2>3
    <2>6. QED
      BY <2>4, <2>5 DEF RecordsIf
  <1>3. QED
    BY <1>1, <1>2 DEF Entry

LEMMA NoRecords ==
    ASSUME NEW auth \in Auth, NEW on, NEW t, ~ auth.top.unavail,
           \A m \in Models : auth.models[m] # NoState => ~ auth.models[m].unavail
    PROVE  RecordsIf(on, auth, t) = {}
  <1>1. ~ Cools(auth.top, t) /\ \A m \in Models : ~ Cools(auth.models[m], t)
    BY DEF Cools
  <1>2. QED
    BY <1>1 DEF RecordsIf

(* A credential as a start or a login makes it. *)
LEMMA FreshDoes ==
    ASSUME NEW f \in CredentialFile
    PROVE  /\ Fresh(f) \in Auth /\ Fresh(f).disabled = f.disabled /\ Fresh(f).token = f.token
           /\ \A m \in Models : Fresh(f).models[m] = NoState
           /\ \A on, t : RecordsIf(on, Fresh(f), t) = {}
  <1> DEFINE x == Fresh(f)
  <1>1. /\ x \in Auth /\ x.disabled = f.disabled /\ x.token = f.token /\ x.top = Clean
        /\ \A m \in Models : x.models[m] = NoState
    BY CleanType DEF Fresh, CredentialFile, Auth
  <1>2. ~ x.top.unavail
    BY <1>1 DEF Clean
  <1> HIDE DEF x
  <1>3. ASSUME NEW on, NEW t PROVE RecordsIf(on, x, t) = {}
    BY <1>1, <1>2, NoRecords
  <1>4. QED
    BY <1>1, <1>3 DEF x

(* restoreCooldownRecordLocked: a model keeps its entry or takes the one   *)
(* of a saved record.                                                      *)
LEMMA LiveType ==
    ASSUME NEW auth, NEW recs, NEW t
    PROVE  /\ Live(auth, recs, t) \subseteq recs
           /\ auth = NoAuth \/ ~ cooling \/ recs = {} => Live(auth, recs, t) = {}
  BY DEF Live

LEMMA RestoredIdle ==
    ASSUME NEW auth, NEW recs, NEW t, auth = NoAuth \/ ~ cooling \/ recs = {}
    PROVE  Restored(auth, recs, t) = auth
  BY LiveType DEF Restored

LEMMA RestoredDoes ==
    ASSUME NEW auth \in Auth, NEW recs \in SUBSET Record, NEW t \in Nat
    PROVE  LET x == Restored(auth, recs, t) IN
           /\ x \in Auth /\ x.disabled = auth.disabled /\ x.token = auth.token
           /\ \A m \in Models : x.models[m] # NoState =>
                 \/ /\ auth.models[m] # NoState
                    /\ x.models[m].level = auth.models[m].level
                    /\ x.models[m].skips = auth.models[m].skips
                    /\ x.models[m].recover = auth.models[m].recover
                 \/ \E r \in recs : /\ r.m = m
                                    /\ x.models[m].level = r.st.level
                                    /\ x.models[m].skips = r.st.skips
                                    /\ x.models[m].recover = r.st.recover
  <1> DEFINE of(m) == {r \in Live(auth, recs, t) : r.m = m}
             ms   == [m \in Models |-> IF of(m) = {} THEN auth.models[m]
                                       ELSE (CHOOSE r \in of(m) : TRUE).st]
             with == [auth EXCEPT !.models = ms]
             agg  == IF \E m \in Models : of(m) # {} THEN Aggregated(with, t) ELSE auth
             x    == Restored(auth, recs, t)
  <1>1. x = IF Live(auth, recs, t) = {} THEN auth
            ELSE IF of(NoModel) = {} THEN agg
            ELSE [agg EXCEPT !.top = (CHOOSE r \in of(NoModel) : TRUE).st]
    BY DEF Restored
  <1>2. auth.models \in [Models -> State \cup {NoState}]
    BY DEF Auth
  <1>3. ASSUME NEW m, of(m) # {}
        PROVE  /\ (CHOOSE r \in of(m) : TRUE) \in recs
               /\ (CHOOSE r \in of(m) : TRUE).m = m
               /\ (CHOOSE r \in of(m) : TRUE).st \in State
    <2>1. (CHOOSE r \in of(m) : TRUE) \in of(m)
      BY <1>3
    <2>2. of(m) \subseteq recs /\ \A r \in of(m) : r.m = m
      BY LiveType
    <2>3. \A r \in Record : r.st \in State
      BY DEF Record
    <2> HIDE DEF of
    <2>4. QED
      BY <2>1, <2>2, <2>3
  <1>4. ASSUME NEW m \in Models
        PROVE  /\ ms[m] \in State \cup {NoState}
               /\ \/ ms[m] = auth.models[m]
                  \/ \E r \in recs : r.m = m /\ ms[m] = r.st
    <2>1. ms[m] = IF of(m) = {} THEN auth.models[m] ELSE (CHOOSE r \in of(m) : TRUE).st
      OBVIOUS
    <2> HIDE DEF of, ms
    <2>2. QED
      BY <1>2, <1>3, <2>1
  <1>5. ms \in [Models -> State \cup {NoState}]
    <2> HIDE DEF of
    <2>1. ms = [m \in Models |-> ms[m]]
      OBVIOUS
    <2> HIDE DEF ms
    <2>2. QED
      BY <1>4, <2>1
  <1> HIDE DEF of, ms
  <1>6. /\ with \in Auth /\ with.disabled = auth.disabled /\ with.token = auth.token
        /\ with.models = ms
    BY <1>5 DEF Auth
  <1> HIDE DEF with
  <1> DEFINE Fine(y) ==
           /\ y \in Auth /\ y.disabled = auth.disabled /\ y.token = auth.token
           /\ \A m \in Models : y.models[m] # NoState =>
                 \/ /\ auth.models[m] # NoState
                    /\ y.models[m].level = auth.models[m].level
                    /\ y.models[m].skips = auth.models[m].skips
                    /\ y.models[m].recover = auth.models[m].recover
                 \/ \E r \in recs : /\ r.m = m
                                    /\ y.models[m].level = r.st.level
                                    /\ y.models[m].skips = r.st.skips
                                    /\ y.models[m].recover = r.st.recover
  <1>7. Fine(auth)
    OBVIOUS
  <1>8. Fine(Aggregated(with, t))
    <2> DEFINE y == Aggregated(with, t)
    <2>1. y \in Auth /\ y.disabled = auth.disabled /\ y.token = auth.token
      BY <1>6, AggregatedDoes
    <2>2. ASSUME NEW m \in Models, y.models[m] # NoState
          PROVE  /\ ms[m] # NoState /\ y.models[m].level = ms[m].level
                 /\ y.models[m].skips = ms[m].skips
                 /\ y.models[m].recover = ms[m].recover
      BY <1>6, <2>2, AggregatedDoes
    <2> HIDE DEF y
    <2>3. ASSUME NEW m \in Models, y.models[m] # NoState
          PROVE  \/ /\ auth.models[m] # NoState
                    /\ y.models[m].level = auth.models[m].level
                    /\ y.models[m].skips = auth.models[m].skips
                    /\ y.models[m].recover = auth.models[m].recover
                 \/ \E r \in recs : /\ r.m = m
                                    /\ y.models[m].level = r.st.level
                                    /\ y.models[m].skips = r.st.skips
                                    /\ y.models[m].recover = r.st.recover
      BY <1>4, <2>2, <2>3
    <2>4. Fine(y)
      BY <2>1, <2>3
    <2>5. QED
      BY <2>4 DEF y
  <1>9. Fine(agg)
    <2> HIDE DEF Fine
    <2>1. QED
      BY <1>7, <1>8
  <1> HIDE DEF agg
  <1>10. ASSUME NEW st \in State PROVE Fine([agg EXCEPT !.top = st])
    <2> DEFINE y == [agg EXCEPT !.top = st]
    <2>1. y \in Auth /\ y.disabled = agg.disabled /\ y.token = agg.token /\ y.models = agg.models
      BY <1>9 DEF Auth
    <2> HIDE DEF y
    <2>2. Fine(y)
      BY <1>9, <2>1
    <2>3. QED
      BY <2>2 DEF y
  <1>11. Fine(x)
    <2> HIDE DEF Fine, x
    <2>1. QED
      BY <1>1, <1>3, <1>7, <1>9, <1>10
  <1>12. QED
    BY <1>11

LEMMA RestoredToken ==
    ASSUME NEW auth \in Auth, NEW recs \in SUBSET Record, NEW t \in Nat
    PROVE  Restored(auth, recs, t).token = auth.token
  BY RestoredDoes

(* A saved cooldown that is still in force is in the map again. *)
LEMMA RestoredKeeps ==
    ASSUME NEW auth \in Auth, NEW recs \in SUBSET Record, NEW t \in Nat,
           cooling, ~ auth.disabled, Single(recs), NEW r \in recs, Cools(r.st, t)
    PROVE  r \in Records(Restored(auth, recs, t), t)
  <1> DEFINE of(m) == {s \in Live(auth, recs, t) : s.m = m}
             ms   == [m \in Models |-> IF of(m) = {} THEN auth.models[m]
                                       ELSE (CHOOSE s \in of(m) : TRUE).st]
             with == [auth EXCEPT !.models = ms]
             agg  == IF \E m \in Models : of(m) # {} THEN Aggregated(with, t) ELSE auth
             x    == Restored(auth, recs, t)
  <1>1. x = IF Live(auth, recs, t) = {} THEN auth
            ELSE IF of(NoModel) = {} THEN agg
            ELSE [agg EXCEPT !.top = (CHOOSE s \in of(NoModel) : TRUE).st]
    BY DEF Restored
  <1>2. r \in Record /\ r.m \in Models \cup {NoModel} /\ r.st \in State
    BY DEF Record
  <1>3. of(r.m) = {r} /\ Live(auth, recs, t) # {}
    <2>1. r \in Live(auth, recs, t)
      BY NilAssumption DEF Live, Cools
    <2>2. \A s \in Live(auth, recs, t) : s.m = r.m => s = r
      BY LiveType DEF Single
    <2>3. QED
      BY <2>1, <2>2
  <1>4. (CHOOSE s \in of(r.m) : TRUE) = r
    BY <1>3
  <1>5. x \in Auth /\ ~ x.disabled /\ x # NoAuth
    <2>1. x \in Auth /\ x.disabled = auth.disabled
      BY RestoredDoes
    <2> HIDE DEF x
    <2>2. QED
      BY <2>1, NilAssumption
  <1>6. ASSUME NEW st \in State, NEW m
        PROVE  r.m = m /\ r.st = st => r = [m |-> m, st |-> st]
    BY <1>2 DEF Record
  <1>w. with \in Auth /\ with.models = ms
    <2>1. ASSUME NEW m \in Models PROVE ms[m] \in State \cup {NoState}
      <3>1. CASE of(m) = {}
        BY <3>1 DEF Auth
      <3>2. CASE of(m) # {}
        <4>1. (CHOOSE s \in of(m) : TRUE) \in of(m)
          BY <3>2
        <4>2. of(m) \subseteq Record
          BY LiveType
        <4> HIDE DEF of
        <4>3. QED
          BY <3>2, <4>1, <4>2 DEF Record
      <3>3. QED
        BY <3>1, <3>2
    <2> HIDE DEF of
    <2>2. ms \in [Models -> State \cup {NoState}]
      <3>1. ms = [m \in Models |-> ms[m]]
        OBVIOUS
      <3> HIDE DEF ms
      <3>2. QED
        BY <2>1, <3>1
    <2> HIDE DEF ms
    <2>3. QED
      BY <2>2 DEF Auth
  <1>7. CASE r.m = NoModel
    <2>1. agg \in Auth
      <3> HIDE DEF with
      <3>1. QED
        BY <1>w, AggregatedDoes
    <2> HIDE DEF agg, of
    <2>2. x = [agg EXCEPT !.top = r.st]
      BY <1>1, <1>3, <1>4, <1>7
    <2> HIDE DEF x
    <2>3. x.top = r.st
      BY <2>1, <2>2 DEF Auth
    <2>4. r = [m |-> NoModel, st |-> x.top]
      BY <1>2, <1>6, <1>7, <2>3
    <2>5. Cools(x.top, t)
      BY <2>3
    <2>6. r \in RecordsIf(cooling, x, t)
      BY <1>5, <2>4, <2>5 DEF RecordsIf
    <2>7. QED
      BY <2>6 DEF x, Records
  <1>8. CASE r.m \in Models
    <2>1. \E m \in Models : of(m) # {}
      BY <1>3, <1>8
    <2>2. ms[r.m] = r.st
      BY <1>3, <1>4, <1>8
    <2>4. agg = Aggregated(with, t)
      BY <2>1
    <2> HIDE DEF of, ms, with, agg
    <2>5. agg \in Auth /\ agg.models[r.m] = r.st
      BY <1>8, <1>w, <2>2, <2>4, AggregatedDoes
    <2>6. ASSUME NEW st PROVE [agg EXCEPT !.top = st].models = agg.models
      BY <2>5 DEF Auth
    <2>7. x.models[r.m] = r.st
      BY <1>1, <1>3, <2>5, <2>6
    <2> HIDE DEF x
    <2>8. r = [m |-> r.m, st |-> x.models[r.m]]
      BY <1>2, <1>6, <2>7
    <2>9. Cools(x.models[r.m], t)
      BY <2>7
    <2>10. r \in RecordsIf(cooling, x, t)
      BY <1>5, <1>8, <2>8, <2>9 DEF RecordsIf
    <2>11. QED
      BY <2>10 DEF x, Records
  <1>9. QED
    BY <1>2, <1>7, <1>8

(* What EarnedAt says of the rungs e waited for and a window until r: a    *)
(* rung may be skipped, a window closed or opened, the ladder climbed.     *)
EarnedBy(e, r, t) ==
    e > 0 => t >= Pow2[e - 1] /\ r >= Pow2[e] /\ Pow2[e - 1] < QuotaBackoffMax

LEMMA Pow2Step ==
    ASSUME NEW e \in Int, e > 0
    PROVE  e - 1 \in Nat /\ Pow2[e - 1] \in Nat /\ Pow2[e] = 2 * Pow2[e - 1]
  <1>1. e - 1 \in Nat /\ (e - 1) + 1 = e
    OBVIOUS
  <1>2. \A n \in Nat : Pow2[n] \in Nat /\ Pow2[n + 1] = 2 * Pow2[n]
    BY Pow2Def
  <1>3. QED
    BY <1>1, <1>2

LEMMA Pow2Rises == \A n, k \in Nat : Pow2[n + k] >= Pow2[n]
  <1> SUFFICES ASSUME NEW n \in Nat PROVE \A k \in Nat : Pow2[n + k] >= Pow2[n]
    OBVIOUS
  <1> DEFINE S == {k \in Nat : Pow2[n + k] >= Pow2[n]}
  <1>1. Pow2[n] \in Nat
    BY Pow2Def
  <1>2. 0 \in S
    BY <1>1
  <1>3. ASSUME NEW k \in S PROVE k + 1 \in S
    <2> DEFINE x == Pow2[n + k]
               y == Pow2[n]
               z == Pow2[n + (k + 1)]
    <2>1. k \in Nat /\ n + k \in Nat /\ (n + k) + 1 = n + (k + 1) /\ x >= y
      OBVIOUS
    <2>2. x \in Nat /\ z = 2 * x
      BY <2>1, Pow2Def
    <2> HIDE DEF x, z
    <2>3. z >= y
      <3>1. y \in Nat
        BY <1>1
      <3> HIDE DEF y
      <3>2. QED
        BY <2>1, <2>2, <3>1
    <2>4. QED
      BY <2>1, <2>3 DEF z
  <1> HIDE DEF S
  <1>4. S = Nat
    <2>1. S \in SUBSET Nat
      BY DEF S
    <2>2. QED
      BY <1>2, <1>3, <2>1, Induction
  <1>5. QED
    BY <1>4 DEF S

LEMMA Pow2Above ==
    ASSUME NEW e \in Int, NEW n \in Nat, e <= n, e >= 0
    PROVE  Pow2[e] \in Nat /\ Pow2[n] \in Nat /\ Pow2[n] >= Pow2[e]
  <1>1. e \in Nat /\ n - e \in Nat /\ e + (n - e) = n
    OBVIOUS
  <1>2. Pow2[e + (n - e)] >= Pow2[e]
    BY <1>1, Pow2Rises
  <1>3. QED
    BY <1>1, <1>2, Pow2Def

LEMMA OneSkipped ==
    ASSUME NEW e \in Int, NEW r \in Nat, NEW u \in Nat, NEW t \in Nat,
           QuotaBackoffMax \in Nat, EarnedBy(e, r, t), u >= t
    PROVE  EarnedBy(e - 1, u, t)
  <1> SUFFICES ASSUME e - 1 > 0 PROVE EarnedBy(e - 1, u, t)
    BY DEF EarnedBy
  <1> DEFINE d == e - 1
             y == Pow2[d]
             z == Pow2[d - 1]
  <1>1. e > 0 /\ d \in Int /\ d > 0
    OBVIOUS
  <1> HIDE DEF d
  <1>2. y \in Nat /\ z \in Nat /\ y = 2 * z
    BY <1>1, Pow2Step, Pow2Def
  <1>3. t >= y /\ y < QuotaBackoffMax
    BY <1>1 DEF EarnedBy, d
  <1> HIDE DEF y, z
  <1>4. t >= z /\ u >= y /\ z < QuotaBackoffMax
    BY <1>2, <1>3
  <1>5. QED
    BY <1>4 DEF EarnedBy, d, y, z

LEMMA OneCapped ==
    ASSUME NEW e \in Int, NEW r \in Nat, NEW u \in Nat, NEW t \in Nat,
           QuotaBackoffMax \in Nat, EarnedBy(e, r, t), u = t + QuotaBackoffMax
    PROVE  EarnedBy(e, u, t)
  <1> SUFFICES ASSUME e > 0 PROVE EarnedBy(e, u, t)
    BY DEF EarnedBy
  <1> DEFINE x == Pow2[e]
             y == Pow2[e - 1]
  <1>1. y \in Nat /\ x = 2 * y
    BY Pow2Step
  <1>2. t >= y /\ y < QuotaBackoffMax
    BY DEF EarnedBy
  <1> HIDE DEF x, y
  <1>3. u >= x
    BY <1>1, <1>2
  <1>4. QED
    BY <1>2, <1>3 DEF EarnedBy, x, y

LEMMA OneLonger ==
    ASSUME NEW e \in Int, NEW n \in Nat, NEW r \in Nat, NEW u \in Nat, NEW t \in Nat,
           e <= n, EarnedBy(e, r, t), u >= t + Pow2[n]
    PROVE  EarnedBy(e, u, t)
  <1> SUFFICES ASSUME e > 0 PROVE EarnedBy(e, u, t)
    BY DEF EarnedBy
  <1> DEFINE x == Pow2[e]
             w == Pow2[n]
  <1>1. x \in Nat /\ w \in Nat /\ w >= x /\ u >= t + w
    BY Pow2Above
  <1>2. t >= Pow2[e - 1] /\ Pow2[e - 1] < QuotaBackoffMax
    BY DEF EarnedBy
  <1> HIDE DEF x, w
  <1>3. u >= x
    BY <1>1
  <1>4. QED
    BY <1>2, <1>3 DEF EarnedBy, x

LEMMA OneClimbed ==
    ASSUME NEW e \in Int, NEW n \in Nat, NEW r \in Nat, NEW u \in Nat, NEW t \in Nat,
           t >= 1, e <= n, EarnedBy(e, r, t), r <= t, u = t + Pow2[n],
           QuotaBackoffMax \in Nat, Pow2[n] < QuotaBackoffMax
    PROVE  EarnedBy(e + 1, u, t)
  <1> SUFFICES ASSUME e + 1 > 0 PROVE EarnedBy(e + 1, u, t)
    BY DEF EarnedBy
  <1> DEFINE x == Pow2[e]
             w == Pow2[n]
             z == Pow2[e + 1]
  <1>1. e >= 0 /\ e \in Nat /\ (e + 1) - 1 = e
    OBVIOUS
  <1>2. x \in Nat /\ w \in Nat /\ w >= x /\ z = 2 * x /\ (e = 0 => x = 1)
    BY <1>1, Pow2Above, Pow2Def
  <1>3. e > 0 => r >= x
    BY DEF EarnedBy
  <1>4. u = t + w /\ w < QuotaBackoffMax
    OBVIOUS
  <1> HIDE DEF x, w, z
  <1>5. t >= x
    BY <1>1, <1>2, <1>3
  <1>6. u >= z /\ x < QuotaBackoffMax
    BY <1>2, <1>4, <1>5
  <1>7. QED
    BY <1>1, <1>5, <1>6 DEF EarnedBy, x, z

(* A clean level has nothing to wait for. *)
LEMMA EarnedZero ==
    ASSUME NEW st, NEW t, st.level = 0, st.skips \in Nat
    PROVE  EarnedAt(st, t)
  <1>1. ~ (Waited(st) > 0)
    BY DEF Waited
  <1>2. QED
    BY <1>1 DEF EarnedAt

(* The ladder: a level is left only after its window, or by a challenge.   *)
LEMMA FailedEarned ==
    ASSUME NEW st \in State, NEW o \in Outcomes, NEW t \in 1 .. MaxTime,
           cooling \in BOOLEAN, EarnedAt(st, t), ~ cooling => st.level = 0
    PROVE  /\ EarnedAt(Failed(st, o, t), t)
           /\ ~ cooling => Failed(st, o, t).level = 0
  <1> DEFINE f == Failed(st, o, t)
             x == Pow2[st.level]
             e == Waited(st)
             w == QuotaCooldownAfterFailure(st, t)
             k == NextCloudflareCooldown(st.level, t)
  <1>1. /\ st.level \in Nat /\ st.skips \in Nat /\ st.recover \in Nat
        /\ t \in Nat /\ t >= 1 /\ QuotaBackoffMax \in Nat \ {0}
        /\ RetryAfter \in Nat /\ ChallengeCooldown \in Nat
    BY ConductorAssumption DEF State, Times
  <1>2. x \in Nat /\ x >= 1
    BY <1>1, Pow2Def, Pow2Grows
  <1>3. e \in Int /\ e <= st.level /\ EarnedBy(e, st.recover, t)
    BY <1>1 DEF EarnedAt, EarnedBy, Waited
  <1>4. CASE f.level = st.level /\ f.skips = st.skips /\ f.recover = st.recover
    BY <1>4 DEF EarnedAt, Waited
  <1>5. CASE ~ cooling
    <2>1. f.level = 0 /\ f.skips = st.skips
      BY <1>5 DEF Failed, State
    <2> HIDE DEF f
    <2>2. EarnedAt(f, t)
      BY <1>1, <2>1, EarnedZero
    <2>3. QED
      BY <2>1, <2>2 DEF f
  <1>6. CASE cooling /\ o = "retry_after"
    <2>1. f.level = st.level /\ f.skips = st.skips + 1 /\ f.recover = t + RetryAfter
      BY <1>6 DEF Failed
    <2> HIDE DEF f
    <2>2. Waited(f) = e - 1 /\ f.recover >= t /\ f.recover \in Nat /\ f.recover # 0
      BY <1>1, <2>1 DEF Waited
    <2> HIDE DEF e
    <2>3. EarnedBy(e - 1, f.recover, t)
      BY <1>1, <1>3, <2>2, OneSkipped
    <2>4. EarnedAt(f, t)
      BY <2>2, <2>3 DEF EarnedAt, EarnedBy
    <2>5. QED
      BY <1>6, <2>4 DEF f
  <1>7. CASE cooling /\ o = "challenge"
    <2>1. f.level = k[2] /\ f.skips = st.skips + 1 /\ f.recover = k[1]
      BY <1>7 DEF Failed
    <2> DEFINE c == NextQuotaCooldown(st.level)
    <2>2. c = IF x >= QuotaBackoffMax THEN <<QuotaBackoffMax, st.level>>
                                      ELSE <<x, st.level + 1>>
      BY DEF NextQuotaCooldown
    <2>3. k = <<t + (IF c[1] < ChallengeCooldown THEN ChallengeCooldown ELSE c[1]), c[2]>>
      BY DEF NextCloudflareCooldown
    <2> HIDE DEF f, k, c, x
    <2>4. CASE x >= QuotaBackoffMax
      <3>1. c[1] = QuotaBackoffMax /\ c[2] = st.level
        BY <2>2, <2>4
      <3>2. Waited(f) = e - 1 /\ f.recover >= t /\ f.recover \in Nat /\ f.recover # 0
        BY <1>1, <2>1, <2>3, <3>1 DEF Waited
      <3> HIDE DEF e
      <3>3. EarnedBy(e - 1, f.recover, t)
        BY <1>1, <1>3, <3>2, OneSkipped
      <3>4. EarnedAt(f, t)
        BY <3>2, <3>3 DEF EarnedAt, EarnedBy
      <3>5. QED
        BY <1>7, <3>4 DEF f
    <2>5. CASE ~ (x >= QuotaBackoffMax)
      <3>1. c[1] = x /\ c[2] = st.level + 1
        BY <2>2, <2>5
      <3>2. f.level = st.level + 1 /\ f.recover >= t + x /\ f.recover \in Nat
        BY <1>1, <1>2, <2>1, <2>3, <3>1
      <3>3. Waited(f) = e /\ f.recover # 0
        BY <1>1, <1>2, <2>1, <3>2 DEF Waited
      <3> HIDE DEF e
      <3>4. EarnedBy(e, f.recover, t)
        BY <1>1, <1>3, <3>2, OneLonger DEF x
      <3>5. EarnedAt(f, t)
        BY <3>3, <3>4 DEF EarnedAt, EarnedBy
      <3>6. QED
        BY <1>7, <3>5 DEF f
    <2>6. QED
      BY <2>4, <2>5
  <1>8. CASE cooling /\ o = "quota"
    <2>1. f.level = w[2] /\ f.skips = st.skips /\ f.recover = w[1]
      BY <1>8, <1>1 DEF Failed
    <2>2. CASE st.recover > t
      <3>1. w = <<st.recover, st.level>>
        BY <2>2 DEF QuotaCooldownAfterFailure
      <3> HIDE DEF f, w
      <3>2. f.level = st.level /\ f.skips = st.skips /\ f.recover = st.recover
        BY <2>1, <3>1
      <3>3. QED
        BY <1>4, <3>2 DEF f
    <2>3. CASE ~ (st.recover > t) /\ x >= QuotaBackoffMax
      <3>1. w = <<t + QuotaBackoffMax, st.level>>
        BY <2>3 DEF QuotaCooldownAfterFailure, NextQuotaCooldown
      <3> HIDE DEF f, w, x
      <3>2. f.level = st.level /\ f.recover = t + QuotaBackoffMax
        BY <2>1, <3>1
      <3>3. Waited(f) = e /\ f.recover # 0
        BY <1>1, <2>1, <3>2 DEF Waited
      <3> HIDE DEF e
      <3>4. EarnedBy(e, f.recover, t)
        BY <1>1, <1>3, <3>2, OneCapped
      <3>5. EarnedAt(f, t)
        BY <3>3, <3>4 DEF EarnedAt, EarnedBy
      <3>6. QED
        BY <1>8, <3>5 DEF f
    <2>4. CASE ~ (st.recover > t) /\ ~ (x >= QuotaBackoffMax)
      <3>1. w = <<t + x, st.level + 1>>
        BY <2>4 DEF QuotaCooldownAfterFailure, NextQuotaCooldown
      <3> HIDE DEF f, w, x
      <3>2. f.level = st.level + 1 /\ f.recover = t + x
        BY <2>1, <3>1
      <3>3. Waited(f) = e + 1 /\ f.recover # 0 /\ f.recover \in Nat
        BY <1>1, <1>2, <2>1, <3>2 DEF Waited
      <3> HIDE DEF e
      <3>4. st.recover <= t /\ x < QuotaBackoffMax
        BY <1>1, <1>2, <2>4
      <3>5. EarnedBy(e + 1, f.recover, t)
        BY <1>1, <1>3, <3>2, <3>3, <3>4, OneClimbed DEF x
      <3>6. EarnedAt(f, t)
        BY <3>3, <3>5 DEF EarnedAt, EarnedBy
      <3>7. QED
        BY <1>8, <3>6 DEF f
    <2>5. QED
      BY <2>2, <2>3, <2>4
  <1>9. CASE o \notin {"challenge", "quota", "retry_after"}
    <2>1. f.level = st.level /\ f.skips = st.skips /\ f.recover = st.recover
      BY <1>9 DEF Failed, State
    <2>2. QED
      BY <1>4, <2>1
  <1>10. QED
    BY <1>5, <1>6, <1>7, <1>8, <1>9

LEMMA SkipsType ==
    ASSUME NEW auth \in Auth, NEW m \in Models, auth.models[m] # NoState
    PROVE  auth.models[m].skips \in Nat
  BY DEF Auth, State

LEMMA CleanEarned == \A t : EarnedAt(Clean, t)
  BY EarnedZero DEF Clean

(* The credential after a result: each model as it was, clean, or after    *)
(* the failure.                                                            *)
LEMMA AfterResultDoes ==
    ASSUME NEW auth \in Auth, NEW m \in Models \cup {NoModel}, NEW o,
           NEW t \in 1 .. MaxTime, cooling \in BOOLEAN
    PROVE  LET y == AfterResult(auth, m, o, t) IN
           /\ y \in Auth /\ y.token = auth.token
           /\ \A n \in Models : y.models[n] # NoState =>
                 \/ y.models[n].level = 0
                 \/ /\ auth.models[n] # NoState
                    /\ y.models[n].level = auth.models[n].level
                    /\ y.models[n].skips = auth.models[n].skips
                    /\ y.models[n].recover = auth.models[n].recover
                 \/ \E st \in State :
                       /\ st = Clean \/ (auth.models[n] # NoState /\ st = auth.models[n])
                       /\ o \notin {"ok", "scoped"}
                       /\ y.models[n].level = Failed(st, o, t).level
                       /\ y.models[n].skips = Failed(st, o, t).skips
                       /\ y.models[n].recover = Failed(st, o, t).recover
  <1> DEFINE Fine(y) ==
           /\ y \in Auth /\ y.token = auth.token
           /\ \A n \in Models : y.models[n] # NoState =>
                 \/ y.models[n].level = 0
                 \/ /\ auth.models[n] # NoState
                    /\ y.models[n].level = auth.models[n].level
                    /\ y.models[n].skips = auth.models[n].skips
                    /\ y.models[n].recover = auth.models[n].recover
                 \/ \E st \in State :
                       /\ st = Clean \/ (auth.models[n] # NoState /\ st = auth.models[n])
                       /\ o \notin {"ok", "scoped"}
                       /\ y.models[n].level = Failed(st, o, t).level
                       /\ y.models[n].skips = Failed(st, o, t).skips
                       /\ y.models[n].recover = Failed(st, o, t).recover
             z == AfterResult(auth, m, o, t)
  <1>1. auth.models \in [Models -> State \cup {NoState}] /\ auth.top \in State /\ t \in Nat
    BY DEF Auth
  <1>2. CASE o = "scoped"
    <2>1. z = auth
      BY <1>2 DEF AfterResult
    <2>2. QED
      BY <2>1
  <1>3. ASSUME NEW st \in State PROVE Fine([auth EXCEPT !.top = st])
    <2> DEFINE y == [auth EXCEPT !.top = st]
    <2>1. y \in Auth /\ y.models = auth.models /\ y.token = auth.token
      BY DEF Auth
    <2> HIDE DEF y
    <2>2. Fine(y)
      BY <2>1
    <2>3. QED
      BY <2>2 DEF y
  <1>4. ASSUME NEW y, Fine(y), NEW e \in {"none", "unauthorized", "other"}
        PROVE  Fine([y EXCEPT !.top.err = e])
    <2> DEFINE x == [y EXCEPT !.top.err = e]
    <2>1. y \in Auth /\ y.top \in State
      BY <1>4 DEF Auth
    <2>2. [y.top EXCEPT !.err = e] \in State
      BY <2>1 DEF State
    <2>3. x = [y EXCEPT !.top = [y.top EXCEPT !.err = e]]
      BY <2>1 DEF Auth
    <2>4. x \in Auth /\ x.models = y.models /\ x.token = y.token
      BY <2>1, <2>2, <2>3 DEF Auth
    <2> HIDE DEF x
    <2>5. Fine(x)
      BY <1>4, <2>4
    <2>6. QED
      BY <2>5 DEF x
  <1>5. ASSUME NEW y, Fine(y) PROVE Fine(Aggregated(y, t))
    <2> DEFINE x == Aggregated(y, t)
    <2>1. x \in Auth /\ x.token = y.token
      BY <1>1, <1>5, AggregatedDoes
    <2>2. \A n \in Models : x.models[n] # NoState =>
             /\ y.models[n] # NoState /\ x.models[n].level = y.models[n].level
             /\ x.models[n].skips = y.models[n].skips
             /\ x.models[n].recover = y.models[n].recover
      BY <1>1, <1>5, AggregatedDoes
    <2> HIDE DEF x
    <2>3. Fine(x)
      BY <1>5, <2>1, <2>2
    <2>4. QED
      BY <2>3 DEF x
  <1>6. ASSUME NEW bad \in State, m \in Models,
               \/ bad.level = 0
               \/ \E st \in State :
                       /\ st = Clean \/ (auth.models[m] # NoState /\ st = auth.models[m])
                       /\ o \notin {"ok", "scoped"}
                       /\ bad.level = Failed(st, o, t).level
                       /\ bad.skips = Failed(st, o, t).skips
                       /\ bad.recover = Failed(st, o, t).recover
        PROVE  Fine([auth EXCEPT !.models[m] = bad])
    <2> DEFINE y == [auth EXCEPT !.models[m] = bad]
    <2>1. y = [auth EXCEPT !.models = [auth.models EXCEPT ![m] = bad]]
      BY DEF Auth
    <2>2. [auth.models EXCEPT ![m] = bad] \in [Models -> State \cup {NoState}]
      BY <1>1, <1>6
    <2>3. y \in Auth /\ y.models = [auth.models EXCEPT ![m] = bad] /\ y.token = auth.token
      BY <2>1, <2>2 DEF Auth
    <2>4. \A n \in Models : y.models[n] = IF n = m THEN bad ELSE auth.models[n]
      BY <1>1, <2>3
    <2> HIDE DEF y
    <2>5. Fine(y)
      BY <1>6, <2>3, <2>4
    <2>6. QED
      BY <2>5 DEF y
  <1> HIDE DEF Fine
  <1>7. CASE o = "ok" /\ m = NoModel
    <2>1. z = [auth EXCEPT !.top = Clean]
      BY <1>7 DEF AfterResult
    <2>2. Fine(z)
      BY <1>3, <2>1, CleanType
    <2>3. QED
      BY <2>2 DEF Fine
  <1>8. CASE o = "ok" /\ m # NoModel
    <2> DEFINE y == [auth EXCEPT !.models[m] = Clean]
               agg == Aggregated(y, t)
    <2>1. z = IF HasModelError(agg) THEN agg ELSE [agg EXCEPT !.top.err = "none"]
      BY <1>8 DEF AfterResult
    <2>2. Clean.level = 0
      BY DEF Clean
    <2>3. Fine(y)
      BY <1>6, <1>8, <2>2, CleanType
    <2> HIDE DEF y, z
    <2>4. Fine(agg)
      BY <1>5, <2>3
    <2> HIDE DEF agg
    <2>5. Fine(z)
      BY <1>4, <2>1, <2>4
    <2>6. QED
      BY <2>5 DEF Fine, z
  <1>9. CASE o \notin {"ok", "scoped"} /\ m = NoModel
    <2> DEFINE d == IF o = "unsupported" THEN "transient" ELSE o
    <2>1. z = [auth EXCEPT !.top = Failed(auth.top, d, t)]
      BY <1>9 DEF AfterResult
    <2> HIDE DEF d
    <2>2. Fine(z)
      BY <1>1, <1>3, <2>1, FailedType
    <2>3. QED
      BY <2>2 DEF Fine
  <1>10. CASE o \notin {"ok", "scoped"} /\ m # NoModel
    <2> DEFINE st == IF auth.models[m] = NoState THEN Clean ELSE auth.models[m]
               bad == Failed(st, o, t)
               y == [auth EXCEPT !.models[m] = bad]
               x == [y EXCEPT !.top.err = bad.err]
    <2>1. z = Aggregated([auth EXCEPT !.models[m] = bad, !.top.err = bad.err], t)
      BY <1>10 DEF AfterResult
    <2>2. [auth EXCEPT !.models[m] = bad, !.top.err = bad.err] = x
      OBVIOUS
    <2>3. m \in Models /\ st \in State
      BY <1>1, <1>10, CleanType
    <2>4. st = Clean \/ (auth.models[m] # NoState /\ st = auth.models[m])
      OBVIOUS
    <2> HIDE DEF st, z
    <2>5. bad \in State /\ bad.err \in {"none", "unauthorized", "other"}
      <3>1. bad \in State
        BY <2>3, FailedType
      <3> HIDE DEF bad
      <3>2. QED
        BY <3>1 DEF State
    <2>6. Fine(y)
      BY <1>6, <1>10, <2>3, <2>4, <2>5
    <2> HIDE DEF y, bad
    <2>7. Fine(x)
      BY <1>4, <2>5, <2>6
    <2> HIDE DEF x
    <2>8. Fine(z)
      BY <1>5, <2>1, <2>2, <2>7
    <2>9. QED
      BY <2>8 DEF Fine, z
  <1>11. QED
    BY <1>2, <1>7, <1>8, <1>9, <1>10

-----------------------------------------------------------------------------
(* Goroutines: the steps that a todo list holds, and what Doing makes of   *)
(* it.                                                                     *)

LEMMA NothingToDo == <<>> \in Seq(Later) /\ Steps(<<>>) = {}
  BY DEF Steps

LEMMA OneStep ==
    ASSUME NEW x \in Later
    PROVE  <<x>> \in Seq(Later) /\ Steps(<<x>>) = {x}
  BY DEF Steps

LEMMA StepsAfter ==
    ASSUME NEW s \in Seq(Later), NEW u \in Seq(Later)
    PROVE  s \o u \in Seq(Later) /\ Steps(s \o u) = Steps(s) \cup Steps(u)
  <1> DEFINE c == s \o u
  <1>1. c \in Seq(Later) /\ Len(c) = Len(s) + Len(u) /\ DOMAIN c = 1 .. Len(c)
    OBVIOUS
  <1>2. DOMAIN s = 1 .. Len(s) /\ DOMAIN u = 1 .. Len(u) /\ Len(s) \in Nat /\ Len(u) \in Nat
    OBVIOUS
  <1>3. \A i \in DOMAIN s : i \in DOMAIN c /\ c[i] = s[i]
    BY <1>1, <1>2
  <1>4. \A i \in DOMAIN u : i + Len(s) \in DOMAIN c /\ c[i + Len(s)] = u[i]
    BY <1>1, <1>2
  <1>5. \A i \in DOMAIN c : \/ i \in DOMAIN s /\ c[i] = s[i]
                            \/ i - Len(s) \in DOMAIN u /\ c[i] = u[i - Len(s)]
    BY <1>1, <1>2
  <1> HIDE DEF c
  <1>6. Steps(c) \subseteq Steps(s) \cup Steps(u)
    BY <1>5 DEF Steps
  <1>7. Steps(s) \subseteq Steps(c)
    BY <1>3 DEF Steps
  <1>8. Steps(u) \subseteq Steps(c)
    BY <1>4 DEF Steps
  <1>9. QED
    BY <1>1, <1>6, <1>7, <1>8 DEF c

LEMMA WhenSteps ==
    ASSUME NEW c \in BOOLEAN, NEW s \in Seq(Later)
    PROVE  When(c, s) \in Seq(Later) /\ Steps(When(c, s)) = (IF c THEN Steps(s) ELSE {})
  BY NothingToDo DEF When

(* The load of the saved cooldowns comes last. *)
LoadLast(todo) == \A i \in DOMAIN todo : todo[i] = "load" => i = Len(todo)

LEMMA NoLoad ==
    ASSUME NEW todo, "load" \notin Steps(todo)
    PROVE  LoadLast(todo)
  BY DEF Steps, LoadLast

(* What the steps of a todo list need. *)
Fitting(a, ms, snap, todo) ==
    /\ a \in Auths \cup {NoAuth} /\ ms \subseteq Models \cup {NoModel}
    /\ snap \in Entry /\ todo \in Seq(Later) /\ LoadLast(todo)
    /\ Steps(todo) \subseteq {"persist", "load"} \/ a \in Auths
    /\ "file" \in Steps(todo) => snap \in Auth
    /\ Steps(todo) \cap {"suspend", "resume"} # {} => ms \subseteq Models

Sound(r) == Goroutine(r) /\ Equipped(r)

LEMMA IdleSound == Sound(Idle) /\ "persist" \notin Ahead(Idle) /\ Idle.pc = "idle"
  <1>1. Goroutine(Idle)
    BY ConductorAssumption, NothingToDo DEF Goroutine, Idle, Entry
  <1>2. Ahead(Idle) = {"idle"}
    BY NothingToDo DEF Ahead, Idle
  <1>3. Idle.todo = <<>> /\ Idle.pc = "idle"
    BY DEF Idle
  <1>4. Equipped(Idle)
    BY <1>2, <1>3 DEF Equipped, Steps
  <1>5. QED
    BY <1>1, <1>2, <1>3, <1>4 DEF Sound

LEMMA TailSteps ==
    ASSUME NEW todo \in Seq(Later), todo # <<>>
    PROVE  Steps(todo) = {Head(todo)} \cup Steps(Tail(todo))
  <1>1. /\ Head(todo) = todo[1] /\ Len(todo) \in Nat \ {0} /\ Len(Tail(todo)) = Len(todo) - 1
        /\ \A i \in 1 .. Len(Tail(todo)) : Tail(todo)[i] = todo[i + 1]
        /\ DOMAIN todo = 1 .. Len(todo) /\ DOMAIN Tail(todo) = 1 .. Len(Tail(todo))
    OBVIOUS
  <1>2. \A i \in DOMAIN todo : i = 1 \/ (i - 1 \in DOMAIN Tail(todo)
                                         /\ todo[i] = Tail(todo)[i - 1])
    BY <1>1
  <1>3. \A i \in DOMAIN Tail(todo) : i + 1 \in DOMAIN todo
    BY <1>1
  <1>4. 1 \in DOMAIN todo
    BY <1>1
  <1>5. Steps(todo) \subseteq {Head(todo)} \cup Steps(Tail(todo))
    <2>1. ASSUME NEW i \in DOMAIN todo PROVE todo[i] \in {Head(todo)} \cup Steps(Tail(todo))
      <3>1. CASE i = 1
        BY <1>1, <3>1
      <3>2. CASE i # 1
        <4>1. i - 1 \in DOMAIN Tail(todo) /\ todo[i] = Tail(todo)[i - 1]
          BY <1>2, <3>2
        <4>2. QED
          BY <4>1 DEF Steps
      <3>3. QED
        BY <3>1, <3>2
    <2>2. QED
      BY <2>1 DEF Steps
  <1>6. Steps(Tail(todo)) \subseteq Steps(todo)
    BY <1>1, <1>3 DEF Steps
  <1>7. Head(todo) \in Steps(todo)
    BY <1>1, <1>4 DEF Steps
  <1>8. QED
    BY <1>5, <1>6, <1>7

LEMMA DoingDoes ==
    ASSUME NEW p, NEW a, NEW ms, NEW snap, NEW todo, Fitting(a, ms, snap, todo),
           proc[p].m \in Models \cup {NoModel}
    PROVE  LET d == Doing(p, a, ms, snap, todo) IN
           /\ Sound(d) /\ d.pc \in Later \cup {"idle"}
           /\ "persist" \in Ahead(d) <=> "persist" \in Steps(todo)
  <1> DEFINE d == Doing(p, a, ms, snap, todo)
  <1>1. CASE todo = <<>>
    <2>1. d = Idle
      BY <1>1 DEF Doing
    <2>2. QED
      BY <1>1, <2>1, IdleSound, NothingToDo
  <1>2. CASE todo # <<>>
    <2>1. /\ todo \in Seq(Later) /\ Head(todo) \in Later /\ Tail(todo) \in Seq(Later)
          /\ Head(todo) = todo[1] /\ Len(todo) \in Nat \ {0} /\ Len(Tail(todo)) = Len(todo) - 1
          /\ \A i \in 1 .. Len(Tail(todo)) : Tail(todo)[i] = todo[i + 1]
          /\ DOMAIN todo = 1 .. Len(todo) /\ DOMAIN Tail(todo) = 1 .. Len(Tail(todo))
      BY <1>2 DEF Fitting
    <2>2. d = [Idle EXCEPT !.pc = Head(todo), !.a = a, !.m = proc[p].m, !.ms = ms,
                           !.snap = snap, !.todo = Tail(todo)]
      BY <1>2 DEF Doing
    <2>3. /\ DOMAIN d = DOMAIN Idle
          /\ d.pc = Head(todo) /\ d.a = a /\ d.m = proc[p].m /\ d.ms = ms /\ d.snap = snap
          /\ d.todo = Tail(todo) /\ d.token = 0 /\ d.tried = FALSE /\ d.left = {}
      BY <2>2 DEF Idle
    <2>4. Steps(todo) = {Head(todo)} \cup Steps(Tail(todo))
      BY <1>2, TailSteps DEF Fitting
    <2> HIDE DEF d
    <2>5. Ahead(d) = Steps(todo)
      BY <2>3, <2>4 DEF Ahead
    <2>6. d.pc \in Later
      BY <2>1, <2>3
    <2>7. Goroutine(d)
      <3>1. d.pc \notin {"rebuild", "republish", "saving", "restore"}
        BY <2>6 DEF Later
      <3>2. /\ a \in Auths \cup {NoAuth} /\ ms \subseteq Models \cup {NoModel}
            /\ snap \in Entry
        BY DEF Fitting
      <3>3. 0 \in Nat /\ FALSE \in BOOLEAN /\ {} \subseteq Auths
        OBVIOUS
      <3>4. QED
        BY <2>1, <2>3, <3>1, <3>2, <3>3 DEF Goroutine
    <2>8. Equipped(d)
      <3>1. d.pc = "load" => d.todo = <<>>
        <4>1. CASE d.pc = "load"
          <5>1. Len(todo) = 1
            BY <2>1, <2>3, <4>1 DEF Fitting, LoadLast
          <5>2. QED
            BY <2>1, <2>3, <5>1
        <4>2. QED
          BY <4>1
      <3>2. \A i \in DOMAIN d.todo : d.todo[i] = "load" => i = Len(d.todo)
        <4> SUFFICES ASSUME NEW i \in DOMAIN Tail(todo), Tail(todo)[i] = "load"
                     PROVE  i = Len(Tail(todo))
          BY <2>3
        <4>1. i + 1 \in DOMAIN todo /\ todo[i + 1] = "load"
          BY <2>1
        <4>2. i + 1 = Len(todo)
          BY <4>1 DEF Fitting, LoadLast
        <4>3. QED
          BY <2>1, <4>2
      <3>3. Ahead(d) \cap {"exec", "rejected", "edit", "remove", "publish", "reschedule",
                      "file", "unschedule", "suspend", "resume", "lock", "refresh",
                      "update", "unlock"} # {} => d.a \in Auths
        BY <2>3, <2>5 DEF Fitting
      <3>4. "edit" \notin Ahead(d) /\ "refresh" \notin Ahead(d) /\ "update" \notin Ahead(d)
        <4>1. Steps(todo) \subseteq Later
          BY <2>1 DEF Steps
        <4>2. QED
          BY <2>5, <4>1 DEF Later
      <3>5. Ahead(d) \cap {"edit", "file", "refresh", "update"} # {} => d.snap \in Auth
        BY <2>3, <2>5, <3>4 DEF Fitting
      <3>6. Ahead(d) \cap {"suspend", "resume", "update"} # {} => d.ms \subseteq Models
        BY <2>3, <2>5, <3>4 DEF Fitting
      <3>7. d.pc \in {"idle", "exec", "rejected", "rebuild", "repick", "edit", "remove",
                 "load", "restore", "lock", "refresh", "update"} => d.todo = <<>>
        BY <2>6, <3>1 DEF Later
      <3>8. d.pc # "republish"
        BY <2>6 DEF Later
      <3>9. QED
        BY <3>2, <3>3, <3>5, <3>6, <3>7, <3>8 DEF Equipped
    <2>9. QED
      BY <2>5, <2>6, <2>7, <2>8 DEF Sound, d
  <1>3. QED
    BY <1>1, <1>2

(* A goroutine that moves on. *)
Moves(p, d) ==
    /\ p \in Procs /\ Sound(d)
    /\ proc' = [proc EXCEPT ![p] = d]

(* It moves without touching the cooldown files, and forgets no save. *)
MovesQuietly(p) ==
    /\ proc[p].pc # "saving"
    /\ \E d : /\ Moves(p, d) /\ d.pc \notin {"saving", "restore", "edit"}
              /\ "persist" \in Ahead(proc[p]) => "persist" \in Ahead(d)

ProcType == DOMAIN proc = Procs /\ \A p \in Procs : Goroutine(proc[p])

LEMMA Moved ==
    ASSUME ProcType, HandsInv, NEW p, NEW d, Moves(p, d)
    PROVE  /\ ProcType' /\ HandsInv'
           /\ p \in Procs /\ proc'[p] = d /\ \A q \in Procs : q # p => proc'[q] = proc[q]
  <1>1. /\ DOMAIN proc' = Procs /\ p \in Procs /\ proc'[p] = d
        /\ \A q \in Procs : q # p => proc'[q] = proc[q]
    BY DEF Moves, ProcType
  <1>2. ASSUME NEW q \in Procs PROVE Goroutine(proc'[q]) /\ Equipped(proc'[q])
    <2>1. CASE q = p
      BY <1>1, <2>1 DEF Moves, Sound
    <2>2. CASE q # p
      BY <1>1, <2>2 DEF ProcType, HandsInv
    <2>3. QED
      BY <2>1, <2>2
  <1>3. ProcType'
    BY <1>1, <1>2 DEF ProcType, Goroutine
  <1>4. HandsInv'
    BY <1>2 DEF HandsInv
  <1>5. QED
    BY <1>1, <1>3, <1>4

(* The rest of an operation fits the goroutine that has it. *)
LEMMA RestFits ==
    ASSUME ProcType, HandsInv, NEW p \in Procs,
           proc[p].pc \notin {"exec", "rejected", "edit", "remove"}
    PROVE  /\ Fitting(proc[p].a, proc[p].ms, proc[p].snap, proc[p].todo)
           /\ proc[p].m \in Models \cup {NoModel}
  <1> DEFINE r == proc[p]
  <1>1. Goroutine(r) /\ Equipped(r)
    BY DEF ProcType, HandsInv
  <1> HIDE DEF r
  <1>2. Steps(r.todo) \subseteq Later /\ Steps(r.todo) \subseteq Ahead(r)
    BY <1>1 DEF Steps, Goroutine, Ahead
  <1>3. Steps(r.todo) \subseteq {"persist", "load"} \/ r.a \in Auths
    BY <1>1, <1>2 DEF Equipped, Later
  <1>4. /\ "file" \in Steps(r.todo) => r.snap \in Auth
        /\ Steps(r.todo) \cap {"suspend", "resume"} # {} => r.ms \subseteq Models
    BY <1>1, <1>2 DEF Equipped
  <1>5. Fitting(r.a, r.ms, r.snap, r.todo) /\ r.m \in Models \cup {NoModel}
    BY <1>1, <1>3, <1>4 DEF Fitting, Goroutine, Equipped, LoadLast
  <1>6. QED
    BY <1>5 DEF r

LEMMA ContinueDoes ==
    ASSUME ProcType, HandsInv, NEW p \in Procs,
           proc[p].pc \notin {"exec", "rejected", "edit", "remove"}
    PROVE  /\ Sound(Continue(p)) /\ Continue(p).pc \in Later \cup {"idle"}
           /\ "persist" \in Ahead(Continue(p)) <=> "persist" \in Steps(proc[p].todo)
  BY RestFits, DoingDoes DEF Continue

LEMMA ContinuesQuietly ==
    ASSUME ProcType, HandsInv, NEW p \in Procs,
           proc[p].pc \notin {"exec", "rejected", "edit", "remove", "saving", "persist"},
           Goto(p, Continue(p))
    PROVE  MovesQuietly(p)
  <1>1. Moves(p, Continue(p)) /\ Continue(p).pc \in Later \cup {"idle"}
    BY ContinueDoes DEF Moves, Goto
  <1>2. "persist" \in Ahead(proc[p]) => "persist" \in Ahead(Continue(p))
    BY ContinueDoes DEF Ahead
  <1>3. Continue(p).pc \notin {"saving", "restore", "edit"}
    BY <1>1 DEF Later
  <1>4. QED
    BY <1>1, <1>2, <1>3 DEF MovesQuietly

(* A goroutine with nothing more to do may do anything next. *)
LEMMA NoneForgotten ==
    ASSUME HandsInv, NEW p \in Procs,
           proc[p].pc \in {"idle", "exec", "rejected", "rebuild", "repick", "edit",
                           "remove", "load", "restore", "lock", "refresh", "update"}
    PROVE  "persist" \notin Ahead(proc[p])
  BY NothingToDo DEF HandsInv, Equipped, Ahead

LEMMA StartsQuietly ==
    ASSUME HandsInv, NEW p \in Procs, NEW d, Goto(p, d), Sound(d),
           d.pc \notin {"saving", "restore", "edit"},
           proc[p].pc \in {"idle", "exec", "rejected", "rebuild", "repick", "edit",
                           "remove", "load", "restore", "lock", "refresh", "update"}
    PROVE  MovesQuietly(p)
  BY NoneForgotten DEF MovesQuietly, Moves, Goto

(* Who saves keeps the lock, for as long as the lock is not taken away. *)
LEMMA QuietMutex ==
    ASSUME ProcType, HandsInv, MutexInv, NEW p, MovesQuietly(p),
           cfgMu' = cfgMu \/ cfgMu = {}
    PROVE  MutexInv'
  <1>1. PICK d : Moves(p, d) /\ d.pc \notin {"saving", "restore", "edit"}
    BY DEF MovesQuietly
  <1>2. /\ proc'[p] = d /\ \A q \in Procs : q # p => proc'[q] = proc[q]
    BY <1>1, Moved
  <1>3. QED
    BY <1>1, <1>2 DEF MutexInv

LEMMA QuietRecords ==
    ASSUME ProcType, HandsInv, RecordsInv, NEW p, MovesQuietly(p), UNCHANGED store
    PROVE  RecordsInv'
  <1>1. PICK d : Moves(p, d) /\ d.pc \notin {"saving", "restore", "edit"}
    BY DEF MovesQuietly
  <1>2. /\ proc'[p] = d /\ \A q \in Procs : q # p => proc'[q] = proc[q]
    BY <1>1, Moved
  <1>3. ASSUME NEW q \in Procs, proc'[q].pc \in {"saving", "restore"}
        PROVE  q # p /\ proc'[q] = proc[q]
    BY <1>1, <1>2, <1>3
  <1>4. ASSUME NEW q \in Procs, proc'[q].pc \in {"saving", "restore"}, NEW a \in Auths
        PROVE  Single(proc'[q].copy[a])
    BY <1>3, <1>4 DEF RecordsInv
  <1>5. \A a \in Auths : Single(store'[a])
    BY DEF RecordsInv
  <1>6. QED
    BY <1>4, <1>5 DEF RecordsInv, Single

(* Nothing is lost where the cooldowns in the map do not grow. *)
LEMMA QuietSaved ==
    ASSUME ProcType, HandsInv, SavedInv, NEW p, MovesQuietly(p), UNCHANGED store,
           unsaved \subseteq unsaved',
           \A a \in Auths \ unsaved' :
              RecordsIf(cooling', auths'[a], now') \subseteq RecordsIf(cooling, auths[a], now)
    PROVE  SavedInv'
  <1>1. PICK d : /\ Moves(p, d) /\ d.pc \notin {"saving", "restore", "edit"}
                 /\ "persist" \in Ahead(proc[p]) => "persist" \in Ahead(d)
    BY DEF MovesQuietly
  <1>2. /\ p \in Procs /\ proc'[p] = d /\ \A q \in Procs : q # p => proc'[q] = proc[q]
    BY <1>1, Moved
  <1>3. ASSUME PersistAhead PROVE PersistAhead'
    <2>1. PICK q \in Procs : "persist" \in Ahead(proc[q])
      BY <1>3 DEF PersistAhead
    <2>2. "persist" \in Ahead(proc'[q])
      BY <1>1, <1>2, <2>1
    <2>3. QED
      BY <2>2 DEF PersistAhead, Ahead, Steps
  <1>4. ASSUME NEW q \in Procs, NEW a \in Auths
        PROVE  /\ Writes(q, a)' = Writes(q, a)
               /\ Writes(q, a) => proc'[q] = proc[q]
    <2>1. CASE q = p
      BY <1>1, <1>2, <2>1 DEF Writes, MovesQuietly
    <2>2. CASE q # p
      BY <1>2, <2>2 DEF Writes
    <2>3. QED
      BY <2>1, <2>2
  <1>5. CASE ~ PersistAhead
    <2>1. ASSUME NEW a \in Auths \ unsaved'
          PROVE  /\ \A q \in Procs : Writes(q, a)' =>
                       RecordsIf(cooling', auths'[a], now') \subseteq proc'[q].copy[a]
                 /\ (\A q \in Procs : ~ Writes(q, a)') =>
                       RecordsIf(cooling', auths'[a], now') \subseteq store'[a]
      BY <1>4, <1>5 DEF SavedInv, Records
    <2>2. QED
      BY <2>1 DEF SavedInv, Records
  <1>6. QED
    BY <1>3, <1>5 DEF SavedInv

LEMMA SaveAhead ==
    ASSUME ProcType, HandsInv, NEW p, NEW d, Moves(p, d), "persist" \in Ahead(d)
    PROVE  SavedInv'
  <1>1. p \in Procs /\ proc'[p] = d
    BY Moved
  <1>2. PersistAhead'
    BY <1>1 DEF PersistAhead, Ahead, Steps
  <1>3. QED
    BY <1>2 DEF SavedInv

-----------------------------------------------------------------------------
(* How each operation moves its goroutine. *)

VarType ==
    /\ now \in 1 .. MaxTime /\ cooling \in BOOLEAN
    /\ auths \in [Auths -> Entry] /\ sched \in [Auths -> Entry]
    /\ disk \in [Auths -> CredentialFile \cup {NoAuth}]
    /\ store \in [Auths -> SUBSET Record]
    /\ minted \in 1 .. MaxTokens /\ ops \in 0 .. MaxOps
    /\ heap \in [Auths -> Nat]
    /\ dirty \subseteq Auths /\ unsaved \subseteq Auths
    /\ suspended \subseteq Auths \X Models
    /\ cfgMu = {} \/ \E p \in Procs : cfgMu = {p}

LEMMA TypeParts == TypeOK <=> VarType /\ ProcType
  BY DEF TypeOK, VarType, ProcType

LEMMA NewSound ==
    ASSUME NEW d, Goroutine(d), d.todo = <<>>,
           d.pc \in {"exec", "rejected", "edit", "remove", "lock", "refresh", "update"}
              => d.a \in Auths,
           d.pc \in {"edit", "refresh", "update"} => d.snap \in Auth,
           d.pc = "update" => d.ms \subseteq Models,
           d.pc \notin {"publish", "reschedule", "file", "unschedule", "suspend", "resume",
                        "unlock"}
    PROVE  Sound(d) /\ Ahead(d) = {d.pc}
  <1>1. Ahead(d) = {d.pc}
    BY NothingToDo DEF Ahead
  <1>2. Equipped(d)
    BY <1>1, NothingToDo DEF Equipped
  <1>3. QED
    BY <1>1, <1>2 DEF Sound

LEMMA PickedMoves ==
    ASSUME VarType, HandsInv, NEW p \in Procs, NEW a \in Auths,
           NEW m \in Models \cup {NoModel}, Picked(p, a, m), proc[p].pc \in {"idle", "repick"}
    PROVE  MovesQuietly(p)
  <1> DEFINE d == [Idle EXCEPT !.pc = "exec", !.a = a, !.m = m, !.token = sched[a].token]
  <1>1. sched[a].token \in Nat
    BY ConductorAssumption DEF Picked, Ready, VarType, Entry, Auth
  <1>2. d.pc = "exec" /\ d.a = a /\ d.todo = <<>>
    BY DEF Idle
  <1>3. Goroutine(d)
    BY <1>1, NothingToDo DEF Goroutine, Idle, Entry
  <1>4. Goto(p, d)
    BY DEF Picked
  <1> HIDE DEF d
  <1>5. Sound(d)
    BY <1>2, <1>3, NewSound
  <1>6. QED
    BY <1>2, <1>4, <1>5, StartsQuietly

LEMMA PickFailsMoves ==
    ASSUME VarType, HandsInv, NEW p \in Procs, NEW m \in Requested, PickFails(p, m)
    PROVE  MovesQuietly(p)
  <1> DEFINE d == [Idle EXCEPT !.pc = "rebuild", !.m = m, !.copy = auths]
  <1>1. d.pc = "rebuild" /\ d.todo = <<>>
    BY DEF Idle
  <1>2. Goroutine(d)
    BY ConductorAssumption, NothingToDo DEF Goroutine, Idle, Entry, VarType
  <1>3. Goto(p, d) /\ proc[p].pc = "idle"
    BY DEF PickFails, Begin, At
  <1> HIDE DEF d
  <1>4. Sound(d)
    BY <1>1, <1>2, NewSound
  <1>5. QED
    BY <1>1, <1>3, <1>4, StartsQuietly

LEMMA RebuildMoves ==
    ASSUME ProcType, HandsInv, NEW p \in Procs, Rebuild(p)
    PROVE  MovesQuietly(p)
  <1> DEFINE d == [Idle EXCEPT !.pc = "repick", !.m = proc[p].m]
  <1>1. d.pc = "repick" /\ d.todo = <<>>
    BY DEF Idle
  <1>2. proc[p].m \in Models \cup {NoModel}
    BY DEF ProcType, Goroutine
  <1>3. Goroutine(d)
    BY <1>2, NothingToDo DEF Goroutine, Idle, Entry
  <1>4. Goto(p, d) /\ proc[p].pc = "rebuild"
    BY DEF Rebuild, At
  <1> HIDE DEF d
  <1>5. Sound(d)
    BY <1>1, <1>3, NewSound
  <1>6. QED
    BY <1>1, <1>4, <1>5, StartsQuietly

LEMMA GiveUpMoves ==
    ASSUME HandsInv, NEW p \in Procs, GiveUp(p)
    PROVE  MovesQuietly(p)
  BY IdleSound, StartsQuietly DEF GiveUp, At

LEMMA RegistrySteps ==
    ASSUME NEW m, NEW o, cooling \in BOOLEAN
    PROVE  /\ RegistryStep(m, o) \in Seq(Later)
           /\ Steps(RegistryStep(m, o)) \subseteq {"suspend", "resume"}
           /\ Steps(RegistryStep(m, o)) # {} => m # NoModel
  <1>1. /\ <<"resume">> \in Seq(Later) /\ Steps(<<"resume">>) = {"resume"}
        /\ <<"suspend">> \in Seq(Later) /\ Steps(<<"suspend">>) = {"suspend"}
    <2>1. "resume" \in Later /\ "suspend" \in Later
      BY DEF Later
    <2>2. QED
      BY <2>1, OneStep
  <1>2. QED
    BY <1>1, NothingToDo DEF RegistryStep, When

(* The steps after a result. *)
LEMMA ResultSteps ==
    ASSUME NEW changed \in BOOLEAN, NEW s \in Seq(Later), Steps(s) \subseteq {"suspend", "resume"}
    PROVE  LET todo == <<"publish">> \o When(changed, <<"persist">>) \o s IN
           /\ todo \in Seq(Later)
           /\ Steps(todo) = {"publish"} \cup (IF changed THEN {"persist"} ELSE {}) \cup Steps(s)
           /\ LoadLast(todo)
  <1>1. <<"publish">> \in Seq(Later) /\ Steps(<<"publish">>) = {"publish"}
        /\ <<"persist">> \in Seq(Later) /\ Steps(<<"persist">>) = {"persist"}
    <2>1. "publish" \in Later /\ "persist" \in Later
      BY DEF Later
    <2>2. QED
      BY <2>1, OneStep
  <1> DEFINE w == When(changed, <<"persist">>)
             x == <<"publish">> \o w
             y == x \o s
  <1>2. w \in Seq(Later) /\ Steps(w) = IF changed THEN {"persist"} ELSE {}
    BY <1>1, WhenSteps
  <1> HIDE DEF w
  <1>3. x \in Seq(Later) /\ Steps(x) = {"publish"} \cup Steps(w)
    <2>1. w \in Seq(Later) /\ <<"publish">> \in Seq(Later)
      BY <1>1, <1>2
    <2>2. x \in Seq(Later) /\ Steps(x) = Steps(<<"publish">>) \cup Steps(w)
      BY <2>1, StepsAfter
    <2> HIDE DEF x
    <2>3. QED
      BY <1>1, <2>2
  <1> HIDE DEF x
  <1>4. y \in Seq(Later) /\ Steps(y) = Steps(x) \cup Steps(s)
    BY <1>3, StepsAfter
  <1> HIDE DEF y
  <1>5. LoadLast(y)
    <2>1. "load" \notin Steps(y)
      BY <1>2, <1>3, <1>4
    <2>2. QED
      BY <2>1, NoLoad
  <1>6. QED
    BY <1>2, <1>3, <1>4, <1>5 DEF y, x, w

(* An operation on a goes on with the clone x; it holds no refresh lock. *)
Starts(p, a, x) ==
    \E ms, todo : /\ todo \in Seq(Later) /\ "unlock" \notin Steps(todo)
                  /\ Goto(p, Doing(p, a, ms, x, todo))

(* MarkResult: the credential, and a save wherever its cooldowns change. *)
LEMMA MarkResultDoes ==
    ASSUME VarType, ProcType, HandsInv, NEW p \in Procs, NEW o \in Outcomes, MarkResult(p, o)
    PROVE  /\ MovesQuietly(p)
           /\ LET a == proc[p].a  new == AfterResult(auths[a], proc[p].m, o, now) IN
              /\ a \in Auths
              /\ \/ auths[a] = NoAuth /\ UNCHANGED <<auths, disk>> /\ Goto(p, Idle)
                 \/ /\ auths[a] \in Auth /\ new \in Auth /\ new.token = auths[a].token
                    /\ Starts(p, a, new)
                    /\ auths' = [auths EXCEPT ![a] = new] /\ disk' = Saved(a, new)
                    /\ \/ RecordsIf(cooling, new, now) = RecordsIf(cooling, auths[a], now)
                       \/ \E d : Moves(p, d) /\ "persist" \in Ahead(d)
  <1> DEFINE a == proc[p].a
             m == proc[p].m
             old == auths[a]
             new == AfterResult(old, m, o, now)
             changed == \/ Records(old, now) # Records(new, now)
                        \/ o \notin {"ok", "scoped"} /\ \E r \in Records(new, now) : r.m = m
             todo == <<"publish">> \o When(changed, <<"persist">>) \o RegistryStep(m, o)
             d == Doing(p, a, {m}, new, todo)
  <1>1. proc[p].pc \in {"exec", "rejected"}
    BY DEF MarkResult, At
  <1>2. a \in Auths /\ m \in Models \cup {NoModel}
    BY <1>1 DEF HandsInv, Equipped, Ahead, ProcType, Goroutine
  <1>3. IF old = NoAuth THEN Goto(p, Idle) /\ UNCHANGED <<auths, disk>>
        ELSE /\ auths' = [auths EXCEPT ![a] = new]
             /\ disk' = Saved(a, new)
             /\ Goto(p, d)
    BY DEF MarkResult
  <1>4. CASE old = NoAuth
    <2>1. Goto(p, Idle) /\ UNCHANGED <<auths, disk>>
      BY <1>3, <1>4
    <2>2. MovesQuietly(p)
      BY <1>1, <2>1, IdleSound, StartsQuietly
    <2>3. QED
      BY <1>2, <1>4, <2>1, <2>2
  <1>5. CASE old # NoAuth
    <2>1. old \in Auth
      BY <1>2, <1>5 DEF VarType, Entry
    <2>2. new \in Auth /\ new.token = old.token
      <3>1. cooling \in BOOLEAN /\ now \in 1 .. MaxTime
        BY DEF VarType
      <3> HIDE DEF m, old, a
      <3>2. QED
        BY <1>2, <2>1, <3>1, AfterResultDoes
    <2>3. changed \in BOOLEAN
      OBVIOUS
    <2>4. Goto(p, d) /\ auths' = [auths EXCEPT ![a] = new] /\ disk' = Saved(a, new)
      BY <1>3, <1>5
    <2>5. ~ changed => Records(old, now) = Records(new, now)
      OBVIOUS
    <2> HIDE DEF changed
    <2>6. /\ RegistryStep(m, o) \in Seq(Later)
          /\ Steps(RegistryStep(m, o)) \subseteq {"suspend", "resume"}
          /\ Steps(RegistryStep(m, o)) # {} => m # NoModel
      BY RegistrySteps DEF VarType
    <2>7. /\ todo \in Seq(Later) /\ LoadLast(todo)
          /\ Steps(todo) = {"publish"} \cup (IF changed THEN {"persist"} ELSE {})
                           \cup Steps(RegistryStep(m, o))
      BY <2>3, <2>6, ResultSteps
    <2> HIDE DEF todo
    <2>8. Fitting(a, {m}, new, todo) /\ proc[p].m \in Models \cup {NoModel}
      BY <1>2, <2>2, <2>6, <2>7 DEF Fitting, Entry
    <2> HIDE DEF new
    <2>14. Starts(p, a, new)
      BY <2>4, <2>6, <2>7 DEF Starts
    <2>9. /\ Sound(d) /\ d.pc \in Later \cup {"idle"}
          /\ "persist" \in Ahead(d) <=> "persist" \in Steps(todo)
      BY <2>8, DoingDoes
    <2> HIDE DEF d
    <2>10. MovesQuietly(p)
      <3>1. d.pc \notin {"saving", "restore", "edit"}
        BY <2>9 DEF Later
      <3>2. QED
        BY <1>1, <2>4, <2>9, <3>1, StartsQuietly
    <2>11. changed => \E e : Moves(p, e) /\ "persist" \in Ahead(e)
      BY <2>4, <2>7, <2>9 DEF Moves, Goto
    <2>12. \/ RecordsIf(cooling, new, now) = RecordsIf(cooling, old, now)
           \/ \E e : Moves(p, e) /\ "persist" \in Ahead(e)
      BY <2>5, <2>11 DEF Records
    <2>13. QED
      BY <1>2, <2>1, <2>2, <2>4, <2>10, <2>12, <2>14 DEF new
  <1>6. QED
    BY <1>4, <1>5

LEMMA SmallMoves ==
    ASSUME ProcType, HandsInv, NEW p \in Procs,
           Publish(p) \/ Registry(p) \/ Reschedule(p) \/ WriteFile(p) \/ Unschedule(p)
    PROVE  MovesQuietly(p)
  <1>1. proc[p].pc \in {"publish", "suspend", "resume", "reschedule", "file", "unschedule"}
    BY DEF Publish, Registry, Reschedule, WriteFile, Unschedule, At
  <1>2. Goto(p, Continue(p))
    BY DEF Publish, Registry, Reschedule, WriteFile, Unschedule
  <1>3. QED
    BY <1>1, <1>2, ContinuesQuietly

(* Publishing several clones, then the rest. *)
LEMMA RepublishingDoes ==
    ASSUME NEW p, proc[p].m \in Models \cup {NoModel}, NEW copy \in [Auths -> Entry],
           NEW left, left \subseteq Auths, NEW todo \in Seq(Later), LoadLast(todo),
           Steps(todo) \subseteq {"persist", "load"}
    PROVE  LET d == Republishing(p, copy, left, todo) IN
           /\ Sound(d) /\ d.pc \notin {"saving", "restore", "edit"}
           /\ "persist" \in Ahead(d) <=> "persist" \in Steps(todo)
  <1> DEFINE d == Republishing(p, copy, left, todo)
  <1>1. CASE left = {}
    <2>1. d = Doing(p, NoAuth, {}, NoAuth, todo)
      BY <1>1 DEF Republishing
    <2>2. Fitting(NoAuth, {}, NoAuth, todo)
      BY DEF Fitting, Entry
    <2> HIDE DEF d
    <2>3. /\ Sound(d) /\ d.pc \in Later \cup {"idle"}
          /\ "persist" \in Ahead(d) <=> "persist" \in Steps(todo)
      BY <2>1, <2>2, DoingDoes
    <2>4. d.pc \notin {"saving", "restore", "edit"}
      BY <2>3 DEF Later
    <2>5. QED
      BY <2>3, <2>4 DEF d
  <1>2. CASE left # {}
    <2>1. d = [Idle EXCEPT !.pc = "republish", !.copy = copy, !.left = left, !.todo = todo]
      BY <1>2 DEF Republishing
    <2>2. d.pc = "republish" /\ d.todo = todo
      BY <2>1 DEF Idle
    <2>3. Goroutine(d)
      <3>1. /\ DOMAIN d = DOMAIN Idle /\ d.a = NoAuth /\ d.m = NoModel /\ d.ms = {}
            /\ d.snap = NoAuth /\ d.token = 0 /\ d.tried = FALSE /\ d.copy = copy
            /\ d.left = left
        BY <2>1 DEF Idle
      <3> HIDE DEF d
      <3>2. /\ NoAuth \in Auths \cup {NoAuth} /\ NoModel \in Models \cup {NoModel}
            /\ {} \subseteq Models \cup {NoModel} /\ NoAuth \in Entry
            /\ 0 \in Nat /\ FALSE \in BOOLEAN
        BY DEF Entry
      <3>3. QED
        BY <2>2, <3>1, <3>2 DEF Goroutine
    <2> HIDE DEF d
    <2>4. Ahead(d) \subseteq {"republish", "persist", "load"}
      BY <2>2 DEF Ahead
    <2>5. Equipped(d)
      BY <2>2, <2>4 DEF Equipped, LoadLast
    <2>6. "persist" \in Ahead(d) <=> "persist" \in Steps(todo)
      BY <2>2 DEF Ahead
    <2>7. QED
      BY <2>2, <2>3, <2>5, <2>6 DEF Sound, d
  <1>3. QED
    BY <1>1, <1>2

LEMMA RepublishMoves ==
    ASSUME ProcType, HandsInv, NEW p \in Procs, NEW a \in Auths, Republish(p, a)
    PROVE  MovesQuietly(p)
  <1> DEFINE r == proc[p]
             d == Republishing(p, r.copy, r.left \ {a}, r.todo)
  <1>1. r.pc = "republish" /\ Goto(p, d)
    BY DEF Republish, At
  <1>2. Goroutine(r) /\ Equipped(r)
    BY DEF ProcType, HandsInv
  <1>3. /\ r.m \in Models \cup {NoModel} /\ r.copy \in [Auths -> Entry]
        /\ r.left \ {a} \subseteq Auths /\ r.todo \in Seq(Later) /\ LoadLast(r.todo)
    BY <1>1, <1>2 DEF Goroutine, Equipped, LoadLast
  <1>4. Steps(r.todo) \subseteq {"persist", "load"}
    BY <1>1, <1>2 DEF Equipped
  <1>5. /\ Sound(d) /\ d.pc \notin {"saving", "restore", "edit"}
        /\ "persist" \in Ahead(d) <=> "persist" \in Steps(r.todo)
    BY <1>3, <1>4, RepublishingDoes
  <1> HIDE DEF d
  <1>6. "persist" \in Ahead(r) => "persist" \in Ahead(d)
    BY <1>1, <1>5 DEF Ahead
  <1>7. QED
    BY <1>1, <1>5, <1>6 DEF MovesQuietly, Moves, Goto

LEMMA SaveAndLoad ==
    LET todo == <<"persist", "load">> IN
    /\ todo \in Seq(Later) /\ LoadLast(todo) /\ Steps(todo) = {"persist", "load"}
  BY DEF Steps, LoadLast, Later

LEMMA SaveOnly ==
    LET todo == <<"persist">> IN
    /\ todo \in Seq(Later) /\ LoadLast(todo) /\ Steps(todo) = {"persist"}
  BY DEF Steps, LoadLast, Later

(* applyConfigRuntime: a save is ahead. *)
LEMMA SetConfigMoves ==
    ASSUME ProcType, HandsInv, NEW p \in Procs, SetConfig(p), auths' \in [Auths -> Entry]
    PROVE  /\ MovesQuietly(p)
           /\ \E d : Moves(p, d) /\ "persist" \in Ahead(d)
  <1> DEFINE left == {a \in Auths : auths'[a] # auths[a]}
             todo == <<"persist", "load">>
             d == Republishing(p, auths', left, todo)
  <1>1. proc[p].pc = "idle" /\ Goto(p, d)
    BY DEF SetConfig, Begin, At
  <1>2. proc[p].m \in Models \cup {NoModel} /\ left \subseteq Auths
    BY DEF ProcType, Goroutine
  <1>3. /\ todo \in Seq(Later) /\ LoadLast(todo) /\ Steps(todo) = {"persist", "load"}
    BY SaveAndLoad
  <1> HIDE DEF left, todo
  <1>4. Sound(d) /\ d.pc \notin {"saving", "restore", "edit"} /\ "persist" \in Ahead(d)
    <2>1. "persist" \in Steps(todo) /\ Steps(todo) \subseteq {"persist", "load"}
      BY <1>3
    <2>2. QED
      BY <1>2, <1>3, <2>1, RepublishingDoes
  <1> HIDE DEF d
  <1>5. QED
    BY <1>1, <1>4, StartsQuietly DEF Moves, Goto

LEMMA RestoreMoves ==
    ASSUME ProcType, HandsInv, NEW p \in Procs, Restore(p), auths' \in [Auths -> Entry]
    PROVE  /\ MovesQuietly(p)
           /\ \E d : Moves(p, d) /\ "persist" \in Ahead(d)
  <1> DEFINE left == {a \in Auths : Live(auths[a], proc[p].copy[a], now) # {}}
             todo == <<"persist">>
             d == Republishing(p, auths', left, todo)
  <1>1. proc[p].pc = "restore" /\ Goto(p, d)
    BY DEF Restore, At
  <1>2. proc[p].m \in Models \cup {NoModel} /\ left \subseteq Auths
    BY DEF ProcType, Goroutine
  <1>3. /\ todo \in Seq(Later) /\ LoadLast(todo) /\ Steps(todo) = {"persist"}
    BY SaveOnly
  <1> HIDE DEF left, todo
  <1>4. Sound(d) /\ d.pc \notin {"saving", "restore", "edit"} /\ "persist" \in Ahead(d)
    <2>1. "persist" \in Steps(todo) /\ Steps(todo) \subseteq {"persist", "load"}
      BY <1>3
    <2>2. QED
      BY <1>2, <1>3, <2>1, RepublishingDoes
  <1> HIDE DEF d
  <1>5. QED
    BY <1>1, <1>4, StartsQuietly DEF Moves, Goto

(* The steps of Update and Register. *)
LEMMA UpdateSteps ==
    LET todo == <<"publish", "reschedule", "file">> IN
    /\ todo \in Seq(Later) /\ LoadLast(todo)
    /\ Steps(todo) = {"publish", "reschedule", "file"}
  BY DEF Steps, LoadLast, Later

LEMMA UpdateThenSave ==
    ASSUME NEW c \in BOOLEAN, NEW after \in Seq(Later), "load" \notin Steps(after)
    PROVE  LET todo == <<"publish", "reschedule", "file">> \o When(c, <<"persist">>) \o after IN
           /\ todo \in Seq(Later) /\ LoadLast(todo)
           /\ Steps(todo) = {"publish", "reschedule", "file"}
                            \cup (IF c THEN {"persist"} ELSE {}) \cup Steps(after)
  <1> DEFINE u == <<"publish", "reschedule", "file">>
             w == When(c, <<"persist">>)
             x == u \o w
             y == x \o after
  <1>1. u \in Seq(Later) /\ Steps(u) = {"publish", "reschedule", "file"}
    BY UpdateSteps
  <1>2. w \in Seq(Later) /\ Steps(w) = IF c THEN {"persist"} ELSE {}
    <2>1. <<"persist">> \in Seq(Later) /\ Steps(<<"persist">>) = {"persist"}
      BY SaveOnly
    <2>2. QED
      BY <2>1, WhenSteps
  <1> HIDE DEF u, w
  <1>3. x \in Seq(Later) /\ Steps(x) = Steps(u) \cup Steps(w)
    BY <1>1, <1>2, StepsAfter
  <1> HIDE DEF x
  <1>4. y \in Seq(Later) /\ Steps(y) = Steps(x) \cup Steps(after)
    BY <1>3, StepsAfter
  <1> HIDE DEF y
  <1>5. LoadLast(y)
    <2>1. "load" \notin Steps(y)
      BY <1>1, <1>2, <1>3, <1>4
    <2>2. QED
      BY <2>1, NoLoad
  <1>6. QED
    BY <1>1, <1>2, <1>3, <1>4, <1>5 DEF y, x, w, u

(* Doing from a goroutine that has nothing else to do. *)
LEMMA DoesQuietly ==
    ASSUME ProcType, HandsInv, NEW p \in Procs, NEW a, NEW ms, NEW snap, NEW todo,
           Fitting(a, ms, snap, todo), Goto(p, Doing(p, a, ms, snap, todo)),
           proc[p].pc \in {"idle", "exec", "rejected", "rebuild", "repick", "edit",
                           "remove", "load", "restore", "lock", "refresh", "update"}
    PROVE  /\ MovesQuietly(p)
           /\ "persist" \in Steps(todo) => \E d : Moves(p, d) /\ "persist" \in Ahead(d)
  <1> DEFINE d == Doing(p, a, ms, snap, todo)
  <1>1. proc[p].m \in Models \cup {NoModel}
    BY DEF ProcType, Goroutine
  <1>2. /\ Sound(d) /\ d.pc \in Later \cup {"idle"}
        /\ "persist" \in Ahead(d) <=> "persist" \in Steps(todo)
    BY <1>1, DoingDoes
  <1>3. d.pc \notin {"saving", "restore", "edit"}
    BY <1>2 DEF Later
  <1>4. Goto(p, d)
    OBVIOUS
  <1> HIDE DEF d
  <1>5. MovesQuietly(p)
    BY <1>2, <1>3, <1>4, StartsQuietly
  <1>6. "persist" \in Steps(todo) => Moves(p, d) /\ "persist" \in Ahead(d)
    BY <1>2, <1>4 DEF Moves, Goto
  <1>7. QED
    BY <1>5, <1>6

(* Manager.Update: the credential it leaves in the map, and the rest of    *)
(* the operation.                                                          *)
(* What Update leaves in the map, and how its goroutine goes on. *)
UpdatedAs(p, a, auth, ms, after) ==
    \/ /\ auths[a] = NoAuth /\ UNCHANGED <<auths, unsaved>>
       /\ Goto(p, Doing(p, a, ms, auth, after))
    \/ \E inh \in Auth, new \in Auth, c \in BOOLEAN :
          /\ auths[a] \in Auth
          /\ inh.models \in {auths[a].models, auth.models} /\ inh.token = auth.token
          /\ new \in {inh, ClearedCooldown(inh, now)}
          /\ ~ cooling => new = ClearedCooldown(inh, now)
          /\ auths' = [auths EXCEPT ![a] = new]
          /\ unsaved' = IF Records(new, now) \subseteq Records(auths[a], now)
                        THEN unsaved ELSE unsaved \cup {a}
          /\ Goto(p, Doing(p, a, ms, new, <<"publish", "reschedule", "file">>
                                         \o When(c, <<"persist">>) \o after))

LEMMA UpdateToDoes ==
    ASSUME VarType, ProcType, HandsInv, NEW p \in Procs, NEW a \in Auths, NEW auth \in Auth,
           NEW ms, ms \subseteq Models, NEW after \in Seq(Later), "load" \notin Steps(after),
           proc[p].pc \in {"idle", "exec", "rejected", "rebuild", "repick", "edit",
                           "remove", "load", "restore", "lock", "refresh", "update"},
           UpdateTo(p, a, auth, ms, after)
    PROVE  MovesQuietly(p) /\ UpdatedAs(p, a, auth, ms, after)
  <1> DEFINE old == auths[a]
             none == \A m \in Models : auth.models[m] = NoState
             inh  == IF ~old.disabled /\ ~auth.disabled /\ none
                     THEN [auth EXCEPT !.models = old.models] ELSE auth
             new  == IF ~cooling \/ inh.disabled THEN ClearedCooldown(inh, now) ELSE inh
             todo == <<"publish", "reschedule", "file">> \o When(new # inh, <<"persist">>) \o after
  <1>1. IF old = NoAuth
        THEN Goto(p, Doing(p, a, ms, auth, after)) /\ UNCHANGED <<auths, unsaved>>
        ELSE /\ auths' = [auths EXCEPT ![a] = new]
             /\ unsaved' = IF Records(new, now) \subseteq Records(old, now)
                           THEN unsaved ELSE unsaved \cup {a}
             /\ Goto(p, Doing(p, a, ms, new, todo))
    BY DEF UpdateTo
  <1>2. ms \subseteq Models \cup {NoModel} /\ a \in Auths \cup {NoAuth}
    OBVIOUS
  <1>3. CASE old = NoAuth
    <2>1. Goto(p, Doing(p, a, ms, auth, after)) /\ UNCHANGED <<auths, unsaved>>
      BY <1>1, <1>3
    <2>2. Fitting(a, ms, auth, after)
      BY <1>2, NoLoad DEF Fitting, Entry
    <2>3. MovesQuietly(p)
      BY <2>1, <2>2, DoesQuietly
    <2>4. QED
      BY <1>3, <2>1, <2>3 DEF UpdatedAs
  <1>4. CASE old # NoAuth
    <2>1. old \in Auth
      BY <1>4 DEF VarType, Entry
    <2>2. inh \in Auth /\ inh.models \in {old.models, auth.models} /\ inh.token = auth.token
      <3>1. /\ [auth EXCEPT !.models = old.models] \in Auth
            /\ [auth EXCEPT !.models = old.models].models = old.models
            /\ [auth EXCEPT !.models = old.models].token = auth.token
        BY <2>1 DEF Auth
      <3>2. QED
        BY <3>1
    <2> HIDE DEF inh
    <2>3. new \in Auth /\ new \in {inh, ClearedCooldown(inh, now)}
          /\ (~ cooling => new = ClearedCooldown(inh, now))
      <3>1. now \in Nat
        BY ConductorAssumption DEF VarType
      <3>2. ClearedCooldown(inh, now) \in Auth
        BY <2>2, <3>1, ClearedDoes
      <3>3. QED
        BY <2>2, <3>2
    <2> HIDE DEF new
    <2>4. (new # inh) \in BOOLEAN
      OBVIOUS
    <2>5. /\ todo \in Seq(Later) /\ LoadLast(todo)
      BY <2>4, UpdateThenSave
    <2>6. /\ auths' = [auths EXCEPT ![a] = new]
          /\ unsaved' = IF Records(new, now) \subseteq Records(old, now)
                        THEN unsaved ELSE unsaved \cup {a}
          /\ Goto(p, Doing(p, a, ms, new, todo))
      BY <1>1, <1>4
    <2> HIDE DEF todo
    <2>7. Fitting(a, ms, new, todo)
      BY <1>2, <2>3, <2>5 DEF Fitting, Entry
    <2>8. MovesQuietly(p)
      BY <2>6, <2>7, DoesQuietly
    <2>9. QED
      BY <2>1, <2>2, <2>3, <2>4, <2>6, <2>8 DEF todo, UpdatedAs
  <1>5. QED
    BY <1>3, <1>4

LEMMA EditUpdateDoes ==
    ASSUME VarType, ProcType, HandsInv, NEW p \in Procs, EditUpdate(p)
    PROVE  /\ MovesQuietly(p) /\ proc[p].a \in Auths /\ proc[p].snap \in Auth
           /\ proc[p].pc = "edit"
           /\ \/ UNCHANGED <<auths, unsaved>>
              \/ \E inh \in Auth, new \in Auth :
                    /\ auths[proc[p].a] \in Auth
                    /\ inh.models \in {auths[proc[p].a].models, proc[p].snap.models}
                    /\ new \in {inh, ClearedCooldown(inh, now)}
                    /\ ~ cooling => new = ClearedCooldown(inh, now)
                    /\ auths' = [auths EXCEPT ![proc[p].a] = new]
                    /\ unsaved' = IF Records(new, now) \subseteq Records(auths[proc[p].a], now)
                                  THEN unsaved ELSE unsaved \cup {proc[p].a}
  <1> DEFINE a == proc[p].a
             auth == [proc[p].snap EXCEPT !.disabled = ~@]
  <1>1. proc[p].pc = "edit" /\ UpdateTo(p, a, auth, {}, <<>>)
    BY DEF EditUpdate, At
  <1>2. a \in Auths /\ proc[p].snap \in Auth
    BY <1>1 DEF HandsInv, Equipped, Ahead
  <1>3. auth \in Auth /\ auth.models = proc[p].snap.models
    BY <1>2 DEF Auth
  <1>4. <<>> \in Seq(Later) /\ "load" \notin Steps(<<>>) /\ {} \subseteq Models
    BY NothingToDo
  <1> HIDE DEF auth, a
  <1>5. /\ MovesQuietly(p)
        /\ \/ UNCHANGED <<auths, unsaved>>
           \/ \E inh \in Auth, new \in Auth :
                 /\ auths[a] \in Auth
                 /\ inh.models \in {auths[a].models, auth.models}
                 /\ new \in {inh, ClearedCooldown(inh, now)}
                 /\ ~ cooling => new = ClearedCooldown(inh, now)
                 /\ auths' = [auths EXCEPT ![a] = new]
                 /\ unsaved' = IF Records(new, now) \subseteq Records(auths[a], now)
                               THEN unsaved ELSE unsaved \cup {a}
    <2>1. MovesQuietly(p) /\ UpdatedAs(p, a, auth, {}, <<>>)
      BY <1>1, <1>2, <1>3, <1>4, UpdateToDoes
    <2>2. QED
      BY <2>1 DEF UpdatedAs
  <1>6. QED
    BY <1>1, <1>2, <1>3, <1>5 DEF a

LEMMA RegisterDoes ==
    ASSUME VarType, ProcType, HandsInv, NEW p \in Procs, NEW a \in Auths, Register(p, a)
    PROVE  /\ MovesQuietly(p) /\ minted' = minted + 1 /\ minted' \in 1 .. MaxTokens
           /\ \E f \in CredentialFile : auths' = [auths EXCEPT ![a] = Fresh(f)]
  <1> DEFINE f == [disabled |-> FALSE, token |-> minted']
             todo == <<"publish", "reschedule", "file">>
  <1>1. minted' = minted + 1 /\ minted' \in 1 .. MaxTokens
    BY ConductorAssumption DEF Register, VarType
  <1>2. f \in CredentialFile
    BY <1>1 DEF CredentialFile
  <1>3. auths' = [auths EXCEPT ![a] = Fresh(f)] /\ proc[p].pc = "idle"
    BY DEF Register, Begin, At
  <1>4. auths'[a] = Fresh(f)
    BY <1>3 DEF VarType
  <1>5. Goto(p, Doing(p, a, {}, auths'[a], todo))
    BY DEF Register
  <1> HIDE DEF f
  <1>6. /\ todo \in Seq(Later) /\ LoadLast(todo)
        /\ Steps(todo) = {"publish", "reschedule", "file"}
    BY UpdateSteps
  <1> HIDE DEF todo
  <1>7. auths'[a] \in Auth
    BY <1>2, <1>4, FreshDoes
  <1>8. Fitting(a, {}, auths'[a], todo)
    BY <1>6, <1>7 DEF Fitting, Entry
  <1>9. MovesQuietly(p)
    BY <1>3, <1>5, <1>8, DoesQuietly
  <1>10. QED
    BY <1>1, <1>2, <1>3, <1>9

LEMMA DeleteFileMoves ==
    ASSUME ProcType, HandsInv, NEW p \in Procs, NEW a \in Auths, DeleteFile(p, a)
    PROVE  MovesQuietly(p)
  <1> DEFINE todo == <<"remove">>
             d == [Idle EXCEPT !.pc = Head(todo), !.a = a, !.m = proc[p].m, !.ms = {},
                               !.snap = NoAuth, !.todo = Tail(todo)]
  <1>1. todo # <<>> /\ Head(todo) = "remove" /\ Tail(todo) = <<>>
    OBVIOUS
  <1>2. Goto(p, d) /\ proc[p].pc = "idle"
    BY <1>1 DEF DeleteFile, Begin, At, Doing
  <1> HIDE DEF todo
  <1>3. /\ DOMAIN d = DOMAIN Idle /\ d.pc = "remove" /\ d.a = a /\ d.m = proc[p].m /\ d.ms = {}
        /\ d.snap = NoAuth /\ d.token = 0 /\ d.tried = FALSE /\ d.left = {} /\ d.todo = <<>>
    BY <1>1 DEF Idle
  <1>4. proc[p].m \in Models \cup {NoModel}
    BY DEF ProcType, Goroutine
  <1>5. {} \subseteq Models \cup {NoModel} /\ NoAuth \in Entry /\ 0 \in Nat /\ FALSE \in BOOLEAN
    BY DEF Entry
  <1> HIDE DEF d
  <1>6. Goroutine(d)
    BY <1>3, <1>4, <1>5, NothingToDo DEF Goroutine
  <1>7. Sound(d)
    BY <1>3, <1>6, NewSound
  <1>8. QED
    BY <1>2, <1>3, <1>7, StartsQuietly

LEMMA RemoveSteps ==
    LET todo == <<"publish", "unschedule", "persist">> IN
    /\ todo \in Seq(Later) /\ LoadLast(todo)
    /\ Steps(todo) = {"publish", "unschedule", "persist"}
  BY DEF Steps, LoadLast, Later

LEMMA RemoveMoves ==
    ASSUME ProcType, HandsInv, NEW p \in Procs, Remove(p)
    PROVE  MovesQuietly(p)
  <1> DEFINE todo == <<"publish", "unschedule", "persist">>
             d == Doing(p, proc[p].a, {}, NoAuth, todo)
  <1>1. proc[p].pc = "remove" /\ (Goto(p, Idle) \/ Goto(p, d))
    BY DEF Remove, At
  <1>2. proc[p].a \in Auths
    BY <1>1 DEF HandsInv, Equipped, Ahead
  <1>3. /\ todo \in Seq(Later) /\ LoadLast(todo)
        /\ Steps(todo) = {"publish", "unschedule", "persist"}
    BY RemoveSteps
  <1> HIDE DEF todo
  <1>4. Fitting(proc[p].a, {}, NoAuth, todo)
    BY <1>2, <1>3 DEF Fitting, Entry
  <1>5. CASE Goto(p, Idle)
    BY <1>1, <1>5, IdleSound, StartsQuietly
  <1>6. CASE Goto(p, d)
    BY <1>1, <1>4, <1>6, DoesQuietly
  <1>7. QED
    BY <1>1, <1>5, <1>6

LEMMA ResetQuotaDoes ==
    ASSUME VarType, ProcType, HandsInv, NEW p \in Procs, NEW a \in Auths, ResetQuota(p, a)
    PROVE  /\ MovesQuietly(p) /\ auths[a] \in Auth
           /\ \E new \in Auth :
                 /\ new.token = auths[a].token /\ Starts(p, a, new)
                 /\ auths' = [auths EXCEPT ![a] = new] /\ disk' = Saved(a, new)
                 /\ \A m \in Models : new.models[m] # NoState => new.models[m].level = 0
                 /\ \/ Records(auths[a], now) = Records(new, now)
                    \/ \E d : Moves(p, d) /\ "persist" \in Ahead(d)
  <1> DEFINE old == auths[a]
             ms == [m \in Models |-> IF old.models[m] = NoState THEN NoState ELSE Clean]
             clean == [old EXCEPT !.models = ms]
             open == ClearedCooldown(clean, now)
             new  == IF open.disabled THEN open ELSE [open EXCEPT !.top.err = "none"]
             c == Records(old, now) # Records(new, now)
             todo == <<"resume", "publish">> \o When(c, <<"persist">>)
  <1>1. /\ proc[p].pc = "idle" /\ old # NoAuth
        /\ auths' = [auths EXCEPT ![a] = new] /\ disk' = Saved(a, new)
        /\ Goto(p, Doing(p, a, Models, new, todo))
    BY DEF ResetQuota, Begin, At
  <1>2. old \in Auth
    BY <1>1 DEF VarType, Entry
  <1>3. ms \in [Models -> State \cup {NoState}]
        /\ \A m \in Models : ms[m] # NoState => ms[m] = Clean
    BY CleanType
  <1> HIDE DEF ms
  <1>4. clean \in Auth /\ clean.models = ms /\ clean.token = old.token
    BY <1>2, <1>3 DEF Auth
  <1> HIDE DEF clean
  <1>5. /\ open \in Auth /\ open.token = old.token
        /\ \A m \in Models : open.models[m] # NoState => open.models[m].level = 0
    <2>1. now \in Nat
      BY ConductorAssumption DEF VarType
    <2>2. open \in Auth /\ open.token = old.token
      BY <1>4, <2>1, ClearedDoes
    <2>3. \A m \in Models : open.models[m] # NoState =>
              /\ clean.models[m] # NoState
              /\ open.models[m].level = 0 \/ open.models[m].level = clean.models[m].level
      BY <1>4, <2>1, ClearedDoes
    <2> HIDE DEF open
    <2>4. Clean.level = 0
      BY DEF Clean
    <2>5. QED
      BY <1>3, <1>4, <2>2, <2>3, <2>4
  <1> HIDE DEF open
  <1>6. /\ new \in Auth /\ new.token = old.token
        /\ \A m \in Models : new.models[m] # NoState => new.models[m].level = 0
    <2> DEFINE x == [open EXCEPT !.top.err = "none"]
    <2>1. open.top \in State /\ x = [open EXCEPT !.top = [open.top EXCEPT !.err = "none"]]
      BY <1>5 DEF Auth
    <2>2. [open.top EXCEPT !.err = "none"] \in State
      BY <2>1 DEF State
    <2>3. x \in Auth /\ x.models = open.models /\ x.token = open.token
      BY <1>5, <2>1, <2>2 DEF Auth
    <2> HIDE DEF x
    <2>4. new = open \/ new = x
      BY DEF x
    <2> HIDE DEF new
    <2>5. QED
      BY <1>5, <2>3, <2>4
  <1>7. c \in BOOLEAN /\ (~ c => Records(old, now) = Records(new, now))
    OBVIOUS
  <1> HIDE DEF new, c
  <1>8. /\ todo \in Seq(Later) /\ LoadLast(todo)
        /\ Steps(todo) = {"resume", "publish"} \cup (IF c THEN {"persist"} ELSE {})
    <2> DEFINE u == <<"resume", "publish">>
               w == When(c, <<"persist">>)
    <2>1. u \in Seq(Later) /\ Steps(u) = {"resume", "publish"}
      BY DEF Steps, Later
    <2>2. w \in Seq(Later) /\ Steps(w) = IF c THEN {"persist"} ELSE {}
      <3>1. <<"persist">> \in Seq(Later) /\ Steps(<<"persist">>) = {"persist"}
        BY SaveOnly
      <3>2. QED
        BY <1>7, <3>1, WhenSteps
    <2> HIDE DEF u, w
    <2>3. u \o w \in Seq(Later) /\ Steps(u \o w) = Steps(u) \cup Steps(w)
      BY <2>1, <2>2, StepsAfter
    <2>4. "load" \notin Steps(u \o w)
      BY <2>1, <2>2, <2>3
    <2>5. LoadLast(u \o w)
      BY <2>4, NoLoad
    <2>6. QED
      BY <2>1, <2>2, <2>3, <2>5 DEF u, w
  <1> HIDE DEF todo
  <1>9. Fitting(a, Models, new, todo)
    BY <1>6, <1>8 DEF Fitting, Entry
  <1>10. /\ MovesQuietly(p)
         /\ "persist" \in Steps(todo) => \E d : Moves(p, d) /\ "persist" \in Ahead(d)
    BY <1>1, <1>9, DoesQuietly
  <1>11. Starts(p, a, new)
    BY <1>1, <1>8 DEF Starts
  <1>12. QED
    BY <1>1, <1>2, <1>6, <1>7, <1>8, <1>10, <1>11

-----------------------------------------------------------------------------
(* Every step keeps the invariant. *)

LEMMA SchedulableType ==
    ASSUME NEW x \in Entry
    PROVE  Schedulable(x) \in Entry
  BY DEF Schedulable, Entry

LEMMA SavedType ==
    ASSUME VarType, NEW a \in Auths, NEW x \in Auth
    PROVE  Saved(a, x) \in [Auths -> CredentialFile \cup {NoAuth}]
  <1>1. File(x) \in CredentialFile
    BY DEF File, CredentialFile, Auth
  <1>2. QED
    BY <1>1 DEF Saved, VarType

LEMMA QuietStep ==
    ASSUME IndInv, NEW p, MovesQuietly(p), VarType', UNCHANGED store,
           cfgMu' = cfgMu \/ cfgMu = {}, SavedInv'
    PROVE  IndInv'
  <1>1. ProcType /\ HandsInv /\ MutexInv /\ RecordsInv
    BY TypeParts DEF IndInv
  <1>2. ProcType' /\ HandsInv'
    <2>1. PICK d : Moves(p, d)
      BY DEF MovesQuietly
    <2>2. QED
      BY <1>1, <2>1, Moved
  <1>3. MutexInv' /\ RecordsInv'
    BY <1>1, QuietMutex, QuietRecords
  <1>4. TypeOK'
    BY <1>2 DEF TypeOK, VarType, ProcType
  <1>5. QED
    BY <1>2, <1>3, <1>4 DEF IndInv

(* A step that leaves the map, the clock and the cooldown files alone. *)
LEMMA BystanderStep ==
    ASSUME IndInv, NEW p, MovesQuietly(p), VarType',
           UNCHANGED <<now, cooling, auths, store, unsaved, cfgMu>>
    PROVE  IndInv'
  <1>1. ProcType /\ HandsInv /\ SavedInv
    BY TypeParts DEF IndInv
  <1>2. SavedInv'
    <2>1. unsaved \subseteq unsaved' /\ UNCHANGED store
      OBVIOUS
    <2>2. \A a \in Auths \ unsaved' :
              RecordsIf(cooling', auths'[a], now') \subseteq RecordsIf(cooling, auths[a], now)
      OBVIOUS
    <2>3. QED
      BY <1>1, <2>1, <2>2, QuietSaved
  <1>3. QED
    BY <1>2, QuietStep

LEMMA TickStep ==
    ASSUME IndInv, Tick
    PROVE  IndInv'
  <1>1. VarType /\ ProcType
    BY TypeParts DEF IndInv
  <1>2. now' \in 1 .. MaxTime /\ now \in Nat /\ now' \in Nat /\ now <= now'
    BY <1>1, ConductorAssumption DEF Tick, VarType
  <1>3. UNCHANGED <<cooling, auths, sched, disk, store, unsaved, suspended, cfgMu,
                    heap, dirty, minted, ops, proc>>
    BY DEF Tick
  <1>4. TypeOK' /\ HandsInv' /\ MutexInv' /\ RecordsInv'
    <2>1. TypeOK'
      BY <1>2, <1>3 DEF IndInv, TypeOK, Goroutine
    <2>2. HandsInv' /\ MutexInv'
      BY <1>3 DEF IndInv, HandsInv, MutexInv
    <2>3. RecordsInv'
      BY <1>3 DEF IndInv, RecordsInv
    <2>4. QED
      BY <2>1, <2>2, <2>3
  <1>5. SavedInv'
    <2>1. ASSUME NEW a \in Auths
          PROVE  RecordsIf(cooling', auths'[a], now') \subseteq RecordsIf(cooling, auths[a], now)
      <3>1. auths[a] \in Entry
        BY <1>1 DEF VarType
      <3>2. RecordsIf(cooling, auths[a], now') \subseteq RecordsIf(cooling, auths[a], now)
        BY <1>2, <3>1, RecordsShrink
      <3>3. QED
        BY <1>3, <3>2
    <2>2. PersistAhead' = PersistAhead /\ \A q, a : Writes(q, a)' = Writes(q, a)
      BY <1>3 DEF PersistAhead, Writes
    <2>3. CASE PersistAhead
      BY <2>2, <2>3 DEF SavedInv
    <2>4. CASE ~ PersistAhead
      <3>1. ASSUME NEW a \in Auths \ unsaved
            PROVE  /\ \A q \in Procs : Writes(q, a)' =>
                         RecordsIf(cooling', auths'[a], now') \subseteq proc[q].copy[a]
                   /\ (\A q \in Procs : ~ Writes(q, a)') =>
                         RecordsIf(cooling', auths'[a], now') \subseteq store[a]
        BY <2>1, <2>2, <2>4 DEF IndInv, SavedInv, Records
      <3>2. QED
        BY <1>3, <3>1 DEF SavedInv, Records
    <2>5. QED
      BY <2>3, <2>4
  <1>6. QED
    BY <1>4, <1>5 DEF IndInv

LEMMA PickStep ==
    ASSUME IndInv, NEW p \in Procs, NEW a \in Auths, NEW m \in Requested, Pick(p, a, m)
    PROVE  IndInv'
  <1>1. VarType /\ ProcType /\ HandsInv
    BY TypeParts DEF IndInv
  <1>2. MovesQuietly(p)
    BY <1>1, ConductorAssumption, PickedMoves DEF Pick, Begin, At
  <1>3. VarType' /\ UNCHANGED <<now, cooling, auths, store, unsaved, cfgMu>>
    BY <1>1, ConductorAssumption DEF VarType, Pick, Picked, Begin, Spend
  <1>4. QED
    BY <1>2, <1>3, BystanderStep

LEMMA PickAgainStep ==
    ASSUME IndInv, NEW p \in Procs, NEW a \in Auths, PickAgain(p, a)
    PROVE  IndInv'
  <1>1. VarType /\ ProcType /\ HandsInv
    BY TypeParts DEF IndInv
  <1>2. proc[p].m \in Models \cup {NoModel}
    BY <1>1 DEF ProcType, Goroutine
  <1>3. MovesQuietly(p)
    BY <1>1, <1>2, PickedMoves DEF PickAgain, At
  <1>4. VarType' /\ UNCHANGED <<now, cooling, auths, store, unsaved, cfgMu>>
    BY <1>1 DEF VarType, PickAgain, Picked
  <1>5. QED
    BY <1>3, <1>4, BystanderStep

LEMMA PickFailsStep ==
    ASSUME IndInv, NEW p \in Procs, NEW m \in Requested, PickFails(p, m)
    PROVE  IndInv'
  <1>1. VarType /\ ProcType /\ HandsInv
    BY TypeParts DEF IndInv
  <1>2. MovesQuietly(p)
    BY <1>1, PickFailsMoves
  <1>3. VarType' /\ UNCHANGED <<now, cooling, auths, store, unsaved, cfgMu>>
    BY <1>1, ConductorAssumption DEF VarType, PickFails, Begin, Spend
  <1>4. QED
    BY <1>2, <1>3, BystanderStep

LEMMA RebuildStep ==
    ASSUME IndInv, NEW p \in Procs, Rebuild(p)
    PROVE  IndInv'
  <1>1. VarType /\ ProcType /\ HandsInv
    BY TypeParts DEF IndInv
  <1>2. MovesQuietly(p)
    BY <1>1, RebuildMoves
  <1>3. proc[p].copy \in [Auths -> Entry]
    BY <1>1 DEF ProcType, Goroutine, Rebuild, At
  <1>4. sched' \in [Auths -> Entry]
    <2>1. \A a \in Auths : Schedulable(proc[p].copy[a]) \in Entry
      BY <1>3, SchedulableType
    <2>2. QED
      BY <2>1 DEF Rebuild
  <1>5. VarType' /\ UNCHANGED <<now, cooling, auths, store, unsaved, cfgMu>>
    BY <1>1, <1>4 DEF VarType, Rebuild
  <1>6. QED
    BY <1>2, <1>5, BystanderStep

LEMMA GiveUpStep ==
    ASSUME IndInv, NEW p \in Procs, GiveUp(p)
    PROVE  IndInv'
  <1>1. VarType /\ ProcType /\ HandsInv
    BY TypeParts DEF IndInv
  <1>2. VarType' /\ UNCHANGED <<now, cooling, auths, store, unsaved, cfgMu>>
    BY <1>1 DEF VarType, GiveUp
  <1>3. QED
    BY <1>1, <1>2, GiveUpMoves, BystanderStep

LEMMA PublishStep ==
    ASSUME IndInv, NEW p \in Procs, Publish(p)
    PROVE  IndInv'
  <1>1. VarType /\ ProcType /\ HandsInv
    BY TypeParts DEF IndInv
  <1>2. proc[p].snap \in Entry
    BY <1>1 DEF ProcType, Goroutine
  <1>3. Schedulable(proc[p].snap) \in Entry
    BY <1>2, SchedulableType
  <1>4. VarType' /\ UNCHANGED <<now, cooling, auths, store, unsaved, cfgMu>>
    BY <1>1, <1>3 DEF VarType, Publish
  <1>5. QED
    BY <1>1, <1>4, SmallMoves, BystanderStep

LEMMA RegistryStepKeeps ==
    ASSUME IndInv, NEW p \in Procs, Registry(p)
    PROVE  IndInv'
  <1>1. VarType /\ ProcType /\ HandsInv
    BY TypeParts DEF IndInv
  <1>2. proc[p].a \in Auths /\ proc[p].ms \subseteq Models
    BY <1>1 DEF HandsInv, Equipped, Ahead, Registry, At
  <1>3. suspended' \subseteq Auths \X Models
    BY <1>1, <1>2 DEF VarType, Registry
  <1>4. VarType' /\ UNCHANGED <<now, cooling, auths, store, unsaved, cfgMu>>
    BY <1>1, <1>3 DEF VarType, Registry
  <1>5. QED
    BY <1>1, <1>4, SmallMoves, BystanderStep

LEMMA RescheduleStep ==
    ASSUME IndInv, NEW p \in Procs, Reschedule(p)
    PROVE  IndInv'
  <1>1. VarType /\ ProcType /\ HandsInv
    BY TypeParts DEF IndInv
  <1>2. proc[p].a \in Auths
    BY <1>1 DEF HandsInv, Equipped, Ahead, Reschedule, At
  <1>3. VarType' /\ UNCHANGED <<now, cooling, auths, store, unsaved, cfgMu>>
    BY <1>1, <1>2 DEF VarType, Reschedule
  <1>4. QED
    BY <1>1, <1>3, SmallMoves, BystanderStep

LEMMA WriteFileStep ==
    ASSUME IndInv, NEW p \in Procs, WriteFile(p)
    PROVE  IndInv'
  <1>1. VarType /\ ProcType /\ HandsInv
    BY TypeParts DEF IndInv
  <1>2. proc[p].a \in Auths /\ proc[p].snap \in Auth
    BY <1>1 DEF HandsInv, Equipped, Ahead, WriteFile, At
  <1>3. disk' \in [Auths -> CredentialFile \cup {NoAuth}]
    BY <1>1, <1>2, SavedType DEF WriteFile
  <1>4. VarType' /\ UNCHANGED <<now, cooling, auths, store, unsaved, cfgMu>>
    BY <1>1, <1>3 DEF VarType, WriteFile
  <1>5. QED
    BY <1>1, <1>4, SmallMoves, BystanderStep

LEMMA UnscheduleStep ==
    ASSUME IndInv, NEW p \in Procs, Unschedule(p)
    PROVE  IndInv'
  <1>1. VarType /\ ProcType /\ HandsInv
    BY TypeParts DEF IndInv
  <1>2. VarType' /\ UNCHANGED <<now, cooling, auths, store, unsaved, cfgMu>>
    BY <1>1 DEF VarType, Unschedule
  <1>3. QED
    BY <1>1, <1>2, SmallMoves, BystanderStep

LEMMA DeleteFileStep ==
    ASSUME IndInv, NEW p \in Procs, NEW a \in Auths, DeleteFile(p, a)
    PROVE  IndInv'
  <1>1. VarType /\ ProcType /\ HandsInv
    BY TypeParts DEF IndInv
  <1>2. VarType' /\ UNCHANGED <<now, cooling, auths, store, unsaved, cfgMu>>
    BY <1>1, ConductorAssumption DEF VarType, DeleteFile, Begin, Spend
  <1>3. QED
    BY <1>1, <1>2, DeleteFileMoves, BystanderStep

LEMMA RepublishStep ==
    ASSUME IndInv, NEW p \in Procs, NEW a \in Auths, Republish(p, a)
    PROVE  IndInv'
  <1>1. VarType /\ ProcType /\ HandsInv
    BY TypeParts DEF IndInv
  <1>2. proc[p].copy \in [Auths -> Entry]
    BY <1>1 DEF ProcType, Goroutine, Republish, At
  <1>3. Schedulable(proc[p].copy[a]) \in Entry
    BY <1>2, SchedulableType
  <1>4. VarType' /\ UNCHANGED <<now, cooling, auths, store, unsaved, cfgMu>>
    BY <1>1, <1>3 DEF VarType, Republish
  <1>5. QED
    BY <1>1, <1>4, RepublishMoves, BystanderStep

(* The steps that change the map. *)

(* One credential changes and its cooldowns do not grow, or a save is      *)
(* ahead.                                                                  *)
LEMMA OneChanges ==
    ASSUME IndInv, NEW p, MovesQuietly(p), NEW a \in Auths, NEW x \in Entry,
           auths' = [auths EXCEPT ![a] = x],
           UNCHANGED <<now, cooling, store>>, unsaved \subseteq unsaved',
           \/ RecordsIf(cooling, x, now) \subseteq RecordsIf(cooling, auths[a], now)
           \/ a \in unsaved'
           \/ \E d : Moves(p, d) /\ "persist" \in Ahead(d)
    PROVE  auths' \in [Auths -> Entry] /\ SavedInv'
  <1>1. VarType /\ ProcType /\ HandsInv /\ SavedInv
    BY TypeParts DEF IndInv
  <1>2. auths' \in [Auths -> Entry] /\ auths'[a] = x
        /\ \A b \in Auths : b # a => auths'[b] = auths[b]
    BY <1>1 DEF VarType
  <1>3. CASE \E d : Moves(p, d) /\ "persist" \in Ahead(d)
    BY <1>1, <1>2, <1>3, SaveAhead
  <1>4. CASE \/ RecordsIf(cooling, x, now) \subseteq RecordsIf(cooling, auths[a], now)
             \/ a \in unsaved'
    <2>1. \A b \in Auths \ unsaved' :
              RecordsIf(cooling', auths'[b], now') \subseteq RecordsIf(cooling, auths[b], now)
      <3> SUFFICES ASSUME NEW b \in Auths \ unsaved'
                   PROVE  RecordsIf(cooling', auths'[b], now') \subseteq RecordsIf(cooling, auths[b], now)
        OBVIOUS
      <3>1. CASE b = a
        BY <1>2, <1>4, <3>1
      <3>2. CASE b # a
        BY <1>2, <3>2
      <3>3. QED
        BY <3>1, <3>2
    <2>2. SavedInv'
      BY <1>1, <2>1, QuietSaved
    <2>3. QED
      BY <1>2, <2>2
  <1>5. QED
    BY <1>3, <1>4

LEMMA MarkResultStep ==
    ASSUME IndInv, NEW p \in Procs, NEW o \in Outcomes, MarkResult(p, o)
    PROVE  IndInv'
  <1>1. VarType /\ ProcType /\ HandsInv
    BY TypeParts DEF IndInv
  <1> DEFINE a == proc[p].a
             new == AfterResult(auths[a], proc[p].m, o, now)
  <1>2. MovesQuietly(p) /\ a \in Auths
    BY <1>1, MarkResultDoes
  <1>3. \/ auths[a] = NoAuth /\ UNCHANGED <<auths, disk>>
        \/ /\ auths[a] \in Auth /\ new \in Auth
           /\ auths' = [auths EXCEPT ![a] = new] /\ disk' = Saved(a, new)
           /\ \/ RecordsIf(cooling, new, now) = RecordsIf(cooling, auths[a], now)
              \/ \E d : Moves(p, d) /\ "persist" \in Ahead(d)
    BY <1>1, MarkResultDoes
  <1>4. UNCHANGED <<now, cooling, sched, store, unsaved, suspended, cfgMu, heap, dirty,
                    minted, ops>>
    BY DEF MarkResult
  <1> HIDE DEF a, new
  <1>5. CASE UNCHANGED <<auths, disk>>
    <2>1. VarType'
      BY <1>1, <1>4, <1>5 DEF VarType
    <2>2. QED
      BY <1>2, <1>4, <1>5, <2>1, BystanderStep
  <1>6. CASE /\ auths[a] \in Auth /\ new \in Auth
             /\ auths' = [auths EXCEPT ![a] = new] /\ disk' = Saved(a, new)
             /\ \/ RecordsIf(cooling, new, now) = RecordsIf(cooling, auths[a], now)
                \/ \E d : Moves(p, d) /\ "persist" \in Ahead(d)
    <2>1. new \in Entry /\ unsaved \subseteq unsaved'
      BY <1>4, <1>6 DEF Entry
    <2>2. auths' \in [Auths -> Entry] /\ SavedInv'
      BY <1>2, <1>4, <1>6, <2>1, OneChanges
    <2>3. disk' \in [Auths -> CredentialFile \cup {NoAuth}]
      BY <1>1, <1>2, <1>6, SavedType
    <2>4. VarType'
      BY <1>1, <1>4, <2>2, <2>3 DEF VarType
    <2>5. QED
      BY <1>2, <1>4, <2>2, <2>4, QuietStep
  <1>7. QED
    BY <1>3, <1>5, <1>6

LEMMA EditUpdateStep ==
    ASSUME IndInv, NEW p \in Procs, EditUpdate(p)
    PROVE  IndInv'
  <1>1. VarType /\ ProcType /\ HandsInv
    BY TypeParts DEF IndInv
  <1> DEFINE a == proc[p].a
  <1>2. MovesQuietly(p) /\ a \in Auths
    BY <1>1, EditUpdateDoes
  <1>3. \/ UNCHANGED <<auths, unsaved>>
        \/ \E new \in Auth :
              /\ auths' = [auths EXCEPT ![a] = new]
              /\ unsaved' = IF Records(new, now) \subseteq Records(auths[a], now)
                            THEN unsaved ELSE unsaved \cup {a}
    BY <1>1, EditUpdateDoes
  <1>4. UNCHANGED <<now, cooling, sched, disk, store, suspended, cfgMu, heap, dirty,
                    minted, ops>>
    BY DEF EditUpdate
  <1> HIDE DEF a
  <1>5. CASE UNCHANGED <<auths, unsaved>>
    <2>1. VarType'
      BY <1>1, <1>4, <1>5 DEF VarType
    <2>2. QED
      BY <1>2, <1>4, <1>5, <2>1, BystanderStep
  <1>6. ASSUME NEW new \in Auth, auths' = [auths EXCEPT ![a] = new],
               unsaved' = IF Records(new, now) \subseteq Records(auths[a], now)
                          THEN unsaved ELSE unsaved \cup {a}
        PROVE  IndInv'
    <2>1. /\ new \in Entry /\ unsaved \subseteq unsaved' /\ unsaved' \subseteq Auths
          /\ \/ RecordsIf(cooling, new, now) \subseteq RecordsIf(cooling, auths[a], now)
             \/ a \in unsaved'
      BY <1>1, <1>2, <1>6 DEF Entry, Records, VarType
    <2>2. auths' \in [Auths -> Entry] /\ SavedInv'
      BY <1>2, <1>4, <1>6, <2>1, OneChanges
    <2>3. VarType'
      BY <1>1, <1>4, <2>1, <2>2 DEF VarType
    <2>4. QED
      BY <1>2, <1>4, <2>2, <2>3, QuietStep
  <1>7. QED
    BY <1>3, <1>5, <1>6

LEMMA RegisterStep ==
    ASSUME IndInv, NEW p \in Procs, NEW a \in Auths, Register(p, a)
    PROVE  IndInv'
  <1>1. VarType /\ ProcType /\ HandsInv
    BY TypeParts DEF IndInv
  <1>2. MovesQuietly(p) /\ minted' \in 1 .. MaxTokens
    BY <1>1, RegisterDoes
  <1>3. PICK f \in CredentialFile : auths' = [auths EXCEPT ![a] = Fresh(f)]
    BY <1>1, RegisterDoes
  <1>4. /\ UNCHANGED <<now, cooling, sched, disk, store, unsaved, suspended, cfgMu, heap, dirty>>
        /\ ops' \in 0 .. MaxOps
    BY <1>1, ConductorAssumption DEF Register, Begin, Spend, VarType
  <1>5. Fresh(f) \in Entry /\ RecordsIf(cooling, Fresh(f), now) = {} /\ unsaved \subseteq unsaved'
    BY <1>4, FreshDoes DEF Entry
  <1>6. auths' \in [Auths -> Entry] /\ SavedInv'
    BY <1>2, <1>3, <1>4, <1>5, OneChanges
  <1>7. VarType'
    BY <1>1, <1>2, <1>4, <1>6 DEF VarType
  <1>8. QED
    BY <1>2, <1>4, <1>6, <1>7, QuietStep

LEMMA RemoveStep ==
    ASSUME IndInv, NEW p \in Procs, Remove(p)
    PROVE  IndInv'
  <1>1. VarType /\ ProcType /\ HandsInv
    BY TypeParts DEF IndInv
  <1>2. MovesQuietly(p)
    BY <1>1, RemoveMoves
  <1>3. proc[p].a \in Auths /\ auths' = [auths EXCEPT ![proc[p].a] = NoAuth]
    BY <1>1 DEF HandsInv, Equipped, Ahead, Remove, At
  <1>4. UNCHANGED <<now, cooling, sched, disk, store, unsaved, suspended, cfgMu,
                    heap, dirty, minted, ops>>
    BY DEF Remove
  <1>5. NoAuth \in Entry /\ RecordsIf(cooling, NoAuth, now) = {} /\ unsaved \subseteq unsaved'
    BY <1>4 DEF Entry, RecordsIf
  <1>6. auths' \in [Auths -> Entry] /\ SavedInv'
    BY <1>2, <1>3, <1>4, <1>5, OneChanges
  <1>7. VarType'
    BY <1>1, <1>4, <1>6 DEF VarType
  <1>8. QED
    BY <1>2, <1>4, <1>6, <1>7, QuietStep

LEMMA ResetQuotaStep ==
    ASSUME IndInv, NEW p \in Procs, NEW a \in Auths, ResetQuota(p, a)
    PROVE  IndInv'
  <1>1. VarType /\ ProcType /\ HandsInv
    BY TypeParts DEF IndInv
  <1>2. MovesQuietly(p)
    BY <1>1, ResetQuotaDoes
  <1>3. PICK new \in Auth :
            /\ auths' = [auths EXCEPT ![a] = new] /\ disk' = Saved(a, new)
            /\ \/ Records(auths[a], now) = Records(new, now)
               \/ \E d : Moves(p, d) /\ "persist" \in Ahead(d)
    BY <1>1, ResetQuotaDoes
  <1>4. /\ UNCHANGED <<now, cooling, sched, store, unsaved, suspended, cfgMu, heap, dirty, minted>>
        /\ ops' \in 0 .. MaxOps
    <2>1. VarType /\ Spend
      BY <1>1 DEF ResetQuota, Begin
    <2>2. ops' \in 0 .. MaxOps
      BY <2>1, ConductorAssumption DEF Spend, VarType
    <2>3. QED
      BY <1>1, <2>2 DEF ResetQuota
  <1>5. /\ new \in Entry /\ unsaved \subseteq unsaved'
        /\ \/ RecordsIf(cooling, new, now) \subseteq RecordsIf(cooling, auths[a], now)
           \/ \E d : Moves(p, d) /\ "persist" \in Ahead(d)
    BY <1>3, <1>4 DEF Entry, Records
  <1>6. auths' \in [Auths -> Entry] /\ SavedInv'
    BY <1>2, <1>3, <1>4, <1>5, OneChanges
  <1>7. disk' \in [Auths -> CredentialFile \cup {NoAuth}]
    BY <1>1, <1>3, SavedType
  <1>8. VarType'
    BY <1>1, <1>4, <1>6, <1>7 DEF VarType
  <1>9. QED
    BY <1>2, <1>4, <1>6, <1>8, QuietStep

LEMMA SetConfigStep ==
    ASSUME IndInv, NEW p \in Procs, SetConfig(p)
    PROVE  IndInv'
  <1>1. VarType /\ ProcType /\ HandsInv
    BY TypeParts DEF IndInv
  <1>2. /\ UNCHANGED <<now, sched, disk, store, unsaved, suspended, heap, dirty, minted>>
        /\ ops' \in 0 .. MaxOps /\ cfgMu = {} /\ cfgMu' = {p} /\ cooling' \in BOOLEAN
    BY <1>1, ConductorAssumption DEF SetConfig, Begin, Spend, VarType
  <1>3. auths' \in [Auths -> Entry]
    <2>1. now \in Nat
      BY <1>1, ConductorAssumption DEF VarType
    <2>2. ASSUME NEW a \in Auths, auths[a] # NoAuth PROVE ClearedCooldown(auths[a], now) \in Entry
      <3>1. auths[a] \in Auth
        BY <1>1, <2>2 DEF VarType, Entry
      <3>2. QED
        BY <2>1, <3>1, ClearedDoes DEF Entry
    <2>3. \A a \in Auths : auths[a] \in Entry
      BY <1>1 DEF VarType
    <2>4. \A a \in Auths :
             (IF auths[a] = NoAuth \/ (cooling' /\ ~auths[a].disabled)
              THEN auths[a] ELSE ClearedCooldown(auths[a], now)) \in Entry
      BY <2>2, <2>3
    <2>5. QED
      BY <2>4 DEF SetConfig
  <1>4. MovesQuietly(p) /\ SavedInv'
    BY <1>1, <1>3, SetConfigMoves, SaveAhead
  <1>5. VarType'
    BY <1>1, <1>2, <1>3 DEF VarType
  <1>6. QED
    BY <1>2, <1>4, <1>5, QuietStep

LEMMA RestoreStep ==
    ASSUME IndInv, NEW p \in Procs, Restore(p)
    PROVE  IndInv'
  <1>1. VarType /\ ProcType /\ HandsInv
    BY TypeParts DEF IndInv
  <1>2. UNCHANGED <<now, cooling, sched, disk, store, unsaved, suspended, cfgMu,
                    heap, dirty, minted, ops>>
    BY DEF Restore
  <1>3. auths' \in [Auths -> Entry]
    <2>1. now \in Nat
      BY <1>1, ConductorAssumption DEF VarType
    <2>2. proc[p].copy \in [Auths -> SUBSET Record]
      BY <1>1 DEF ProcType, Goroutine, Restore, At
    <2>3. ASSUME NEW a \in Auths PROVE Restored(auths[a], proc[p].copy[a], now) \in Entry
      <3>1. CASE auths[a] = NoAuth
        BY <3>1, RestoredIdle DEF Entry
      <3>2. CASE auths[a] \in Auth
        <4>1. proc[p].copy[a] \in SUBSET Record
          BY <2>2
        <4>2. QED
          BY <2>1, <3>2, <4>1, RestoredDoes DEF Entry
      <3>3. QED
        BY <1>1, <3>1, <3>2 DEF VarType, Entry
    <2>4. QED
      BY <2>3 DEF Restore
  <1>4. MovesQuietly(p) /\ SavedInv'
    BY <1>1, <1>3, RestoreMoves, SaveAhead
  <1>5. VarType'
    BY <1>1, <1>2, <1>3 DEF VarType
  <1>6. QED
    BY <1>2, <1>4, <1>5, QuietStep

(* The clone that an edit begins with, and the records that a restore      *)
(* reads: nothing but the goroutine changes.                               *)
LEMMA ReadingStep ==
    ASSUME IndInv, NEW p, NEW d, Moves(p, d), VarType',
           UNCHANGED <<now, cooling, auths, store, unsaved, cfgMu>>,
           proc[p].pc # "saving", d.pc # "saving", "persist" \notin Ahead(proc[p]),
           d.pc = "restore" => \A a \in Auths : Single(d.copy[a])
    PROVE  IndInv'
  <1>1. ProcType /\ HandsInv /\ MutexInv /\ RecordsInv /\ SavedInv
    BY TypeParts DEF IndInv
  <1>2. /\ ProcType' /\ HandsInv' /\ p \in Procs /\ proc'[p] = d
        /\ \A q \in Procs : q # p => proc'[q] = proc[q]
    BY <1>1, Moved
  <1>3. MutexInv'
    BY <1>1, <1>2 DEF MutexInv
  <1>4. RecordsInv'
    <2>1. ASSUME NEW q \in Procs, proc'[q].pc \in {"saving", "restore"}, NEW a \in Auths
          PROVE  Single(proc'[q].copy[a])
      BY <1>1, <1>2, <2>1 DEF RecordsInv
    <2>2. \A a \in Auths : Single(store'[a])
      BY <1>1 DEF RecordsInv
    <2>3. QED
      BY <2>1, <2>2 DEF RecordsInv, Single
  <1>5. SavedInv'
    <2>1. ASSUME PersistAhead PROVE PersistAhead'
      <3>1. PICK q \in Procs : "persist" \in Ahead(proc[q])
        BY <2>1 DEF PersistAhead
      <3>2. "persist" \in Ahead(proc'[q])
        BY <1>2, <3>1
      <3>3. QED
        BY <3>2 DEF PersistAhead, Ahead, Steps
    <2>2. ASSUME NEW q \in Procs, NEW a \in Auths
          PROVE  Writes(q, a)' = Writes(q, a) /\ (Writes(q, a) => proc'[q] = proc[q])
      BY <1>2 DEF Writes
    <2>3. CASE ~ PersistAhead
      <3>1. ASSUME NEW a \in Auths \ unsaved
            PROVE  /\ \A q \in Procs : Writes(q, a)' =>
                         RecordsIf(cooling, auths[a], now) \subseteq proc'[q].copy[a]
                   /\ (\A q \in Procs : ~ Writes(q, a)') =>
                         RecordsIf(cooling, auths[a], now) \subseteq store[a]
        BY <1>1, <2>2, <2>3 DEF SavedInv, Records
      <3>2. QED
        BY <3>1 DEF SavedInv, Records
    <2>4. QED
      BY <2>1, <2>3 DEF SavedInv
  <1>6. TypeOK'
    BY <1>2 DEF TypeOK, VarType, ProcType
  <1>7. QED
    BY <1>2, <1>3, <1>4, <1>5, <1>6 DEF IndInv

LEMMA EditBeginDoes ==
    ASSUME VarType, HandsInv, NEW p \in Procs, NEW a \in Auths, EditBegin(p, a)
    PROVE  \E d : /\ Moves(p, d) /\ d.pc = "edit" /\ d.snap = auths[a] /\ auths[a] \in Auth
                  /\ "persist" \notin Ahead(proc[p]) /\ proc[p].pc = "idle"
  <1> DEFINE d == [Idle EXCEPT !.pc = "edit", !.a = a, !.snap = auths[a]]
  <1>1. auths[a] \in Auth
    BY DEF EditBegin, VarType, Entry
  <1>2. d.pc = "edit" /\ d.snap = auths[a] /\ d.a = a /\ d.todo = <<>>
    BY DEF Idle
  <1>3. Goroutine(d)
    BY <1>1, NothingToDo DEF Goroutine, Idle, Entry
  <1>4. Goto(p, d) /\ proc[p].pc = "idle"
    BY DEF EditBegin, Begin, At
  <1> HIDE DEF d
  <1>5. Moves(p, d)
    BY <1>1, <1>2, <1>3, <1>4, NewSound DEF Moves, Goto
  <1>6. QED
    BY <1>1, <1>2, <1>4, <1>5, NoneForgotten

LEMMA EditBeginStep ==
    ASSUME IndInv, NEW p \in Procs, NEW a \in Auths, EditBegin(p, a)
    PROVE  IndInv'
  <1>1. VarType /\ ProcType /\ HandsInv
    BY TypeParts DEF IndInv
  <1>2. VarType' /\ UNCHANGED <<now, cooling, auths, store, unsaved, cfgMu>>
    BY <1>1, ConductorAssumption DEF VarType, EditBegin, Begin, Spend
  <1>3. PICK d : /\ Moves(p, d) /\ d.pc = "edit"
                 /\ "persist" \notin Ahead(proc[p]) /\ proc[p].pc = "idle"
    BY <1>1, EditBeginDoes
  <1>4. QED
    BY <1>2, <1>3, ReadingStep

LEMMA LoadRecordsDoes ==
    ASSUME VarType, ProcType, HandsInv, NEW p \in Procs, LoadRecords(p)
    PROVE  \E d : /\ Moves(p, d) /\ d.pc \in {"idle", "restore"}
                  /\ d.pc = "restore" => d.copy = store
                  /\ "persist" \notin Ahead(proc[p]) /\ proc[p].pc = "load"
  <1>1. proc[p].pc = "load" /\ "persist" \notin Ahead(proc[p])
    BY NoneForgotten DEF LoadRecords, At
  <1>2. CASE Goto(p, Idle)
    <2>1. Moves(p, Idle) /\ Idle.pc = "idle"
      BY <1>2, IdleSound DEF Moves, Goto
    <2>2. QED
      BY <1>1, <2>1
  <1>3. CASE Goto(p, [proc[p] EXCEPT !.pc = "restore", !.copy = store])
    <2> DEFINE r == proc[p]
               d == [r EXCEPT !.pc = "restore", !.copy = store]
    <2>1. Goroutine(r) /\ r.todo = <<>>
      BY <1>1 DEF ProcType, HandsInv, Equipped
    <2>2. Goto(p, d)
      BY <1>3
    <2> HIDE DEF r
    <2>3. /\ DOMAIN d = DOMAIN Idle /\ d.pc = "restore" /\ d.copy = store /\ d.a = r.a
          /\ d.m = r.m /\ d.ms = r.ms /\ d.snap = r.snap /\ d.token = r.token
          /\ d.tried = r.tried /\ d.todo = r.todo /\ d.left = r.left
      BY <2>1 DEF Goroutine, Idle
    <2> HIDE DEF d
    <2>4. Goroutine(d)
      BY <2>1, <2>3 DEF Goroutine, VarType
    <2>5. Sound(d)
      BY <2>1, <2>3, <2>4, NewSound
    <2>6. Moves(p, d)
      BY <2>2, <2>5 DEF Moves, Goto
    <2>7. QED
      BY <1>1, <2>3, <2>6
  <1>4. QED
    BY <1>2, <1>3 DEF LoadRecords

LEMMA LoadRecordsStep ==
    ASSUME IndInv, NEW p \in Procs, LoadRecords(p)
    PROVE  IndInv'
  <1>1. VarType /\ ProcType /\ HandsInv
    BY TypeParts DEF IndInv
  <1>2. VarType' /\ UNCHANGED <<now, cooling, auths, store, unsaved, cfgMu>>
    BY <1>1 DEF VarType, LoadRecords
  <1>3. PICK d : /\ Moves(p, d) /\ d.pc \in {"idle", "restore"}
                 /\ d.pc = "restore" => d.copy = store
                 /\ "persist" \notin Ahead(proc[p]) /\ proc[p].pc = "load"
    BY <1>1, LoadRecordsDoes
  <1>4. d.pc = "restore" => \A a \in Auths : Single(d.copy[a])
    BY <1>3 DEF IndInv, RecordsInv
  <1>5. QED
    BY <1>2, <1>3, <1>4, ReadingStep

(* persistCooldownStatesToLocked: the records of this moment. *)
LEMMA PersistBeginDoes ==
    ASSUME VarType, ProcType, HandsInv, NEW p \in Procs, PersistBegin(p)
    PROVE  /\ proc[p].pc = "persist"
           /\ \E d : /\ Moves(p, d) /\ d.pc = "saving" /\ d.left = Auths
                     /\ \A a \in Auths : d.copy[a] = RecordsIf(cooling, auths[a], now)
  <1> DEFINE r == proc[p]
             recs == [a \in Auths |-> RecordsIf(cooling, auths[a], now)]
             d == [r EXCEPT !.pc = "saving", !.copy = recs, !.left = Auths]
  <1>1. r.pc = "persist" /\ Goto(p, d)
    BY DEF PersistBegin, At, TakeRecords, Records
  <1>2. Goroutine(r) /\ Equipped(r)
    BY DEF ProcType, HandsInv
  <1>3. recs \in [Auths -> SUBSET Record]
    <2>1. now \in Nat /\ cooling \in BOOLEAN
      BY ConductorAssumption DEF VarType
    <2>2. \A a \in Auths : RecordsIf(cooling, auths[a], now) \in SUBSET Record
      BY <2>1, RecordsType DEF VarType
    <2>3. QED
      BY <2>2
  <1>4. \A a \in Auths : recs[a] = RecordsIf(cooling, auths[a], now)
    OBVIOUS
  <1> HIDE DEF r, recs
  <1>5. /\ DOMAIN d = DOMAIN Idle /\ d.pc = "saving" /\ d.copy = recs /\ d.a = r.a
        /\ d.m = r.m /\ d.ms = r.ms /\ d.snap = r.snap /\ d.token = r.token
        /\ d.tried = r.tried /\ d.todo = r.todo /\ d.left = Auths
    BY <1>2 DEF Goroutine, Idle
  <1> HIDE DEF d
  <1>6. Goroutine(d)
    BY <1>2, <1>3, <1>5 DEF Goroutine
  <1>7. Equipped(d)
    <2>1. Ahead(d) = {"saving"} \cup Steps(r.todo) /\ Steps(r.todo) \subseteq Ahead(r)
      BY <1>5 DEF Ahead
    <2>2. QED
      BY <1>2, <1>5, <2>1 DEF Equipped
  <1>8. Moves(p, d)
    BY <1>1, <1>6, <1>7 DEF Moves, Sound, Goto
  <1>9. QED
    BY <1>1, <1>4, <1>5, <1>8 DEF r

LEMMA PersistBeginStep ==
    ASSUME IndInv, NEW p \in Procs, PersistBegin(p)
    PROVE  IndInv'
  <1>1. VarType /\ ProcType /\ HandsInv /\ MutexInv /\ RecordsInv
    BY TypeParts DEF IndInv
  <1>2. PICK d : /\ Moves(p, d) /\ d.pc = "saving" /\ d.left = Auths
                 /\ \A a \in Auths : d.copy[a] = RecordsIf(cooling, auths[a], now)
    BY <1>1, PersistBeginDoes
  <1>3. proc[p].pc = "persist" /\ cfgMu \subseteq {p} /\ cfgMu' = {p} /\ unsaved' = {}
        /\ UNCHANGED <<now, cooling, auths, sched, disk, store, suspended, heap,
                       dirty, minted, ops>>
    BY DEF PersistBegin, At
  <1>4. /\ ProcType' /\ HandsInv' /\ proc'[p] = d
        /\ \A q \in Procs : q # p => proc'[q] = proc[q]
    BY <1>1, <1>2, Moved
  <1>5. \A q \in Procs : q # p => proc[q].pc # "saving"
    BY <1>1, <1>3 DEF MutexInv
  <1>6. VarType'
    BY <1>1, <1>3 DEF VarType
  <1>7. MutexInv'
    BY <1>3, <1>4, <1>5 DEF MutexInv
  <1>8. RecordsInv'
    <2>1. \A a \in Auths : Single(d.copy[a])
      <3>1. now \in Nat /\ cooling \in BOOLEAN
        BY <1>1, ConductorAssumption DEF VarType
      <3>2. ASSUME NEW a \in Auths PROVE Single(d.copy[a])
        <4>1. auths[a] \in Entry
          BY <1>1 DEF VarType
        <4>2. Single(RecordsIf(cooling, auths[a], now))
          BY <3>1, <4>1, RecordsType
        <4>3. QED
          BY <1>2, <4>2
      <3>3. QED
        BY <3>2
    <2>2. ASSUME NEW q \in Procs, proc'[q].pc \in {"saving", "restore"}, NEW a \in Auths
          PROVE  Single(proc'[q].copy[a])
      BY <1>1, <1>4, <2>1, <2>2 DEF RecordsInv
    <2>3. \A a \in Auths : Single(store'[a])
      BY <1>1, <1>3 DEF RecordsInv
    <2>4. QED
      BY <2>2, <2>3 DEF RecordsInv, Single
  <1>9. SavedInv'
    <2>1. ASSUME NEW a \in Auths
          PROVE  /\ \A q \in Procs : Writes(q, a)' =>
                       RecordsIf(cooling', auths'[a], now') \subseteq proc'[q].copy[a]
                 /\ Writes(p, a)'
      BY <1>2, <1>3, <1>4, <1>5 DEF Writes
    <2>2. QED
      BY <2>1 DEF SavedInv, Records
  <1>10. TypeOK'
    BY <1>4, <1>6 DEF TypeOK, VarType, ProcType
  <1>11. QED
    BY <1>4, <1>7, <1>8, <1>9, <1>10 DEF IndInv

(* FileCooldownStateStore.Save: one more file. *)
LEMMA SaveFileDoes ==
    ASSUME VarType, ProcType, HandsInv, NEW p \in Procs, NEW a \in Auths, SaveFile(p, a)
    PROVE  /\ proc[p].pc = "saving" /\ a \in proc[p].left
           /\ proc[p].copy \in [Auths -> SUBSET Record]
           /\ store' = [store EXCEPT ![a] = proc[p].copy[a]]
           /\ UNCHANGED <<now, cooling, auths, sched, disk, unsaved, suspended, heap, dirty,
                          minted, ops>>
           /\ \E d : /\ Moves(p, d)
                     /\ "persist" \in Ahead(proc[p]) => "persist" \in Ahead(d)
                     /\ \/ /\ proc[p].left = {a} /\ cfgMu' = {}
                           /\ d.pc \notin {"saving", "restore", "edit"}
                        \/ /\ d.pc = "saving" /\ cfgMu' = cfgMu
                           /\ d.left = proc[p].left \ {a} /\ d.copy = proc[p].copy
  <1> DEFINE r == proc[p]
  <1>1. /\ r.pc = "saving" /\ a \in r.left
        /\ store' = [store EXCEPT ![a] = r.copy[a]]
        /\ UNCHANGED <<now, cooling, auths, sched, disk, unsaved, suspended, heap, dirty,
                       minted, ops>>
    BY DEF SaveFile, At
  <1>2. Goroutine(r) /\ Equipped(r)
    BY DEF ProcType, HandsInv
  <1>3. r.copy \in [Auths -> SUBSET Record]
    BY <1>1, <1>2 DEF Goroutine
  <1>4. CASE r.left = {a}
    <2> DEFINE d == Continue(p)
    <2>1. cfgMu' = {} /\ Goto(p, d)
      BY <1>4 DEF SaveFile
    <2>2. /\ Sound(d) /\ d.pc \in Later \cup {"idle"}
          /\ "persist" \in Ahead(d) <=> "persist" \in Steps(r.todo)
      BY <1>1, ContinueDoes
    <2> HIDE DEF d
    <2>3. d.pc \notin {"saving", "restore", "edit"}
      BY <2>2 DEF Later
    <2>4. "persist" \in Ahead(r) => "persist" \in Ahead(d)
      BY <1>1, <2>2 DEF Ahead
    <2>5. Moves(p, d)
      BY <2>1, <2>2 DEF Moves, Goto
    <2>6. QED
      BY <1>1, <1>3, <1>4, <2>1, <2>3, <2>4, <2>5
  <1>5. CASE r.left # {a}
    <2> DEFINE d == [r EXCEPT !.left = @ \ {a}]
    <2>1. cfgMu' = cfgMu /\ Goto(p, d)
      BY <1>5 DEF SaveFile
    <2> HIDE DEF r
    <2>2. /\ DOMAIN d = DOMAIN Idle /\ d.pc = r.pc /\ d.copy = r.copy /\ d.a = r.a
          /\ d.m = r.m /\ d.ms = r.ms /\ d.snap = r.snap /\ d.token = r.token
          /\ d.tried = r.tried /\ d.todo = r.todo /\ d.left = r.left \ {a}
      BY <1>2 DEF Goroutine, Idle
    <2> HIDE DEF d
    <2>3. Goroutine(d)
      BY <1>2, <2>2 DEF Goroutine
    <2>4. Ahead(d) = Ahead(r)
      BY <2>2 DEF Ahead
    <2>5. Equipped(d)
      BY <1>2, <2>2, <2>4 DEF Equipped
    <2>6. Moves(p, d)
      BY <2>1, <2>3, <2>5 DEF Moves, Sound, Goto
    <2>7. QED
      BY <1>1, <1>3, <2>1, <2>2, <2>4, <2>6 DEF r
  <1>6. QED
    BY <1>4, <1>5

LEMMA SaveFileStep ==
    ASSUME IndInv, NEW p \in Procs, NEW a \in Auths, SaveFile(p, a)
    PROVE  IndInv'
  <1>1. VarType /\ ProcType /\ HandsInv /\ MutexInv /\ RecordsInv /\ SavedInv
    BY TypeParts DEF IndInv
  <1>2. /\ proc[p].pc = "saving" /\ a \in proc[p].left
        /\ proc[p].copy \in [Auths -> SUBSET Record]
        /\ store' = [store EXCEPT ![a] = proc[p].copy[a]]
        /\ UNCHANGED <<now, cooling, auths, sched, disk, unsaved, suspended, heap, dirty,
                       minted, ops>>
    BY <1>1, SaveFileDoes
  <1>3. PICK d : /\ Moves(p, d)
                 /\ "persist" \in Ahead(proc[p]) => "persist" \in Ahead(d)
                 /\ \/ /\ proc[p].left = {a} /\ cfgMu' = {}
                       /\ d.pc \notin {"saving", "restore", "edit"}
                    \/ /\ d.pc = "saving" /\ cfgMu' = cfgMu
                       /\ d.left = proc[p].left \ {a} /\ d.copy = proc[p].copy
    BY <1>1, SaveFileDoes
  <1>4. /\ ProcType' /\ HandsInv' /\ proc'[p] = d
        /\ \A q \in Procs : q # p => proc'[q] = proc[q]
    BY <1>1, <1>3, Moved
  <1>5. cfgMu = {p} /\ \A q \in Procs : q # p => proc[q].pc # "saving"
    BY <1>1, <1>2 DEF MutexInv
  <1>6. /\ store' \in [Auths -> SUBSET Record] /\ store'[a] = proc[p].copy[a]
        /\ \A b \in Auths : b # a => store'[b] = store[b]
    BY <1>1, <1>2 DEF VarType
  <1>7. VarType'
    BY <1>1, <1>2, <1>3, <1>6 DEF VarType
  <1>8. MutexInv'
    BY <1>3, <1>4, <1>5 DEF MutexInv
  <1>9. RecordsInv'
    <2>1. \A b \in Auths : Single(proc[p].copy[b]) /\ Single(store[b])
      BY <1>1, <1>2 DEF RecordsInv
    <2>2. \A b \in Auths : Single(store'[b])
      BY <1>6, <2>1
    <2>3. ASSUME NEW q \in Procs, proc'[q].pc \in {"saving", "restore"}, NEW b \in Auths
          PROVE  Single(proc'[q].copy[b])
      BY <1>1, <1>3, <1>4, <2>1, <2>3 DEF RecordsInv
    <2>4. QED
      BY <2>2, <2>3 DEF RecordsInv, Single
  <1>10. SavedInv'
    <2>1. ASSUME PersistAhead PROVE PersistAhead'
      <3>1. PICK q \in Procs : "persist" \in Ahead(proc[q])
        BY <2>1 DEF PersistAhead
      <3>2. "persist" \in Ahead(proc'[q])
        BY <1>3, <1>4, <3>1
      <3>3. QED
        BY <3>2 DEF PersistAhead, Ahead, Steps
    <2>2. CASE ~ PersistAhead
      <3>1. ASSUME NEW b \in Auths \ unsaved, Writes(p, b)
            PROVE  RecordsIf(cooling, auths[b], now) \subseteq proc[p].copy[b]
        BY <1>1, <2>2, <3>1 DEF SavedInv, Records
      <3>2. ASSUME NEW b \in Auths \ unsaved, ~ Writes(p, b)
            PROVE  RecordsIf(cooling, auths[b], now) \subseteq store[b]
        <4>1. \A q \in Procs : ~ Writes(q, b)
          BY <1>5, <3>2 DEF Writes
        <4>2. QED
          BY <1>1, <2>2, <3>2, <4>1 DEF SavedInv, Records
      <3>3. \A b \in Auths : Writes(p, b) <=> b \in proc[p].left
        BY <1>2 DEF Writes
      <3>4. ASSUME NEW q \in Procs, NEW b \in Auths, Writes(q, b)'
            PROVE  q = p /\ b # a /\ Writes(p, b) /\ proc'[q].copy = proc[p].copy
        BY <1>3, <1>4, <1>5, <3>3, <3>4 DEF Writes
      <3>5. ASSUME NEW b \in Auths, ~ Writes(p, b)'
            PROVE  b = a \/ ~ Writes(p, b)
        BY <1>2, <1>3, <1>4, <3>3, <3>5 DEF Writes
      <3>6. ASSUME NEW b \in Auths \ unsaved
            PROVE  /\ \A q \in Procs : Writes(q, b)' =>
                         RecordsIf(cooling, auths[b], now) \subseteq proc'[q].copy[b]
                   /\ (\A q \in Procs : ~ Writes(q, b)') =>
                         RecordsIf(cooling, auths[b], now) \subseteq store'[b]
        <4>1. a \in proc[p].left
          BY <1>2
        <4>2. ASSUME NEW q \in Procs, Writes(q, b)'
              PROVE  RecordsIf(cooling, auths[b], now) \subseteq proc'[q].copy[b]
          BY <3>1, <3>4, <4>2
        <4>3. ASSUME \A q \in Procs : ~ Writes(q, b)'
              PROVE  RecordsIf(cooling, auths[b], now) \subseteq store'[b]
          <5>1. CASE b = a
            BY <1>6, <3>1, <3>3, <4>1, <5>1
          <5>2. CASE b # a
            BY <1>6, <3>2, <3>5, <4>3, <5>2
          <5>3. QED
            BY <5>1, <5>2
        <4>4. QED
          BY <4>2, <4>3
      <3>7. QED
        BY <1>2, <3>6 DEF SavedInv, Records
    <2>3. QED
      BY <2>1, <2>2 DEF SavedInv
  <1>11. TypeOK'
    BY <1>4, <1>7 DEF TypeOK, VarType, ProcType
  <1>12. QED
    BY <1>4, <1>8, <1>9, <1>10, <1>11 DEF IndInv

LEMMA SaveFailsDoes ==
    ASSUME ProcType, HandsInv, NEW p \in Procs, SaveFails(p)
    PROVE  \E d : Moves(p, d) /\ d.pc \notin {"saving", "restore", "edit"}
  <1>1. proc[p].pc = "saving"
    BY DEF SaveFails, At
  <1>2. CASE Goto(p, Idle)
    <2>1. Moves(p, Idle) /\ Idle.pc \notin {"saving", "restore", "edit"}
      BY <1>2, IdleSound DEF Moves, Goto
    <2>2. QED
      BY <2>1
  <1>3. CASE Goto(p, Continue(p))
    <2> DEFINE d == Continue(p)
    <2>1. Sound(d) /\ d.pc \in Later \cup {"idle"}
      BY <1>1, ContinueDoes
    <2>2. d.pc \notin {"saving", "restore", "edit"}
      BY <2>1 DEF Later
    <2>3. Moves(p, d)
      BY <1>3, <2>1 DEF Moves, Goto
    <2>4. QED
      BY <2>2, <2>3
  <1>4. QED
    BY <1>2, <1>3 DEF SaveFails

LEMMA SaveFailsStep ==
    ASSUME IndInv, NEW p \in Procs, SaveFails(p)
    PROVE  IndInv'
  <1>1. VarType /\ ProcType /\ HandsInv /\ MutexInv /\ RecordsInv
    BY TypeParts DEF IndInv
  <1>2. PICK d : Moves(p, d) /\ d.pc \notin {"saving", "restore", "edit"}
    BY <1>1, SaveFailsDoes
  <1>3. /\ proc[p].pc = "saving" /\ cfgMu' = {} /\ unsaved' = Auths
        /\ UNCHANGED <<now, cooling, auths, sched, disk, store, suspended, heap,
                       dirty, minted, ops>>
    BY DEF SaveFails, At
  <1>4. /\ ProcType' /\ HandsInv' /\ proc'[p] = d
        /\ \A q \in Procs : q # p => proc'[q] = proc[q]
    BY <1>1, <1>2, Moved
  <1>5. \A q \in Procs : q # p => proc[q].pc # "saving"
    BY <1>1, <1>3 DEF MutexInv
  <1>6. VarType'
    BY <1>1, <1>3 DEF VarType
  <1>7. MutexInv'
    BY <1>2, <1>4, <1>5 DEF MutexInv
  <1>8. RecordsInv'
    <2>1. ASSUME NEW q \in Procs, proc'[q].pc \in {"saving", "restore"}, NEW a \in Auths
          PROVE  Single(proc'[q].copy[a])
      BY <1>1, <1>2, <1>4, <2>1 DEF RecordsInv
    <2>2. \A a \in Auths : Single(store'[a])
      BY <1>1, <1>3 DEF RecordsInv
    <2>3. QED
      BY <2>1, <2>2 DEF RecordsInv, Single
  <1>9. SavedInv'
    BY <1>3 DEF SavedInv
  <1>10. TypeOK'
    BY <1>4, <1>6 DEF TypeOK, VarType, ProcType
  <1>11. QED
    BY <1>4, <1>7, <1>8, <1>9, <1>10 DEF IndInv

(* A start: the files and the saved cooldowns are all there is. *)
LEMMA RestartType ==
    ASSUME VarType, NEW a \in Auths, disk[a] # NoAuth
    PROVE  /\ Fresh(disk[a]) \in Auth /\ Fresh(disk[a]).disabled = disk[a].disabled
           /\ Restored(Fresh(disk[a]), store[a], now) \in Auth
           /\ store[a] = {} =>
                 RecordsIf(cooling, Restored(Fresh(disk[a]), store[a], now), now) = {}
  <1>1. disk[a] \in CredentialFile /\ store[a] \in SUBSET Record /\ now \in Nat
    BY ConductorAssumption DEF VarType
  <1> DEFINE x == Fresh(disk[a])
  <1>2. /\ x \in Auth /\ x.disabled = disk[a].disabled
        /\ RecordsIf(cooling, x, now) = {}
    BY <1>1, FreshDoes
  <1> HIDE DEF x
  <1>3. Restored(x, store[a], now) \in Auth
    BY <1>1, <1>2, RestoredDoes
  <1>4. store[a] = {} => Restored(x, store[a], now) = x
    BY RestoredIdle
  <1>5. QED
    BY <1>2, <1>3, <1>4 DEF x

LEMMA RestartStep ==
    ASSUME IndInv, NEW p \in Procs, Restart(p)
    PROVE  IndInv'
  <1>1. VarType /\ ProcType /\ RecordsInv
    BY TypeParts DEF IndInv
  <1>2. /\ auths' = [a \in Auths |-> IF disk[a] = NoAuth THEN NoAuth
                                     ELSE Restored(Fresh(disk[a]), store[a], now)]
        /\ sched' = [a \in Auths |-> Schedulable(auths'[a])]
        /\ suspended' = {} /\ cfgMu' = {}
        /\ heap' = [a \in Auths |-> 0] /\ dirty' = Auths
        /\ UNCHANGED <<now, cooling, disk, store, unsaved, minted>>
        /\ ops' \in 0 .. MaxOps
    BY <1>1, ConductorAssumption DEF Restart, Spend, VarType
  <1>3. auths' \in [Auths -> Entry]
    <2>1. \A a \in Auths : (IF disk[a] = NoAuth THEN NoAuth
                            ELSE Restored(Fresh(disk[a]), store[a], now)) \in Entry
      BY <1>1, RestartType DEF Entry
    <2>2. QED
      BY <1>2, <2>1
  <1>4. sched' \in [Auths -> Entry]
    <2>1. \A a \in Auths : Schedulable(auths'[a]) \in Entry
      BY <1>3, SchedulableType
    <2>2. QED
      BY <1>2, <2>1
  <1>5. VarType'
    BY <1>1, <1>2, <1>3, <1>4 DEF VarType
  <1> DEFINE saver == [Idle EXCEPT !.pc = "persist"]
             again == \E a \in Auths : store[a] # {}
  <1>6. proc' = [q \in Procs |-> IF q = p /\ again THEN saver ELSE Idle]
    BY DEF Restart
  <1>7. Sound(saver) /\ saver.pc = "persist" /\ "persist" \in Ahead(saver)
    <2>1. saver.pc = "persist" /\ saver.todo = <<>>
      BY DEF Idle
    <2>2. Goroutine(saver)
      BY NothingToDo DEF Goroutine, Idle, Entry
    <2> HIDE DEF saver
    <2>3. QED
      BY <2>1, <2>2, NewSound
  <1> HIDE DEF saver, again
  <1>8. DOMAIN proc' = Procs
        /\ \A q \in Procs : Sound(proc'[q]) /\ proc'[q].pc \in {"idle", "persist"}
    BY <1>6, <1>7, IdleSound
  <1>9. ProcType' /\ HandsInv'
    <2>1. ProcType'
      BY <1>8 DEF ProcType, Sound, Goroutine
    <2>2. HandsInv'
      BY <1>8 DEF HandsInv, Sound
    <2>3. QED
      BY <2>1, <2>2
  <1>10. MutexInv'
    BY <1>8 DEF MutexInv
  <1>11. RecordsInv'
    <2>1. \A a \in Auths : Single(store'[a])
      BY <1>1, <1>2 DEF RecordsInv
    <2>2. \A q \in Procs : proc'[q].pc \notin {"saving", "restore"}
      BY <1>8
    <2>3. QED
      BY <2>1, <2>2 DEF RecordsInv, Single
  <1>12. SavedInv'
    <2>1. CASE again
      <3>1. "persist" \in Ahead(proc'[p])
        BY <1>6, <1>7, <2>1
      <3>2. QED
        BY <3>1 DEF SavedInv, PersistAhead, Ahead, Steps
    <2>2. CASE ~ again
      <3>1. ASSUME NEW a \in Auths PROVE RecordsIf(cooling', auths'[a], now') = {}
        <4>1. store[a] = {}
          BY <2>2 DEF again
        <4>2. CASE disk[a] = NoAuth
          <5>1. auths'[a] = NoAuth
            BY <1>2, <4>2
          <5>2. QED
            BY <5>1 DEF RecordsIf
        <4>3. CASE disk[a] # NoAuth
          <5>1. auths'[a] = Restored(Fresh(disk[a]), store[a], now)
            BY <1>2, <4>3
          <5>2. RecordsIf(cooling, auths'[a], now) = {}
            BY <1>1, <4>1, <4>3, <5>1, RestartType
          <5>3. QED
            BY <1>2, <5>2
        <4>4. QED
          BY <4>2, <4>3
      <3>2. \A q \in Procs, a \in Auths : ~ Writes(q, a)'
        BY <1>8 DEF Writes
      <3>3. QED
        BY <3>1, <3>2 DEF SavedInv, Records
    <2>3. QED
      BY <2>1, <2>2
  <1>13. TypeOK'
    BY <1>5, <1>9 DEF TypeOK, VarType, ProcType
  <1>14. QED
    BY <1>9, <1>10, <1>11, <1>12, <1>13 DEF IndInv

LEMMA Inductive ==
    ASSUME IndInv, [Next]_vars
    PROVE  IndInv'
  <1>1. CASE Tick
    BY <1>1, TickStep
  <1>2. ASSUME NEW p \in Procs, Operation(p) PROVE IndInv'
    BY <1>2, PickStep, PickFailsStep, SetConfigStep, EditBeginStep, RegisterStep,
       DeleteFileStep, ResetQuotaStep, RestartStep DEF Operation
  <1>3. ASSUME NEW p \in Procs, Step(p) PROVE IndInv'
    BY <1>3, PickAgainStep, SaveFileStep, RepublishStep, RebuildStep, GiveUpStep,
       PublishStep, RegistryStepKeeps, PersistBeginStep, SaveFailsStep, LoadRecordsStep,
       RestoreStep, EditUpdateStep, RescheduleStep, WriteFileStep, RemoveStep,
       UnscheduleStep DEF Step
  <1>4. ASSUME NEW p \in Procs, NEW o \in Outcomes, MarkResult(p, o) PROVE IndInv'
    BY <1>4, MarkResultStep
  <1>5. CASE UNCHANGED vars
    <2>1. TypeOK'
      BY <1>5 DEF IndInv, TypeOK, vars, Goroutine
    <2>2. HandsInv' /\ MutexInv' /\ RecordsInv'
      BY <1>5 DEF IndInv, HandsInv, MutexInv, RecordsInv, vars
    <2>3. SavedInv'
      BY <1>5 DEF IndInv, SavedInv, PersistAhead, Writes, Records, vars
    <2>4. QED
      BY <2>1, <2>2, <2>3 DEF IndInv
  <1>6. QED
    BY <1>1, <1>2, <1>3, <1>4, <1>5 DEF Next

LEMMA InitInv == Init => IndInv
  <1> SUFFICES ASSUME Init PROVE IndInv
    OBVIOUS
  <1> DEFINE f == [disabled |-> FALSE, token |-> 1]
  <1>1. f \in CredentialFile
    BY ConductorAssumption DEF CredentialFile
  <1>2. /\ \A a \in Auths : auths[a] = Fresh(f)
        /\ auths = [a \in Auths |-> Fresh(f)] /\ sched = auths
        /\ disk = [a \in Auths |-> File(auths[a])]
    BY DEF Init
  <1>3. Fresh(f) \in Auth /\ \A on, t : RecordsIf(on, Fresh(f), t) = {}
    BY <1>1, FreshDoes
  <1>4. File(Fresh(f)) \in CredentialFile
    <2> HIDE DEF f
    <2>1. QED
      BY <1>3 DEF File, CredentialFile, Auth
  <1> HIDE DEF f
  <1>5. VarType
    <2>1. auths \in [Auths -> Entry] /\ sched \in [Auths -> Entry]
      BY <1>2, <1>3 DEF Entry
    <2>2. disk \in [Auths -> CredentialFile \cup {NoAuth}]
      BY <1>2, <1>4
    <2>3. QED
      BY <2>1, <2>2, ConductorAssumption DEF Init, VarType
  <1>6. \A p \in Procs : proc[p] = Idle
    BY DEF Init
  <1>7. ProcType /\ HandsInv
    BY <1>6, IdleSound DEF Init, ProcType, HandsInv, Sound
  <1>8. \A p \in Procs : proc[p].pc = "idle"
    BY <1>6, IdleSound
  <1>9. MutexInv /\ RecordsInv
    BY <1>8 DEF Init, MutexInv, RecordsInv, Single
  <1>10. SavedInv
    <2>1. \A a \in Auths : RecordsIf(cooling, auths[a], now) = {}
      BY <1>2, <1>3
    <2>2. QED
      BY <2>1 DEF SavedInv, Records
  <1>11. QED
    BY <1>5, <1>7, <1>9, <1>10, TypeParts DEF IndInv

-----------------------------------------------------------------------------
(* Every reachable state satisfies the inductive invariant: the goroutines *)
(* of conductor.go have what their steps need, saves are made under        *)
(* configCooldownMu, and no cooldown of the map is missing both from the   *)
(* store and from the saves to come.                                       *)
THEOREM Invariance == Spec => []IndInv
  <1>1. IndInv /\ [Next]_vars => IndInv'
    BY Inductive
  <1>2. QED
    BY <1>1, InitInv, PTL DEF Spec

(* Every variable has its type in every reachable state: no deadline is    *)
(* later than the longest cooldown from now, and nextQuotaCooldown keeps   *)
(* the backoff level below its cap.                                        *)
THEOREM TypeCorrect == Spec => []TypeOK
  <1>1. IndInv => TypeOK
    BY DEF IndInv
  <1>2. QED
    BY <1>1, Invariance, PTL

LEMMA SavedWhenDone == IndInv => CooldownsAreSaved
  <1> SUFFICES ASSUME IndInv, ~ SavePending, NEW a \in Auths \ unsaved
               PROVE  Records(auths[a], now) \subseteq store[a]
    BY DEF CooldownsAreSaved
  <1>1. ~ PersistAhead
    BY DEF SavePending, PersistAhead, Ahead, Steps
  <1>2. \A p \in Procs : ~ Writes(p, a)
    BY DEF SavePending, Writes
  <1>3. QED
    BY <1>1, <1>2 DEF IndInv, SavedInv

(* persistCooldownStates: when no save is asked for or under way, every    *)
(* cooldown in the map is in its credential's file, whatever interleaving  *)
(* of results, resets, updates, configuration changes and restarts led     *)
(* there, for any number of credentials and goroutines.                    *)
THEOREM SavesComplete == Spec => []CooldownsAreSaved
  BY Invariance, SavedWhenDone, PTL

LEMMA OnlyLoginsAdd ==
    ASSUME IndInv, [Next]_vars, NEW a \in Auths, auths[a] = NoAuth, auths'[a] # NoAuth
    PROVE  minted' > minted \/ \E p \in Procs : Restart(p)
  <1>1. VarType /\ ProcType /\ HandsInv
    BY TypeParts DEF IndInv
  <1>2. CASE UNCHANGED auths
    BY <1>2
  <1>3. ASSUME NEW p \in Procs, SetConfig(p) PROVE FALSE
    BY <1>3 DEF SetConfig
  <1>4. ASSUME NEW p \in Procs, NEW b \in Auths, Register(p, b) PROVE minted' > minted
    BY <1>1, <1>4, ConductorAssumption DEF Register, VarType
  <1>5. ASSUME NEW p \in Procs, NEW b \in Auths, ResetQuota(p, b) PROVE FALSE
    <2>1. auths[b] # NoAuth /\ \E x : auths' = [auths EXCEPT ![b] = x]
      BY <1>5 DEF ResetQuota
    <2>2. QED
      BY <1>1, <2>1 DEF VarType
  <1>6. ASSUME NEW p \in Procs, Restore(p) PROVE FALSE
    <2>1. auths'[a] = Restored(auths[a], proc[p].copy[a], now)
      BY <1>6 DEF Restore
    <2>2. QED
      BY <2>1, RestoredIdle
  <1>7. ASSUME NEW p \in Procs, EditUpdate(p) PROVE FALSE
    <2>1. \/ UNCHANGED auths
          \/ /\ auths[proc[p].a] \in Auth
             /\ \E x : auths' = [auths EXCEPT ![proc[p].a] = x]
      BY <1>1, <1>7, EditUpdateDoes
    <2>2. auths[proc[p].a] \in Auth => proc[p].a # a
      BY NilAssumption
    <2>3. QED
      BY <1>1, <2>1, <2>2 DEF VarType
  <1>8. ASSUME NEW p \in Procs, Remove(p) PROVE FALSE
    BY <1>1, <1>8 DEF Remove, VarType
  <1>9. ASSUME NEW p \in Procs, NEW o \in Outcomes, MarkResult(p, o) PROVE FALSE
    <2>1. \/ UNCHANGED auths
          \/ /\ auths[proc[p].a] \in Auth
             /\ \E x : auths' = [auths EXCEPT ![proc[p].a] = x]
      BY <1>1, <1>9, MarkResultDoes
    <2>2. auths[proc[p].a] \in Auth => proc[p].a # a
      BY NilAssumption
    <2>3. QED
      BY <1>1, <2>1, <2>2 DEF VarType
  <1>10. ASSUME NEW p \in Procs, Operation(p)
         PROVE  minted' > minted \/ \E q \in Procs : Restart(q)
    <2>1. CASE \/ \E b \in Auths, m \in Requested : Pick(p, b, m)
               \/ \E m \in Requested : PickFails(p, m)
               \/ \E b \in Auths : EditBegin(p, b) \/ DeleteFile(p, b)
      BY <1>2, <2>1 DEF Pick, Picked, PickFails, EditBegin, DeleteFile
    <2>2. QED
      BY <1>3, <1>4, <1>5, <1>10, <2>1 DEF Operation
  <1>11. ASSUME NEW p \in Procs, Step(p)
         PROVE  FALSE
    <2>1. CASE \/ \E b \in Auths : PickAgain(p, b) \/ SaveFile(p, b) \/ Republish(p, b)
               \/ Rebuild(p) \/ GiveUp(p) \/ Publish(p) \/ Registry(p) \/ PersistBegin(p)
               \/ SaveFails(p) \/ LoadRecords(p) \/ Reschedule(p) \/ WriteFile(p)
               \/ Unschedule(p)
      BY <2>1 DEF PickAgain, Picked, SaveFile, Republish, Rebuild, GiveUp, Publish,
         Registry, PersistBegin, SaveFails, LoadRecords, Reschedule, WriteFile, Unschedule
    <2>2. QED
      BY <1>6, <1>7, <1>8, <1>11, <2>1 DEF Step
  <1>12. CASE Tick \/ UNCHANGED vars
    BY <1>2, <1>12 DEF Tick, vars
  <1>13. QED
    BY <1>9, <1>10, <1>11, <1>12 DEF Next

(* Manager.Remove is final: in every step, a credential that is not in the *)
(* map gets there by a login or a start only; MarkResult, Update, the      *)
(* restore of cooldowns and a configuration change never bring one back.   *)
THEOREM RemovalIsFinal == Spec => RemovedStaysRemoved
  <1>1. IndInv /\ [Next]_vars
          => [\A a \in Auths : auths[a] = NoAuth /\ auths'[a] # NoAuth
                => minted' > minted \/ \E p \in Procs : Restart(p)]_vars
    BY OnlyLoginsAdd
  <1>2. QED
    BY <1>1, Invariance, PTL DEF Spec, RemovedStaysRemoved

LEMMA RestartRestores ==
    ASSUME IndInv, NEW p \in Procs, Restart(p), ~ SavePending, NEW a \in Auths \ unsaved,
           auths[a] # NoAuth, auths'[a] # NoAuth, disk[a] = File(auths[a])
    PROVE  Records(auths[a], now) \subseteq Records(auths'[a], now)
  <1>1. VarType /\ RecordsInv
    BY TypeParts DEF IndInv
  <1>2. disk[a] # NoAuth /\ auths'[a] = Restored(Fresh(disk[a]), store[a], now)
    BY DEF Restart
  <1>3. auths[a] \in Auth /\ disk[a].disabled = auths[a].disabled
    BY <1>1 DEF VarType, Entry, File
  <1>4. Records(auths[a], now) \subseteq store[a]
    BY SavedWhenDone DEF CooldownsAreSaved
  <1> DEFINE x == Fresh(disk[a])
  <1>5. x \in Auth /\ x.disabled = auths[a].disabled
    BY <1>1, <1>2, <1>3, RestartType
  <1> HIDE DEF x
  <1>6. store[a] \in SUBSET Record /\ Single(store[a]) /\ now \in Nat
    BY <1>1, ConductorAssumption DEF VarType, RecordsInv
  <1>7. ASSUME NEW r \in Records(auths[a], now)
        PROVE  r \in Records(auths'[a], now)
    <2>1. cooling /\ ~ auths[a].disabled /\ Cools(r.st, now)
      BY <1>7 DEF Records, RecordsIf
    <2>2. r \in store[a]
      BY <1>4, <1>7
    <2>3. r \in Records(Restored(x, store[a], now), now)
      BY <1>5, <1>6, <2>1, <2>2, RestoredKeeps
    <2>4. QED
      BY <1>2, <2>3 DEF x
  <1>8. QED
    BY <1>7

(* RestoreCooldownStates: a process that dies when its saves are done has, *)
(* after its start, every cooldown that was in force, each with the same   *)
(* deadline and backoff level.                                             *)
THEOREM CooldownsSurvive == Spec => RestartKeepsCooldowns
  <1>1. IndInv /\ [Next]_vars
          => [(\E p \in Procs : Restart(p)) /\ ~SavePending =>
                \A a \in Auths \ unsaved :
                   auths[a] # NoAuth /\ auths'[a] # NoAuth /\ disk[a] = File(auths[a])
                   => Records(auths[a], now) \subseteq Records(auths'[a], now)]_vars
    BY RestartRestores
  <1>2. QED
    BY <1>1, Invariance, PTL DEF Spec, RestartKeepsCooldowns

-----------------------------------------------------------------------------
(* The backoff ladder. *)

(* A credential whose levels are earned; none has one without cooldowns.   *)
AuthEarned(auth, on, t) ==
    /\ ModelsEarned(auth, t)
    /\ ~ on => \A m \in Models : auth.models[m] # NoState => auth.models[m].level = 0

LEMMA EarnedLater ==
    ASSUME NEW st \in State, NEW t \in Nat, NEW u \in Nat, t <= u, EarnedAt(st, t)
    PROVE  EarnedAt(st, u)
  <1> DEFINE e == Waited(st)
  <1>1. e \in Int
    BY ConductorAssumption DEF State, Waited
  <1>2. CASE e > 0
    <2>1. Pow2[e - 1] \in Nat
      BY <1>1, <1>2, Pow2Step
    <2>2. t >= Pow2[e - 1]
      BY <1>2 DEF EarnedAt
    <2>3. u >= Pow2[e - 1]
      BY <2>1, <2>2
    <2>4. QED
      BY <1>2, <2>3 DEF EarnedAt
  <1>3. CASE ~ (e > 0)
    BY <1>3 DEF EarnedAt
  <1>4. QED
    BY <1>2, <1>3

LEMMA EarnedSame ==
    ASSUME NEW st, NEW s, NEW t, st.level = s.level, st.skips = s.skips,
           st.recover = s.recover, EarnedAt(s, t)
    PROVE  EarnedAt(st, t)
  BY DEF EarnedAt, Waited

(* Where no window was ever open there is no level. *)
LEMMA EarnedWindow ==
    ASSUME NEW st \in State, NEW t, EarnedAt(st, t), st.recover = 0
    PROVE  st.level = 0
  BY DEF EarnedAt

LEMMA ClearedEarned ==
    ASSUME NEW auth \in Auth, NEW on, NEW t \in Nat, ModelsEarned(auth, t)
    PROVE  AuthEarned(ClearedCooldown(auth, t), on, t)
  <1> DEFINE c == ClearedCooldown(auth, t)
  <1>1. ASSUME NEW m \in Models, c.models[m] # NoState PROVE c.models[m].level = 0
    <2>1. /\ auth.models[m] # NoState
          /\ \/ c.models[m].level = 0
             \/ /\ auth.models[m].recover = 0
                /\ c.models[m].level = auth.models[m].level
      BY <1>1, ClearedDoes
    <2>2. auth.models[m] \in State /\ EarnedAt(auth.models[m], t)
      BY <2>1 DEF Auth, ModelsEarned
    <2> HIDE DEF c
    <2>3. QED
      BY <2>1, <2>2, EarnedWindow
  <1>2. c \in Auth
    BY ClearedDoes
  <1> HIDE DEF c
  <1>3. AuthEarned(c, on, t)
    BY <1>1, <1>2, EarnedZero, SkipsType DEF AuthEarned, ModelsEarned
  <1>4. QED
    BY <1>3 DEF c

LEMMA RestoredEarned ==
    ASSUME NEW auth \in Auth, NEW recs \in SUBSET Record, NEW t \in Nat,
           AuthEarned(auth, cooling, t), RecordsEarned(recs, t)
    PROVE  AuthEarned(Restored(auth, recs, t), cooling, t)
  <1>1. CASE ~ cooling
    BY <1>1, RestoredIdle
  <1>2. CASE cooling
    <2> DEFINE x == Restored(auth, recs, t)
    <2>1. ASSUME NEW m \in Models, x.models[m] # NoState PROVE EarnedAt(x.models[m], t)
      <3>1. \/ /\ auth.models[m] # NoState
               /\ x.models[m].level = auth.models[m].level
               /\ x.models[m].skips = auth.models[m].skips
               /\ x.models[m].recover = auth.models[m].recover
            \/ \E r \in recs : /\ r.m = m
                               /\ x.models[m].level = r.st.level
                               /\ x.models[m].skips = r.st.skips
                               /\ x.models[m].recover = r.st.recover
        BY <2>1, RestoredDoes
      <3> HIDE DEF x
      <3>2. CASE /\ auth.models[m] # NoState
                 /\ x.models[m].level = auth.models[m].level
                 /\ x.models[m].skips = auth.models[m].skips
                 /\ x.models[m].recover = auth.models[m].recover
        BY <3>2, EarnedSame DEF AuthEarned, ModelsEarned
      <3>3. ASSUME NEW r \in recs, r.m = m, x.models[m].level = r.st.level,
                   x.models[m].skips = r.st.skips,
                   x.models[m].recover = r.st.recover
            PROVE  EarnedAt(x.models[m], t)
        <4>1. EarnedAt(r.st, t)
          BY <3>3, ConductorAssumption DEF RecordsEarned
        <4>2. QED
          BY <3>3, <4>1, EarnedSame
      <3>4. QED
        BY <3>1, <3>2, <3>3
    <2> HIDE DEF x
    <2>2. AuthEarned(x, cooling, t)
      BY <1>2, <2>1 DEF AuthEarned, ModelsEarned
    <2>3. QED
      BY <2>2 DEF x
  <1>3. QED
    BY <1>1, <1>2

LEMMA AfterResultEarned ==
    ASSUME NEW auth \in Auth, NEW m \in Models \cup {NoModel}, NEW o \in Outcomes,
           NEW t \in 1 .. MaxTime, cooling \in BOOLEAN, AuthEarned(auth, cooling, t)
    PROVE  AuthEarned(AfterResult(auth, m, o, t), cooling, t)
  <1> DEFINE y == AfterResult(auth, m, o, t)
  <1>1. ASSUME NEW n \in Models, y.models[n] # NoState
        PROVE  EarnedAt(y.models[n], t) /\ (~ cooling => y.models[n].level = 0)
    <2>1. \/ y.models[n].level = 0
          \/ /\ auth.models[n] # NoState
             /\ y.models[n].level = auth.models[n].level
             /\ y.models[n].skips = auth.models[n].skips
             /\ y.models[n].recover = auth.models[n].recover
          \/ \E st \in State :
                /\ st = Clean \/ (auth.models[n] # NoState /\ st = auth.models[n])
                /\ o \notin {"ok", "scoped"}
                /\ y.models[n].level = Failed(st, o, t).level
                /\ y.models[n].skips = Failed(st, o, t).skips
                /\ y.models[n].recover = Failed(st, o, t).recover
      BY <1>1, AfterResultDoes
    <2>2. CASE y.models[n].level = 0
      <3>1. y \in Auth
        BY AfterResultDoes
      <3> HIDE DEF y
      <3>2. QED
        BY <1>1, <2>2, <3>1, EarnedZero, SkipsType
    <2> HIDE DEF y
    <2>3. CASE /\ auth.models[n] # NoState
               /\ y.models[n].level = auth.models[n].level
               /\ y.models[n].skips = auth.models[n].skips
               /\ y.models[n].recover = auth.models[n].recover
      BY <2>3, EarnedSame DEF AuthEarned, ModelsEarned
    <2>4. ASSUME NEW st \in State,
                 st = Clean \/ (auth.models[n] # NoState /\ st = auth.models[n]),
                 y.models[n].level = Failed(st, o, t).level,
                 y.models[n].skips = Failed(st, o, t).skips,
                 y.models[n].recover = Failed(st, o, t).recover
          PROVE  EarnedAt(y.models[n], t) /\ (~ cooling => y.models[n].level = 0)
      <3>1. EarnedAt(st, t) /\ (~ cooling => st.level = 0)
        <4>1. Clean.level = 0 /\ EarnedAt(Clean, t)
          BY CleanEarned DEF Clean
        <4>2. QED
          BY <2>4, <4>1 DEF AuthEarned, ModelsEarned
      <3>2. EarnedAt(Failed(st, o, t), t) /\ (~ cooling => Failed(st, o, t).level = 0)
        BY <3>1, FailedEarned
      <3>3. QED
        BY <2>4, <3>2, EarnedSame
    <2>5. QED
      BY <2>1, <2>2, <2>3, <2>4
  <1> HIDE DEF y
  <1>2. AuthEarned(y, cooling, t)
    BY <1>1 DEF AuthEarned, ModelsEarned
  <1>3. QED
    BY <1>2 DEF y

LEMMA FreshEarned ==
    ASSUME NEW f \in CredentialFile, NEW on, NEW t
    PROVE  AuthEarned(Fresh(f), on, t)
  BY FreshDoes DEF AuthEarned, ModelsEarned

LEMMA RecordsOfEarned ==
    ASSUME NEW auth, NEW on, NEW t, auth # NoAuth => ModelsEarned(auth, t)
    PROVE  RecordsEarned(RecordsIf(on, auth, t), t)
  <1> SUFFICES ASSUME NEW r \in RecordsIf(on, auth, t), r.m # NoModel
               PROVE  EarnedAt(r.st, t)
    BY DEF RecordsEarned
  <1>1. auth # NoAuth /\ on /\ ~ auth.disabled
    BY DEF RecordsIf
  <1>2. PICK m \in Models : r = [m |-> m, st |-> auth.models[m]] /\ Cools(auth.models[m], t)
    BY <1>1 DEF RecordsIf
  <1>3. QED
    BY <1>1, <1>2 DEF Cools, ModelsEarned

(* The map's part of the invariant, and the rest of it. *)
MapEarned == \A a \in Auths : auths[a] # NoAuth => AuthEarned(auths[a], cooling, now)
KeptEarned(r, t) ==
    /\ r.pc \in {"saving", "restore"} => \A a \in Auths : RecordsEarned(r.copy[a], t)
    /\ r.pc = "edit" => ModelsEarned(r.snap, t)

LEMMA EarnedParts ==
    EarnedInv <=> /\ MapEarned /\ \A a \in Auths : RecordsEarned(store[a], now)
                  /\ \A p \in Procs : KeptEarned(proc[p], now)
  BY DEF EarnedInv, MapEarned, KeptEarned, AuthEarned

LEMMA EarnedFromParts ==
    ASSUME \A a \in Auths : auths'[a] # NoAuth => AuthEarned(auths'[a], cooling', now'),
           \A a \in Auths : RecordsEarned(store'[a], now'),
           \A p \in Procs : KeptEarned(proc'[p], now')
    PROVE  EarnedInv'
  BY DEF EarnedInv, KeptEarned, AuthEarned, ModelsEarned, RecordsEarned, EarnedAt

LEMMA MovedEarned ==
    ASSUME ProcType, HandsInv, EarnedInv, NEW p, NEW d, Moves(p, d), UNCHANGED now,
           KeptEarned(d, now), \A a \in Auths : RecordsEarned(store'[a], now),
           \A a \in Auths : auths'[a] # NoAuth => AuthEarned(auths'[a], cooling', now)
    PROVE  EarnedInv'
  <1>1. /\ proc'[p] = d /\ \A q \in Procs : q # p => proc'[q] = proc[q]
    BY Moved
  <1>2. \A q \in Procs : KeptEarned(proc'[q], now')
    BY <1>1, EarnedParts
  <1>3. QED
    BY <1>2, EarnedFromParts

LEMMA QuietEarned ==
    ASSUME ProcType, HandsInv, EarnedInv, NEW p, MovesQuietly(p), UNCHANGED <<now, store>>,
           \A a \in Auths : auths'[a] # NoAuth => AuthEarned(auths'[a], cooling', now)
    PROVE  EarnedInv'
  <1>1. PICK d : Moves(p, d) /\ d.pc \notin {"saving", "restore", "edit"}
    BY DEF MovesQuietly
  <1>2. KeptEarned(d, now)
    BY <1>1 DEF KeptEarned
  <1>3. \A a \in Auths : RecordsEarned(store'[a], now)
    BY EarnedParts
  <1>4. QED
    BY <1>1, <1>2, <1>3, MovedEarned

LEMMA BystanderEarned ==
    ASSUME ProcType, HandsInv, EarnedInv, NEW p, MovesQuietly(p),
           UNCHANGED <<now, store, auths, cooling>>
    PROVE  EarnedInv'
  <1>1. \A a \in Auths : auths'[a] # NoAuth => AuthEarned(auths'[a], cooling', now)
    BY EarnedParts DEF MapEarned
  <1>2. QED
    BY <1>1, QuietEarned

LEMMA OneEarned ==
    ASSUME VarType, ProcType, HandsInv, EarnedInv, NEW p, MovesQuietly(p),
           UNCHANGED <<now, store, cooling>>, NEW a, NEW x,
           auths' = [auths EXCEPT ![a] = x], x = NoAuth \/ AuthEarned(x, cooling, now)
    PROVE  EarnedInv'
  <1>1. \A b \in Auths : auths'[b] # NoAuth => AuthEarned(auths'[b], cooling', now)
    BY EarnedParts DEF MapEarned, VarType
  <1>2. QED
    BY <1>1, QuietEarned


(* The steps that only read or publish what the map holds. *)
LEMMA BystandersEarn ==
    ASSUME IndInv, EarnedInv, NEW p \in Procs,
           \/ \E a \in Auths, m \in Requested : Pick(p, a, m)
           \/ \E m \in Requested : PickFails(p, m)
           \/ \E a \in Auths : PickAgain(p, a) \/ Republish(p, a) \/ DeleteFile(p, a)
           \/ Rebuild(p) \/ GiveUp(p) \/ Publish(p) \/ Registry(p)
           \/ Reschedule(p) \/ WriteFile(p) \/ Unschedule(p)
    PROVE  EarnedInv'
  <1>1. VarType /\ ProcType /\ HandsInv
    BY TypeParts DEF IndInv
  <1>2. MovesQuietly(p)
    <2>1. ASSUME NEW a \in Auths, NEW m \in Requested, Pick(p, a, m) PROVE MovesQuietly(p)
      BY <1>1, <2>1, ConductorAssumption, PickedMoves DEF Pick, Begin, At
    <2>2. ASSUME NEW a \in Auths, PickAgain(p, a) PROVE MovesQuietly(p)
      <3>1. proc[p].m \in Models \cup {NoModel}
        BY <1>1 DEF ProcType, Goroutine
      <3>2. QED
        BY <1>1, <2>2, <3>1, PickedMoves DEF PickAgain, At
    <2>3. QED
      BY <1>1, <2>1, <2>2, PickFailsMoves, RebuildMoves, GiveUpMoves, SmallMoves,
         RepublishMoves, DeleteFileMoves
  <1>3. UNCHANGED <<now, store, auths, cooling>>
    BY DEF Pick, Picked, PickFails, PickAgain, Republish, DeleteFile, Rebuild, GiveUp,
       Publish, Registry, Reschedule, WriteFile, Unschedule
  <1>4. QED
    BY <1>1, <1>2, <1>3, BystanderEarned

(* A result adds at most one window to the ladder. *)
LEMMA MarkResultEarns ==
    ASSUME IndInv, EarnedInv, NEW p \in Procs, NEW o \in Outcomes, MarkResult(p, o)
    PROVE  EarnedInv'
  <1>1. VarType /\ ProcType /\ HandsInv
    BY TypeParts DEF IndInv
  <1> DEFINE a == proc[p].a
             new == AfterResult(auths[a], proc[p].m, o, now)
  <1>2. /\ MovesQuietly(p) /\ a \in Auths
        /\ \/ auths[a] = NoAuth /\ UNCHANGED auths
           \/ auths[a] \in Auth /\ auths' = [auths EXCEPT ![a] = new]
    BY <1>1, MarkResultDoes
  <1>3. UNCHANGED <<now, cooling, store>>
    BY DEF MarkResult
  <1>4. CASE UNCHANGED auths
    BY <1>1, <1>2, <1>3, <1>4, BystanderEarned
  <1>5. CASE auths[a] \in Auth /\ auths' = [auths EXCEPT ![a] = new]
    <2>1. AuthEarned(auths[a], cooling, now)
      BY <1>2, <1>5, NilAssumption, EarnedParts DEF MapEarned
    <2>2. /\ proc[p].m \in Models \cup {NoModel} /\ now \in 1 .. MaxTime
          /\ cooling \in BOOLEAN
      BY <1>1 DEF ProcType, Goroutine, VarType
    <2>3. AuthEarned(new, cooling, now)
      BY <1>5, <2>1, <2>2, AfterResultEarned
    <2> HIDE DEF new, a
    <2>4. QED
      BY <1>1, <1>2, <1>3, <1>5, <2>3, OneEarned
  <1>6. QED
    BY <1>2, <1>4, <1>5

(* Manager.Update with a clone, however old: its levels were earned. *)
LEMMA EditUpdateEarns ==
    ASSUME IndInv, EarnedInv, NEW p \in Procs, EditUpdate(p)
    PROVE  EarnedInv'
  <1>1. VarType /\ ProcType /\ HandsInv
    BY TypeParts DEF IndInv
  <1> DEFINE a == proc[p].a
  <1>2. MovesQuietly(p) /\ a \in Auths /\ proc[p].pc = "edit"
    BY <1>1, EditUpdateDoes
  <1>3. \/ UNCHANGED auths
        \/ \E inh \in Auth, new \in Auth :
              /\ auths[a] \in Auth /\ inh.models \in {auths[a].models, proc[p].snap.models}
              /\ new \in {inh, ClearedCooldown(inh, now)}
              /\ ~ cooling => new = ClearedCooldown(inh, now)
              /\ auths' = [auths EXCEPT ![a] = new]
    BY <1>1, EditUpdateDoes
  <1>4. UNCHANGED <<now, cooling, store>>
    BY DEF EditUpdate
  <1> HIDE DEF a
  <1>5. CASE UNCHANGED auths
    BY <1>1, <1>2, <1>4, <1>5, BystanderEarned
  <1>6. ASSUME NEW inh \in Auth, NEW new \in Auth, auths[a] \in Auth,
               inh.models \in {auths[a].models, proc[p].snap.models},
               new \in {inh, ClearedCooldown(inh, now)},
               ~ cooling => new = ClearedCooldown(inh, now),
               auths' = [auths EXCEPT ![a] = new]
        PROVE  EarnedInv'
    <2>1. ModelsEarned(auths[a], now)
      BY <1>2, <1>6, NilAssumption, EarnedParts DEF MapEarned, AuthEarned
    <2>2. ModelsEarned(proc[p].snap, now)
      BY <1>2, EarnedParts DEF KeptEarned
    <2>3. ModelsEarned(inh, now)
      BY <1>6, <2>1, <2>2 DEF ModelsEarned
    <2>4. now \in Nat
      BY <1>1, ConductorAssumption DEF VarType
    <2>5. AuthEarned(ClearedCooldown(inh, now), cooling, now)
      BY <1>6, <2>3, <2>4, ClearedEarned
    <2>6. cooling => AuthEarned(inh, cooling, now)
      BY <2>3 DEF AuthEarned
    <2>7. AuthEarned(new, cooling, now)
      BY <1>6, <2>5, <2>6
    <2>8. QED
      BY <1>1, <1>2, <1>4, <1>6, <2>7, OneEarned
  <1>7. QED
    BY <1>3, <1>5, <1>6

LEMMA ManagementEarns ==
    ASSUME IndInv, EarnedInv, NEW p \in Procs,
           \/ \E a \in Auths : Register(p, a) \/ ResetQuota(p, a)
           \/ Remove(p)
    PROVE  EarnedInv'
  <1>1. VarType /\ ProcType /\ HandsInv
    BY TypeParts DEF IndInv
  <1>2. ASSUME NEW a \in Auths, Register(p, a) PROVE EarnedInv'
    <2>1. MovesQuietly(p)
      BY <1>1, <1>2, RegisterDoes
    <2>2. PICK f \in CredentialFile : auths' = [auths EXCEPT ![a] = Fresh(f)]
      BY <1>1, <1>2, RegisterDoes
    <2>3. UNCHANGED <<now, cooling, store>>
      BY <1>2 DEF Register
    <2>4. AuthEarned(Fresh(f), cooling, now)
      BY FreshEarned
    <2>5. QED
      BY <1>1, <2>1, <2>2, <2>3, <2>4, OneEarned
  <1>3. ASSUME NEW a \in Auths, ResetQuota(p, a) PROVE EarnedInv'
    <2>1. MovesQuietly(p)
      BY <1>1, <1>3, ResetQuotaDoes
    <2>2. PICK new \in Auth :
             /\ auths' = [auths EXCEPT ![a] = new]
             /\ \A m \in Models : new.models[m] # NoState => new.models[m].level = 0
      BY <1>1, <1>3, ResetQuotaDoes
    <2>3. UNCHANGED <<now, cooling, store>>
      BY <1>3 DEF ResetQuota
    <2>4. AuthEarned(new, cooling, now)
      BY <2>2, EarnedZero, SkipsType DEF AuthEarned, ModelsEarned
    <2>5. QED
      BY <1>1, <2>1, <2>2, <2>3, <2>4, OneEarned
  <1>4. CASE Remove(p)
    <2>1. MovesQuietly(p)
      BY <1>1, <1>4, RemoveMoves
    <2>2. auths' = [auths EXCEPT ![proc[p].a] = NoAuth] /\ UNCHANGED <<now, cooling, store>>
      BY <1>4 DEF Remove
    <2>3. QED
      BY <1>1, <2>1, <2>2, OneEarned
  <1>5. QED
    BY <1>2, <1>3, <1>4

(* A change of the configuration clears what it does not leave alone. *)
LEMMA SetConfigEarns ==
    ASSUME IndInv, EarnedInv, NEW p \in Procs, SetConfig(p)
    PROVE  EarnedInv'
  <1>1. VarType /\ ProcType /\ HandsInv
    BY TypeParts DEF IndInv
  <1>2. auths' \in [Auths -> Entry]
    BY SetConfigStep, TypeParts DEF IndInv, TypeOK
  <1>3. MovesQuietly(p) /\ UNCHANGED <<now, store>>
    BY <1>1, <1>2, SetConfigMoves DEF SetConfig
  <1>4. now \in Nat
    BY <1>1, ConductorAssumption DEF VarType
  <1>5. ASSUME NEW a \in Auths, auths'[a] # NoAuth
        PROVE  AuthEarned(auths'[a], cooling', now)
    <2>1. auths'[a] = IF auths[a] = NoAuth \/ (cooling' /\ ~auths[a].disabled)
                      THEN auths[a] ELSE ClearedCooldown(auths[a], now)
      BY DEF SetConfig
    <2>2. auths[a] # NoAuth
      BY <1>5, <2>1
    <2>3. auths[a] \in Auth /\ ModelsEarned(auths[a], now)
      BY <1>1, <2>2, EarnedParts DEF MapEarned, AuthEarned, VarType, Entry
    <2>4. AuthEarned(ClearedCooldown(auths[a], now), cooling', now)
      BY <1>4, <2>3, ClearedEarned
    <2>5. cooling' => AuthEarned(auths[a], cooling', now)
      BY <2>3 DEF AuthEarned
    <2>6. QED
      BY <2>1, <2>2, <2>4, <2>5
  <1>6. QED
    BY <1>1, <1>3, <1>5, QuietEarned

(* What comes back from the store was earned before it was saved. *)
LEMMA RestoreEarns ==
    ASSUME IndInv, EarnedInv, NEW p \in Procs, Restore(p)
    PROVE  EarnedInv'
  <1>1. VarType /\ ProcType /\ HandsInv
    BY TypeParts DEF IndInv
  <1>2. auths' \in [Auths -> Entry]
    BY RestoreStep DEF IndInv, TypeOK
  <1>3. MovesQuietly(p) /\ UNCHANGED <<now, store, cooling>>
    BY <1>1, <1>2, RestoreMoves DEF Restore
  <1>4. now \in Nat
    BY <1>1, ConductorAssumption DEF VarType
  <1>5. proc[p].pc = "restore" /\ proc[p].copy \in [Auths -> SUBSET Record]
    BY <1>1 DEF ProcType, Goroutine, Restore, At
  <1>6. ASSUME NEW a \in Auths, auths'[a] # NoAuth
        PROVE  AuthEarned(auths'[a], cooling', now)
    <2>1. auths'[a] = Restored(auths[a], proc[p].copy[a], now)
      BY DEF Restore
    <2>2. auths[a] # NoAuth
      BY <1>6, <2>1, RestoredIdle
    <2>3. auths[a] \in Auth /\ AuthEarned(auths[a], cooling, now)
      BY <1>1, <2>2, EarnedParts DEF MapEarned, VarType, Entry
    <2>4. proc[p].copy[a] \in SUBSET Record /\ RecordsEarned(proc[p].copy[a], now)
      BY <1>5, EarnedParts DEF KeptEarned
    <2>5. AuthEarned(Restored(auths[a], proc[p].copy[a], now), cooling, now)
      BY <1>4, <2>3, <2>4, RestoredEarned
    <2>6. QED
      BY <1>3, <2>1, <2>5
  <1>7. QED
    BY <1>1, <1>3, <1>6, QuietEarned

LEMMA RestartEarns ==
    ASSUME IndInv, EarnedInv, NEW p \in Procs, Restart(p)
    PROVE  EarnedInv'
  <1>1. VarType
    BY TypeParts DEF IndInv
  <1>2. UNCHANGED <<now, store, cooling>> /\ now \in Nat
    BY <1>1, ConductorAssumption DEF Restart, VarType
  <1>3. ASSUME NEW a \in Auths, auths'[a] # NoAuth
        PROVE  AuthEarned(auths'[a], cooling', now')
    <2>1. disk[a] # NoAuth /\ auths'[a] = Restored(Fresh(disk[a]), store[a], now)
      BY <1>3 DEF Restart
    <2>2. disk[a] \in CredentialFile /\ store[a] \in SUBSET Record
      BY <1>1, <2>1 DEF VarType
    <2> DEFINE x == Fresh(disk[a])
    <2>3. x \in Auth /\ AuthEarned(x, cooling, now)
      BY <2>2, FreshDoes, FreshEarned
    <2> HIDE DEF x
    <2>4. RecordsEarned(store[a], now)
      BY EarnedParts
    <2>5. AuthEarned(Restored(x, store[a], now), cooling, now)
      BY <1>2, <2>2, <2>3, <2>4, RestoredEarned
    <2>6. QED
      BY <1>2, <2>1, <2>5 DEF x
  <1>4. \A q \in Procs : proc'[q].pc \in {"idle", "persist"}
    <2>1. \A q \in Procs : proc'[q] \in {Idle, [Idle EXCEPT !.pc = "persist"]}
      BY DEF Restart
    <2>2. Idle.pc = "idle" /\ [Idle EXCEPT !.pc = "persist"].pc = "persist"
      BY DEF Idle
    <2>3. QED
      BY <2>1, <2>2
  <1>5. \A q \in Procs : KeptEarned(proc'[q], now')
    BY <1>4 DEF KeptEarned
  <1>6. \A a \in Auths : RecordsEarned(store'[a], now')
    BY <1>2, EarnedParts
  <1>7. QED
    BY <1>3, <1>5, <1>6, EarnedFromParts

(* Clones and records carry the levels of the map along. *)
LEMMA CopiesEarn ==
    ASSUME IndInv, EarnedInv, NEW p \in Procs,
           \/ \E a \in Auths : EditBegin(p, a) \/ SaveFile(p, a)
           \/ LoadRecords(p) \/ PersistBegin(p) \/ SaveFails(p)
    PROVE  EarnedInv'
  <1>1. VarType /\ ProcType /\ HandsInv
    BY TypeParts DEF IndInv
  <1>2. UNCHANGED <<now, auths, cooling>>
    BY DEF EditBegin, SaveFile, LoadRecords, PersistBegin, SaveFails
  <1>3. \A a \in Auths : auths'[a] # NoAuth => AuthEarned(auths'[a], cooling', now)
    BY <1>2, EarnedParts DEF MapEarned
  <1>4. UNCHANGED store => \A a \in Auths : RecordsEarned(store'[a], now)
    BY EarnedParts
  <1>5. ASSUME NEW a \in Auths, EditBegin(p, a) PROVE EarnedInv'
    <2>1. PICK d : /\ Moves(p, d) /\ d.pc = "edit" /\ d.snap = auths[a] /\ auths[a] \in Auth
      BY <1>1, <1>5, EditBeginDoes
    <2>2. KeptEarned(d, now)
      BY <2>1, NilAssumption, EarnedParts DEF KeptEarned, MapEarned, AuthEarned
    <2>3. UNCHANGED store
      BY <1>5 DEF EditBegin
    <2>4. QED
      BY <1>1, <1>2, <1>3, <1>4, <2>1, <2>2, <2>3, MovedEarned
  <1>6. ASSUME NEW a \in Auths, SaveFile(p, a) PROVE EarnedInv'
    <2>1. /\ proc[p].pc = "saving" /\ store' = [store EXCEPT ![a] = proc[p].copy[a]]
          /\ \E d : /\ Moves(p, d)
                    /\ \/ d.pc \notin {"saving", "restore", "edit"}
                       \/ d.pc = "saving" /\ d.copy = proc[p].copy
      BY <1>1, <1>6, SaveFileDoes
    <2>2. \A b \in Auths : RecordsEarned(proc[p].copy[b], now)
      BY <2>1, EarnedParts DEF KeptEarned
    <2>3. PICK d : /\ Moves(p, d)
                   /\ \/ d.pc \notin {"saving", "restore", "edit"}
                      \/ d.pc = "saving" /\ d.copy = proc[p].copy
      BY <2>1
    <2>4. KeptEarned(d, now)
      BY <2>2, <2>3 DEF KeptEarned
    <2>5. \A b \in Auths : RecordsEarned(store'[b], now)
      BY <1>1, <2>1, <2>2, EarnedParts DEF VarType
    <2>6. QED
      BY <1>1, <1>2, <1>3, <2>3, <2>4, <2>5, MovedEarned
  <1>7. CASE LoadRecords(p)
    <2>1. PICK d : /\ Moves(p, d) /\ d.pc \in {"idle", "restore"}
                   /\ d.pc = "restore" => d.copy = store
      BY <1>1, <1>7, LoadRecordsDoes
    <2>2. KeptEarned(d, now)
      BY <2>1, EarnedParts DEF KeptEarned
    <2>3. UNCHANGED store
      BY <1>7 DEF LoadRecords
    <2>4. QED
      BY <1>1, <1>2, <1>3, <1>4, <2>1, <2>2, <2>3, MovedEarned
  <1>8. CASE PersistBegin(p)
    <2>1. PICK d : /\ Moves(p, d) /\ d.pc = "saving"
                   /\ \A a \in Auths : d.copy[a] = RecordsIf(cooling, auths[a], now)
      BY <1>1, <1>8, PersistBeginDoes
    <2>2. \A a \in Auths : RecordsEarned(RecordsIf(cooling, auths[a], now), now)
      BY EarnedParts, RecordsOfEarned DEF MapEarned, AuthEarned
    <2>3. KeptEarned(d, now)
      BY <2>1, <2>2 DEF KeptEarned
    <2>4. UNCHANGED store
      BY <1>8 DEF PersistBegin
    <2>5. QED
      BY <1>1, <1>2, <1>3, <1>4, <2>1, <2>3, <2>4, MovedEarned
  <1>9. CASE SaveFails(p)
    <2>1. PICK d : Moves(p, d) /\ d.pc \notin {"saving", "restore", "edit"}
      BY <1>1, <1>9, SaveFailsDoes
    <2>2. KeptEarned(d, now) /\ UNCHANGED store
      BY <1>9, <2>1 DEF KeptEarned, SaveFails
    <2>3. QED
      BY <1>1, <1>2, <1>3, <1>4, <2>1, <2>2, MovedEarned
  <1>10. QED
    BY <1>5, <1>6, <1>7, <1>8, <1>9

(* Time only adds to what has been waited. *)
LEMMA TickEarns ==
    ASSUME IndInv, EarnedInv, Tick
    PROVE  EarnedInv'
  <1>1. VarType /\ ProcType /\ HandsInv
    BY TypeParts DEF IndInv
  <1>2. now \in Nat /\ now' \in Nat /\ now <= now'
    BY <1>1, ConductorAssumption DEF Tick, VarType
  <1>3. UNCHANGED <<cooling, auths, store, proc>>
    BY DEF Tick
  <1>4. ASSUME NEW auth \in Auth, ModelsEarned(auth, now)
        PROVE  ModelsEarned(auth, now')
    <2>1. ASSUME NEW m \in Models, auth.models[m] # NoState
          PROVE  EarnedAt(auth.models[m], now')
      <3>1. auth.models[m] \in State /\ EarnedAt(auth.models[m], now)
        BY <1>4, <2>1 DEF Auth, ModelsEarned
      <3>2. QED
        BY <1>2, <3>1, EarnedLater
    <2>2. QED
      BY <2>1 DEF ModelsEarned
  <1>5. ASSUME NEW recs \in SUBSET Record, RecordsEarned(recs, now)
        PROVE  RecordsEarned(recs, now')
    <2>1. ASSUME NEW r \in recs, r.m # NoModel PROVE EarnedAt(r.st, now')
      <3>1. r.st \in State /\ EarnedAt(r.st, now)
        BY <1>5, <2>1 DEF Record, RecordsEarned
      <3>2. QED
        BY <1>2, <3>1, EarnedLater
    <2>2. QED
      BY <2>1 DEF RecordsEarned
  <1>6. ASSUME NEW a \in Auths, auths'[a] # NoAuth
        PROVE  AuthEarned(auths'[a], cooling', now')
    <2>1. auths[a] \in Auth /\ AuthEarned(auths[a], cooling, now)
      BY <1>1, <1>3, <1>6, EarnedParts DEF MapEarned, VarType, Entry
    <2>2. ModelsEarned(auths[a], now')
      BY <1>4, <2>1 DEF AuthEarned
    <2>3. QED
      BY <1>3, <2>1, <2>2 DEF AuthEarned
  <1>7. ASSUME NEW a \in Auths PROVE RecordsEarned(store'[a], now')
    <2>1. store[a] \in SUBSET Record /\ RecordsEarned(store[a], now)
      BY <1>1, EarnedParts DEF VarType
    <2>2. QED
      BY <1>3, <1>5, <2>1
  <1>8. ASSUME NEW p \in Procs PROVE KeptEarned(proc'[p], now')
    <2>1. KeptEarned(proc[p], now)
      BY EarnedParts
    <2>2. ASSUME proc[p].pc \in {"saving", "restore"}, NEW a \in Auths
          PROVE  RecordsEarned(proc[p].copy[a], now')
      <3>1. proc[p].copy \in [Auths -> SUBSET Record]
        BY <1>1, <2>2 DEF ProcType, Goroutine
      <3>2. proc[p].copy[a] \in SUBSET Record /\ RecordsEarned(proc[p].copy[a], now)
        BY <2>1, <2>2, <3>1 DEF KeptEarned
      <3>3. QED
        BY <1>5, <3>2
    <2>3. ASSUME proc[p].pc = "edit" PROVE ModelsEarned(proc[p].snap, now')
      <3>1. proc[p].snap \in Auth
        BY <1>1, <2>3 DEF HandsInv, Equipped, Ahead
      <3>2. QED
        BY <1>4, <2>1, <2>3, <3>1 DEF KeptEarned
    <2>4. QED
      BY <1>3, <2>2, <2>3 DEF KeptEarned
  <1>9. QED
    BY <1>6, <1>7, <1>8, EarnedFromParts

LEMMA EarnedInductive ==
    ASSUME IndInv, EarnedInv, [Next]_vars
    PROVE  EarnedInv'
  <1>1. CASE Tick
    BY <1>1, TickEarns
  <1>2. ASSUME NEW p \in Procs, Operation(p) PROVE EarnedInv'
    BY <1>2, BystandersEarn, SetConfigEarns, ManagementEarns, CopiesEarn, RestartEarns
       DEF Operation
  <1>3. ASSUME NEW p \in Procs, Step(p) PROVE EarnedInv'
    BY <1>3, BystandersEarn, EditUpdateEarns, ManagementEarns, CopiesEarn, RestoreEarns
       DEF Step
  <1>4. ASSUME NEW p \in Procs, NEW o \in Outcomes, MarkResult(p, o) PROVE EarnedInv'
    BY <1>4, MarkResultEarns
  <1>5. CASE UNCHANGED vars
    BY <1>5 DEF EarnedInv, vars
  <1>6. QED
    BY <1>1, <1>2, <1>3, <1>4, <1>5 DEF Next

LEMMA InitEarned == Init => EarnedInv
  <1> SUFFICES ASSUME Init PROVE EarnedInv
    OBVIOUS
  <1> DEFINE f == [disabled |-> FALSE, token |-> 1]
  <1>1. f \in CredentialFile
    BY ConductorAssumption DEF CredentialFile
  <1>2. \A a \in Auths : auths[a] = Fresh(f) /\ store[a] = {}
    BY DEF Init
  <1>3. AuthEarned(Fresh(f), cooling, now)
    BY <1>1, FreshEarned
  <1> HIDE DEF f
  <1>4. MapEarned /\ \A a \in Auths : RecordsEarned(store[a], now)
    BY <1>2, <1>3 DEF MapEarned, RecordsEarned
  <1>5. \A p \in Procs : proc[p].pc = "idle"
    BY IdleSound DEF Init
  <1>6. \A p \in Procs : KeptEarned(proc[p], now)
    BY <1>5 DEF KeptEarned
  <1>7. QED
    BY <1>4, <1>6, EarnedParts

(* quotaCooldownAfterFailure and nextCloudflareCooldown: apart from one     *)
(* window for each challenge and each hint of a provider, however short,   *)
(* no credential reaches a backoff level whose earlier windows have not    *)
(* been waited out, whatever requests fail together and whatever clones,   *)
(* saved records, configuration changes and restarts put back in between.  *)
THEOREM LadderIsClimbed == Spec => []BackoffIsEarned
  <1>1. IndInv /\ EarnedInv /\ [Next]_vars => EarnedInv'
    BY EarnedInductive
  <1>2. EarnedInv => BackoffIsEarned
    BY DEF EarnedInv, ModelsEarned, EarnedAt, BackoffIsEarned
  <1>3. QED
    BY <1>1, <1>2, InitEarned, Invariance, PTL DEF Spec
=============================================================================
