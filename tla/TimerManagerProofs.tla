------------------------- MODULE TimerManagerProofs -------------------------
(***************************************************************************)
(* Machine-checked proofs about TimerManager, for any set of timers and    *)
(* threads, any periods and any clock: the set and the callbacks agree, so *)
(* that the unchecked erase of cancel() is sound; a one-shot timer fires   *)
(* once or is cancelled; no timer fires more often than its period allows; *)
(* and, for clients that reset timers from now, no timer is overslept.     *)
(***************************************************************************)
EXTENDS TimerManager, FiniteSetTheorems, WellFoundedInduction, TLAPS

\* The types of the variables that decide whether a timer may still fire.
ListTypes ==
    /\ timers_ \subseteq Timers
    /\ callback_ \in [Timers -> BOOLEAN]
    /\ phase \in [Timers -> {"none", "made", "known"}]
    /\ fired \in [Timers -> Nat]
    /\ cancelled \in [Timers -> BOOLEAN]

\* Only known timers are in the set, and what is unknown has no past.
Known(t) ==
    /\ t \in timers_ => phase[t] = "known"
    /\ phase[t] # "known" => fired[t] = 0 /\ ~cancelled[t]

\* A constructed timer has a callback; a known one has it while it is in the set.
Armed(t) ==
    /\ phase[t] = "made" => callback_[t]
    /\ phase[t] = "known" => (callback_[t] <=> t \in timers_)

\* A one-shot timer that is still in the set has not fired and was not cancelled.
OneShot(t) ==
    t \notin Recurring => /\ t \in timers_ => fired[t] = 0 /\ ~cancelled[t]
                          /\ fired[t] <= 1
                          /\ cancelled[t] => fired[t] = 0

ListInv == ListTypes /\ \A t \in Timers : Known(t) /\ Armed(t) /\ OneShot(t)

\* The initial state satisfies the invariant: there are no timers.
LEMMA ListInit == Init => ListInv
  BY DEF Init, ListInv, ListTypes, Known, Armed, OneShot

\* Steps that leave the timers alone preserve the invariant.
LEMMA ListUnchanged ==
    ASSUME ListInv,
           UNCHANGED <<timers_, callback_, phase, cancelled, fired>>
    PROVE  ListInv'
  BY DEF ListInv, ListTypes, Known, Armed, OneShot

\* Every operation of a client preserves the invariant.
LEMMA ListClient == ASSUME ListInv, NEW t \in Timers, ClientStep(t) PROVE ListInv'
<1> USE DEF ListInv, ListTypes, Known, Armed, OneShot, Insert
<1>1. ASSUME NEW ms \in Periods, Construct(t, ms) PROVE ListInv'
  BY <1>1 DEF Construct
<1>2. CASE AddTimer(t)
  <2>1. /\ timers_' = timers_ \cup {t}
        /\ phase' = [phase EXCEPT ![t] = "known"]
        /\ phase[t] = "made"
        /\ UNCHANGED <<callback_, fired, cancelled>>
    BY <1>2 DEF AddTimer
  <2> QED
    BY <2>1
<1>3. CASE Cancel(t)
  BY <1>3 DEF Cancel
<1>4. CASE Refresh(t)
  BY <1>4 DEF Refresh
<1>5. ASSUME NEW ms \in ResetPeriods, NEW from_now \in FromNow, Reset(t, ms, from_now)
      PROVE  ListInv'
  BY <1>5 DEF Reset, Resets
<1> QED
  BY <1>1, <1>2, <1>3, <1>4, <1>5 DEF ClientStep

\* Listing the expired timers preserves the invariant, whatever the clock value and
\* the address of the probe.
LEMMA ListListed == ASSUME ListInv, NEW p \in Threads, ListOverTime(p) PROVE ListInv'
  BY DEF ListOverTime, ListInv, ListTypes, Known, Armed, OneShot, KeepsCallback

\* Every step preserves the invariant.
LEMMA ListStep == ListInv /\ [Next]_vars => ListInv'
<1> SUFFICES ASSUME ListInv, [Next]_vars PROVE ListInv'
  OBVIOUS
<1>1. ASSUME NEW t \in Timers, ClientStep(t) PROVE ListInv'
  BY <1>1, ListClient
<1>2. ASSUME NEW p \in Threads, ListOverTime(p) PROVE ListInv'
  BY <1>2, ListListed
<1>3. ASSUME NEW p \in Threads,
             \/ Take(p) \/ Tickle(p) \/ Done(p) \/ GoIdle(p)
             \/ Sleep(p) \/ Woken(p) \/ TimedOut(p) \/ ReadClock(p)
      PROVE  ListInv'
  <2>1. UNCHANGED <<timers_, callback_, phase, cancelled, fired>>
    BY <1>3 DEF Take, Tickle, Done, GoIdle, Sleep, Woken, TimedOut, ReadClock, timerVars
  <2> QED
    BY <2>1, ListUnchanged
<1>4. CASE Tick \/ NotifyFront \/ UNCHANGED vars
  <2>1. UNCHANGED <<timers_, callback_, phase, cancelled, fired>>
    BY <1>4 DEF Tick, NotifyFront, vars, timerVars
  <2> QED
    BY <2>1, ListUnchanged
<1> QED
  BY <1>1, <1>2, <1>3, <1>4 DEF Next, ThreadStep, IdleStep

\* The inductive invariant holds in every reachable state.
THEOREM ListInvHolds == Spec => []ListInv
  BY ListInit, ListStep, PTL DEF Spec

\* cancel() always finds the timer it erases: a known timer has a callback exactly
\* while it is in timers_ (timer.cc:15-18).
THEOREM ArmedIffListedHolds == Spec => []ArmedIffListed
<1>1. ListInv => ArmedIffListed
  BY DEF ListInv, Armed, ArmedIffListed
<1> QED
  BY <1>1, ListInvHolds, PTL

\* A one-shot timer fires at most once, and never after a successful cancel().
THEOREM FiresOnceOrCancelledHolds == Spec => []FiresOnceOrCancelled
<1>1. ListInv => FiresOnceOrCancelled
  BY DEF ListInv, ListTypes, OneShot, FiresOnceOrCancelled
<1> QED
  BY <1>1, ListInvHolds, PTL

-----------------------------------------------------------------------------
\* A set of natural numbers that is not empty has a least element, which is Min.
LEMMA MinIsLeast ==
    ASSUME NEW S \in SUBSET Nat, S # {}
    PROVE  Min(S) \in S /\ \A x \in S : Min(S) <= x
<1> DEFINE R == OpToRel(<, Nat)
<1>1. IsWellFoundedOn(R, Nat)
  BY NatLessThanWellFounded
<1>2. \A x, y \in Nat : <<x, y>> \in R <=> x < y
  BY DEF OpToRel
<1> HIDE DEF R
<1>3. PICK n \in S : \A y \in S : ~(<<y, n>> \in R)
  BY <1>1, WFMin
<1>4. ASSUME NEW y \in S PROVE n <= y
  <2>1. y \in Nat /\ n \in Nat /\ ~(y < n)
    BY <1>2, <1>3
  <2> QED
    BY <2>1
<1> QED
  BY <1>4 DEF Min

\* The larger and the smaller of two numbers.
LEMMA MaxOfTwo ==
    ASSUME NEW x \in Int, NEW y \in Int
    PROVE  Max({x, y}) = IF x >= y THEN x ELSE y
<1> DEFINE m == IF x >= y THEN x ELSE y
<1>1. m \in {x, y} /\ \A z \in {x, y} : m >= z
  OBVIOUS
<1>2. \A n \in {x, y} : (\A z \in {x, y} : n >= z) => n = m
  OBVIOUS
<1> HIDE DEF m
<1>3. Max({x, y}) = m
  BY <1>1, <1>2 DEF Max
<1> QED
  BY <1>3 DEF m

\* The smaller of two numbers, as Min of their set.
LEMMA MinOfTwo ==
    ASSUME NEW x \in Int, NEW y \in Int
    PROVE  Min({x, y}) = IF x <= y THEN x ELSE y
<1> DEFINE m == IF x <= y THEN x ELSE y
<1>1. m \in {x, y} /\ \A z \in {x, y} : m <= z
  OBVIOUS
<1>2. \A n \in {x, y} : (\A z \in {x, y} : n <= z) => n = m
  OBVIOUS
<1> HIDE DEF m
<1>3. Min({x, y}) = m
  BY <1>1, <1>2 DEF Min
<1> QED
  BY <1>3 DEF m

\* The timeout of epoll_wait is a number, and not longer than until the next timer.
LEMMA WaitTimeBound ==
    ASSUME TypeOK
    PROVE  /\ WaitTime \in Nat
           /\ \A t \in timers_ : now + WaitTime <= Max({now, next_[t]})
<1>0. now \in Nat /\ next_ \in [Timers -> Nat] /\ timers_ \subseteq Timers /\ Cap \in Nat
  BY TimerAssumption DEF TypeOK
<1>1. CASE timers_ = {}
  BY <1>0, <1>1 DEF WaitTime
<1>2. CASE timers_ # {}
  <2> DEFINE S == {next_[t] : t \in timers_}
             m == Min(S)
             d == IF 0 >= m - now THEN 0 ELSE m - now
  <2>1. S \in SUBSET Nat /\ S # {}
    BY <1>0, <1>2
  <2>2. m \in Nat /\ \A t \in timers_ : m <= next_[t]
    BY <2>1, MinIsLeast
  <2>3. WaitTime = Min({Cap, Max({0, m - now})})
    BY <1>2 DEF WaitTime
  <2> HIDE DEF S, m
  <2>4. Max({0, m - now}) = d /\ d \in Nat
    <3>1. m - now \in Int
      BY <1>0, <2>2
    <3>2. 0 \in Int /\ d \in Nat
      BY <3>1
    <3> QED
      BY <3>1, <3>2, MaxOfTwo
  <2>5. WaitTime = IF Cap <= d THEN Cap ELSE d
    <3> HIDE DEF d
    <3>1. Cap \in Int /\ d \in Int /\ WaitTime = Min({Cap, d})
      BY <1>0, <2>3, <2>4
    <3> QED
      BY <3>1, MinOfTwo
  <2>6. WaitTime \in Nat /\ WaitTime <= d
    <3> HIDE DEF d
    <3> QED
      BY <1>0, <2>4, <2>5
  <2>7. ASSUME NEW t \in timers_ PROVE now + WaitTime <= Max({now, next_[t]})
    <3>1. Max({now, next_[t]}) = IF now >= next_[t] THEN now ELSE next_[t]
      BY <1>0, MaxOfTwo
    <3>2. m <= next_[t] /\ next_[t] \in Nat
      BY <1>0, <2>2
    <3> QED
      BY <1>0, <2>2, <2>6, <3>1, <3>2
  <2> QED
    BY <2>6, <2>7
<1> QED
  BY <1>1, <1>2

\* Every step keeps the state well typed.
LEMMA TimerTypeStep == TypeOK /\ [Next]_vars => TypeOK'
<1> SUFFICES ASSUME TypeOK, [Next]_vars PROVE TypeOK'
  OBVIOUS
<1> USE TimerAssumption DEF TypeOK, Goto, timerVars, threadVars
<1>1. CASE Tick
  BY <1>1 DEF Tick
<1>2. CASE NotifyFront
  BY <1>2 DEF NotifyFront, Notify
<1>3. ASSUME NEW p \in Threads, Take(p) \/ Done(p) \/ GoIdle(p) \/ ReadClock(p) PROVE TypeOK'
  BY <1>3 DEF Take, Done, GoIdle, ReadClock
<1>4. ASSUME NEW p \in Threads, Tickle(p) PROVE TypeOK'
  BY <1>4 DEF Tickle, Notify
<1>5. ASSUME NEW p \in Threads, Sleep(p) PROVE TypeOK'
  <2>1. now + WaitTime \in Nat
    BY WaitTimeBound
  <2> QED
    BY <1>5, <2>1 DEF Sleep
<1>6. ASSUME NEW p \in Threads, Woken(p) \/ TimedOut(p) PROVE TypeOK'
  <2>1. /\ UNCHANGED <<now, timerVars, notifying, curr, fired>> /\ (pipe' = pipe \/ pipe' = FALSE)
        /\ pc' = [pc EXCEPT ![p] = "clock"] /\ deadline' = [deadline EXCEPT ![p] = 0]
    BY <1>6 DEF Woken, TimedOut
  <2> QED
    BY <2>1
<1>7. ASSUME NEW p \in Threads, ListOverTime(p) PROVE TypeOK'
  <2>1. /\ pc' = [pc EXCEPT ![p] = "run"] /\ curr' = [curr EXCEPT ![p] = 0]
        /\ UNCHANGED <<now, ms_, phase, cancelled, notifying, pipe, deadline>>
    BY <1>7 DEF ListOverTime
  <2>2. PICK expired \in SUBSET timers_ :
           /\ timers_' \subseteq timers_
           /\ fired' = [t \in Timers |-> fired[t] + (IF t \in expired THEN 1 ELSE 0)]
           /\ next_' = [t \in Timers |-> IF t \in expired /\ t \in Recurring
                                           THEN curr[p] + ms_[t] ELSE next_[t]]
           /\ callback_' = [t \in Timers |->
                               callback_[t] /\ (t \in expired => KeepsCallback(t))]
    BY <1>7 DEF ListOverTime, Again
  <2>3. next_' \in [Timers -> Nat] /\ fired' \in [Timers -> Nat]
    BY <2>2
  <2>4. callback_' \in [Timers -> BOOLEAN]
    BY <2>2
  <2> QED
    BY <2>1, <2>2, <2>3, <2>4
<1>8. ASSUME NEW t \in Timers, NEW ms \in Periods, Construct(t, ms) PROVE TypeOK'
  BY <1>8 DEF Construct
<1>9. ASSUME NEW t \in Timers, AddTimer(t) PROVE TypeOK'
  BY <1>9 DEF AddTimer, Insert
<1>10. ASSUME NEW t \in Timers, Cancel(t) PROVE TypeOK'
  BY <1>10 DEF Cancel
<1>13. ASSUME NEW t \in Timers, Refresh(t) PROVE TypeOK'
  BY <1>13 DEF Refresh
<1>11. ASSUME NEW t \in Timers, NEW ms \in ResetPeriods, NEW from_now \in FromNow,
              Reset(t, ms, from_now)
       PROVE  TypeOK'
  <2>1. ms \in Nat /\ next_[t] \in Nat /\ now \in Nat
    OBVIOUS
  <2>2. (IF from_now THEN now ELSE next_[t] - ms) + ms \in Nat
    BY <2>1
  <2> QED
    BY <1>11, <2>1, <2>2 DEF Reset, Insert
<1>12. CASE UNCHANGED vars
  BY <1>12 DEF vars
<1> QED
  BY <1>1, <1>2, <1>3, <1>4, <1>5, <1>6, <1>7, <1>8, <1>9, <1>10, <1>11, <1>12, <1>13
     DEF Next, ThreadStep, IdleStep, ClientStep

\* Type correctness for any timers, threads and periods: a deadline, counted on from a
\* clock value that may be stale or back from the old deadline, and the timeout of
\* epoll_wait never become negative (timer.cc:51-58, 97-112, io_manager.cc:249-262).
THEOREM TimerTypeCorrect == Spec => []TypeOK
<1>1. Init => TypeOK
  <2> SUFFICES ASSUME Init PROVE TypeOK
    OBVIOUS
  <2>1. /\ now \in Nat /\ timers_ \subseteq Timers /\ ms_ \in [Timers -> Nat]
        /\ next_ \in [Timers -> Nat] /\ fired \in [Timers -> Nat]
        /\ curr \in [Threads -> Nat] /\ deadline \in [Threads -> Nat]
        /\ notifying \in 0 .. MaxNotifies
    BY TimerAssumption DEF Init
  <2>2. /\ callback_ \in [Timers -> BOOLEAN] /\ cancelled \in [Timers -> BOOLEAN]
        /\ phase \in [Timers -> {"none", "made", "known"}] /\ pipe \in BOOLEAN
        /\ pc \in [Threads -> {"run", "tickle", "busy", "idle", "epoll", "clock", "list"}]
    BY DEF Init
  <2> QED
    BY <2>1, <2>2 DEF TypeOK
<1> QED
  BY <1>1, TimerTypeStep, PTL DEF Spec

-----------------------------------------------------------------------------
\* The time that n firings take at least.
Spent(n) == n * Min(Periods)

\* One more firing takes one more shortest period.
LEMMA SpentMore ==
    /\ Min(Periods) \in Nat /\ Spent(0) = 0
    /\ \A ms \in Periods : Min(Periods) <= ms
    /\ \A n \in Nat : Spent(n) \in Nat /\ Spent(n + 1) = Spent(n) + Min(Periods)
<1>1. Min(Periods) \in Nat /\ \A ms \in Periods : Min(Periods) <= ms
  BY TimerAssumption, MinIsLeast
<1>2. \A m \in Nat : 0 * m = 0 /\ \A n \in Nat : n * m \in Nat /\ (n + 1) * m = n * m + m
  OBVIOUS
<1> QED
  BY <1>1, <1>2 DEF Spent

\* A timer that can fire is due only when its earlier firings, and this one, have taken
\* their time; nobody lists timers with a clock value from the future.
RateInv ==
    /\ \A p \in Threads : curr[p] <= now
    /\ \A t \in Timers :
          /\ phase[t] # "none" => Min(Periods) <= ms_[t]
          /\ Spent(fired[t]) <= now
          /\ t \in timers_ \/ phase[t] = "made" => Spent(fired[t] + 1) <= next_[t]

\* Every step keeps the rate.
LEMMA RateStep == TypeOK /\ ListInv /\ RateInv /\ [Next]_vars => RateInv'
<1> SUFFICES ASSUME TypeOK, ListInv, RateInv, [Next]_vars PROVE RateInv'
  OBVIOUS
<1>a. /\ now \in Nat /\ timers_ \subseteq Timers /\ ms_ \in [Timers -> Nat]
      /\ next_ \in [Timers -> Nat] /\ fired \in [Timers -> Nat] /\ curr \in [Threads -> Nat]
      /\ phase \in [Timers -> {"none", "made", "known"}] /\ Min(Periods) \in Nat
      /\ Periods \subseteq Nat /\ ResetPeriods \subseteq Periods
  BY TimerAssumption, SpentMore DEF TypeOK
<1>b. \A t \in Timers : /\ Spent(fired[t]) \in Nat
                        /\ Spent(fired[t] + 1) = Spent(fired[t]) + Min(Periods)
  BY <1>a, SpentMore
<1>c. \A t \in Timers : /\ phase[t] # "known" => fired[t] = 0
                        /\ phase[t] = "known" /\ callback_[t] => t \in timers_
                        /\ t \in timers_ => phase[t] = "known"
  BY DEF ListInv, Known, Armed
<1> USE <1>a, <1>b DEF RateInv, Goto, timerVars, threadVars
<1>1. CASE Tick
  BY <1>1 DEF Tick
<1>2. CASE NotifyFront \/ UNCHANGED vars
  BY <1>2 DEF NotifyFront, vars
<1>3. ASSUME NEW p \in Threads,
             \/ Take(p) \/ Tickle(p) \/ Done(p) \/ GoIdle(p) \/ Sleep(p) \/ Woken(p) \/ TimedOut(p)
      PROVE  RateInv'
  <2>1. UNCHANGED <<now, curr, phase, ms_, fired, timers_, next_>>
    BY <1>3 DEF Take, Tickle, Done, GoIdle, Sleep, Woken, TimedOut
  <2> QED
    BY <2>1
<1>4. ASSUME NEW p \in Threads, ReadClock(p) PROVE RateInv'
  <2>1. UNCHANGED <<now, phase, ms_, fired, timers_, next_>> /\ curr' = [curr EXCEPT ![p] = now]
    BY <1>4 DEF ReadClock
  <2> QED
    BY <2>1
<1>5. ASSUME NEW p \in Threads, ListOverTime(p) PROVE RateInv'
  <2>1. curr' = [curr EXCEPT ![p] = 0] /\ UNCHANGED <<now, ms_, phase>>
    BY <1>5 DEF ListOverTime
  <2>2. PICK expired \in SUBSET timers_ :
           /\ \A t \in expired : next_[t] <= curr[p]
           /\ timers_' = timers_ \ {t \in expired : t \notin Recurring}
           /\ fired' = [t \in Timers |-> fired[t] + (IF t \in expired THEN 1 ELSE 0)]
           /\ next_' = [t \in Timers |-> IF t \in expired /\ t \in Recurring
                                           THEN curr[p] + ms_[t] ELSE next_[t]]
    <3>1. PICK probe \in Timers \cup {0} :
             LET expired == {t \in timers_ : \/ next_[t] < curr[p]
                                             \/ next_[t] = curr[p] /\ t <= probe} IN
             /\ timers_' = timers_ \ {t \in expired : t \notin Recurring}
             /\ fired' = [t \in Timers |-> fired[t] + (IF t \in expired THEN 1 ELSE 0)]
             /\ next_' = [t \in Timers |-> IF t \in expired /\ t \in Recurring
                                             THEN curr[p] + ms_[t] ELSE next_[t]]
      BY <1>5 DEF ListOverTime, Again
    <3> DEFINE ex == {t \in timers_ : \/ next_[t] < curr[p]
                                      \/ next_[t] = curr[p] /\ t <= probe}
    <3>2. \A t \in ex : next_[t] <= curr[p]
      OBVIOUS
    <3> QED
      BY <3>1, <3>2
  <2>3. \A q \in Threads : curr'[q] <= now'
    BY <2>1
  <2>4. ASSUME NEW t \in Timers
        PROVE  /\ phase'[t] # "none" => Min(Periods) <= ms_'[t]
               /\ Spent(fired'[t]) <= now'
               /\ t \in timers_' \/ phase'[t] = "made" => Spent(fired'[t] + 1) <= next_'[t]
    <3>1. CASE t \notin expired
      <4>1. fired'[t] = fired[t] /\ next_'[t] = next_[t] /\ (t \in timers_' => t \in timers_)
        BY <2>2, <3>1
      <4> QED
        BY <2>1, <4>1
    <3>2. CASE t \in expired
      <4>1. /\ t \in timers_ /\ phase[t] = "known" /\ fired'[t] = fired[t] + 1
            /\ next_[t] <= curr[p] /\ curr[p] <= now /\ Min(Periods) <= ms_[t]
            /\ Spent(fired[t] + 1) <= next_[t]
        BY <1>c, <2>2, <3>2
      <4>2. Spent(fired'[t]) <= next_[t] /\ Spent(fired'[t]) \in Nat
        BY <4>1, SpentMore
      <4>3. Spent(fired'[t] + 1) = Spent(fired'[t]) + Min(Periods)
        BY <4>1, SpentMore
      <4>4. t \in timers_' => next_'[t] = curr[p] + ms_[t]
        BY <2>2, <3>2
      <4> QED
        BY <2>1, <4>1, <4>2, <4>3, <4>4
    <3> QED
      BY <3>1, <3>2
  <2> QED
    BY <2>3, <2>4
<1>6. ASSUME NEW t \in Timers, NEW ms \in Periods, Construct(t, ms) PROVE RateInv'
  <2>1. /\ phase[t] = "none" /\ phase' = [phase EXCEPT ![t] = "made"]
        /\ ms_' = [ms_ EXCEPT ![t] = ms] /\ next_' = [next_ EXCEPT ![t] = now + ms]
        /\ UNCHANGED <<now, timers_, curr, fired>>
    BY <1>6 DEF Construct
  <2>2. fired[t] = 0 /\ Spent(fired[t]) = 0 /\ Min(Periods) <= ms /\ ms \in Nat
    BY <1>c, <2>1, SpentMore
  <2> QED
    BY <2>1, <2>2
<1>7. ASSUME NEW t \in Timers, AddTimer(t) PROVE RateInv'
  <2>1. /\ phase[t] = "made" /\ phase' = [phase EXCEPT ![t] = "known"]
        /\ timers_' = timers_ \cup {t} /\ UNCHANGED <<now, ms_, next_, curr, fired>>
    BY <1>7 DEF AddTimer, Insert
  <2> QED
    BY <2>1
<1>8. ASSUME NEW t \in Timers, Cancel(t) PROVE RateInv'
  <2>1. timers_' = timers_ \ {t} /\ UNCHANGED <<now, ms_, next_, phase, curr, fired>>
    BY <1>8 DEF Cancel
  <2> QED
    BY <2>1
<1>9. ASSUME NEW t \in Timers, Refresh(t) PROVE RateInv'
  <2>1. /\ phase[t] = "known" /\ next_' = [next_ EXCEPT ![t] = now + ms_[t]]
        /\ UNCHANGED <<now, timers_, ms_, phase, curr, fired>>
    BY <1>9 DEF Refresh
  <2> QED
    BY <2>1
<1>10. ASSUME NEW t \in Timers, NEW ms \in ResetPeriods, NEW from_now \in FromNow,
              Reset(t, ms, from_now)
       PROVE  RateInv'
  <2>1. /\ phase[t] = "known" /\ callback_[t] /\ ms_' = [ms_ EXCEPT ![t] = ms]
        /\ next_' = [next_ EXCEPT ![t] = (IF from_now THEN now ELSE next_[t] - ms) + ms]
        /\ timers_' = timers_ \cup {t} /\ UNCHANGED <<now, phase, curr, fired>>
    BY <1>10 DEF Reset, Resets, Insert
  <2>2. ms \in Nat /\ Min(Periods) <= ms /\ t \in timers_
    BY <1>c, <2>1, SpentMore
  <2>3. next_'[t] = now + ms \/ next_'[t] = next_[t]
    BY <2>1, <2>2
  <2>4. Spent(fired[t] + 1) <= next_'[t]
    BY <2>2, <2>3
  <2>5. \A u \in Timers \ {t} : next_'[u] = next_[u] /\ ms_'[u] = ms_[u]
    BY <2>1
  <2> QED
    BY <2>1, <2>2, <2>4, <2>5
<1> QED
  BY <1>1, <1>2, <1>3, <1>4, <1>5, <1>6, <1>7, <1>8, <1>9, <1>10
     DEF Next, ThreadStep, IdleStep, ClientStep

\* No timer fires more often than its shortest period allows, although several threads
\* list the timers, each with a clock value that may be stale (timer.cc:118, 136).
THEOREM NotTooOftenHolds == Spec => []NotTooOften
<1>1. Init => RateInv
  BY SpentMore, TimerAssumption DEF Init, RateInv
<1>2. RateInv => NotTooOften
  BY DEF RateInv, NotTooOften, Spent
<1>3. TypeOK /\ ListInv /\ RateInv /\ [Next]_vars => RateInv'
  BY RateStep
<1> QED
  BY <1>1, <1>2, <1>3, TimerTypeCorrect, ListInvHolds, PTL DEF Spec

-----------------------------------------------------------------------------
\* Clients reset timers from now only, as every caller of reset() in the repository does.
\* Then no deadline lies further ahead than the period.
Ahead == \A t \in Timers : next_[t] <= now + ms_[t]

\* Every step keeps deadlines within a period.
LEMMA AheadStep ==
    ASSUME FromNow \subseteq {TRUE}, TypeOK, RateInv, Ahead, [Next]_vars PROVE Ahead'
<1>a. /\ now \in Nat /\ ms_ \in [Timers -> Nat] /\ next_ \in [Timers -> Nat]
      /\ curr \in [Threads -> Nat] /\ Periods \subseteq Nat /\ ResetPeriods \subseteq Periods
      /\ \A p \in Threads : curr[p] <= now
  BY TimerAssumption DEF TypeOK, RateInv
<1> USE <1>a DEF Ahead, timerVars, threadVars
<1>1. CASE Tick
  BY <1>1 DEF Tick
<1>2. ASSUME NEW p \in Threads, ListOverTime(p) PROVE Ahead'
  <2>1. UNCHANGED <<now, ms_>>
    BY <1>2 DEF ListOverTime
  <2>2. PICK moved \in SUBSET Timers :
           next_' = [t \in Timers |-> IF t \in moved THEN curr[p] + ms_[t] ELSE next_[t]]
    <3>1. PICK probe \in Timers \cup {0} :
             LET expired == {t \in timers_ : \/ next_[t] < curr[p]
                                             \/ next_[t] = curr[p] /\ t <= probe} IN
             next_' = [t \in Timers |-> IF t \in expired /\ t \in Recurring
                                          THEN curr[p] + ms_[t] ELSE next_[t]]
      BY <1>2 DEF ListOverTime, Again
    <3> DEFINE mv == {t \in Timers : /\ t \in timers_ /\ t \in Recurring
                                     /\ \/ next_[t] < curr[p]
                                        \/ next_[t] = curr[p] /\ t <= probe}
    <3>2. next_' = [t \in Timers |-> IF t \in mv THEN curr[p] + ms_[t] ELSE next_[t]]
      BY <3>1
    <3> QED
      BY <3>2
  <2> QED
    BY <2>1, <2>2
<1>3. ASSUME NEW t \in Timers, NEW ms \in Periods, Construct(t, ms) PROVE Ahead'
  BY <1>3 DEF Construct
<1>4. ASSUME NEW t \in Timers, Refresh(t) PROVE Ahead'
  BY <1>4 DEF Refresh
<1>5. ASSUME NEW t \in Timers, NEW ms \in ResetPeriods, NEW from_now \in FromNow,
             Reset(t, ms, from_now)
      PROVE  Ahead'
  <2>1. from_now = TRUE /\ ms \in Nat
    OBVIOUS
  <2>2. /\ next_' = [next_ EXCEPT ![t] = now + ms]
        /\ ms_' = [ms_ EXCEPT ![t] = ms] /\ now' = now
    BY <1>5, <2>1 DEF Reset
  <2> QED
    BY <2>1, <2>2
<1>6. ASSUME \/ NotifyFront \/ UNCHANGED vars
             \/ \E t \in Timers : AddTimer(t) \/ Cancel(t)
             \/ \E p \in Threads : \/ Take(p) \/ Tickle(p) \/ Done(p) \/ GoIdle(p)
                                   \/ Sleep(p) \/ Woken(p) \/ TimedOut(p) \/ ReadClock(p)
      PROVE  Ahead'
  <2>1. UNCHANGED <<now, ms_, next_>>
    BY <1>6 DEF NotifyFront, vars, AddTimer, Cancel, Take, Tickle, Done, GoIdle, Sleep, Woken,
                TimedOut, ReadClock
  <2> QED
    BY <2>1
<1> QED
  BY <1>1, <1>2, <1>3, <1>4, <1>5, <1>6 DEF Next, ThreadStep, IdleStep, ClientStep

\* Somebody looks at the timers at n at the latest, or at once.
Attended(n) ==
    \/ pipe \/ notifying > 0
    \/ \E p \in Threads :
          Awake(p) \/ (pc[p] = "epoll" /\ (deadline[p] <= now \/ deadline[p] <= n))

\* NobodyOversleeps, without Max.
Watched == (\E p \in Threads : pc[p] # "busy") => \A t \in timers_ : Attended(next_[t])

\* The two forms say the same.
LEMMA WatchedIsEnough == ASSUME TypeOK PROVE Watched <=> NobodyOversleeps
<1>1. /\ now \in Nat /\ next_ \in [Timers -> Nat] /\ timers_ \subseteq Timers
      /\ deadline \in [Threads -> Nat]
  BY DEF TypeOK
<1>2. ASSUME NEW t \in timers_, NEW p \in Threads
      PROVE  deadline[p] <= Max({now, next_[t]}) <=> deadline[p] <= now \/ deadline[p] <= next_[t]
  <2>1. /\ now \in Nat /\ next_[t] \in Nat /\ deadline[p] \in Nat
        /\ Max({now, next_[t]}) = IF now >= next_[t] THEN now ELSE next_[t]
    BY <1>1, MaxOfTwo
  <2> QED
    BY <2>1
<1> QED
  BY <1>2 DEF Watched, Attended, NobodyOversleeps

\* A thread that will look at the timers next attends to all of them.
LEMMA AwakeAttends ==
    ASSUME NEW p \in Threads, Awake(p)'
    PROVE  Watched'
  BY DEF Watched, Attended

\* What one step leaves of the attention: the clock only moves on, and a sleeping thread
\* keeps its deadline.
LEMMA AttendedKept ==
    ASSUME TypeOK, NEW n \in Nat, NEW m \in Nat, Attended(n), n <= m,
           now' \in Nat, now <= now', notifying' \in Nat, notifying' >= notifying,
           UNCHANGED <<pipe, pc, deadline>>
    PROVE  Attended(m)'
<1>1. /\ now \in Nat /\ deadline \in [Threads -> Nat] /\ notifying \in Nat
  BY TimerAssumption DEF TypeOK
<1>2. CASE pipe \/ notifying > 0
  <2>1. CASE pipe
    BY <2>1 DEF Attended
  <2>2. CASE notifying > 0
    <3>1. notifying' > 0
      BY <1>1, <2>2
    <3> QED
      BY <3>1 DEF Attended
  <2> QED
    BY <1>2, <2>1, <2>2
<1>3. ASSUME NEW p \in Threads,
             Awake(p) \/ (pc[p] = "epoll" /\ (deadline[p] <= now \/ deadline[p] <= n))
      PROVE  Attended(m)'
  <2>1. CASE Awake(p)
    BY <2>1 DEF Attended, Awake
  <2>2. CASE pc[p] = "epoll" /\ (deadline[p] <= now \/ deadline[p] <= n)
    <3>1. deadline[p] \in Nat
      BY <1>1
    <3>2. deadline'[p] <= now' \/ deadline'[p] <= m
      BY <1>1, <2>2, <3>1
    <3> QED
      BY <2>2, <3>2 DEF Attended
  <2> QED
    BY <1>3, <2>1, <2>2
<1> QED
  BY <1>2, <1>3 DEF Attended

\* A timer is inserted: at the front its inserter notifies, elsewhere the timer before it is
\* attended to in time.
LEMMA InsertWatched ==
    ASSUME TypeOK, Watched, NEW t \in Timers, NEW next \in [Timers -> Nat],
           next_' = next, \A u \in Timers \ {t} : next[u] = next_[u],
           Insert(t, next), UNCHANGED <<now, pipe, pc, deadline>>
    PROVE  Watched'
<1>a. /\ now \in Nat /\ next_ \in [Timers -> Nat] /\ timers_ \subseteq Timers
      /\ notifying \in Nat /\ deadline \in [Threads -> Nat]
  BY TimerAssumption DEF TypeOK
<1>b. timers_' = timers_ \cup {t}
  BY DEF Insert
<1>1. CASE AtFront(next, t)
  <2>1. notifying' > 0
    BY <1>a, <1>1 DEF Insert
  <2> QED
    BY <2>1 DEF Watched, Attended
<1>2. CASE ~AtFront(next, t)
  <2>1. notifying' = notifying
    BY <1>a, <1>2 DEF Insert
  <2>2. PICK u \in timers_ \ {t} : ~Before(next, t, u)
    BY <1>2 DEF AtFront
  <2>3. next_[u] <= next[t] /\ next_[u] \in Nat /\ next[t] \in Nat
    <3>1. u \in Timers /\ next[u] = next_[u] /\ next[u] \in Nat /\ next[t] \in Nat
      BY <1>a, <2>2
    <3>2. ~(next[t] < next[u])
      BY <2>2 DEF Before
    <3> QED
      BY <3>1, <3>2
  <2>4. SUFFICES ASSUME \E p \in Threads : pc[p] # "busy", NEW v \in timers_ \cup {t}
                 PROVE  Attended(next[v])'
    BY <1>b DEF Watched, Attended
  <2>5. ASSUME NEW n \in Nat, NEW m \in Nat, n <= m, Attended(n) PROVE Attended(m)'
    <3>1. now' \in Nat /\ now <= now' /\ notifying' \in Nat /\ notifying' >= notifying
      BY <1>a, <2>1
    <3> QED
      BY <2>5, <3>1, AttendedKept
  <2>6. CASE v # t
    <3>1. Attended(next[v]) /\ next[v] \in Nat /\ next[v] <= next[v]
      BY <1>a, <2>4, <2>6 DEF Watched
    <3> QED
      BY <2>5, <3>1
  <2>7. CASE v = t
    <3> DEFINE n == next_[u]
    <3>1. Attended(n) /\ n \in Nat /\ n <= next[t]
      BY <2>2, <2>3, <2>4 DEF Watched
    <3> HIDE DEF n
    <3>2. PICK k \in Nat : k = n
      BY <3>1
    <3>3. Attended(k) /\ k <= next[t]
      BY <3>1, <3>2
    <3> QED
      BY <2>3, <2>5, <2>7, <3>3
  <2> QED
    BY <2>6, <2>7
<1> QED
  BY <1>1, <1>2

\* Notify leaves a written pipe, or threads none of which sleeps.
LEMMA NotifyWatched == ASSUME TypeOK, Notify, UNCHANGED pc PROVE Watched'
<1>1. CASE pipe'
  BY <1>1 DEF Watched, Attended
<1>2. CASE ~pipe'
  <2>1. IdleThreads = {}
    BY <1>2 DEF Notify
  <2>2. ASSUME NEW p \in Threads, pc[p] # "busy" PROVE Awake(p)'
    BY <2>1, <2>2 DEF IdleThreads, Awake
  <2> QED
    BY <2>2 DEF Watched, Attended
<1> QED
  BY <1>1, <1>2

\* Every step keeps the timers attended to.
LEMMA WatchedStep ==
    ASSUME TypeOK, TypeOK', ListInv, Ahead, Watched, [Next]_vars,
           FromNow \subseteq {TRUE}
    PROVE  Watched'
<1>a. /\ now \in Nat /\ next_ \in [Timers -> Nat] /\ timers_ \subseteq Timers
      /\ notifying \in Nat /\ deadline \in [Threads -> Nat] /\ ms_ \in [Timers -> Nat]
      /\ pc \in [Threads -> {"run", "tickle", "busy", "idle", "epoll", "clock", "list"}]
      /\ next_' \in [Timers -> Nat]
  BY TimerAssumption DEF TypeOK
<1> USE <1>a DEF Goto, timerVars, threadVars
<1>1. CASE Tick
  <2>1. /\ now' \in Nat /\ now <= now' /\ notifying' \in Nat /\ notifying' >= notifying
        /\ UNCHANGED <<timers_, next_, pipe, pc, deadline>>
    BY <1>1 DEF Tick
  <2>2. ASSUME NEW n \in Nat, Attended(n) PROVE Attended(n)'
    <3>1. n <= n
      OBVIOUS
    <3> QED
      BY <2>1, <2>2, <3>1, AttendedKept
  <2>3. SUFFICES ASSUME \E p \in Threads : pc[p] # "busy", NEW t \in timers_,
                        NEW n \in Nat, n = next_[t]
                 PROVE  Attended(n)'
    BY <2>1 DEF Watched, Attended
  <2> QED
    BY <2>2, <2>3 DEF Watched
<1>2. CASE NotifyFront
  BY <1>2, NotifyWatched DEF NotifyFront
<1>3. ASSUME NEW p \in Threads,
             \/ Take(p) \/ Done(p) \/ GoIdle(p) \/ Woken(p) \/ TimedOut(p)
             \/ ReadClock(p) \/ ListOverTime(p)
      PROVE  Watched'
  <2>1. \E l \in {"tickle", "run", "idle", "clock", "list"} : pc' = [pc EXCEPT ![p] = l]
    BY <1>3 DEF Take, Done, GoIdle, Woken, TimedOut, ReadClock, ListOverTime
  <2>2. Awake(p)'
    BY <2>1 DEF Awake
  <2> QED
    BY <2>2, AwakeAttends
<1>4. ASSUME NEW p \in Threads, Tickle(p) PROVE Watched'
  <2>1. pc[p] = "tickle" /\ pc' = [pc EXCEPT ![p] = "busy"] /\ Notify
    BY <1>4 DEF Tickle
  <2>2. CASE pipe'
    BY <2>2 DEF Watched, Attended
  <2>3. CASE ~pipe'
    <3>1. IdleThreads = {}
      BY <2>1, <2>3 DEF Notify
    <3>2. ASSUME NEW q \in Threads, pc'[q] # "busy" PROVE Awake(q)'
      BY <2>1, <3>1, <3>2 DEF IdleThreads, Awake
    <3> QED
      BY <3>2 DEF Watched, Attended
  <2> QED
    BY <2>2, <2>3
<1>5. ASSUME NEW p \in Threads, Sleep(p) PROVE Watched'
  <2>1. /\ pc' = [pc EXCEPT ![p] = "epoll"]
        /\ deadline' = [deadline EXCEPT ![p] = now + WaitTime]
        /\ UNCHANGED <<now, timers_, next_>>
    BY <1>5 DEF Sleep
  <2>2. WaitTime \in Nat /\ \A t \in timers_ : now + WaitTime <= Max({now, next_[t]})
    BY WaitTimeBound
  <2>3. SUFFICES ASSUME NEW t \in timers_, NEW n \in Nat, n = next_[t] PROVE Attended(n)'
    BY <2>1 DEF Watched, Attended
  <2>4. deadline'[p] = now + WaitTime /\ pc'[p] = "epoll"
    BY <2>1
  <2>5. Max({now, n}) = IF now >= n THEN now ELSE n
    BY MaxOfTwo
  <2>6. now + WaitTime <= Max({now, n})
    BY <2>2, <2>3
  <2>7. deadline'[p] <= now \/ deadline'[p] <= n
    BY <2>4, <2>5, <2>6
  <2> QED
    BY <2>1, <2>4, <2>7 DEF Attended
<1>6. ASSUME NEW t \in Timers, NEW ms \in Periods, Construct(t, ms) PROVE Watched'
  <2>1. /\ UNCHANGED <<now, timers_, notifying, pipe, pc, deadline>> /\ phase[t] = "none"
        /\ next_' = [next_ EXCEPT ![t] = now + ms]
    BY <1>6 DEF Construct
  <2>2. t \notin timers_
    BY <2>1 DEF ListInv, Known
  <2>3. \A u \in timers_ : next_'[u] = next_[u]
    BY <2>1, <2>2
  <2> QED
    BY <2>1, <2>3 DEF Watched, Attended, Awake
<1>7. ASSUME NEW t \in Timers, AddTimer(t) PROVE Watched'
  <2>1. Insert(t, next_) /\ UNCHANGED <<now, next_, pipe, pc, deadline>>
    BY <1>7 DEF AddTimer
  <2>2. PICK next \in [Timers -> Nat] : next = next_
    OBVIOUS
  <2>3. Insert(t, next) /\ next_' = next /\ \A u \in Timers \ {t} : next[u] = next_[u]
    BY <2>1, <2>2
  <2> QED
    BY <2>1, <2>3, InsertWatched
<1>8. ASSUME NEW t \in Timers, Cancel(t) PROVE Watched'
  <2>1. timers_' \subseteq timers_ /\ UNCHANGED <<now, next_, notifying, pipe, pc, deadline>>
    BY <1>8 DEF Cancel
  <2> QED
    BY <2>1 DEF Watched, Attended, Awake
<1>9. ASSUME NEW t \in Timers, Refresh(t) PROVE Watched'
  <2>1. /\ next_' = [next_ EXCEPT ![t] = now + ms_[t]] /\ t \in timers_
        /\ UNCHANGED <<now, timers_, notifying, pipe, pc, deadline>>
    BY <1>9 DEF Refresh
  <2>2. SUFFICES ASSUME \E p \in Threads : pc[p] # "busy", NEW u \in timers_,
                        NEW n \in Nat, n = next_'[u]
                 PROVE  Attended(n)'
    BY <2>1 DEF Watched, Attended
  <2>3. next_[u] <= n /\ next_[u] \in Nat
    BY <2>1, <2>2 DEF Ahead
  <2>4. PICK k \in Nat : k = next_[u]
    BY <2>3
  <2>5. Attended(k) /\ k <= n
    BY <2>2, <2>3, <2>4 DEF Watched
  <2>6. now' \in Nat /\ now <= now' /\ notifying' \in Nat /\ notifying' >= notifying
    BY <2>1
  <2> QED
    BY <2>1, <2>5, <2>6, AttendedKept
<1>10. ASSUME NEW t \in Timers, NEW ms \in ResetPeriods, NEW from_now \in FromNow,
              Reset(t, ms, from_now)
       PROVE  Watched'
  <2>1. PICK next \in [Timers -> Nat] : next = next_'
    OBVIOUS
  <2>2. /\ Insert(t, next) /\ next_' = next /\ UNCHANGED <<now, pipe, pc, deadline>>
        /\ next = [next_ EXCEPT ![t] = (IF from_now THEN now ELSE next_[t] - ms) + ms]
    BY <1>10, <2>1 DEF Reset
  <2>3. \A u \in Timers \ {t} : next[u] = next_[u]
    BY <2>2
  <2> QED
    BY <2>2, <2>3, InsertWatched
<1>11. CASE UNCHANGED vars
  BY <1>11 DEF vars, Watched, Attended, Awake
<1> QED
  BY <1>1, <1>2, <1>3, <1>4, <1>5, <1>6, <1>7, <1>8, <1>9, <1>10, <1>11
     DEF Next, ThreadStep, IdleStep, ClientStep

\* No timer is overslept by clients that reset timers from now, as all callers of reset()
\* in the repository do (rpc_server.cc:77, rpc_service_registry.cc:84), whatever the
\* timers, the threads, the periods and the cap of epoll_wait.
THEOREM NobodyOversleepsHolds ==
    ASSUME FromNow \subseteq {TRUE}
    PROVE  Spec => []NobodyOversleeps
<1>1. Init => Watched /\ RateInv /\ Ahead
  BY SpentMore, TimerAssumption DEF Init, RateInv, Watched, Ahead
<1>2. TypeOK /\ ListInv /\ RateInv /\ [Next]_vars => RateInv'
  BY RateStep
<1>3. TypeOK /\ RateInv /\ Ahead /\ [Next]_vars => Ahead'
  BY AheadStep
<1>4. TypeOK /\ TypeOK' /\ ListInv /\ Ahead /\ Watched /\ [Next]_vars => Watched'
  BY WatchedStep
<1>5. TypeOK /\ Watched => NobodyOversleeps
  BY WatchedIsEnough
<1> QED
  BY <1>1, <1>2, <1>3, <1>4, <1>5, TimerTypeCorrect, ListInvHolds, PTL DEF Spec
=============================================================================
