---------------------------- MODULE Bank_proofs ----------------------------
(***************************************************************************)
(* Proofs about the bank, for every length of the day, every allotment,    *)
(* every set of bedtime windows and every amount.                          *)
(***************************************************************************)
EXTENDS Bank, TLAPS

(***************************************************************************)
(* The clock never goes below zero and no deadline is ever further away    *)
(* than the code can put it.                                               *)
(***************************************************************************)
LEMMA ToWakeInDay ==
    ASSUME NEW w \in Windows, NEW t \in Tods
    PROVE  ToWake(w, t) \in 1 .. DayLen
BY TimeAssumption DEF ToWake, Windows, Tods

\* Settling the day keeps the type of the clock.
LEMMA ClockType ==
    ASSUME TypeOK
    PROVE  /\ Clock \in Nat
           /\ Owed \in BOOLEAN
           /\ Refilled \in Nat
BY AmountAssumption DEF TypeOK, Clock, Owed, Refilled, RefillOpen, StayUp, Days

LEMMA CreditedType ==
    ASSUME NEW r \in Nat, NEW d \in Int
    PROVE  Credited(r, d) \in Nat
BY DEF Credited

\* The part of the type invariant that every action shares.
LEMMA PrepareType ==
    ASSUME TypeOK, NEW r \in Nat, PrepareAnd(r)
    PROVE  /\ settled' \in BOOLEAN /\ deferred' \in BOOLEAN
           /\ remaining' \in Nat /\ refills' \in Nat
BY ClockType DEF PrepareAnd

LEMMA TypeInit == Init => TypeOK
<1> SUFFICES ASSUME Init PROVE TypeOK
  OBVIOUS
<1>1. remaining \in Nat
  BY AmountAssumption DEF Init
<1>2. asks \in [AskIds -> AskSizes \union {NoAsk}]
  BY DEF Init
<1>3. hold \in 0 .. DayLen /\ save \in -1 .. SaveCover /\ brk \in 0 .. BreakLen
  BY TimeAssumption DEF Init, NoCover
<1> QED BY <1>1, <1>2, <1>3 DEF Init, TypeOK

\* The enforcer's two sync calls and Status move the cover and the break only.
LEMMA SyncType ==
    ASSUME TypeOK, NEW r \in Nat
    PROVE  /\ SyncCover(r) => save' \in -1 .. SaveCover
           /\ \A long \in BOOLEAN : SyncBreak(r, long) => brk' \in 0 .. BreakLen
<1>1. -1 \in -1 .. SaveCover /\ SaveCover \in -1 .. SaveCover /\ BreakLen \in 0 .. BreakLen
  BY TimeAssumption
<1>2. SyncCover(r) => save' \in -1 .. SaveCover
  BY <1>1 DEF TypeOK, SyncCover, NoCover
<1>3. ASSUME NEW long \in BOOLEAN, SyncBreak(r, long) PROVE brk' \in 0 .. BreakLen
  BY <1>1, <1>3 DEF TypeOK, SyncBreak
<1> QED BY <1>2, <1>3

LEMMA AdvanceType == TypeOK /\ Advance => TypeOK'
<1> SUFFICES ASSUME TypeOK, Advance PROVE TypeOK'
  OBVIOUS
<1>1. tod' \in Tods /\ wday' \in Days /\ settled' \in BOOLEAN /\ refills' \in Nat
  <2>1. CASE tod = DayLen - 1
    <3>1. tod' = 0 /\ wday' = IF wday = Weekdays - 1 THEN 0 ELSE wday + 1
      BY <2>1 DEF Advance
    <3>2. tod' \in Tods
      BY <3>1, TimeAssumption DEF Tods
    <3>3. wday' \in Days
      <4>1. wday \in Days /\ Weekdays \in Nat \ {0}
        BY TimeAssumption DEF TypeOK
      <4> QED BY <3>1, <4>1 DEF Days
    <3>4. settled' \in BOOLEAN
      BY <2>1 DEF Advance
    <3>5. refills' \in Nat
      BY <2>1 DEF Advance
    <3> QED BY <3>2, <3>3, <3>4, <3>5
  <2>2. CASE tod # DayLen - 1
    <3>1. tod' \in Tods
      BY <2>2, TimeAssumption DEF TypeOK, Advance, Tods
    <3> QED BY <2>2, <3>1 DEF TypeOK, Advance
  <2> QED BY <2>1, <2>2
<1>2. hold' \in 0 .. DayLen
  BY TimeAssumption DEF TypeOK, Advance, Less
<1>5. moved' \in BOOLEAN /\ emptied' \in BOOLEAN
  BY DEF Advance
<1>3. save' \in -1 .. SaveCover
  BY TimeAssumption DEF TypeOK, Advance, Less
<1>4. brk' \in 0 .. BreakLen
  BY TimeAssumption DEF TypeOK, Advance, Less
<1> QED BY <1>1, <1>2, <1>3, <1>4, <1>5 DEF TypeOK, Advance, locks

LEMMA GiveTimeType ==
    ASSUME TypeOK, NEW s \in AskSizes, GiveTime(s)
    PROVE  /\ tod' \in Tods /\ wday' \in Days
           /\ settled' \in BOOLEAN /\ deferred' \in BOOLEAN
           /\ remaining' \in Nat /\ refills' \in Nat
           /\ hold' \in 0 .. DayLen
           /\ moved' \in BOOLEAN /\ emptied' \in BOOLEAN
           /\ sched' \in Schedules
           /\ bedtimeLock' \in BOOLEAN /\ parentLock' \in BOOLEAN
           /\ pinSet' \in BOOLEAN
           /\ save' \in -1 .. SaveCover /\ brk' \in 0 .. BreakLen
<1>1. s \in Nat
  BY AmountAssumption
<1>2. Credited(Clock, s) \in Nat
  BY <1>1, ClockType, CreditedType
<1>3. sched \in Windows /\ tod \in Tods
  BY TimeAssumption DEF TypeOK
<1>4. settled' \in BOOLEAN /\ deferred' \in BOOLEAN /\ remaining' \in Nat
      /\ refills' \in Nat
  BY <1>1, <1>2, PrepareType DEF GiveTime
<1>5. hold' \in 0 .. DayLen
  BY <1>3, ToWakeInDay, TimeAssumption DEF GiveTime, TypeOK, stay
<1>6. brk' \in 0 .. BreakLen
  BY TimeAssumption DEF GiveTime
<1>7. moved' \in BOOLEAN /\ emptied' \in BOOLEAN
  BY DEF GiveTime, TypeOK, stay
<1> QED BY <1>4, <1>5, <1>6, <1>7 DEF GiveTime, TypeOK

LEMMA ParentType == TypeOK /\ ParentStep => TypeOK'
<1> SUFFICES ASSUME TypeOK, ParentStep PROVE TypeOK'
  OBVIOUS
<1>1. ASSUME NEW delta \in GrantSizes, ParentGrant(delta) PROVE TypeOK'
  <2>1. Credited(Clock, delta) \in Nat
    BY ClockType, CreditedType, AmountAssumption
  <2>2. settled' \in BOOLEAN /\ deferred' \in BOOLEAN /\ remaining' \in Nat
        /\ refills' \in Nat
    BY <1>1, <2>1, PrepareType DEF ParentGrant
  <2>3. asks' \in [AskIds -> AskSizes \union {NoAsk}]
    BY <1>1 DEF ParentGrant, TypeOK
  <2>4. emptied' \in BOOLEAN
    BY <1>1 DEF ParentGrant
  <2> QED BY <1>1, <2>2, <2>3, <2>4 DEF ParentGrant, TypeOK, locks, stay
<1>2. ASSUME NEW a \in AskIds, Approve(a) PROVE TypeOK'
  <2>1. asks[a] \in AskSizes
    BY <1>2 DEF Approve, TypeOK
  <2>2. asks' \in [AskIds -> AskSizes \union {NoAsk}]
    BY <1>2 DEF Approve, TypeOK
  <2> QED BY <1>2, <2>1, <2>2, GiveTimeType DEF Approve, TypeOK
<1>3. ASSUME NEW a \in AskIds, Deny(a) PROVE TypeOK'
  BY <1>3, ClockType, PrepareType DEF Deny, Prepare, TypeOK, locks, stay
<1>4. ASSUME NEW locked \in BOOLEAN, SetParentLock(locked) PROVE TypeOK'
  BY <1>4 DEF SetParentLock, TypeOK, clock, stay
<1>5. CASE SetParentPIN
  BY <1>5 DEF SetParentPIN, TypeOK, clock, stay
<1>6. ASSUME NEW window \in Schedules, NEW lock \in BOOLEAN,
             SetBedtime(window, lock)
      PROVE  TypeOK'
  <2>1. moved' \in BOOLEAN
    BY <1>6 DEF SetBedtime
  <2> QED BY <1>6, <2>1 DEF SetBedtime, TypeOK, clock, stay
<1> QED BY <1>1, <1>2, <1>3, <1>4, <1>5, <1>6 DEF ParentStep

LEMMA KidType == TypeOK /\ KidStep => TypeOK'
<1> SUFFICES ASSUME TypeOK, KidStep PROVE TypeOK'
  OBVIOUS
<1>1. ASSUME NEW a \in AskIds, NEW seconds \in AskSizes, CreateAsk(a, seconds)
      PROVE  TypeOK'
  BY <1>1, ClockType, PrepareType DEF CreateAsk, Prepare, TypeOK, locks, stay
<1>2. ASSUME NEW seconds \in AskSizes, PinGrant(seconds) PROVE TypeOK'
  <2>1. asks' \in [AskIds -> AskSizes \union {NoAsk}]
    BY <1>2 DEF PinGrant
  <2> QED BY <1>2, <2>1, GiveTimeType DEF PinGrant, TypeOK
<1>3. CASE PinEndBreak
  BY <1>3, ClockType, PrepareType, TimeAssumption
  DEF PinEndBreak, Prepare, TypeOK, locks, stay
<1> QED BY <1>1, <1>2, <1>3 DEF KidStep

LEMMA SpendType == TypeOK /\ Spend => TypeOK'
<1> SUFFICES ASSUME TypeOK, Spend PROVE TypeOK'
  OBVIOUS
<1>1. CASE Clock = 1
  <2>1. Hours[wday] \in Nat
    BY AmountAssumption DEF TypeOK
  <2>2. remaining' \in Nat
    BY <1>1, <2>1 DEF Spend
  <2>3. deferred' \in BOOLEAN
    BY <1>1 DEF Spend
  <2>4. refills' \in Nat
    BY <1>1, ClockType DEF Spend, TypeOK
  <2>5. hold' \in 0 .. DayLen
    BY <1>1, TimeAssumption DEF Spend
  <2>6. moved' \in BOOLEAN /\ emptied' \in BOOLEAN
    BY <1>1 DEF Spend
  <2> QED BY <1>1, <2>2, <2>3, <2>4, <2>5, <2>6 DEF Spend, TypeOK, locks, stay
<1>2. CASE Clock # 1
  BY <1>2, ClockType, TimeAssumption DEF Spend, TypeOK, locks, stay
<1> QED BY <1>1, <1>2

LEMMA DaemonType == TypeOK /\ DaemonStep => TypeOK'
<1> SUFFICES ASSUME TypeOK, DaemonStep PROVE TypeOK'
  OBVIOUS
<1>1. CASE Restart
  BY <1>1, ClockType, PrepareType DEF Restart, Prepare, TypeOK, locks, stay
<1>2. CASE SyncSaveCover
  BY <1>2, ClockType, PrepareType, SyncType DEF SyncSaveCover, Prepare, TypeOK, locks, stay
<1>3. ASSUME NEW long \in BOOLEAN, SyncPlayBreak(long) PROVE TypeOK'
  BY <1>3, ClockType, PrepareType, SyncType DEF SyncPlayBreak, Prepare, TypeOK, locks, stay
<1>4. ASSUME NEW long \in BOOLEAN, Status(long) PROVE TypeOK'
  BY <1>4, ClockType, PrepareType, SyncType DEF Status, Prepare, TypeOK, locks, stay
<1>5. ASSUME NEW delta \in AppSizes, AppGrant(delta) PROVE TypeOK'
  <2>1. Credited(Clock, delta) \in Nat
    BY ClockType, CreditedType, AmountAssumption
  <2> QED BY <1>5, <2>1, PrepareType DEF AppGrant, TypeOK, locks, stay
<1> QED BY <1>1, <1>2, <1>3, <1>4, <1>5, SpendType DEF DaemonStep

LEMMA TypeStep == TypeOK /\ [Next]_vars => TypeOK'
<1>1. CASE UNCHANGED vars
  BY <1>1 DEF vars, TypeOK
<1> QED BY <1>1, AdvanceType, ParentType, KidType, DaemonType DEF Next

\* Every value of every variable stays in its type, whatever the constants.
THEOREM TypeCorrect == Spec => []TypeOK
BY TypeInit, TypeStep, PTL DEF Spec

-----------------------------------------------------------------------------
(***************************************************************************)
(* The refill.  RefillOncePerDay is inductive by itself: an open refill is *)
(* exactly a day that has had none.                                        *)
(***************************************************************************)
LEMMA RefillInit == Init => RefillOncePerDay
BY DEF Init, RefillOncePerDay

\* Settling the day refills it if it had no refill and is not stayed up.
LEMMA RefillPrepare ==
    ASSUME TypeOK, RefillOncePerDay, NEW r, PrepareAnd(r)
    PROVE  RefillOncePerDay'
<1>1. settled' = TRUE /\ deferred' = Owed /\ refills' = Refilled
  BY DEF PrepareAnd
<1>2. CASE RefillOpen /\ StayUp(remaining)
  <2>1. settled' = TRUE /\ deferred' = TRUE /\ refills' = refills
    BY <1>1, <1>2 DEF Owed, Refilled
  <2>2. refills = 0
    BY <1>2 DEF RefillOncePerDay, RefillOpen
  <2> QED BY <2>1, <2>2 DEF RefillOncePerDay
<1>3. CASE RefillOpen /\ ~StayUp(remaining)
  <2>1. settled' = TRUE /\ deferred' = FALSE /\ refills' = refills + 1
    BY <1>1, <1>3 DEF Owed, Refilled
  <2>2. refills = 0
    BY <1>3 DEF RefillOncePerDay, RefillOpen
  <2> QED BY <2>1, <2>2 DEF RefillOncePerDay
<1>4. CASE ~RefillOpen
  <2>1. settled' = TRUE /\ deferred' = FALSE /\ refills' = refills
    BY <1>1, <1>4 DEF Owed, Refilled
  <2>2. refills = 1
    BY <1>4 DEF RefillOncePerDay, RefillOpen
  <2> QED BY <2>1, <2>2 DEF RefillOncePerDay
<1> QED BY <1>2, <1>3, <1>4

LEMMA RefillSpend ==
    ASSUME TypeOK, RefillOncePerDay, Spend
    PROVE  RefillOncePerDay'
<1>1. CASE Clock = 1 /\ Owed
  BY <1>1 DEF Spend, RefillOncePerDay, Owed, RefillOpen
<1>2. CASE Clock = 1 /\ ~Owed
  <2>1. settled' = TRUE /\ deferred' = FALSE /\ refills' = Refilled
    BY <1>2 DEF Spend
  <2> QED BY <1>2, <2>1 DEF RefillOncePerDay, Owed, Refilled, RefillOpen
<1>3. CASE Clock # 1
  <2>1. PrepareAnd(remaining')
    BY <1>3 DEF Spend, PrepareAnd
  <2> QED BY <2>1, RefillPrepare
<1> QED BY <1>1, <1>2, <1>3

LEMMA RefillStep ==
    TypeOK /\ RefillOncePerDay /\ [Next]_vars => RefillOncePerDay'
<1> SUFFICES ASSUME TypeOK, RefillOncePerDay, [Next]_vars
             PROVE  RefillOncePerDay'
  OBVIOUS
<1>1. CASE Advance
  BY <1>1 DEF Advance, RefillOncePerDay
<1>2. ASSUME NEW r, PrepareAnd(r) PROVE RefillOncePerDay'
  BY <1>2, RefillPrepare
<1>3. CASE ParentStep
  <2>1. ASSUME NEW delta \in GrantSizes, ParentGrant(delta)
        PROVE  RefillOncePerDay'
    BY <2>1, <1>2 DEF ParentGrant
  <2>2. ASSUME NEW a \in AskIds, Approve(a) PROVE RefillOncePerDay'
    BY <2>2, <1>2 DEF Approve, GiveTime
  <2>3. ASSUME NEW a \in AskIds, Deny(a) PROVE RefillOncePerDay'
    BY <2>3, <1>2 DEF Deny, Prepare
  <2>4. ASSUME NEW locked \in BOOLEAN, SetParentLock(locked)
        PROVE  RefillOncePerDay'
    BY <2>4 DEF SetParentLock, clock, RefillOncePerDay
  <2>5. CASE SetParentPIN
    BY <2>5 DEF SetParentPIN, clock, RefillOncePerDay
  <2>6. ASSUME NEW window \in Schedules, NEW lock \in BOOLEAN,
               SetBedtime(window, lock)
        PROVE  RefillOncePerDay'
    BY <2>6 DEF SetBedtime, clock, RefillOncePerDay
  <2> QED BY <1>3, <2>1, <2>2, <2>3, <2>4, <2>5, <2>6 DEF ParentStep
<1>4. CASE KidStep
  <2>1. ASSUME NEW a \in AskIds, NEW seconds \in AskSizes, CreateAsk(a, seconds)
        PROVE  RefillOncePerDay'
    BY <2>1, <1>2 DEF CreateAsk, Prepare
  <2>2. ASSUME NEW seconds \in AskSizes, PinGrant(seconds)
        PROVE  RefillOncePerDay'
    BY <2>2, <1>2 DEF PinGrant, GiveTime
  <2>3. CASE PinEndBreak
    BY <2>3, <1>2 DEF PinEndBreak, Prepare
  <2> QED BY <1>4, <2>1, <2>2, <2>3 DEF KidStep
<1>5. CASE DaemonStep
  <2>1. CASE Restart
    BY <2>1, <1>2 DEF Restart, Prepare
  <2>2. CASE SyncSaveCover
    BY <2>2, <1>2 DEF SyncSaveCover, Prepare
  <2>3. ASSUME NEW long \in BOOLEAN, SyncPlayBreak(long) PROVE RefillOncePerDay'
    BY <2>3, <1>2 DEF SyncPlayBreak, Prepare
  <2>4. ASSUME NEW long \in BOOLEAN, Status(long) PROVE RefillOncePerDay'
    BY <2>4, <1>2 DEF Status, Prepare
  <2>5. ASSUME NEW delta \in AppSizes, AppGrant(delta) PROVE RefillOncePerDay'
    BY <2>5, <1>2 DEF AppGrant
  <2> QED BY <1>5, <2>1, <2>2, <2>3, <2>4, <2>5, RefillSpend DEF DaemonStep
<1>6. CASE UNCHANGED vars
  BY <1>6 DEF vars, RefillOncePerDay
<1> QED BY <1>1, <1>3, <1>4, <1>5, <1>6 DEF Next

\* Each day gets its hours exactly once, for every schedule of calls around
\* midnight and every length of stay-up.
THEOREM RefillOnce == Spec => []RefillOncePerDay
BY RefillInit, RefillStep, TypeCorrect, PTL DEF Spec

-----------------------------------------------------------------------------
(***************************************************************************)
(* The stay-up hold: until the parent moves the window, it is the distance *)
(* to the wake of the night that is running.                               *)
(***************************************************************************)
LEMMA InsideUntilWake ==
    ASSUME NEW w \in Windows, NEW t \in Tods, InWindow(w, t)
    PROVE  LET u == IF t = DayLen - 1 THEN 0 ELSE t + 1
           IN  /\ ToWake(w, t) # 1 => InWindow(w, u)
               /\ ToWake(w, t) # 1 => ToWake(w, u) = ToWake(w, t) - 1
<1>1. DayLen \in Nat /\ DayLen > 1
  BY TimeAssumption
<1>2. w.start \in Tods /\ w.end \in Tods
  BY DEF Windows
<1>3. CASE t = DayLen - 1
  BY <1>1, <1>2, <1>3, SMTT(30) DEF InWindow, ToWake, Tods
<1>4. CASE t # DayLen - 1
  BY <1>1, <1>2, <1>4, SMTT(30) DEF InWindow, ToWake, Tods
<1> QED BY <1>3, <1>4

LEMMA HoldAdvance ==
    ASSUME TypeOK, HoldIsTonights, Advance
    PROVE  HoldIsTonights'
<1>0. sched \in Windows
  BY TimeAssumption DEF TypeOK
<1>1. sched' = sched
  BY DEF Advance
<1>2. tod' = IF tod = DayLen - 1 THEN 0 ELSE tod + 1
  BY DEF Advance
<1>3. hold' = Less(hold)
  BY DEF Advance
<1> SUFFICES ASSUME hold' > 0, ~moved'
             PROVE  InBedtime' /\ hold' = ToWake(sched', tod')
  BY DEF HoldIsTonights
<1>4. hold > 1 /\ hold' = hold - 1
  BY <1>3 DEF Less, TypeOK
<1>5. InWindow(sched, tod) /\ hold = ToWake(sched, tod)
  <2>1. ~moved
    BY <1>4 DEF Advance
  <2> QED BY <1>4, <2>1 DEF HoldIsTonights, InBedtime, TypeOK
<1>6. tod \in Tods
  BY DEF TypeOK
<1>7. InWindow(sched, tod') /\ ToWake(sched, tod') = ToWake(sched, tod) - 1
  BY <1>0, <1>2, <1>4, <1>5, <1>6, InsideUntilWake
<1> QED BY <1>1, <1>4, <1>5, <1>7 DEF InBedtime

\* Approving inside the window puts the hold at the wake; elsewhere the hold
\* stays what it was.
LEMMA HoldGiveTime ==
    ASSUME TypeOK, HoldIsTonights, NEW s, GiveTime(s)
    PROVE  HoldIsTonights'
<1>1. sched' = sched /\ tod' = tod
  BY DEF GiveTime
<1>2. CASE BedtimeStayUp
  BY <1>1, <1>2 DEF GiveTime, BedtimeStayUp, HoldIsTonights, InBedtime
<1>3. CASE ~BedtimeStayUp
  BY <1>1, <1>3 DEF GiveTime, HoldIsTonights, InBedtime, stay
<1> QED BY <1>2, <1>3

LEMMA HoldStep ==
    TypeOK /\ HoldIsTonights /\ [Next]_vars => HoldIsTonights'
<1> SUFFICES ASSUME TypeOK, HoldIsTonights, [Next]_vars
             PROVE  HoldIsTonights'
  OBVIOUS
<1>1. CASE Advance
  BY <1>1, HoldAdvance
<1>2. ASSUME UNCHANGED <<tod, sched, hold, moved>> \/ hold' = 0
      PROVE  HoldIsTonights'
  BY <1>2 DEF HoldIsTonights, InBedtime
<1>3. CASE ParentStep
  <2>1. ASSUME NEW delta \in GrantSizes, ParentGrant(delta)
        PROVE  HoldIsTonights'
    BY <2>1, <1>2 DEF ParentGrant
  <2>2. ASSUME NEW a \in AskIds, Approve(a) PROVE HoldIsTonights'
    BY <2>2, HoldGiveTime DEF Approve
  <2>3. ASSUME NEW a \in AskIds, Deny(a) PROVE HoldIsTonights'
    BY <2>3, <1>2 DEF Deny, stay
  <2>4. ASSUME NEW locked \in BOOLEAN, SetParentLock(locked)
        PROVE  HoldIsTonights'
    BY <2>4, <1>2 DEF SetParentLock, stay
  <2>5. CASE SetParentPIN
    BY <2>5, <1>2 DEF SetParentPIN, stay
  <2>6. ASSUME NEW window \in Schedules, NEW lock \in BOOLEAN,
               SetBedtime(window, lock)
        PROVE  HoldIsTonights'
    <3>1. CASE window = sched
      BY <2>6, <3>1, <1>2 DEF SetBedtime, TypeOK
    <3>2. CASE window # sched
      BY <2>6, <3>2 DEF SetBedtime, HoldIsTonights
    <3> QED BY <3>1, <3>2
  <2> QED BY <1>3, <2>1, <2>2, <2>3, <2>4, <2>5, <2>6 DEF ParentStep
<1>4. CASE KidStep
  <2>1. ASSUME NEW a \in AskIds, NEW seconds \in AskSizes, CreateAsk(a, seconds)
        PROVE  HoldIsTonights'
    BY <2>1, <1>2 DEF CreateAsk, stay
  <2>2. ASSUME NEW seconds \in AskSizes, PinGrant(seconds)
        PROVE  HoldIsTonights'
    BY <2>2, HoldGiveTime DEF PinGrant
  <2>3. CASE PinEndBreak
    BY <2>3, <1>2 DEF PinEndBreak, stay
  <2> QED BY <1>4, <2>1, <2>2, <2>3 DEF KidStep
<1>5. CASE DaemonStep
  <2>1. CASE Restart
    BY <2>1, <1>2 DEF Restart, stay
  <2>2. CASE SyncSaveCover
    BY <2>2, <1>2 DEF SyncSaveCover, stay
  <2>3. ASSUME NEW long \in BOOLEAN, SyncPlayBreak(long) PROVE HoldIsTonights'
    BY <2>3, <1>2 DEF SyncPlayBreak, stay
  <2>4. ASSUME NEW long \in BOOLEAN, Status(long) PROVE HoldIsTonights'
    BY <2>4, <1>2 DEF Status, stay
  <2>5. ASSUME NEW delta \in AppSizes, AppGrant(delta) PROVE HoldIsTonights'
    BY <2>5, <1>2 DEF AppGrant, stay
  <2>6. CASE Spend
    BY <2>6, <1>2 DEF Spend, stay
  <2> QED BY <1>5, <2>1, <2>2, <2>3, <2>4, <2>5, <2>6 DEF DaemonStep
<1>6. CASE UNCHANGED vars
  BY <1>6, <1>2 DEF vars
<1> QED BY <1>1, <1>3, <1>4, <1>5, <1>6 DEF Next

\* Wherever midnight falls in the bedtime window, a stay-up ends at the wake
\* of its own night, unless the parent moves the window meanwhile.
THEOREM HoldEndsAtWake == Spec => []HoldIsTonights
<1>1. Init => HoldIsTonights
  BY DEF Init, HoldIsTonights
<1>2. TypeOK /\ HoldIsTonights /\ [Next]_vars => HoldIsTonights'
  BY HoldStep
<1> QED BY <1>1, <1>2, TypeCorrect, PTL DEF Spec

-----------------------------------------------------------------------------
(***************************************************************************)
(* Bedtime: until a parent takes its last minutes away, a hold has minutes *)
(* behind it (the strengthening), so a shut bedtime has no hold, and only  *)
(* GiveTime makes one.                                                     *)
(***************************************************************************)
\* Settling the day does not touch the minutes of a stay-up.
LEMMA StayUpKeepsClock ==
    ASSUME TypeOK, HoldHasMinutes, hold > 0, ~emptied
    PROVE  Clock = remaining /\ Clock > 0
BY DEF TypeOK, HoldHasMinutes, Clock, StayUp

LEMMA CreditedMinutes ==
    ASSUME NEW r \in Nat, NEW d \in Int, d > 0
    PROVE  Credited(r, d) > 0
BY DEF Credited

LEMMA MinutesGiveTime ==
    ASSUME TypeOK, HoldHasMinutes, NEW s \in AskSizes, GiveTime(s)
    PROVE  HoldHasMinutes'
<1>1. s \in Int /\ s > 0
  BY AmountAssumption
<1>2. remaining' > 0
  BY <1>1, ClockType, CreditedMinutes DEF GiveTime, PrepareAnd
<1> QED BY <1>2 DEF HoldHasMinutes

LEMMA MinutesStep ==
    TypeOK /\ HoldHasMinutes /\ [Next]_vars => HoldHasMinutes'
<1> SUFFICES ASSUME TypeOK, HoldHasMinutes, [Next]_vars
             PROVE  HoldHasMinutes'
  OBVIOUS
<1>1. CASE Advance
  BY <1>1 DEF Advance, Less, TypeOK, HoldHasMinutes
<1>2. ASSUME UNCHANGED <<hold, emptied, remaining>> PROVE HoldHasMinutes'
  BY <1>2 DEF HoldHasMinutes
<1>3. ASSUME UNCHANGED stay, Prepare PROVE HoldHasMinutes'
  BY <1>3, StayUpKeepsClock DEF Prepare, PrepareAnd, HoldHasMinutes, stay
<1>4. ASSUME NEW d \in Int, d > 0, PrepareAnd(Credited(Clock, d))
      PROVE  HoldHasMinutes'
  BY <1>4, ClockType, CreditedMinutes DEF PrepareAnd, HoldHasMinutes
<1>5. CASE ParentStep
  <2>1. ASSUME NEW delta \in GrantSizes, ParentGrant(delta)
        PROVE  HoldHasMinutes'
    <3>1. remaining' = Credited(Clock, delta) /\ hold' = hold
      BY <2>1 DEF ParentGrant, PrepareAnd
    <3>2. remaining' \in Nat
      BY <3>1, ClockType, CreditedType, AmountAssumption
    <3>3. hold > 0 /\ remaining' = 0 => emptied'
      BY <2>1, <3>1 DEF ParentGrant
    <3> QED BY <3>1, <3>2, <3>3 DEF HoldHasMinutes
  <2>2. ASSUME NEW a \in AskIds, Approve(a) PROVE HoldHasMinutes'
    <3>1. asks[a] \in AskSizes
      BY <2>2 DEF Approve, TypeOK
    <3> QED BY <2>2, <3>1, MinutesGiveTime DEF Approve
  <2>3. ASSUME NEW a \in AskIds, Deny(a) PROVE HoldHasMinutes'
    BY <2>3, <1>3 DEF Deny
  <2>4. ASSUME NEW locked \in BOOLEAN, SetParentLock(locked)
        PROVE  HoldHasMinutes'
    BY <2>4, <1>2 DEF SetParentLock, clock, stay
  <2>5. CASE SetParentPIN
    BY <2>5, <1>2 DEF SetParentPIN, clock, stay
  <2>6. ASSUME NEW window \in Schedules, NEW lock \in BOOLEAN,
               SetBedtime(window, lock)
        PROVE  HoldHasMinutes'
    BY <2>6, <1>2 DEF SetBedtime, clock
  <2> QED BY <1>5, <2>1, <2>2, <2>3, <2>4, <2>5, <2>6 DEF ParentStep
<1>6. CASE KidStep
  <2>1. ASSUME NEW a \in AskIds, NEW seconds \in AskSizes, CreateAsk(a, seconds)
        PROVE  HoldHasMinutes'
    BY <2>1, <1>3 DEF CreateAsk
  <2>2. ASSUME NEW seconds \in AskSizes, PinGrant(seconds)
        PROVE  HoldHasMinutes'
    BY <2>2, MinutesGiveTime DEF PinGrant
  <2>3. CASE PinEndBreak
    BY <2>3, <1>3 DEF PinEndBreak
  <2> QED BY <1>6, <2>1, <2>2, <2>3 DEF KidStep
<1>7. CASE DaemonStep
  <2>1. CASE Restart
    BY <2>1, <1>3 DEF Restart
  <2>2. CASE SyncSaveCover
    BY <2>2, <1>3 DEF SyncSaveCover
  <2>3. ASSUME NEW long \in BOOLEAN, SyncPlayBreak(long) PROVE HoldHasMinutes'
    BY <2>3, <1>3 DEF SyncPlayBreak
  <2>4. ASSUME NEW long \in BOOLEAN, Status(long) PROVE HoldHasMinutes'
    BY <2>4, <1>3 DEF Status
  <2>5. ASSUME NEW delta \in AppSizes, AppGrant(delta) PROVE HoldHasMinutes'
    <3>1. delta \in Int /\ delta > 0
      BY AmountAssumption
    <3> QED BY <2>5, <3>1, <1>4 DEF AppGrant
  <2>6. CASE Spend
    <3>1. CASE Clock = 1
      BY <2>6, <3>1 DEF Spend, HoldHasMinutes
    <3>2. CASE Clock # 1
      BY <2>6, <3>2, ClockType, StayUpKeepsClock DEF Spend, HoldHasMinutes, stay
    <3> QED BY <3>1, <3>2
  <2> QED BY <1>7, <2>1, <2>2, <2>3, <2>4, <2>5, <2>6 DEF DaemonStep
<1>8. CASE UNCHANGED vars
  BY <1>8, <1>2 DEF vars
<1> QED BY <1>1, <1>5, <1>6, <1>7, <1>8 DEF Next

\* A hold never outlives its minutes, unless a grant takes them away.
THEOREM MinutesBehindHold == Spec => []HoldHasMinutes
<1>1. Init => HoldHasMinutes
  BY DEF Init, HoldHasMinutes
<1>2. TypeOK /\ HoldHasMinutes /\ [Next]_vars => HoldHasMinutes'
  BY MinutesStep
<1> QED BY <1>1, <1>2, TypeCorrect, PTL DEF Spec

\* Whatever step makes a hold where there was none is an approved ask or the
\* parent PIN.
LEMMA HoldNeedsApproval ==
    ASSUME TypeOK, hold = 0, [Next]_vars, hold' > 0
    PROVE  \/ \E a \in AskIds : Approve(a)
           \/ \E s \in AskSizes : PinGrant(s)
<1>1. CASE Advance
  BY <1>1 DEF Advance, Less
<1>2. CASE ParentStep
  BY <1>2 DEF ParentStep, ParentGrant, Deny, SetParentLock, SetParentPIN,
              SetBedtime, stay
<1>3. CASE KidStep
  BY <1>3 DEF KidStep, CreateAsk, PinEndBreak, stay
<1>4. CASE DaemonStep
  BY <1>4 DEF DaemonStep, Restart, SyncSaveCover, SyncPlayBreak, Status, Spend,
              AppGrant, stay
<1>5. CASE UNCHANGED vars
  BY <1>5 DEF vars
<1> QED BY <1>1, <1>2, <1>3, <1>4, <1>5 DEF Next

\* No refill, midnight, restart, grant or moved window opens a locked bedtime.
THEOREM BedtimeIsKept == Spec => BedtimeHolds
<1>1. TypeOK /\ HoldHasMinutes /\ [Next]_vars /\ BedtimeLifts
         => \/ emptied
            \/ \E a \in AskIds : Approve(a)
            \/ \E s \in AskSizes : PinGrant(s)
  <2> SUFFICES ASSUME TypeOK, HoldHasMinutes, [Next]_vars, BedtimeLifts, ~emptied
               PROVE  \/ \E a \in AskIds : Approve(a)
                      \/ \E s \in AskSizes : PinGrant(s)
    OBVIOUS
  <2>1. ~StayUp(remaining)
    BY DEF BedtimeLifts, BedtimeShut
  <2>2. hold = 0
    BY <2>1 DEF StayUp, HoldHasMinutes, TypeOK
  <2>3. StayUp(remaining)'
    BY DEF BedtimeLifts, BedtimeShut
  <2>4. hold' > 0
    BY <2>3 DEF StayUp
  <2> QED BY <2>2, <2>4, HoldNeedsApproval
<1>2. TypeOK /\ HoldHasMinutes /\ [Next]_vars
         => [BedtimeLifts => \/ emptied
                             \/ \E a \in AskIds : Approve(a)
                             \/ \E s \in AskSizes : PinGrant(s)]_vars
  BY <1>1
<1> QED BY <1>2, TypeCorrect, MinutesBehindHold, PTL DEF Spec, BedtimeHolds

-----------------------------------------------------------------------------
(***************************************************************************)
(* The refill replaces: a step that counts one leaves the day's hours, and *)
(* what the same step credits.                                             *)
(***************************************************************************)
LEMMA RefillMakesClock ==
    ASSUME TypeOK, Refilled > refills
    PROVE  Clock = Hours[wday] /\ Hours[wday] \in Nat
<1>1. RefillOpen /\ ~StayUp(remaining)
  BY DEF TypeOK, Refilled
<1> QED BY <1>1, AmountAssumption DEF Clock, TypeOK

Sizes == GrantSizes \union AppSizes \union AskSizes \union {0}

Unstacked == \E s \in Sizes : remaining' <= Hours[wday] + s

LEMMA UnstackedSettled ==
    ASSUME TypeOK, Refilled > refills, remaining' = Clock
    PROVE  Unstacked
<1>1. remaining' <= Hours[wday] + 0
  BY RefillMakesClock
<1> QED BY <1>1 DEF Unstacked, Sizes

LEMMA UnstackedCredit ==
    ASSUME TypeOK, Refilled > refills,
           NEW d \in GrantSizes \union AppSizes \union AskSizes,
           remaining' = Credited(Clock, d) \/ (d > 0 /\ remaining' = d)
    PROVE  Unstacked
<1>1. d \in Int /\ Hours[wday] \in Nat /\ Clock = Hours[wday]
  BY AmountAssumption, RefillMakesClock
<1>2. CASE remaining' = 0
  <2>1. remaining' <= Hours[wday] + 0
    BY <1>1, <1>2
  <2> QED BY <2>1 DEF Unstacked, Sizes
<1>3. CASE remaining' # 0
  <2>1. remaining' <= Hours[wday] + d
    BY <1>1, <1>3 DEF Credited
  <2> QED BY <2>1 DEF Unstacked, Sizes
<1> QED BY <1>2, <1>3

LEMMA UnstackedSpend ==
    ASSUME TypeOK, Spend, refills' > refills
    PROVE  Unstacked
<1>1. Clock \in Nat /\ Hours[wday] \in Nat /\ refills \in Nat
  BY ClockType, AmountAssumption DEF TypeOK
<1>2. CASE Clock = 1 /\ Owed
  <2>1. remaining' <= Hours[wday] + 0
    BY <1>1, <1>2 DEF Spend
  <2> QED BY <2>1 DEF Unstacked, Sizes
<1>3. CASE ~(Clock = 1 /\ Owed)
  <2>1. refills' = Refilled
    BY <1>3 DEF Spend
  <2>2. Clock = Hours[wday]
    BY <2>1, RefillMakesClock
  <2>3. remaining' <= Clock
    BY <1>1, <1>3 DEF Spend
  <2>4. remaining' <= Hours[wday] + 0
    BY <1>1, <2>2, <2>3, ClockType DEF Spend
  <2> QED BY <2>4 DEF Unstacked, Sizes
<1> QED BY <1>2, <1>3

LEMMA UnstackedStep ==
    TypeOK /\ [Next]_vars /\ refills' > refills => Unstacked
<1> SUFFICES ASSUME TypeOK, [Next]_vars, refills' > refills PROVE Unstacked
  OBVIOUS
<1> refills \in Nat
  BY DEF TypeOK
<1>1. CASE Advance
  BY <1>1 DEF Advance
<1>2. ASSUME Prepare PROVE Unstacked
  BY <1>2, UnstackedSettled DEF Prepare, PrepareAnd
<1>3. ASSUME NEW d \in GrantSizes \union AppSizes, PrepareAnd(Credited(Clock, d))
      PROVE  Unstacked
  BY <1>3, UnstackedCredit DEF PrepareAnd
<1>4. ASSUME NEW s \in AskSizes, GiveTime(s) PROVE Unstacked
  <2>1. s \in Nat /\ s > 0
    BY AmountAssumption
  <2> QED BY <1>4, <2>1, UnstackedCredit DEF GiveTime, PrepareAnd
<1>5. CASE ParentStep
  <2>1. ASSUME NEW delta \in GrantSizes, ParentGrant(delta) PROVE Unstacked
    BY <2>1, <1>3 DEF ParentGrant
  <2>2. ASSUME NEW a \in AskIds, Approve(a) PROVE Unstacked
    <3>1. asks[a] \in AskSizes
      BY <2>2 DEF Approve, TypeOK
    <3> QED BY <2>2, <3>1, <1>4 DEF Approve
  <2>3. ASSUME NEW a \in AskIds, Deny(a) PROVE Unstacked
    BY <2>3, <1>2 DEF Deny
  <2>4. CASE \/ \E locked \in BOOLEAN : SetParentLock(locked)
             \/ SetParentPIN
             \/ \E window \in Schedules, lock \in BOOLEAN : SetBedtime(window, lock)
    BY <2>4 DEF SetParentLock, SetParentPIN, SetBedtime, clock
  <2> QED BY <1>5, <2>1, <2>2, <2>3, <2>4 DEF ParentStep
<1>6. CASE KidStep
  <2>1. CASE \E a \in AskIds, seconds \in AskSizes : CreateAsk(a, seconds)
    BY <2>1, <1>2 DEF CreateAsk
  <2>2. ASSUME NEW seconds \in AskSizes, PinGrant(seconds) PROVE Unstacked
    BY <2>2, <1>4 DEF PinGrant
  <2>3. CASE PinEndBreak
    BY <2>3, <1>2 DEF PinEndBreak
  <2> QED BY <1>6, <2>1, <2>2, <2>3 DEF KidStep
<1>7. CASE DaemonStep
  <2>1. CASE Restart \/ SyncSaveCover
    BY <2>1, <1>2 DEF Restart, SyncSaveCover
  <2>2. ASSUME NEW long \in BOOLEAN, SyncPlayBreak(long) \/ Status(long)
        PROVE  Unstacked
    BY <2>2, <1>2 DEF SyncPlayBreak, Status
  <2>3. ASSUME NEW delta \in AppSizes, AppGrant(delta) PROVE Unstacked
    BY <2>3, <1>3 DEF AppGrant
  <2> QED BY <1>7, <2>1, <2>2, <2>3, UnstackedSpend DEF DaemonStep
<1>8. CASE UNCHANGED vars
  BY <1>8 DEF vars
<1> QED BY <1>1, <1>5, <1>6, <1>7, <1>8 DEF Next

\* What is left of yesterday never stacks on the hours of today.
THEOREM NothingStacks == Spec => NoStacking
<1>1. TypeOK /\ [Next]_vars =>
        [refills' > refills =>
            \E s \in GrantSizes \union AppSizes \union AskSizes \union {0} :
                remaining' <= Hours[wday] + s]_vars
  BY UnstackedStep DEF Unstacked, Sizes
<1> QED BY <1>1, TypeCorrect, PTL DEF Spec, NoStacking

-----------------------------------------------------------------------------
(***************************************************************************)
(* The save cover: a sync drops it only where the overlay is down, sets it *)
(* only where there is none, and time shortens it.                         *)
(***************************************************************************)
Kept == save' # NoCover /\ save' <= save

LEMMA KeptBySync ==
    ASSUME TypeOK, save # NoCover, SyncCover(Clock), OverlayOn(Clock)
    PROVE  Kept
<1>1. save' = save
  BY DEF SyncCover
<1>2. save \in Int
  BY TimeAssumption DEF TypeOK
<1> QED BY <1>1, <1>2 DEF Kept

\* An overlay that is up for bedtime or an empty clock after the call was so
\* when the cover was synced: a break that the call starts is not of that kind.
LEMMA OverlayBefore ==
    ASSUME CoverEligible(remaining)', Prepare,
           UNCHANGED <<tod, hold, sched, bedtimeLock, parentLock, pinSet>>,
           brk' = brk \/ brk' = BreakLen
    PROVE  OverlayOn(Clock)
<1>1. remaining' = Clock
  BY DEF Prepare, PrepareAnd
<1>2. ~(brk' > 0) /\ OverlayOn(remaining)'
  BY DEF CoverEligible, BreakActive
<1>3. brk' = brk
  BY <1>2, TimeAssumption
<1>4. pinSet
  BY <1>2 DEF OverlayOn
<1>5. BedtimeShut(remaining)' = BedtimeShut(Clock)
  BY <1>1 DEF BedtimeShut, BedtimeStayUp, InBedtime, StayUp
<1>6. \/ BedtimeShut(remaining)'
      \/ RemoteLock /\ parentLock
      \/ EmptyLock /\ Clock <= 0
  BY <1>1, <1>2, ZenonT(30) DEF OverlayOn, BreakActive
<1> QED BY <1>4, <1>5, <1>6, Zenon DEF OverlayOn

LEMMA KeptStep ==
    ASSUME TypeOK, [Next]_vars, save # NoCover, CoverEligible(remaining)'
    PROVE  Kept
<1>0. save \in Int /\ save >= 0
  BY TimeAssumption DEF TypeOK, NoCover
<1>1. CASE Advance
  BY <1>0, <1>1 DEF Advance, Less, Kept, NoCover
<1>2. ASSUME UNCHANGED save PROVE Kept
  BY <1>0, <1>2 DEF Kept
<1>3. CASE ParentStep
  BY <1>2, <1>3 DEF ParentStep, ParentGrant, Approve, Deny, GiveTime,
                    SetParentLock, SetParentPIN, SetBedtime
<1>4. CASE KidStep
  BY <1>2, <1>4 DEF KidStep, CreateAsk, PinGrant, GiveTime, PinEndBreak
<1>5. CASE DaemonStep
  <2>1. CASE SyncSaveCover
    <3>1. OverlayOn(Clock)
      BY <2>1, OverlayBefore DEF SyncSaveCover, stay, locks
    <3> QED BY <2>1, <3>1, KeptBySync DEF SyncSaveCover
  <2>2. ASSUME NEW long \in BOOLEAN, Status(long) PROVE Kept
    <3>1. brk' = brk \/ brk' = BreakLen
      BY <2>2 DEF Status, SyncBreak
    <3>2. OverlayOn(Clock)
      BY <2>2, <3>1, OverlayBefore DEF Status, stay, locks
    <3> QED BY <2>2, <3>2, KeptBySync DEF Status
  <2>3. CASE \/ Restart \/ Spend
             \/ \E long \in BOOLEAN : SyncPlayBreak(long)
             \/ \E delta \in AppSizes : AppGrant(delta)
    BY <1>2, <2>3 DEF Restart, Spend, SyncPlayBreak, AppGrant
  <2> QED BY <1>5, <2>1, <2>2, <2>3 DEF DaemonStep
<1>6. CASE UNCHANGED vars
  BY <1>2, <1>6 DEF vars
<1> QED BY <1>1, <1>3, <1>4, <1>5, <1>6 DEF Next

\* The minute to save is given once for each time the overlay comes up.
THEOREM OneCover == Spec => CoverNotRenewed
<1>1. TypeOK /\ [Next]_vars =>
        [CoverEligible(remaining) /\ CoverEligible(remaining)' /\ save # NoCover
            => save' # NoCover /\ save' <= save]_vars
  BY KeptStep DEF Kept
<1> QED BY <1>1, TypeCorrect, PTL DEF Spec, CoverNotRenewed
=============================================================================
