-------------------------------- MODULE Bank --------------------------------
(***************************************************************************)
(* The kid computer's bank (daemon/internal/bank): the fun clock, the day  *)
(* it was last refilled for, the stay-up hold, the bedtime window, the     *)
(* parent lock, the play break, the save cover and the pending asks.       *)
(*                                                                         *)
(* One action is one exported method: the code holds b.mu from its first   *)
(* line to its return.  Most methods begin with prepareLocked, which       *)
(* settles the day; what a method then reads of the clock is Clock, not    *)
(* remaining.                                                              *)
(*                                                                         *)
(* Time is cyclic.  tod is the instant of the day and wday the weekday;    *)
(* the deadlines holdUntil, breakUntil and saveUntil are kept as the time  *)
(* left until them, so a passed deadline is 0 and no run needs an end.     *)
(***************************************************************************)
EXTENDS Integers

CONSTANTS
    DayLen,      \* instants in a day
    Weekdays,    \* number of weekdays that differ in their hours
    Hours,       \* Hours[w]: the fun allotment of weekday w
    Schedules,   \* bedtime windows a parent may set
    SaveCover,   \* length of the save cover
    BreakLen,    \* length of a play break
    GrantSizes,  \* amounts a parent grants; a negative one takes time away
    AppSizes,    \* amounts an app token grants
    AskSizes,    \* amounts asked for or given with the parent PIN
    AskIds,      \* asks that can be pending at the same time
    MaxBalance,  \* bound: no credit takes the clock above it
    EmptyLock,   \* cfg.EmptyLock /\ ~cfg.Lab.Enabled
    RemoteLock   \* cfg.RemoteLock

Tods == 0 .. DayLen - 1
Days == 0 .. Weekdays - 1
Windows == [start : Tods, end : Tods]  \* start = end: the whole day

ASSUME TimeAssumption ==
    /\ DayLen \in Nat /\ DayLen > 1
    /\ Weekdays \in Nat \ {0}
    /\ Schedules # {} /\ Schedules \subseteq Windows
    /\ SaveCover \in Nat \ {0}
    /\ BreakLen \in Nat \ {0}
ASSUME AmountAssumption ==
    /\ Hours \in [Days -> Nat]
    /\ GrantSizes \subseteq Int \ {0}
    /\ AppSizes \subseteq Nat \ {0}
    /\ AskSizes \subseteq Nat \ {0}
    /\ MaxBalance \in Nat
    /\ \A w \in Days : Hours[w] <= MaxBalance
    /\ \A s \in AskSizes : s <= MaxBalance
ASSUME LockAssumption == EmptyLock \in BOOLEAN /\ RemoteLock \in BOOLEAN

NoCover == -1  \* saveUntil.IsZero()
NoAsk == 0     \* the ask slot holds no pending ask

VARIABLES
    tod, wday,     \* the wall clock
    settled,       \* meta.day is today: resetDayLocked has seen this day
    remaining,     \* balances["fun"].remaining
    deferred,      \* meta.refill_deferred
    hold,          \* time left to ov.holdUntil
    sched,         \* look.Bedtime, as lights-out and wake
    bedtimeLock,   \* effectiveBedtimeLock
    parentLock,    \* ov.parentLock
    pinSet,        \* ov.parentPin # ""
    save,          \* NoCover, or time left to ov.saveUntil
    brk,           \* time left to ov.breakUntil
    asks,          \* asks[a]: seconds of the pending ask a, or NoAsk
    refills,       \* history: refills applied since midnight
    moved,         \* history: the window was moved under this stay-up
    emptied        \* history: a grant took this stay-up's last minutes away

clock == <<settled, remaining, deferred, refills>>
locks == <<bedtimeLock, parentLock, pinSet>>
stay == <<hold, moved, emptied>>
vars == <<tod, wday, settled, remaining, deferred, hold, sched, bedtimeLock,
          parentLock, pinSet, save, brk, asks, refills, moved, emptied>>

-----------------------------------------------------------------------------
(* The bedtime window and the deadlines.                                   *)

\* mutant: the wake counted into the window
InWindowClosed(w, t) == IF w.start < w.end THEN w.start <= t /\ t <= w.end
                                           ELSE w.start <= t \/ t <= w.end

\* config.ClockContains: is instant t inside the window w
InWindow(w, t) == IF w.start < w.end THEN w.start <= t /\ t < w.end
                                     ELSE w.start <= t \/ t < w.end

\* bedtimeActiveLocked
InBedtime == InWindow(sched, tod)

\* mutant: never the wake of tomorrow
ToWakeToday(w, t) == w.end - t

\* nextWakeLocked, as the time left to the next end of the window
ToWake(w, t) == IF t < w.end THEN w.end - t ELSE w.end - t + DayLen

Less(d) == IF d > 0 THEN d - 1 ELSE d

-----------------------------------------------------------------------------
(* What prepareLocked (resetDayLocked) makes of the clock.                 *)

\* stayUpActiveLocked, for a clock that reads r
StayUp(r) == hold > 0 /\ r > 0

\* a refill is owed: midnight went by, or an earlier one was put off
RefillOpen == ~settled \/ deferred

\* mutant: the refill adds to what is left
ClockStacks == IF RefillOpen /\ ~StayUp(remaining) THEN remaining + Hours[wday]
                                                  ELSE remaining

\* the clock after prepareLocked
Clock == IF RefillOpen /\ ~StayUp(remaining) THEN Hours[wday] ELSE remaining

\* mutant: the second look at the day forgets that a refill was put off
OwedOnce == ~settled /\ StayUp(remaining)

\* refill_deferred after prepareLocked
Owed == RefillOpen /\ StayUp(remaining)

Refilled == IF RefillOpen /\ ~StayUp(remaining) THEN refills + 1 ELSE refills

\* prepareLocked, followed by a method that sets the clock to r
PrepareAnd(r) == /\ settled' = TRUE
                 /\ deferred' = Owed
                 /\ refills' = Refilled
                 /\ remaining' = r

Prepare == PrepareAnd(Clock)

-----------------------------------------------------------------------------
(* The overlay.                                                            *)

BreakActive == brk > 0

\* bedtimeStayUpLocked
BedtimeStayUp == bedtimeLock /\ InBedtime

BedtimeShut(r) == BedtimeStayUp /\ ~StayUp(r)

\* overlayActiveLocked, for a clock that reads r
OverlayOn(r) == /\ pinSet
                /\ \/ BreakActive
                   \/ BedtimeShut(r)
                   \/ RemoteLock /\ parentLock
                   \/ EmptyLock /\ r <= 0

\* saveCoverEligibleLocked
CoverEligible(r) == /\ OverlayOn(r)
                    /\ ~(RemoteLock /\ parentLock)
                    /\ ~BreakActive

\* mutant: every sync starts the cover again
SyncCoverAgain(r) ==
    save' = IF ~OverlayOn(r) THEN NoCover
            ELSE IF CoverEligible(r) THEN SaveCover ELSE save

\* syncSaveCoverLocked
SyncCover(r) ==
    save' = IF ~OverlayOn(r) THEN NoCover
            ELSE IF CoverEligible(r) /\ save = NoCover THEN SaveCover
            ELSE save

\* syncPlayBreakLocked; long says whether sittingSecondsLocked reached PLAY.
\* The spans the sitting is computed from are module PlayBreak's.
SyncBreak(r, long) ==
    brk' = IF pinSet /\ ~BreakActive /\ r > 0 /\ long THEN BreakLen ELSE brk

-----------------------------------------------------------------------------
Init ==
    /\ tod \in Tods /\ wday \in Days
    /\ settled = TRUE
    /\ remaining = Hours[wday]
    /\ deferred = FALSE
    /\ refills = 1
    /\ hold = 0 /\ moved = FALSE /\ emptied = FALSE
    /\ sched \in Schedules
    /\ bedtimeLock \in BOOLEAN
    /\ parentLock = FALSE
    /\ pinSet = FALSE
    /\ save = NoCover
    /\ brk = 0
    /\ asks = [a \in AskIds |-> NoAsk]

\* One instant passes; every deadline comes closer, midnight opens a new day.
Advance ==
    /\ IF tod = DayLen - 1
       THEN /\ tod' = 0
            /\ wday' = IF wday = Weekdays - 1 THEN 0 ELSE wday + 1
            /\ settled' = FALSE
            /\ refills' = 0
       ELSE /\ tod' = tod + 1
            /\ UNCHANGED <<wday, settled, refills>>
    /\ hold' = Less(hold)
    /\ moved' = (moved /\ hold > 1) /\ emptied' = (emptied /\ hold > 1)
    /\ brk' = Less(brk)
    /\ save' = Less(save)
    /\ UNCHANGED <<remaining, deferred, sched, locks, asks>>

\* Open after a restart, and every method that only settles the day:
\* Remaining, Mint, a call refused after prepareLocked, a wrong PIN.
Restart ==
    /\ Prepare
    /\ UNCHANGED <<tod, wday, stay, sched, locks, save, brk, asks>>

\* SyncSaveCover, the first call of the enforcer's tick.
SyncSaveCover ==
    /\ Prepare
    /\ SyncCover(Clock)
    /\ UNCHANGED <<tod, wday, stay, sched, locks, brk, asks>>

\* SyncPlayBreak, the second call of the enforcer's tick.
SyncPlayBreak(long) ==
    /\ Prepare
    /\ SyncBreak(Clock, long)
    /\ UNCHANGED <<tod, wday, stay, sched, locks, save, asks>>

\* Status does both: a poll of the panel moves the cover and the break too.
Status(long) ==
    /\ Prepare
    /\ SyncCover(Clock)
    /\ SyncBreak(Clock, long)
    /\ UNCHANGED <<tod, wday, stay, sched, locks, asks>>

\* mutant: the last second leaves the hold
SpendKeepsHold ==
    /\ PrepareAnd(IF Clock > 0 THEN Clock - 1 ELSE Clock)
    /\ UNCHANGED <<tod, wday, stay, sched, locks, save, brk, asks>>

\* Spend("fun"): one second off the clock.  The last one ends the stay-up
\* and applies the refill it had put off.
Spend ==
    /\ settled' = TRUE
    /\ IF Clock = 1
       THEN /\ hold' = 0 /\ moved' = FALSE /\ emptied' = FALSE
            /\ remaining' = IF Owed THEN Hours[wday] ELSE 0
            /\ refills' = IF Owed THEN refills + 1 ELSE Refilled
            /\ deferred' = FALSE
       ELSE /\ remaining' = IF Clock > 0 THEN Clock - 1 ELSE Clock
            /\ refills' = Refilled
            /\ deferred' = Owed
            /\ UNCHANGED stay
    /\ UNCHANGED <<tod, wday, sched, locks, save, brk, asks>>

\* applyDeltaLocked: remaining := MAX(0, remaining + delta)
Credited(r, delta) == IF r + delta > 0 THEN r + delta ELSE 0

\* Grant by a parent; a credit dismisses every pending ask.
ParentGrant(delta) ==
    /\ Clock + delta <= MaxBalance
    /\ PrepareAnd(Credited(Clock, delta))
    /\ asks' = IF delta > 0 THEN [a \in AskIds |-> NoAsk] ELSE asks
    /\ emptied' = (emptied \/ (hold > 0 /\ Credited(Clock, delta) = 0))
    /\ UNCHANGED <<tod, wday, hold, moved, sched, locks, save, brk>>

\* Grant by an app token: credits only, and the asks stay.
AppGrant(delta) ==
    /\ Clock + delta <= MaxBalance
    /\ PrepareAnd(Credited(Clock, delta))
    /\ UNCHANGED <<tod, wday, stay, sched, locks, save, brk, asks>>

CreateAsk(a, seconds) ==
    /\ asks[a] = NoAsk
    /\ Prepare
    /\ asks' = [asks EXCEPT ![a] = seconds]
    /\ UNCHANGED <<tod, wday, stay, sched, locks, save, brk>>

Deny(a) ==
    /\ asks[a] # NoAsk
    /\ Prepare
    /\ asks' = [asks EXCEPT ![a] = NoAsk]
    /\ UNCHANGED <<tod, wday, stay, sched, locks, save, brk>>

\* grantStayUpLocked inside a locked bedtime, postLocked elsewhere; then
\* clearParentLockLocked and liftBreakLocked.
GiveTime(seconds) ==
    /\ IF BedtimeStayUp
       THEN /\ PrepareAnd(seconds)
            /\ hold' = ToWake(sched, tod)
            /\ moved' = FALSE /\ emptied' = FALSE
       ELSE /\ Clock + seconds <= MaxBalance
            /\ PrepareAnd(Credited(Clock, seconds))
            /\ UNCHANGED stay
    /\ parentLock' = FALSE
    /\ brk' = 0
    /\ UNCHANGED <<tod, wday, sched, bedtimeLock, pinSet, save>>

\* Decide(approve) by a parent, and PinApprove with the right PIN.
Approve(a) ==
    /\ asks[a] # NoAsk
    /\ GiveTime(asks[a])
    /\ asks' = [asks EXCEPT ![a] = NoAsk]

\* PinGrant with the right PIN; like a parent's credit it dismisses the asks.
PinGrant(seconds) ==
    /\ pinSet
    /\ GiveTime(seconds)
    /\ asks' = [a \in AskIds |-> NoAsk]

\* PinEndBreak with the right PIN.
PinEndBreak ==
    /\ pinSet
    /\ Prepare
    /\ brk' = 0
    /\ UNCHANGED <<tod, wday, stay, sched, locks, save, asks>>

\* SetParentLock, SetParentPIN, SetBedtime: these do not settle the day.
SetParentLock(locked) ==
    /\ parentLock' = locked
    /\ UNCHANGED <<tod, wday, clock, stay, sched, bedtimeLock, pinSet, save,
                   brk, asks>>

SetParentPIN ==
    /\ pinSet' = TRUE
    /\ UNCHANGED <<tod, wday, clock, stay, sched, bedtimeLock, parentLock,
                   save, brk, asks>>

SetBedtime(window, lock) ==
    /\ sched' = window
    /\ bedtimeLock' = lock
    /\ moved' = (moved \/ (hold > 0 /\ window # sched))
    /\ UNCHANGED <<tod, wday, clock, hold, emptied, parentLock, pinSet, save,
                   brk, asks>>

-----------------------------------------------------------------------------
ParentStep ==
    \/ \E delta \in GrantSizes : ParentGrant(delta)
    \/ \E a \in AskIds : Approve(a) \/ Deny(a)
    \/ \E locked \in BOOLEAN : SetParentLock(locked)
    \/ SetParentPIN
    \/ \E window \in Schedules, lock \in BOOLEAN : SetBedtime(window, lock)

KidStep ==
    \/ \E a \in AskIds, seconds \in AskSizes : CreateAsk(a, seconds)
    \/ \E seconds \in AskSizes : PinGrant(seconds)
    \/ PinEndBreak

DaemonStep ==
    \/ Restart
    \/ SyncSaveCover
    \/ Spend
    \/ \E long \in BOOLEAN : SyncPlayBreak(long) \/ Status(long)
    \/ \E delta \in AppSizes : AppGrant(delta)

Next == Advance \/ ParentStep \/ KidStep \/ DaemonStep

Spec == Init /\ [][Next]_vars

-----------------------------------------------------------------------------
(* Properties.                                                             *)

\* Every variable has its type, and no deadline is further away than the
\* longest one the code sets (resetDayLocked, setStayUpHoldLocked,
\* syncSaveCoverLocked, syncPlayBreakLocked).
TypeOK ==
    /\ tod \in Tods /\ wday \in Days
    /\ settled \in BOOLEAN /\ deferred \in BOOLEAN
    /\ remaining \in Nat
    /\ hold \in 0 .. DayLen
    /\ sched \in Schedules
    /\ bedtimeLock \in BOOLEAN /\ parentLock \in BOOLEAN /\ pinSet \in BOOLEAN
    /\ save \in -1 .. SaveCover
    /\ brk \in 0 .. BreakLen
    /\ asks \in [AskIds -> AskSizes \union {NoAsk}]
    /\ refills \in Nat
    /\ moved \in BOOLEAN /\ emptied \in BOOLEAN

\* The clock is refilled exactly once for each day the daemon sees, whatever
\* mixture of restarts, polls, stay-ups and spending happens around midnight:
\* a settled day has had its refill unless it is still owed, an open one has
\* not (resetDayLocked, applyDeferredRefillLocked).
RefillOncePerDay ==
    refills = IF settled /\ ~deferred THEN 1 ELSE 0

\* Time left over from yesterday does not stack on today's hours: a call that
\* refills leaves at most that day's hours plus what this very call credits
\* (refillClocksLocked writes the allotment, it does not add it).
NoStacking ==
    [][refills' > refills =>
          \E s \in GrantSizes \union AppSizes \union AskSizes \union {0} :
              remaining' <= Hours[wday] + s]_vars

\* A stay-up lasts until the wake of the night it was approved in, so it
\* never lifts the next bedtime (nextWakeLocked against ClockContains, for
\* windows on one side of midnight, across it and around the clock) unless
\* the parent moves the window while it lasts.
HoldIsTonights ==
    hold > 0 /\ ~moved => InBedtime /\ hold = ToWake(sched, tod)

\* While bedtime locks the screen, only an approved ask or the parent PIN
\* opens it before the window ends: neither midnight, nor a refill, nor a
\* grant from an app or the panel's +10, nor a moved window does (Grant,
\* SetBedtime and resetDayLocked against stayUpActiveLocked).  The exception
\* is a stay-up whose minutes a parent took away: the negative grant leaves the
\* hold, and the put-off refill that follows opens bedtime again.
BedtimeLifts ==
    /\ BedtimeShut(remaining)
    /\ BedtimeStayUp' /\ ~BedtimeShut(remaining)'

BedtimeHolds ==
    [][BedtimeLifts => \/ emptied
                       \/ \E a \in AskIds : Approve(a)
                       \/ \E s \in AskSizes : PinGrant(s)]_vars

\* A stay-up has minutes behind it: the hold goes with the last of them
\* (Spend clears the hold when the clock reaches zero; a grant that takes
\* them away does not).
HoldHasMinutes == hold > 0 /\ ~emptied => remaining > 0

\* As long as the overlay stays up for bedtime or an empty clock, the minute
\* to save is neither restarted nor lengthened: not by polls, restarts, asks,
\* or by one cause taking over from the other (syncSaveCoverLocked).
CoverNotRenewed ==
    [][CoverEligible(remaining) /\ CoverEligible(remaining)' /\ save # NoCover
          => save' # NoCover /\ save' <= save]_vars

=============================================================================
