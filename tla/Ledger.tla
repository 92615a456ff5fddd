------------------------------- MODULE Ledger -------------------------------
(***************************************************************************)
(* The bank's SQLite file, statement by statement (daemon/internal/bank).  *)
(*                                                                         *)
(* A method of Bank runs under b.mu, but it is several SQL statements and  *)
(* only the grant row and the clock it credits share a transaction.  The   *)
(* first action of a method does its reads and its first write; the writes *)
(* that follow wait in todo, in the order the code has them.  Stop drops   *)
(* them: the daemon is killed, or a statement fails and the method returns *)
(* its error.                                                              *)
(***************************************************************************)
EXTENDS Integers, Sequences

CONSTANTS
    Parents,     \* parent tokens
    Apps,        \* app tokens
    Kids,        \* ask and read tokens, which act with the parent PIN
    Keys,        \* idempotency keys
    Amounts,     \* seconds of a grant; negative ones only from a parent
    AskIds,      \* asks
    AskSize,     \* seconds of an ask
    DayCap,      \* max_seconds_per_day of an app token
    Hours,       \* the day's allotment
    MaxBalance,  \* bound: no credit takes the clock above it
    MaxStops     \* bound: how often a method is cut short

ASSUME LedgerAssumption ==
    /\ Amounts \subseteq Int \ {0}
    /\ AskSize \in Nat \ {0} /\ DayCap \in Nat /\ Hours \in Nat
    /\ MaxBalance \in Nat /\ Hours <= MaxBalance /\ AskSize <= MaxBalance
    /\ MaxStops \in Nat
    /\ \A s \in Amounts : s <= MaxBalance
    /\ Keys \intersect AskIds = {}
    /\ Parents \intersect Apps = {} /\ Kids \intersect (Parents \union Apps) = {}

VARIABLES
    settled,     \* meta.day is today
    deferred,    \* meta.refill_deferred
    balance,     \* balances["fun"].remaining
    hold,        \* meta.bedtime_hold_until lies ahead
    parentLock,  \* meta.parent_lock
    grants,      \* the rows of grants: token, key and seconds
    status,      \* asks.status, "none" while there is no row
    spent,       \* token_spend of the day
    bedtime,     \* a locked bedtime window is running
    todo,        \* the statements left of the method in progress
    stops,       \* methods cut short so far
    refilled,    \* history: the day's hours were written since midnight
    paid,        \* history: how often an ask was put on the clock
    given        \* history: seconds an app put on the clock since midnight

stored == <<settled, deferred, balance, hold, parentLock, grants, status, spent>>
history == <<refilled, paid, given>>
vars == <<settled, deferred, balance, hold, parentLock, grants, status, spent,
          bedtime, todo, stops, refilled, paid, given>>

-----------------------------------------------------------------------------
StayUp == hold /\ balance > 0

\* prepareLocked has nothing to do, so a method gets to its own statements
Prepared == todo = <<>> /\ settled /\ (deferred => StayUp)

\* the statements that write the day's hours: refillClocksLocked, then the flag
RefillAll == <<[do |-> "refill"], [do |-> "undefer"]>>

HasRow(token, key) == \E g \in grants : g.token = token /\ g.key = key

\* postLocked and postSetLocked: the row and the clock, in one transaction
Post(token, key, seconds) ==
    /\ ~HasRow(token, key)
    /\ grants' = grants \union
                     {[token |-> token, key |-> key, seconds |-> seconds]}

\* mutant: no MAX(0, ...)
CreditBelowZero(seconds) ==
    balance + seconds <= MaxBalance /\ balance' = balance + seconds

\* applyDeltaLocked
Credit(seconds) ==
    /\ balance + seconds <= MaxBalance
    /\ balance' = IF balance + seconds > 0 THEN balance + seconds ELSE 0

\* What an approval does to the clock: a stay-up inside a locked bedtime.
GiveTime(seconds) == IF bedtime THEN balance' = seconds ELSE Credit(seconds)

HoldFirst == IF bedtime THEN <<[do |-> "hold"]>> ELSE <<>>

-----------------------------------------------------------------------------
Init ==
    /\ settled = TRUE /\ deferred = FALSE /\ balance = Hours
    /\ hold = FALSE /\ parentLock = FALSE
    /\ grants = {} /\ status = [a \in AskIds |-> "none"]
    /\ spent = [t \in Apps |-> 0]
    /\ bedtime = FALSE /\ todo = <<>> /\ stops = 0
    /\ refilled = TRUE
    /\ paid = [a \in AskIds |-> 0] /\ given = [t \in Apps |-> 0]

\* Rows of token_spend and the history are the day's; nothing is written.
Midnight ==
    /\ settled' = FALSE
    /\ spent' = [t \in Apps |-> 0]
    /\ refilled' = FALSE /\ given' = [t \in Apps |-> 0]
    /\ UNCHANGED <<deferred, balance, hold, parentLock, grants, status,
                   bedtime, todo, stops, paid>>

\* The window opens, and closes; at its end the hold has passed.
Bedtime ==
    /\ bedtime' = ~bedtime
    /\ hold' = (hold /\ ~bedtime)
    /\ UNCHANGED <<settled, deferred, balance, parentLock, grants, status,
                   spent, todo, stops, history>>

\* mutant: a stay-up across midnight puts the refill off and does not say so
SettleForgets ==
    /\ todo = <<>> /\ ~settled
    /\ settled' = TRUE
    /\ todo' = IF StayUp THEN <<>> ELSE RefillAll
    /\ UNCHANGED <<deferred, balance, hold, parentLock, grants, status, spent,
                   bedtime, stops, history>>

\* resetDayLocked on a day it has not seen: setDayLocked comes first.
SettleDay ==
    /\ todo = <<>> /\ ~settled
    /\ settled' = TRUE
    /\ todo' = IF StayUp THEN <<[do |-> "defer"]>> ELSE RefillAll
    /\ UNCHANGED <<deferred, balance, hold, parentLock, grants, status, spent,
                   bedtime, stops, history>>

\* resetDayLocked later in the day: a refill put off, and no stay-up any more.
SettleDeferred ==
    /\ todo = <<>> /\ settled /\ deferred /\ ~StayUp
    /\ todo' = RefillAll
    /\ UNCHANGED <<stored, bedtime, stops, history>>

\* Spend: the last second also clears the hold and applies what was put off.
Spend ==
    /\ Prepared /\ balance > 0
    /\ balance' = balance - 1
    /\ todo' = IF balance > 1 THEN <<>>
               ELSE <<[do |-> "unhold"]>> \o (IF deferred THEN RefillAll ELSE <<>>)
    /\ UNCHANGED <<settled, deferred, hold, parentLock, grants, status, spent,
                   bedtime, stops, history>>

\* Grant by a parent.  A key that is there already is answered from its row.
ParentGrant(token, key, seconds) ==
    /\ Prepared
    /\ Post(token, key, seconds) /\ Credit(seconds)
    /\ todo' = IF seconds > 0 THEN <<[do |-> "dismiss"]>> ELSE <<>>
    /\ UNCHANGED <<settled, deferred, hold, parentLock, status, spent, bedtime,
                   stops, history>>

\* mutant: the cap of the day taken for the cap of one grant
AppGrantUncounted(token, key, seconds) ==
    /\ Prepared
    /\ seconds > 0 /\ seconds <= DayCap
    /\ Post(token, key, seconds) /\ Credit(seconds)
    /\ given' = [given EXCEPT ![token] = @ + seconds]
    /\ UNCHANGED <<settled, deferred, hold, parentLock, status, spent, bedtime,
                   todo, stops, refilled, paid>>

\* Grant by an app, inside the cap of its day; what counts towards the cap is
\* written after the credit.
AppGrant(token, key, seconds) ==
    /\ Prepared
    /\ seconds > 0 /\ spent[token] + seconds <= DayCap
    /\ Post(token, key, seconds) /\ Credit(seconds)
    /\ todo' = <<[do |-> "count", token |-> token, seconds |-> seconds]>>
    /\ given' = [given EXCEPT ![token] = @ + seconds]
    /\ UNCHANGED <<settled, deferred, hold, parentLock, status, spent, bedtime,
                   stops, refilled, paid>>

CreateAsk(a) ==
    /\ Prepared /\ status[a] = "none"
    /\ status' = [status EXCEPT ![a] = "pending"]
    /\ UNCHANGED <<settled, deferred, balance, hold, parentLock, grants, spent,
                   bedtime, todo, stops, history>>

Deny(a) ==
    /\ Prepared /\ status[a] = "pending"
    /\ status' = [status EXCEPT ![a] = "denied"]
    /\ UNCHANGED <<settled, deferred, balance, hold, parentLock, grants, spent,
                   bedtime, todo, stops, history>>

\* mutant: the status is not looked at
ApproveAgain(token, a) ==
    /\ Prepared /\ status[a] # "none"
    /\ Post(token, a, AskSize) /\ GiveTime(AskSize)
    /\ todo' = HoldFirst \o <<[do |-> "decide", ask |-> a], [do |-> "unlock"]>>
    /\ paid' = [paid EXCEPT ![a] = @ + 1]
    /\ UNCHANGED <<settled, deferred, hold, parentLock, status, spent, bedtime,
                   stops, refilled, given>>

\* Decide(approve) by a parent, PinApprove by a kid's token: the credit, the
\* hold in a bedtime, the status, the parent lock.
Approve(token, a) ==
    /\ Prepared /\ status[a] = "pending"
    /\ Post(token, a, AskSize) /\ GiveTime(AskSize)
    /\ todo' = HoldFirst \o <<[do |-> "decide", ask |-> a], [do |-> "unlock"]>>
    /\ paid' = [paid EXCEPT ![a] = @ + 1]
    /\ UNCHANGED <<settled, deferred, hold, parentLock, status, spent, bedtime,
                   stops, refilled, given>>

\* PinGrant; its key is the instant, so no row stands in its way.
PinGrant(seconds) ==
    /\ Prepared /\ seconds > 0
    /\ GiveTime(seconds)
    /\ todo' = HoldFirst \o <<[do |-> "dismiss"], [do |-> "unlock"]>>
    /\ UNCHANGED <<settled, deferred, hold, parentLock, grants, status, spent,
                   bedtime, stops, history>>

SetParentLock ==
    /\ todo = <<>>
    /\ parentLock' = ~parentLock
    /\ UNCHANGED <<settled, deferred, balance, hold, grants, status, spent,
                   bedtime, todo, stops, history>>

-----------------------------------------------------------------------------
(* The statements of a method after its first.                             *)

NextIs(what) == todo # <<>> /\ Head(todo).do = what /\ todo' = Tail(todo)

WriteRefill ==
    /\ NextIs("refill")
    /\ balance' = Hours /\ refilled' = TRUE
    /\ UNCHANGED <<settled, deferred, hold, parentLock, grants, status, spent,
                   bedtime, stops, paid, given>>

WriteDeferred(what, value) ==
    /\ NextIs(what)
    /\ deferred' = value
    /\ UNCHANGED <<settled, balance, hold, parentLock, grants, status, spent,
                   bedtime, stops, history>>

WriteHold(what, value) ==
    /\ NextIs(what)
    /\ hold' = value
    /\ UNCHANGED <<settled, deferred, balance, parentLock, grants, status,
                   spent, bedtime, stops, history>>

\* mutant: the wrong status
DismissAsApproved ==
    /\ NextIs("dismiss")
    /\ status' = [a \in AskIds |-> IF status[a] = "pending" THEN "approved"
                                                            ELSE status[a]]
    /\ UNCHANGED <<settled, deferred, balance, hold, parentLock, grants, spent,
                   bedtime, stops, history>>

\* dismissPendingAsksLocked
Dismiss ==
    /\ NextIs("dismiss")
    /\ status' = [a \in AskIds |-> IF status[a] = "pending" THEN "denied"
                                                            ELSE status[a]]
    /\ UNCHANGED <<settled, deferred, balance, hold, parentLock, grants, spent,
                   bedtime, stops, history>>

DecideAsk ==
    /\ NextIs("decide")
    /\ status' = [status EXCEPT ![Head(todo).ask] = "approved"]
    /\ UNCHANGED <<settled, deferred, balance, hold, parentLock, grants, spent,
                   bedtime, stops, history>>

\* addTokenSpendLocked
CountSpend ==
    /\ NextIs("count")
    /\ spent' = [spent EXCEPT ![Head(todo).token] = @ + Head(todo).seconds]
    /\ UNCHANGED <<settled, deferred, balance, hold, parentLock, grants, status,
                   bedtime, stops, history>>

\* clearParentLockLocked
Unlock ==
    /\ NextIs("unlock")
    /\ parentLock' = FALSE
    /\ UNCHANGED <<settled, deferred, balance, hold, grants, status, spent,
                   bedtime, stops, history>>

\* Killed, or failed: the statements that were to follow are never run.
Stop ==
    /\ todo # <<>> /\ stops < MaxStops
    /\ todo' = <<>> /\ stops' = stops + 1
    /\ UNCHANGED <<stored, bedtime, history>>

Statement ==
    \/ WriteRefill
    \/ WriteDeferred("defer", TRUE) \/ WriteDeferred("undefer", FALSE)
    \/ WriteHold("hold", TRUE) \/ WriteHold("unhold", FALSE)
    \/ Dismiss \/ DecideAsk \/ CountSpend \/ Unlock

Method ==
    \/ SettleDay \/ SettleDeferred \/ Spend \/ SetParentLock
    \/ \E t \in Parents, k \in Keys, s \in Amounts : ParentGrant(t, k, s)
    \/ \E t \in Apps, k \in Keys, s \in Amounts : AppGrant(t, k, s)
    \/ \E a \in AskIds : CreateAsk(a) \/ Deny(a)
    \/ \E t \in Parents \union Kids, a \in AskIds : Approve(t, a)
    \/ Kids # {} /\ \E s \in Amounts : PinGrant(s)

Next == Midnight \/ Bedtime \/ Method \/ Statement \/ Stop

Spec == Init /\ [][Next]_vars

-----------------------------------------------------------------------------
(* Properties.                                                             *)

\* Every variable has its type.
TypeOK ==
    /\ settled \in BOOLEAN /\ deferred \in BOOLEAN /\ hold \in BOOLEAN
    /\ parentLock \in BOOLEAN /\ bedtime \in BOOLEAN /\ refilled \in BOOLEAN
    /\ balance \in 0 .. MaxBalance
    /\ status \in [AskIds -> {"none", "pending", "approved", "denied"}]
    /\ spent \in [Apps -> Nat] /\ given \in [Apps -> Nat]
    /\ paid \in [AskIds -> Nat]
    /\ stops \in 0 .. MaxStops

\* An app token puts at most max_seconds_per_day on the clock in a day, though
\* the cap is read before the credit and counted after it (authorizeGrant,
\* addTokenSpendLocked).  A stop between the two leaves one credit uncounted,
\* so each stop may cost the parent one more cap, and no more.
AppWithinCap == \A t \in Apps : given[t] <= DayCap * (1 + stops)

\* A day the bank calls settled has been given its hours, or they are put off
\* behind a stay-up: midnight does not cost the kid a day (README.md, "At
\* midnight the clock refills from that day's hours").  It can, if a method
\* is cut short after setDayLocked.
RefillNotLost == settled /\ todo = <<>> /\ ~deferred /\ stops = 0 => refilled

\* Asks are decided once, and the approved ones are paid once: the ledger
\* implements AskBook, where an ask counts as approved from the moment its
\* seconds are on the clock.  Even a stop can only forget an approval.
Approving(a) == \E i \in 1 .. Len(todo) : todo[i] = [do |-> "decide", ask |-> a]

Book == INSTANCE AskBook WITH
    status <- [a \in AskIds |-> IF Approving(a) THEN "approved" ELSE status[a]]

BookIsKept == Book!Spec

\* An approved ask has had its minutes, even if a method was cut short: the
\* credit is written before the status (decideLocked).
ApprovedWasPaid == \A a \in AskIds : status[a] = "approved" => paid[a] > 0

\* No ask is paid twice (README.md, "Approve during the day adds the minutes
\* they asked for").
AskPaidOnce == \A a \in AskIds : paid[a] <= 1
=============================================================================
