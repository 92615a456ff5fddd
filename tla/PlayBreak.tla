------------------------------ MODULE PlayBreak ------------------------------
(***************************************************************************)
(* The play break (daemon/internal/bank/pin.go, bank.go): every tick of    *)
(* the enforcer that finds the kid at a window writes it to today_spans;   *)
(* the spans since the last break are chained into the sitting, and a      *)
(* sitting that reaches PLAY starts a break.                               *)
(*                                                                         *)
(* Bank leaves the length of the sitting open (its SyncPlayBreak(long));   *)
(* here it is computed from the spans.  Of the fun clock only its being    *)
(* positive matters.  The enforcer's tick is three calls, each of which    *)
(* takes b.mu for itself, so a request may fall between two of them.       *)
(***************************************************************************)
EXTENDS Integers, Sequences, FiniteSetsExt

CONSTANTS
    DayLen,       \* instants in a day
    Gap,          \* todayGapSeconds
    Away,         \* playSittingAwaySeconds
    Play,         \* look.PlayMinutes
    Break,        \* look.BreakMinutes
    Labels        \* what a window is noted as

ASSUME PlayAssumption ==
    /\ DayLen \in Nat /\ DayLen > 1
    /\ Gap \in Nat /\ Away \in Nat /\ Gap <= Away
    /\ Play \in Nat \ {0} /\ Break \in Nat \ {0}

None == -1  \* no sitting

VARIABLES
    tod,        \* the instant of the day
    settled,    \* meta.day is today
    spans,      \* today_spans; the id of a row is its index
    playCut,    \* ov.playCut: the last row the last break closed
    brk,        \* time left to ov.breakUntil
    pinSet,     \* ov.parentPin # ""
    funLeft,    \* balances["fun"].remaining > 0
    call,       \* the next call of the tick in progress, or "idle"
    ticked,     \* the ticker has fired in this instant
    sat,        \* history: time since the kid sat down, or None
    since,      \* history: time since the kid was last at a window
    oldCut      \* history: playCut is a row of an earlier day

breakVars == <<tod, settled, spans, playCut, brk, pinSet, funLeft, call, ticked,
               sat, since, oldCut>>

-----------------------------------------------------------------------------
\* The rows of the day: resetDayLocked deletes those of the days before, and
\* with them the ids, which SQLite hands out again from 1.
Today == IF settled THEN spans ELSE <<>>

\* mutants: an absence measured between beginnings; a chain that runs back
\* over the last break
ChainByStart(s) ==
    LET n == Len(s)
    IN  {k \in playCut + 1 .. n :
            \A i \in k + 1 .. n : s[i].start - s[i - 1].start <= Away}
ChainUncut(s) ==
    LET n == Len(s)
    IN  {k \in 1 .. n :
            \A i \in k + 1 .. n : s[i].start - s[i - 1].updated <= Away}

\* The rows the sitting is chained from, newest first, until an absence.
Chain(s) ==
    LET n == Len(s)
    IN  {k \in playCut + 1 .. n :
            \A i \in k + 1 .. n : s[i].start - s[i - 1].updated <= Away}

\* sittingSecondsLocked: the time since the chain began, or the ticks in it
Sitting(s) ==
    IF Chain(s) = {} THEN 0
    ELSE LET wall  == tod - s[Min(Chain(s))].start
             ticks == MapThenSumSet(LAMBDA i : s[i].seconds, Chain(s))
         IN  IF ticks > wall THEN ticks ELSE wall

\* noteTodayLocked
Noted(s, label) ==
    LET n == Len(s)
    IN  IF n > 0 /\ s[n].label = label /\ tod - s[n].updated <= Gap
        THEN [s EXCEPT ![n].seconds = @ + 1, ![n].updated = tod]
        ELSE Append(s, [label |-> label, start |-> tod, updated |-> tod,
                        seconds |-> 1])

\* closeSittingLocked: cut the chain, and make the last row too old to extend
Stale(s) ==
    LET n == Len(s)
    IN  IF n > 0 /\ tod - s[n].updated <= Gap
        THEN [s EXCEPT ![n].updated = tod - Gap - 1] ELSE s

\* mutant: the cut one row too far
CloseOneMore(s) ==
    /\ playCut' = IF Len(s) >= playCut THEN Len(s) + 1 ELSE playCut
    /\ oldCut' = (oldCut /\ Len(s) < playCut)
    /\ spans' = Stale(s) /\ sat' = None /\ UNCHANGED since

CloseSitting(s) ==
    /\ playCut' = IF Len(s) > playCut THEN Len(s) ELSE playCut
    /\ oldCut' = (oldCut /\ Len(s) <= playCut)
    /\ spans' = Stale(s)
    /\ sat' = None
    /\ UNCHANGED since

Prepare == settled' = TRUE

KeepRows == spans' = Today /\ UNCHANGED <<playCut, sat, since, oldCut>>

\* syncPlayBreakLocked
Due(s) == pinSet /\ brk = 0 /\ funLeft /\ Sitting(s) >= Play

SyncBreak ==
    IF Due(Today) THEN brk' = Break /\ CloseSitting(Today)
                  ELSE KeepRows /\ UNCHANGED brk

-----------------------------------------------------------------------------
BreakInit ==
    /\ tod = 0 /\ settled = TRUE
    /\ spans = <<>> /\ playCut = 0
    /\ brk = 0
    /\ pinSet \in BOOLEAN /\ funLeft = TRUE
    /\ call = "idle" /\ ticked = FALSE
    /\ sat = None /\ since = 0 /\ oldCut = FALSE

Later(d) == IF d = None THEN None ELSE d + 1

Advance ==
    /\ ticked' = FALSE
    /\ brk' = IF brk > 0 THEN brk - 1 ELSE 0
    /\ IF tod = DayLen - 1
       THEN /\ tod' = 0 /\ settled' = FALSE
            /\ sat' = None /\ since' = 0 /\ oldCut' = (playCut # 0)
       ELSE /\ tod' = tod + 1 /\ UNCHANGED <<settled, oldCut>>
            /\ sat' = Later(sat) /\ since' = IF sat = None THEN 0 ELSE since + 1
    /\ UNCHANGED <<spans, playCut, pinSet, funLeft, call>>

\* Enforcer.Tick, the call of SyncPlayBreak.
TickSync ==
    /\ call = "idle" /\ ~ticked
    /\ Prepare /\ SyncBreak
    /\ call' = "overlay" /\ ticked' = TRUE
    /\ UNCHANGED <<tod, pinSet, funLeft>>

\* Enforcer.Tick, OverlayActive and the focus: a break freezes the tick; so
\* may another overlay, an idle session, or no window in front.
TickOverlay ==
    /\ call = "overlay"
    /\ call' \in IF brk > 0 THEN {"idle"} ELSE {"idle", "note"}
    /\ UNCHANGED <<tod, settled, spans, playCut, brk, pinSet, funLeft, ticked,
                   sat, since, oldCut>>

\* Enforcer.Tick, the call of NoteToday.
TickNote(label) ==
    /\ call = "note"
    /\ Prepare
    /\ spans' = Noted(Today, label)
    /\ call' = "idle"
    /\ sat' = IF sat = None \/ since > Away THEN 0 ELSE sat
    /\ since' = 0
    /\ UNCHANGED <<tod, playCut, brk, pinSet, funLeft, ticked, oldCut>>

\* Status, which the panel polls, also between two calls of a tick.
Status ==
    /\ Prepare /\ SyncBreak
    /\ UNCHANGED <<tod, pinSet, funLeft, call, ticked>>

\* liftBreakLocked, the end of PinEndBreak, of PinGrant and of an approval.
LiftBreak ==
    /\ brk > 0
    /\ Prepare
    /\ brk' = 0
    /\ CloseSitting(Today)
    /\ UNCHANGED <<tod, pinSet, funLeft, call, ticked>>

\* The daemon stops, in any call of a tick, and starts again; playCut and
\* breakUntil are read back from meta.
Reopen ==
    /\ call' = "idle"
    /\ Prepare /\ KeepRows
    /\ UNCHANGED <<tod, brk, pinSet, funLeft, ticked>>

SetParentPIN ==
    /\ pinSet' = TRUE
    /\ UNCHANGED <<tod, settled, spans, playCut, brk, funLeft, call, ticked,
                   sat, since, oldCut>>

\* Spending, a grant or a refill takes the fun clock to or from zero.
ClockMoves ==
    /\ funLeft' = ~funLeft
    /\ Prepare /\ KeepRows
    /\ UNCHANGED <<tod, brk, pinSet, call, ticked>>

BreakNext ==
    \/ Advance
    \/ TickSync \/ TickOverlay \/ (\E label \in Labels : TickNote(label))
    \/ Status \/ LiftBreak \/ Reopen \/ SetParentPIN \/ ClockMoves

BreakSpec == BreakInit /\ [][BreakNext]_breakVars

-----------------------------------------------------------------------------
(* Properties.                                                             *)

\* Every variable has its type, and inside one day the cut is one of its rows
\* (closeSittingLocked).
BreakTypeOK ==
    /\ tod \in 0 .. DayLen - 1
    /\ settled \in BOOLEAN /\ pinSet \in BOOLEAN /\ funLeft \in BOOLEAN
    /\ playCut \in Nat /\ (oldCut \/ playCut <= Len(Today))
    /\ brk \in 0 .. Break
    /\ spans \in Seq([label : Labels, start : 0 .. DayLen - 1,
                      updated : -Gap - 1 .. DayLen - 1, seconds : Nat])
    /\ call \in {"idle", "overlay", "note"} /\ ticked \in BOOLEAN
    /\ sat \in Nat \union {None} /\ since \in Nat /\ oldCut \in BOOLEAN

\* A break is never early: it takes a whole PLAY at the computer since the
\* last break ended, whoever looks first, the tick or a poll, and however the
\* kid switches windows, leaves for a while or restarts the daemon.  (The
\* ticks of a chain count the second of its first and of its last note, and
\* a late tick one more.)
BreakIsEarned ==
    [][brk = 0 /\ brk' > 0 => sat # None /\ sat >= Play - 2]_breakVars

\* A sitting that hits PLAY gets its break: the tick that comes when the kid
\* has sat for PLAY starts it, if the last break was today's
\* (syncPlayBreakLocked, sittingSecondsLocked).
BreakIsDue == pinSet /\ funLeft /\ brk = 0 /\ sat # None /\ sat >= Play

TodaysBreakStarts ==
    [][TickSync /\ BreakIsDue /\ ~oldCut => brk' = Break]_breakVars

\* The same on every day (README.md, "When a sitting hits PLAY, the kid screen
\* fills with a break lock"): the row ids start again at midnight and the cut
\* does not.
DueBreakStarts == [][TickSync /\ BreakIsDue => brk' = Break]_breakVars
=============================================================================
