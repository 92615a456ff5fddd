# A formal model of Kidtimer

Kidtimer gives a kid a clock of "fun" minutes on an Omarchy (Hyprland) computer.
A daemon on the kid's computer spends the clock while a window is in front,
refills it each day, and covers the screen at bedtime, at zero, during a play
break, or when a parent says so. A parent grants time from a panel of their own,
over a connection the kid's computer opens.

The modules here are translated from the Go code under `src/daemon`, TLC checks
them on small instances, and TLAPS proves what matters most for every instance.

## 1. The system

| Part | State | Operations | What is hard |
|---|---|---|---|
| **Bank** (`internal/bank`) | SQLite: `meta` (day, refill_deferred, hold, cut, locks), `balances`, `grants`, `asks`, `tokens`, `token_spend`, `today_spans`, `paused`; in memory the overlay `ov` and the look | `Status`, `Spend`, `Grant`, `CreateAsk`, `Decide`, `PinGrant`, `PinApprove`, `PinEndBreak`, `SetBedtime`, `SetParentLock`, `SetParentPIN`, `NoteToday`, ... | one mutex for each method, but a method is many SQL statements and only row-and-credit is a transaction; midnight is noticed lazily (`prepareLocked`), in the middle of stay-ups and breaks; deadlines interact |
| **Enforcer** (`internal/enforcer`) | rows of `paused`, stopped processes | `Tick` each second, `Resume` after a grant | tick and handlers are different goroutines; each of their calls locks for itself; pids die and come back |
| **Look and overlay** (`internal/look`, `bank/overlay.go`) | the settings document, mode, locks: each in memory and in a row of `meta` | `PutLook`, `SetBedtime`, `SetModeMinutes`, `ApplyMode`, `SetHour12`, `Open` | a method writes several rows; memory is set before its row; `Open` refuses a look that is not valid; the night is kept in two forms |
| **Tokens** (`bank.go`) | `tokens`, the mark `paired`; `kid-bar.json`, `parent-pair` | `SeedParent`, `Mint`, `ReplaceToken`, `Pair`, `Reclaim`, `LookupSecret` | a secret is shown once; row and file are two steps |
| **HTTP API** (`internal/httpapi`) | recent windows, rate limits | the bank's methods | handlers of several steps (policy, look) |
| **Session and idle** (`enforcer/idle.go`, `cmd/kidtimer/stay.go`, `main.go`) | the goroutine of `InputIdle`, its flags; the stay-awake file of a user | `Attach`, `loop`, `stopLocked`, `Status`; `stayAwake.Sync` | a cancelled goroutine ends when it likes; users and compositors come and go |
| **Setup** (`cmd/kidtimer/setup.go`, `kid.go`, `parent.go`) | plugin folders, `shell.json`, role, config, unit, tokens of the bar | `runSetup`, the start of the live panel program (`migrateLivePlugin`) | two programs over the same files, killed at any point, run again |
| **Dial** (`internal/dial`), kid's side | `parent-session.json`, `parent-pair` | `hello`, `OnAccept`, `OnResumeOK`, `OnReject`, `OnOp` | connections cut at any point, several desks, retries for ever |
| **Desk** (`internal/desk`, `household`), parent's side | `household.json`, the map of links | `acceptOffer`, `acceptResume`, `attach`, `detach`, `Call` | a goroutine for each connection, no lock over the file, the two ends close independently |
| **Panels** (QML, JS), **CLI**, **installer** | user interface | the same HTTP calls | |

How they interact. The daemon's main loop runs the enforcer's ticker, the HTTP
server and the dialer side by side. Tick calls `SyncSaveCover`, `SyncPlayBreak`,
`OverlayActive`, `NoteToday`, `Spend`, `RecordPaused`/`ClearPaused`, one after
the other, and any request may come between two of them. The panel polls
`Status`, which is not a mere read: it moves the save cover and the play break.
A grant's handler calls `Enforcer.Resume`. The desk sends operations through the
link; the kid's `OnOp` applies them to its bank. Setup prepares the files all the
others start from: the bar's tokens, the config, the role, the plugin folder.

What makes each part correct:
- **Bank**: the clock is refilled once a day and never stacks; a stay-up ends
  with its night and with its minutes; a locked bedtime is opened only by an
  approval or the PIN; the minute to save is given once; a break comes after PLAY
  and not before; an ask is decided once, pays once, and never counts as paid
  without having been.
- **Enforcer**: no process stays stopped with no record of it; time that comes
  sets processes going again.
- **Look and overlay**: what was answered ok is kept; the daemon opens on whatever
  was stored; no block of play lies in the hours that are enforced as bedtime.
- **Session and idle**: one goroutine watches, and it is the one of the user who
  sits there; whether there is input is found out again after whatever came before.
- **Setup**: after a setup that says it is done, the bar has one chip and tokens
  the bank takes; at no point does the plugin hang on a folder that is gone.
- **Dial and desk**: a kid that is connected is paired, is shown as live, and
  comes back; and it stays with the desk that claimed it.

## 2. Modules

| Module | Models | State to code |
|---|---|---|
| `Bank` | The clock, the day and the deadlines. One action is one exported method. | `remaining`, `settled` (`meta.day` is today), `deferred`, `hold`, `save`, `brk` (times left to the deadlines), locks, `sched`, `asks`; history `refills`, `moved`, `emptied` |
| `PlayBreak` | `today_spans`, the sitting chained from it, the break, and the three calls of a tick with polls between them. Refines what `Bank` leaves open in `SyncPlayBreak(long)`. | `spans`, `playCut`, `brk`, `call` (the next of the tick's three); history `sat`, `since`, `oldCut` |
| `AskBook` | The abstract promise about asks: asked, decided, paid. | |
| `Ledger` | The methods that move money and asks, statement by statement, each of which may be cut short. Implements `AskBook`. | rows of `grants`, `asks`, `token_spend`, `meta`, and `todo`, the statements left of the method in progress |
| `Schedule` | Blocks of a day, the night as start and length, its split at midnight, what a config file seeds (`look/schedule.go`, `seed.go`). Operators only. | |
| `Policy` | The look and the overlay's rows: every method as a list of assignments, each first in memory and then on disk; failed writes, stops, `Open`, and PUT /v1/look as two calls. Uses `Schedule`. | `mem`, `disk` (field to value), `stored` (what a PUT read), `up`, `answer`; history `acked` |
| `Enforcer` | Tick and Resume call by call, processes, exits, reused pids, kills of the daemon. | `proc`, `paused`, `tick`, `resume`, `left` |
| `Seat` | The ticker's look at the session, the goroutine that watches for input, the stay-awake file. | `watch` (InputIdle), `loop` (its goroutines), `held`, `file`; `seat`, `up`, `input`, `cover` are the computer |
| `Keys` | The token table, `kid-bar.json`, `parent-pair`: minting, replacing, pairing, reclaiming. | `toks`, `paired`, `kidBar`, `pairFile` |
| `Setup` | Setup of either role and the starting panel program, as two processes over the same files. Composed with `Keys`, whose pairing runs beside them. | `dest`, `olds`, `shell` (a set of widgets, each with its place, id and tokens), `role`, `cfg`, `unit`; `at`, `doc`, `nth` are where each process stands |
| `Session` | Connections between kids and desks with a handler at either end, and the files both keep. | `session`, `pairFile`, `household`, `link`, `conn` |
| `DeskOps` | A parent's requests at the desk, as the operations they send through a link: numbers, the five-second timeout, late answers, links cut and replaced, retries of a grant. | `conn` (both directions and the link's `pending`), `link`, `live`, `req` (a handler), `credits`; `said`, what this step answers |
| `MCBank`, `MCPlayBreak`, `MCLedger`, `MCPolicy`, `MCSetup` | Instances for TLC. | |
| `Bank_proofs`, `Ledger_proofs`, `Policy_proofs`, `Seat_proofs`, `Setup_proofs`, `Session_proofs`, `DeskOps_proofs` | The theorems about the module of that name. | |
| `Tick_proofs` | The theorems about `Enforcer` and `PlayBreak`, the two parts of a tick. It extends both, which is why the specification and the types of `PlayBreak` are called `BreakSpec` and `BreakTypeOK`. | |

Actions carry the name of the method, the handler or the call they stand for.
Definitions marked "mutant" or "a bug" are plausible slips in the code; no
specification uses them, they show that a property can fail.

How time is kept. `Bank` and `PlayBreak` have a cyclic clock: the instant of the
day, and deadlines as the time left to them, 0 when passed. Nothing in these
modules depends on the date beyond "is it another day", and a run therefore
covers any number of days. `Policy` has no clock: its times of day are settings.

## 3. Runs

| Run | Shows |
|---|---|
| `Bank_house` | Refill once a day, no stacking, the stay-up within its night, bedtime held, the cover not renewed, with a parent who moves the window and takes time away. |
| `PlayBreak_days` | A break is earned, starts when due on a day of fresh rows, and what came before it does not count afterwards. |
| `Ledger_days` | The app's cap, the day's refill, "approved implies paid", and that `Ledger` implements `AskBook`. |
| `Policy_calls` | Three calls of a parent, with a failed write, a stop and a PUT whose read is old: the daemon opens on what is stored, keeps what it answered ok, and no block lies in bedtime. |
| `Enforcer_turns` | Ticks and grants that take turns: no stopped process without a row; grants and ticks continue. |
| `Seat_ticks` | Logins, logouts, compositors that go away, one restart: one goroutine watches, the ticks find out about input, a user's own stay-awake file stays. |
| `Setup_twice` | Setup twice, in either role, and one start of the live program, one kill anywhere: working tokens, one chip, the chip stays, the folder is there. |
| `Session_kids` | Two kids, one desk, a cut or a restart: who is up is paired and live, who is known comes back. |
| `DeskOps_calls` | An answer goes to the handler that asked, however late and from whichever connection; a yes is true; no number is left behind; the check before a grant. |
| `PlayBreak_ids`, `Ledger_paid`, `Enforcer_race` | Each finds the code doing other than a document or a test says (section 5). |

**Bounds.** `Bank`: a day of six instants, two weekdays with different hours and
three windows (across midnight, within a day, around the clock) have every order
of lights-out, midnight and wake; a cover and a break of two instants are longer
than a step, and can meet midnight and the wake; `MaxBalance` is above every allotment.
`PlayBreak`: two windows are enough to merge and not to merge rows; PLAY is
longer than an absence, and a break is shorter than PLAY; a day of six instants
has room for a break and what follows it, one of seven for a cut that hides
a due break. `Ledger`: one token of each kind, two keys so that a retry and a
new call differ, one cut (`MaxStops`). With two parents (`Ledger_paid`) an
approval has somebody to repeat it. `Policy`: a day of six units in which nights
wrap, end at midnight or fill the day; documents that are valid, invalid, sticky,
and one whose thing can only be filled from the stored look; two old versions of
the row; three calls, so that two of them may change what a PUT has read
(`MaxCalls`, `MaxStops`, `MaxFails`). `Enforcer`: two processes that can be
stopped and one that cannot; a clock of two seconds; one kill. `Seat`: two users, one of
them with a compositor that has no idle protocol; two goroutines, so that one that
was cancelled is still there beside its successor; one restart. `Setup`: five contents
of `shell.json` (none, broken, one legacy chip, two legacy chips and the kid's with its tokens, the new one
beside two retired ones) with at most four widgets, and a place to add one (`Last`); every folder an older
install can leave; eight secrets (1 to 3 are an older install's, those in its bar among them, and are never handed
out again; new ones begin at 4; Reclaim and new tokens stop at `MaxSecrets`, minting for the bar does not), two runs and a live start, so that
each can meet what the other left; one kill. `Session`: two
connections of a kid with an open end, so that an old one overlaps the new;
`MaxTickets` is one more than the run can use, `MaxBreaks` is one cut or restart
(the other failures, a lost record or a pairing cut off, follow from that one).
`DeskOps`: two handlers of one kid, so that a listing
and a grant, or two clicks of one grant, overlap on a link; two connections, so that a late answer
comes from the one before; one late operation (`MaxLate`) while others are under way; one key,
which every grant repeats. The numbers of operations are only compared, so the lowest free one
stands for the next of the counter.

`CHECK_DEADLOCK FALSE` stands in three configurations: in `Session_kids`, where
with every kid attached and nothing left to break the system is at rest, and in
`Policy_calls` and `Setup_twice`, which end when their calls and runs are used up.

**Fairness.** `Enforcer`: the ticker fires for ever, and a handler that began
goes on; both are goroutines nothing else blocks. Nothing is assumed of the kid,
of grants or of processes. `Seat`: the ticker comes round each second and does both
its looks, and a goroutine that can go on does; nothing is assumed of users and
compositors. `Session`: the dialer tries for ever (`dial.Run` has no
end, its back-off is at most 15 seconds, and every endpoint is tried), a handler at
either end goes on, and the keep-alives of TCP end a connection whose peer has gone.
Whatever breaks, breaks without fairness. The bank's modules, `Policy`, `Setup` and `DeskOps` claim no
liveness: they act when they are called, and the timeout alone ends a call.

## 4. Proofs

`Bank_proofs` is about every calendar, every set of amounts and every
set of windows, from the three assumptions named in `Bank` (a day has two
instants, allotments are within the bound, amounts are positive where the code
demands it).

- `TypeCorrect` (`TypeOK`), by one lemma for each group of actions. That a hold
  is at most a day is the arithmetic of `ToWake`.
- `RefillOnce` (`RefillOncePerDay`). Inductive relative to `TypeOK`: every
  method either settles the day by `Prepare`, which refills or puts it off, or
  leaves the clock alone; `Spend` alone pays a refill that was put off.
- `HoldEndsAtWake` (`HoldIsTonights`). Inductive; its core is `InsideUntilWake`:
  inside a window, as long as the wake is more than an instant away, the next instant is
  still inside it and one closer, for windows on either side of midnight and
  around the clock.
- `MinutesBehindHold` (`HoldHasMinutes`, which no run checks by itself). Inductive: a refill does not happen
  while the hold has minutes, `Spend` clears the hold with the last minute, and
  a grant that takes them away sets `emptied`.
- `BedtimeIsKept` (`BedtimeHolds`), an action property, from `HoldHasMinutes`: a
  bedtime that is shut has no hold with minutes, hence, unless emptied, no hold at
  all, and only `GiveTime` makes one.
- `NothingStacks` (`NoStacking`), an action property: a step that moves `refills`
  sets the clock to the hours of the day and credits at most one amount.
- `OneCover` (`CoverNotRenewed`), an action property: `SyncCover` starts a
  cover only when there is none, and leaves one that runs alone while the overlay is up
  (`OverlayBefore`: it was up before the day was settled, too).

`Ledger_proofs` is about any tokens, keys, asks, amounts, caps and number of stops.
Everything hangs on `Rest`, which lists what `todo` may be and what it has in common
with the rows: an approval under way is of a pending ask that was paid, a credit to
be counted is inside its cap.

- `TypeCorrect`, `ApprovedIsPaid` (`ApprovedWasPaid`), directly from it.
- `CapIsKept` (`AppWithinCap`): what was given is at most what was counted, the credit
  to be counted, and a cap for each stop (`CapInv`).
- `NoDayIsLost` (`RefillNotLost`): a settled day without its refill has it to come or
  put off (`DayInv`).
- `KeepsTheBook` (`BookIsKept`): the refinement. The initial state is the book's;
  `BookStep` maps every statement to Ask, Approve, Deny, Forget or a stutter. An ask
  counts as approved while its `decide` is in `todo`, so the approval is the step
  of the credit, and a stop in between is `Forget`.

`Policy_proofs` is about a day of any length, any documents, calls, stops and failures.

The theorems of the specification have one hypothesis, `OldRowsOpen`: what an older version left in the
row adopts to a valid look. Nothing in the code makes that so: `Open` refuses the others.

- `SeedIsValid`: the look seeded from a config is valid, for any hours, modes and windows that the
  config parser takes (`PolicyAssumption`). The loop over the windows is a fold; `FoldExists`
  says that the function it is a value of exists, and `SeedFits` that each of its days is one that `DayFrom` takes,
  both by induction over the number of windows.
- `PolicyTypes` (`TypeOK`): every row has a value of its kind after any prefix of a method's assignments
  (`RowsOK`, `AfterRows`), what a PUT has read is a document (`ReadOK`), and the daemon has a look
  exactly while it runs (`EInv`).
- `OpensAgain` (`StoredOpens`) and `BlocksStayAwake` (`BlocksAwake`). The invariant `IInv`:
  the look in memory and the one in the row are valid, after any prefix of a
  method's assignments (`AfterLook`, `RunKeeps`). Agreement of the two forms of the
  night is `NightInSpans`: an instant between lights-out and wake, by the
  enforcer's comparison, is in one of the spans that a block may not touch.
- `AnswersAreKept` (`AckKept`). Invariant `Acks`: while no write
  has failed, the memory of a program that is up and the rows agree, the rows hold what was promised,
  and a look that was promised is one that the next `Open` leaves as it is.

`Tick_proofs`, on the enforcer: any set of processes, any bound on the clock and any
number of kills.

- `TypeCorrect` (`TypeOK`), with `TickHasPid`: a tick past its first call has a process.
- `TurnsLeaveNoOrphans` (`NoOrphans`), under the hypothesis `Overlap = FALSE`. The
  invariant it needs is `ClearsRunning`: between the SIGCONT and the delete of
  the row nobody stops the process again. It is inductive because the two goroutines
  are never both under way (`OneAtATime`). The code does not make them take turns: the
  hypothesis is what `Enforcer_race` shows to be missing and, kills aside, all that is missing.
- `TurnsResumeAll` (`GrantResumes`), under the same hypothesis. Invariant `Handling`: of the rows that
  Resume listed, those it has handled belong to no stopped process. Rows are handled in the order of their pids;
  that a set of pids has a first one is `MinIsFirst`.

`Tick_proofs`, on the play break: any limits, windows and length of the day, with no hypothesis.
The sitting is a sum over a chain of rows. The chain is a stretch at the end of the rows (`ChainFacts`), which a new row, a later
second on the last row or an absence extends or ends (`ChainAppend`, `ChainTouched`); what the sum of the community
modules returns is proved first (`AddsExists`, `SumOne`, `SumSame`), by induction in the form
of a set of numbers that reaches every number (`Reach`).

- `BreakTypes` (`BreakTypeOK`), with the cut inside the rows of the day.
- `BreakNotEarly` (`BreakIsEarned`) and `BreakNotLate` (`TodaysBreakStarts`), action properties. Invariant
  `SatInv`: the kid at a window was last noted when the last row says so (`Seen`), and the rows after the cut are
  backed by time at the computer (`Backed`): their chain begins with a row no older than the moment the kid sat down, exactly
  then on a day whose cut is today's, and its seconds, with those this instant still owes, are
  at most the time since then and two. `SittingIs` draws both ends from it: a sitting is at most two
  seconds more than the kid has sat, and no less on such a day.

`Seat_proofs` is about any users and goroutines, and any number of restarts.

- `OwnFileIsKept` (`OwnFileKept`), if a session ends before another user's begins
  (`Direct = FALSE`): a path that is held is of the user who sits there, or of nobody
  any more, and the file on it is not a user's (`HeldIsOurs`).
- `WatcherIsOne` (`OneWatcher`) and `SaysWhileItRuns` (`TypeOK`: a source says what input there was only while a goroutine
  of its own runs, `IdleRuns`), if by the next look a cancelled goroutine has ended and a new one is
  connected (`Late = FALSE`): a goroutine that is not cancelled is the one the cancel function
  is of (`LoopInv`).

`Setup_proofs` is about any retired ids, contents of `shell.json`, checkouts, runs, starts and kills.
Two theorems have no hypothesis:

- `SetupTypes` (`TypeOK`): `TInv` gives each step of a process what it holds at that point (`AtOK`,
  `FileOK`, `ShellOK`).
- `BarOfKidWorks` (`BarWorks`). Invariant `KInv`: the secrets in the rows are ones that were handed out, never to be again
  (`RowsAreFresh`); a secret that is out opens rows of one kind only, so that what the bar holds as its read token is none
  to ask with, and the other way (`PairsOpen`); and from the minting on the pair in memory is one the bank takes, and the
  one in the file once that is written (`BarIsHeld`).

Three suppose that setup and the live program do not overlap (`Overlap = FALSE`), without which they do not hold (section 5):

- `FolderStays` (`NeverDangles`): a program that
  is about to link has its checkout, and one that
  is about to remove a folder has moved the link (`CheckoutIsThere`, `LinkIsMoved`).
- `ChipNeverLeaves` (`ChipStays`): what a process is about to write is the file as it stands, rewritten,
  without one retired id, or with the chip added (`WhereAt`, in `CInv`); rewriting keeps the first of the chips
  in its place, which is there because places are numbers (`SomeLeast`).
- `BarShowsOneChip` (`OneChip`), if moreover no content of `shell.json` shows the new chip twice to begin with: setup
  removes chips of retired ids, never one of its own (`DoneIsClean`).

`Session_proofs` is about any kids, desks, connections, tickets and failures, with no hypothesis.

- `TicketsAreUnique`: a ticket is of one kid at one desk, wherever it is held.
- `ServesWhatItSaved` (`UpIsPaired`): `AgreedIsSaved` ties the stages of a connection to the
  kid's file, and `OneDial` says that a kid has one connection it is busy with.
- `SessionTypes` (`TypeOK`) and `ServingKidIsLive` (`UpIsLive`), from `LInv`: a connection that is its
  handler's was attached (`MineIsAttached`), and as long as both its ends are open it is the link of its kid,
  unless a late `detach` has let that link go (`AttachedIsLive`).

`DeskOps_proofs` is about any kids, handlers, keys, connections and number of late
operations, with no hypothesis. Its core is `OutIsOwn` and `BackIsOwn`: what travels
under the number of a handler, in either direction, is that handler's operation at its own kid,
because a new number is one that nobody waits for and nothing travels under.

- `TypeCorrect` (`TypeOK`), with `Sensible`: what a request has left is the rest of its kind's list.
- `AnswersAreOwn` (`AnswerIsOwn`), directly from `BackIsOwn`.
- `YesIsTrue` (`YesMeansCredited`): the answer to a grant travels behind its credit.
- `NumbersAreTakenBack` (`NothingLeaks`): a call adds its own number, and each way to
  settle a handler that waits takes that number away.
- `GrantsAreFree` (`GrantWasFree`), an action property, from `Freedom`: a free status
  was free at the kid's answer, which lies after the click.

Model-checked only: the three liveness properties (`FocusedResumes`, `SeenAsIs`,
`ComesBack`), which with `ENABLED` are out of the prover's reach. Every other property of
a run that passes is a theorem.

## 5. Where the code and its documents part

With a run each:
1. `DueBreakStarts`: row ids start again from 1 at midnight while `playCut` stays,
   so the first break of a day may not come (pin.go:336, README.md:83).
2. `AskPaidOnce`: an approval cut off between credit and status is pending again,
   and a second decider pays again (bank.go:873, README.md:93).
3. `NoOrphans`: a tick at zero between Resume's signal and its `ClearPaused`
   leaves a stopped process without a row (enforcer.go:255, enforcer_test.go:131).

Known from the models, and excepted by a property or set aside by a constant:
- Taking a stay-up's minutes away after midnight lets the put-off refill open the
  locked bedtime with a whole day's hours; a stay-up given after midnight replaces
  the hours of the new day (README.md:63, 97). `BedtimeHolds` and `RefillOncePerDay` say what does hold.
- A poll between the checks of a tick lets one note fall inside a break; a stop between
  `setDayLocked` and the refill loses a day's hours (`RefillNotLost`, with no
  stop); one dead pid ends Resume (`GrantResumes`); a kill between SIGSTOP and the row
  (`NoOrphans`).
- Once a write of the overlay has failed, the value stays in memory: a retry finds it set, is
  answered ok, writes nothing, and the next start has the old one (overlay.go:297; `AckKept`, with no failure).
- With `Late = TRUE`, `SeenAsIs` fails: a cancelled goroutine that ends after its own user
  was attached again clears the flags of its successor (idle.go:74), and the kid is idle
  while playing (README.md:61).
- With `Direct = TRUE`, `OwnFileKept` fails: a session that passes straight to another user
  leaves "ours" set with the path of the new one (stay.go:24), against what
  `TestStayAwakeDoesNotStealExisting` checks for one user.
- With `Overlap = TRUE`, setup and a starting panel program lose each other's edits of
  `shell.json` and may remove the folder the other links to (setup.go:824).
- A late `detach` by id marks a live link dead (`UpIsLive`, `ComesBack`). A reject from any desk
  wipes the session with the kid's own, and the next desk that is offered gets the
  kid (dial.go:152, README.md:177).

No property touches these: a kid whose Accept was lost is turned down as known; a stop in
`Pair` after the row and before the mark (bank.go:514) leaves a name that is taken for good, and
one between the bank's pairing and `parent-pair` a kid without its token; a stop in `ImportIfEmpty` between the kids
and the PIN (household.go:47) loses the PIN; a panel that read the role before setup wrote "kid" may write
"parent" over it (parent.go:34).

## 6. What is simplified

- `Bank`: hours, PLAY and BREAK are constants (they are edited with `PutLook`);
  wrong guesses of the PIN change nothing here; the cap of an app is in `Ledger`;
  a replay of a grant and a refused call only settle the day, which is `Restart`.
- `PlayBreak`: of the clock only "is there time" matters.
- `Ledger`: a locked bedtime is a switch, and the breaks' writes are left out.
- `Policy`: hours and piles, names and nicknames are left out; the minutes of a mode are
  one bit (`more`); what is installed does not change.
- `Enforcer`: the overlay and the idle session are one switch. In `Seat`, what covers
  the screen is an input and the input's minute has passed or not.
- `Setup`: the contents of a folder are whole or gone (`placePlugin` copies beside it
  and renames), and systemd and the fetch of the daemon succeed or end the run.
- `Keys`: a secret is a number, and its hash the same number.
- `Session`: who can be reached is up to the network. Records adopted from a
  scan are left out: only tests call that path (`scan.go`, `replaceSeen`).
- `DeskOps`: the kid has its token; a listing is a status and one more read; the
  operations that only write (lock, policy, look, decide) appear as what they do
  to `blocked`; kinds of a block are one.

Not modelled: focus sockets, logind, mDNS, the reading of .desktop files and the catalogue (I/O without
state of the program's own); the command lines over HTTP (act.go, export.go, pin.go); the
panels and the installer's scripts; the PIN's hash, its wrong guesses and cooldown, and its
delivery to kids; `MoveApp`, piles and hours of the look; usage totals and recent
windows. `PROJECT.json` lists every part.

## 7. What is left

In the order of use:
1. `PinGate`: guesses, cooldown and restart (pin.go:449), and the PIN that is pushed on attach,
   which may overtake the Accept (desk.go:313).
2. `Cover`: tick and cover together, with the cover that survives a parent lock
   (pin.go:199 against README.md:71).
3. The cap of an app and the replay at the cap, in `DeskOps` and `Ledger`.
4. `PlayBreak` with a stop inside `SyncPlayBreak` (pin.go:275).
5. Proofs: that `Bank`'s `SyncPlayBreak(long)` allows what `PlayBreak` does, as a refinement; which part of
   `RefillNotLost` and `AckKept` remains after a stop or a failed write.
