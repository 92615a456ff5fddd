------------------------------- MODULE Policy -------------------------------
(***************************************************************************)
(* What a parent sets and the kid's daemon keeps: the look document        *)
(* (look/document.go, look/fill.go) and the rows of the overlay            *)
(* (bank/overlay.go), each held in memory and in a row of the table meta.  *)
(*                                                                         *)
(* b.mu makes a method of the bank one step for the other methods, but not *)
(* for the disk: a method is a sequence of assignments, each of one field  *)
(* in memory and then of its row.  A write may fail, which ends the method *)
(* with an error, and the daemon may stop between two writes; it starts    *)
(* again from the rows (Open).  PUT /v1/look takes the lock twice.         *)
(***************************************************************************)
EXTENDS Schedule

CONSTANTS
  Freetime,     \* look.FreetimeID
  Configs,      \* config files: [out, wake, modes, windows]
  Puts,         \* the documents that parents put, with no version
  Things,       \* ids of apps and sites
  Installed,    \* the things that fillMatcher can find
  Clients,      \* requests of PUT /v1/look that may be under way at once
  Clocks,       \* the times of day that parents set
  Olds,         \* looks an older version may have left in the row
  MaxCalls, MaxStops, MaxFails             \* bounds

VARIABLES
  config,       \* the config file of this computer
  up,           \* the daemon runs; "dead": Open fails
  mem,          \* field -> the value in memory
  disk,         \* field -> the value of its row
  stored,       \* client -> the look it read, or NoLook
  answer,       \* of the last call: "ok", "refused", "error", "none"
  acked,        \* <<field, value>>: what calls answered ok have set
  calls, stops, fails

vars == <<config, up, mem, disk, stored, answer, acked, calls, stops, fails>>

NoLook == [ver |-> 0]
DocFields == {"ver", "modes", "more", "blocks", "bed", "sticky", "fun", "play",
              "things", "match"}

\* fun and play are minutes by name and minutes: 0 is none, which the code also
\* takes a number below 0 for.  Versions are counted up from what was stored.
ASSUME PolicyAssumption ==
  /\ Installed \subseteq Things
  /\ \A c \in Configs :
       /\ Freetime \notin c.modes /\ c.out \in Units /\ c.wake \in Units
       /\ c.windows \in Seq([mode : c.modes, start : Units, end : Units])
  /\ \A d \in Puts \cup Olds :
       /\ DOMAIN d = DocFields
       /\ d.sticky \in BOOLEAN /\ d.fun \in Nat /\ d.play \in Nat
       /\ d.things \subseteq Things
  /\ \A d \in Olds : d.ver \in Nat
  /\ Clocks \subseteq Units
  /\ MaxCalls \in Nat /\ MaxStops \in Nat /\ MaxFails \in Nat

DefaultPlay == 45

-----------------------------------------------------------------------------
(* The document                                                            *)

\* The parts that EqualPolicy compares.
Plan(d) == [d EXCEPT !.ver = 0]

\* Document.Validate
Valid(d) ==
  /\ Freetime \in d.modes
  /\ DayOK(d.blocks, d.bed)
  /\ \A b \in d.blocks : b.mode \in d.modes
  /\ d.more \subseteq d.modes \ {Freetime}
  /\ d.match \subseteq d.things

\* look.AdoptPersisted: freetime is added, a version below 2 loses its things,
\* and a missing play time becomes the default.
Adopt(d) ==
  [d EXCEPT !.modes = @ \cup {Freetime},
            !.ver = IF @ < 2 THEN 2 ELSE @,
            !.things = IF d.ver < 2 THEN {} ELSE @,
            !.match = IF d.ver < 2 THEN {} ELSE @,
            !.play = IF @ = 0 THEN DefaultPlay ELSE @]

\* look.Seed
SeedLook(c) ==
  LET bed == SeedBed(c.out, c.wake)
      modes == c.modes \cup {Freetime}
  IN [ver |-> 2, modes |-> modes, more |-> {}, blocks |-> SeedDay(c.windows, modes, bed),
      bed |-> bed, sticky |-> FALSE, fun |-> 1, play |-> DefaultPlay,
      things |-> {}, match |-> {}]

\* look.ApplyIncoming: what the document does not say comes from the stored
\* one; a matcher is kept, or found among the installed apps.
Filled(old, d) ==
  [d EXCEPT !.fun = IF @ = 0 THEN old.fun ELSE @,
            !.play = IF @ # 0 THEN @ ELSE IF old.play # 0 THEN old.play ELSE DefaultPlay,
            !.match = d.things]
Fillable(old, d) == d.things \subseteq old.match \cup Installed

-----------------------------------------------------------------------------
(* Memory and rows                                                         *)

Fields == {"look", "lock", "mode", "until", "bedLock", "hour12"}
Empty == [look |-> NoLook, lock |-> FALSE, mode |-> "", until |-> "",
          bedLock |-> "none", hour12 |-> "none"]

\* rec after the first k of the steps, each <<field, value>>.
After(rec, steps, k) ==
  [f \in Fields |->
     LET js == {j \in 1..k : steps[j][1] = f}
     IN IF js = {} THEN rec[f] ELSE steps[CHOOSE j \in js : \A i \in js : i <= j][2]]

Sets(steps) == {steps[k][1] : k \in DOMAIN steps}

\* What the caller may rely on after an ok: the fields of the steps, and those
\* that the method found to have the value already.
Promise(rec, fields) == {<<f, rec[f]>> : f \in fields}
Forget(fields) == {p \in acked : p[1] \notin fields}

\* A method that writes the steps, one row after the other, and ends with an
\* answer, if no write fails and the daemon is not stopped.
Run(steps, fields, end) ==
  /\ \/ /\ mem' = After(mem, steps, Len(steps))
        /\ disk' = After(disk, steps, Len(steps))
        /\ answer' = end
        /\ UNCHANGED <<up, stops, fails>>
     \/ /\ fails < MaxFails
        /\ \E k \in DOMAIN steps :
             /\ mem' = After(mem, steps, k)
             /\ disk' = After(disk, steps, k - 1)
        /\ fails' = fails + 1
        /\ answer' = "error"
        /\ UNCHANGED <<up, stops>>
     \/ /\ stops < MaxStops
        /\ \E k \in 0..Len(steps) : disk' = After(disk, steps, k)
        /\ stops' = stops + 1
        /\ up' = "down"
        /\ mem' = Empty
        /\ answer' = "none"
        /\ UNCHANGED fails
  /\ acked' = Forget(fields \cup Sets(steps))
                \cup (IF answer' = "ok" THEN Promise(mem', fields) ELSE {})

Do(steps, fields) == Run(steps, fields, "ok")

\* A method that ends with ErrInvalid, after the steps it had already done.
Refuse(steps) == Run(steps, {}, "refused")

\* b.look = doc with the next version; persistLookLocked.
PutStep(d) == <<<<"look", [d EXCEPT !.ver = mem.look.ver + 1]>>>>

Call ==
  /\ up = "up"
  /\ calls < MaxCalls
  /\ calls' = calls + 1
  /\ UNCHANGED config

-----------------------------------------------------------------------------
(* The methods                                                             *)

SetParentLock(on) ==
  /\ Call /\ UNCHANGED stored
  /\ Do(IF mem.lock = on THEN <<>> ELSE <<<<"lock", on>>>>, {"lock"})

SetHour12(clock) ==
  /\ Call /\ UNCHANGED stored
  /\ Do(<<<<"hour12", clock>>>>, {"hour12"})

\* Mutant: the new bedtime is stored without a look at the blocks.
SetBedtimeUnchecked(out, wake, lock) ==
  /\ Call /\ UNCHANGED stored
  /\ Do(PutStep([mem.look EXCEPT !.bed = Bed(out, NightBetween(out, wake))]), {"look"})

\* SetBedtime: the clocks, then the lock; the rows of the clocks themselves
\* are written first and read by nothing.
SetBedtime(out, wake, lock) ==
  LET bed == Bed(out, NightBetween(out, wake))
      d == [mem.look EXCEPT !.bed = bed]
  IN /\ Call /\ UNCHANGED stored
     /\ IF bed.dur >= MinNight /\ Valid(d)
          THEN Do(PutStep(d) \o (IF lock = "none" THEN <<>> ELSE <<<<"bedLock", lock>>>>),
                  {"look"} \cup (IF lock = "none" THEN {} ELSE {"bedLock"}))
          ELSE Refuse(<<>>)

\* SetModeMinutes
SetModeMinutes(mode, more) ==
  /\ Call /\ UNCHANGED stored
  /\ IF mode \in mem.look.modes \ {Freetime}
       THEN Do(PutStep([mem.look EXCEPT !.more = IF more THEN @ \cup {mode} ELSE @ \ {mode}]),
               {"look"})
       ELSE Refuse(<<>>)

\* setStickyLocked
Sticky(on) == IF mem.look.sticky = on THEN <<>> ELSE PutStep([mem.look EXCEPT !.sticky = on])

\* ApplyModeSpec.  A mode the look does not have is refused after sticky was
\* cleared.
Resume ==
  /\ Call /\ UNCHANGED stored
  /\ Do(Sticky(FALSE) \o <<<<"until", "">>, <<"mode", "">>>>, {"look", "until", "mode"})

StickyMode ==
  /\ Call /\ UNCHANGED stored
  /\ Do(Sticky(TRUE) \o <<<<"mode", Freetime>>, <<"until", "">>>>, {"look", "until", "mode"})

\* Mutant: the mode is not looked up.
ForModeUnchecked(id) ==
  /\ Call /\ UNCHANGED stored
  /\ Do(Sticky(FALSE) \o <<<<"mode", id>>, <<"until", "">>, <<"until", "for">>>>,
        {"look", "until", "mode"})

ForMode(id) ==
  /\ Call /\ UNCHANGED stored
  /\ IF id \in mem.look.modes
       THEN Do(Sticky(FALSE) \o <<<<"mode", id>>, <<"until", "">>, <<"until", "for">>>>,
               {"look", "until", "mode"})
       ELSE Refuse(Sticky(FALSE))

\* UntilNext, and the default kind, which leaves sticky alone for freetime.
NextMode(id, next) ==
  LET sticky == IF next \/ id # Freetime THEN Sticky(FALSE) ELSE <<>>
  IN /\ Call /\ UNCHANGED stored
     /\ IF id \in mem.look.modes
          THEN Do(sticky \o <<<<"mode", id>>, <<"until", "next">>>>, {"look", "until", "mode"})
          ELSE Refuse(sticky)

\* Bank.PutLook: an equal plan is answered ok with no write.
PutLook(d) ==
  IF ~ Valid(d) THEN Refuse(<<>>)
  ELSE IF Plan(d) = Plan(mem.look) THEN Do(<<>>, {"look"})
  ELSE Do(PutStep(d) \o (IF mem.mode # "" /\ mem.mode \notin d.modes
                           THEN <<<<"mode", "">>>> ELSE <<>>),
          {"look"})

\* PUT /v1/look reads the stored look under one lock and puts under another.
PutRead(c) ==
  /\ Call
  /\ stored[c] = NoLook
  /\ stored' = [stored EXCEPT ![c] = mem.look]
  /\ UNCHANGED <<up, mem, disk, answer, acked, stops, fails>>

PutWrite(c, d) ==
  /\ up = "up"
  /\ stored[c] # NoLook
  /\ stored' = [stored EXCEPT ![c] = NoLook]
  /\ UNCHANGED <<config, calls>>
  /\ IF Fillable(stored[c], d) THEN PutLook(Filled(stored[c], d)) ELSE Refuse(<<>>)

-----------------------------------------------------------------------------
(* Start and stop                                                          *)

\* Mutant: the row of the override is not read.
LoadHalf(rows) == [rows EXCEPT !.until = ""]

\* Open: loadOverlayLocked and ensureLookLocked.  The requests of the daemon
\* that stopped are gone.
Load(rows) == rows

Open ==
  LET look == IF disk.look = NoLook THEN SeedLook(config) ELSE Adopt(disk.look)
  IN /\ up = "down"
     /\ IF Valid(look)
          THEN /\ up' = "up"
               /\ mem' = [Load(disk) EXCEPT !.look = look]
               /\ disk' = [disk EXCEPT !.look = look]
          ELSE up' = "dead" /\ UNCHANGED <<mem, disk>>
     /\ stored' = [c \in Clients |-> NoLook]
     /\ UNCHANGED <<config, answer, acked, calls, stops, fails>>

\* The daemon stops between two calls.
Stop ==
  /\ up = "up"
  /\ stops < MaxStops
  /\ stops' = stops + 1
  /\ up' = "down"
  /\ mem' = Empty
  /\ UNCHANGED <<config, disk, stored, answer, acked, calls, fails>>

Init ==
  /\ config \in Configs
  /\ up = "down"
  /\ mem = Empty
  /\ disk \in {[Empty EXCEPT !.look = d] : d \in Olds \cup {NoLook}}
  /\ stored = [c \in Clients |-> NoLook]
  /\ answer = "none"
  /\ acked = {}
  /\ calls = 0 /\ stops = 0 /\ fails = 0

\* The modes of the config, of an older version, and those that parents make.
Modes == (UNION {c.modes : c \in Configs}) \cup (UNION {d.modes : d \in Puts \cup Olds})
           \cup {Freetime}

Next ==
  \/ \E on \in BOOLEAN : SetParentLock(on)
  \/ \E clock \in {"12", "24"} : SetHour12(clock)
  \/ \E out, wake \in Clocks, lock \in {"none", "on"} : SetBedtime(out, wake, lock)
  \/ \E mode \in Modes \cup {"unknown"}, more \in BOOLEAN : SetModeMinutes(mode, more)
  \/ Resume \/ StickyMode
  \/ \E id \in Modes \cup {"unknown"} : ForMode(id) \/ \E next \in BOOLEAN : NextMode(id, next)
  \/ \E c \in Clients : PutRead(c) \/ \E d \in Puts : PutWrite(c, d)
  \/ Open \/ Stop

Spec == Init /\ [][Next]_vars

-----------------------------------------------------------------------------
(* What holds of it                                                        *)

LookOK(d) ==
  /\ d.ver \in Nat /\ d.modes \subseteq Modes /\ d.more \subseteq d.modes
  /\ d.sticky \in BOOLEAN /\ d.fun \in Nat /\ d.play \in Nat
  /\ d.things \subseteq Things

\* Every field has a value of its kind.
TypeOK ==
  /\ up \in {"up", "down", "dead"}
  /\ answer \in {"ok", "refused", "error", "none"}
  /\ \A r \in {mem, disk} :
       /\ DOMAIN r = Fields
       /\ r.look = NoLook \/ LookOK(r.look)
       /\ r.lock \in BOOLEAN /\ r.mode \in Modes \cup {""}
       /\ r.until \in {"", "for", "next"}
       /\ r.bedLock \in {"none", "on"} /\ r.hour12 \in {"none", "12", "24"}
  /\ (up = "up") = (mem.look # NoLook)

\* The daemon can start on what it wrote: no call, refused or cut short,
\* leaves a look in the row that Open does not take (a daemon that cannot open
\* its bank does not come back, and nothing in it can be repaired from the
\* panel).
StoredOpens ==
  /\ up # "dead"
  /\ disk.look # NoLook => Valid(Adopt(disk.look))

\* What a parent was told is done is on the disk and in force, also after the
\* daemon has stopped within another call (bank_test.go,
\* TestParentLockPersistsAcrossReopen).
AckKeptAlways ==
  \A p \in acked : disk[p[1]] = p[2] /\ (up = "up" => mem[p[1]] = p[2])

\* The same while no write fails: a failed write leaves its value in memory,
\* and the retry finds the call already done.
AckKept == fails = 0 => AckKeptAlways

\* The plan and the clock that enforces it agree: no block of the day is in
\* the hours that the enforcer takes for bedtime, whichever of the calls moved
\* either (ClockContains on lights-out and wake, against Spans).
BlocksAwake ==
  up = "up" =>
    \A m \in Units :
      ClockContains(mem.look.bed.out, Wake(mem.look.bed), m) =>
        Covering(mem.look.blocks, m) = {}
=============================================================================
