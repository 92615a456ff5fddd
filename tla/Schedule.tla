------------------------------ MODULE Schedule ------------------------------
(***************************************************************************)
(* The day of a look document (look/schedule.go) and how the first look is *)
(* made from the config (look/seed.go).  A day has DayLen units, a block   *)
(* is a stretch of one mode in it, and bedtime is a start and a length     *)
(* that may wrap midnight.                                                 *)
(***************************************************************************)
EXTENDS Integers, Sequences, FiniteSets, SequencesExt

CONSTANTS
  DayLen,       \* 1440 minutes in the code
  MinBlock,     \* the shortest block: 15 minutes
  MinNight      \* the shortest bedtime: 60 minutes

ASSUME ScheduleAssumption ==
  /\ DayLen \in Nat \ {0}
  /\ MinBlock \in 1..DayLen
  /\ MinNight \in 1..DayLen

Units == 0..(DayLen - 1)

-----------------------------------------------------------------------------
(* Bedtime                                                                 *)

Bed(out, dur) == [out |-> out, dur |-> dur]
BedOK(bed) == bed.out \in Units /\ bed.dur \in MinNight..DayLen
Wake(bed) == (bed.out + bed.dur) % DayLen

\* Mutant: a night that wraps is cut off at midnight.
SpansCut(bed) ==
  {<<bed.out, IF bed.out + bed.dur < DayLen THEN bed.out + bed.dur ELSE DayLen>>}

\* Bedtime.spans: the night as stretches that do not wrap.
Spans(bed) ==
  IF bed.dur >= DayLen THEN {<<0, DayLen>>}
  ELSE IF bed.out + bed.dur <= DayLen THEN {<<bed.out, bed.out + bed.dur>>}
  ELSE {<<bed.out, DayLen>>, <<0, Wake(bed)>>}

\* config.ClockContains, which the enforcer asks with lights-out and wake.
ClockContains(start, end, m) ==
  IF start = end THEN TRUE
  ELSE IF start < end THEN m >= start /\ m < end
  ELSE m >= start \/ m < end

\* The length between two clock times, as SetBedtime and bedtimeFromConfig
\* compute it: equal clocks are a whole day.
NightBetween(out, wake) == IF wake > out THEN wake - out ELSE wake - out + DayLen

-----------------------------------------------------------------------------
(* Blocks                                                                  *)

Block(start, dur, mode) == [start |-> start, dur |-> dur, mode |-> mode]
End(b) == b.start + b.dur
Apart(b, c) == End(b) <= c.start \/ End(c) <= b.start

\* intersectsBedtime
AtNight(b, bed) == \E s \in Spans(bed) : b.start < s[2] /\ s[1] < End(b)

\* DayFrom succeeds.
DayOK(blocks, bed) ==
  /\ BedOK(bed)
  /\ \A b \in blocks :
       /\ b.dur \in MinBlock..DayLen
       /\ b.start \in Units
       /\ End(b) <= DayLen
       /\ ~ AtNight(b, bed)
  /\ \A b, c \in blocks : b # c => Apart(b, c)

Covering(blocks, m) == {b \in blocks : b.start <= m /\ m < End(b)}

-----------------------------------------------------------------------------
(* The first look                                                          *)

\* One round of the loop of placeWithoutOverlap: c is what is left of b;
\* a trimmed-away block stays trimmed away (dur 0).
Clip(b, c, other) ==
  IF c.dur = 0 \/ Apart(other, c) THEN c
  ELSE LET d == IF other.start <= c.start
                  THEN [c EXCEPT !.start = End(other), !.dur = End(b) - End(other)]
                  ELSE [c EXCEPT !.dur = other.start - c.start]
       IN IF d.dur < MinBlock THEN [c EXCEPT !.dur = 0] ELSE d

Sorted(blocks) == SetToSortSeq(blocks, LAMBDA b, c : b.start < c.start)

\* placeWithoutOverlap: of b the stretch that the others leave; an error leaves
\* the day as it was (seedSchedule).
Place(blocks, b, bed) ==
  LET Round(c, other) == Clip(b, c, other)
      left == FoldLeft(Round, b, Sorted(blocks))
      clipped == Block(left.start, left.dur, b.mode)
  IN IF left.dur # 0 /\ DayOK(blocks \cup {clipped}, bed)
       THEN blocks \cup {clipped} ELSE blocks

\* A window of the config is left out if it names no mode, wraps midnight or is
\* too short.
AddWindow(blocks, w, modes, bed) ==
  IF w.mode \in modes /\ w.end > w.start /\ w.end - w.start >= MinBlock
    THEN Place(blocks, Block(w.start, w.end - w.start, w.mode), bed)
    ELSE blocks

\* seedSchedule for one day: the windows of the config in their order.
SeedDay(windows, modes, bed) ==
  LET Add(blocks, w) == AddWindow(blocks, w, modes, bed)
  IN FoldLeft(Add, {}, windows)

\* bedtimeFromConfig
SeedBed(out, wake) ==
  LET dur == NightBetween(out, wake)
  IN Bed(out, IF dur < MinNight THEN MinNight ELSE dur)
=============================================================================
