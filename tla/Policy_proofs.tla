---------------------------- MODULE Policy_proofs ----------------------------
(***************************************************************************)
(* For every length of the day, every set of documents, clocks and modes,  *)
(* and any number of calls, failed writes and stops: the look in memory    *)
(* and the look in its row are valid, every field has a value of its kind, *)
(* and no block of a valid look lies in the hours that the enforcer takes  *)
(* for bedtime.                                                            *)
(***************************************************************************)
EXTENDS Policy, SequenceTheorems, FiniteSetTheorems, TLAPS, WellFoundedInduction

\* What an older version left in the row is a look that Open takes.
OldRowsOpen == \A d \in Olds : Valid(Adopt(d))

\* The values of a document, and of the rows of the other fields.
Kind(d) ==
  /\ d.modes \subseteq Modes /\ d.things \subseteq Things
  /\ d.sticky \in BOOLEAN /\ d.fun \in Nat /\ d.play \in Nat
RowOK(f, v) ==
  \/ f = "lock" /\ v \in BOOLEAN
  \/ f = "mode" /\ v \in Modes \cup {""}
  \/ f = "until" /\ v \in {"", "for", "next"}
  \/ f = "bedLock" /\ v \in {"none", "on"}
  \/ f = "hour12" /\ v \in {"none", "12", "24"}
RowsOK(rec) == \A f \in Fields \ {"look"} : RowOK(f, rec[f])

\* A document that may be put, and one that was: Adopt finds nothing to do.
Whole(d) == DOMAIN d = DocFields /\ Valid(d) /\ d.play # 0 /\ Kind(d)
Sound(d) ==
  Whole(d) /\ d.ver \in Nat /\ d.ver >= 2 /\ d = [f \in DocFields |-> d[f]]

Adoptable(d) == DOMAIN d = DocFields /\ Valid(Adopt(d)) /\ d.ver \in Nat /\ Kind(d)

\* While no write has failed, memory and rows agree, and both have what was
\* promised; a promised look is one that the next start leaves as it is.
Acks ==
  fails = 0 =>
    /\ up = "up" => \A f \in Fields : mem[f] = disk[f]
    /\ \A p \in acked : p[1] \in Fields /\ disk[p[1]] = p[2]
    /\ \A p \in acked : p[1] = "look" => Sound(disk.look)

IInv ==
  /\ DOMAIN mem = Fields /\ DOMAIN disk = Fields
  /\ up # "dead"
  /\ up = "up" => Sound(mem.look)
  /\ disk.look # NoLook => Adoptable(disk.look)
  /\ RowsOK(mem) /\ RowsOK(disk)
  /\ fails \in Nat /\ Acks

\* What a request of PUT /v1/look has read.
ReadOK ==
  /\ DOMAIN stored = Clients
  /\ \A c \in Clients : stored[c] # NoLook => Kind(stored[c])

-----------------------------------------------------------------------------
(* The day                                                                 *)

\* A moment that ClockContains takes for bedtime is in one of its spans.
LEMMA NightInSpans ==
  ASSUME NEW bed, BedOK(bed), NEW m \in Units, ClockContains(bed.out, Wake(bed), m)
  PROVE  \E s \in Spans(bed) : s[1] <= m /\ m < s[2]
<1>. USE ScheduleAssumption DEF BedOK, Units
<1>. DEFINE end == bed.out + bed.dur
<1>0. /\ bed.out \in Int /\ bed.dur \in Int /\ end \in Int
      /\ 0 <= bed.out /\ bed.out < DayLen /\ 0 < bed.dur /\ bed.dur <= DayLen
      /\ 0 <= m /\ m < DayLen /\ DayLen \in Nat
  OBVIOUS
<1>1. CASE bed.dur >= DayLen
  <2>1. Spans(bed) = {<<0, DayLen>>}
    BY <1>1 DEF Spans
  <2>. QED
    BY <2>1, <1>0
<1>2. CASE bed.dur < DayLen /\ end < DayLen
  <2>1. Wake(bed) = end
    BY <1>0, <1>2 DEF Wake
  <2>2. Spans(bed) = {<<bed.out, end>>}
    BY <1>0, <1>2 DEF Spans
  <2>3. bed.out <= m /\ m < end
    BY <2>1, <1>0 DEF ClockContains
  <2>. QED
    BY <2>2, <2>3
<1>3. CASE bed.dur < DayLen /\ end = DayLen
  <2>1. Wake(bed) = 0
    BY <1>0, <1>3 DEF Wake
  <2>2. Spans(bed) = {<<bed.out, DayLen>>}
    BY <1>0, <1>3 DEF Spans
  <2>3. bed.out <= m
    BY <2>1, <1>0 DEF ClockContains
  <2>. QED
    BY <2>2, <2>3, <1>0
<1>4. CASE bed.dur < DayLen /\ end > DayLen
  <2>1. Wake(bed) = end - DayLen /\ Wake(bed) < bed.out
    BY <1>0, <1>4 DEF Wake
  <2>2. Spans(bed) = {<<bed.out, DayLen>>, <<0, Wake(bed)>>}
    BY <1>0, <1>4 DEF Spans
  <2>3. bed.out <= m \/ m < Wake(bed)
    BY <2>1, <1>0 DEF ClockContains
  <2>. QED
    BY <2>2, <2>3, <1>0
<1>. QED
  BY <1>0, <1>1, <1>2, <1>3, <1>4

\* So a day that DayFrom takes has no block there.
LEMMA NoBlockAtNight ==
  ASSUME NEW blocks, NEW bed, DayOK(blocks, bed),
         NEW m \in Units, ClockContains(bed.out, Wake(bed), m)
  PROVE  Covering(blocks, m) = {}
<1>. SUFFICES ASSUME NEW b \in blocks, b.start <= m, m < End(b) PROVE FALSE
  BY DEF Covering
<1>1. BedOK(bed) /\ ~ AtNight(b, bed)
  BY DEF DayOK
<1>2. b.start \in Int /\ b.dur \in Int
  BY ScheduleAssumption DEF DayOK, Units
<1>3. PICK s \in Spans(bed) : s[1] <= m /\ m < s[2]
  BY <1>1, NightInSpans
<1>4. s[1] \in Int /\ s[2] \in Int
  BY <1>1, <1>3, ScheduleAssumption DEF Spans, Wake, BedOK, Units
<1>5. b.start < s[2] /\ s[1] < End(b)
  BY <1>2, <1>3, <1>4, ScheduleAssumption DEF End, Units
<1>. QED
  BY <1>1, <1>3, <1>5 DEF AtNight

-----------------------------------------------------------------------------
(* The first look                                                          *)

LEMMA LeastIsIn ==
  ASSUME NEW S, S \subseteq Nat, S # {}
  PROVE  \E m \in S : \A p \in S : m <= p
<1>. DEFINE R == OpToRel(<, Nat)
<1>1. IsWellFoundedOn(R, Nat)
  BY NatLessThanWellFounded
<1>2. \A x, y \in Nat : y < x => <<y, x>> \in R
  BY DEF OpToRel
<1>. HIDE DEF R
<1>3. PICK x \in S : \A y \in S : <<y, x>> \notin R
  BY <1>1, WFMin
<1>4. \A y \in S : ~(y < x)
  BY <1>2, <1>3
<1>5. \A p \in S : x <= p
  BY <1>4
<1>. QED
  BY <1>5

\* Induction in the form of a set of numbers.
LEMMA Reach ==
  ASSUME NEW B, 0 \in B, \A k \in Nat : k \in B => k + 1 \in B
  PROVE  \A k \in Nat : k \in B
<1>. DEFINE S == Nat \ B
<1>. SUFFICES ASSUME S # {} PROVE FALSE
  OBVIOUS
<1>1. PICK m \in S : \A p \in S : m <= p
  BY LeastIsIn
<1>. HIDE DEF S
<1>2. m \in Nat /\ m \notin B /\ m # 0
  BY DEF S
<1>3. m - 1 \in Nat /\ ~ (m <= m - 1) /\ (m - 1) + 1 = m
  BY <1>2
<1>4. m - 1 \in B
  BY <1>1, <1>3 DEF S
<1>. QED
  BY <1>2, <1>3, <1>4

LEMMA MaxIsIn ==
  ASSUME NEW n \in Nat, NEW x \in SUBSET (1 .. n), x # {} PROVE Max(x) \in x
<1>. DEFINE S == {k \in Nat : \A y \in x : y <= k}
<1>1. n \in S
  OBVIOUS
<1>2. PICK m \in S : \A p \in S : m <= p
  BY <1>1, LeastIsIn
<1>3. m \in x
  <2>. SUFFICES ASSUME m \notin x PROVE FALSE
    OBVIOUS
  <2>1. \A y \in x : y \in Nat /\ y > 0 /\ y <= m - 1
    OBVIOUS
  <2>0. PICK y : y \in x
    OBVIOUS
  <2>2. m - 1 \in Nat /\ ~ (m <= m - 1)
    BY <2>0, <2>1
  <2>3. m - 1 \in S
    BY <2>1, <2>2
  <2>. QED
    BY <1>2, <2>2, <2>3
<1>. QED
  BY <1>3 DEF Max

\* The function that the fold of SeedDay is a value of.
DayOf(ws, modes, bed, g, x) ==
  IF x = {} THEN {} ELSE AddWindow(g[x \ {Max(x)}], ws[Max(x)], modes, bed)
Folds(ws, modes, bed, g) == g = [x \in SUBSET DOMAIN ws |-> DayOf(ws, modes, bed, g, x)]

LEMMA SeedDayIs ==
  ASSUME NEW ws, NEW modes, NEW bed
  PROVE  SeedDay(ws, modes, bed) = (CHOOSE g : Folds(ws, modes, bed, g))[DOMAIN ws]
  BY DEF SeedDay, FoldLeft, MapThenFoldSet, Folds, DayOf

LEMMA WindowsFinite ==
  ASSUME NEW n \in Nat
  PROVE  \A x \in SUBSET (1 .. n) :
           IsFiniteSet(x) /\ Cardinality(x) \in Nat /\ Cardinality(x) <= Cardinality(1 .. n)
<1>1. IsFiniteSet(1 .. n)
  BY FS_Interval
<1>. QED
  BY <1>1, FS_Subset, FS_CardinalityType

\* Taking the last window from a set of windows.
LEMMA OneLess ==
  ASSUME NEW n \in Nat, NEW x \in SUBSET (1 .. n), x # {},
         NEW k \in Nat, Cardinality(x) <= k + 1
  PROVE  x \ {Max(x)} \in SUBSET (1 .. n) /\ Cardinality(x \ {Max(x)}) <= k
<1>1. IsFiniteSet(x) /\ Max(x) \in x
  BY WindowsFinite, MaxIsIn
<1>2. /\ IsFiniteSet(x \ {Max(x)})
      /\ Cardinality(x \ {Max(x)}) = Cardinality(x) - 1
  BY <1>1, FS_RemoveElement
<1>3. Cardinality(x) \in Nat
  BY <1>1, FS_CardinalityType
<1>4. Cardinality(x) - 1 <= k
  BY <1>3
<1>. QED
  BY <1>2, <1>4

LEMMA FoldExists ==
  ASSUME NEW ws, NEW n \in Nat, DOMAIN ws = 1 .. n, NEW modes, NEW bed
  PROVE  \E g : Folds(ws, modes, bed, g)
<1>. DEFINE D == 1 .. n
            Day(g, x) == DayOf(ws, modes, bed, g, x)
            Upto(k, g) == /\ g = [x \in SUBSET D |-> g[x]]
                          /\ \A x \in SUBSET D : Cardinality(x) <= k => g[x] = Day(g, x)
            B == {k \in Nat : \E g : Upto(k, g)}
<1>0. \A x \in SUBSET D :
        IsFiniteSet(x) /\ Cardinality(x) \in Nat /\ Cardinality(x) <= Cardinality(D)
  BY WindowsFinite
<1>e. \A g : Day(g, {}) = {}
  BY DEF DayOf
<1>1. 0 \in B
  <2>. DEFINE g == [x \in SUBSET D |-> {}]
  <2>1. ASSUME NEW x \in SUBSET D, Cardinality(x) <= 0 PROVE g[x] = Day(g, x)
    <3>1. x = {}
      BY <1>0, <2>1, FS_EmptySet
    <3>. QED
      BY <3>1, <1>e
  <2>. QED
    BY <2>1
<1>2. ASSUME NEW k \in Nat, k \in B PROVE k + 1 \in B
  <2>1. PICK g : Upto(k, g)
    BY <1>2
  <2>. DEFINE h == [x \in SUBSET D |-> Day(g, x)]
  <2>2. \A x \in SUBSET D : Cardinality(x) <= k => h[x] = g[x]
    BY <2>1
  <2>3. ASSUME NEW x \in SUBSET D, Cardinality(x) <= k + 1 PROVE h[x] = Day(h, x)
    <3>1. CASE x = {}
      BY <3>1, <1>e
    <3>2. CASE x # {}
      <4>1. x \ {Max(x)} \in SUBSET D /\ Cardinality(x \ {Max(x)}) <= k
        BY <2>3, <3>2, OneLess
      <4>2. h[x \ {Max(x)}] = g[x \ {Max(x)}]
        BY <2>2, <4>1
      <4>. HIDE DEF h
      <4>3. Day(h, x) = Day(g, x)
        BY <3>2, <4>2 DEF DayOf
      <4>. QED
        BY <4>3 DEF h
    <3>. QED
      BY <3>1, <3>2
  <2>4. Upto(k + 1, h)
    BY <2>3
  <2>. HIDE DEF h, Upto
  <2>5. \E f : Upto(k + 1, f)
    BY <2>4
  <2>. QED
    BY <2>5
<1>3. \A k \in Nat : k \in B
  <2>. HIDE DEF B
  <2>. QED
    BY <1>1, <1>2, Reach
<1>4. PICK g : Upto(Cardinality(D), g)
  BY <1>0, <1>3
<1>5. g = [x \in SUBSET D |-> Day(g, x)]
  BY <1>0, <1>4
<1>. QED
  BY <1>5 DEF Folds

\* The days that the loop goes through.
Fits(blocks, modes, bed) == DayOK(blocks, bed) /\ \A b \in blocks : b.mode \in modes

LEMMA AddFits ==
  ASSUME NEW blocks, NEW w, NEW modes, NEW bed, Fits(blocks, modes, bed)
  PROVE  Fits(AddWindow(blocks, w, modes, bed), modes, bed)
<1>. DEFINE day == AddWindow(blocks, w, modes, bed)
<1>1. CASE day = blocks
  BY <1>1
<1>2. CASE day # blocks
  <2>1. PICK s, d : /\ day = blocks \cup {Block(s, d, w.mode)}
                    /\ DayOK(day, bed) /\ w.mode \in modes
    BY <1>2 DEF AddWindow, Place, Block
  <2>2. Block(s, d, w.mode).mode = w.mode
    BY DEF Block
  <2>. QED
    BY <2>1, <2>2 DEF Fits
<1>. QED
  BY <1>1, <1>2

LEMMA SeedFits ==
  ASSUME NEW ws, NEW n \in Nat, DOMAIN ws = 1 .. n, NEW modes, NEW bed, BedOK(bed)
  PROVE  Fits(SeedDay(ws, modes, bed), modes, bed)
<1>. DEFINE D == 1 .. n
<1>1. PICK g : g = (CHOOSE f : Folds(ws, modes, bed, f)) /\ Folds(ws, modes, bed, g)
  BY FoldExists
<1>2. \A x \in SUBSET D : g[x] = DayOf(ws, modes, bed, g, x)
  BY <1>1 DEF Folds
<1>. DEFINE B == {k \in Nat : \A x \in SUBSET D : Cardinality(x) <= k => Fits(g[x], modes, bed)}
<1>0. \A x \in SUBSET D : IsFiniteSet(x) /\ Cardinality(x) \in Nat
  BY WindowsFinite
<1>3. Fits({}, modes, bed)
  BY DEF Fits, DayOK
<1>4. 0 \in B
  <2>1. ASSUME NEW x \in SUBSET D, Cardinality(x) <= 0 PROVE Fits(g[x], modes, bed)
    <3>1. x = {}
      BY <1>0, <2>1, FS_EmptySet
    <3>2. g[x] = {}
      BY <1>2, <3>1 DEF DayOf
    <3>. QED
      BY <1>3, <3>2
  <2>. QED
    BY <2>1
<1>5. ASSUME NEW k \in Nat, k \in B PROVE k + 1 \in B
  <2>1. ASSUME NEW x \in SUBSET D, Cardinality(x) <= k + 1 PROVE Fits(g[x], modes, bed)
    <3>1. CASE x = {}
      <4>1. g[x] = {}
        BY <1>2, <3>1 DEF DayOf
      <4>. QED
        BY <1>3, <4>1
    <3>2. CASE x # {}
      <4>1. x \ {Max(x)} \in SUBSET D /\ Cardinality(x \ {Max(x)}) <= k
        BY <2>1, <3>2, OneLess
      <4>2. Fits(g[x \ {Max(x)}], modes, bed)
        BY <1>5, <4>1
      <4>3. g[x] = AddWindow(g[x \ {Max(x)}], ws[Max(x)], modes, bed)
        BY <1>2, <3>2 DEF DayOf
      <4>. QED
        BY <4>2, <4>3, AddFits
    <3>. QED
      BY <3>1, <3>2
  <2>. QED
    BY <2>1
<1>6. \A k \in Nat : k \in B
  <2>. HIDE DEF B
  <2>. QED
    BY <1>4, <1>5, Reach
<1>7. Cardinality(D) \in B /\ Cardinality(D) \in Nat /\ D \in SUBSET D
  BY <1>0, <1>6
<1>8. Fits(g[D], modes, bed)
  BY <1>7
<1>. QED
  BY <1>1, <1>8, SeedDayIs

\* The first look is valid, whatever the hours, modes and windows of the config
\* (Seed, seedSchedule, placeWithoutOverlap, bedtimeFromConfig).
THEOREM SeedIsValid == ASSUME NEW c \in Configs PROVE Valid(SeedLook(c))
<1>. DEFINE bed == SeedBed(c.out, c.wake)
            modes == c.modes \cup {Freetime}
            blocks == SeedDay(c.windows, modes, bed)
<1>1. BedOK(bed)
  <2>1. c.out \in Units /\ c.wake \in Units
    BY PolicyAssumption
  <2>2. NightBetween(c.out, c.wake) \in 1 .. DayLen
    BY <2>1, ScheduleAssumption DEF Units, NightBetween
  <2>. QED
    BY <2>1, <2>2, ScheduleAssumption DEF SeedBed, Bed, BedOK
<1>2. DOMAIN c.windows = 1 .. Len(c.windows) /\ Len(c.windows) \in Nat
  BY PolicyAssumption
<1>. HIDE DEF bed, modes
<1>3. Fits(blocks, modes, bed)
  BY <1>1, <1>2, SeedFits
<1>. HIDE DEF blocks
<1>4. SeedLook(c) = [ver |-> 2, modes |-> modes, more |-> {}, blocks |-> blocks,
                     bed |-> bed, sticky |-> FALSE, fun |-> 1, play |-> DefaultPlay,
                     things |-> {}, match |-> {}]
  BY DEF SeedLook, bed, modes, blocks
<1>5. Freetime \in modes
  BY DEF modes
<1>. QED
  BY <1>3, <1>4, <1>5 DEF Valid, Fits

-----------------------------------------------------------------------------
(* Documents                                                               *)

LEMMA SoundIsALook == ASSUME NEW d, DOMAIN d = DocFields PROVE d # NoLook
  BY DEF NoLook, DocFields

LEMMA KnownModes ==
  /\ Freetime \in Modes
  /\ \A c \in Configs : c.modes \subseteq Modes
  /\ \A d \in Puts \cup Olds : d.modes \subseteq Modes
<1>1. \A x : x \in Modes <=> \/ x \in UNION {c.modes : c \in Configs}
                             \/ x \in UNION {d.modes : d \in Puts \cup Olds}
                             \/ x = Freetime
  BY DEF Modes
<1>2. \A c \in Configs : c.modes \subseteq UNION {e.modes : e \in Configs}
  OBVIOUS
<1>3. \A d \in Puts \cup Olds : d.modes \subseteq UNION {e.modes : e \in Puts \cup Olds}
  OBVIOUS
<1>. QED
  BY <1>1, <1>2, <1>3, Zenon

LEMMA AdoptSound ==
  ASSUME NEW d, Sound(d) PROVE Adopt(d) = d /\ Adoptable(d)
<1>1. d.modes \cup {Freetime} = d.modes
  BY DEF Sound, Whole, Valid
<1>2. ~ (d.ver < 2) /\ d.play # 0 /\ DOMAIN d = DocFields
  BY DEF Sound, Whole
<1>3. \A f \in DocFields : Adopt(d)[f] = d[f]
  BY <1>1, <1>2 DEF Adopt, DocFields
<1>4. Adopt(d) = d
  <2>1. Adopt(d) = [f \in DocFields |-> Adopt(d)[f]]
    BY <1>2 DEF Adopt
  <2>. QED
    BY <1>3, <2>1 DEF Sound
<1>. QED
  BY <1>4 DEF Sound, Whole, Adoptable

LEMMA AdoptedSound ==
  ASSUME NEW d, Adoptable(d) PROVE Sound(Adopt(d))
<1>1. /\ DOMAIN Adopt(d) = DocFields
      /\ Adopt(d).ver = IF d.ver < 2 THEN 2 ELSE d.ver
      /\ Adopt(d).play = IF d.play = 0 THEN DefaultPlay ELSE d.play
  BY DEF Adopt, Adoptable, DocFields
<1>2. Adopt(d) = [f \in DocFields |-> Adopt(d)[f]]
  BY DEF Adopt, Adoptable
<1>3. Kind(Adopt(d))
  <2>1. /\ Adopt(d).modes = d.modes \cup {Freetime}
        /\ Adopt(d).things = IF d.ver < 2 THEN {} ELSE d.things
        /\ Adopt(d).sticky = d.sticky /\ Adopt(d).fun = d.fun
    BY DEF Adopt, Adoptable, DocFields
  <2>. QED
    BY <1>1, <2>1, KnownModes DEF Kind, Adoptable, DefaultPlay
<1>. QED
  BY <1>1, <1>2, <1>3 DEF Adoptable, Sound, Whole, DefaultPlay

-----------------------------------------------------------------------------
(* Steps of a method                                                       *)

\* What a method may write into the rows.
GoodSteps(steps) ==
  /\ Len(steps) \in 0..4
  /\ DOMAIN steps = 1..Len(steps)
  /\ \A j \in 1..Len(steps) :
       IF steps[j][1] = "look" THEN Sound(steps[j][2]) ELSE RowOK(steps[j][1], steps[j][2])

LEMMA EmptyRows == RowsOK(Empty)
<1>1. /\ Empty["lock"] = FALSE /\ Empty["mode"] = "" /\ Empty["until"] = ""
      /\ Empty["bedLock"] = "none" /\ Empty["hour12"] = "none"
  BY DEF Empty
<1>2. Fields \ {"look"} = {"lock", "mode", "until", "bedLock", "hour12"}
  BY DEF Fields
<1>. QED
  BY <1>1, <1>2 DEF RowsOK, RowOK

\* The look after some of the steps is the one before or one that they write.
LEMMA AfterLook ==
  ASSUME NEW rec, NEW steps, GoodSteps(steps), NEW k \in 0..Len(steps)
  PROVE  After(rec, steps, k).look = rec.look \/ Sound(After(rec, steps, k).look)
<1>. DEFINE js == {j \in 1..k : steps[j][1] = "look"}
<1>1. After(rec, steps, k).look =
        IF js = {} THEN rec.look ELSE steps[CHOOSE j \in js : \A i \in js : i <= j][2]
  BY DEF After, Fields
<1>2. CASE js = {}
  BY <1>1, <1>2
<1>3. CASE js # {}
  <2>1. k \in 0..4 /\ js \subseteq 1..4
    BY DEF GoodSteps
  <2>2. \E j \in js : \A i \in js : i <= j
    BY <1>3, <2>1
  <2>3. (CHOOSE j \in js : \A i \in js : i <= j) \in js
    BY <2>2
  <2>4. Sound(steps[CHOOSE j \in js : \A i \in js : i <= j][2])
    BY <2>3 DEF GoodSteps
  <2>. QED
    BY <1>1, <1>3, <2>4
<1>. QED
  BY <1>2, <1>3

LEMMA AfterRows ==
  ASSUME NEW rec, RowsOK(rec), NEW steps, GoodSteps(steps), NEW k \in 0..Len(steps)
  PROVE  RowsOK(After(rec, steps, k))
<1>. SUFFICES ASSUME NEW f \in Fields \ {"look"} PROVE RowOK(f, After(rec, steps, k)[f])
  BY DEF RowsOK
<1>. DEFINE js == {j \in 1..k : steps[j][1] = f}
<1>1. After(rec, steps, k)[f] =
        IF js = {} THEN rec[f] ELSE steps[CHOOSE j \in js : \A i \in js : i <= j][2]
  BY DEF After
<1>2. CASE js = {}
  BY <1>1, <1>2 DEF RowsOK
<1>3. CASE js # {}
  <2>1. k \in 0..4 /\ js \subseteq 1..4
    BY DEF GoodSteps
  <2>2. \E j \in js : \A i \in js : i <= j
    BY <1>3, <2>1
  <2>3. (CHOOSE j \in js : \A i \in js : i <= j) \in js
    BY <2>2
  <2>4. \A j \in js : RowOK(f, steps[j][2])
    BY DEF GoodSteps
  <2>. QED
    BY <1>1, <1>3, <2>3, <2>4
<1>. QED
  BY <1>2, <1>3

\* The rows that a method does not write are as they were.
LEMMA AfterOthers ==
  ASSUME NEW rec, NEW steps, GoodSteps(steps), NEW k \in 0..Len(steps),
         NEW f \in Fields, f \notin Sets(steps)
  PROVE  After(rec, steps, k)[f] = rec[f]
<1>1. 1..k \subseteq DOMAIN steps
  BY DEF GoodSteps
<1>2. {j \in 1..k : steps[j][1] = f} = {}
  BY <1>1 DEF Sets
<1>. QED
  BY <1>2 DEF After

\* What was promised of other fields stays, and what an ok promises is so.
LEMMA RunAcks ==
  ASSUME IInv, up = "up", NEW steps, GoodSteps(steps), NEW fields \in SUBSET Fields, NEW end,
         Run(steps, fields, end), up' = "up" => Sound(mem'.look)
  PROVE  Acks'
<1>1. Len(steps) \in 0..Len(steps) /\ Len(steps) \in Nat
  BY DEF GoodSteps
<1>2. ASSUME NEW k \in 0..Len(steps), disk' = After(disk, steps, k), fails = 0
      PROVE  \A p \in Forget(fields \cup Sets(steps)) :
               /\ p[1] \in Fields /\ disk'[p[1]] = p[2]
               /\ p[1] = "look" => Sound(disk'.look)
  <2>. TAKE p \in Forget(fields \cup Sets(steps))
  <2>1. p \in acked /\ p[1] \notin Sets(steps)
    BY DEF Forget
  <2>2. /\ p[1] \in Fields /\ disk[p[1]] = p[2]
        /\ p[1] = "look" => Sound(disk.look)
    BY <1>2, <2>1 DEF IInv, Acks
  <2>3. disk'[p[1]] = disk[p[1]]
    BY <1>2, <2>1, <2>2, AfterOthers
  <2>. QED
    BY <2>2, <2>3
<1>3. CASE /\ mem' = After(mem, steps, Len(steps))
           /\ disk' = After(disk, steps, Len(steps))
           /\ UNCHANGED <<up, stops, fails>>
  <2>. SUFFICES ASSUME fails = 0 PROVE Acks'
    BY <1>3 DEF Acks
  <2>1. \A f \in Fields : mem'[f] = disk'[f]
    BY <1>3 DEF After, IInv, Acks
  <2>2. \A p \in Promise(mem', fields) :
          /\ p[1] \in Fields /\ disk'[p[1]] = p[2]
          /\ p[1] = "look" => Sound(disk'.look)
    <3>. TAKE p \in Promise(mem', fields)
    <3>1. PICK f \in fields : p = <<f, mem'[f]>>
      BY DEF Promise
    <3>2. p[1] = f /\ p[2] = mem'[f] /\ f \in Fields
      BY <3>1
    <3>3. "look" \in Fields
      BY DEF Fields
    <3>. QED
      BY <1>3, <2>1, <3>2, <3>3
  <2>3. acked' \subseteq Forget(fields \cup Sets(steps)) \cup Promise(mem', fields)
    BY DEF Run
  <2>. QED
    BY <1>1, <1>2, <1>3, <2>1, <2>2, <2>3 DEF Acks
<1>4. CASE fails' = fails + 1
  BY <1>4 DEF IInv, Acks
<1>5. CASE /\ \E k \in 0..Len(steps) : disk' = After(disk, steps, k)
           /\ up' = "down" /\ answer' = "none" /\ UNCHANGED fails
  <2>1. acked' = Forget(fields \cup Sets(steps))
    BY <1>5 DEF Run
  <2>. QED
    BY <1>2, <1>5, <2>1 DEF Acks
<1>. QED
  BY <1>3, <1>4, <1>5 DEF Run

\* Whatever becomes of a method that writes such steps, the invariant holds.
LEMMA RunKeeps ==
  ASSUME IInv, up = "up", NEW steps, GoodSteps(steps), NEW fields \in SUBSET Fields, NEW end,
         Run(steps, fields, end)
  PROVE  IInv'
<1>1. Sound(mem.look)
  BY DEF IInv
<1>2. Len(steps) \in 0..Len(steps) /\ Len(steps) \in Nat
  BY DEF GoodSteps
<1>3. ASSUME NEW k \in 0..Len(steps)
      PROVE  Sound(After(mem, steps, k).look)
  BY <1>1, <1>3, AfterLook
<1>d. \A rec, k : DOMAIN After(rec, steps, k) = Fields
  BY DEF After
<1>e. DOMAIN mem = Fields /\ DOMAIN disk = Fields /\ DOMAIN Empty = Fields
  BY DEF IInv, Empty, Fields
<1>4. ASSUME NEW k \in 0..Len(steps), disk' = After(disk, steps, k)
      PROVE  disk'.look # NoLook => Adoptable(disk'.look)
  <2>1. CASE disk'.look = disk.look
    BY <2>1 DEF IInv
  <2>2. CASE Sound(disk'.look)
    BY <2>2, AdoptSound
  <2>. QED
    BY <1>4, <2>1, <2>2, AfterLook
<1>f. fails' \in Nat
  BY DEF Run, IInv
<1>g. ASSUME up' = "up" => Sound(mem'.look) PROVE Acks'
  BY <1>g, RunAcks
<1>h. /\ \A k \in 0..Len(steps) : RowsOK(After(mem, steps, k)) /\ RowsOK(After(disk, steps, k))
      /\ RowsOK(Empty)
  BY AfterRows, EmptyRows DEF IInv
<1>5. CASE /\ mem' = After(mem, steps, Len(steps))
           /\ disk' = After(disk, steps, Len(steps))
           /\ UNCHANGED up
  <2>1. Sound(mem'.look)
    BY <1>2, <1>3, <1>5
  <2>2. DOMAIN mem' = Fields /\ DOMAIN disk' = Fields /\ RowsOK(mem') /\ RowsOK(disk')
    BY <1>2, <1>5, <1>d, <1>h
  <2>3. disk'.look # NoLook => Adoptable(disk'.look)
    BY <1>2, <1>4, <1>5
  <2>. QED
    BY <1>5, <1>f, <1>g, <2>1, <2>2, <2>3 DEF IInv
<1>6. CASE /\ \E k \in DOMAIN steps : /\ mem' = After(mem, steps, k)
                                      /\ disk' = After(disk, steps, k - 1)
           /\ UNCHANGED up
  <2>1. PICK k \in 1..Len(steps) : /\ mem' = After(mem, steps, k)
                                   /\ disk' = After(disk, steps, k - 1)
    BY <1>6 DEF GoodSteps
  <2>2. k \in 0..Len(steps) /\ k - 1 \in 0..Len(steps)
    BY <1>2
  <2>3. Sound(mem'.look)
    BY <1>3, <2>1, <2>2
  <2>4. DOMAIN mem' = Fields /\ DOMAIN disk' = Fields /\ RowsOK(mem') /\ RowsOK(disk')
    BY <1>d, <1>h, <2>1, <2>2
  <2>5. disk'.look # NoLook => Adoptable(disk'.look)
    BY <1>4, <2>1, <2>2
  <2>. QED
    BY <1>6, <1>f, <1>g, <2>3, <2>4, <2>5 DEF IInv
<1>7. CASE (\E k \in 0..Len(steps) : disk' = After(disk, steps, k))
           /\ up' = "down" /\ mem' = Empty
  <2>1. DOMAIN mem' = Fields /\ DOMAIN disk' = Fields /\ RowsOK(mem') /\ RowsOK(disk')
    BY <1>7, <1>d, <1>e, <1>h
  <2>2. disk'.look # NoLook => Adoptable(disk'.look)
    BY <1>4, <1>7
  <2>. QED
    BY <1>7, <1>f, <1>g, <2>1, <2>2 DEF IInv
<1>. QED
  BY <1>5, <1>6, <1>7 DEF Run

LEMMA RefuseNone == ASSUME IInv, up = "up", Refuse(<<>>) PROVE IInv'
<1>1. GoodSteps(<<>>)
  BY DEF GoodSteps
<1>. QED
  BY <1>1, RunKeeps DEF Refuse

LEMMA PutGood ==
  ASSUME Sound(mem.look), NEW d, Whole(d) PROVE GoodSteps(PutStep(d))
<1>1. Sound([d EXCEPT !.ver = mem.look.ver + 1])
  BY DEF Sound, Whole, Valid, Kind, DocFields
<1>. QED
  BY <1>1 DEF PutStep, GoodSteps

\* A put, or nothing, and then at most three rows of other fields.
Rows(steps) ==
  /\ Len(steps) \in 0..3
  /\ DOMAIN steps = 1..Len(steps)
  /\ \A j \in 1..Len(steps) : steps[j][1] # "look" /\ RowOK(steps[j][1], steps[j][2])

LEMMA ThenRows ==
  ASSUME Sound(mem.look),
         NEW s, s = <<>> \/ (\E d : Whole(d) /\ s = PutStep(d)),
         NEW t, NEW T, t \in Seq(T), Rows(t)
  PROVE  GoodSteps(s \o t)
<1>1. GoodSteps(s) /\ Len(s) \in 0..1
  <2>1. CASE s = <<>>
    BY <2>1 DEF GoodSteps
  <2>2. ASSUME NEW d, Whole(d), s = PutStep(d)
        PROVE  GoodSteps(s) /\ Len(s) \in 0..1
    BY <2>2, PutGood DEF PutStep
  <2>. QED
    BY <2>1, <2>2
<1>2. PICK S : s \in Seq(S) /\ t \in Seq(S)
  <2>1. CASE s = <<>>
    BY <2>1
  <2>2. CASE s # <<>>
    <3>1. PICK x : s = <<x>>
      BY <2>2 DEF PutStep
    <3>2. s \in Seq({x} \cup T) /\ t \in Seq({x} \cup T)
      BY <3>1, SeqMonotonic
    <3>. QED
      BY <3>2
  <2>. QED
    BY <2>1, <2>2
<1>3. /\ s \o t \in Seq(S) /\ Len(s \o t) = Len(s) + Len(t)
      /\ \A j \in 1..Len(s) : (s \o t)[j] = s[j]
      /\ \A j \in 1..Len(t) : (s \o t)[Len(s) + j] = t[j]
  BY <1>2
<1>4. Len(s) \in 0..1 /\ Len(t) \in 0..3
  BY <1>1 DEF Rows
<1>5. DOMAIN (s \o t) = 1..Len(s \o t)
  BY <1>3
<1>. DEFINE Good(x) == IF x[1] = "look" THEN Sound(x[2]) ELSE RowOK(x[1], x[2])
<1>6. ASSUME NEW j \in 1..Len(s \o t) PROVE Good((s \o t)[j])
  <2>1. CASE j \in 1..Len(s)
    BY <1>1, <1>3, <1>6, <2>1 DEF GoodSteps
  <2>2. CASE j \notin 1..Len(s)
    <3>1. j - Len(s) \in 1..Len(t) /\ Len(s) + (j - Len(s)) = j
      BY <1>3, <1>4, <2>2
    <3>2. (s \o t)[j] = t[j - Len(s)]
      BY <1>3, <3>1
    <3>. QED
      BY <1>6, <3>1, <3>2 DEF Rows
  <2>. QED
    BY <2>1, <2>2
<1>7. Len(s \o t) \in 0..4
  <2>1. \A m \in 0..1, n \in 0..3 : m + n \in 0..4
    OBVIOUS
  <2>2. Len(s \o t) = Len(s) + Len(t)
    BY <1>3
  <2>. QED
    BY <1>4, <2>1, <2>2, Zenon
<1>. QED
  BY <1>5, <1>6, <1>7 DEF GoodSteps

LEMMA NoRows == Rows(<<>>) /\ \A T : <<>> \in Seq(T)
  BY DEF Rows

LEMMA OneRow ==
  ASSUME NEW f, f # "look", NEW v, RowOK(f, v)
  PROVE  Rows(<<<<f, v>>>>) /\ <<<<f, v>>>> \in Seq({<<f, v>>})
<1>. DEFINE t == <<<<f, v>>>>
<1>1. Len(t) = 1 /\ DOMAIN t = 1..1 /\ t[1] = <<f, v>>
  OBVIOUS
<1>2. \A j \in 1..1 : t[j][1] # "look" /\ RowOK(t[j][1], t[j][2])
  BY <1>1
<1>. QED
  BY <1>1, <1>2 DEF Rows

LEMMA TwoRows ==
  ASSUME NEW f, f # "look", NEW v, RowOK(f, v), NEW g, g # "look", NEW w, RowOK(g, w)
  PROVE  /\ Rows(<<<<f, v>>, <<g, w>>>>)
         /\ <<<<f, v>>, <<g, w>>>> \in Seq({<<f, v>>, <<g, w>>})
<1>. DEFINE t == <<<<f, v>>, <<g, w>>>>
<1>1. Len(t) = 2 /\ DOMAIN t = 1..2 /\ t[1] = <<f, v>> /\ t[2] = <<g, w>>
  OBVIOUS
<1>2. \A j \in 1..2 : t[j][1] # "look" /\ RowOK(t[j][1], t[j][2])
  BY <1>1
<1>. QED
  BY <1>1, <1>2 DEF Rows

LEMMA ThreeRows ==
  ASSUME NEW f, f # "look", NEW v, RowOK(f, v), NEW g, g # "look", NEW w, RowOK(g, w),
         NEW h, h # "look", NEW x, RowOK(h, x)
  PROVE  /\ Rows(<<<<f, v>>, <<g, w>>, <<h, x>>>>)
         /\ <<<<f, v>>, <<g, w>>, <<h, x>>>> \in Seq({<<f, v>>, <<g, w>>, <<h, x>>})
<1>. DEFINE t == <<<<f, v>>, <<g, w>>, <<h, x>>>>
<1>1. /\ Len(t) = 3 /\ DOMAIN t = 1..3
      /\ t[1] = <<f, v>> /\ t[2] = <<g, w>> /\ t[3] = <<h, x>>
  OBVIOUS
<1>2. \A j \in 1..3 : t[j][1] # "look" /\ RowOK(t[j][1], t[j][2])
  BY <1>1
<1>. QED
  BY <1>1, <1>2 DEF Rows

LEMMA RowsGood == ASSUME NEW t, Rows(t) PROVE GoodSteps(t)
  BY DEF Rows, GoodSteps

LEMMA StickyGood ==
  ASSUME Sound(mem.look), NEW on \in BOOLEAN
  PROVE  /\ Sticky(on) = <<>> \/ \E d : Whole(d) /\ Sticky(on) = PutStep(d)
         /\ GoodSteps(Sticky(on))
<1>1. Whole([mem.look EXCEPT !.sticky = on])
  BY DEF Sound, Whole, Valid, Kind, DocFields
<1>2. CASE Sticky(on) = <<>>
  BY <1>2 DEF GoodSteps
<1>3. CASE Sticky(on) = PutStep([mem.look EXCEPT !.sticky = on])
  BY <1>1, <1>3, PutGood
<1>. QED
  BY <1>1, <1>2, <1>3, NoRows DEF Sticky

-----------------------------------------------------------------------------
(* The methods                                                             *)

LEMMA RowMethods ==
  ASSUME IInv,
         \/ \E on \in BOOLEAN : SetParentLock(on)
         \/ \E clock \in {"12", "24"} : SetHour12(clock)
  PROVE  IInv'
<1>1. ASSUME NEW on \in BOOLEAN, SetParentLock(on) PROVE IInv'
  <2>. DEFINE steps == IF mem.lock = on THEN <<>> ELSE <<<<"lock", on>>>>
  <2>1. Rows(steps)
    BY NoRows, OneRow DEF RowOK
  <2>2. up = "up" /\ Run(steps, {"lock"}, "ok")
    BY <1>1 DEF SetParentLock, Call, Do
  <2>. QED
    BY <2>1, <2>2, RowsGood, RunKeeps DEF Fields
<1>2. ASSUME NEW clock \in {"12", "24"}, SetHour12(clock) PROVE IInv'
  <2>. DEFINE steps == <<<<"hour12", clock>>>>
  <2>1. Rows(steps)
    BY OneRow DEF RowOK
  <2>2. up = "up" /\ Run(steps, {"hour12"}, "ok")
    BY <1>2 DEF SetHour12, Call, Do
  <2>. QED
    BY <2>1, <2>2, RowsGood, RunKeeps DEF Fields
<1>. QED
  BY <1>1, <1>2

LEMMA BedtimeMethod ==
  ASSUME IInv, NEW out, NEW wake, NEW lock \in {"none", "on"},
         SetBedtime(out, wake, lock)
  PROVE  IInv'
<1>. DEFINE bed == Bed(out, NightBetween(out, wake))
            d == [mem.look EXCEPT !.bed = bed]
            t == IF lock = "none" THEN <<>> ELSE <<<<"bedLock", lock>>>>
            fields == {"look"} \cup (IF lock = "none" THEN {} ELSE {"bedLock"})
<1>1. up = "up" /\ IF bed.dur >= MinNight /\ Valid(d)
                     THEN Run(PutStep(d) \o t, fields, "ok") ELSE Refuse(<<>>)
  BY DEF SetBedtime, Call, Do
<1>2. CASE bed.dur >= MinNight /\ Valid(d)
  <2>0. Sound(mem.look)
    BY <1>1 DEF IInv
  <2>1. Whole(d)
    BY <1>2, <2>0 DEF Sound, Whole, Kind, DocFields
  <2>2. Rows(t) /\ t \in Seq({<<"bedLock", lock>>})
    BY NoRows, OneRow DEF RowOK
  <2>3. GoodSteps(PutStep(d) \o t)
    <3>. HIDE DEF d, t
    <3>. QED
      BY <2>0, <2>1, <2>2, ThenRows
  <2>. QED
    BY <1>1, <1>2, <2>3, RunKeeps DEF Fields
<1>3. CASE ~ (bed.dur >= MinNight /\ Valid(d))
  BY <1>1, <1>3, RefuseNone
<1>. QED
  BY <1>2, <1>3

LEMMA MinutesMethod ==
  ASSUME IInv, NEW mode, NEW more \in BOOLEAN, SetModeMinutes(mode, more)
  PROVE  IInv'
<1>. DEFINE d == [mem.look EXCEPT !.more = IF more THEN @ \cup {mode} ELSE @ \ {mode}]
<1>1. up = "up" /\ IF mode \in mem.look.modes \ {Freetime}
                     THEN Run(PutStep(d), {"look"}, "ok") ELSE Refuse(<<>>)
  BY DEF SetModeMinutes, Call, Do
<1>2. CASE mode \in mem.look.modes \ {Freetime}
  <2>1. Sound(mem.look)
    BY <1>1 DEF IInv
  <2>2. Whole(d)
    BY <1>2, <2>1 DEF Sound, Whole, Valid, Kind, DocFields
  <2>. QED
    BY <1>1, <1>2, <2>1, <2>2, PutGood, RunKeeps DEF Fields
<1>3. CASE mode \notin mem.look.modes \ {Freetime}
  BY <1>1, <1>3, RefuseNone
<1>. QED
  BY <1>2, <1>3

LEMMA ModeMethods ==
  ASSUME IInv,
         \/ Resume \/ StickyMode
         \/ \E id : ForMode(id) \/ \E next \in BOOLEAN : NextMode(id, next)
  PROVE  IInv'
<1>1. up = "up" /\ Sound(mem.look)
  BY DEF IInv, Resume, StickyMode, ForMode, NextMode, Call
<1>2. ASSUME NEW on \in BOOLEAN, NEW t, NEW T, t \in Seq(T), Rows(t)
      PROVE  GoodSteps(Sticky(on) \o t)
  BY <1>1, <1>2, StickyGood, ThenRows
<1>3. ASSUME Resume PROVE IInv'
  <2>. DEFINE t == <<<<"until", "">>, <<"mode", "">>>>
  <2>1. Rows(t) /\ t \in Seq({<<"until", "">>, <<"mode", "">>})
    BY TwoRows, KnownModes DEF RowOK
  <2>2. GoodSteps(Sticky(FALSE) \o t)
    BY <1>2, <2>1
  <2>3. Run(Sticky(FALSE) \o t, {"look", "until", "mode"}, "ok")
    BY <1>3 DEF Resume, Do
  <2>. QED
    BY <1>1, <2>2, <2>3, RunKeeps DEF Fields
<1>4. ASSUME StickyMode PROVE IInv'
  <2>. DEFINE t == <<<<"mode", Freetime>>, <<"until", "">>>>
  <2>1. Rows(t) /\ t \in Seq({<<"mode", Freetime>>, <<"until", "">>})
    BY TwoRows, KnownModes DEF RowOK
  <2>2. GoodSteps(Sticky(TRUE) \o t)
    BY <1>2, <2>1
  <2>3. Run(Sticky(TRUE) \o t, {"look", "until", "mode"}, "ok")
    BY <1>4 DEF StickyMode, Do
  <2>. QED
    BY <1>1, <2>2, <2>3, RunKeeps DEF Fields
<1>5. ASSUME NEW id, ForMode(id) PROVE IInv'
  <2>0. GoodSteps(Sticky(FALSE))
    BY <1>1, StickyGood
  <2>. DEFINE t == <<<<"mode", id>>, <<"until", "">>, <<"until", "for">>>>
  <2>1. CASE id \in mem.look.modes
    <3>1. id \in Modes
      BY <1>1, <2>1 DEF Sound, Whole, Kind
    <3>2. Rows(t) /\ t \in Seq({<<"mode", id>>, <<"until", "">>, <<"until", "for">>})
      BY <3>1, ThreeRows DEF RowOK
    <3>3. GoodSteps(Sticky(FALSE) \o t)
      BY <1>2, <3>2
    <3>4. Run(Sticky(FALSE) \o t, {"look", "until", "mode"}, "ok")
      BY <1>5, <2>1 DEF ForMode, Do
    <3>. QED
      BY <1>1, <3>3, <3>4, RunKeeps DEF Fields
  <2>2. CASE id \notin mem.look.modes
    <3>1. Run(Sticky(FALSE), {}, "refused")
      BY <1>5, <2>2 DEF ForMode, Refuse
    <3>. QED
      BY <1>1, <2>0, <3>1, RunKeeps
  <2>. QED
    BY <2>1, <2>2
<1>6. ASSUME NEW id, NEW next \in BOOLEAN, NextMode(id, next) PROVE IInv'
  <2>. DEFINE t == <<<<"mode", id>>, <<"until", "next">>>>
              s == IF next \/ id # Freetime THEN Sticky(FALSE) ELSE <<>>
  <2>0. GoodSteps(s)
    <3>1. GoodSteps(<<>>)
      BY DEF GoodSteps
    <3>. QED
      BY <1>1, <3>1, StickyGood
  <2>1. CASE id \in mem.look.modes
    <3>1. id \in Modes
      BY <1>1, <2>1 DEF Sound, Whole, Kind
    <3>2. Rows(t) /\ t \in Seq({<<"mode", id>>, <<"until", "next">>})
      BY <3>1, TwoRows DEF RowOK
    <3>3. GoodSteps(s \o t)
      <4>1. CASE s = <<>>
        BY <1>1, <3>2, <4>1, ThenRows
      <4>2. CASE s = Sticky(FALSE)
        BY <1>2, <3>2, <4>2
      <4>. QED
        BY <4>1, <4>2
    <3>4. Run(s \o t, {"look", "until", "mode"}, "ok")
      BY <1>6, <2>1 DEF NextMode, Do
    <3>. QED
      BY <1>1, <3>3, <3>4, RunKeeps DEF Fields
  <2>2. CASE id \notin mem.look.modes
    <3>1. Run(s, {}, "refused")
      BY <1>6, <2>2 DEF NextMode, Refuse
    <3>. QED
      BY <1>1, <2>0, <3>1, RunKeeps
  <2>. QED
    BY <2>1, <2>2
<1>. QED
  BY <1>3, <1>4, <1>5, <1>6

LEMMA PutMethod ==
  ASSUME IInv, ReadOK, NEW c \in Clients, NEW d \in Puts, PutWrite(c, d)
  PROVE  IInv'
<1>. DEFINE n == Filled(stored[c], d)
            t == IF mem.mode # "" /\ mem.mode \notin n.modes THEN <<<<"mode", "">>>> ELSE <<>>
<1>1. up = "up"
  BY DEF PutWrite
<1>2. DOMAIN n = DocFields /\ n.play # 0
  BY PolicyAssumption DEF Filled, DocFields, DefaultPlay
<1>k. Kind(n)
  <2>1. Kind(stored[c])
    BY DEF PutWrite, ReadOK
  <2>2. /\ DOMAIN d = DocFields /\ d.sticky \in BOOLEAN /\ d.fun \in Nat /\ d.play \in Nat
        /\ d.things \subseteq Things /\ d.modes \subseteq Modes
    BY PolicyAssumption, KnownModes
  <2>3. /\ n.modes = d.modes /\ n.things = d.things /\ n.sticky = d.sticky
        /\ n.fun \in {d.fun, stored[c].fun}
        /\ n.play \in {d.play, stored[c].play, DefaultPlay}
    BY <2>2 DEF Filled, DocFields
  <2>. QED
    BY <2>1, <2>2, <2>3 DEF Kind, DefaultPlay
<1>3. \/ Refuse(<<>>)
      \/ Run(<<>>, {"look"}, "ok")
      \/ Valid(n) /\ Run(PutStep(n) \o t, {"look"}, "ok")
  BY DEF PutWrite, PutLook, Do
<1>4. GoodSteps(<<>>)
  BY DEF GoodSteps
<1>5. ASSUME Valid(n) PROVE GoodSteps(PutStep(n) \o t)
  <2>1. Rows(t) /\ t \in Seq({<<"mode", "">>})
    BY NoRows, OneRow DEF RowOK
  <2>2. Sound(mem.look) /\ Whole(n)
    BY <1>1, <1>2, <1>k, <1>5 DEF Whole, IInv
  <2>. HIDE DEF n, t
  <2>. QED
    BY <2>1, <2>2, ThenRows
<1>. QED
  BY <1>1, <1>3, <1>4, <1>5, RunKeeps, RefuseNone DEF Fields

LEMMA OpenKeeps ==
  ASSUME OldRowsOpen, IInv, config \in Configs, Open PROVE IInv'
<1>. DEFINE look == IF disk.look = NoLook THEN SeedLook(config) ELSE Adopt(disk.look)
<1>1. Sound(look)
  <2>1. CASE disk.look = NoLook
    <3>. DEFINE seed == SeedLook(config)
    <3>1. DOMAIN seed = DocFields /\ seed.play # 0 /\ seed.ver = 2
      BY DEF SeedLook, DocFields, DefaultPlay
    <3>3. seed = [f \in DOMAIN seed |-> seed[f]]
      BY DEF SeedLook
    <3>2. Valid(seed)
      BY SeedIsValid
    <3>4. Kind(seed)
      BY KnownModes DEF SeedLook, Kind, DefaultPlay
    <3>. QED
      BY <2>1, <3>1, <3>2, <3>3, <3>4 DEF Sound, Whole
  <2>2. CASE disk.look # NoLook
    BY <2>2, AdoptedSound DEF IInv
  <2>. QED
    BY <2>1, <2>2
<1>2. /\ up' = "up"
      /\ mem' = [Load(disk) EXCEPT !.look = look]
      /\ disk' = [disk EXCEPT !.look = look]
  BY <1>1 DEF Open, Sound, Whole
<1>3. DOMAIN mem = Fields /\ DOMAIN disk = Fields
  BY DEF IInv
<1>4. /\ mem'.look = look /\ disk'.look = look
      /\ DOMAIN mem' = Fields /\ DOMAIN disk' = Fields
  BY <1>2, <1>3 DEF Load, Fields
<1>5. Adoptable(look)
  BY <1>1, AdoptSound
\* a look that was promised is the one that is read
<1>6. ASSUME fails = 0, NEW p \in acked, p[1] = "look" PROVE look = disk.look
  <2>1. Sound(disk.look)
    BY <1>6 DEF IInv, Acks
  <2>2. disk.look # NoLook
    BY <2>1, SoundIsALook DEF Sound, Whole
  <2>. QED
    BY <2>1, <2>2, AdoptSound
<1>7. \A f \in Fields \ {"look"} : mem'[f] = disk[f] /\ disk'[f] = disk[f]
  BY <1>2, <1>3 DEF Load
<1>8. Acks'
  <2>. HIDE DEF look
  <2>1. UNCHANGED <<acked, fails>>
    BY DEF Open
  <2>. SUFFICES ASSUME fails = 0 PROVE Acks'
    BY <2>1 DEF Acks
  <2>2. \A f \in Fields : mem'[f] = disk'[f]
    BY <1>4, <1>7
  <2>3. ASSUME NEW p \in acked
        PROVE  /\ p[1] \in Fields /\ disk'[p[1]] = p[2]
               /\ p[1] = "look" => Sound(disk'.look)
    <3>1. p[1] \in Fields /\ disk[p[1]] = p[2]
      BY DEF IInv, Acks
    <3>2. CASE p[1] = "look"
      BY <1>1, <1>4, <1>6, <3>1, <3>2
    <3>3. CASE p[1] # "look"
      BY <1>7, <3>1, <3>3
    <3>. QED
      BY <3>2, <3>3
  <2>. QED
    BY <2>1, <2>2, <2>3 DEF Acks
<1>9. fails' \in Nat
  BY DEF Open, IInv
<1>10. RowsOK(mem') /\ RowsOK(disk')
  BY <1>7 DEF RowsOK, IInv
<1>. QED
  BY <1>1, <1>2, <1>4, <1>5, <1>8, <1>9, <1>10 DEF IInv

LEMMA OthersKeep ==
  ASSUME IInv,
         \/ \E c \in Clients : PutRead(c)
         \/ Stop
         \/ UNCHANGED vars
  PROVE  IInv'
<1>1. DOMAIN Empty = Fields
  BY DEF Empty, Fields
<1>2. ASSUME NEW c \in Clients, PutRead(c) PROVE IInv'
  BY <1>2 DEF IInv, Acks, PutRead, Call
<1>3. CASE Stop
  BY <1>1, <1>3, EmptyRows DEF IInv, Acks, Stop
<1>4. CASE UNCHANGED vars
  BY <1>4 DEF IInv, Acks, vars
<1>. QED
  BY <1>2, <1>3, <1>4

-----------------------------------------------------------------------------
(* The specification                                                       *)

OneConfig == config \in Configs

LEMMA ConfigStays == OneConfig /\ [Next]_vars => OneConfig'
  BY DEF OneConfig, Next, vars, Call, SetParentLock, SetHour12, SetBedtime, SetModeMinutes,
         Resume, StickyMode, ForMode, NextMode, PutRead, PutWrite, Open, Stop

LEMMA IInit == ASSUME OldRowsOpen, Init PROVE IInv /\ config \in Configs
<1>1. mem = Empty /\ up = "down" /\ DOMAIN Empty = Fields
  BY DEF Init, Empty, Fields
<1>2. PICK d \in Olds \cup {NoLook} : disk = [Empty EXCEPT !.look = d]
  BY DEF Init
<1>3. DOMAIN disk = Fields /\ disk.look = d
  BY <1>2 DEF Empty, Fields
<1>4. d # NoLook => Adoptable(d)
  BY <1>2, PolicyAssumption, KnownModes DEF OldRowsOpen, Adoptable, Kind
<1>5. \A f \in Fields \ {"look"} : disk[f] = Empty[f]
  BY <1>2 DEF Empty, Fields
<1>6. RowsOK(mem) /\ RowsOK(disk)
  BY <1>1, <1>5, EmptyRows DEF RowsOK
<1>. QED
  BY <1>1, <1>3, <1>4, <1>6 DEF IInv, Acks, Init

LEMMA IStep ==
  ASSUME OldRowsOpen, IInv, ReadOK, config \in Configs, [Next]_vars PROVE IInv'
<1>1. CASE \/ \E on \in BOOLEAN : SetParentLock(on)
           \/ \E clock \in {"12", "24"} : SetHour12(clock)
  BY <1>1, RowMethods
<1>2. CASE \E out, wake \in Clocks, lock \in {"none", "on"} : SetBedtime(out, wake, lock)
  BY <1>2, BedtimeMethod
<1>3. CASE \E mode \in Modes \cup {"unknown"}, more \in BOOLEAN : SetModeMinutes(mode, more)
  BY <1>3, MinutesMethod
<1>4. CASE \/ Resume \/ StickyMode
           \/ \E id \in Modes \cup {"unknown"} :
                ForMode(id) \/ \E next \in BOOLEAN : NextMode(id, next)
  BY <1>4, ModeMethods
<1>5. CASE \E c \in Clients : \E d \in Puts : PutWrite(c, d)
  BY <1>5, PutMethod
<1>6. CASE Open
  BY <1>6, OpenKeeps
<1>7. CASE \/ \E c \in Clients : PutRead(c)
           \/ Stop
           \/ UNCHANGED vars
  BY <1>7, OthersKeep
<1>. QED
  BY <1>1, <1>2, <1>3, <1>4, <1>5, <1>6, <1>7 DEF Next

LEMMA ReadStep == ASSUME IInv, ReadOK, [Next]_vars PROVE ReadOK'
<1>1. ASSUME NEW c \in Clients, PutRead(c) PROVE ReadOK'
  <2>1. Kind(mem.look)
    BY <1>1 DEF PutRead, Call, IInv, Sound, Whole
  <2>. QED
    BY <1>1, <2>1 DEF PutRead, ReadOK
<1>2. ASSUME NEW c \in Clients, NEW d, PutWrite(c, d) PROVE ReadOK'
  BY <1>2 DEF PutWrite, ReadOK
<1>3. CASE Open
  BY <1>3 DEF Open, ReadOK
<1>4. CASE UNCHANGED stored
  BY <1>4 DEF ReadOK
<1>. QED
  BY <1>1, <1>2, <1>3, <1>4
     DEF Next, vars, SetParentLock, SetHour12, SetBedtime, SetModeMinutes, Resume,
         StickyMode, ForMode, NextMode, Stop

\* What the daemon is, and what it last answered.
EInv ==
  /\ up \in {"up", "down", "dead"}
  /\ answer \in {"ok", "refused", "error", "none"}
  /\ up # "up" => mem = Empty

LEMMA EStep == ASSUME EInv, [Next]_vars PROVE EInv'
<1>1. ASSUME up = "up", NEW steps, NEW fields, NEW end \in {"ok", "refused"},
             Run(steps, fields, end)
      PROVE  EInv'
  BY <1>1 DEF EInv, Run
<1>2. ASSUME NEW c, NEW d, PutWrite(c, d) PROVE EInv'
  BY <1>1, <1>2 DEF PutWrite, PutLook, Do, Refuse
<1>3. ASSUME NEW c, PutRead(c) PROVE EInv'
  BY <1>3 DEF PutRead, Call, EInv
<1>4. CASE Open
  BY <1>4 DEF Open, EInv
<1>5. CASE Stop \/ UNCHANGED vars
  BY <1>5 DEF Stop, EInv, vars
<1>6. ASSUME NEW id, ForMode(id) \/ \E next \in BOOLEAN : NextMode(id, next) PROVE EInv'
  BY <1>1, <1>6 DEF ForMode, NextMode, Call, Do, Refuse
<1>7. CASE Resume \/ StickyMode
  BY <1>1, <1>7 DEF Resume, StickyMode, Call, Do
<1>8. ASSUME NEW a, SetParentLock(a) \/ SetHour12(a) PROVE EInv'
  BY <1>1, <1>8 DEF SetParentLock, SetHour12, Call, Do
<1>9. ASSUME NEW a, NEW b, SetModeMinutes(a, b) PROVE EInv'
  BY <1>1, <1>9 DEF SetModeMinutes, Call, Do, Refuse
<1>10. ASSUME NEW a, NEW b, NEW c, SetBedtime(a, b, c) PROVE EInv'
  BY <1>1, <1>10 DEF SetBedtime, Call, Do, Refuse
<1>. QED
  BY <1>2, <1>3, <1>4, <1>5, <1>6, <1>7, <1>8, <1>9, <1>10 DEF Next

AllInv == IInv /\ ReadOK /\ EInv /\ OneConfig

LEMMA InvBoth == OldRowsOpen => (Spec => []AllInv)
<1>. SUFFICES ASSUME OldRowsOpen PROVE Spec => []AllInv
  OBVIOUS
<1>1. Init => AllInv
  BY IInit DEF AllInv, OneConfig, ReadOK, EInv, Init
<1>2. AllInv /\ [Next]_vars => AllInv'
  BY IStep, ReadStep, EStep, ConfigStays DEF AllInv, OneConfig
<1>. QED
  BY <1>1, <1>2, PTL DEF Spec

\* Every field of memory and of the rows has a value of its kind, and the daemon
\* holds a look exactly while it runs, whatever the calls, stops and failed
\* writes (Run, Open, Stop).
THEOREM PolicyTypes == OldRowsOpen => (Spec => []TypeOK)
<1>. SUFFICES ASSUME OldRowsOpen PROVE Spec => []TypeOK
  OBVIOUS
<1>1. ASSUME AllInv PROVE TypeOK
  <2>0. Empty.look = NoLook
    BY DEF Empty
  <2>1. ASSUME NEW r, DOMAIN r = Fields, RowsOK(r)
        PROVE  /\ r.lock \in BOOLEAN /\ r.mode \in Modes \cup {""}
               /\ r.until \in {"", "for", "next"}
               /\ r.bedLock \in {"none", "on"} /\ r.hour12 \in {"none", "12", "24"}
    <3>1. {"lock", "mode", "until", "bedLock", "hour12"} \subseteq Fields \ {"look"}
      BY DEF Fields
    <3>. QED
      BY <2>1, <3>1 DEF RowsOK, RowOK
  <2>2. mem.look = NoLook \/ LookOK(mem.look)
    <3>1. CASE up = "up"
      BY <1>1, <3>1 DEF AllInv, IInv, Sound, Whole, Valid, Kind, LookOK
    <3>2. CASE up # "up"
      BY <1>1, <2>0, <3>2 DEF AllInv, EInv
    <3>. QED
      BY <3>1, <3>2
  <2>3. disk.look = NoLook \/ LookOK(disk.look)
    <3>. SUFFICES ASSUME disk.look # NoLook PROVE LookOK(disk.look)
      OBVIOUS
    <3>. DEFINE d == disk.look
    <3>1. Adoptable(d)
      BY <1>1 DEF AllInv, IInv
    <3>2. Adopt(d).modes = d.modes \cup {Freetime} /\ Adopt(d).more = d.more
      BY <3>1 DEF Adopt, Adoptable, DocFields
    <3>3. d.more \subseteq d.modes
      BY <3>1, <3>2 DEF Adoptable, Valid
    <3>. QED
      BY <3>1, <3>3 DEF Adoptable, Kind, LookOK
  <2>4. (up = "up") = (mem.look # NoLook)
    <3>1. CASE up = "up"
      BY <1>1, <3>1, SoundIsALook DEF AllInv, IInv, Sound, Whole
    <3>2. CASE up # "up"
      BY <1>1, <2>0, <3>2 DEF AllInv, EInv
    <3>. QED
      BY <3>1, <3>2
  <2>. QED
    BY <1>1, <2>1, <2>2, <2>3, <2>4 DEF AllInv, IInv, EInv, TypeOK
<1>2. Spec => []AllInv
  BY InvBoth
<1>. QED
  BY <1>1, <1>2, PTL

\* The daemon can start on what it wrote, whatever the calls, their failures
\* and their order (Open, PutLook, SetBedtime, ApplyModeSpec).
THEOREM OpensAgain == OldRowsOpen => (Spec => []StoredOpens)
<1>. SUFFICES ASSUME OldRowsOpen PROVE Spec => []StoredOpens
  OBVIOUS
<1>1. AllInv => StoredOpens
  BY DEF AllInv, IInv, Adoptable, StoredOpens
<1>2. Spec => []AllInv
  BY InvBoth
<1>. QED
  BY <1>1, <1>2, PTL

\* No block of the day is in the hours that the enforcer takes for bedtime
\* (ClockContains, Spans, DayFrom).
THEOREM BlocksStayAwake == OldRowsOpen => (Spec => []BlocksAwake)
<1>. SUFFICES ASSUME OldRowsOpen PROVE Spec => []BlocksAwake
  OBVIOUS
<1>1. AllInv => BlocksAwake
  BY NoBlockAtNight DEF AllInv, IInv, Sound, Whole, Valid, BlocksAwake
<1>2. Spec => []AllInv
  BY InvBoth
<1>. QED
  BY <1>1, <1>2, PTL

\* What a parent was told is done is on the disk and in force, after any calls,
\* stops within them and starts, as long as no write has failed (Run, Open).
THEOREM AnswersAreKept == OldRowsOpen => (Spec => []AckKept)
<1>. SUFFICES ASSUME OldRowsOpen PROVE Spec => []AckKept
  OBVIOUS
<1>1. AllInv => AckKept
  BY DEF AllInv, IInv, Acks, AckKept, AckKeptAlways
<1>2. Spec => []AllInv
  BY InvBoth
<1>. QED
  BY <1>1, <1>2, PTL
=============================================================================
