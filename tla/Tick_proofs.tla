--------------------------- MODULE Tick_proofs ---------------------------
(***************************************************************************)
(* What the daemon's tick does, for any values of the constants, in its    *)
(* two parts that are modelled call by call.                               *)
(*                                                                         *)
(* The enforcer (Enforcer): its types, and, as long as grants and ticks    *)
(* take turns, that no process stays stopped without a row, and that a     *)
(* grant continues every process that was recorded when it came.           *)
(*                                                                         *)
(* The play break (PlayBreak): its types, that a break never starts early, *)
(* and that a break that is due starts, on a day that does not begin with  *)
(* a cut left over from the day before.  The sitting is a sum over rows,   *)
(* so the proof needs to know what such a sum is: this comes first.        *)
(***************************************************************************)
EXTENDS Enforcer, PlayBreak, FiniteSetTheorems, SequenceTheorems, TLAPS,
        WellFoundedInduction

\* A tick past its first call has a process.
TickHasPid == tick.at # "idle" => tick.pid \in Pids

TypeInv == TypeOK /\ TickHasPid

LEMMA TypeTick == TypeInv /\ TickStep => TypeInv'
<1>. SUFFICES ASSUME TypeInv, TickStep PROVE TypeInv'
  OBVIOUS
<1>. USE EnforcerAssumption DEF TypeInv, TypeOK, TickHasPid, NoPid, NoTick, TickTo
<1>1. CASE TickFocus
  BY <1>1 DEF TickFocus
<1>2. CASE TickSpend
  BY <1>2 DEF TickSpend
<1>3. CASE TickLook
  BY <1>3 DEF TickLook
<1>4. CASE TickStop
  BY <1>4 DEF TickStop
<1>5. CASE TickRecord
  BY <1>5 DEF TickRecord
<1>6. CASE TickContinue
  BY <1>6 DEF TickContinue
<1>7. CASE TickClear
  BY <1>7 DEF TickClear
<1>. QED
  BY <1>1, <1>2, <1>3, <1>4, <1>5, <1>6, <1>7 DEF TickStep

LEMMA TypeResume == TypeInv /\ (Grant \/ ResumeStep) => TypeInv'
<1>. SUFFICES ASSUME TypeInv, Grant \/ ResumeStep PROVE TypeInv'
  OBVIOUS
<1>. USE EnforcerAssumption DEF TypeInv, TypeOK, TickHasPid, NoResume
<1>1. CASE Grant
  BY <1>1 DEF Grant
<1>2. CASE ResumeList
  BY <1>2 DEF ResumeList
<1>3. CASE ResumeContinue
  BY <1>3 DEF ResumeContinue
<1>4. CASE ResumeClear
  BY <1>4 DEF ResumeClear
<1>. QED
  BY <1>1, <1>2, <1>3, <1>4 DEF ResumeStep

LEMMA TypeStep == TypeInv /\ [Next]_vars => TypeInv'
<1>. SUFFICES ASSUME TypeInv, [Next]_vars PROVE TypeInv'
  OBVIOUS
<1>1. CASE TickStep
  BY <1>1, TypeTick
<1>2. CASE Grant \/ ResumeStep
  BY <1>2, TypeResume
<1>. USE EnforcerAssumption DEF TypeInv, TypeOK, TickHasPid, NoPid, NoTick, NoResume
<1>3. CASE ClockSet
  BY <1>3 DEF ClockSet
<1>4. CASE Overlays
  BY <1>4 DEF Overlays
<1>5. CASE Restart
  BY <1>5 DEF Restart
<1>6. ASSUME NEW pid \in Pids, Exit(pid) PROVE TypeInv'
  BY <1>6 DEF Exit
<1>7. ASSUME NEW pid \in Pids, Start(pid) PROVE TypeInv'
  BY <1>7 DEF Start
<1>8. ASSUME NEW pid \in Pids \union {NoPid}, KidFocus(pid) PROVE TypeInv'
  BY <1>8 DEF KidFocus
<1>9. CASE UNCHANGED vars
  BY <1>9 DEF vars
<1>. QED
  BY <1>1, <1>2, <1>3, <1>4, <1>5, <1>6, <1>7, <1>8, <1>9 DEF Next

LEMMA TypeAlways == Spec => []TypeInv
<1>1. Init => TypeInv
  BY EnforcerAssumption
     DEF Init, TypeInv, TypeOK, TickHasPid, NoPid, NoTick, NoResume
<1>. QED
  BY <1>1, TypeStep, PTL DEF Spec

\* Every variable has its type (TypeOK of Enforcer).
THEOREM TypeCorrect == Spec => []TypeOK
<1>1. TypeInv => TypeOK
  BY DEF TypeInv
<1>. QED
  BY <1>1, TypeAlways, PTL

-----------------------------------------------------------------------------
(* Turns.                                                                  *)

\* A tick and a Resume are not under way at once.
OneAtATime == tick.at = "idle" \/ resume.at = "idle"

\* Between the SIGCONT and the delete of the row nobody stops the process again.
ClearsRunning ==
    /\ tick.at = "clear" => proc[tick.pid] # "stopped"
    /\ resume.at = "clear"
          => \A p \in Pids : p = Min(resume.rest) => proc[p] # "stopped"

Turns == TypeInv /\ OneAtATime /\ ClearsRunning

LEMMA TurnsTick ==
    ASSUME Overlap = FALSE PROVE Turns /\ TickStep => OneAtATime' /\ ClearsRunning'
<1>. SUFFICES ASSUME Turns, TickStep PROVE OneAtATime' /\ ClearsRunning'
  OBVIOUS
<1>. USE DEF Turns, TypeInv, TypeOK, TickHasPid, OneAtATime, ClearsRunning, NoTick,
             TickTo
<1>1. CASE TickFocus
  BY <1>1 DEF TickFocus
<1>2. CASE TickSpend
  BY <1>2 DEF TickSpend
<1>3. CASE TickLook
  BY <1>3 DEF TickLook
<1>4. CASE TickStop
  BY <1>4 DEF TickStop
<1>5. CASE TickRecord
  BY <1>5 DEF TickRecord
<1>6. CASE TickContinue
  BY <1>6 DEF TickContinue
<1>7. CASE TickClear
  BY <1>7 DEF TickClear
<1>. QED
  BY <1>1, <1>2, <1>3, <1>4, <1>5, <1>6, <1>7 DEF TickStep

LEMMA TurnsResume ==
    ASSUME Overlap = FALSE
    PROVE Turns /\ (Grant \/ ResumeStep) => OneAtATime' /\ ClearsRunning'
<1>. SUFFICES ASSUME Turns, Grant \/ ResumeStep
              PROVE OneAtATime' /\ ClearsRunning'
  OBVIOUS
<1>. USE DEF Turns, TypeInv, TypeOK, OneAtATime, ClearsRunning, NoResume
<1>1. CASE Grant
  BY <1>1 DEF Grant
<1>2. CASE ResumeList
  BY <1>2 DEF ResumeList
<1>3. CASE ResumeContinue
  BY <1>3 DEF ResumeContinue
<1>4. CASE ResumeClear
  BY <1>4 DEF ResumeClear
<1>. QED
  BY <1>1, <1>2, <1>3, <1>4 DEF ResumeStep

LEMMA TurnsStep ==
    ASSUME Overlap = FALSE PROVE Turns /\ [Next]_vars => Turns'
<1>. SUFFICES ASSUME Turns, [Next]_vars PROVE OneAtATime' /\ ClearsRunning'
  BY TypeStep DEF Turns
<1>1. CASE TickStep
  BY <1>1, TurnsTick
<1>2. CASE Grant \/ ResumeStep
  BY <1>2, TurnsResume
<1>. USE DEF Turns, TypeInv, TypeOK, TickHasPid, OneAtATime, ClearsRunning, NoTick,
             NoResume
<1>3. CASE ClockSet
  BY <1>3 DEF ClockSet
<1>4. CASE Overlays
  BY <1>4 DEF Overlays
<1>5. CASE Restart
  BY <1>5 DEF Restart
<1>6. ASSUME NEW pid \in Pids, Exit(pid) PROVE OneAtATime' /\ ClearsRunning'
  BY <1>6 DEF Exit
<1>7. ASSUME NEW pid \in Pids, Start(pid) PROVE OneAtATime' /\ ClearsRunning'
  BY <1>7 DEF Start
<1>8. ASSUME NEW pid \in Pids \union {NoPid}, KidFocus(pid)
      PROVE OneAtATime' /\ ClearsRunning'
  BY <1>8 DEF KidFocus
<1>9. CASE UNCHANGED vars
  BY <1>9 DEF vars
<1>. QED
  BY <1>1, <1>2, <1>3, <1>4, <1>5, <1>6, <1>7, <1>8, <1>9 DEF Next

LEMMA TurnsAlways == ASSUME Overlap = FALSE PROVE Spec => []Turns
<1>1. Init => Turns
  BY EnforcerAssumption
     DEF Init, Turns, TypeInv, TypeOK, TickHasPid, NoPid, NoTick, NoResume, OneAtATime,
         ClearsRunning
<1>. QED
  BY <1>1, TurnsStep, PTL DEF Spec

\* What a step may do to the processes that are stopped without a row.
NoNewOrphans == ~Restart => Orphans' \subseteq (Orphans \ Stopping) \union Stopping'

LEMMA OrphansStep == Turns /\ [Next]_vars => NoNewOrphans
<1>. SUFFICES ASSUME Turns, [Next]_vars, ~Restart
              PROVE Orphans' \subseteq (Orphans \ Stopping) \union Stopping'
  BY DEF NoNewOrphans
<1>. USE DEF Turns, TypeInv, TypeOK, TickHasPid, ClearsRunning, Orphans, Stopping
<1>1. CASE TickStep
  <2>. USE DEF NoTick, TickTo
  <2>1. CASE TickFocus
    BY <2>1 DEF TickFocus
  <2>2. CASE TickSpend
    BY <2>2 DEF TickSpend
  <2>3. CASE TickLook
    BY <2>3 DEF TickLook
  <2>4. CASE TickStop
    BY <2>4 DEF TickStop
  <2>5. CASE TickRecord
    BY <2>5 DEF TickRecord
  <2>6. CASE TickContinue
    BY <2>6 DEF TickContinue
  <2>7. CASE TickClear
    BY <2>7 DEF TickClear
  <2>. QED
    BY <1>1, <2>1, <2>2, <2>3, <2>4, <2>5, <2>6, <2>7 DEF TickStep
<1>2. CASE Grant
  BY <1>2 DEF Grant
<1>3. CASE ResumeStep
  <2>1. CASE ResumeList
    BY <2>1 DEF ResumeList
  <2>2. CASE ResumeContinue
    BY <2>2 DEF ResumeContinue
  <2>3. CASE ResumeClear
    BY <2>3 DEF ResumeClear
  <2>. QED
    BY <1>3, <2>1, <2>2, <2>3 DEF ResumeStep
<1>4. CASE ClockSet \/ Overlays
  BY <1>4 DEF ClockSet, Overlays
<1>5. CASE \E pid \in Pids : Exit(pid) \/ Start(pid)
  BY <1>5 DEF Exit, Start
<1>6. CASE \E pid \in Pids \union {NoPid} : KidFocus(pid)
  BY <1>6 DEF KidFocus
<1>7. CASE UNCHANGED vars
  BY <1>7 DEF vars
<1>. QED
  BY <1>1, <1>2, <1>3, <1>4, <1>5, <1>6, <1>7 DEF Next

\* As long as grants and ticks take turns, no process is stopped without a row,
\* but for the one the tick is about to record (Tick, Resume, ClearPaused).
THEOREM TurnsLeaveNoOrphans == ASSUME Overlap = FALSE PROVE Spec => NoOrphans
<1>1. Turns /\ [Next]_vars => [NoNewOrphans]_vars
  BY OrphansStep
<1>. QED
  BY <1>1, TurnsAlways, PTL DEF Spec, NoOrphans, NoNewOrphans

-----------------------------------------------------------------------------
(* A grant.                                                                *)

\* Rows are handled in the order of their pids: there is a first one.
LEMMA MinIsFirst ==
    ASSUME NEW S, S \subseteq Nat, S # {}
    PROVE  Min(S) \in S /\ \A p \in S : Min(S) <= p
<1>. DEFINE R == OpToRel(<, Nat)
<1>1. IsWellFoundedOn(R, Nat)
  BY NatLessThanWellFounded
<1>2. \A x, y \in Nat : y < x => <<y, x>> \in R
  BY DEF OpToRel
<1>. HIDE DEF R
<1>3. PICK x \in S : \A y \in S : <<y, x>> \notin R
  BY <1>1, WFMin
<1>4. \A y \in S : ~(y < x)
  BY <1>2, <1>3
<1>5. \E m \in S : \A p \in S : m <= p
  BY <1>3, <1>4
<1>. QED
  BY <1>5 DEF Min

\* Resume under way: of the rows it listed, those it has handled belong to no
\* stopped process; the last one it has not handled ends it.
Handling ==
    /\ resume.at \in {"idle", "list"} => resume.listed = {}
    /\ resume.at \in {"continue", "clear"} =>
         /\ resume.rest # {} /\ resume.rest \subseteq resume.listed
         /\ \A p \in resume.listed \ resume.rest : proc[p] # "stopped"

LEMMA FirstRow ==
    ASSUME TypeInv, Handling, resume.at \in {"continue", "clear"}
    PROVE  /\ Min(resume.rest) \in resume.rest /\ Min(resume.rest) \in Pids
           /\ \A p \in resume.rest : Min(resume.rest) <= p
<1>1. resume.rest \subseteq Nat /\ resume.rest # {} /\ resume.rest \subseteq Pids
  BY EnforcerAssumption DEF TypeInv, TypeOK, Handling
<1>. QED
  BY <1>1, MinIsFirst

LEMMA HandlingStep == Turns /\ Handling /\ [Next]_vars => Handling'
<1>. SUFFICES ASSUME Turns, Handling, [Next]_vars PROVE Handling'
  OBVIOUS
<1>. USE DEF Turns, TypeInv, TypeOK, OneAtATime, Handling, NoResume
<1>1. CASE TickStep
  <2>1. /\ resume' = resume
        /\ \A p \in Pids : proc'[p] # proc[p] => resume.at = "idle"
    BY <1>1 DEF TickStep, TickFocus, TickSpend, TickLook, TickStop, TickRecord, TickContinue,
                TickClear, TickTo, NoTick
  <2>. QED
    BY <2>1
<1>2. CASE Grant
  BY <1>2 DEF Grant
<1>3. CASE ResumeList
  BY <1>3 DEF ResumeList
<1>4. CASE ResumeContinue
  BY <1>4 DEF ResumeContinue
<1>5. CASE ResumeClear
  <2>. DEFINE pid == Min(resume.rest)
  <2>1. resume.at = "clear" /\ proc' = proc /\ pid \in resume.rest /\ proc[pid] # "stopped"
    <3>1. resume.at = "clear" /\ proc' = proc
      BY <1>5 DEF ResumeClear
    <3>2. pid \in resume.rest /\ pid \in Pids
      BY <3>1, FirstRow
    <3>. QED
      BY <3>1, <3>2 DEF ClearsRunning
  <2>. QED
    BY <1>5, <2>1 DEF ResumeClear
<1>6. CASE ClockSet \/ Overlays \/ Restart
  BY <1>6 DEF ClockSet, Overlays, Restart
<1>7. ASSUME NEW pid \in Pids, Exit(pid) \/ Start(pid) PROVE Handling'
  BY <1>7 DEF Exit, Start
<1>8. CASE \E pid \in Pids \union {NoPid} : KidFocus(pid)
  BY <1>8 DEF KidFocus
<1>9. CASE UNCHANGED vars
  BY <1>9 DEF vars
<1>. QED
  BY <1>1, <1>2, <1>3, <1>4, <1>5, <1>6, <1>7, <1>8, <1>9 DEF Next, ResumeStep

\* As long as grants and ticks take turns, a grant continues every process that
\* was recorded when it came, in the order of the pids, up to a row whose
\* process is gone (Resume, cont).
THEOREM TurnsResumeAll == ASSUME Overlap = FALSE PROVE Spec => GrantResumes
<1>. DEFINE Continued ==
              ResumeStep /\ resume'.at = "idle"
                => \A p \in resume.listed : proc'[p] = "stopped"
                      => Min(resume.rest) <= p /\ proc[Min(resume.rest)] = "gone"
<1>1. Turns /\ Handling /\ [Next]_vars => [Continued]_vars
  <2>. SUFFICES ASSUME Turns, Handling, ResumeStep, resume'.at = "idle",
                       NEW p \in resume.listed, proc'[p] = "stopped"
                PROVE  Min(resume.rest) <= p /\ proc[Min(resume.rest)] = "gone"
    OBVIOUS
  <2>. DEFINE pid == Min(resume.rest)
  <2>1. CASE ResumeList
    BY <2>1 DEF ResumeList, Handling
  <2>2. CASE ResumeContinue
    <3>1. resume.at = "continue" /\ proc[pid] = "gone" /\ proc' = proc
      BY <2>2 DEF ResumeContinue, Turns, TypeInv, TypeOK
    <3>2. p \in resume.rest
      BY <3>1 DEF Handling
    <3>. QED
      BY <3>1, <3>2, FirstRow DEF Turns
  <2>3. CASE ResumeClear
    <3>1. resume.at = "clear" /\ proc' = proc /\ resume.rest \ {pid} = {}
      BY <2>3 DEF ResumeClear, Turns, TypeInv, TypeOK
    <3>2. pid \in Pids /\ proc[pid] # "stopped"
      BY <3>1, FirstRow DEF Turns, ClearsRunning
    <3>3. p \in resume.rest
      BY <3>1 DEF Handling
    <3>. QED
      BY <3>1, <3>2, <3>3
  <2>. QED
    BY <2>1, <2>2, <2>3 DEF ResumeStep
<1>2. Init => Handling
  BY DEF Init, Handling, NoResume
<1>3. [Continued]_vars =>
        [ResumeStep /\ resume'.at = "idle"
           => \A p \in resume.listed : proc[p]' = "stopped"
                 => Min(resume.rest) <= p /\ proc[Min(resume.rest)] = "gone"]_vars
  OBVIOUS
<1>. HIDE DEF Continued
<1>. QED
  BY <1>1, <1>2, <1>3, HandlingStep, TurnsAlways, PTL DEF Spec, GrantResumes

-----------------------------------------------------------------------------
(* Sums over the rows.  Induction in the form of a set of numbers.         *)

LEMMA Reach ==
    ASSUME NEW B, 0 \in B, \A k \in Nat : k \in B => k + 1 \in B
    PROVE  \A k \in Nat : k \in B
<1>. DEFINE S == Nat \ B
<1>. SUFFICES ASSUME S # {} PROVE FALSE
  OBVIOUS
<1>1. Min(S) \in S /\ \A p \in S : Min(S) <= p
  BY MinIsFirst
<1>. DEFINE m == Min(S)
<1>. HIDE DEF S
<1>2. m \in Nat /\ m \notin B /\ m # 0
  BY <1>1 DEF S
<1>3. m - 1 \in Nat /\ ~ (m <= m - 1) /\ (m - 1) + 1 = m
  BY <1>2
<1>4. m - 1 \in B
  BY <1>1, <1>3 DEF S
<1>. QED
  BY <1>2, <1>3, <1>4

Sum(s, C) == MapThenSumSet(LAMBDA i : s[i].seconds, C)

\* The recursive function that the sum is a value of.
Some(x) == CHOOSE i \in x : TRUE
Body(s, g, x) == IF x = {} THEN 0 ELSE s[Some(x)].seconds + g[x \ {Some(x)}]
Adds(s, g, C) == g = [x \in SUBSET C |-> Body(s, g, x)]
Counts(s, C) == IsFiniteSet(C) /\ \A i \in C : s[i].seconds \in Nat

LEMMA SumIs ==
    ASSUME NEW s, NEW C PROVE Sum(s, C) = (CHOOSE g : Adds(s, g, C))[C]
  BY DEF Sum, MapThenSumSet, MapThenFoldSet, Adds, Body, Some

\* Taking an element from a finite set.
LEMMA OneLess ==
    ASSUME NEW x, IsFiniteSet(x), NEW k \in Nat, Cardinality(x) <= k + 1, NEW i \in x
    PROVE  IsFiniteSet(x \ {i}) /\ Cardinality(x \ {i}) \in Nat /\ Cardinality(x \ {i}) <= k
<1>1. /\ IsFiniteSet(x \ {i})
      /\ Cardinality(x \ {i}) = Cardinality(x) - 1
  BY FS_RemoveElement
<1>2. Cardinality(x) \in Nat /\ Cardinality(x \ {i}) \in Nat
  BY <1>1, FS_CardinalityType
<1>. QED
  BY <1>1, <1>2

LEMMA AddsExists ==
    ASSUME NEW s, NEW C, IsFiniteSet(C) PROVE \E g : Adds(s, g, C)
<1>. DEFINE Upto(k, g) == /\ g = [x \in SUBSET C |-> g[x]]
                          /\ \A x \in SUBSET C : Cardinality(x) <= k => g[x] = Body(s, g, x)
            B == {k \in Nat : \E g : Upto(k, g)}
<1>0. \A x \in SUBSET C : IsFiniteSet(x) /\ Cardinality(x) \in Nat /\ Cardinality(x) <= Cardinality(C)
  BY FS_Subset, FS_CardinalityType
<1>1. 0 \in B
  <2>. DEFINE g == [x \in SUBSET C |-> 0]
  <2>1. ASSUME NEW x \in SUBSET C, Cardinality(x) <= 0 PROVE g[x] = Body(s, g, x)
    <3>1. x = {}
      BY <1>0, <2>1, FS_EmptySet
    <3>. QED
      BY <3>1 DEF Body
  <2>. QED
    BY <2>1
<1>2. ASSUME NEW k \in Nat, k \in B PROVE k + 1 \in B
  <2>1. PICK g : Upto(k, g)
    BY <1>2
  <2>. DEFINE h == [x \in SUBSET C |-> Body(s, g, x)]
  <2>2. \A x \in SUBSET C : Cardinality(x) <= k => h[x] = g[x]
    BY <2>1
  <2>3. ASSUME NEW x \in SUBSET C, Cardinality(x) <= k + 1 PROVE h[x] = Body(s, h, x)
    <3>1. CASE x = {}
      BY <3>1 DEF Body
    <3>2. CASE x # {}
      <4>1. Some(x) \in x
        BY <3>2 DEF Some
      <4>2. Cardinality(x \ {Some(x)}) <= k
        BY <1>0, <2>3, <4>1, OneLess
      <4>3. h[x \ {Some(x)}] = g[x \ {Some(x)}]
        BY <2>2, <4>2
      <4>. QED
        BY <3>2, <4>3 DEF Body
    <3>. QED
      BY <3>1, <3>2
  <2>4. Upto(k + 1, h)
    BY <2>3
  <2>. HIDE DEF h, Upto
  <2>5. \E f : Upto(k + 1, f)
    BY <2>4
  <2>. QED
    BY <2>5
<1>3. \A k \in Nat : k \in B
  <2>. HIDE DEF B
  <2>. QED
    BY <1>1, <1>2, Reach
<1>4. Cardinality(C) \in Nat
  BY FS_CardinalityType
<1>5. PICK g : Upto(Cardinality(C), g)
  BY <1>3, <1>4
<1>6. g = [x \in SUBSET C |-> Body(s, g, x)]
  BY <1>0, <1>5
<1>. QED
  BY <1>6 DEF Adds

LEMMA AddsNat ==
    ASSUME NEW s, NEW C, Counts(s, C), NEW g, Adds(s, g, C)
    PROVE  \A x \in SUBSET C : g[x] \in Nat
<1>. DEFINE B == {k \in Nat : \A x \in SUBSET C : Cardinality(x) <= k => g[x] \in Nat}
<1>0. \A x \in SUBSET C : IsFiniteSet(x) /\ Cardinality(x) \in Nat
  BY FS_Subset, FS_CardinalityType DEF Counts
<1>b. \A x \in SUBSET C : g[x] = Body(s, g, x)
  BY DEF Adds
<1>1. 0 \in B
  <2>1. ASSUME NEW x \in SUBSET C, Cardinality(x) <= 0 PROVE g[x] \in Nat
    <3>1. x = {}
      BY <1>0, <2>1, FS_EmptySet
    <3>2. Body(s, g, x) = 0
      BY <3>1 DEF Body
    <3>. QED
      BY <1>b, <3>2
  <2>. QED
    BY <2>1
<1>2. ASSUME NEW k \in Nat, k \in B PROVE k + 1 \in B
  <2>1. ASSUME NEW x \in SUBSET C, Cardinality(x) <= k + 1 PROVE g[x] \in Nat
    <3>1. CASE x = {}
      <4>1. Body(s, g, x) = 0
        BY <3>1 DEF Body
      <4>. QED
        BY <1>b, <4>1
    <3>2. CASE x # {}
      <4>1. Some(x) \in x
        BY <3>2 DEF Some
      <4>2. Cardinality(x \ {Some(x)}) <= k
        BY <1>0, <2>1, <4>1, OneLess
      <4>3. g[x \ {Some(x)}] \in Nat /\ s[Some(x)].seconds \in Nat
        BY <1>2, <4>1, <4>2 DEF Counts
      <4>4. g[x] = s[Some(x)].seconds + g[x \ {Some(x)}]
        BY <1>b, <3>2 DEF Body
      <4>. QED
        BY <4>3, <4>4
    <3>. QED
      BY <3>1, <3>2
  <2>. QED
    BY <2>1
<1>3. \A k \in Nat : k \in B
  <2>. HIDE DEF B
  <2>. QED
    BY <1>1, <1>2, Reach
<1>4. ASSUME NEW x \in SUBSET C PROVE g[x] \in Nat
  <2>1. Cardinality(x) \in B
    BY <1>0, <1>3
  <2>. QED
    BY <1>0, <2>1
<1>. QED
  BY <1>4

\* In whichever order the rows are taken, each is added once.
LEMMA AddsOne ==
    ASSUME NEW s, NEW C, Counts(s, C), NEW g, Adds(s, g, C)
    PROVE  \A x \in SUBSET C : \A i \in x : g[x] = s[i].seconds + g[x \ {i}]
<1>. DEFINE B == {k \in Nat : \A x \in SUBSET C : Cardinality(x) <= k =>
                                \A i \in x : g[x] = s[i].seconds + g[x \ {i}]}
<1>0. \A x \in SUBSET C : IsFiniteSet(x) /\ Cardinality(x) \in Nat
  BY FS_Subset, FS_CardinalityType DEF Counts
<1>b. \A x \in SUBSET C : g[x] = Body(s, g, x)
  BY DEF Adds
<1>c. \A x \in SUBSET C : g[x] \in Nat
  BY AddsNat
<1>1. 0 \in B
  <2>1. ASSUME NEW x \in SUBSET C, Cardinality(x) <= 0 PROVE x = {}
    BY <1>0, <2>1, FS_EmptySet
  <2>. QED
    BY <2>1
<1>2. ASSUME NEW k \in Nat, k \in B PROVE k + 1 \in B
  <2>1. ASSUME NEW x \in SUBSET C, Cardinality(x) <= k + 1, NEW i \in x
        PROVE  g[x] = s[i].seconds + g[x \ {i}]
    <3>. DEFINE j == Some(x)
    <3>1. j \in x
      BY DEF Some
    <3>2. g[x] = s[j].seconds + g[x \ {j}]
      BY <1>b DEF Body
    <3>3. CASE i = j
      BY <3>2, <3>3
    <3>4. CASE i # j
      <4>1. Cardinality(x \ {j}) <= k /\ Cardinality(x \ {i}) <= k
        BY <1>0, <2>1, <3>1, OneLess
      <4>2. g[x \ {j}] = s[i].seconds + g[(x \ {j}) \ {i}]
        BY <1>2, <3>4, <4>1
      <4>3. g[x \ {i}] = s[j].seconds + g[(x \ {i}) \ {j}]
        BY <1>2, <3>1, <3>4, <4>1
      <4>4. (x \ {j}) \ {i} = (x \ {i}) \ {j}
        OBVIOUS
      <4>. DEFINE r == (x \ {i}) \ {j}
                  a == s[i].seconds
                  b == s[j].seconds
      <4>5. a \in Nat /\ b \in Nat /\ g[r] \in Nat
        BY <1>c, <3>1 DEF Counts
      <4>6. g[x] = b + (a + g[r]) /\ g[x \ {i}] = b + g[r]
        BY <3>2, <4>2, <4>3, <4>4
      <4>. HIDE DEF r, a, b
      <4>7. g[x] = a + g[x \ {i}]
        BY <4>5, <4>6
      <4>. QED
        BY <4>7 DEF a
    <3>. QED
      BY <3>3, <3>4
  <2>. QED
    BY <2>1
<1>3. \A k \in Nat : k \in B
  <2>. HIDE DEF B
  <2>. QED
    BY <1>1, <1>2, Reach
<1>4. ASSUME NEW x \in SUBSET C PROVE \A i \in x : g[x] = s[i].seconds + g[x \ {i}]
  <2>1. Cardinality(x) \in B
    BY <1>0, <1>3
  <2>. QED
    BY <1>0, <2>1
<1>. QED
  BY <1>4

\* Two such functions agree where the rows do.
LEMMA AddsSame ==
    ASSUME NEW s, NEW C, Counts(s, C), NEW g, Adds(s, g, C),
           NEW t, NEW D, NEW h, Adds(t, h, D),
           NEW E, E \subseteq C, E \subseteq D, \A i \in E : s[i].seconds = t[i].seconds
    PROVE  g[E] = h[E]
<1>. DEFINE B == {k \in Nat : \A x \in SUBSET E : Cardinality(x) <= k => g[x] = h[x]}
<1>0. \A x \in SUBSET E : IsFiniteSet(x) /\ Cardinality(x) \in Nat
  BY FS_Subset, FS_CardinalityType DEF Counts
<1>b. \A x \in SUBSET E : g[x] = Body(s, g, x) /\ h[x] = Body(t, h, x)
  BY DEF Adds
<1>1. 0 \in B
  <2>1. ASSUME NEW x \in SUBSET E, Cardinality(x) <= 0 PROVE g[x] = h[x]
    <3>1. x = {}
      BY <1>0, <2>1, FS_EmptySet
    <3>. QED
      BY <1>b, <3>1 DEF Body
  <2>. QED
    BY <2>1
<1>2. ASSUME NEW k \in Nat, k \in B PROVE k + 1 \in B
  <2>1. ASSUME NEW x \in SUBSET E, Cardinality(x) <= k + 1 PROVE g[x] = h[x]
    <3>1. CASE x = {}
      BY <1>b, <3>1 DEF Body
    <3>2. CASE x # {}
      <4>1. Some(x) \in x
        BY <3>2 DEF Some
      <4>2. Cardinality(x \ {Some(x)}) <= k
        BY <1>0, <2>1, <4>1, OneLess
      <4>3. g[x \ {Some(x)}] = h[x \ {Some(x)}] /\ s[Some(x)].seconds = t[Some(x)].seconds
        BY <1>2, <4>1, <4>2
      <4>4. /\ g[x] = s[Some(x)].seconds + g[x \ {Some(x)}]
            /\ h[x] = t[Some(x)].seconds + h[x \ {Some(x)}]
        BY <1>b, <3>2 DEF Body
      <4>. QED
        BY <4>3, <4>4
    <3>. QED
      BY <3>1, <3>2
  <2>. QED
    BY <2>1
<1>3. \A k \in Nat : k \in B
  <2>. HIDE DEF B
  <2>. QED
    BY <1>1, <1>2, Reach
<1>4. Cardinality(E) \in B
  BY <1>0, <1>3
<1>. QED
  BY <1>0, <1>4

LEMMA SumNat == ASSUME NEW s, NEW C, Counts(s, C) PROVE Sum(s, C) \in Nat
<1>. DEFINE g == CHOOSE f : Adds(s, f, C)
<1>1. Adds(s, g, C)
  BY AddsExists DEF Counts
<1>. HIDE DEF g
<1>2. g[C] \in Nat
  BY <1>1, AddsNat
<1>. QED
  BY <1>2, SumIs DEF g

LEMMA SumSame ==
    ASSUME NEW s, NEW C, Counts(s, C), NEW t, \A i \in C : s[i].seconds = t[i].seconds
    PROVE  Sum(s, C) = Sum(t, C)
<1>. DEFINE g == CHOOSE f : Adds(s, f, C)
            h == CHOOSE f : Adds(t, f, C)
<1>1. Adds(s, g, C) /\ Adds(t, h, C)
  BY AddsExists DEF Counts
<1>. HIDE DEF g, h
<1>2. g[C] = h[C]
  BY <1>1, AddsSame
<1>. QED
  BY <1>2, SumIs DEF g, h

LEMMA SumOne ==
    ASSUME NEW s, NEW C, Counts(s, C), NEW i \in C
    PROVE  Sum(s, C) = s[i].seconds + Sum(s, C \ {i})
<1>. DEFINE D == C \ {i}
            g == CHOOSE f : Adds(s, f, C)
            h == CHOOSE f : Adds(s, f, D)
<1>0. IsFiniteSet(C) /\ IsFiniteSet(D)
  BY FS_Subset DEF Counts
<1>1. Adds(s, g, C) /\ Adds(s, h, D)
  BY <1>0, AddsExists
<1>. HIDE DEF g, h
<1>2. g[D] = h[D]
  BY <1>1, AddsSame
<1>3. g[C] = s[i].seconds + g[D]
  BY <1>1, AddsOne
<1>4. Sum(s, C) = g[C] /\ Sum(s, D) = h[D]
  BY SumIs DEF g, h
<1>. QED
  BY <1>2, <1>3, <1>4

LEMMA SumNone == ASSUME NEW s PROVE Sum(s, {}) = 0
<1>. DEFINE g == CHOOSE f : Adds(s, f, {})
<1>1. Adds(s, g, {})
  BY AddsExists, FS_EmptySet
<1>. HIDE DEF g
<1>2. g[{}] = 0
  BY <1>1 DEF Adds, Body
<1>. QED
  BY <1>2, SumIs DEF g

-----------------------------------------------------------------------------
(* The play break: types                                                   *)

Span == [label : Labels, start : 0 .. DayLen - 1,
         updated : -Gap - 1 .. DayLen - 1, seconds : Nat]

LEMMA TodayTypes == BreakTypeOK => Today \in Seq(Span) /\ (oldCut \/ playCut <= Len(Today))
  BY DEF BreakTypeOK, Today, Span

LEMMA NotedTypes ==
    ASSUME BreakTypeOK, NEW s \in Seq(Span), NEW label \in Labels
    PROVE  Noted(s, label) \in Seq(Span) /\ Len(Noted(s, label)) \in {Len(s), Len(s) + 1}
<1>. DEFINE n == Len(s)
<1>0. tod \in 0 .. DayLen - 1 /\ tod \in -Gap - 1 .. DayLen - 1
  BY PlayAssumption DEF BreakTypeOK
<1>1. CASE n > 0 /\ s[n].label = label /\ tod - s[n].updated <= Gap
  <2>. DEFINE row == [s[n] EXCEPT !.seconds = @ + 1, !.updated = tod]
  <2>1. n \in 1 .. Len(s) /\ s[n] \in Span
    BY <1>1
  <2>2. row \in Span
    <3>1. s[n].seconds + 1 \in Nat
      BY <2>1 DEF Span
    <3>2. row = [s[n] EXCEPT !.seconds = s[n].seconds + 1, !.updated = tod]
      OBVIOUS
    <3>. QED
      BY <1>0, <2>1, <3>1, <3>2 DEF Span
  <2>3. Noted(s, label) = [s EXCEPT ![n] = row]
    BY <1>1 DEF Noted
  <2>. QED
    BY <2>1, <2>2, <2>3
<1>2. CASE ~ (n > 0 /\ s[n].label = label /\ tod - s[n].updated <= Gap)
  <2>. DEFINE row == [label |-> label, start |-> tod, updated |-> tod, seconds |-> 1]
  <2>1. row \in Span
    BY <1>0 DEF Span
  <2>2. Noted(s, label) = Append(s, row)
    BY <1>2 DEF Noted
  <2>. QED
    BY <2>1, <2>2
<1>. QED
  BY <1>1, <1>2

LEMMA StaleTypes ==
    ASSUME BreakTypeOK, NEW s \in Seq(Span)
    PROVE  /\ Stale(s) \in Seq(Span) /\ Len(Stale(s)) = Len(s)
           /\ Len(s) > 0 => tod - Stale(s)[Len(s)].updated > Gap
<1>. DEFINE n == Len(s)
<1>0. tod \in Int /\ Gap \in Nat /\ tod - Gap - 1 \in -Gap - 1 .. DayLen - 1
  BY PlayAssumption DEF BreakTypeOK
<1>1. CASE n > 0 /\ tod - s[n].updated <= Gap
  <2>. DEFINE row == [s[n] EXCEPT !.updated = tod - Gap - 1]
  <2>1. n \in 1 .. Len(s) /\ s[n] \in Span
    BY <1>1
  <2>2. row \in Span /\ row.updated = tod - Gap - 1
    BY <1>0, <2>1 DEF Span
  <2>3. Stale(s) = [s EXCEPT ![n] = row]
    BY <1>1 DEF Stale
  <2>. QED
    BY <1>0, <2>1, <2>2, <2>3
<1>2. CASE ~ (n > 0 /\ tod - s[n].updated <= Gap)
  <2>1. Stale(s) = s
    BY <1>2 DEF Stale
  <2>2. n > 0 => n \in 1 .. Len(s) /\ s[n] \in Span
    OBVIOUS
  <2>3. n > 0 => s[n].updated \in Int
    BY <1>0, <2>2, PlayAssumption DEF Span
  <2>. QED
    BY <1>0, <1>2, <2>1, <2>3
<1>. QED
  BY <1>1, <1>2

\* What becomes of the rows when a method has them.
LEMMA RowsTypes ==
    ASSUME BreakTypeOK, Prepare, UNCHANGED tod,
           KeepRows \/ CloseSitting(Today)
    PROVE  /\ spans' \in Seq(Span) /\ playCut' \in Nat /\ settled' \in BOOLEAN
           /\ oldCut' \/ playCut' <= Len(Today')
           /\ sat' \in Nat \union {None} /\ since' \in Nat /\ oldCut' \in BOOLEAN
<1>1. Today \in Seq(Span) /\ (oldCut \/ playCut <= Len(Today)) /\ Len(Today) \in Nat
  BY TodayTypes
<1>2. settled' = TRUE /\ Today' = spans'
  BY DEF Prepare, Today
<1>3. CASE KeepRows
  BY <1>1, <1>2, <1>3 DEF KeepRows, BreakTypeOK
<1>4. CASE CloseSitting(Today)
  <2>1. spans' \in Seq(Span) /\ Len(spans') = Len(Today)
    BY <1>1, <1>4, StaleTypes DEF CloseSitting
  <2>. QED
    BY <1>1, <1>2, <1>4, <2>1 DEF CloseSitting, BreakTypeOK
<1>. QED
  BY <1>3, <1>4

LEMMA TypesInit == BreakInit => BreakTypeOK
<1>. SUFFICES ASSUME BreakInit PROVE BreakTypeOK
  OBVIOUS
<1>1. 0 \in 0 .. DayLen - 1 /\ 0 \in 0 .. Break
  BY PlayAssumption
<1>2. spans \in Seq(Span) /\ playCut <= Len(Today)
  BY DEF BreakInit, Today
<1>. QED
  BY <1>1, <1>2 DEF BreakInit, BreakTypeOK, Span, None

LEMMA TypesStep == BreakTypeOK /\ [BreakNext]_breakVars => BreakTypeOK'
<1>. SUFFICES ASSUME BreakTypeOK, [BreakNext]_breakVars PROVE BreakTypeOK'
  OBVIOUS
<1>0. /\ tod \in 0 .. DayLen - 1 /\ DayLen \in Nat /\ brk \in 0 .. Break /\ Break \in Nat \ {0}
      /\ pinSet \in BOOLEAN /\ funLeft \in BOOLEAN
      /\ call \in {"idle", "overlay", "note"} /\ ticked \in BOOLEAN
  BY PlayAssumption DEF BreakTypeOK
<1>1. ASSUME Prepare, UNCHANGED tod, KeepRows \/ CloseSitting(Today),
             brk' \in 0 .. Break, pinSet' \in BOOLEAN, funLeft' \in BOOLEAN,
             call' \in {"idle", "overlay", "note"}, ticked' \in BOOLEAN
      PROVE  BreakTypeOK'
  BY <1>0, <1>1, RowsTypes DEF BreakTypeOK, Span
<1>2. SyncBreak => brk' \in 0 .. Break /\ (KeepRows \/ CloseSitting(Today))
  BY <1>0 DEF SyncBreak
<1>3. CASE Advance
  <2>1. brk' \in 0 .. Break /\ tod' \in 0 .. DayLen - 1
    BY <1>0, <1>3 DEF Advance
  <2>2. CASE tod = DayLen - 1
    <3>1. Today' = <<>> /\ playCut' = playCut /\ playCut \in Nat
      BY <1>3, <2>2 DEF Advance, Today, BreakTypeOK
    <3>3. oldCut' \in BOOLEAN
      BY <1>3, <2>2 DEF Advance
    <3>4. ASSUME playCut # 0 PROVE oldCut'
      BY <1>3, <2>2, <3>4 DEF Advance
    <3>5. playCut' <= Len(Today') \/ playCut # 0
      BY <3>1
    <3>6. settled' = FALSE /\ sat' = None /\ since' = 0 /\ ticked' = FALSE
      BY <1>3, <2>2 DEF Advance
    <3>7. UNCHANGED <<spans, pinSet, funLeft, call>>
      BY <1>3 DEF Advance
    <3>. QED
      BY <2>1, <3>1, <3>3, <3>4, <3>5, <3>6, <3>7 DEF BreakTypeOK
  <2>3. CASE tod # DayLen - 1
    <3>1. UNCHANGED <<settled, oldCut, spans, playCut>> /\ Today' = Today
      BY <1>3, <2>3 DEF Advance, Today
    <3>2. sat' \in Nat \union {None} /\ since' \in Nat
      BY <1>3, <2>3 DEF Advance, BreakTypeOK, Later, None
    <3>. QED
      BY <1>3, <2>1, <3>1, <3>2 DEF Advance, BreakTypeOK
  <2>. QED
    BY <2>2, <2>3
<1>4. CASE TickSync
  BY <1>0, <1>1, <1>2, <1>4 DEF TickSync
<1>5. CASE TickOverlay
  BY <1>5 DEF TickOverlay, BreakTypeOK, Today
<1>6. ASSUME NEW label \in Labels, TickNote(label) PROVE BreakTypeOK'
  <2>1. /\ spans' \in Seq(Span) /\ Len(spans') >= Len(Today)
        /\ oldCut \/ playCut <= Len(Today)
    BY <1>6, TodayTypes, NotedTypes DEF TickNote
  <2>2. Today' = spans' /\ settled' = TRUE
    BY <1>6 DEF TickNote, Prepare, Today
  <2>3. sat' \in Nat \union {None}
    BY <1>6 DEF TickNote, BreakTypeOK
  <2>4. oldCut' \/ playCut' <= Len(Today')
    BY <1>6, <2>1, <2>2 DEF TickNote, BreakTypeOK
  <2>. QED
    BY <1>6, <2>1, <2>2, <2>3, <2>4 DEF TickNote, BreakTypeOK, Span
<1>7. CASE Status
  BY <1>0, <1>1, <1>2, <1>7 DEF Status
<1>8. CASE LiftBreak
  BY <1>0, <1>1, <1>8 DEF LiftBreak
<1>9. CASE Reopen
  BY <1>0, <1>1, <1>9 DEF Reopen
<1>10. CASE SetParentPIN
  BY <1>10 DEF SetParentPIN, BreakTypeOK, Today
<1>11. CASE ClockMoves
  BY <1>0, <1>1, <1>11 DEF ClockMoves
<1>12. CASE UNCHANGED breakVars
  BY <1>12 DEF breakVars, BreakTypeOK, Today
<1>. QED
  BY <1>3, <1>4, <1>5, <1>6, <1>7, <1>8, <1>9, <1>10, <1>11, <1>12 DEF BreakNext

\* Every variable has its type, and the cut is a row of the day or of an
\* earlier one (noteTodayLocked, closeSittingLocked).
THEOREM BreakTypes == BreakSpec => []BreakTypeOK
  BY TypesInit, TypesStep, PTL DEF BreakSpec

-----------------------------------------------------------------------------
(* The sitting                                                             *)

\* The rows of a sitting after the row cut.
ChainOf(s, cut) ==
    {k \in cut + 1 .. Len(s) : \A i \in k + 1 .. Len(s) : s[i].start - s[i - 1].updated <= Away}

\* The sitting began with the first row of the chain, no longer ago than the
\* kid sat down, and exactly then unless the cut is an old one.  A second is
\* noted for each instant, one more for the first, and one for a tick that is
\* late; owed are those still to come in this instant.
Backed(s, cut, now, seat, old, owed) ==
    \E k \in ChainOf(s, cut) :
        /\ \A j \in ChainOf(s, cut) : k <= j
        /\ now - s[k].start <= seat /\ (~old => now - s[k].start = seat)
        /\ Sum(s, ChainOf(s, cut)) + owed <= now - s[k].start + 2

Owed == (IF call = "idle" THEN 0 ELSE 1) + (IF ticked THEN 0 ELSE 1)

\* Where the kid is: at a window since `since', or up and gone for longer
\* than a row lasts.
Seen ==
    /\ sat # None => settled /\ Len(spans) > 0 /\ since = tod - spans[Len(spans)].updated
    /\ sat = None /\ settled /\ Len(spans) > 0 => tod - spans[Len(spans)].updated > Gap

SatInv ==
    /\ Seen
    /\ settled /\ Len(spans) > playCut =>
         sat # None /\ Backed(spans, playCut, tod, sat, oldCut, Owed)
    /\ sat # None /\ ~oldCut => Len(spans) > playCut

LEMMA SpanTypes ==
    /\ \A x \in Span : x.start \in Nat /\ x.updated \in Int /\ x.seconds \in Nat
    /\ \A s \in Seq(Span) : Len(s) \in Nat /\ \A i \in 1 .. Len(s) : s[i] \in Span
<1>1. \A x \in Span : x.start \in Nat /\ x.seconds \in Nat /\ x.updated \in Int
  BY PlayAssumption DEF Span
<1>. QED
  BY <1>1

LEMMA ChainFacts ==
    ASSUME NEW s \in Seq(Span), NEW cut \in Nat
    PROVE  /\ ChainOf(s, cut) \subseteq 1 .. Len(s)
           /\ Counts(s, ChainOf(s, cut))
           /\ Len(s) > cut <=> ChainOf(s, cut) # {}
<1>1. ChainOf(s, cut) \subseteq 1 .. Len(s)
  BY DEF ChainOf
<1>2. IsFiniteSet(ChainOf(s, cut))
  <2>1. IsFiniteSet(1 .. Len(s))
    BY FS_Interval, SpanTypes
  <2>. QED
    BY <1>1, <2>1, FS_Subset
<1>3. \A i \in ChainOf(s, cut) : s[i].seconds \in Nat
  BY <1>1, SpanTypes
<1>4. Len(s) > cut => Len(s) \in ChainOf(s, cut)
  BY DEF ChainOf
<1>5. ChainOf(s, cut) # {} => Len(s) > cut
  BY DEF ChainOf
<1>. QED
  BY <1>1, <1>2, <1>3, <1>4, <1>5 DEF Counts

\* A new row joins the chain, or begins one.
LEMMA ChainAppend ==
    ASSUME NEW s \in Seq(Span), NEW cut \in Nat, NEW row \in Span, cut <= Len(s)
    PROVE  ChainOf(Append(s, row), cut) =
             IF Len(s) > cut /\ row.start - s[Len(s)].updated <= Away
             THEN ChainOf(s, cut) \union {Len(s) + 1} ELSE {Len(s) + 1}
<1>. DEFINE n == Len(s)
            t == Append(s, row)
<1>1. /\ n \in Nat /\ Len(t) = n + 1 /\ t[n + 1] = row
      /\ \A i \in 1 .. n : t[i] = s[i]
  BY SpanTypes
<1>. HIDE DEF t
<1>2. n + 1 \in ChainOf(t, cut)
  BY <1>1 DEF ChainOf
<1>3. ASSUME NEW k \in cut + 1 .. n
      PROVE  k \in ChainOf(t, cut) <=> k \in ChainOf(s, cut) /\ row.start - s[n].updated <= Away
  <2>1. \A i \in k + 1 .. n : t[i].start - t[i - 1].updated = s[i].start - s[i - 1].updated
    BY <1>1
  <2>2. t[n + 1].start - t[(n + 1) - 1].updated = row.start - s[n].updated
    BY <1>1
  <2>3. n + 1 \in k + 1 .. n + 1 /\ k + 1 .. n + 1 = (k + 1 .. n) \union {n + 1}
    BY <1>1
  <2>4. /\ k \in ChainOf(t, cut) <=>
             \A i \in k + 1 .. n + 1 : t[i].start - t[i - 1].updated <= Away
        /\ k \in ChainOf(s, cut) <=>
             \A i \in k + 1 .. n : s[i].start - s[i - 1].updated <= Away
    BY <1>1 DEF ChainOf
  <2>5. ASSUME k \in ChainOf(t, cut)
        PROVE  k \in ChainOf(s, cut) /\ row.start - s[n].updated <= Away
    BY <2>1, <2>2, <2>3, <2>4, <2>5
  <2>6. ASSUME k \in ChainOf(s, cut), row.start - s[n].updated <= Away
        PROVE  k \in ChainOf(t, cut)
    <3>. SUFFICES ASSUME NEW i \in k + 1 .. n + 1 PROVE t[i].start - t[i - 1].updated <= Away
      BY <2>4
    <3>1. CASE i = n + 1
      BY <2>2, <2>6, <3>1
    <3>2. CASE i \in k + 1 .. n
      BY <2>1, <2>4, <2>6, <3>2
    <3>. QED
      BY <2>3, <3>1, <3>2
  <2>. QED
    BY <2>5, <2>6
<1>4. ChainOf(t, cut) \subseteq (cut + 1 .. n) \union {n + 1} /\ ChainOf(s, cut) \subseteq cut + 1 .. n
  BY <1>1 DEF ChainOf
<1>5. CASE n > cut /\ row.start - s[n].updated <= Away
  BY <1>2, <1>3, <1>4, <1>5 DEF t
<1>6. CASE n <= cut
  BY <1>1, <1>2, <1>4, <1>6 DEF t
<1>7. CASE ~ (row.start - s[n].updated <= Away)
  BY <1>2, <1>3, <1>4, <1>7 DEF t
<1>. QED
  BY <1>1, <1>5, <1>6, <1>7

\* A note on the last row changes no chain.
LEMMA ChainTouched ==
    ASSUME NEW s \in Seq(Span), NEW cut \in Nat, NEW row \in Span, Len(s) > 0,
           row.start = s[Len(s)].start
    PROVE  ChainOf([s EXCEPT ![Len(s)] = row], cut) = ChainOf(s, cut)
<1>. DEFINE n == Len(s)
            t == [s EXCEPT ![n] = row]
<1>1. n \in Nat /\ Len(t) = n /\ \A i \in 1 .. n : t[i] = IF i = n THEN row ELSE s[i]
  BY SpanTypes
<1>. HIDE DEF t
<1>2. \A k \in cut + 1 .. n : \A i \in k + 1 .. n :
        t[i].start = s[i].start /\ t[i - 1].updated = s[i - 1].updated
  BY <1>1
<1>. QED
  BY <1>1, <1>2 DEF ChainOf, t

\* The instant moves on, or less is owed.
LEMMA BackedLater ==
    ASSUME NEW s \in Seq(Span), NEW cut \in Nat, NEW now \in Int, NEW seat \in Int, NEW old,
           NEW owed \in Int, Backed(s, cut, now, seat, old, owed),
           NEW d \in {0, 1}, NEW less \in Int, less <= owed + d
    PROVE  Backed(s, cut, now + d, seat + d, old, less)
<1>. DEFINE C == ChainOf(s, cut)
            total == Sum(s, C)
<1>1. PICK k \in C : /\ \A j \in C : k <= j
                     /\ now - s[k].start <= seat /\ (~old => now - s[k].start = seat)
                     /\ total + owed <= now - s[k].start + 2
  BY DEF Backed
<1>2. total \in Nat
  BY ChainFacts, SumNat
<1>3. s[k].start \in Nat
  BY ChainFacts, SpanTypes
<1>. HIDE DEF total, C
<1>4. /\ (now + d) - s[k].start <= seat + d
      /\ ~old => (now + d) - s[k].start = seat + d
      /\ total + less <= (now + d) - s[k].start + 2
  <2>. DEFINE begun == s[k].start
  <2>1. /\ begun \in Int /\ total \in Int /\ d \in Int
        /\ now - begun <= seat /\ total + owed <= now - begun + 2
        /\ ~old => now - begun = seat
    BY <1>1, <1>2, <1>3
  <2>. HIDE DEF begun
  <2>2. (now + d) - begun <= seat + d /\ total + less <= (now + d) - begun + 2
    BY <2>1
  <2>3. ~old => (now + d) - begun = seat + d
    BY <2>1
  <2>. QED
    BY <2>2, <2>3 DEF begun
<1>. QED
  BY <1>1, <1>4 DEF Backed, total, C

\* A chain of one new row.
LEMMA BackedNew ==
    ASSUME NEW s \in Seq(Span), NEW cut \in Nat, NEW row \in Span, cut <= Len(s),
           ~ (Len(s) > cut /\ row.start - s[Len(s)].updated <= Away),
           row.seconds = 1, NEW seat \in Nat, NEW old, ~old => seat = 0,
           NEW owed \in Int, owed <= 1
    PROVE  Backed(Append(s, row), cut, row.start, seat, old, owed)
<1>. DEFINE t == Append(s, row)
            n == Len(s) + 1
<1>1. ChainOf(t, cut) = {n}
  BY ChainAppend
<1>2. t \in Seq(Span) /\ t[n] = row /\ n \in Nat /\ row.start \in Nat
  BY SpanTypes
<1>. HIDE DEF t, n
<1>3. Counts(t, {n})
  BY <1>1, <1>2, ChainFacts
<1>4. Sum(t, {n}) = 1
  <2>1. Sum(t, {n}) = t[n].seconds + Sum(t, {n} \ {n})
    BY <1>3, SumOne
  <2>2. Sum(t, {n} \ {n}) = 0
    BY SumNone
  <2>. QED
    BY <1>2, <2>1, <2>2
<1>5. /\ \A j \in {n} : n <= j
      /\ row.start - t[n].start <= seat /\ (~old => row.start - t[n].start = seat)
      /\ Sum(t, {n}) + owed <= row.start - t[n].start + 2
  BY <1>2, <1>4
<1>. QED
  BY <1>1, <1>5 DEF Backed, t

\* A chain with one more row.
LEMMA BackedMore ==
    ASSUME NEW s \in Seq(Span), NEW cut \in Nat, NEW row \in Span,
           Len(s) > cut, row.start - s[Len(s)].updated <= Away, row.seconds = 1,
           NEW now \in Int, NEW seat \in Int, NEW old, NEW owed \in Int,
           Backed(s, cut, now, seat, old, owed)
    PROVE  Backed(Append(s, row), cut, now, seat, old, owed - 1)
<1>. DEFINE t == Append(s, row)
            n == Len(s)
            C == ChainOf(s, cut)
            D == C \union {n + 1}
<1>1. ChainOf(t, cut) = D
  BY ChainAppend
<1>2. /\ t \in Seq(Span) /\ t[n + 1] = row /\ n \in Nat
      /\ \A i \in 1 .. n : t[i] = s[i]
  BY SpanTypes
<1>3. C \subseteq 1 .. n /\ Counts(s, C)
  BY ChainFacts
<1>4. PICK k \in C : /\ \A j \in C : k <= j
                     /\ now - s[k].start <= seat /\ (~old => now - s[k].start = seat)
                     /\ Sum(s, C) + owed <= now - s[k].start + 2
  BY DEF Backed
<1>. HIDE DEF t, n, C
<1>5. Counts(t, D)
  BY <1>1, <1>2, ChainFacts
<1>6. Sum(t, D) = Sum(s, C) + 1
  <2>1. D \ {n + 1} = C
    BY <1>2, <1>3
  <2>2. Sum(t, D) = t[n + 1].seconds + Sum(t, C)
    BY <1>5, <2>1, SumOne
  <2>3. Sum(s, C) = Sum(t, C)
    BY <1>2, <1>3, SumSame
  <2>4. Sum(s, C) \in Nat
    BY <1>3, SumNat
  <2>. QED
    BY <1>2, <2>2, <2>3, <2>4
<1>7. k \in D /\ t[k] = s[k] /\ \A j \in D : k <= j
  BY <1>2, <1>3, <1>4
<1>8. Sum(t, D) + (owed - 1) <= now - t[k].start + 2
  <2>1. Sum(s, C) \in Nat /\ s[k].start \in Nat
    BY <1>2, <1>3, <1>4, SumNat, SpanTypes DEF n
  <2>. QED
    BY <1>4, <1>6, <1>7, <2>1
<1>. QED
  BY <1>1, <1>4, <1>7, <1>8 DEF Backed, t

\* One more second on the last row.
LEMMA BackedTouched ==
    ASSUME NEW s \in Seq(Span), NEW cut \in Nat, NEW row \in Span, Len(s) > cut,
           row.start = s[Len(s)].start, row.seconds = s[Len(s)].seconds + 1,
           NEW now \in Int, NEW seat \in Int, NEW old, NEW owed \in Int,
           Backed(s, cut, now, seat, old, owed)
    PROVE  Backed([s EXCEPT ![Len(s)] = row], cut, now, seat, old, owed - 1)
<1>. DEFINE n == Len(s)
            t == [s EXCEPT ![n] = row]
            C == ChainOf(s, cut)
<1>1. ChainOf(t, cut) = C
  BY ChainTouched
<1>0. n \in Nat /\ n > 0
  OBVIOUS
<1>2. t \in Seq(Span) /\ \A i \in 1 .. n : t[i] = IF i = n THEN row ELSE s[i]
  BY <1>0, ExceptSeq
<1>3. C \subseteq 1 .. n /\ Counts(s, C) /\ n \in C
  BY ChainFacts DEF ChainOf
<1>4. PICK k \in C : /\ \A j \in C : k <= j
                     /\ now - s[k].start <= seat /\ (~old => now - s[k].start = seat)
                     /\ Sum(s, C) + owed <= now - s[k].start + 2
  BY DEF Backed
<1>5. Counts(t, C)
  BY <1>1, <1>0, <1>2, ChainFacts
<1>n. row.start = s[n].start /\ row.seconds = s[n].seconds + 1
  OBVIOUS
<1>. HIDE DEF t, n, C
<1>6. Sum(t, C) = Sum(s, C) + 1
  <2>. DEFINE D == C \ {n}
  <2>1. Sum(t, C) = t[n].seconds + Sum(t, D) /\ Sum(s, C) = s[n].seconds + Sum(s, D)
    BY <1>3, <1>5, SumOne
  <2>2. IsFiniteSet(D)
    BY <1>3, FS_Subset DEF Counts
  <2>3. Counts(s, D) /\ \A i \in D : s[i].seconds = t[i].seconds
    BY <1>0, <1>2, <1>3, <2>2 DEF Counts
  <2>4. Sum(s, D) = Sum(t, D) /\ Sum(s, D) \in Nat
    BY <2>3, SumSame, SumNat
  <2>5. t[n].seconds = s[n].seconds + 1 /\ s[n].seconds \in Nat
    BY <1>0, <1>2, <1>3, <1>n DEF Counts
  <2>. QED
    BY <2>1, <2>4, <2>5
<1>7. t[k].start = s[k].start
  BY <1>0, <1>2, <1>3, <1>4, <1>n
<1>8. Sum(t, C) + (owed - 1) <= now - t[k].start + 2
  <2>1. Sum(s, C) \in Nat /\ s[k].start \in Nat
    BY <1>0, <1>2, <1>3, <1>4, SumNat, SpanTypes DEF n
  <2>. QED
    BY <1>4, <1>6, <1>7, <2>1
<1>. QED
  BY <1>1, <1>4, <1>7, <1>8 DEF Backed, t, n

LEMMA OwedType ==
    ASSUME BreakTypeOK PROVE Owed \in 0 .. 2 /\ (call = "idle" => Owed <= 1)
  BY DEF BreakTypeOK, Owed

LEMMA RowsKept ==
    ASSUME BreakTypeOK, SatInv, UNCHANGED tod, Owed' \in Int, Owed' <= Owed,
           \/ Prepare /\ KeepRows
           \/ UNCHANGED <<settled, spans, playCut, sat, since, oldCut>>
    PROVE  SatInv'
<1>0. /\ spans \in Seq(Span) /\ playCut \in Nat /\ tod \in Int /\ Owed \in Int
      /\ sat # None => sat \in Int
  BY OwedType DEF BreakTypeOK, Span
<1>1. CASE settled' = settled /\ spans' = spans /\ UNCHANGED <<playCut, sat, since, oldCut>>
  <2>1. ASSUME settled, Len(spans) > playCut
        PROVE  sat # None /\ Backed(spans, playCut, tod, sat, oldCut, Owed')
    <3>1. sat # None /\ Backed(spans, playCut, tod, sat, oldCut, Owed)
      BY <2>1 DEF SatInv
    <3>2. Backed(spans, playCut, tod + 0, sat + 0, oldCut, Owed')
      BY <1>0, <3>1, BackedLater
    <3>3. tod + 0 = tod /\ sat + 0 = sat
      BY <1>0, <3>1
    <3>. QED
      BY <3>1, <3>2, <3>3
  <2>2. Seen' /\ (sat' # None /\ ~oldCut' => Len(spans') > playCut')
    BY <1>1 DEF SatInv, Seen
  <2>. QED
    BY <1>1, <2>1, <2>2 DEF SatInv
<1>2. CASE ~settled /\ spans' = <<>> /\ UNCHANGED <<playCut, sat, since, oldCut>>
  <2>1. sat' = None /\ Len(spans') = 0 /\ playCut' \in Nat
    BY <1>0, <1>2 DEF SatInv, Seen
  <2>. QED
    BY <2>1 DEF SatInv, Seen
<1>. QED
  BY <1>1, <1>2 DEF Prepare, KeepRows, Today, BreakTypeOK

LEMMA SittingClosed ==
    ASSUME BreakTypeOK, SatInv, UNCHANGED tod, Prepare, CloseSitting(Today)
    PROVE  SatInv'
<1>1. Today \in Seq(Span) /\ Len(Today) \in Nat /\ playCut \in Nat
  BY TodayTypes, SpanTypes DEF BreakTypeOK
<1>2. /\ spans' = Stale(Today) /\ sat' = None
      /\ playCut' = IF Len(Today) > playCut THEN Len(Today) ELSE playCut
  BY DEF CloseSitting
<1>3. /\ Len(spans') = Len(Today)
      /\ Len(spans') > 0 => tod' - spans'[Len(spans')].updated > Gap
  BY <1>1, <1>2, StaleTypes
<1>4. ~ (Len(spans') > playCut')
  BY <1>1, <1>2, <1>3
<1>. QED
  BY <1>2, <1>3, <1>4 DEF SatInv, Seen

LEMMA InstantPasses == ASSUME BreakTypeOK, SatInv, Advance PROVE SatInv'
<1>0. /\ spans \in Seq(Span) /\ playCut \in Nat /\ tod \in Int /\ Owed \in Int
      /\ sat # None => sat \in Int
  BY OwedType DEF BreakTypeOK, Span
<1>1. CASE tod = DayLen - 1
  BY <1>1 DEF Advance, SatInv, Seen
<1>2. CASE tod # DayLen - 1
  <2>1. /\ tod' = tod + 1 /\ sat' = (IF sat = None THEN None ELSE sat + 1)
        /\ since' = (IF sat = None THEN 0 ELSE since + 1)
        /\ UNCHANGED <<settled, oldCut, spans, playCut, call>> /\ ticked' = FALSE
    BY <1>2 DEF Advance, Later
  <2>2. Owed' <= Owed + 1 /\ Owed' \in Int
    BY <2>1 DEF Owed, BreakTypeOK
  <2>3. sat = None <=> sat' = None
    BY <2>1 DEF None, BreakTypeOK
  <2>4. ASSUME settled, Len(spans) > playCut
        PROVE  sat' # None /\ Backed(spans, playCut, tod', sat', oldCut, Owed')
    <3>1. sat # None /\ Backed(spans, playCut, tod, sat, oldCut, Owed)
      BY <2>4 DEF SatInv
    <3>2. Backed(spans, playCut, tod + 1, sat + 1, oldCut, Owed')
      BY <1>0, <2>2, <3>1, BackedLater
    <3>. QED
      BY <2>1, <2>3, <3>1, <3>2
  <2>5. Seen'
    <3>1. Len(spans) > 0 => spans[Len(spans)].updated \in Int
      BY <1>0, SpanTypes
    <3>2. ASSUME sat' # None
          PROVE  settled' /\ Len(spans') > 0 /\ since' = tod' - spans'[Len(spans')].updated
      BY <1>0, <2>1, <2>3, <3>1, <3>2 DEF SatInv, Seen
    <3>3. ASSUME sat' = None, settled', Len(spans') > 0
          PROVE  tod' - spans'[Len(spans')].updated > Gap
      BY <1>0, <2>1, <2>3, <3>1, <3>3, PlayAssumption DEF SatInv, Seen
    <3>. QED
      BY <3>2, <3>3 DEF Seen
  <2>. QED
    BY <2>1, <2>3, <2>4, <2>5 DEF SatInv
<1>. QED
  BY <1>1, <1>2

LEMMA KidIsSeen ==
    ASSUME BreakTypeOK, SatInv, NEW label \in Labels, TickNote(label)
    PROVE  SatInv'
<1>. DEFINE s == Today
            n == Len(s)
            seat == IF sat = None \/ since > Away THEN 0 ELSE sat
<1>0. /\ s \in Seq(Span) /\ n \in Nat /\ playCut \in Nat /\ tod \in Int /\ Owed \in Int
      /\ Gap \in Nat /\ Away \in Nat /\ Gap <= Away
      /\ sat # None => sat \in Nat
      /\ n > 0 => s[n].updated \in Int /\ s[n] \in Span
  BY OwedType, TodayTypes, SpanTypes, PlayAssumption DEF BreakTypeOK
<1>1. /\ spans' = Noted(s, label) /\ sat' = seat /\ since' = 0 /\ settled' = TRUE
      /\ UNCHANGED <<tod, playCut, oldCut>>
  BY DEF TickNote, Prepare
<1>2. Owed' = Owed - 1 /\ Owed <= 2
  BY DEF TickNote, Owed, BreakTypeOK
<1>3. seat \in Nat /\ sat' # None
  BY <1>0, <1>1 DEF None
\* what is known of the rows so far
<1>4. n > 0 => settled /\ s = spans
  BY DEF Today
<1>5. n > playCut =>
        sat # None /\ since = tod - s[n].updated /\ Backed(s, playCut, tod, sat, oldCut, Owed)
  BY <1>0, <1>4 DEF SatInv, Seen
<1>6. n <= playCut /\ ~oldCut => sat = None
  <2>1. CASE settled
    BY <1>0, <2>1 DEF SatInv, Today
  <2>2. CASE ~settled
    BY <2>2 DEF SatInv, Seen
  <2>. QED
    BY <2>1, <2>2
<1>7. CASE n > 0 /\ s[n].label = label /\ tod - s[n].updated <= Gap
  <2>. DEFINE row == [s[n] EXCEPT !.seconds = s[n].seconds + 1, !.updated = tod]
  <2>1. Noted(s, label) = [s EXCEPT ![n] = row]
    BY <1>7 DEF Noted
  <2>0. s[n] \in Span /\ n \in 1 .. n
    BY <1>0, <1>7
  <2>2. row.start = s[n].start /\ row.seconds = s[n].seconds + 1 /\ row.updated = tod
    BY <2>0 DEF Span
  <2>3. row \in Span /\ Len(spans') = n /\ spans'[n] = row
    <3>1. spans' \in Seq(Span)
      BY <1>0, <1>1, NotedTypes
    <3>. HIDE DEF row
    <3>2. Noted(s, label)[n] = row /\ Len(Noted(s, label)) = n
      BY <1>0, <2>0, <2>1
    <3>. QED
      BY <1>1, <2>0, <3>1, <3>2, SpanTypes
  <2>4. sat # None /\ since = tod - s[n].updated /\ seat = sat
    BY <1>0, <1>4, <1>7 DEF SatInv, Seen
  <2>5. ASSUME n > playCut PROVE Backed(spans', playCut, tod, seat, oldCut, Owed - 1)
    <3>1. Backed(s, playCut, tod, sat, oldCut, Owed) /\ sat \in Int
      BY <1>0, <1>5, <2>4, <2>5
    <3>. HIDE DEF s, n, row, seat
    <3>2. Backed([s EXCEPT ![Len(s)] = row], playCut, tod, sat, oldCut, Owed - 1)
      BY <1>0, <2>2, <2>3, <2>5, <3>1, BackedTouched DEF n
    <3>. QED
      BY <1>1, <2>1, <2>4, <3>2 DEF n
  <2>6. sat' # None /\ ~oldCut' => Len(spans') > playCut'
    BY <1>0, <1>1, <1>6, <2>3, <2>4
  <2>7. Seen'
    BY <1>0, <1>1, <1>3, <1>7, <2>2, <2>3 DEF Seen
  <2>. QED
    BY <1>1, <1>2, <1>3, <2>3, <2>5, <2>6, <2>7 DEF SatInv
<1>8. CASE ~ (n > 0 /\ s[n].label = label /\ tod - s[n].updated <= Gap)
  <2>. DEFINE row == [label |-> label, start |-> tod, updated |-> tod, seconds |-> 1]
  <2>1. Noted(s, label) = Append(s, row)
    BY <1>8 DEF Noted
  <2>2. row \in Span /\ row.start = tod /\ row.updated = tod /\ row.seconds = 1
    BY PlayAssumption DEF Span, BreakTypeOK
  <2>3. Len(spans') = n + 1 /\ spans'[n + 1] = row
    BY <1>0, <1>1, <2>1
  <2>4. ASSUME playCut <= n PROVE Backed(spans', playCut, tod, seat, oldCut, Owed - 1)
    <3>1. CASE n > playCut /\ since <= Away
      <4>1. /\ sat \in Int /\ seat = sat /\ tod - s[n].updated <= Away
            /\ Backed(s, playCut, tod, sat, oldCut, Owed)
        BY <1>0, <1>5, <3>1
      <4>. HIDE DEF s, n, row, seat
      <4>2. Backed(Append(s, row), playCut, tod, sat, oldCut, Owed - 1)
        BY <1>0, <2>2, <3>1, <4>1, BackedMore DEF n
      <4>. QED
        BY <1>1, <2>1, <4>1, <4>2
    <3>2. CASE ~ (n > playCut /\ since <= Away)
      <4>1. ~ (n > playCut /\ tod - s[n].updated <= Away)
        BY <1>5, <3>2
      <4>2. ~oldCut => seat = 0
        BY <1>0, <1>5, <1>6, <3>2 DEF BreakTypeOK
      <4>3. Owed - 1 \in Int /\ Owed - 1 <= 1
        BY <1>0, <1>2
      <4>. HIDE DEF s, n, row, seat
      <4>4. Backed(Append(s, row), playCut, row.start, seat, oldCut, Owed - 1)
        BY <1>0, <1>3, <2>2, <2>4, <4>1, <4>2, <4>3, BackedNew DEF n
      <4>. QED
        BY <1>1, <2>1, <2>2, <4>4
    <3>. QED
      BY <3>1, <3>2
  <2>5. sat' # None /\ ~oldCut' => Len(spans') > playCut'
    <3>1. oldCut \/ playCut <= n
      BY TodayTypes
    <3>. QED
      BY <1>0, <1>1, <2>3, <3>1
  <2>6. Seen'
    BY <1>0, <1>1, <1>3, <2>2, <2>3 DEF Seen
  <2>. QED
    BY <1>0, <1>1, <1>2, <1>3, <2>3, <2>4, <2>5, <2>6 DEF SatInv
<1>. QED
  BY <1>7, <1>8

LEMMA SatStep == BreakTypeOK /\ SatInv /\ [BreakNext]_breakVars => SatInv'
<1>. SUFFICES ASSUME BreakTypeOK, SatInv, [BreakNext]_breakVars PROVE SatInv'
  OBVIOUS
<1>1. ASSUME UNCHANGED tod, Owed' \in Int, Owed' <= Owed, Prepare,
             KeepRows \/ CloseSitting(Today)
      PROVE  SatInv'
  BY <1>1, RowsKept, SittingClosed
<1>2. SyncBreak => KeepRows \/ CloseSitting(Today)
  BY DEF SyncBreak
<1>3. UNCHANGED <<call, ticked>> => Owed' = Owed
  BY DEF Owed
<1>4. Owed \in Int /\ Owed <= Owed
  BY OwedType
<1>5. CASE TickSync
  <2>1. Owed' = Owed /\ UNCHANGED tod
    BY <1>5 DEF TickSync, Owed
  <2>. QED
    BY <1>1, <1>2, <1>4, <1>5, <2>1 DEF TickSync
<1>6. CASE TickOverlay
  <2>1. Owed' <= Owed /\ Owed' \in Int
    BY <1>6 DEF TickOverlay, Owed, BreakTypeOK
  <2>. QED
    BY <1>6, <2>1, RowsKept DEF TickOverlay
<1>7. CASE Status
  BY <1>1, <1>2, <1>3, <1>4, <1>7 DEF Status
<1>8. CASE LiftBreak
  BY <1>1, <1>3, <1>4, <1>8 DEF LiftBreak
<1>9. CASE Reopen
  <2>1. Owed' <= Owed /\ Owed' \in Int
    BY <1>9 DEF Reopen, Owed, BreakTypeOK
  <2>. QED
    BY <1>1, <1>9, <2>1 DEF Reopen
<1>10. CASE SetParentPIN
  BY <1>3, <1>4, <1>10, RowsKept DEF SetParentPIN
<1>11. CASE ClockMoves
  BY <1>1, <1>3, <1>4, <1>11 DEF ClockMoves
<1>12. CASE UNCHANGED breakVars
  BY <1>3, <1>4, <1>12, RowsKept DEF breakVars
<1>. QED
  BY <1>5, <1>6, <1>7, <1>8, <1>9, <1>10, <1>11, <1>12, InstantPasses, KidIsSeen DEF BreakNext

\* What sittingSecondsLocked returns, between what the kid has sat and two
\* seconds more.
LEMMA SittingIs ==
    ASSUME BreakTypeOK, SatInv
    PROVE  /\ Sitting(Today) \in Int
           /\ Sitting(Today) >= Play => sat # None /\ sat >= Play - 2
           /\ sat # None /\ ~oldCut => Sitting(Today) >= sat
<1>. DEFINE s == Today
            C == Chain(s)
<1>0. /\ s \in Seq(Span) /\ playCut \in Nat /\ tod \in Int /\ Play \in Nat \ {0}
      /\ C = ChainOf(s, playCut) /\ Owed \in 0 .. 2
  BY OwedType, TodayTypes, PlayAssumption DEF BreakTypeOK, Chain, ChainOf
<1>1. CASE C = {}
  <2>1. Sitting(s) = 0
    BY <1>1 DEF Sitting
  <2>2. ~ (Len(s) > playCut)
    BY <1>0, <1>1, ChainFacts
  <2>3. ~ (sat # None /\ ~oldCut)
    BY <2>2 DEF SatInv, Seen, Today
  <2>. QED
    BY <1>0, <2>1, <2>3
<1>2. CASE C # {}
  <2>1. Len(s) > playCut
    BY <1>0, <1>2, ChainFacts
  <2>2. settled /\ s = spans
    BY <1>0, <2>1 DEF Today
  <2>3. sat # None /\ Backed(s, playCut, tod, sat, oldCut, Owed)
    BY <2>1, <2>2 DEF SatInv
  <2>4. PICK k \in C : /\ \A j \in C : k <= j
                       /\ tod - s[k].start <= sat /\ (~oldCut => tod - s[k].start = sat)
                       /\ Sum(s, C) + Owed <= tod - s[k].start + 2
    BY <1>0, <2>3 DEF Backed
  <2>5. C \subseteq Nat /\ k \in Nat
    BY <1>0, ChainFacts, SpanTypes
  <2>6. Min(C) = k
    <3>1. Min(C) \in C /\ Min(C) <= k
      BY <1>2, <2>5, MinIsFirst
    <3>. QED
      BY <2>4, <2>5, <3>1
  <2>7. s[k].start \in Nat /\ Sum(s, C) \in Nat /\ sat \in Int
    <3>1. C \subseteq 1 .. Len(s) /\ Counts(s, C)
      BY <1>0, ChainFacts
    <3>2. s[k].start \in Nat
      BY <1>0, <3>1, SpanTypes
    <3>3. Sum(s, C) \in Nat
      BY <3>1, SumNat
    <3>4. sat \in Int
      BY <2>3 DEF BreakTypeOK
    <3>. QED
      BY <3>2, <3>3, <3>4
  <2>. DEFINE wall == tod - s[k].start
              total == Sum(s, C)
  <2>8. Sitting(s) = IF total > wall THEN total ELSE wall
    BY <1>2, <2>6 DEF Sitting, Sum
  <2>9. /\ wall \in Int /\ total \in Int
        /\ wall <= sat /\ (~oldCut => wall = sat) /\ total <= wall + 2
    <3>1. /\ wall <= sat /\ (~oldCut => wall = sat) /\ total + Owed <= wall + 2
      BY <2>4
    <3>2. wall \in Int /\ total \in Int /\ Owed \in Nat
      BY <1>0, <2>7
    <3>. HIDE DEF wall, total
    <3>3. total <= wall + 2
      BY <3>1, <3>2
    <3>. QED
      BY <3>1, <3>2, <3>3
  <2>. HIDE DEF wall, total, s
  <2>10. /\ Sitting(s) \in Int /\ Sitting(s) <= wall + 2 /\ Sitting(s) >= wall
    BY <2>8, <2>9
  <2>. QED
    BY <1>0, <2>3, <2>7, <2>9, <2>10 DEF s
<1>. QED
  BY <1>1, <1>2

LEMMA SatInit == BreakInit => SatInv
  BY DEF BreakInit, SatInv, Seen

LEMMA SatAlways == BreakSpec => [](BreakTypeOK /\ SatInv)
  BY TypesInit, TypesStep, SatInit, SatStep, PTL DEF BreakSpec

\* A break never comes before the kid has sat for PLAY since the last one, up
\* to the two seconds that notes may run ahead, in whatever order ticks, polls,
\* windows, absences and restarts come (syncPlayBreakLocked, noteTodayLocked,
\* closeSittingLocked).
THEOREM BreakNotEarly == BreakSpec => BreakIsEarned
<1>1. ASSUME BreakTypeOK, SatInv, [BreakNext]_breakVars, brk = 0, brk' > 0
      PROVE  sat # None /\ sat >= Play - 2
  <2>1. ~ UNCHANGED brk
    BY <1>1
  <2>2. SyncBreak
    BY <1>1, <2>1
       DEF BreakNext, breakVars, Advance, TickSync, TickOverlay, TickNote, Status, LiftBreak,
           Reopen, SetParentPIN, ClockMoves
  <2>3. Due(Today)
    BY <2>1, <2>2 DEF SyncBreak
  <2>. QED
    BY <1>1, <2>3, SittingIs DEF Due
<1>2. BreakTypeOK /\ SatInv /\ [BreakNext]_breakVars
        => [brk = 0 /\ brk' > 0 => sat # None /\ sat >= Play - 2]_breakVars
  BY <1>1
<1>. QED
  BY <1>2, SatAlways, PTL DEF BreakSpec, BreakIsEarned

\* A tick that comes when the kid has sat for PLAY starts the break, if the
\* last break was of today (syncPlayBreakLocked, sittingSecondsLocked).
THEOREM BreakNotLate == BreakSpec => TodaysBreakStarts
<1>1. ASSUME BreakTypeOK, SatInv, TickSync, BreakIsDue, ~oldCut PROVE brk' = Break
  <2>1. /\ Sitting(Today) \in Int /\ Sitting(Today) >= sat
        /\ sat >= Play /\ sat \in Int /\ Play \in Int
    BY <1>1, SittingIs, PlayAssumption DEF BreakIsDue, BreakTypeOK
  <2>3. Sitting(Today) >= Play
    BY <2>1
  <2>2. Due(Today)
    BY <1>1, <2>3 DEF BreakIsDue, Due
  <2>. QED
    BY <1>1, <2>2 DEF TickSync, SyncBreak
<1>2. BreakTypeOK /\ SatInv /\ [BreakNext]_breakVars
        => [TickSync /\ BreakIsDue /\ ~oldCut => brk' = Break]_breakVars
  BY <1>1
<1>. QED
  BY <1>2, SatAlways, PTL DEF BreakSpec, TodaysBreakStarts
=============================================================================
