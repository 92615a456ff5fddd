----------------------------- MODULE Seat_proofs -----------------------------
(***************************************************************************)
(* What holds for any users, goroutines and restarts: the stay-awake file  *)
(* of a user who switched it on is not removed, as long as a session ends  *)
(* before another user's begins; and, as long as a cancelled goroutine is  *)
(* gone before the next tick, one at most speaks for the session, and what *)
(* is said of input is said only while it runs.                            *)
(***************************************************************************)
EXTENDS Seat, TLAPS

LoopRec == [at : {"free", "dial", "hand", "note", "wait", "end"},
            uid : Users \cup {Nobody},
            off : BOOLEAN, cut : BOOLEAN, told : BOOLEAN]

TypeInv ==
  /\ seat \in Users \cup {Nobody}
  /\ watch \in [uid : Users \cup {Nobody}, last : Loops \cup {Nobody},
                running : BOOLEAN, ready : BOOLEAN, idle : BOOLEAN]
  /\ loop \in [Loops -> LoopRec]
  /\ held \in Users \cup {Nobody}
  /\ file \in [Users -> {"none", "own", "daemon"}]

-----------------------------------------------------------------------------
(* The stay-awake file                                                     *)

\* A file that is ours is the daemon's, and its user has not been replaced.
HeldIsOurs ==
  held # Nobody => file[held] = "daemon" /\ seat \in {held, Nobody}

FileInv ==
  /\ seat \in Users \cup {Nobody} /\ held \in Users \cup {Nobody}
  /\ file \in [Users -> {"none", "own", "daemon"}]
  /\ HeldIsOurs

LEMMA FileStep == ASSUME ~ Direct, FileInv, [Next]_vars PROVE FileInv'
<1>. USE SeatAssumption DEF FileInv, HeldIsOurs
<1>1. ASSUME NEW u \in Users \cup {Nobody}, SeatTo(u) PROVE FileInv'
  BY <1>1 DEF SeatTo, stayVars
<1>2. CASE Input
  BY <1>2 DEF Input, stayVars
<1>3. ASSUME NEW c \in Covers \cup {"none"}, Cover(c) PROVE FileInv'
  BY <1>3 DEF Cover, stayVars
<1>4. ASSUME NEW u \in Users, Compositor(u) PROVE FileInv'
  BY <1>4 DEF Compositor, stayVars
<1>5. ASSUME NEW u \in Users, Toggle(u) PROVE FileInv'
  <2>1. held = Nobody
    BY <1>5 DEF Toggle
  <2>2. UNCHANGED <<seat, held>> /\ file' \in [Users -> {"none", "own", "daemon"}]
    BY <1>5 DEF Toggle, env
  <2>. QED
    BY <2>1, <2>2
<1>6. CASE LookTick
  BY <1>6 DEF LookTick, stayVars, env
<1>7. CASE StayTick
  BY <1>7 DEF StayTick, Hold, Release, env
<1>8. ASSUME NEW l \in Loops, LoopStep(l) PROVE FileInv'
  BY <1>8 DEF LoopStep, stayVars, env
<1>9. CASE Restart
  BY <1>9 DEF Restart, env
<1>10. CASE UNCHANGED vars
  BY <1>10 DEF vars
<1>. QED
  BY <1>1, <1>2, <1>3, <1>4, <1>5, <1>6, <1>7, <1>8, <1>9, <1>10 DEF Next

\* A stay-awake file that the user made is not removed by the daemon (hold,
\* release), if no session goes to another user between two ticks.
THEOREM OwnFileIsKept == ~ Direct => (Spec => OwnFileKept)
<1>. SUFFICES ASSUME ~ Direct PROVE Spec => OwnFileKept
  OBVIOUS
<1>1. Init => FileInv
  BY DEF Init, FileInv, HeldIsOurs
<1>2. FileInv /\ [Next]_vars => FileInv'
  BY FileStep
<1>3. FileInv /\ [Next]_vars =>
        [StayTick => \A u \in Users : file[u] = "own" => file'[u] = "own"]_vars
  BY SeatAssumption DEF FileInv, HeldIsOurs, StayTick, Hold, Release
<1>. QED
  BY <1>1, <1>2, <1>3, PTL DEF Spec, OwnFileKept

-----------------------------------------------------------------------------
(* The goroutines of InputIdle                                             *)

Live(l) == loop[l].at # "free" /\ ~ loop[l].off

\* The goroutine that was not cancelled is the watcher's; a cancelled one is
\* of another user; and what is ready is so because of the first.
LiveIsWatched ==
  \A l \in Loops : Live(l) => l = watch.last /\ watch.running /\ loop[l].uid = watch.uid
CancelledIsOther ==
  \A l \in Loops : loop[l].at # "free" /\ loop[l].off => loop[l].uid # watch.uid
LoopHasUser == \A l \in Loops : loop[l].at # "free" => loop[l].uid \in Users
ReadyIsLive ==
  watch.ready => \E l \in Loops : Live(l) /\ loop[l].at \in {"note", "end"}

LoopInv ==
  TypeInv /\ LiveIsWatched /\ CancelledIsOther /\ LoopHasUser /\ ReadyIsLive

LEMMA CancelledAll ==
  ASSUME LoopInv, Settled
  PROVE  /\ Cancelled \in [Loops -> LoopRec]
         /\ \A l \in Loops : /\ Cancelled[l].at = loop[l].at
                             /\ Cancelled[l].uid = loop[l].uid
                             /\ loop[l].at # "free" => Cancelled[l].off
<1>. USE SeatAssumption DEF LoopInv, TypeInv, LiveIsWatched, Live, Cancelled, Settled
<1>1. \A l \in Loops : loop[l].at # "free" => l = watch.last
  OBVIOUS
<1>2. CASE watch.last # Nobody /\ loop[watch.last].at # "free"
  <2>1. watch.last \in Loops
    BY <1>2
  <2>2. Cancelled = [loop EXCEPT ![watch.last].off = TRUE]
    BY <1>2
  <2>3. \A l \in Loops : l # watch.last => Cancelled[l] = loop[l]
    BY <2>1, <2>2
  <2>4. Cancelled[watch.last] = [loop[watch.last] EXCEPT !.off = TRUE]
    BY <2>1, <2>2
  <2>5. /\ Cancelled[watch.last] \in LoopRec /\ Cancelled[watch.last].off
        /\ Cancelled[watch.last].at = loop[watch.last].at
        /\ Cancelled[watch.last].uid = loop[watch.last].uid
    <3>1. loop[watch.last] \in LoopRec
      BY <2>1
    <3>. HIDE DEF Cancelled, LoopInv
    <3>. QED
      BY <2>4, <3>1 DEF LoopRec
  <2>6. Cancelled \in [Loops -> LoopRec]
    BY <2>1, <2>2, <2>4, <2>5
  <2>. HIDE DEF Cancelled
  <2>. QED
    BY <1>1, <2>1, <2>3, <2>5, <2>6
<1>3. CASE ~ (watch.last # Nobody /\ loop[watch.last].at # "free")
  BY <1>1, <1>3
<1>. QED
  BY <1>2, <1>3

LEMMA TickKeeps == ASSUME ~ Late, LoopInv, LookTick PROVE LoopInv'
<1>1. Settled
  BY DEF LookTick
<1>2. UNCHANGED <<seat, held, file>>
  BY DEF LookTick, env, stayVars
<1>3. CASE UNCHANGED <<watch, loop>>
  BY <1>2, <1>3 DEF LoopInv, TypeInv, LiveIsWatched, CancelledIsOther, LoopHasUser,
                    ReadyIsLive, Live
<1>4. CASE StopWatch
  BY <1>1, <1>2, <1>4, CancelledAll, SeatAssumption
  DEF StopWatch, Unwatched, LoopInv, TypeInv, LiveIsWatched, CancelledIsOther, LoopHasUser,
      ReadyIsLive, Live
<1>5. CASE seat # Nobody /\ ~ Same(seat) /\ StartWatch(seat)
  <2>. DEFINE l == CHOOSE l \in FreeLoops : TRUE
              fresh == [Free EXCEPT !.at = "dial", !.uid = seat]
  <2>1. l \in Loops /\ loop[l].at = "free" /\ seat \in Users
    BY <1>5 DEF StartWatch, FreeLoops, LoopInv, TypeInv
  <2>2. /\ watch' = [uid |-> seat, last |-> l, running |-> TRUE, ready |-> FALSE, idle |-> FALSE]
        /\ loop' = [Cancelled EXCEPT ![l] = fresh]
    BY <1>5 DEF StartWatch, Unwatched
  <2>3. /\ fresh \in LoopRec
        /\ fresh.at = "dial" /\ fresh.uid = seat /\ ~ fresh.off
    BY <2>1 DEF Free, LoopRec
  <2>4. \A m \in Loops : loop[m].at # "free" => loop[m].uid # seat
    BY <1>1, <1>5 DEF Same, Settled, LoopInv, LiveIsWatched, Live
  <2>. HIDE DEF l, fresh
  <2>5. TypeInv'
    BY <1>1, <1>2, <2>1, <2>2, <2>3, CancelledAll DEF LoopInv, TypeInv
  <2>6. loop'[l] = fresh /\ \A m \in Loops \ {l} : loop'[m] = Cancelled[m]
    BY <1>1, <2>1, <2>2, CancelledAll
  <2>. QED
    BY <1>1, <2>1, <2>2, <2>3, <2>4, <2>5, <2>6, CancelledAll
    DEF LoopInv, LiveIsWatched, CancelledIsOther, LoopHasUser, ReadyIsLive, Live
<1>. QED
  BY <1>3, <1>4, <1>5 DEF LookTick

LEMMA LoopKeeps ==
  ASSUME ~ Late, LoopInv, NEW l \in Loops, LoopStep(l) PROVE LoopInv'
<1>. USE SeatAssumption
     DEF LoopRec, LoopInv, TypeInv, LiveIsWatched, CancelledIsOther, LoopHasUser, ReadyIsLive, Live
<1>1. UNCHANGED <<seat, held, file>>
  BY DEF LoopStep, env, stayVars
<1>2. CASE Dial(l)
  BY <1>1, <1>2 DEF Dial, Go
<1>3. CASE Hand(l)
  <2>1. ASSUME Go(l, "end") \/ Go(l, "wait"), loop[l].at = "hand", UNCHANGED watch PROVE LoopInv'
    BY <1>1, <2>1 DEF Go
  <2>2. ASSUME Acts(l), Go(l, "note"), watch' = [watch EXCEPT !.ready = TRUE, !.idle = FALSE],
               loop[l].at = "hand"
        PROVE  LoopInv'
    <3>1. ~ loop[l].off
      BY <2>2 DEF Acts
    <3>2. l = watch.last /\ watch.running /\ loop[l].uid = watch.uid
      BY <2>2, <3>1
    <3>3. TypeInv'
      <4>1. loop' \in [Loops -> LoopRec]
        BY <2>2 DEF Go
      <4>2. watch' \in [uid : Users \cup {Nobody}, last : Loops \cup {Nobody},
                       running : BOOLEAN, ready : BOOLEAN, idle : BOOLEAN]
        BY <2>2
      <4>. QED
        BY <1>1, <4>1, <4>2
    <3>4. loop'[l] = [loop[l] EXCEPT !.at = "note"] /\ \A m \in Loops \ {l} : loop'[m] = loop[m]
      BY <2>2 DEF Go
    <3>. QED
      BY <2>2, <3>1, <3>2, <3>3, <3>4
  <2>. QED
    BY <1>3, <2>1, <2>2 DEF Hand
<1>4. CASE Note(l)
  BY <1>1, <1>4 DEF Note, Go, Ends, Acts
<1>5. CASE Wait(l)
  BY <1>1, <1>5 DEF Wait, Go
<1>6. CASE End(l)
  BY <1>1, <1>6 DEF End, Free
<1>. QED
  BY <1>2, <1>3, <1>4, <1>5, <1>6 DEF LoopStep

LEMMA LoopInvStep == ASSUME ~ Late, LoopInv, [Next]_vars PROVE LoopInv'
<1>1. CASE LookTick
  BY <1>1, TickKeeps
<1>2. ASSUME NEW l \in Loops, LoopStep(l) PROVE LoopInv'
  BY <1>2, LoopKeeps
<1>. USE SeatAssumption
     DEF LoopInv, TypeInv, LiveIsWatched, CancelledIsOther, LoopHasUser, ReadyIsLive, Live,
         LoopRec, idleVars, stayVars, env
<1>3. ASSUME NEW u \in Users \cup {Nobody}, SeatTo(u) PROVE LoopInv'
  BY <1>3 DEF SeatTo
<1>4. CASE Input
  BY <1>4 DEF Input
<1>5. ASSUME NEW c \in Covers \cup {"none"}, Cover(c) PROVE LoopInv'
  BY <1>5 DEF Cover
<1>6. ASSUME NEW u \in Users, Compositor(u) PROVE LoopInv'
  <2>1. UNCHANGED <<seat, watch, held, file>>
    BY <1>6 DEF Compositor
  <2>2. \A l \in Loops : loop'[l] = loop[l] \/ loop'[l] = [loop[l] EXCEPT !.cut = TRUE]
    BY <1>6 DEF Compositor
  <2>3. \A l \in Loops : /\ loop'[l].at = loop[l].at /\ loop'[l].uid = loop[l].uid
                         /\ loop'[l].off = loop[l].off /\ loop'[l] \in LoopRec
    <3>. SUFFICES ASSUME NEW l \in Loops
         PROVE  /\ loop'[l].at = loop[l].at /\ loop'[l].uid = loop[l].uid
                /\ loop'[l].off = loop[l].off /\ loop'[l] \in LoopRec
      OBVIOUS
    <3>. loop[l] \in LoopRec
      OBVIOUS
    <3>. HIDE DEF LoopRec
    <3>1. CASE loop'[l] = loop[l]
      BY <3>1
    <3>2. CASE loop'[l] = [loop[l] EXCEPT !.cut = TRUE]
      BY <3>2 DEF LoopRec
    <3>. QED
      BY <2>2, <3>1, <3>2
  <2>4. TypeInv'
    BY <1>6, <2>1, <2>3 DEF Compositor
  <2>. QED
    BY <2>1, <2>3, <2>4
<1>7. ASSUME NEW u \in Users, Toggle(u) PROVE LoopInv'
  BY <1>7 DEF Toggle
<1>8. CASE StayTick
  BY <1>8 DEF StayTick, Hold, Release
<1>9. CASE Restart
  BY <1>9 DEF Restart, Unwatched, Free
<1>10. CASE UNCHANGED vars
  BY <1>10 DEF vars
<1>. QED
  BY <1>1, <1>2, <1>3, <1>4, <1>5, <1>6, <1>7, <1>8, <1>9, <1>10 DEF Next

\* One goroutine at most speaks for the session, and it is of the user the
\* watcher was attached to (Attach, stopLocked, loop), if a cancelled one is
\* gone before the next tick.
THEOREM WatcherIsOne == ~ Late => (Spec => []OneWatcher)
<1>. SUFFICES ASSUME ~ Late PROVE Spec => []OneWatcher
  OBVIOUS
<1>1. Init => LoopInv
  BY DEF Init, LoopInv, TypeInv, LoopRec, LiveIsWatched, CancelledIsOther, LoopHasUser, ReadyIsLive,
         Live, Unwatched, Free
<1>2. LoopInv /\ [Next]_vars => LoopInv'
  BY LoopInvStep
<1>3. LoopInv => OneWatcher
  BY DEF LoopInv, LiveIsWatched, ReadyIsLive, Live, OneWatcher
<1>. QED
  BY <1>1, <1>2, <1>3, PTL DEF Spec

-----------------------------------------------------------------------------
(* What is said of input                                                   *)

EnvOK ==
  /\ input \in BOOLEAN /\ up \in [Users -> BOOLEAN] /\ cover \in Covers \cup {"none"}
  /\ seen \in {"awake", "idle", "covered"}
  /\ kills \in 0..MaxKills

LEMMA EnvStep == ASSUME EnvOK, [Next]_vars PROVE EnvOK'
<1>. USE SeatAssumption DEF EnvOK, env, idleVars, stayVars
<1>1. CASE (\E u \in Users \cup {Nobody} : SeatTo(u)) \/ Input \/ StayTick
  BY <1>1 DEF SeatTo, Input, StayTick
<1>2. CASE \E c \in Covers \cup {"none"} : Cover(c)
  BY <1>2 DEF Cover
<1>3. CASE \E u \in Users : Compositor(u) \/ Toggle(u)
  BY <1>3 DEF Compositor, Toggle
<1>4. CASE LookTick
  BY <1>4 DEF LookTick
<1>5. CASE (\E l \in Loops : LoopStep(l)) \/ UNCHANGED vars
  BY <1>5 DEF LoopStep, vars
<1>6. CASE Restart
  BY <1>6 DEF Restart
<1>. QED
  BY <1>1, <1>2, <1>3, <1>4, <1>5, <1>6 DEF Next

IdleRuns == watch.idle => watch.running

\* Only a goroutine that is the watcher's says that there is no input, and its
\* end takes that back.
LEMMA IdleStep == ASSUME ~ Late, LoopInv, IdleRuns, [Next]_vars PROVE IdleRuns'
<1>. USE DEF IdleRuns, env, idleVars, stayVars
<1>1. CASE UNCHANGED watch
  BY <1>1
<1>2. CASE LookTick
  <2>1. ASSUME NEW u, StartWatch(u) PROVE IdleRuns'
    <3>1. PICK l : watch' = [Unwatched EXCEPT !.uid = u, !.last = l, !.running = TRUE]
      BY <2>1 DEF StartWatch
    <3>. QED
      BY <3>1 DEF Unwatched
  <2>2. ASSUME StopWatch PROVE IdleRuns'
    BY <2>2 DEF StopWatch, Unwatched
  <2>. QED
    BY <1>1, <1>2, <2>1, <2>2 DEF LookTick
<1>3. ASSUME NEW l \in Loops, LoopStep(l) PROVE IdleRuns'
  <2>1. watch \in [uid : Users \cup {Nobody}, last : Loops \cup {Nobody},
                  running : BOOLEAN, ready : BOOLEAN, idle : BOOLEAN]
    BY DEF LoopInv, TypeInv
  <2>2. CASE Dial(l) \/ Wait(l)
    BY <1>1, <2>2 DEF Dial, Wait
  <2>3. CASE Hand(l)
    BY <1>1, <2>1, <2>3 DEF Hand
  <2>4. CASE Note(l)
    <3>1. CASE Acts(l)
      <4>1. watch.running
        BY <2>4, <3>1 DEF Note, Acts, LoopInv, LiveIsWatched, Live
      <4>2. watch' = watch \/ watch' = [watch EXCEPT !.idle = ~ loop[l].told]
        BY <2>4 DEF Note
      <4>. QED
        BY <2>1, <4>1, <4>2
    <3>2. CASE ~ Acts(l)
      BY <1>1, <2>4, <3>2 DEF Note
    <3>. QED
      BY <3>1, <3>2
  <2>5. CASE End(l)
    BY <1>1, <2>1, <2>5 DEF End
  <2>. QED
    BY <1>3, <2>2, <2>3, <2>4, <2>5 DEF LoopStep
<1>4. CASE Restart
  BY <1>4 DEF Restart, Unwatched
<1>5. CASE \/ (\E u \in Users \cup {Nobody} : SeatTo(u)) \/ Input \/ StayTick
           \/ (\E c \in Covers \cup {"none"} : Cover(c)) \/ UNCHANGED vars
           \/ \E u \in Users : Compositor(u) \/ Toggle(u)
  <2>1. UNCHANGED watch
    BY <1>5 DEF SeatTo, Input, StayTick, Cover, Compositor, Toggle, vars
  <2>. QED
    BY <1>1, <2>1
<1>. QED
  BY <1>2, <1>3, <1>4, <1>5 DEF Next

\* Every variable has its type, and the source says that there was input, or
\* none, only while a goroutine of its own runs (Attach, stopLocked, loop), if
\* a cancelled one is gone before the next tick.
THEOREM SaysWhileItRuns == ~ Late => (Spec => []TypeOK)
<1>. SUFFICES ASSUME ~ Late PROVE Spec => []TypeOK
  OBVIOUS
<1>1. Init => LoopInv /\ EnvOK /\ IdleRuns
  <2>. SUFFICES ASSUME Init PROVE LoopInv /\ EnvOK /\ IdleRuns
    OBVIOUS
  <2>1. LoopInv
    BY DEF Init, LoopInv, TypeInv, LoopRec, LiveIsWatched, CancelledIsOther, LoopHasUser,
           ReadyIsLive, Live, Unwatched, Free
  <2>2. EnvOK /\ IdleRuns
    BY SeatAssumption DEF Init, EnvOK, IdleRuns, Unwatched
  <2>. QED
    BY <2>1, <2>2
<1>2. LoopInv /\ EnvOK /\ IdleRuns /\ [Next]_vars => (LoopInv /\ EnvOK /\ IdleRuns)'
  BY LoopInvStep, EnvStep, IdleStep
<1>3. LoopInv /\ EnvOK /\ IdleRuns => TypeOK
  BY DEF LoopInv, TypeInv, LoopRec, EnvOK, IdleRuns, LiveIsWatched, ReadyIsLive, Live, TypeOK
<1>. QED
  BY <1>1, <1>2, <1>3, PTL DEF Spec
=============================================================================
