-------------------------------- MODULE Seat --------------------------------
(***************************************************************************)
(* Who sits at the computer and whether there is input: the daemon's       *)
(* ticker (main.go) takes the uid of the graphical session, keeps the      *)
(* stay-awake file of that user while the overlay is up (stay.go), and     *)
(* asks InputIdle (enforcer/idle.go), which keeps one goroutine connected  *)
(* to that user's compositor.  A goroutine that was cancelled is still     *)
(* there until its deferred function has run.                              *)
(***************************************************************************)
EXTENDS Naturals, FiniteSets

CONSTANTS
  Users, Nobody,   \* graphical users; Nobody: uid 0
  Old,             \* users whose compositor has no ext_idle_notifier_v1 v2
  Loops,           \* goroutines of InputIdle.loop that may exist at once
  Late,            \* a cancelled goroutine may outlive the next tick
  Covers,          \* what may cover the screen: "overlay", "lock" (the session's)
  Direct,          \* the session may go to another user between two ticks
  MaxKills         \* bound on restarts of the daemon

ASSUME SeatAssumption ==
  /\ Nobody \notin Users \cup Loops /\ Old \subseteq Users
  /\ Covers \subseteq {"overlay", "lock"}
  /\ Late \in BOOLEAN /\ Direct \in BOOLEAN /\ MaxKills \in Nat

VARIABLES
  seat,     \* the user of the graphical session
  input,    \* there was input in the last minute
  up,       \* user -> the compositor's socket answers
  cover,    \* what covers the screen, or "none"
  watch,    \* InputIdle: uid, running, ready, idle; last: the goroutine that
            \* its cancel function is of
  loop,     \* goroutine -> where it is; off: cancelled, cut: connection lost,
            \* told: the compositor's last word was "idled"
  seen,     \* what the last tick made of it: "awake", "idle", "covered"
  held,     \* stayAwake: the user of path while ours, else Nobody; a path
            \* that is not ours is taken anew by the next Sync
  file,     \* user -> whose stay-awake file it is: "none", "own", "daemon"
  kills

env == <<seat, input, up, cover>>
idleVars == <<watch, loop, seen>>
stayVars == <<held, file>>
vars == <<seat, input, up, cover, watch, loop, seen, held, file, kills>>

Free == [at |-> "free", uid |-> Nobody, off |-> FALSE, cut |-> FALSE, told |-> FALSE]
Unwatched == [uid |-> Nobody, last |-> Nobody,
              running |-> FALSE, ready |-> FALSE, idle |-> FALSE]

-----------------------------------------------------------------------------
(* The computer                                                            *)

\* GraphicalUID: a login, a logout, a switch, or a loginctl that fails.
SeatTo(u) ==
  /\ u # seat
  /\ Direct \/ u = Nobody \/ (seat = Nobody /\ held = Nobody)
  /\ seat' = u
  /\ UNCHANGED <<input, up, cover, idleVars, stayVars, kills>>

Input ==
  /\ input' = ~ input
  /\ UNCHANGED <<seat, up, cover, idleVars, stayVars, kills>>

Cover(c) ==
  /\ c # cover
  /\ cover' = c
  /\ UNCHANGED <<seat, input, up, idleVars, stayVars, kills>>

\* A compositor comes, or goes with its connections.
Compositor(u) ==
  /\ up' = [up EXCEPT ![u] = ~ @]
  /\ loop' = [l \in Loops |->
       IF up[u] /\ loop[l].uid = u /\ loop[l].at \in {"hand", "note"}
         THEN [loop[l] EXCEPT !.cut = TRUE] ELSE loop[l]]
  /\ UNCHANGED <<seat, input, cover, watch, seen, stayVars, kills>>

-----------------------------------------------------------------------------
(* InputIdle                                                               *)

\* Mutant: the old goroutine is not cancelled.
CancelledNot == loop

\* stopLocked calls the cancel function, also of a goroutine that is gone.
Cancelled ==
  IF watch.last # Nobody /\ loop[watch.last].at # "free"
    THEN [loop EXCEPT ![watch.last].off = TRUE] ELSE loop

StopWatch ==
  /\ watch' = Unwatched
  /\ loop' = Cancelled

FreeLoops == {l \in Loops : loop[l].at = "free"}

StartWatch(u) ==
  /\ FreeLoops # {}
  /\ LET l == CHOOSE l \in FreeLoops : TRUE IN
    /\ watch' = [Unwatched EXCEPT !.uid = u, !.last = l, !.running = TRUE]
    /\ loop' = [Cancelled EXCEPT ![l] = [Free EXCEPT !.at = "dial", !.uid = u]]

\* Within the second of a tick the connections are made and the cancelled
\* goroutines are gone, unless they are Late.
Settled == \A l \in Loops : loop[l].at \in {"free", "note", "wait"} /\ ~ loop[l].off

Same(u) == watch.uid = u /\ watch.running

\* The second half of a tick: Enforcer.Tick up to Idle(), and Attach under it.
LookTick ==
  /\ Late \/ Settled
  /\ \/ /\ cover # "none"
        /\ seen' = "covered"
        /\ UNCHANGED <<watch, loop>>
     \/ /\ cover = "none" /\ seat = Nobody
        /\ seen' = "idle"
        /\ StopWatch
     \/ /\ cover = "none" /\ seat # Nobody /\ ~ Same(seat)
        /\ seen' = "idle"
        /\ StartWatch(seat)
     \/ /\ cover = "none" /\ seat # Nobody /\ Same(seat)
        /\ seen' = IF watch.ready /\ ~ watch.idle THEN "awake" ELSE "idle"
        /\ UNCHANGED <<watch, loop>>
  /\ UNCHANGED <<env, stayVars, kills>>

Go(l, at) == loop' = [loop EXCEPT ![l].at = at]

\* w.dial
Dial(l) ==
  /\ loop[l].at = "dial"
  /\ Go(l, IF up[loop[l].uid] THEN "hand" ELSE "end")
  /\ UNCHANGED watch

\* A cancelled goroutine acts only when it is Late: its connection is closed.
Acts(l) == ~ loop[l].cut /\ (~ loop[l].off \/ Late)
Ends(l) == loop[l].cut \/ loop[l].off

\* run up to the notification.
Hand(l) ==
  /\ loop[l].at = "hand"
  /\ \/ Ends(l) /\ Go(l, "end") /\ UNCHANGED watch
     \/ /\ Acts(l) /\ loop[l].uid \in Old
        /\ Go(l, "wait")
        /\ UNCHANGED watch
     \/ /\ Acts(l) /\ loop[l].uid \notin Old
        /\ Go(l, "note")
        /\ watch' = [watch EXCEPT !.ready = TRUE, !.idle = FALSE]

\* The loop over idled and resumed.
Away(u) == seat # u \/ ~ input
Note(l) ==
  /\ loop[l].at = "note"
  /\ \/ Ends(l) /\ Go(l, "end") /\ UNCHANGED watch
     \/ /\ Acts(l)
        /\ loop[l].told # Away(loop[l].uid)
        /\ loop' = [loop EXCEPT ![l].told = ~ @]
        /\ watch' = [watch EXCEPT !.idle = ~ loop[l].told]

\* No notifier: only a cancel ends it.
Wait(l) ==
  /\ loop[l].at = "wait" /\ loop[l].off
  /\ Go(l, "end")
  /\ UNCHANGED watch

\* Mutant: the deferred function leaves ready and idle as they are.
EndHalf(l) ==
  /\ loop[l].at = "end"
  /\ loop' = [loop EXCEPT ![l] = Free]
  /\ watch' = IF watch.uid = loop[l].uid THEN [watch EXCEPT !.running = FALSE] ELSE watch

\* Mutant: there is no deferred function.
EndSilent(l) ==
  /\ loop[l].at = "end"
  /\ loop' = [loop EXCEPT ![l] = Free]
  /\ watch' = [watch EXCEPT !.ready = @ /\ watch.uid # loop[l].uid]

\* The deferred function.
End(l) ==
  /\ loop[l].at = "end"
  /\ loop' = [loop EXCEPT ![l] = Free]
  /\ watch' = IF watch.uid = loop[l].uid
                THEN [watch EXCEPT !.running = FALSE, !.ready = FALSE, !.idle = FALSE]
                ELSE watch

LoopStep(l) ==
  /\ Dial(l) \/ Hand(l) \/ Note(l) \/ Wait(l) \/ End(l)
  /\ UNCHANGED <<env, seen, stayVars, kills>>

-----------------------------------------------------------------------------
(* The stay-awake file                                                     *)

\* release, of the path of user u
Release(u) ==
  /\ held' = Nobody
  /\ file' = IF held # Nobody THEN [file EXCEPT ![u] = "none"] ELSE file

\* Mutant: a file that is there counts as ours.
HoldSteals(u) ==
  /\ held' = u
  /\ file' = [file EXCEPT ![u] = IF @ = "none" THEN "daemon" ELSE @]

\* hold: a file that is there is left alone, and is ours if the last one was.
Hold(u) ==
  /\ held' = IF file[u] = "none" \/ held # Nobody THEN u ELSE Nobody
  /\ file' = [file EXCEPT ![u] = IF @ = "none" THEN "daemon" ELSE @]

\* The first half of a tick: stayAwake.Sync.
StayTick ==
  /\ \/ seat = Nobody /\ Release(held)
     \/ seat # Nobody /\ cover = "overlay" /\ Hold(seat)
     \/ seat # Nobody /\ cover # "overlay" /\ Release(seat)
  /\ UNCHANGED <<env, idleVars, kills>>

\* A user switches stay-awake on or off; the file of a daemon that runs is
\* left alone.
Toggle(u) ==
  /\ seat = u /\ cover = "none"
  /\ file[u] # "daemon" \/ held = Nobody
  /\ file' = [file EXCEPT ![u] = IF @ = "none" THEN "own" ELSE "none"]
  /\ UNCHANGED <<env, idleVars, held, kills>>

-----------------------------------------------------------------------------

\* The daemon is killed and starts again.
Restart ==
  /\ kills < MaxKills
  /\ kills' = kills + 1
  /\ watch' = Unwatched
  /\ loop' = [l \in Loops |-> Free]
  /\ seen' = "idle"
  /\ held' = Nobody
  /\ UNCHANGED <<env, file>>

Init ==
  /\ seat \in Users \cup {Nobody}
  /\ input \in BOOLEAN
  /\ up = [u \in Users |-> u = seat]
  /\ cover \in Covers \cup {"none"}
  /\ watch = Unwatched
  /\ loop = [l \in Loops |-> Free]
  /\ seen = "idle"
  /\ held = Nobody
  /\ file \in [Users -> {"none", "own"}]
  /\ kills = 0

Next ==
  \/ \E u \in Users \cup {Nobody} : SeatTo(u)
  \/ Input
  \/ \E c \in Covers \cup {"none"} : Cover(c)
  \/ \E u \in Users : Compositor(u) \/ Toggle(u)
  \/ LookTick \/ StayTick
  \/ \E l \in Loops : LoopStep(l)
  \/ Restart

Fairness ==
  /\ WF_vars(LookTick) /\ WF_vars(StayTick)
  /\ \A l \in Loops : WF_vars(LoopStep(l))

Spec == Init /\ [][Next]_vars /\ Fairness

-----------------------------------------------------------------------------
(* What holds of it                                                        *)

\* Every variable has a value of its kind, and what InputIdle says of a
\* connection it says only while a goroutine runs (loop, stopLocked).
TypeOK ==
  /\ seat \in Users \cup {Nobody} /\ input \in BOOLEAN /\ up \in [Users -> BOOLEAN]
  /\ cover \in Covers \cup {"none"}
  /\ watch \in [uid : Users \cup {Nobody}, last : Loops \cup {Nobody}, running : BOOLEAN, ready : BOOLEAN, idle : BOOLEAN]
  /\ loop \in [Loops -> [at : {"free", "dial", "hand", "note", "wait", "end"},
                          uid : Users \cup {Nobody},
                          off : BOOLEAN, cut : BOOLEAN, told : BOOLEAN]]
  /\ seen \in {"awake", "idle", "covered"}
  /\ held \in Users \cup {Nobody}
  /\ file \in [Users -> {"none", "own", "daemon"}]
  /\ kills \in 0..MaxKills
  /\ watch.ready \/ watch.idle => watch.running

\* The kid who plays is never billed on another user's input: what is ready
\* comes from a goroutine of the user that Attach was last called with, and
\* there is one such goroutine at most (Attach, stopLocked, the deferred
\* function of loop).
OneWatcher ==
  /\ watch.ready =>
       \E l \in Loops : loop[l].uid = watch.uid /\ loop[l].at \in {"note", "end"}
  /\ \A l, m \in Loops :
       loop[l].at # "free" /\ loop[m].at # "free" /\ ~ loop[l].off /\ ~ loop[m].off => l = m

\* While somebody sits at the computer with nothing in front, the ticks find
\* out whether there is input, whatever came before: logins, compositors that
\* went away, restarts (README.md, "Idle is about a minute with no keyboard
\* or mouse").
Sits(u) == seat = u /\ up[u] /\ cover = "none"

SeenAsIs ==
  \A u \in Users :
    /\ <>[](Sits(u) /\ input /\ u \notin Old) => <>[](seen = "awake")
    /\ <>[](Sits(u) /\ (~ input \/ u \in Old)) => <>[](seen = "idle")

\* A stay-awake file that the user made is not removed by the daemon
\* (stay_test.go, TestStayAwakeDoesNotStealExisting).
OwnFileKept ==
  [][StayTick => \A u \in Users : file[u] = "own" => file'[u] = "own"]_vars
=============================================================================
