------------------------------ MODULE Enforcer ------------------------------
(***************************************************************************)
(* The enforcer (daemon/internal/enforcer/enforcer.go): each second a tick *)
(* spends from the clock for the window in front; at zero it stops that    *)
(* window's process and records the pid in the bank's table paused.  A     *)
(* grant continues the recorded processes from its own goroutine, and so   *)
(* does a tick that finds a recorded process in front with time left.      *)
(*                                                                         *)
(* Every call of the bank and every signal is a step: neither the tick nor *)
(* Resume holds a lock from one to the next.                               *)
(***************************************************************************)
EXTENDS Integers, FiniteSetsExt

CONSTANTS
    Pids,      \* process ids that own a window; numbers, as rows are sorted
    Shielded,  \* those whose name is in never_signal
    MaxLeft,   \* bound: a grant or refill takes the clock up to here
    Overlap,   \* whether a grant may be handled while a tick is in progress
    MaxKills   \* bound: how often the daemon is killed and started again

ASSUME EnforcerAssumption ==
    /\ Pids \subseteq Nat \ {0} /\ Shielded \subseteq Pids
    /\ MaxLeft \in Nat \ {0} /\ MaxKills \in Nat
    /\ Overlap \in BOOLEAN

NoPid == 0

VARIABLES
    left,    \* what the clock reads
    focus,   \* the process whose window is in front, or NoPid
    awake,   \* no overlay is up and the session is neither idle nor locked
    proc,    \* the state of every process
    paused,  \* the rows of paused
    tick,    \* the next call of the tick, and the pid it found in front
    resume,  \* the next call of Resume, the rows it listed and those left
    kills    \* how often the daemon has been killed

vars == <<left, focus, awake, proc, paused, tick, resume, kills>>

NoTick == [at |-> "idle", pid |-> NoPid]
NoResume == [at |-> "idle", listed |-> {}, rest |-> {}]

Init ==
    /\ left = MaxLeft
    /\ focus = NoPid /\ awake = TRUE
    /\ proc = [p \in Pids |-> "running"]
    /\ paused = {}
    /\ tick = NoTick /\ resume = NoResume /\ kills = 0

-----------------------------------------------------------------------------
(* Tick.                                                                   *)

TickTo(at) == tick' = [tick EXCEPT !.at = at]

\* The checks of the overlay and the session, and the read of the focus.
TickFocus ==
    /\ tick.at = "idle" /\ (Overlap \/ resume.at = "idle")
    /\ awake /\ focus # NoPid
    /\ tick' = [at |-> "spend", pid |-> focus]
    /\ UNCHANGED <<left, focus, awake, proc, paused, resume, kills>>

\* mutant: a debit that does not look
TickSpendBlindly ==
    /\ tick.at = "spend"
    /\ left' = left - 1 /\ TickTo("look")
    /\ UNCHANGED <<focus, awake, proc, paused, resume, kills>>

TickSpend ==
    /\ tick.at = "spend"
    /\ IF left > 0 THEN left' = left - 1 /\ TickTo("look")
                   ELSE UNCHANGED left /\ TickTo("stop")
    /\ UNCHANGED <<focus, awake, proc, paused, resume, kills>>

\* mutant: a tick with time left continues nothing
TickLookAway ==
    /\ tick.at = "look"
    /\ tick' = NoTick
    /\ UNCHANGED <<left, focus, awake, proc, paused, resume, kills>>

\* IsPaused
TickLook ==
    /\ tick.at = "look"
    /\ IF tick.pid \in paused THEN TickTo("continue") ELSE tick' = NoTick
    /\ UNCHANGED <<left, focus, awake, proc, paused, resume, kills>>

\* Signals.Stop: not for a shielded name, and an error for one that is gone.
TickStop ==
    /\ tick.at = "stop"
    /\ IF tick.pid \in Shielded \/ proc[tick.pid] = "gone"
       THEN tick' = NoTick /\ UNCHANGED proc
       ELSE TickTo("record") /\ proc' = [proc EXCEPT ![tick.pid] = "stopped"]
    /\ UNCHANGED <<left, focus, awake, paused, resume, kills>>

\* RecordPaused
TickRecord ==
    /\ tick.at = "record"
    /\ paused' = paused \union {tick.pid}
    /\ tick' = NoTick
    /\ UNCHANGED <<left, focus, awake, proc, resume, kills>>

\* Signals.Continue, an error for one that is gone
TickContinue ==
    /\ tick.at = "continue"
    /\ IF proc[tick.pid] = "gone"
       THEN tick' = NoTick /\ UNCHANGED proc
       ELSE TickTo("clear") /\ proc' = [proc EXCEPT ![tick.pid] = "running"]
    /\ UNCHANGED <<left, focus, awake, paused, resume, kills>>

\* ClearPaused
TickClear ==
    /\ tick.at = "clear"
    /\ paused' = paused \ {tick.pid}
    /\ tick' = NoTick
    /\ UNCHANGED <<left, focus, awake, proc, resume, kills>>

TickStep == \/ TickFocus \/ TickSpend \/ TickLook
            \/ TickStop \/ TickRecord \/ TickContinue \/ TickClear

-----------------------------------------------------------------------------
(* A grant, and Resume after it.                                           *)

Grant ==
    /\ resume.at = "idle" /\ (Overlap \/ tick.at = "idle")
    /\ left < MaxLeft
    /\ left' \in left + 1 .. MaxLeft
    /\ resume' = [resume EXCEPT !.at = "list"]
    /\ UNCHANGED <<focus, awake, proc, paused, tick, kills>>

\* PausedToResume
ResumeList ==
    /\ resume.at = "list"
    /\ resume' = IF left > 0 /\ paused # {}
                 THEN [at |-> "continue", listed |-> paused, rest |-> paused]
                 ELSE NoResume
    /\ UNCHANGED <<left, focus, awake, proc, paused, tick, kills>>

\* cont on the next row: the signal.  An error ends Resume.
ResumeContinue ==
    /\ resume.at = "continue"
    /\ LET pid == Min(resume.rest)
       IN  IF proc[pid] = "gone"
           THEN resume' = NoResume /\ UNCHANGED proc
           ELSE /\ resume' = [resume EXCEPT !.at = "clear"]
                /\ proc' = [proc EXCEPT ![pid] = "running"]
    /\ UNCHANGED <<left, focus, awake, paused, tick, kills>>

\* mutants: all rows deleted with the first; only the first row handled
ResumeClearAll ==
    /\ resume.at = "clear"
    /\ paused' = {} /\ resume' = NoResume
    /\ UNCHANGED <<left, focus, awake, proc, tick, kills>>
ResumeClearOne ==
    /\ resume.at = "clear"
    /\ paused' = paused \ {Min(resume.rest)} /\ resume' = NoResume
    /\ UNCHANGED <<left, focus, awake, proc, tick, kills>>

\* cont on that row: ClearPaused
ResumeClear ==
    /\ resume.at = "clear"
    /\ LET pid == Min(resume.rest)
           rest == resume.rest \ {pid}
       IN  /\ paused' = paused \ {pid}
           /\ resume' = IF rest = {} THEN NoResume
                        ELSE [resume EXCEPT !.at = "continue", !.rest = rest]
    /\ UNCHANGED <<left, focus, awake, proc, tick, kills>>

ResumeStep == ResumeList \/ ResumeContinue \/ ResumeClear

-----------------------------------------------------------------------------
(* The rest of the machine.                                                *)

\* A refill, or time taken away: neither calls Resume.
ClockSet ==
    /\ left' \in {0, MaxLeft} \ {left}
    /\ UNCHANGED <<focus, awake, proc, paused, tick, resume, kills>>

KidFocus(pid) ==
    /\ focus # pid
    /\ pid \in {NoPid} \union {p \in Pids : proc[p] # "gone"}
    /\ focus' = pid
    /\ UNCHANGED <<left, awake, proc, paused, tick, resume, kills>>

Overlays ==
    /\ awake' = ~awake
    /\ UNCHANGED <<left, focus, proc, paused, tick, resume, kills>>

Exit(pid) ==
    /\ proc[pid] # "gone"
    /\ proc' = [proc EXCEPT ![pid] = "gone"]
    /\ focus' = IF focus = pid THEN NoPid ELSE focus
    /\ UNCHANGED <<left, awake, paused, tick, resume, kills>>

\* A new process, perhaps under the pid of one that is still recorded.
Start(pid) ==
    /\ proc[pid] = "gone"
    /\ proc' = [proc EXCEPT ![pid] = "running"]
    /\ UNCHANGED <<left, focus, awake, paused, tick, resume, kills>>

Restart ==
    /\ kills < MaxKills /\ kills' = kills + 1
    /\ tick' = NoTick /\ resume' = NoResume
    /\ UNCHANGED <<left, focus, awake, proc, paused>>

Next ==
    \/ TickStep \/ Grant \/ ResumeStep
    \/ ClockSet \/ Overlays \/ Restart
    \/ \E pid \in Pids : Exit(pid) \/ Start(pid)
    \/ \E pid \in Pids \union {NoPid} : KidFocus(pid)

\* The ticker fires again and again, and a handler that has begun goes on.
Fairness == WF_vars(TickStep) /\ WF_vars(ResumeStep)

Spec == Init /\ [][Next]_vars /\ Fairness

-----------------------------------------------------------------------------
(* Properties.                                                             *)

\* Every variable has its type.
TypeOK ==
    /\ left \in 0 .. MaxLeft
    /\ focus \in Pids \union {NoPid} /\ awake \in BOOLEAN
    /\ proc \in [Pids -> {"running", "stopped", "gone"}]
    /\ paused \subseteq Pids
    /\ tick \in [at : {"idle", "spend", "look", "stop", "record", "continue",
                       "clear"},
                 pid : Pids \union {NoPid}]
    /\ resume \in [at : {"idle", "list", "continue", "clear"},
                   listed : SUBSET Pids, rest : SUBSET Pids]
    /\ kills \in 0 .. MaxKills

\* The row is the only way back for a stopped process, for a grant and for a
\* tick: unless the daemon is killed between the signal and the row, none is
\* stopped without one (enforcer_test.go, TestSleepChildStopAndCont: a process
\* stopped at zero is not "still stopped after SIGCONT" once time is granted).
Orphans == {p \in Pids : proc[p] = "stopped" /\ p \notin paused}
Stopping == {p \in Pids : tick.at = "record" /\ tick.pid = p}

NoOrphans ==
    [][~Restart => Orphans' \subseteq (Orphans \ Stopping) \union Stopping']_vars

\* A grant continues every process that was recorded when it came, but for
\* those behind a row whose process is gone (Resume; enforcer_test.go,
\* TestSleepChildStopAndCont; server_test.go, TestGrantAndApproveInvokeResume).
GrantResumes ==
    [][ResumeStep /\ resume'.at = "idle"
          => \A p \in resume.listed : proc[p]' = "stopped"
                => Min(resume.rest) <= p /\ proc[Min(resume.rest)] = "gone"]_vars

\* Nobody has to wait for a grant: a recorded process that is in front while
\* the clock has time, after a refill too, is continued by the tick.
FocusedResumes ==
    \A p \in Pids :
        proc[p] = "stopped" /\ p \in paused /\ focus = p /\ left > 0 /\ awake
            ~> proc[p] # "stopped" \/ focus # p \/ left = 0 \/ ~awake
=============================================================================
