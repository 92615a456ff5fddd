------------------------------- MODULE MCBank -------------------------------
(***************************************************************************)
(* Instances of Bank for TLC: a day of six instants, two weekdays with     *)
(* different hours.                                                        *)
(***************************************************************************)
EXTENDS Bank

\* the hours of a school day and of a day off
MCHours == <<2, 1>>
MCHoursByDay == [w \in 0 .. 1 |-> MCHours[w + 1]]

\* lights out at 4 and wake at 1, across midnight
Night == [start |-> 4, end |-> 1]
\* lights out at 2 and wake at 4, inside one day
Siesta == [start |-> 2, end |-> 4]
\* bedtime around the clock
AllDay == [start |-> 0, end |-> 0]

Movable == {Night, Siesta, AllDay}

CreditsAndCuts == {1, -2}
=============================================================================
