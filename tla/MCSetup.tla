------------------------------- MODULE MCSetup ------------------------------
(* Small instances of Setup: two retired ids, one other widget.            *)
EXTENDS Setup

retired == <<"kidtimer", "kidtimer.kid">>

Chip(place, id) == Widget(place, id, NoBar)

\* No file; a file that does not parse; a bar with the legacy chip in the
\* middle; one with two legacy chips and the kid's, whose tokens it holds; one
\* with the new chip beside a retired one.
layouts ==
  {Missing, Corrupt,
   Bar({Chip(0, "clock"), Chip(1, "kidtimer"), Chip(2, "clock")}),
   Bar({Widget(0, "kidtimer.kid", <<OldRead, OldAsk>>), Chip(1, "clock"),
    Chip(2, "kidtimer"), Chip(3, "kidtimer")}),
   Bar({Chip(0, "clock"), Chip(1, "kidtimer.kid"), Chip(2, "io.kidtimer"),
    Chip(3, "kidtimer")})}
=============================================================================
