------------------------------ MODULE MCPolicy ------------------------------
(* Small config files, documents and old rows for Policy. *)
EXTENDS Policy

MCConfigs ==
  {[out |-> 5, wake |-> 0, modes |-> {"play", "read"},
    windows |-> <<[mode |-> "play", start |-> 1, end |-> 4],
                  [mode |-> "read", start |-> 3, end |-> 5],
                  [mode |-> "read", start |-> 5, end |-> 1]>>],
   [out |-> 4, wake |-> 0, modes |-> {"play"},
    windows |-> <<[mode |-> "play", start |-> 2, end |-> 4],
                  [mode |-> "play", start |-> 0, end |-> 3]>>]}

Doc(modes, blocks, bed, sticky, fun, play, things) ==
  [ver |-> 1, modes |-> modes, more |-> {}, blocks |-> blocks, bed |-> bed,
   sticky |-> sticky, fun |-> fun, play |-> play, things |-> things, match |-> {}]

MCPuts ==
  {Doc({Freetime, "play"}, {Block(1, 2, "play")}, Bed(5, 2), FALSE, 2, 0, {"app"}),
   Doc({Freetime}, {}, Bed(4, 2), TRUE, 0, 0, {}),
   Doc({Freetime, "play"}, {Block(0, 2, "play")}, Bed(5, 3), FALSE, 0, 30, {}),
   Doc({Freetime, "play"}, {}, Bed(2, 6), FALSE, 0, 0, {"old"})}

MCOlds ==
  {[Doc({"play"}, {Block(2, 2, "play")}, Bed(4, 2), FALSE, 2, 0, {"old"})
      EXCEPT !.match = {"old"}],
   [Doc({Freetime, "play"}, {}, Bed(4, 2), FALSE, 2, 0, {"old"})
      EXCEPT !.match = {"old"}, !.ver = 3]}
=============================================================================
