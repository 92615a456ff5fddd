------------------------------ MODULE AskBook ------------------------------
(***************************************************************************)
(* What the bank promises about asks: an ask is decided once, only an      *)
(* approval pays, and it pays once.  An approval that is cut short may be  *)
(* forgotten, with the minutes already paid; nothing else ever reopens an  *)
(* ask.                                                                    *)
(***************************************************************************)
EXTENDS Naturals

CONSTANT AskIds

VARIABLES
    status,  \* status[a] \in {"none", "pending", "approved", "denied"}
    paid     \* paid[a]: how often the seconds of a were put on the clock

Init == /\ status = [a \in AskIds |-> "none"]
        /\ paid = [a \in AskIds |-> 0]

Ask(a) == /\ status[a] = "none"
          /\ status' = [status EXCEPT ![a] = "pending"]
          /\ UNCHANGED paid

Approve(a) == /\ status[a] = "pending"
              /\ status' = [status EXCEPT ![a] = "approved"]
              /\ paid' = [paid EXCEPT ![a] = @ + 1]

\* One ask is denied, or time given otherwise dismisses all that wait.
Deny(some) == /\ \A a \in some : status[a] = "pending"
              /\ status' = [a \in AskIds |-> IF a \in some THEN "denied"
                                                           ELSE status[a]]
              /\ UNCHANGED paid

\* The decision is lost between the payment and its record.
Forget(a) == /\ status[a] = "approved"
             /\ status' = [status EXCEPT ![a] = "pending"]
             /\ UNCHANGED paid

Next == \/ \E a \in AskIds : Ask(a) \/ Approve(a) \/ Forget(a)
        \/ \E some \in SUBSET AskIds : Deny(some)

Spec == Init /\ [][Next]_<<status, paid>>
=============================================================================
